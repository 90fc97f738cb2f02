CONSTANTS
    CharBits = 4
    ShortBits = 4
    IntBits = 6
    LongBits = 8
    FloatLow <- MCFloatLow
    FloatHigh = 0
    DoubleLow <- MCDoubleLow
    DoubleHigh = 1
    Files <- MCFiles
SPECIFICATION Spec
INVARIANTS
    TokensAreLongest
    NothingIsLost
    TokensAreMeant
    PositionsAreExact
PROPERTIES
    ScanningEnds
CHECK_DEADLOCK FALSE
