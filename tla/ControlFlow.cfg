CONSTANTS
    Width = 3
    NoType = NoType
    Nil = Nil
    Base <- MCBase
    Programs <- MCPrograms
    Fuel = 80
SPECIFICATION Spec
INVARIANTS
    BlocksWellFormed
    DoesTheSame
PROPERTIES
    Ends
CHECK_DEADLOCK FALSE
