CONSTANTS
    Bits <- MCBits
    Memories <- MCMemories
    VarType <- MCVarType
    Functions = {"f", "g"}
    Literals <- MCLiterals
    Small = {"y", "s", "i", "l", "r", "d", "f", "g", "t"}
    SmallLiterals <- MCSmallLiterals
    Targets = {"BYTE", "SHORTINT", "INTEGER", "REAL", "LONGREAL", "BOOLEAN"}
    MaxSize = 3
    Undef = Undef
    None = None
SPECIFICATION Spec
INVARIANTS
    CodeIsTyped
    GeneratedIsMeant
    TypesAreMeant
    AssignmentKeepsValue
CHECK_DEADLOCK FALSE
