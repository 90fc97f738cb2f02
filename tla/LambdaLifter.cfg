CONSTANTS
    Module = Module
    Integer = Integer
    Literal = Literal
    None = None
    MaxDepth = 4
    Programs <- Nested
    This = "_this"
    Super = "_super"
SPECIFICATION Spec
INVARIANTS
    ReferencesAreClosed
    CallsFit
    LiftedDoesTheSame
CHECK_DEADLOCK FALSE
