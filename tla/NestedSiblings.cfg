CONSTANTS
    Module = Module
    Integer = Integer
    Literal = Literal
    None = None
    MaxDepth = 4
    Programs <- Siblings
    This = "_this"
    Super = "_super"
SPECIFICATION Spec
INVARIANTS NestedProceduresRemoved
CHECK_DEADLOCK FALSE
