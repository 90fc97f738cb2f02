CONSTANTS
    Idents = {"a", "b", "P", "Q", "T", "M"}
    Literals = {"1", "string"}
    Procedures = {"P", "Q"}
    Modules = {"M"}
    Inputs <- MCInputs
    Burst = 32
SPECIFICATION Spec
INVARIANTS
    RoundTrip
    AcceptedIsMeant
    CountsAreBalanced
    UndefinedOnlyAfterError
PROPERTIES
    ParsingEnds
CHECK_DEADLOCK FALSE
