SPECIFICATION Spec
CONSTANTS
  System = "SYSTEM"
  Modules = {"SYSTEM", "A", "B", "C"}
  Names <- SomeNames
  NoName = ""
  CharBits = 8
  Hidden = "_"
  Decls <- SomeDecls
  NoModule = NoModule
  NoDecl = 0
  Predefined = "INTEGER"
  Projects <- RoundTripAndReExports
  Aliases = {}
  Recompile = FALSE
INVARIANTS ReadersInSync NoCrash TypesAreUnique ImportsAreFaithful
CHECK_DEADLOCK FALSE
