SPECIFICATION Spec
CONSTANTS
  System = sys
  Modules = {sys, a}
  Names = {x}
  Decls = {d1, d2}
  NoModule = NoModule
  NoDecl = NoDecl
  MaxLevel = 2
  MaxSymbols = 3
INVARIANTS TypeOK IndicesOK ScopeAlive
PROPERTIES ScopesSurvive ImplementsEnvironment
CHECK_DEADLOCK FALSE
