SPECIFICATION Spec
CONSTANTS
  System = sys
  Self = m
  Modules = {sys, m}
  Names = {INTEGER, R}
  Predefined = INTEGER
  Decls = {1, 2, 3, 4}
  NoModule = NoModule
  NoDecl = 0
  MaxDecls = 4
  MaxNesting = 2
INVARIANTS LevelIsNesting BodiesSeeRecords ReferencesAreVisible ExportsAreComplete
CHECK_DEADLOCK FALSE
