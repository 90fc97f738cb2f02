SPECIFICATION Spec
CONSTANTS
  System = "SYSTEM"
  Modules = {"SYSTEM", "A", "B", "C"}
  Names = {"Item"}
  Item = "Item"
  Decls = {1, 2, 3}
  NoModule = NoModule
  NoDecl = 0
  Files = {"A", "B", "C"}
  Texts <- SomeTexts
  Output = "out"
  Commands <- SomeCommands
  NoText = NoText
  MaxRuns = 3
INVARIANTS SuccessBuildsEverything ObjectsHaveSymbols SafeAlone
PROPERTIES NothingAfterAnError
CHECK_DEADLOCK FALSE
