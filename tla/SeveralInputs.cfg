SPECIFICATION Spec
CONSTANTS
  System = "SYSTEM"
  Modules = {"SYSTEM", "A", "B", "C"}
  Names = {"Item"}
  Item = "Item"
  Decls = {1, 2, 3}
  NoModule = NoModule
  NoDecl = 0
  Files = {"A", "B", "C"}
  Texts <- SomeTexts
  Output = "out"
  Commands <- Plain
  NoText = NoText
  MaxRuns = 2
INVARIANTS SafeTogether
CHECK_DEADLOCK FALSE
