SPECIFICATION Spec
CONSTANTS
  Types <- SomeTypes
  Projects <- SomeProjects
  MaxSelectors = 3
  MaxDepth = 3
INVARIANTS MemoryIsTyped BindingsAreTrue DoesWhatIsMeant
CHECK_DEADLOCK FALSE
