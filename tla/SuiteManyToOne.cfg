CONSTANTS
  WorldSize = 3
  MaxThreads = 1
  TagUb = 32767
  Selections <- ManyToOneSelections
SPECIFICATION Spec
INVARIANTS
  NoFalseFailure
