CONSTANTS
  WorldSize = 3
  Selections <- StoreSelections
SPECIFICATION FairSpec
INVARIANTS
  TypeOK
  NoFalseFailure
  ChecksAgree
  FaultNoticed
  NothingLeft
PROPERTIES
  Completes
