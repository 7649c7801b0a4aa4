CONSTANTS
  Thread = {0, 1, 2, 3}
  NumSignals = 4
  Scripts <- Usual
  MaxSpurious = 1
SPECIFICATION FairSpec
INVARIANTS
  TypeOK
  WaitAfterSend
PROPERTIES
  Ends
