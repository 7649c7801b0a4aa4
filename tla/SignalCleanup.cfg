CONSTANTS
  Thread = {0, 1, 2}
  NumSignals = 2
  Scripts <- Ring
  MaxSpurious = 0
SPECIFICATION Spec
INVARIANTS
  CleanupSucceeds
