CONSTANTS
  Teams = {{t1}, {t1, t2}}
  Rounds = 3
  Fields = 4
  MaxFailed = 2
  Calls = 2
SPECIFICATION Spec
INVARIANTS
  TypeOK
  EveryFailureListed
  ExactIfAlone
