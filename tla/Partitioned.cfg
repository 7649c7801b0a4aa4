CONSTANTS
  WorldSize = 3
  MaxWorkers = 4
  MaxValues = 2
  Plans <- UsualPlans
SPECIFICATION FairSpec
INVARIANTS
  TypeOK
  NoFalseFailure
  Carried
PROPERTIES
  Completes
