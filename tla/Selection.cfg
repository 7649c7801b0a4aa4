CONSTANTS
  c0 = c0
  c1 = c1
  c2 = c2
  ListMax = 4
  Class = {c0, c1, c2}
  Member <- MCMember
  Usages <- Orderly
  MaxTokens = 4
SPECIFICATION Spec
INVARIANTS
  TypeOK
  SelectedAsAsked
  ListedOnce
  NeverNegative
