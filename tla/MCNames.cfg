SPECIFICATION FairSpec
CONSTANTS
  i1 = i1
  i2 = i2
  i3 = i3
  i4 = i4
  Ids <- FourIds
  BulkMax = 3
  Flaky = FALSE
INVARIANTS
  TypeOK
  EveryIdAnswered
  NeverReasked
  DeadIdCost
PROPERTIES
  CallEnds
  LookupSpec
