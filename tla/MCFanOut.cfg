SPECIFICATION Spec
CONSTANTS
  w1 = w1
  w2 = w2
  i1 = i1
  i2 = i2
  Workers <- TwoWorkers
  Ids <- TwoIds
  MaxParallel = 2
  TtlHit = 2
  TtlMiss = 1
  Deadline = 1
  Expires = 1
SYMMETRY Symmetry
INVARIANTS
  TypeOK
  EveryoneAnswered
  AnswersKept
  MissIsBrief
PROPERTIES
  MissNeedsOverlap
