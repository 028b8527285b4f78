SPECIFICATION FairSpec
CONSTANTS
  c1 = c1
  c2 = c2
  Callers <- TwoCallers
  Routes <- AnyLimiter
  Limit <- Limit201
  Cost <- EvenCosts
  MaxCost <- MaxCost1
  Window <- Window21
  Fallback = 2
  ResetSlack <- ExactReset
  MayOmitReset <- ErrorLimiter
  NoHeader <- Absent
  MaxLost = 0
INVARIANTS
  TypeOK
  OneOvershootEach
  SpentIsKnown
  NeverExhausted
PROPERTIES
  BreakerCloses
