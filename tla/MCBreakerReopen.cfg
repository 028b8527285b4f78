SPECIFICATION TripsSpec
CONSTANTS
  c1 = c1
  c2 = c2
  Callers <- TwoCallers
  Routes <- AnyLimiter
  Limit <- Limit103
  Cost <- BothCosts
  MaxCost <- MaxCost5
  Window <- Window21
  Fallback = 1
  ResetSlack <- ExactReset
  MayOmitReset <- NoLimiter
  NoHeader <- Absent
  MaxLost = 0
SYMMETRY CallerSymmetry
INVARIANTS
  ShutUntilReset
