SPECIFICATION Spec
CONSTANTS
  w1 = w1
  w2 = w2
  ip = ip
  long_ip = long_ip
  no_ip = no_ip
  edge = edge
  moe = moe
  nobody = nobody
  Workers <- TwoWorkers
  Headers <- OneAddress
  Address <- MCAddress
  Unusable = Unusable
  RemoteAddr = edge
  Pilots <- OnePilot
  Known <- OnePilot
  Parts <- OnePart
  Modes = {"page"}
  RedisFails = FALSE
  Flaky = TRUE
SYMMETRY WorkerSymmetry
INVARIANT OneLookupAClient EmptyMapIsNews RepeatIsFree
