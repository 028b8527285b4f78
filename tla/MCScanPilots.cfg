SPECIFICATION Spec
CONSTANTS
  w1 = w1
  w2 = w2
  ip = ip
  long_ip = long_ip
  no_ip = no_ip
  edge = edge
  moe = moe
  nobody = nobody
  Workers <- OneWorker
  Headers <- NoAddress
  Address <- MCAddress
  Unusable = Unusable
  RemoteAddr = edge
  Pilots <- TwoPilots
  Known <- OnePilot
  Parts <- ThreeParts
  Modes = {"page", "targets"}
  RedisFails = TRUE
  Flaky = TRUE
INVARIANT TypeOK NamesPayToken UnresolvedIsTrue
