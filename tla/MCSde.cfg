SPECIFICATION Spec
CONSTANTS
  w1 = w1
  w2 = w2
  type = type
  system = system
  None = None
  Workers <- TwoWorkers
  SOURCES <- TwoSources
  MaxVersion = 2
SYMMETRY WorkerSymmetry
INVARIANTS
  TypeOK
  RestartIsRefresh
  WarmIsFresh
PROPERTIES
  TableSpec
