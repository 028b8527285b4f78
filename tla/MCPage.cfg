SPECIFICATION Spec
CONSTANTS
  moe = moe
  nobody = nobody
  year = year
  caps = caps
  Pilots <- OnePilot
  Lists <- JustNobody
  Windows <- OneWindow
  Filters <- OneFilter
  Buckets <- OneBucket
  NoGroup = "none"
  Failures = {"lost", "error"}
  MaxInFlight = 2
INVARIANTS
  TypeOK
  SettledAgrees
  CardsAgree
  SpinnersEnd
PROPERTIES
  CardsSurvive
