SPECIFICATION Spec
CONSTANTS
  moe = moe
  ann = ann
  Pilots <- OnePilot
  WindowDays <- Windows
  BUCKET_ORDER <- Buckets
  TOP_SHIPS = 2
  TOP_LOCS = 1
  KillTable <- KillsOfRun
  LossTable <- LossesOfRun
  Stored <- AtFirst
  POD_TYPE_IDS <- Pods
  MAX_SCAN_ROWS = 3
  SDE <- Tables
  WH_CLASS <- Classes_
  Warzone <- Contested
  MaxFilters = 2
  FirstToday = 3
  LastToday = 4
INVARIANTS
  TypeOK
  ViewsAgree
  DrillAgrees
  RowsWithinBudget
PROPERTIES
  ClickKeepsTheRow
