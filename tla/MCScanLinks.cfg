SPECIFICATION Spec
CONSTANTS
  Names <- MCNames
  Parts <- MCParts
  Read <- MCRead
  Nothing = ""
  Write <- MCWrite
  Size <- MCSize
  Legal <- MCLegal
  SegmentSizes <- MCSizes
  Fixed <- MCFixed
  Windows = {"30", "90", "365"}
  DefaultWindow = "365"
  Absent = Absent
  MaxCharacters = 2
  Links <- MCLinks
  Fold <- MCFold
  Label <- MCLabel
  IdName = "1001"
  Taken = {"moe sten", "Ummae"}
  Elsewhere = {"moe sten"}
  TtlHit = 2
  MaxChange = 2
INVARIANTS
  TypeOK
  LinkKeepsScan
  CanonicalSettles
  StaleIsBounded
