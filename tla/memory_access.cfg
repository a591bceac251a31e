CONSTANTS
  Requests <- ThreeLaneRequests
  LineBytes = 128
  Geometries <- SmallCaches
  HitLatency = 4
  MissLatency = 100
  SharedLatency = 4
  MaxUsed = 5
  MaxUsedShared = 1
SPECIFICATION Spec
INVARIANTS
  HitsAreRecentUses
  SlowestLineDecides
  EachLaneServedOnce
  ConflictsAreExtraWords
CHECK_DEADLOCK FALSE
