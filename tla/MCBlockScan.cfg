SPECIFICATION BlockSpec
CONSTANTS
  Wide = 4
  Narrow = 2
  Scans <- MCScans
  MaxSize = 13
  MaxFrom = 2
  MaxHits = 2
INVARIANTS
  LandsAtFirst
  LoadsInBounds
