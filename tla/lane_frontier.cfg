CONSTANTS
  c1 = c1
  c2 = c2
  c3 = c3
  Coords <- TwoCoords
  Seeds <- OnlyC2
  MaxEvents = 2
  MaxRows = 2
  MaxRuns = 2
  Scoped = TRUE
  InitSlots <- OnlyC1
  WalkOrder <- Walk1
  StartCoord = c1
  MaxSeats = 2
  CanAdvance = FALSE
SPECIFICATION FairSpec
INVARIANTS TypeOK FrontierExact OneRunInBase
PROPERTY KeepsUp
