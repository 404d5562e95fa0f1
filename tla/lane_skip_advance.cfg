CONSTANTS
  c1 = c1
  c2 = c2
  c3 = c3
  Coords <- ThreeCoords
  Seeds <- OnlyC3
  MaxEvents = 3
  MaxRows = 1
  MaxRuns = 1
  Scoped = TRUE
  InitSlots <- TwoCoords
  WalkOrder <- Walk12
  StartCoord = c1
  MaxSeats = 2
  CanAdvance = TRUE
SPECIFICATION Spec
PROPERTIES
  LineageSkipIsLeftover
