CONSTANTS
  c1 = c1
  c2 = c2
  c3 = c3
  Coords <- ThreeCoords
  Seeds <- OnlyC1
  MaxEvents = 2
  MaxRows = 2
  MaxRuns = 1
  Scoped = TRUE
  InitSlots <- OnlyC1
  WalkOrder <- Walk123
  StartCoord = c1
  MaxSeats = 2
  CanAdvance = TRUE
SPECIFICATION Spec
INVARIANTS
  
  TrainsUnparked
