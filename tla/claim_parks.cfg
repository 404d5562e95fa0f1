CONSTANTS
  c1 = c1
  c2 = c2
  Coords <- TwoCoords
  LayerOf <- TwoLayers
  Walk <- Walk12
  StartCoord = c1
  Ladders <- ShortenedLadder
  AdvanceAfter = 1
  Seconds = 2
  Events = 1
  CanBlock = TRUE
  DiskFails = TRUE
  MaxNow = 3
  MaxEvent = 1
  MaxInflight = 1
  MaxResets = 1
SPECIFICATION Spec
CHECK_DEADLOCK FALSE
INVARIANTS ParkSurvives
PROPERTY RestoredParksBounded
