CONSTANTS
  c1 = c1
  c2 = c2
  Coords <- TwoCoords
  LayerOf <- TwoLayers
  Walk <- Walk12
  StartCoord = c1
  Ladders <- TwoRungs
  AdvanceAfter = 2
  Seconds = 0
  Events = 0
  CanBlock = FALSE
  DiskFails = FALSE
  MaxNow = 0
  MaxEvent = 4
  MaxInflight = 2
  MaxResets = 0
SPECIFICATION Spec
CHECK_DEADLOCK FALSE
INVARIANTS  DoseKept
