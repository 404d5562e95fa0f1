SPECIFICATION Spec
CONSTANTS
  Picked = {"corpus", "vram", "tuner", "layer", "health", "dose", "judge", "host", "round", "sync", "pipe"}
  c1 = c1 c2 = c2 c3 = c3 m1 = m1 m2 = m2 val = val mono = mono p0 = p0 p1 = p1 p2 = p2
  Miners = {m1, m2} Coords = {c1, c2} WatchedCoord = c1 WatchedMiner = m1 WatchedDriver = m1
  Wrong = Wrong Absent = Absent NoPart = NoPart MaxCrashes = 1 MaxSent = 2
  Names <- MCNames Val = val Mono = mono PartName <- MCPartName Files <- MCFiles
  Home <- MCHome Disallowed = {3}
  Cards = {800, 1600} GuardLevels = {107, 600} Need = 640 ModelSize = 615 Work <- MCWork
  MaxBatch = 8 MaxInner = 2 Asked = 100 Overlap = FALSE MaxExits = 1
  TunerCard = 160 TunerLevels = {10, 30, 40, 60} TunerModel = 53 TunerBase = 40 PerUnit = 11
  TunerHeadroom = 5 MinUnits = 0 MaxUnits = 16 Patience = 3
  NChunks <- MCNChunks Foreign = {3}
  Threshold = 1 RoundWait = 1 MaxShots = 3 ClocksBack = FALSE
  Responses <- MCResponses Targets = {25, 60, 100} Tol = 2 ProbeLr = 8
  MaxBackoff = 3 MaxBracket = 6 MaxBisect = 14 MaxLr = 400
  \* four weights are enough for one coordinate to be judged, accepted and judged again between
  \* two pairs of the other
  MaxRejudges = 2 MaxWeights = 4
  HostCoords = {c1, c2, c3} Views = {TRUE, FALSE} MaxActive = 2 MaxDeltas = 3
  Layers = {1, 2} Inert = {2} Inner = {18, 9} Losses = {1, 2} MaxFails = 2
  Light = {m2} MaxRound = 2 MaxFaults = 1
  Drivers = {m1, m2} Streams = {c1, c2} StreamOf <- MCStreamOf Depths = {1, 2}
  MaxTokens <- MCMaxTokens InOrder = TRUE PipeFaults = 1 Opens <- MCOpens
CHECK_DEADLOCK FALSE
INVARIANTS CorpusKept  VerdictsHold StoreExact  NamesKept 
PROPERTIES CardYielded TrainsAtLast LaneFollowed 
