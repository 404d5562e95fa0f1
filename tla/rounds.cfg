CONSTANTS
  c1 = c1
  c2 = c2
  c3 = c3
  x = x
  v1 = v1
  v2 = v2
  v3 = v3
  Candidates <- ThreeCandidates
  Strangers <- AStranger
  Mistaken <- TheSecond
  TimeoutM = 2
  Reward = 2
  AgreedFailover <- BothModes
  MaxRound = 2
  MaxProposals = 3
  Validators <- ThreeValidators
  StakeOf = NoStakes
  QuorumM = 2
  Miners <- ThreeMiners
  MaxSupply = 3
  CoordKey = CoordKey
  NoMiner = NoMiner
  NoQuorum = NoQuorum
  NoStakes = NoStakes
SPECIFICATION Spec
CHECK_DEADLOCK FALSE
INVARIANTS PrimaryKept ExportVerifies
PROPERTY OneLog
