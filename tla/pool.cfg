SPECIFICATION Spec
CONSTANTS
  c1 = c1 c2 = c2 a = a b = b v1 = v1 v2 = v2 v3 = v3 p = p r1 = r1
  Validators = {v1, v2, v3}
  StakeOf = NoStakes NoStakes = NoStakes NoMiner = NoMiner NoQuorum = NoQuorum
  QuorumM = 2
  Miners = {a, b}
  MaxSupply = 30
  CoordKey = CoordKey
  Records <- MCRecords
  Author <- MCAuthor
  Primary = p
  Replicas = {r1}
  RegistryPosture = "enforce"
  RequireSig = FALSE
  CorpusEnforce = FALSE
  GraceS = 1
  GraceMaxS = 1
  BatchMax = 2
  CommitteeMode = "enforce"
  Strict = TRUE
  MinCohort = 2
  Cohorts <- MCCohorts
  Liars = {v1}
  SettleMode = "enforce"
  Gains <- MCGains
  MaxRound = 2
  MaxRestarts = 1
CHECK_DEADLOCK FALSE
INVARIANTS PaidRight  WaitBounded
PROPERTY SquatterYields
