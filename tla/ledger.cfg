CONSTANTS
  a1 = a1
  a2 = a2
  Accounts <- TwoAccounts
  MaxSupply = 3
  UnbondingPeriod = 2
  UpgradeWindow = 2
  UpgradeDelay = 1
  ThresholdNum = 2
  ThresholdDen = 3
  BountyDen = 2
  Amounts = {1}
  Pots = {0, 2}
  VotePairs <- OnePair
  CanEquivocate = TRUE
  CanSignal = TRUE
  MaxHeight = 4
  MaxTxs = 2
SPECIFICATION Spec
CHECK_DEADLOCK FALSE
INVARIANTS Conserved BondStaysAtRisk OneCampaign
PROPERTY LockInHeld
