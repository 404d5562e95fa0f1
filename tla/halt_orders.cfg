CONSTANTS
  g1 = g1
  g2 = g2
  x = x
  Guardians <- TwoGuardians
  Outsiders <- Foreign
  Threshold = 2
  MaxHalt = 2
  Durations = {1, 3}
  MaxEpoch = 2
  MaxSigned = 4
  LedgerFails = FALSE
SPECIFICATION FairSpec
 
PROPERTIES  HaltEnds
