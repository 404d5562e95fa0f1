--------------------------- MODULE MCGuardianHalt ---------------------------
(* Instances of GuardianHalt for TLC: two guardians and a foreign key.      *)
EXTENDS GuardianHalt, TLC

CONSTANTS g1, g2, x

TwoGuardians == {g1, g2}
Foreign == {x}
=============================================================================
