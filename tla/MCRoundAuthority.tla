-------------------------- MODULE MCRoundAuthority --------------------------
(* Small instances of RoundAuthority: three candidates, three validators.  *)
EXTENDS RoundAuthority, TLC

CONSTANTS c1, c2, c3, x, v1, v2, v3

ThreeCandidates == <<c1, c2, c3>>
TheSecond == {c2}
Nobody == {}
AStranger == {x}
ThreeValidators == {v1, v2, v3}
Sym == Permutations(ThreeValidators)
OnlyAgreed == {TRUE}
BothModes == BOOLEAN
ThreeMiners == 1 .. 3
FourMiners == 1 .. 4
=============================================================================
