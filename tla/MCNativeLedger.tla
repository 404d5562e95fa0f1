--------------------------- MODULE MCNativeLedger ---------------------------
(* Small instances of NativeLedger: two validators, two or three votes.    *)
EXTENDS NativeLedger, TLC

CONSTANTS a1, a2

TwoAccounts == {a1, a2}
Sym == Permutations(TwoAccounts)
NoVotes == {}
OnePair == {{1, 2}}
ThreePairs == {{1, 2}, {1, 3}, {2, 3}}
=============================================================================
