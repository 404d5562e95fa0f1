------------------------------- MODULE MCPool -------------------------------
(***************************************************************************)
(* Model values for PoolCoordinator.                                        *)
(***************************************************************************)
EXTENDS PoolCoordinator, TLC

CONSTANTS c1, c2, a, b, v1, v2, v3, p, r1

MCRecords ==
  { [name |-> "a", cid |-> c1, declared |-> a, signer |-> a, corpus |-> "ours"],
    [name |-> "b", cid |-> c2, declared |-> b, signer |-> b, corpus |-> "absent"],
    [name |-> "x", cid |-> c1, declared |-> b, signer |-> NoMiner, corpus |-> "ours"] }
MCAuthor == (c1 :> a) @@ (c2 :> b)
MCGains == {0, 12}
MCCohorts == {{v1}, {v1, v2, v3}}

ASSUME MCPoolAssumption == FewLiars /\ OwnSigned /\ SharesWhole
=============================================================================
