---------------------------- MODULE MCSelfUpdate ----------------------------
(***************************************************************************)
(* Four commits.  v1 is installed.  v2 ships a new tool and data, v3 drops  *)
(* both and needs other requirements; nobody signs the rogue commit.       *)
(* data is on the never-touch list.                                        *)
(***************************************************************************)
EXTENDS SelfUpdate, TLC

CONSTANTS c1, c2, c3, evil, core, tool, data

MCCommits == {c1, c2, c3, evil}
MCVersionAt == c1 :> 1 @@ c2 :> 2 @@ c3 :> 3 @@ evil :> 9
MCTreeAt ==
  c1 :> (core :> 1 @@ tool :> 1) @@ c2 :> (core :> 1 @@ tool :> 2 @@ data :> 2) @@
  c3 :> (core :> 1) @@ evil :> (core :> 9)
MCDepsAt == c1 :> 1 @@ c2 :> 1 @@ c3 :> 2 @@ evil :> 1
MCPaths == {core, tool, data}
MCNeverTouch == {data}
Offer(c, min, lists, config) == [commit |-> c, min |-> min, lists |-> lists, config |-> config]
MCEditable == {tool, data}
MCOffers == {Offer(c2, 0, TRUE, 1), Offer(c3, 3, TRUE, 2), Offer(c3, 0, FALSE, 0)}
MCClaims == {2, 3}
=============================================================================
