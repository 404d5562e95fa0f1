----------------------------- MODULE MCGlmClaim -----------------------------
(* Instances of GlmClaim for TLC.  Doses are in hundredths of the campaign's. *)
EXTENDS GlmClaim

CONSTANTS c1, c2

TwoCoords == {c1, c2}
Walk12 == <<c1, c2>>
OneLayer == [c \in TwoCoords |-> 1]
TwoLayers == [c \in TwoCoords |-> IF c = c1 THEN 1 ELSE 2]
NoLadder == {<<100>>}
TwoRungs == {<<100, 33>>}
ShortenedLadder == {<<100, 33>>, <<100>>}
EditedLadder == {<<100, 33, 10>>, <<100, 50>>}
=============================================================================
