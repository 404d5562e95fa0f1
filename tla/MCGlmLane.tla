----------------------------- MODULE MCGlmLane -----------------------------
(* Instances of GlmLane for TLC: two or three coordinates, a few events.   *)
EXTENDS GlmLane

CONSTANTS c1, c2, c3

TwoCoords == {c1, c2}
ThreeCoords == {c1, c2, c3}
OnlyC1 == {c1}
OnlyC2 == {c2}
OnlyC3 == {c3}
Walk1 == <<c1>>
Walk12 == <<c1, c2>>
Walk123 == <<c1, c2, c3>>
=============================================================================
