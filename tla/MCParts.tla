------------------------------ MODULE MCParts ------------------------------
(***************************************************************************)
(* The small instances of the parts for TLC.                               *)
(***************************************************************************)
EXTENDS Parts, TLC

CONSTANTS
  c1, c2, c3,                  \* coordinates
  m1, m2,                      \* miners, or drivers
  val, mono, p0, p1, p2        \* corpus files

\* The corpus: two parts; then a new validation split and a third part; then two parts
\* again, in a record that names a file no miner may fetch; then an undivided corpus.
MCFiles ==
  1 :> (val :> 1 @@ p0 :> 1 @@ p1 :> 1) @@
  2 :> (val :> 2 @@ p0 :> 2 @@ p1 :> 1 @@ p2 :> 1) @@
  3 :> (val :> 3 @@ p0 :> 2 @@ p1 :> 3) @@
  4 :> (val :> 3 @@ mono :> 1)
MCNames == {val, mono, p0, p1, p2}
MCPartName == 0 :> p0 @@ 1 :> p1 @@ 2 :> p2
MCHome == 1 :> 0 @@ 2 :> 1 @@ 3 :> 2

\* The 8 GiB card of the repository's measurements, with 1.07 GiB held by its desktop, and
\* a 16 GiB card on which two miners fit; a batch of 8 fits neither, one of 4 only the
\* first miner's ceiling there.
MCWork ==
  [x \in 1..8 |-> IF x = 1 THEN 20 ELSE IF x <= 2 THEN 60 ELSE IF x <= 4 THEN 340 ELSE 500]

\* A cache of two chunks, a later one of the same campaign, and a shorter one of another.
MCNChunks == <<2, 2, 1>>

\* Caches whose drift rises at three slopes, straight or bent, from a flat start or at
\* once, up to a level, with the edge of stability anywhere from below the smallest probe
\* to far beyond the target.
MCResponses ==
  [slope : {1, 3, 8}, curve : {0, 1, 5}, flat : {0, 9}, top : {30, 100000},
   edge : {1, 3, 8, 20, 47, 400, 3000}]

\* Two drivers over one stage, or one over two: a text of one token, and a prompt beside it.
MCStreamOf == m1 :> c1 @@ m2 :> c2
MCOneStream == m1 :> c1 @@ m2 :> c1     \* two drivers open streams of one name
MCMaxTokens == m1 :> 1 @@ m2 :> 0
MCOpens == <<{m1, m2}, {m1}>>
=============================================================================
