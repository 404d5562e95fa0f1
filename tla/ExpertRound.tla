----------------------------- MODULE ExpertRound -----------------------------
(***************************************************************************)
(* A local round of a contributor on one expert: low-rank factors are      *)
(* attached to the expert's layer, trained for a number of steps, the best *)
(* of the states measured on the way is published, and the layer is plain  *)
(* again.  The round may fail for want of memory at any point; the next    *)
(* one is then shorter.                                                    *)
(*                                                                         *)
(* A state of the factors is the number of steps trained into them, 0      *)
(* being no change of the weights.  A measurement is a loss at the         *)
(* strength the merge applies the delta with, and one at full strength.    *)
(***************************************************************************)
EXTENDS Integers, FiniteSets, FiniteSetsExt

CONSTANTS
  Layers,          \* one coordinate of each
  Inert,           \* those whose router never selects it
  Inner,           \* the number of steps asked for
  Losses,
  MaxFails         \* bound: failures for want of memory

Every == 8         \* a state is measured every so many steps
Inf == 1000000

RoundAssumption == Losses \subseteq Int /\ \A v \in Losses : v < Inf

VARIABLES
  wraps,           \* what sits on each layer: "none", or factors "zero" or "trained"
  pc,              \* "idle", "attach", "first", "step", "eval", "end", "dead"
  layer, inner,
  step, trained,
  best, bestVal,   \* the state kept, and its loss
  judged,          \* the states measured this round, with the loss at merge strength
  sent,            \* the state published by the last round, -1 when none
  why,             \* why the process ended
  fails

vars == <<wraps, pc, layer, inner, step, trained, best, bestVal, judged, sent, why, fails>>
round == <<step, trained, best, bestVal, judged>>

Fresh == step' = 0 /\ trained' = 0 /\ best' = 0 /\ bestVal' = Inf /\ judged' = {}

Init ==
  /\ wraps = [l \in Layers |-> "none"] /\ pc = "idle" /\ layer \in Layers /\ inner \in Inner
  /\ step = 0 /\ trained = 0 /\ best = 0 /\ bestVal = Inf /\ judged = {}
  /\ sent = -1 /\ why = "" /\ fails = 0

Ends(reason) == pc' = "dead" /\ why' = reason

\* mutant: a leaked wrapper is taken for the layer
UnwrappedNot == wraps[layer]
\* The defensive unwrap.
Unwrapped == "none"

\* The layer is unwrapped, and a coordinate that no token can reach is refused.  The
\* wrapper of a wrapper has no dimensions and ends the process.
Begin ==
  /\ pc = "idle" /\ Fresh /\ sent' = -1
  /\ wraps' = [wraps EXCEPT ![layer] = Unwrapped]
  /\ IF layer \in Inert THEN Ends("unroutable")
     ELSE IF Unwrapped # "none" THEN Ends("wrapper")
     ELSE pc' = "attach" /\ UNCHANGED why
  /\ UNCHANGED <<layer, inner, fails>>

Attach ==
  /\ pc = "attach" /\ pc' = "first"
  /\ wraps' = [wraps EXCEPT ![layer] = "zero"]
  /\ UNCHANGED <<layer, inner, round, sent, why, fails>>

\* mutant: selection at training strength
SelectedAtFull(merge, full) == full
\* _sel_val: at the strength of the merge.
Selected(merge, full) == merge

\* One measurement of the present state; the best so far is kept.
Measures(merge, full) ==
  /\ judged' = judged \cup {<<trained, merge>>}
  /\ IF Selected(merge, full) < bestVal
     THEN best' = trained /\ bestVal' = Selected(merge, full) ELSE UNCHANGED <<best, bestVal>>

First(merge, full) ==
  /\ pc = "first" /\ Measures(merge, full) /\ pc' = "step"
  /\ UNCHANGED <<wraps, layer, inner, step, trained, sent, why, fails>>

\* One step; a batch that routes no token to the expert is skipped, measurement and all.
Step(routed) ==
  /\ pc = "step" /\ step < inner /\ step' = step + 1
  /\ IF routed
     THEN /\ trained' = trained + 1 /\ wraps' = [wraps EXCEPT ![layer] = "trained"]
          /\ pc' = IF (step + 1) % Every = 0 THEN "eval" ELSE "step"
     ELSE UNCHANGED <<trained, wraps, pc>>
  /\ UNCHANGED <<layer, inner, best, bestVal, judged, sent, why, fails>>

Eval(merge, full) ==
  /\ pc = "eval" /\ Measures(merge, full) /\ pc' = "step"
  /\ UNCHANGED <<wraps, layer, inner, step, trained, sent, why, fails>>

\* mutant: the wrapper stays when the round fails
LeftOnFailure == wraps
\* finally
Detached == [wraps EXCEPT ![layer] = "none"]

\* The best state is restored and published; a round without a single step is refused.
End ==
  /\ pc = "step" /\ step = inner /\ wraps' = [wraps EXCEPT ![layer] = "none"]
  /\ IF trained = 0 THEN Ends("unroutable") /\ UNCHANGED sent
     ELSE sent' = best /\ pc' = "end" /\ UNCHANGED why
  /\ UNCHANGED <<layer, inner, round, fails>>

\* An allocation fails: before the first measurement is under way nothing detaches the
\* wrapper.  The batch is at its floor here, so the number of steps is halved.
OutOfMemory ==
  /\ pc \in {"attach", "first", "step", "eval"} /\ fails < MaxFails /\ fails' = fails + 1
  /\ wraps' \in IF pc = "attach" THEN {wraps, [wraps EXCEPT ![layer] = "zero"]} ELSE {Detached}
  /\ inner' = IF inner > 1 THEN inner \div 2 ELSE 1
  /\ pc' = "idle" /\ Fresh
  /\ UNCHANGED <<layer, sent, why>>

\* The claim stays where it is or moves on.
Claim(l) ==
  /\ pc = "end" /\ pc' = "idle" /\ layer' = l /\ Fresh
  /\ UNCHANGED <<wraps, inner, sent, why, fails>>

\* A new process has a new model.
Restart ==
  /\ pc = "dead" /\ pc' = "idle" /\ why' = "" /\ Fresh /\ sent' = -1
  /\ wraps' = [l \in Layers |-> "none"] /\ inner' \in Inner /\ layer' \in Layers
  /\ UNCHANGED fails

Next ==
  \/ Begin
  \/ Attach
  \/ \E merge, full \in Losses : First(merge, full) \/ Eval(merge, full)
  \/ \E routed \in BOOLEAN : Step(routed)
  \/ End
  \/ OutOfMemory
  \/ \E l \in Layers : Claim(l)
  \/ Restart

Spec == Init /\ [][Next]_vars

-----------------------------------------------------------------------------
\* Properties.

\* "every recoverable training error turned the recovery path into a permanent kill": no
\* failed round leaves behind a wrapper that ends a later one.
NeverWrapsTwice == why # "wrapper"

\* Between rounds the model the re-gate and the replay see is the base: what a failed
\* round may leave on a layer changes no output.
PlainBetweenRounds ==
  pc \in {"idle", "end"} => \A l \in Layers : wraps[l] # "trained"

\* "Predictable acceptance": of the states measured, the one published is the best at the
\* strength the merge applies it with, so it is no worse there than no delta at all.
SendsBest ==
  pc = "end" => \E v \in Losses : <<sent, v>> \in judged /\ \A j \in judged : v <= j[2]

\* "Publishing a zero delta here would be a lie the gate can only reject": a round that
\* trained publishes what it trained.  One of fewer than Every steps measures nothing but
\* the untrained state, and publishes that, whatever it learned.
SendsTrained == pc = "end" /\ inner < Every => sent # 0

\* A process ends only over a coordinate no token can reach.  A round of few steps may
\* route none by chance.
EndsOnInert == why = "unroutable" => layer \in Inert

\* A round of local training, failed or not, leaves the model plain, and one that ends
\* publishes its best measured state.
RoundsClean == NeverWrapsTwice /\ PlainBetweenRounds /\ SendsBest
=============================================================================
