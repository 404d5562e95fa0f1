------------------------------ MODULE VramTuner ------------------------------
(***************************************************************************)
(* The optional VRAM manager of a miner: a thread that reads the free      *)
(* memory once a period and from that one figure moves the ceiling, the    *)
(* capacity it reports and the number of units it believes to hold; and    *)
(* the round loop, which stops while that number is zero.                  *)
(*                                                                         *)
(* Amounts are tenths of a GiB.  The resident model is not rebuilt on a    *)
(* resize (a seam in the code), so what the miner holds once loaded stays. *)
(***************************************************************************)
EXTENDS Integers, Sequences

CONSTANTS
  Card, ExtLevels,
  Weights,               \* what the model of this miner takes
  Base, PerUnit,         \* the manager's cost model
  UserHeadroom, MinUnits, MaxUnits,
  Patience

TunerAssumption ==
  /\ {Card, Weights, Base, UserHeadroom, MinUnits, MaxUnits} \cup ExtLevels \subseteq Nat
  /\ PerUnit \in Nat \ {0} /\ Patience \in Nat \ {0} /\ MinUnits <= MaxUnits

VARIABLES
  ext, held,
  cap, reported, units,
  primed, streak, floor, \* floor is 0 where the code has None
  pc,                    \* "start", "ready", "paused", "training"
  history                \* the targets of the last Patience ticks

vars == <<ext, held, cap, reported, units, primed, streak, floor, pc, history>>
tuner == <<units, primed, streak, floor, history>>

Lower(a, b) == IF a <= b THEN a ELSE b
Higher(a, b) == IF a >= b THEN a ELSE b
Free == Higher(Card - ext - held, 0)
Footprint(u) == Base + u * PerUnit

\* mutant: all that is free
TargetOfAll(free) ==
  LET fit == (free - UserHeadroom - Base) \div PerUnit
      u == Higher(MinUnits, Lower(fit, MaxUnits))
  IN IF u > fit THEN 0 ELSE u
\* target_units: what fits into nine tenths of free beyond the owner's share; 0 is a
\* pause, also where the least number of units would not fit.
Target(free) ==
  LET budget == free * 9 - (UserHeadroom + Base) * 10
      fit == budget \div (PerUnit * 10)
      u == Higher(MinUnits, Lower(fit, MaxUnits))
  IN IF u * PerUnit * 10 > budget THEN 0 ELSE u

\* cap_gib, in tenths of the unit, without an override.
Cap(free) == Lower(free * 9, Footprint(MaxUnits) * 15)

\* The capacity is read before the first tick as min_units.
Init ==
  /\ ext \in ExtLevels /\ held = 0 /\ pc = "start"
  /\ cap = Cap(Free) /\ reported = 0 /\ units = MinUnits
  /\ primed = FALSE /\ streak = 0 /\ floor = 0 /\ history = <<>>

Others(e) ==
  /\ e # ext /\ e + held <= Card /\ ext' = e
  /\ UNCHANGED <<held, cap, reported, tuner, pc>>

LastOf(s) == IF Len(s) > Patience THEN Tail(s) ELSE s

\* mutant: a level counts as held as soon as the last tick shows it
GrowTo(t) == t
\* _grow_floor: the least target of the streak.
GrowFloor(t) == IF streak = 0 THEN t ELSE Lower(floor, t)

\* tick: adopt at first, shrink at once, grow once higher targets have lasted.
Tick(t) ==
  /\ primed' = TRUE /\ history' = LastOf(Append(history, t))
  /\ \/ /\ ~primed \/ t <= units
        /\ units' = t /\ streak' = 0 /\ floor' = 0
     \/ /\ primed /\ t > units /\ streak + 1 < Patience
        /\ streak' = streak + 1 /\ floor' = GrowFloor(t) /\ UNCHANGED units
     \/ /\ primed /\ t > units /\ streak + 1 >= Patience
        /\ units' = GrowFloor(t) /\ streak' = 0 /\ floor' = 0

\* run: one reading for the ceiling, the report and the resize.
ManagerTick ==
  /\ cap' = Cap(Free) /\ reported' = Target(Free) /\ Tick(Target(Free))
  /\ UNCHANGED <<ext, held, pc>>

\* The round loop.
Load ==
  /\ pc = "start" /\ held' = Weights /\ pc' = "ready"
  /\ UNCHANGED <<ext, cap, reported, tuner>>

\* _vram_pause_if_starved with a manager.
Pause ==
  /\ pc \in {"ready", "paused"}
  /\ pc' = IF units > 0 THEN "training" ELSE "paused"
  /\ UNCHANGED <<ext, held, cap, reported, tuner>>

Finish ==
  /\ pc = "training" /\ pc' = "ready"
  /\ UNCHANGED <<ext, held, cap, reported, tuner>>

Loop == Load \/ Pause \/ Finish

Next ==
  \/ \E e \in ExtLevels : Others(e)
  \/ ManagerTick
  \/ Loop

Fairness == WF_vars(ManagerTick) /\ WF_vars(Loop)
Spec == Init /\ [][Next]_vars /\ Fairness

-----------------------------------------------------------------------------
\* Properties.

\* "a single-tick free spike never makes us grab memory that was only briefly free":
\* after the first tick, units grow only to what every one of the last Patience
\* readings allowed.
GrowsWhenHeld ==
  primed /\ units' > units =>
    /\ Len(history') = Patience
    /\ \A k \in 1..Patience : history'[k] >= units'

\* "the hard ceiling always covers the capacity we advertise".
ReportCovered == primed => Footprint(reported) * 10 <= cap \/ reported = 0

\* "the guard's cap, the advertised capacity, and the trained footprint stay
\* consistent": the ceiling leaves room for what the miner already holds.  Free does not
\* count the miner's own weights, and the ceiling is a ceiling on all it holds.
CapCoversHeld == primed => held * 10 <= cap

\* With the others at their least, a miner that could load trains again and again.
ManagedTrains == <>[](\A e \in ExtLevels : ext <= e) => []<>(pc = "training")
=============================================================================
