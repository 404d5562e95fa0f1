------------------------------ MODULE VramGuard ------------------------------
(***************************************************************************)
(* Miners that share one card: the ceiling each takes before it loads its  *)
(* model, the pause while the card is starved, and the smaller round after *)
(* an allocation that failed.  Amounts are hundredths of a GiB.            *)
(*                                                                         *)
(* held is what a miner has live: nothing, its weights, or its weights and *)
(* a round.  cache is what its allocator keeps of finished rounds; the     *)
(* driver counts both as used.  Everything else on the card is ext.  An    *)
(* allocation past the ceiling fails; one past the physical memory does    *)
(* not, it spills into the host's.                                         *)
(***************************************************************************)
EXTENDS Integers, FiniteSets, FiniteSetsExt

CONSTANTS
  Miners,
  Cards,          \* the sizes a card may have
  ExtLevels,      \* what the other processes may hold
  Need,           \* what the role books
  Weights,        \* what the model takes once loaded
  Work,           \* [batch -> what a round takes on top]
  MaxBatch, MaxInner,
  Asked,          \* NEURAHASH_VRAM_MIN_FREE_GB
  Overlap,        \* two starts may overlap
  MaxExits        \* bound: processes that end and start again

FitMargin == 25

VramAssumption ==
  /\ Cards \cup ExtLevels \subseteq Nat /\ Need \in Nat /\ Weights \in Nat /\ Weights <= Need
  /\ MaxBatch \in Nat \ {0} /\ MaxInner \in Nat \ {0} /\ Asked \in Nat /\ MaxExits \in Nat
  /\ IsFiniteSet(Miners) /\ DOMAIN Work = 1..MaxBatch /\ \A b \in 1..MaxBatch : Work[b] \in Nat

VARIABLES
  card, ext,
  pc,             \* "off", "guarded", "check", "paused", "round", "training"
  cap, baseline,  \* _APPLIED_CAP_GIB, _EXTERNAL_BASELINE_GIB
  held, cache,
  batch, inner,
  tried,          \* _OOM_TRIED
  exits

vars == <<card, ext, pc, cap, baseline, held, cache, batch, inner, tried, exits>>
size == <<batch, inner, tried>>

Init ==
  /\ card \in Cards /\ ext \in ExtLevels
  /\ pc = [m \in Miners |-> "off"]
  /\ cap = [m \in Miners |-> 0] /\ baseline = [m \in Miners |-> 0]
  /\ held = [m \in Miners |-> 0] /\ cache = [m \in Miners |-> 0]
  /\ batch = [m \in Miners |-> MaxBatch] /\ inner = [m \in Miners |-> MaxInner]
  /\ tried = [m \in Miners |-> {}] /\ exits = 0

Quiet == Min(ExtLevels)
Lower(a, b) == IF a <= b THEN a ELSE b
Above0(a) == IF a > 0 THEN a ELSE 0

\* What the driver says is used by all but m, and what is free once m's cache is given back.
UsedByOthers(m) == ext + MapThenSumSet(LAMBDA o : held[o] + cache[o], Miners \ {m})
FreeOf(m) == Above0(card - UsedByOthers(m) - held[m])

\* _plan_vram_cap: a share of what is free, unless the role fits with a margin.
PlanCap(free) ==
  LET c == Lower((free * 9) \div 10, (Need * 3) \div 2)
  IN IF c < Need /\ Need <= free - FitMargin THEN Need ELSE c

\* resolve_start_batch.
StartBatch == Lower(MaxBatch, IF card >= 2400 THEN 16 ELSE IF card >= 1600 THEN 8 ELSE 4)

\* mutant: the bar of 2026-08-03, from the ceiling alone
MinFreeOfCap(m) == Lower(Asked, Above0(card - cap[m]) \div 2)
\* _min_free_vram_gib: half of what an outsider could take beyond what it already had.
MinFree(m) == Lower(Asked, Above0(card - cap[m] - baseline[m]) \div 2)

-----------------------------------------------------------------------------
\* The other processes of the box take and give back memory.
Others(e) ==
  /\ e # ext /\ e + MapThenSumSet(LAMBDA o : held[o] + cache[o], Miners) <= card
  /\ ext' = e
  /\ UNCHANGED <<card, pc, cap, baseline, held, cache, size, exits>>

\* apply_vram_guard: refuse when the ceiling is below the need, else take it.  The
\* probe that tests the ceiling always finds it in force.
Guard(m) ==
  /\ pc[m] = "off" /\ PlanCap(FreeOf(m)) >= Need
  /\ Overlap \/ \A o \in Miners : pc[o] # "guarded"
  /\ cap' = [cap EXCEPT ![m] = PlanCap(FreeOf(m))]
  /\ baseline' = [baseline EXCEPT ![m] = card - FreeOf(m)]
  /\ batch' = [batch EXCEPT ![m] = StartBatch]
  /\ pc' = [pc EXCEPT ![m] = "guarded"]
  /\ UNCHANGED <<card, ext, held, cache, inner, tried, exits>>

\* The model goes onto the card.
Load(m) ==
  /\ pc[m] = "guarded"
  /\ held' = [held EXCEPT ![m] = Weights]
  /\ pc' = [pc EXCEPT ![m] = "check"]
  /\ UNCHANGED <<card, ext, cap, baseline, cache, size, exits>>

\* _pause_on_low_free_vram, before a round and at each poll of a pause: give the own
\* cache back first, then measure.
Measure(m) ==
  /\ pc[m] \in {"check", "paused"}
  /\ cache' = [cache EXCEPT ![m] = 0]
  /\ pc' = [pc EXCEPT ![m] = IF FreeOf(m) >= MinFree(m) THEN "round" ELSE "paused"]
  /\ UNCHANGED <<card, ext, cap, baseline, held, size, exits>>

\* _release_idle_vram_cache: a miner in repair mode gives its cache back and does not train.
Repair(m) ==
  /\ pc[m] = "check" /\ cache[m] # 0
  /\ cache' = [cache EXCEPT ![m] = 0]
  /\ UNCHANGED <<card, ext, pc, cap, baseline, held, size, exits>>

Fits(m) == Weights + Work[batch[m]] <= cap[m]

Train(m) ==
  /\ pc[m] = "round" /\ Fits(m)
  /\ held' = [held EXCEPT ![m] = Weights + Work[batch[m]]]
  /\ pc' = [pc EXCEPT ![m] = "training"]
  /\ UNCHANGED <<card, ext, cap, baseline, cache, size, exits>>

\* A round ends; the allocator keeps its blocks.
Finish(m) ==
  /\ pc[m] = "training"
  /\ held' = [held EXCEPT ![m] = Weights]
  /\ cache' = [cache EXCEPT ![m] = held[m] - Weights]
  /\ pc' = [pc EXCEPT ![m] = "check"]
  /\ UNCHANGED <<card, ext, cap, baseline, size, exits>>

\* mutant: the step count goes first, and the batch stays
BackoffInner(b, h) == IF h > 1 THEN <<b, h \div 2>> ELSE <<b, h>>
\* _oom_backoff: halve the batch, then the steps; at the floor nothing is left to give.
Backoff(b, h) ==
  IF b > 1 THEN <<b \div 2, h>> ELSE IF h > 1 THEN <<b, h \div 2>> ELSE <<b, h>>

\* The round does not fit under the ceiling, or fails for want of memory others took
\* since: the cache is freed and the next attempt is smaller.
OutOfMemory(m) ==
  /\ pc[m] = "round" /\ (~Fits(m) \/ FreeOf(m) < Work[batch[m]])
  /\ tried' = [tried EXCEPT ![m] = @ \cup {<<batch[m], inner[m]>>}]
  /\ batch' = [batch EXCEPT ![m] = Backoff(batch[m], inner[m])[1]]
  /\ inner' = [inner EXCEPT ![m] = Backoff(batch[m], inner[m])[2]]
  /\ cache' = [cache EXCEPT ![m] = 0]
  /\ pc' = [pc EXCEPT ![m] = "check"]
  /\ UNCHANGED <<card, ext, cap, baseline, held, exits>>

\* A process ends, by itself or not, and its memory with it.
Exit(m) ==
  /\ pc[m] # "off" /\ exits < MaxExits /\ exits' = exits + 1
  /\ pc' = [pc EXCEPT ![m] = "off"]
  /\ held' = [held EXCEPT ![m] = 0] /\ cache' = [cache EXCEPT ![m] = 0]
  /\ inner' = [inner EXCEPT ![m] = MaxInner] /\ tried' = [tried EXCEPT ![m] = {}]
  /\ UNCHANGED <<card, ext, cap, baseline, batch>>

Run(m) == Guard(m) \/ Load(m) \/ Measure(m) \/ Train(m) \/ Finish(m) \/ OutOfMemory(m)

Next ==
  \/ \E e \in ExtLevels : Others(e)
  \/ \E m \in Miners : Run(m) \/ Repair(m) \/ Exit(m)

Fairness == \A m \in Miners : WF_vars(Run(m))
Spec == Init /\ [][Next]_vars /\ Fairness

-----------------------------------------------------------------------------
\* Properties.

\* "is something ELSE crowding me out?": a miner stops for want of memory only when
\* the others hold more than they held when it took its ceiling.
PausesForOthers ==
  \A m \in Miners : pc[m] = "check" /\ pc'[m] = "paused" => UsedByOthers(m) > baseline[m]

\* The miners of a card, when they start one after the other, never all wait on memory
\* they hold themselves: once the other processes are back at their least, one of the
\* miners that run finds room.
NeverAllParked ==
  LET on == {m \in Miners : pc[m] # "off"}
  IN on # {} /\ (\A m \in on : pc[m] = "paused") /\ ext = Quiet
       => \E m \in on : FreeOf(m) >= MinFree(m)

\* "refuse to ever re-run a (batch, inner) pair that has already OOM'd", but at the floor.
OomLearns ==
  \A m \in Miners : <<batch[m], inner[m]>> \in tried[m] => batch[m] = 1 /\ inner[m] = 1

\* A card left alone by its other processes is trained on again and again, whatever
\* happened before: no pause and no failing round goes on for ever.
TrainsAtLast ==
  <>[](ext = Quiet) => []<>(\E m \in Miners : pc[m] = "training")

\* "Sizing from CURRENTLY FREE memory makes concurrent launches self-limiting": the
\* miners never take more than the others left.  The ceiling of the first is not yet
\* used when the second measures, so it does not hold.
NeverSpills == MapThenSumSet(LAMBDA o : held[o], Miners) + ext <= card

\* The miners of a card never keep each other out for good, by memory they hold or by a
\* configuration that cannot work.
CardShared == NeverAllParked /\ OomLearns
=============================================================================
