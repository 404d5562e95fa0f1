---------------------------- MODULE ProductJudge ----------------------------
(***************************************************************************)
(* The product judge: one worker thread that scores a coordinate's base    *)
(* against its candidate on one resident network, and the gate in front of *)
(* it that the coordinator's loop submits to and polls.                    *)
(*                                                                         *)
(* The weights of a coordinate are a number; each candidate and each moved *)
(* base gets a new one.  A verdict is a boolean that the measured losses   *)
(* decide; an accepting one keeps the networks its arms were measured on.  *)
(* net is the network as the worker patches it; measured are the bases for *)
(* which ce_before is kept, each with the network it was measured on.      *)
(***************************************************************************)
EXTENDS Integers, Sequences, SequencesExt, FiniteSets

CONSTANTS
  Coords,
  MaxRejudges,
  MaxWeights             \* bound: weights ever numbered

None == -1
Keys == [coord : Coords, base : 0..MaxWeights, cand : 1..MaxWeights]

VARIABLES
  base,                  \* the lane's weights of each coordinate
  cand,                  \* the candidate its loop has parked, or None
  count,                 \* weights numbered so far
  queue, inflight, done, attempts, \* JudgeGate; done: [key -> verdict]
  pc,                    \* the worker: "wait", "build", "base", "candidate", "restore", "hung"
  net, measured,         \* ProductJudge: the resident rows, _base_ce
  before, after,         \* the networks of this pair's arms
  broken                 \* some pair has failed after it had patched the network

gate == <<queue, inflight, done, attempts>>
judge == <<net, measured, before, after, broken>>
vars == <<base, cand, count, gate, pc, judge>>

Pack == [c \in Coords |-> 0]     \* the rows of the layer pack
NoKey == [coord |-> None, base |-> None, cand |-> None]
Job(k, b, w) == [key |-> k, coord |-> k.coord, base |-> b, cand |-> w]
NoJob == Job(NoKey, None, None)

Init ==
  /\ base = Pack /\ cand = [c \in Coords |-> None] /\ count = 0
  /\ queue = <<>> /\ inflight = NoJob /\ done = [k \in {} |-> 0] /\ attempts = [c \in Coords |-> {}]
  /\ pc = "wait" /\ net = Pack /\ measured = {} /\ before = Pack /\ after = Pack
  /\ broken = FALSE

-----------------------------------------------------------------------------
\* The loop of the coordinator.

\* mutant: the fingerprint of the candidate alone
KeyOfCandidate(c) == [coord |-> c, base |-> 0, cand |-> cand[c]]
\* candidate_key: the coordinate, its base and its candidate.
Key(c) == [coord |-> c, base |-> base[c], cand |-> cand[c]]

\* A merge leaves a candidate behind.
Propose(c) ==
  /\ cand[c] = None /\ count < MaxWeights /\ count' = count + 1
  /\ cand' = [cand EXCEPT ![c] = count + 1]
  /\ UNCHANGED <<base, gate, pc, judge>>

\* The base moves under a parked candidate.
MoveBase(c) ==
  /\ cand[c] # None /\ count < MaxWeights /\ count' = count + 1
  /\ base' = [base EXCEPT ![c] = count + 1]
  /\ UNCHANGED <<cand, gate, pc, judge>>

Known(k) == k \in DOMAIN done \/ \E j \in ToSet(queue) \cup {inflight} : j.key = k

\* submit: what is known is not queued twice, and a coordinate has only so many.
Submit(c) ==
  /\ cand[c] # None /\ ~Known(Key(c))
  /\ Key(c) \in attempts[c] \/ Cardinality(attempts[c]) < MaxRejudges
  /\ attempts' = [attempts EXCEPT ![c] = @ \cup {Key(c)}]
  /\ queue' = Append(queue, Job(Key(c), base[c], cand[c]))
  /\ UNCHANGED <<base, cand, count, inflight, done, pc, judge>>
SubmitRefused(c) ==
  /\ cand[c] # None /\ ~Known(Key(c))
  /\ Key(c) \notin attempts[c] /\ Cardinality(attempts[c]) >= MaxRejudges
  /\ cand' = [cand EXCEPT ![c] = None]
  /\ UNCHANGED <<base, count, gate, pc, judge>>

\* forget: the verdicts of a coordinate go, once one of them has been acted on.
Forget(c) == done' = [k \in {j \in DOMAIN done : j.coord # c} |-> done[k]]

\* poll: an accepted candidate becomes the base; a rejected one goes.
Poll(c) ==
  /\ cand[c] # None /\ Key(c) \in DOMAIN done
  /\ base' = IF done[Key(c)].accept THEN [base EXCEPT ![c] = cand[c]] ELSE base
  /\ cand' = [cand EXCEPT ![c] = None] /\ Forget(c)
  /\ UNCHANGED <<count, queue, inflight, attempts, pc, judge>>

-----------------------------------------------------------------------------
\* The worker.

Take ==
  /\ pc = "wait" /\ queue # <<>>
  /\ inflight' = Head(queue) /\ queue' = Tail(queue) /\ pc' = "build"
  /\ UNCHANGED <<base, cand, count, done, attempts, judge>>

\* A verdict, and the worker waits again.
Rule(v) ==
  /\ done' = [k \in DOMAIN done \cup {inflight.key} |-> IF k = inflight.key THEN v ELSE done[k]]
  /\ inflight' = NoJob /\ pc' = "wait"
  /\ UNCHANGED <<base, cand, count, queue, attempts>>

\* mutant: a pair that failed leaves no verdict
FailSilent == inflight' = NoJob /\ pc' = "wait" /\ UNCHANGED <<base, cand, count, queue, done, attempts>>
Rejection == [accept |-> FALSE, before |-> Pack, after |-> Pack]
\* FAIL CLOSED: a pair that raised is a rejection.
Fail == Rule(Rejection)

\* ensure_built: a failed build leaves nothing behind.
Build ==
  /\ pc = "build" /\ pc' = "base"
  /\ UNCHANGED <<base, cand, count, gate, judge>>
BuildRaises ==
  /\ pc = "build" /\ Fail
  /\ net' = Pack /\ measured' = {} /\ UNCHANGED <<before, after, broken>>

At(w) == [net EXCEPT ![inflight.coord] = w]

\* mutant: every base measured stays measured
KeepsAll(m) == measured \cup {m}
\* "one cached number, only the latest base"
Keeps(m) == {m}

\* The base arm: a base whose loss is kept is not measured again.
Kept == {m \in measured : m.coord = inflight.coord /\ m.base = inflight.base}
BaseArm ==
  /\ pc = "base" /\ pc' = "candidate"
  /\ IF Kept # {}
     THEN before' = (CHOOSE m \in Kept : TRUE).net /\ UNCHANGED <<net, measured>>
     ELSE /\ net' = At(inflight.base)
          /\ before' = net'
          /\ measured' = Keeps([coord |-> inflight.coord, base |-> inflight.base, net |-> net'])
  /\ UNCHANGED <<base, cand, count, gate, after, broken>>
\* The pass fails with the base in place and its loss not measured.
BaseArmRaises ==
  /\ pc = "base" /\ Kept = {} /\ Fail /\ broken' = TRUE
  /\ net' = At(inflight.base) /\ UNCHANGED <<measured, before, after>>

CandidateArm ==
  /\ pc = "candidate" /\ pc' = "restore"
  /\ net' = At(inflight.cand) /\ after' = net'
  /\ UNCHANGED <<base, cand, count, gate, measured, before, broken>>
\* The pass fails with the candidate in place.
CandidateArmRaises ==
  /\ pc = "candidate" /\ Fail /\ broken' = TRUE
  /\ net' = At(inflight.cand) /\ before' = Pack /\ UNCHANGED <<measured, after>>

\* mutant: the candidate stays in the network
Leaves == net
\* "Leave the network on the BASE again"
Restored == At(inflight.base)

\* The loss decides, and the base is put back.
Verdict(accept) ==
  /\ pc = "restore" /\ net' = Restored
  /\ Rule(IF accept THEN [accept |-> TRUE, before |-> before, after |-> after] ELSE Rejection)
  /\ before' = Pack /\ after' = Pack /\ UNCHANGED <<measured, broken>>

Hang ==
  /\ pc \in {"base", "candidate"} /\ pc' = "hung"
  /\ UNCHANGED <<base, cand, count, gate, judge>>

Loop(c) == Submit(c) \/ SubmitRefused(c) \/ Poll(c)
Worker ==
  \/ Take
  \/ Build
  \/ BuildRaises
  \/ BaseArm
  \/ BaseArmRaises
  \/ CandidateArm
  \/ CandidateArmRaises
  \/ \E accept \in BOOLEAN : Verdict(accept)
Next ==
  \/ \E c \in Coords : Propose(c) \/ MoveBase(c) \/ Loop(c)
  \/ Worker
  \/ Hang

Fairness == WF_vars(Worker) /\ \A c \in Coords : WF_vars(Loop(c))
Spec == Init /\ [][Next]_vars /\ Fairness

-----------------------------------------------------------------------------
\* Properties.

\* The pairs whose verdict is to take the candidate.
Accepted == {k \in DOMAIN done : done[k].accept}

\* "a verdict can never be applied to a candidate it was not computed for": a base moves
\* by a verdict only if its two arms were that base and that candidate, however often
\* the base moved while the pair was queued or judged.
RuledOnOwn ==
  \A c \in Coords : cand[c] # None /\ Key(c) \in Accepted =>
    /\ done[Key(c)].before[c] = base[c]
    /\ done[Key(c)].after[c] = cand[c]

\* "Score BASE vs BASE+DELTA": the two arms of a verdict were measured on networks that
\* differ in the judged coordinate only, though one loss may be a kept one.
SameElsewhere ==
  \A k \in Accepted : \A c \in Coords \ {k.coord} : done[k].before[c] = done[k].after[c]

\* It holds as long as no pair has failed after it had patched the network.
ArmsAgree == ~broken => SameElsewhere

\* A pair starts on a network of bases: of each coordinate, one it was judged on.
NetOfBases ==
  pc = "build" => \A c \in Coords : net[c] = 0 \/ \E k \in attempts[c] : net[c] = k.base
\* "the resident weights never silently carry a rejected candidate into the following
\* verdict": so they do not, as long as no pair has failed in an arm.
CarriesBases == ~broken => NetOfBases

\* "the caller always makes progress": every candidate is ruled on or refused, whatever
\* moves under it and however pairs fail, unless a pair never ends.
EveryoneRuled(c) ==
  [](pc # "hung") => ((cand[c] # None) ~> (cand[c] = None))

\* "A worker that raises, OOMs or exceeds its wall budget still produces a verdict": the
\* budget is that of wait alone, and a loop that polls waits for ever.
RuledWithinBudget(c) == (cand[c] # None) ~> (cand[c] = None)

\* "a base that keeps moving under a coordinate must not be able to spin the judge": a
\* coordinate is refused for the candidates of this base only.  Attempts are never
\* forgotten, so one that was ruled on MaxRejudges times is refused for good.
RefusedForMoving ==
  [][\A c \in Coords : SubmitRefused(c) => \A k \in attempts[c] : k.cand = cand[c]]_vars

\* What a verdict stands for: the arms were the judged base and candidate on networks
\* that agree elsewhere, and the network left behind is one of bases.
VerdictsHold == RuledOnOwn /\ ArmsAgree /\ CarriesBases
=============================================================================
