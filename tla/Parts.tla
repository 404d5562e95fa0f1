------------------------------- MODULE Parts -------------------------------
(***************************************************************************)
(* Parts of a node that share no state with each other, side by side: the  *)
(* initial state picks the part, and nothing but its actions happens.      *)
(* Picked names those it may pick.                                         *)
(*                                                                         *)
(* The other parts stay in an initial state.                               *)
(***************************************************************************)
EXTENDS Integers, Sequences, FiniteSets

CONSTANTS
  Picked,
  Miners, Coords,
  Absent, Wrong, MaxCrashes, MaxSent,     \* see the parts that share them
  \* CorpusSync
  Names, Val, Mono, PartName, Files, Home, Disallowed, NoPart,
  \* VramGuard
  Cards, GuardLevels, Need, ModelSize, Work, MaxBatch, MaxInner, Asked, Overlap, MaxExits,
  \* VramTuner
  TunerCard, TunerLevels, TunerModel, TunerBase, PerUnit, TunerHeadroom, MinUnits, MaxUnits,
  Patience,
  \* LayerClaim
  NChunks, Foreign,
  \* LaneHealth
  Threshold, RoundWait, MaxShots, ClocksBack,
  \* DoseSearch
  Responses, Targets, Tol, ProbeLr, MaxBackoff, MaxBracket, MaxBisect, MaxLr,
  \* ProductJudge
  MaxRejudges, MaxWeights,
  \* ExpertHost
  HostCoords, Views, MaxActive, MaxDeltas,
  \* ExpertRound
  Layers, Inert, Inner, Losses, MaxFails,
  \* SyncRound
  Light, MaxRound, MaxFaults,
  \* PipeStages
  Drivers, Streams, StreamOf, Depths, MaxTokens, InOrder, PipeFaults,
  Opens,                              \* bound: who may open a stream, for each depth
  WatchedCoord, WatchedMiner, WatchedDriver       \* those whose progress is stated

VARIABLES
  which,           \* the part that runs
  adv, disk, base, part, total, corpusPc, job, cand, rec, todo, mapped, regate,
  crashes,
  card, ext, vramPc, cap, baseline, held, cache, batch, inner, tried, exits,
  tunerExt, tunerHeld, tunerCap, reported, units, primed, streak, floor, tunerPc,
  history,
  store, writing, nwritten, layerAdv, settled, local, layerPc, layerRec, at, used,
  own, trainedOn, left, layerCrashes,
  shots, stamp, clock, dead, healthSettled, healthPc, view, high, seen, idle, stale,
  folded, quiet, late, names, sent, firstSent, publishK, taken, healthCrashes,
  response, target, dosePc, lr, rho, lo, hi, tries, finite,
  judgeBase, judgeCand, count, queue, inflight, done, attempts, judgePc, net,
  measured, before, after, broken,
  views, slots, active, model, hostBase, inRound, experts, hostBatch, hostPc, start,
  accepted, hostCount,
  wraps, roundPc, layer, roundInner, step, trained, best, bestVal, judged,
  roundSent, why, fails,
  log, up, runs, merges, syncNames, syncPc, syncBase, applied, doneLast, rnd, root,
  syncRec, syncSent, man, drifted, faults,
  depth, listing, content, pipePc, seg, got, pipeTodo, pipeSeen, ended, pipeCache, lost,
  restarts

corpusVars ==
  <<adv, disk, base, part, total, corpusPc, job, cand, rec, todo, mapped, regate,
  crashes>>
vramVars ==
  <<card, ext, vramPc, cap, baseline, held, cache, batch, inner, tried, exits>>
tunerVars ==
  <<tunerExt, tunerHeld, tunerCap, reported, units, primed, streak, floor, tunerPc,
  history>>
layerVars ==
  <<store, writing, nwritten, layerAdv, settled, local, layerPc, layerRec, at, used,
  own, trainedOn, left, layerCrashes>>
healthVars ==
  <<shots, stamp, clock, dead, healthSettled, healthPc, view, high, seen, idle,
  stale, folded, quiet, late, names, sent, firstSent, publishK, taken, healthCrashes>>
doseVars == <<response, target, dosePc, lr, rho, lo, hi, tries, finite>>
judgeVars ==
  <<judgeBase, judgeCand, count, queue, inflight, done, attempts, judgePc, net,
  measured, before, after, broken>>
hostVars ==
  <<views, slots, active, model, hostBase, inRound, experts, hostBatch, hostPc,
  start, accepted, hostCount>>
roundVars ==
  <<wraps, roundPc, layer, roundInner, step, trained, best, bestVal, judged,
  roundSent, why, fails>>
syncVars ==
  <<log, up, runs, merges, syncNames, syncPc, syncBase, applied, doneLast, rnd, root,
  syncRec, syncSent, man, drifted, faults>>
pipeVars ==
  <<depth, listing, content, pipePc, seg, got, pipeTodo, pipeSeen, ended, pipeCache, lost,
  restarts>>
vars ==
  <<which, corpusVars, vramVars, tunerVars, layerVars, healthVars, doseVars, judgeVars,
  hostVars, roundVars, syncVars, pipeVars>>

-----------------------------------------------------------------------------
Corpus == INSTANCE CorpusSync WITH pc <- corpusPc

Vram == INSTANCE VramGuard WITH
  pc <- vramPc, ExtLevels <- GuardLevels, Weights <- ModelSize

Tuner == INSTANCE VramTuner WITH
  ext <- tunerExt, held <- tunerHeld, cap <- tunerCap, pc <- tunerPc,
  Card <- TunerCard, ExtLevels <- TunerLevels, Weights <- TunerModel, Base <- TunerBase,
  UserHeadroom <- TunerHeadroom

Layer == INSTANCE LayerClaim WITH
  adv <- layerAdv, pc <- layerPc, rec <- layerRec, crashes <- layerCrashes

Health == INSTANCE LaneHealth WITH
  settled <- healthSettled, pc <- healthPc, crashes <- healthCrashes, k <- publishK

Dose == INSTANCE DoseSearch WITH pc <- dosePc, n <- tries

Judge == INSTANCE ProductJudge WITH base <- judgeBase, cand <- judgeCand, pc <- judgePc

Host == INSTANCE ExpertHost WITH
  base <- hostBase, batch <- hostBatch, pc <- hostPc, count <- hostCount, Coords <- HostCoords

Round == INSTANCE ExpertRound WITH pc <- roundPc, inner <- roundInner, sent <- roundSent

Sync == INSTANCE SyncRound WITH
  accepted <- merges, names <- syncNames, pc <- syncPc, base <- syncBase, rec <- syncRec,
  sent <- syncSent, crashes <- faults

Pipe == INSTANCE PipeStages WITH
  pc <- pipePc, todo <- pipeTodo, seen <- pipeSeen, cache <- pipeCache, MaxFaults <- PipeFaults

ASSUME PartsAssumption ==
  /\ Corpus!CorpusAssumption /\ Vram!VramAssumption /\ Tuner!TunerAssumption
  /\ Layer!LayerAssumption /\ Sync!SyncAssumption /\ Round!RoundAssumption
  /\ Dose!DoseAssumption

-----------------------------------------------------------------------------
AnyOf(S) == CHOOSE x \in S : TRUE

\* The part that runs starts anywhere it may, the others in one state.
Init ==
  /\ which \in Picked
  /\ Corpus!Init
  /\ Vram!Init /\ (which = "vram" \/ (card = AnyOf(Cards) /\ ext = AnyOf(GuardLevels)))
  /\ Tuner!Init /\ (which = "tuner" \/ tunerExt = AnyOf(TunerLevels))
  /\ Layer!Init
  /\ Health!Init
  /\ Dose!Init /\ (which = "dose" \/ (target = AnyOf(Targets) /\ response = AnyOf(Responses)))
  /\ Judge!Init
  /\ Host!Init /\ (which = "host" \/ views = AnyOf(Views))
  /\ Round!Init /\ (which = "round" \/ (layer = AnyOf(Layers) /\ roundInner = AnyOf(Inner)))
  /\ Sync!Init
  /\ Pipe!Init
  /\ IF which = "pipe" THEN \A d \in Drivers : pipePc[d] = "off" \/ d \in Opens[depth]
     ELSE depth = AnyOf(Depths) /\ \A d \in Drivers : pipePc[d] = "off"

\* What the other parts leave alone.
besideCorpus ==
  <<which, vramVars, tunerVars, layerVars, healthVars, doseVars,
    judgeVars, hostVars, roundVars, syncVars, pipeVars>>
besideVram ==
  <<which, corpusVars, tunerVars, layerVars, healthVars, doseVars,
    judgeVars, hostVars, roundVars, syncVars, pipeVars>>
besideTuner ==
  <<which, corpusVars, vramVars, layerVars, healthVars, doseVars,
    judgeVars, hostVars, roundVars, syncVars, pipeVars>>
besideLayer ==
  <<which, corpusVars, vramVars, tunerVars, healthVars, doseVars,
    judgeVars, hostVars, roundVars, syncVars, pipeVars>>
besideHealth ==
  <<which, corpusVars, vramVars, tunerVars, layerVars, doseVars,
    judgeVars, hostVars, roundVars, syncVars, pipeVars>>
besideDose ==
  <<which, corpusVars, vramVars, tunerVars, layerVars, healthVars,
    judgeVars, hostVars, roundVars, syncVars, pipeVars>>
besideJudge ==
  <<which, corpusVars, vramVars, tunerVars, layerVars, healthVars,
    doseVars, hostVars, roundVars, syncVars, pipeVars>>
besideHost ==
  <<which, corpusVars, vramVars, tunerVars, layerVars, healthVars,
    doseVars, judgeVars, roundVars, syncVars, pipeVars>>
besideRound ==
  <<which, corpusVars, vramVars, tunerVars, layerVars, healthVars,
    doseVars, judgeVars, hostVars, syncVars, pipeVars>>
besideSync ==
  <<which, corpusVars, vramVars, tunerVars, layerVars, healthVars,
    doseVars, judgeVars, hostVars, roundVars, pipeVars>>
besidePipe ==
  <<which, corpusVars, vramVars, tunerVars, layerVars, healthVars,
    doseVars, judgeVars, hostVars, roundVars, syncVars>>

Next ==
  \/ which = "corpus" /\ Corpus!Next /\ UNCHANGED besideCorpus
  \/ which = "vram" /\ Vram!Next /\ UNCHANGED besideVram
  \/ which = "tuner" /\ Tuner!Next /\ UNCHANGED besideTuner
  \/ which = "layer" /\ Layer!Next /\ UNCHANGED besideLayer
  \/ which = "health" /\ Health!Next /\ UNCHANGED besideHealth
  \/ which = "dose" /\ Dose!Next /\ UNCHANGED besideDose
  \/ which = "judge" /\ Judge!Next /\ UNCHANGED besideJudge
  \/ which = "host" /\ Host!Next /\ UNCHANGED besideHost
  \/ which = "round" /\ Round!Next /\ UNCHANGED besideRound
  \/ which = "sync" /\ Sync!Next /\ UNCHANGED besideSync
  \/ which = "pipe" /\ Pipe!Next /\ UNCHANGED besidePipe

\* The fairness of the part that runs.
Fairness ==
  /\ \A m \in Miners : WF_vramVars(which = "vram" /\ Vram!Run(m))
  /\ WF_tunerVars(which = "tuner" /\ Tuner!ManagerTick)
  /\ WF_tunerVars(which = "tuner" /\ Tuner!Loop)
  /\ WF_layerVars(which = "layer" /\ Layer!Miner)
  /\ WF_healthVars(which = "health" /\ Health!Miner)
  /\ WF_healthVars(which = "health" /\ Health!TimePasses)
  /\ WF_judgeVars(which = "judge" /\ Judge!Worker)
  /\ \A c \in Coords : WF_judgeVars(which = "judge" /\ Judge!Loop(c))
  /\ \A m \in Miners : WF_syncVars(which = "sync" /\ Sync!Publishing(m))
  /\ \A k \in Pipe!Stages : WF_pipeVars(which = "pipe" /\ Pipe!Serves(k))
  /\ WF_pipeVars(which = "pipe" /\ Pipe!Receives(WatchedDriver))

Spec == Init /\ [][Next]_vars /\ Fairness

-----------------------------------------------------------------------------
\* Properties: those of the parts.

\* A miner has a whole, verified corpus whenever it trains: see CorpusSync.
CorpusKept == Corpus!CorpusKept

\* A dose lands on the target wherever some rate does, and is taken from one whole cache:
\* see DoseSearch and LayerClaim.
DosesTrue == Dose!DoseFound /\ Layer!WholeCaches

\* A verdict is about the weights it moves: see ProductJudge.
VerdictsHold == Judge!VerdictsHold

\* The store is exactly the accepted deltas, each measured alone: see ExpertHost.
StoreExact == Host!StoreExact

\* A round starts on the advertised base, publishes its best measured state and leaves the
\* model plain: see SyncRound and ExpertRound.
RoundsClean == Sync!BasesAgree /\ Round!RoundsClean

\* What stands under a name is what its reader takes it for: a miner replaces none of its
\* own records, and a driver samples from its own text: see LaneHealth and PipeStages.
NamesKept == Health!OwnRecordsKept /\ Pipe!Sound

\* Miners on one card never keep each other out, and report no more than their ceiling:
\* see VramGuard and VramTuner.
CardShared == Vram!CardShared /\ Tuner!ReportCovered

\* A miner stops only for the other processes of its card, and takes more of it only when
\* the memory stayed free: see VramGuard and VramTuner.
CardYielded == [][Vram!PausesForOthers /\ Tuner!GrowsWhenHeld]_vars

\* A miner trains in the end: on a card left alone, whatever pauses and failing rounds were
\* before, and from a cache that stays advertised, whatever failed downloads and crashes
\* left: see VramGuard and LayerClaim.
TrainsAtLast ==
  /\ which = "vram" => Vram!TrainsAtLast
  /\ which = "layer" => Layer!TrainsAtLast

\* A dead coordinator is found out, and a live one followed again: see LaneHealth.
LaneFollowed == which = "health" => Health!LaneFollowed

\* Whoever waits is answered: "the caller always makes progress" of the judge, whatever
\* moves under it and however pairs fail, unless a pair never ends; a miner that holds a
\* record, whose name comes back; a driver, though stages start again.  Coordinates are
\* interchangeable, so one stands for all.
EveryoneServed ==
  /\ which = "judge" => Judge!EveryoneRuled(WatchedCoord)
  /\ Sync!SelfHeals(WatchedMiner)
  /\ Pipe!Served(WatchedDriver)

-----------------------------------------------------------------------------
\* What comments of the code promise and the parts do not keep; the README says how each
\* is shown.

\* "the old verified files on disk are left untouched": the corpus trained on is
\* the one of the baseline.  A resync refused after its first file, or one whose
\* second read of the lane finds nothing, breaks it.
BaselineHeld == Corpus!BaselineHeld

\* "Sizing from CURRENTLY FREE memory makes concurrent launches self-limiting": the
\* miners never take more than the others left.  The ceiling of the first is not yet
\* used when the second measures, so it does not hold.
NeverSpills == Vram!NeverSpills

\* "the guard's cap, the advertised capacity, and the trained footprint stay
\* consistent": the ceiling leaves room for what the miner already holds.  Free does not
\* count the miner's own weights, and the ceiling is a ceiling on all it holds.
CapCoversHeld == Tuner!CapCoversHeld

\* "did this miner train against MY current weights for THIS expert": the root sent
\* with a delta is the root of the weights it was trained on.
RootOfTrained == Layer!RootOfTrained

\* The same over the life of the miner.  A restart while the event stands still numbers
\* from 0 again, and its first record replaces the first of the process before.
RecordsKept == Health!RecordsKept

\* "the missing records are unreconstructable rather than merely late": a miner exits
\* only if the newest root has been out of its reach for round_wait.  quiet counts from
\* the last fold, and the lane may have had nothing to fold since.
AbortsOnlyStuck == Health!AbortsOnlyStuck

\* "Score BASE vs BASE+DELTA": the two arms of a verdict were measured on networks that
\* differ in the judged coordinate only, though one loss may be a kept one.
SameElsewhere == Judge!SameElsewhere

\* A pair starts on a network of bases: of each coordinate, one it was judged on.
NetOfBases == Judge!NetOfBases

\* "a base that keeps moving under a coordinate must not be able to spin the judge": a
\* coordinate is refused for the candidates of this base only.  Attempts are never
\* forgotten, so one that was ruled on MaxRejudges times is refused for good.
RefusedForMoving == Judge!RefusedForMoving

\* "Publishing a zero delta here would be a lie the gate can only reject": a round that
\* trained publishes what it trained.  One of fewer than Every steps measures nothing but
\* the untrained state, and publishes that, whatever it learned.
SendsTrained == Round!SendsTrained

\* A process ends only over a coordinate no token can reach.  A round of few steps may
\* route none by chance.
EndsOnInert == Round!EndsOnInert

\* With the others at their least, a miner that could load trains again and again.
ManagedTrains == which = "tuner" => Tuner!ManagedTrains

\* "A worker that raises, OOMs or exceeds its wall budget still produces a verdict": the
\* budget is that of wait alone, and a loop that polls waits for ever.
RuledWithinBudget == which = "judge" => Judge!RuledWithinBudget(WatchedCoord)

\* "Keep the record ADVERTISED until the coordinator advances past this round": nobody
\* does once round_wait is over, and the miner polls for a newer round from then on.
HeldToTheEnd == which = "sync" => Sync!HeldToTheEnd(WatchedMiner)

\* "FORWARD FIDELITY": what a driver samples from is the activation of its own text.  A
\* store that lists its names in any order confuses a stage that starts again, and so does
\* a name lost before that stage has read it again; two drivers that open a stream in the
\* same second share its name.
Faithful == Pipe!Faithful

\* "One DynamicCache per stream, evicted on the stream's done-advert": a prompt that timed
\* out is never finished, and its caches stay.
CachesDriven == Pipe!CachesDriven

=============================================================================
