------------------------------ MODULE GlmClaim ------------------------------
(***************************************************************************)
(* The claim state of one contributor of the asynchronous GLM lane          *)
(* (tools/sharddiloco_glm_contributor.py): which coordinate it works on,    *)
(* the cooldown parks (CoordCooldown), the per-layer dose ladder             *)
(* (DoseLadder), the reject streak that drives both, and the file that       *)
(* carries them over a restart (ClaimState).  GlmLane models the weights;    *)
(* here a catch-up only yields the coordinator's rulings.                    *)
(*                                                                         *)
(* Rulings arrive late and in bulk: several deltas of ours may be waiting    *)
(* for a verdict, other miners move our coordinate, the clock and the event  *)
(* counter run on while the walk is under way, and the process may die       *)
(* between any two steps.                                                   *)
(***************************************************************************)
EXTENDS Integers, Sequences, FiniteSets

CONSTANTS
  Coords, LayerOf,   \* the claimable coordinates, and the layer of each
  Walk,              \* claim_walk_order of this identity: a permutation of Coords
  StartCoord,        \* pick_start_coord
  Ladders,           \* the dose ladders an operator may start the process with
  AdvanceAfter,      \* --advance-after
  Seconds, Events,   \* a cooldown's two halves
  CanBlock,          \* may a candidate refuse registration or overrun its catch-up?
  DiskFails,         \* may a save fail?
  MaxNow, MaxEvent,  \* bounds: the clock, the event counter,
  MaxInflight,       \* the deltas of ours awaiting a verdict per coordinate,
  MaxResets          \* and the coordinator restarts on a lane without campaigns

ASSUME ClaimConstants ==
  /\ StartCoord \in Coords
  /\ Walk \in Seq(Coords)
  /\ \A c \in Coords : \E i \in DOMAIN Walk : Walk[i] = c
  /\ \A i, j \in DOMAIN Walk : Walk[i] = Walk[j] => i = j
  /\ Ladders # {} /\ \A l \in Ladders : l \in Seq(Nat \ {0}) /\ l # << >>
  /\ AdvanceAfter \in Nat \ {0}
  /\ Seconds \in Nat /\ Events \in Nat
  /\ CanBlock \in BOOLEAN /\ DiskFails \in BOOLEAN
  /\ MaxNow \in Nat /\ MaxEvent \in Nat /\ MaxInflight \in Nat /\ MaxResets \in Nat

Layers == {LayerOf[c] : c \in Coords}
Peers(c) == {d \in Coords : LayerOf[d] = LayerOf[c]}

VARIABLES
  now,        \* the wall clock
  ev,         \* the coordinator's event counter
  resets,     \* how often the counter went back to 0
  log,        \* the accepted records: event e is log[e]
  inflight,   \* per coordinate, the doses of our published deltas not yet judged
  disk,       \* claim_state_<identity>.json: {} or one blob
  pc,         \* where the process is; "down" when it is not running
  ladder,     \* the dose ladder of this process
  own,        \* the coordinate claimed
  rung,       \* DoseLadder._rung
  streak,     \* reject_streak
  pub,        \* last_pub_base_event: {} or one event
  last,       \* last_applied
  ptrEv,      \* the pointer's event in this tick
  parked,     \* CoordCooldown._parked: a function on the parked coordinates
  repair,     \* repair_since is set
  walk,       \* the candidates the walk has still to try
  lastFp,     \* ClaimState._last_fp: {} or one fingerprint
  lost,       \* history: verdicts against deltas of ours since this claim first published,
              \* at this dose, with none accepted in between
  losses,     \* history: per layer, such verdicts since one was accepted, at any dose
  tried,      \* history: the <<layer, dose>> some delta of ours was rejected at
  due         \* history: per coordinate, the last park a completed save covered

envVars == <<now, ev, resets, log, inflight>>
procVars == <<pc, ladder, own, rung, streak, pub, last, ptrEv, parked, repair, walk, lastFp>>
histVars == <<lost, losses, tried, due>>
vars == <<envVars, disk, procVars, histVars>>

NoParks == [c \in {} |-> [t |-> 0, e |-> 0]]
NoDues == [c \in Coords |-> [t |-> 0, e |-> 0]]
TopRungs == [l \in Layers |-> 0]
SomeLadder == CHOOSE l \in Ladders : TRUE
Bottom == Len(ladder) - 1
Dose(l) == ladder[rung[l] + 1]

Init ==
  /\ now = 0 /\ ev = 0 /\ resets = 0 /\ log = << >>
  /\ inflight = [c \in Coords |-> << >>]
  /\ disk = {}
  /\ pc = "down" /\ ladder = SomeLadder /\ own = StartCoord /\ rung = TopRungs
  /\ streak = 0 /\ pub = {} /\ last = 0 /\ ptrEv = 0 /\ parked = NoParks
  /\ repair = FALSE /\ walk = << >> /\ lastFp = {}
  /\ lost = 0 /\ losses = TopRungs /\ tried = {} /\ due = NoDues

-----------------------------------------------------------------------------
(* The surroundings: the clock, and a coordinator that rules on our deltas  *)
(* in the order we published them, or merges somebody else's.               *)
Time == /\ now < MaxNow /\ now' = now + 1
        /\ UNCHANGED <<ev, resets, log, inflight, disk, procVars, histVars>>

RecordEvent(rec) == ev < MaxEvent /\ ev' = ev + 1 /\ log' = Append(log, rec)

CoordRules(c, verdict) ==
  /\ inflight[c] # << >>
  /\ RecordEvent([coord |-> c, us |-> verdict, dose |-> Head(inflight[c])])
  /\ inflight' = [inflight EXCEPT ![c] = Tail(@)]
  /\ UNCHANGED <<now, resets, disk, procVars, histVars>>

CoordOther(c) ==
  /\ RecordEvent([coord |-> c, us |-> "absent", dose |-> 0])
  /\ UNCHANGED <<now, resets, inflight, disk, procVars, histVars>>

CoordReset ==
  /\ resets < MaxResets /\ resets' = resets + 1
  /\ ev' = 0 /\ log' = << >> /\ inflight' = [c \in Coords |-> << >>]
  /\ UNCHANGED <<now, disk, procVars, histVars>>

-----------------------------------------------------------------------------
(* The file.  Seconds are stored relative to the save, events absolute; a   *)
(* save whose fingerprint is that of the process's last one is skipped.      *)
Exported(parks) ==
  {[c |-> c, left |-> parks[c].t - now, e |-> parks[c].e] :
     c \in {d \in DOMAIN parks : parks[d].t > now}}

ExportedRungs(rungs) ==
  {[l |-> l, rung |-> rungs[l], mult |-> ladder[rungs[l] + 1]] :
     l \in {k \in Layers : rungs[k] > 0}}

Blob(coord, parks, rungs) ==
  [coord |-> coord, saved |-> now, at |-> ptrEv,
   parks |-> Exported(parks), rungs |-> ExportedRungs(rungs)]

(* Mutants: the ladder is no part of the fingerprint; the park table is none. *)
FingerprintSansLadder(b) ==
  [coord |-> b.coord, at |-> b.at, parks |-> {<<p.c, p.e>> : p \in b.parks}, rungs |-> {}]
FingerprintSansParks(b) ==
  [coord |-> b.coord, at |-> 0, parks |-> {}, rungs |-> {<<r.l, r.rung>> : r \in b.rungs}]

Fingerprint(b) ==
  [coord |-> b.coord, at |-> b.at, parks |-> {<<p.c, p.e>> : p \in b.parks},
   rungs |-> {<<r.l, r.rung>> : r \in b.rungs}]

Save(coord, parks, rungs) ==
  LET b == Blob(coord, parks, rungs)
      seen == {Fingerprint(b)}
      done == [c \in Coords |-> IF c \in DOMAIN parks THEN parks[c] ELSE due[c]]
  IN  IF seen = lastFp
      THEN UNCHANGED <<disk, lastFp>> /\ due' = done
      ELSE \/ disk' = {b} /\ lastFp' = seen /\ due' = done
           \/ DiskFails /\ UNCHANGED <<disk, lastFp, due>>

(* CoordCooldown.restore: the seconds decay by the time since the save; the *)
(* events count only against the same counter, and never past at + events.  *)
(* Mutants: no clamp; the seconds start over.                                *)
RestoredUnclamped(b, live) ==
  [c \in {p.c : p \in {q \in b.parks : q.left - (now - b.saved) > 0}} |->
     LET p == CHOOSE q \in b.parks : q.c = c
     IN  [t |-> now + p.left - (now - b.saved), e |-> IF \E e \in live : e >= b.at THEN p.e ELSE 0]]
RestoredAfresh(b, live) ==
  [c \in {p.c : p \in b.parks} |-> [t |-> now, e |-> 0]]

Restored(b, live) ==
  [c \in {p.c : p \in {q \in b.parks : q.left - (now - b.saved) > 0}} |->
     LET p == CHOOSE q \in b.parks : q.c = c
         clamped == IF p.e < b.at + Events THEN p.e ELSE b.at + Events
     IN  [t |-> now + p.left - (now - b.saved),
          e |-> IF \E e \in live : e >= b.at THEN clamped ELSE 0]]

(* DoseLadder.restore: the same rung on the same ladder; on another ladder  *)
(* the first rung no larger than the dose left, else the smallest one.       *)
(* Mutant: the saved index is taken as it stands.                            *)
FirstNoLarger(lad, mult) ==
  IF \E i \in DOMAIN lad : lad[i] <= mult
  THEN (CHOOSE i \in DOMAIN lad : lad[i] <= mult /\ \A j \in 1..(i - 1) : lad[j] > mult) - 1
  ELSE Len(lad) - 1

RestoredVerbatim(lad, r) == r.rung
RestoredRung(lad, r) ==
  IF r.rung < Len(lad) /\ lad[r.rung + 1] = r.mult THEN r.rung ELSE FirstNoLarger(lad, r.mult)

RestoredRungs(lad) ==
  [l \in Layers |->
     IF \E b \in disk : \E r \in b.rungs : r.l = l
     THEN RestoredRung(lad, CHOOSE r \in (CHOOSE b \in disk : TRUE).rungs : r.l = l)
     ELSE 0]

-----------------------------------------------------------------------------
(* The process.                                                             *)
GoDown ==
  /\ pc' = "down" /\ ladder' = SomeLadder /\ own' = StartCoord /\ rung' = TopRungs
  /\ streak' = 0 /\ pub' = {} /\ last' = 0 /\ ptrEv' = 0 /\ parked' = NoParks
  /\ repair' = FALSE /\ walk' = << >> /\ lastFp' = {} /\ lost' = 0
  /\ UNCHANGED <<envVars, disk, losses, tried, due>>

Crash == pc # "down" /\ GoDown

(* The pointer read of the start-up may fail: then no live event is known.  *)
Boot(lad, live) ==
  /\ pc = "down" /\ pc' = "tick"
  /\ ladder' = lad /\ rung' = RestoredRungs(lad)
  /\ own' = IF disk = {} THEN StartCoord ELSE (CHOOSE b \in disk : TRUE).coord
  /\ parked' = IF disk = {} THEN NoParks ELSE Restored(CHOOSE b \in disk : TRUE, live)
  /\ UNCHANGED <<streak, pub, last, ptrEv, repair, walk, lastFp, envVars, disk, histVars>>

Tick ==
  /\ pc = "tick" /\ pc' = "fold"
  /\ ptrEv' = ev
  /\ UNCHANGED <<ladder, own, rung, streak, pub, last, parked, repair, walk, lastFp,
                 envVars, disk, histVars>>

(* event_judged_us; mutant: history counts as a verdict.                    *)
JudgedAlways(e) == TRUE
JudgedUs(e) == \E base \in pub : e >= base

StreakAccept(l) ==
  /\ streak' = 0
  /\ IF rung[l] > 0
     THEN rung' = [rung EXCEPT ![l] = 0] /\ Save(own, parked, rung')
     ELSE UNCHANGED <<rung, disk, lastFp, due>>

StreakReject == streak' = streak + 1 /\ UNCHANGED <<rung, disk, lastFp, due>>

NoVerdict == UNCHANGED <<streak, rung, disk, lastFp, due>>

(* streak_action, for a record that judged our coordinate.  The coordinator   *)
(* says what became of each delta; "absent" is a race lost to another miner. *)
(* Mutant: a lost race is a rejection.                                       *)
LostRaceRejected(rec) ==
  IF rec.us = "accepted" THEN StreakAccept(LayerOf[own]) ELSE StreakReject

StreakAction(rec) ==
  CASE rec.us = "accepted" -> StreakAccept(LayerOf[own])
    [] rec.us = "rejected" -> StreakReject
    [] OTHER -> NoVerdict

(* What really happened to our deltas, whatever the streak makes of it.      *)
Witness(rec) ==
  LET l == LayerOf[own]
      ours == rec.coord = own /\ pub # {}
  IN  CASE ours /\ rec.us = "accepted" ->
             /\ lost' = 0 /\ losses' = [losses EXCEPT ![l] = 0]
             /\ tried' = {t \in tried : t[1] # l}
        [] ours /\ rec.us = "rejected" ->
             /\ lost' = lost + 1 /\ losses' = [losses EXCEPT ![l] = @ + 1]
             /\ tried' = tried \cup {<<l, rec.dose>>}
        [] OTHER -> UNCHANGED <<lost, losses, tried>>

FoldRecord ==
  /\ pc = "fold" /\ last < ptrEv /\ last < Len(log)
  /\ last' = last + 1
  /\ LET rec == log[last + 1]
     IN  /\ IF rec.coord = own /\ JudgedUs(last + 1) THEN StreakAction(rec) ELSE NoVerdict
         /\ Witness(rec)
  /\ UNCHANGED <<pc, ladder, own, pub, ptrEv, parked, repair, walk, envVars>>

(* Nothing more to fold, or a fetch failed: the rest waits for a later tick. *)
FoldEnd ==
  /\ pc = "fold" /\ pc' = "judge"
  /\ UNCHANGED <<ladder, own, rung, streak, pub, last, ptrEv, parked, repair, walk, lastFp,
                 envVars, disk, histVars>>

-----------------------------------------------------------------------------
Plateau == streak >= AdvanceAfter

PositionOf(c) == CHOOSE i \in DOMAIN Walk : Walk[i] = c
Candidates ==
  LET n == Len(Walk)
  IN  [k \in 1..(n - 1) |-> Walk[((PositionOf(own) + k - 1) % n) + 1]]

AfterSave == IF repair' THEN "tick" ELSE "work"

(* A smaller dose on the same layer.                                        *)
Shrink ==
  /\ pc = "judge" /\ Plateau /\ rung[LayerOf[own]] < Bottom
  /\ rung' = [rung EXCEPT ![LayerOf[own]] = @ + 1]
  /\ streak' = 0 /\ lost' = 0
  /\ Save(own, parked, rung')
  /\ UNCHANGED <<ladder, own, pub, last, ptrEv, parked, repair, walk, envVars, losses, tried>>
  /\ pc' = AfterSave

Release ==
  /\ pc = "judge" /\ Plateau /\ rung[LayerOf[own]] >= Bottom
  /\ streak' = 0 /\ lost' = 0
  /\ walk' = Candidates /\ pc' = "advance"
  /\ UNCHANGED <<ladder, own, rung, pub, last, ptrEv, parked, repair, lastFp,
                 envVars, disk, losses, tried, due>>

RetryWalk ==
  /\ pc = "judge" /\ ~Plateau /\ repair
  /\ walk' = Candidates /\ pc' = "advance"
  /\ UNCHANGED <<ladder, own, rung, streak, pub, last, ptrEv, parked, repair, lastFp,
                 envVars, disk, histVars>>

StayPut ==
  /\ pc = "judge" /\ ~Plateau /\ ~repair
  /\ pc' = "work"
  /\ UNCHANGED <<ladder, own, rung, streak, pub, last, ptrEv, parked, repair, walk, lastFp,
                 envVars, disk, histVars>>

(* CoordCooldown.blocked: both halves must have elapsed.                     *)
Blocked(c) == c \in DOMAIN parked /\ ~(now >= parked[c].t /\ ptrEv >= parked[c].e)

Unparked(c) == [d \in DOMAIN parked \ {c} |-> parked[d]]
Parked(c) == [d \in DOMAIN parked \cup {c} |->
                IF d = c THEN [t |-> now + Seconds, e |-> ptrEv + Events] ELSE parked[d]]

WalkPast ==
  /\ pc = "advance" /\ walk # << >> /\ Blocked(Head(walk))
  /\ walk' = Tail(walk)
  /\ UNCHANGED <<pc, ladder, own, rung, streak, pub, last, ptrEv, parked, repair, lastFp,
                 envVars, disk, histVars>>

WalkParks ==
  /\ pc = "advance" /\ walk # << >> /\ ~Blocked(Head(walk)) /\ CanBlock
  /\ parked' = Parked(Head(walk))
  /\ walk' = Tail(walk)
  /\ UNCHANGED <<pc, ladder, own, rung, streak, pub, last, ptrEv, repair, lastFp,
                 envVars, disk, histVars>>

(* The walk lands: a new claim.  Mutant: last_pub_base_event survives.       *)
LandedPubKept == pub
LandedPub == {}

WalkLands ==
  /\ pc = "advance" /\ walk # << >> /\ ~Blocked(Head(walk))
  /\ own' = Head(walk)
  /\ parked' = Unparked(Head(walk))
  /\ repair' = FALSE /\ pub' = LandedPub /\ lost' = 0
  /\ walk' = << >> /\ pc' = "save"
  /\ UNCHANGED <<ladder, rung, streak, last, ptrEv, lastFp, envVars, disk, losses, tried, due>>

WalkFails ==
  /\ pc = "advance" /\ walk = << >>
  /\ repair' = (repair \/ Len(Walk) > 1)
  /\ pc' = "save"
  /\ UNCHANGED <<ladder, own, rung, streak, pub, last, ptrEv, parked, walk, lastFp,
                 envVars, disk, histVars>>

SaveWalk ==
  /\ pc = "save"
  /\ Save(own, parked, rung)
  /\ UNCHANGED <<ladder, own, rung, streak, pub, last, ptrEv, parked, repair, walk,
                 envVars, lost, losses, tried>>
  /\ pc' = AfterSave

(* A round: every coordinate of the layer this node holds is trained at the *)
(* layer's dose and published; or the round is skipped.                     *)
Publish ==
  /\ pc = "work" /\ pc' = "tick"
  /\ \A c \in Peers(own) : Len(inflight[c]) < MaxInflight
  /\ inflight' = [c \in Coords |->
                    IF c \in Peers(own) THEN Append(inflight[c], Dose(LayerOf[own])) ELSE inflight[c]]
  /\ pub' = {IF last > ptrEv THEN ptrEv ELSE last}
  /\ UNCHANGED <<ladder, own, rung, streak, last, ptrEv, parked, repair, walk, lastFp,
                 now, ev, resets, log, disk, histVars>>

SkipRound ==
  /\ pc = "work" /\ pc' = "tick"
  /\ UNCHANGED <<ladder, own, rung, streak, pub, last, ptrEv, parked, repair, walk, lastFp,
                 envVars, disk, histVars>>

ProcNext ==
  \/ \E lad \in Ladders, live \in {{}, {ev}} : Boot(lad, live)
  \/ Tick \/ FoldRecord \/ FoldEnd
  \/ Shrink \/ Release \/ RetryWalk \/ StayPut
  \/ WalkPast \/ WalkParks \/ WalkLands \/ WalkFails \/ SaveWalk
  \/ Publish \/ SkipRound

Rulings == \E c \in Coords, v \in {"accepted", "rejected"} : CoordRules(c, v)

Next == \/ ProcNext \/ Crash
        \/ Time \/ Rulings \/ (\E c \in Coords : CoordOther(c)) \/ CoordReset

Spec == Init /\ [][Next]_vars

-----------------------------------------------------------------------------
(* PROPERTIES *)

ParksType == UNION {[s -> [t : Nat, e : Nat]] : s \in SUBSET Coords}

(* Every variable keeps its type.                                           *)
TypeOK ==
  /\ now \in 0..MaxNow /\ ev \in 0..MaxEvent /\ last \in 0..MaxEvent /\ ptrEv \in 0..MaxEvent
  /\ Len(log) = ev /\ \A c \in Coords : Len(inflight[c]) <= MaxInflight
  /\ pc \in {"down", "tick", "fold", "judge", "advance", "save", "work"}
  /\ ladder \in Ladders /\ own \in Coords
  /\ \A l \in Layers : rung[l] \in 0..Bottom
  /\ streak \in Nat /\ repair \in BOOLEAN
  /\ DOMAIN parked \subseteq Coords
  /\ Cardinality(disk) <= 1 /\ Cardinality(lastFp) <= 1 /\ Cardinality(pub) <= 1

(* fold_streak_update's promise (F5a and #58): the streak that shrinks a    *)
(* dose or gives a coordinate up counts verdicts on deltas this claim        *)
(* published, never history, another miner's win or an earlier claim's.      *)
StreakIsOurs == streak <= lost

(* A layer is on a smaller dose only because that many whole streaks of its  *)
(* own deltas lost since one was accepted: across crashes, saves, walks away *)
(* and back, no rung is taken that was not earned.                           *)
DoseEarned == \A l \in Layers : losses[l] >= AdvanceAfter * rung[l]

(* ClaimState's reason to exist (28 restarts of run 5): the dose a round is  *)
(* about to train at is already on disk, so the process that follows a crash *)
(* does not begin above it.                                                  *)
DoseDurable ==
  pc = "work" => LET saved == {l \in Layers : \E b \in disk : \E r \in b.rungs :
                                                r.l = l /\ r.rung = rung[l]}
                 IN  \A l \in Layers : rung[l] = 0 \/ l \in saved

(* A park that a completed save covered is kept through restarts: no round   *)
(* trains on the coordinate before the wall-clock half has elapsed.          *)
ParkSurvives == pc = "work" => due[own].t <= now

(* CoordCooldown.restore's clamps: what a restart brings back never parks a  *)
(* coordinate beyond one full cooldown from now, in seconds or in events of  *)
(* the live counter, however often the counter went back to 0.               *)
RestoredParksBounded ==
  [][ pc = "down" /\ pc' = "tick" =>
        \A c \in DOMAIN parked' :
          parked'[c].t <= now + Seconds /\ parked'[c].e <= ev + Events ]_vars

(* CoordCooldown's docstring: "15 minutes OR 10 events, whichever is LATER"  *)
(* ... "so BOTH have to elapse".                                             *)
BothHalvesElapse == pc = "work" => due[own].t <= now /\ due[own].e <= ptrEv

(* DoseLadder.restore: "a config edit can never silently raise the dose on a *)
(* layer that had already backed off".                                       *)
DoseNeverRaised ==
  [][ pc = "down" /\ pc' = "tick" =>
        \A b \in disk : \A r \in b.rungs : ladder'[rung'[r.l] + 1] <= r.mult ]_vars

(* DoseLadder.on_reject: "False = this layer just failed at the smallest     *)
(* dose we have".                                                            *)
ReleasedAtSmallest ==
  [][ Release => <<LayerOf[own], Dose(LayerOf[own])>> \in tried ]_vars

(* layer_dose_verdict's log: "the ladder is exhausted, so now (and only now) *)
(* the coordinate is parked and released".                                   *)
ReleasedIsParked ==
  [][ WalkLands /\ ~repair => own \in DOMAIN parked' ]_vars

(* The dose of a layer is neither taken early nor forgotten.                 *)
DoseKept == DoseEarned /\ DoseDurable
=============================================================================
