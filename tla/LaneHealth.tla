----------------------------- MODULE LaneHealth -----------------------------
(***************************************************************************)
(* Whether the lane is alive, as a miner sees it: three counters of the    *)
(* coordinator (its event, its accepted records, the stamp of its pointer) *)
(* in a manifest that a mirror may serve in an older version; the pause    *)
(* while nothing moves; the exit of a miner that cannot reach the root;    *)
(* and the names a miner publishes under.                                  *)
(*                                                                         *)
(* shots is what the store's manifest has held, oldest first; a read       *)
(* returns any of them.  idle and quiet count the time since a counter     *)
(* moved and since a record was folded, up to their thresholds.            *)
(***************************************************************************)
EXTENDS Integers, Sequences, FiniteSets, Functions

CONSTANTS
  Threshold, RoundWait,          \* stale_lane_s, round_wait
  MaxShots, MaxSent, MaxCrashes, \* bounds
  ClocksBack                     \* the coordinator may come back with an older clock

VARIABLES
  shots, stamp,                  \* stamp: the last stamp of the coordinator's process
  clock,                         \* the coordinator's wall clock
  dead,                          \* the coordinator has stopped for good
  settled,                       \* mirrors serve the newest manifest from now on
  pc,                            \* "off", "tick", "fold", "train"
  view,                          \* the snapshot this tick works on
  high,                          \* high_event, high_accepted, high_stamp
  seen,                          \* the newest snapshot observed in this life
  idle, stale,                   \* LaneLiveness
  folded, quiet,                 \* last_applied, time since last_progress_t
  late,                          \* how long the newest root has been out of reach
  names, sent, firstSent, k,     \* [name -> serial], serials, publish_k
  taken,                         \* serials the coordinator has read
  crashes

lane == <<shots, stamp, clock, dead, settled>>
liveness == <<high, seen, idle, stale>>
records == <<names, sent, firstSent, k>>
vars == <<lane, pc, view, liveness, folded, quiet, late, records, taken, crashes>>

None == -1
Lower(a, b) == IF a <= b THEN a ELSE b
Newest == shots[Len(shots)]

Init ==
  /\ shots = <<[event |-> 0, accepted |-> 0, stamp |-> 1]>>
  /\ stamp = 1 /\ clock = 1 /\ dead = FALSE /\ settled = FALSE
  /\ pc = "off" /\ view = Newest
  /\ high = [event |-> None, accepted |-> None, stamp |-> None]
  /\ seen = 0 /\ idle = 0 /\ stale = FALSE
  /\ folded = 0 /\ quiet = 0 /\ late = 0
  /\ names = [n \in {} |-> 0] /\ sent = 0 /\ firstSent = 0 /\ k = 0 /\ taken = {}
  /\ crashes = 0

-----------------------------------------------------------------------------
\* The coordinator and the store.

Put(s) == Len(shots) < MaxShots /\ shots' = Append(shots, s)

\* sd_publish_stamp: above the last of this process.
NextStamp == IF clock <= stamp THEN stamp + 1 ELSE clock

\* An accepted record, then the pointer that names its event.
Commit ==
  /\ ~dead /\ Newest.accepted = Newest.event
  /\ Put([Newest EXCEPT !.accepted = @ + 1])
  /\ taken' \in {taken, taken \cup Range(names)}
  /\ UNCHANGED <<stamp, clock, dead, settled, pc, view, liveness, folded, quiet, late, records, crashes>>
PublishPointer ==
  /\ ~dead /\ Put([Newest EXCEPT !.event = Newest.accepted, !.stamp = NextStamp])
  /\ stamp' = NextStamp
  /\ UNCHANGED <<clock, dead, settled, pc, view, liveness, folded, quiet, late, records, taken, crashes>>
\* A coordinator that restarts keeps its frontier and not its last stamp; its clock has
\* run on, or was set back.
Restart ==
  /\ ~dead /\ stamp # 0 /\ stamp' = 0
  /\ clock' = IF ClocksBack THEN 1 ELSE Newest.stamp + 1
  /\ UNCHANGED <<shots, dead, settled, pc, view, liveness, folded, quiet, late, records, taken, crashes>>
Die ==
  /\ ~dead /\ dead' = TRUE
  /\ UNCHANGED <<shots, stamp, clock, settled, pc, view, liveness, folded, quiet, late, records, taken, crashes>>
Settle ==
  /\ ~settled /\ settled' = TRUE
  /\ UNCHANGED <<shots, stamp, clock, dead, pc, view, liveness, folded, quiet, late, records, taken, crashes>>

Reached == folded = Newest.event
TimePasses ==
  /\ idle' = Lower(idle + 1, Threshold) /\ quiet' = Lower(quiet + 1, RoundWait)
  /\ late' = IF Reached THEN 0 ELSE Lower(late + 1, RoundWait)
  /\ UNCHANGED <<lane, pc, view, high, seen, stale, folded, records, taken, crashes>>

-----------------------------------------------------------------------------
\* The miner.

\* A start latches nothing of the lane's health and numbers its records from 0; the
\* resume brings it to the frontier.
Boot ==
  /\ pc = "off" /\ pc' = "tick"
  /\ high' = [event |-> None, accepted |-> None, stamp |-> None]
  /\ seen' = 0 /\ idle' = 0 /\ stale' = FALSE
  /\ folded' = Newest.event /\ quiet' = 0 /\ late' = 0
  /\ k' = 0 /\ firstSent' = sent
  /\ UNCHANGED <<lane, view, names, sent, taken, crashes>>

Fields == {"event", "accepted", "stamp"}
\* mutant: any change is proof of life
Rises(f, s) == high[f] # None /\ s[f] # high[f]
\* A counter that goes backwards is never proof of life.
Moves(f, s) == high[f] # None /\ s[f] > high[f]
\* mutant: the stamp is not watched
MovedBut(s) == \E f \in Fields \ {"stamp"} : Moves(f, s)
Moved(s) == \E f \in Fields : Moves(f, s)

\* observe, on one manifest; the stale miner pauses and looks again.
Observe(n) ==
  /\ pc = "tick" /\ n \in 1..Len(shots) /\ (settled => n = Len(shots))
  /\ LET s == shots[n] IN
     /\ view' = IF Moved(s) \/ idle < Threshold THEN s ELSE shots[1]
     /\ high' = [f \in Fields |-> IF high[f] = None \/ Moves(f, s) THEN s[f] ELSE high[f]]
     /\ IF Moved(s) THEN idle' = 0 /\ stale' = FALSE /\ pc' = "fold"
        ELSE /\ UNCHANGED idle
             /\ stale' = (stale \/ idle >= Threshold)
             /\ pc' = IF idle >= Threshold THEN "tick" ELSE "fold"
  /\ seen' = IF n > seen THEN n ELSE seen
  /\ UNCHANGED <<lane, folded, quiet, late, records, taken, crashes>>

\* The catch-up folds what the pointer covers, or a fetch fails; then the exit of a miner
\* whose root is not the advertised one and who has folded nothing for long.
Aborts(applied) == ~applied /\ folded # view.event /\ quiet >= RoundWait
FoldOk ==
  /\ pc = "fold" /\ view.event > folded
  /\ folded' = view.event /\ quiet' = 0 /\ late' = 0 /\ pc' = "train"
  /\ UNCHANGED <<lane, view, liveness, records, taken, crashes>>
FoldNone ==
  /\ pc = "fold" /\ ~Aborts(FALSE) /\ pc' = "train"
  /\ UNCHANGED <<lane, view, liveness, folded, quiet, late, records, taken, crashes>>
Abort ==
  /\ pc = "fold" /\ Aborts(FALSE) /\ pc' = "off" /\ view' = shots[1]
  /\ UNCHANGED <<lane, liveness, folded, quiet, late, records, taken, crashes>>

\* mutant: the name of the synchronous lane
ContribName(base) == <<base, 0>>
\* async_publish_name
PublishName(base) == <<base, k>>

\* Train and publish, against the clamped base event.
Publish ==
  /\ pc = "train" /\ sent < MaxSent
  /\ names' = [n \in DOMAIN names \cup {PublishName(Lower(folded, view.event))} |->
                 IF n = PublishName(Lower(folded, view.event)) THEN sent + 1 ELSE names[n]]
  /\ sent' = sent + 1 /\ k' = k + 1 /\ pc' = "tick" /\ view' = shots[1]
  /\ UNCHANGED <<lane, liveness, folded, quiet, late, firstSent, taken, crashes>>
\* A round skipped for want of memory.
Skip ==
  /\ pc = "train" /\ pc' = "tick" /\ view' = shots[1]
  /\ UNCHANGED <<lane, liveness, folded, quiet, late, records, taken, crashes>>

Crash ==
  /\ pc # "off" /\ crashes < MaxCrashes /\ crashes' = crashes + 1 /\ pc' = "off" /\ view' = shots[1]
  /\ UNCHANGED <<lane, liveness, folded, quiet, late, records, taken>>

Miner == Boot \/ (\E n \in 1..Len(shots) : Observe(n)) \/ FoldOk \/ FoldNone \/ Abort \/ Publish \/ Skip
Next == Commit \/ PublishPointer \/ Restart \/ Die \/ Settle \/ TimePasses \/ Miner \/ Crash

Fairness == WF_vars(Miner) /\ WF_vars(TimePasses)
Spec == Init /\ [][Next]_vars /\ Fairness

-----------------------------------------------------------------------------
\* Properties.

\* "it could ping-pong between two objects forever and always look alive": a miner that
\* runs finds out a dead coordinator for good, whatever versions mirrors serve in turn.
DeadFoundOut == <>[](dead /\ pc # "off") => <>[]stale

\* "RESUMES BY ITSELF the moment the lane moves": a miner that paused trains again once
\* the coordinator has put something it has not seen, also a pointer of the same event.
ResumesAtLast == (stale /\ seen # 0 /\ seen < Len(shots) /\ settled) ~> (~stale)

Kept(s) == s \in taken \cup Range(names)

\* "a UNIQUE record name every publish": no record of this process is replaced before the
\* coordinator has read it.
OwnRecordsKept == \A s \in firstSent+1 .. sent : Kept(s)

\* The same over the life of the miner.  A restart while the event stands still numbers
\* from 0 again, and its first record replaces the first of the process before.
RecordsKept == \A s \in 1..sent : Kept(s)

\* "the missing records are unreconstructable rather than merely late": a miner exits
\* only if the newest root has been out of its reach for round_wait.  quiet counts from
\* the last fold, and the lane may have had nothing to fold since.
AbortsOnlyStuck == [][pc = "fold" /\ pc' = "off" /\ Aborts(FALSE) => late >= RoundWait]_vars

\* The stale-lane pause stops a miner only for a dead coordinator, and no longer than it
\* is dead.
LaneFollowed == DeadFoundOut /\ ResumesAtLast
=============================================================================
