--------------------------- MODULE GlmClaimProofs ---------------------------
(***************************************************************************)
(* Theorems about GlmClaim for every set of coordinates, every ladder,      *)
(* every cooldown and every bound, through any number of restarts.          *)
(***************************************************************************)
EXTENDS GlmClaim, TLAPS

(* Nothing is parked, in memory or on disk.                                 *)
NothingParked ==
  /\ DOMAIN parked = {}
  /\ \A b \in disk : b.parks = {}

(* A walk under way has a candidate left unless there never was one.         *)
WalkHasNext == pc = "advance" => walk # << >> \/ ~(Len(Walk) > 1)

(* A fold never goes back behind the base of our last publish.               *)
PublishedBehind ==
  /\ ev \in Nat /\ last \in Nat /\ ptrEv \in Nat
  /\ \A base \in pub : base \in Nat /\ base <= last

(* The strengthening: the streak is 0 wherever the claim may change, and     *)
(* before the claim has published anything.                                  *)
StreakInv ==
  /\ streak \in Nat /\ lost \in Nat
  /\ StreakIsOurs
  /\ pub = {} => streak = 0
  /\ pc = "advance" => streak = 0
  /\ ~repair
  /\ NothingParked
  /\ WalkHasNext
  /\ PublishedBehind

-----------------------------------------------------------------------------
LEMMA ExportedNone ==
  ASSUME NEW parks, DOMAIN parks = {}
  PROVE  Exported(parks) = {}
  BY DEF Exported

(* Whatever a save does, the file holds no park if the table holds none.     *)
LEMMA SavedNone ==
  ASSUME NothingParked, NEW coord, NEW rungs, Save(coord, parked, rungs)
  PROVE  \A b \in disk' : b.parks = {}
  <1>1. Blob(coord, parked, rungs).parks = {}
    BY ExportedNone DEF Blob, NothingParked
  <1>2. disk' = disk \/ disk' = {Blob(coord, parked, rungs)}
    BY DEF Save
  <1>. QED
    BY <1>1, <1>2 DEF NothingParked

LEMMA RestoredNone ==
  ASSUME NEW b, b.parks = {}, NEW live
  PROVE  DOMAIN Restored(b, live) = {}
  BY DEF Restored

LEMMA CandidatesExist ==
  ASSUME Len(Walk) > 1
  PROVE  Candidates # << >>
  <1>1. Len(Walk) \in Nat
    BY ClaimConstants
  <1>2. 1 \in DOMAIN Candidates
    BY <1>1 DEF Candidates
  <1>. QED
    BY <1>2

-----------------------------------------------------------------------------
LEMMA StreakInit == Init => StreakInv
  BY DEF Init, StreakInv, StreakIsOurs, NothingParked, NoParks, WalkHasNext,
         PublishedBehind

(* One record: the streak grows only where a loss of ours is witnessed.      *)
LEMMA FoldStreak ==
  ASSUME StreakInv, FoldRecord
  PROVE  StreakInv'
  <1>. DEFINE rec == log[last + 1]
              ours == rec.coord = own /\ pub # {}
  <1>1. /\ pc = "fold" /\ UNCHANGED <<pc, pub, parked, repair, walk>>
        /\ Witness(rec)
        /\ IF rec.coord = own /\ JudgedUs(last + 1) THEN StreakAction(rec) ELSE NoVerdict
    BY DEF FoldRecord
  <1>2. JudgedUs(last + 1) => pub # {}
    BY DEF JudgedUs
  <1>3. /\ \A b \in disk' : b.parks = {}
        /\ streak' \in Nat
        /\ \/ streak' = streak
           \/ streak' = 0
           \/ streak' = streak + 1 /\ ours /\ rec.us = "rejected"
    <2>1. CASE NoVerdict
      BY <2>1 DEF NoVerdict, StreakInv, NothingParked
    <2>2. CASE rec.coord = own /\ JudgedUs(last + 1) /\ StreakAction(rec)
      <3>1. CASE rec.us = "accepted"
        <4>1. StreakAccept(LayerOf[own])
          BY <2>2, <3>1 DEF StreakAction
        <4>2. disk' = disk \/ Save(own, parked, rung')
          BY <4>1 DEF StreakAccept
        <4>. QED
          BY <4>1, <4>2, SavedNone DEF StreakAccept, StreakInv, NothingParked
      <3>2. CASE rec.us = "rejected"
        BY <1>2, <2>2, <3>2 DEF StreakAction, StreakReject, StreakInv, NothingParked
      <3>3. CASE rec.us # "accepted" /\ rec.us # "rejected"
        BY <2>2, <3>3 DEF StreakAction, NoVerdict, StreakInv, NothingParked
      <3>. QED
        BY <3>1, <3>2, <3>3
    <2>. QED
      BY <1>1, <2>1, <2>2
  <1>4. /\ lost' \in Nat
        /\ \/ ours /\ rec.us = "accepted" /\ lost' = 0
           \/ ours /\ rec.us = "rejected" /\ lost' = lost + 1
           \/ ~(ours /\ rec.us \in {"accepted", "rejected"}) /\ lost' = lost
    BY <1>1 DEF Witness, StreakInv
  <1>5. ours /\ rec.us = "accepted" => streak' = 0
    <2>1. ours => JudgedUs(last + 1)
      BY DEF JudgedUs, StreakInv, PublishedBehind
    <2>2. ours /\ rec.us = "accepted" => StreakAccept(LayerOf[own])
      BY <1>1, <2>1 DEF StreakAction
    <2>. QED
      BY <2>2 DEF StreakAccept
  <1>6. PublishedBehind'
    BY DEF FoldRecord, StreakInv, PublishedBehind, envVars
  <1>7. streak' <= lost' /\ (pub' = {} => streak' = 0)
    BY <1>1, <1>3, <1>4, <1>5 DEF StreakInv, StreakIsOurs
  <1>8. NothingParked' /\ WalkHasNext' /\ ~repair' /\ (pc' = "advance" => streak' = 0)
    BY <1>1, <1>3 DEF StreakInv, NothingParked, WalkHasNext
  <1>. QED
    BY <1>3, <1>4, <1>6, <1>7, <1>8 DEF StreakInv, StreakIsOurs

-----------------------------------------------------------------------------
(* Every other step of the process.                                         *)
LEMMA BootStreak ==
  ASSUME StreakInv, NEW lad, NEW live, Boot(lad, live)
  PROVE  StreakInv'
  <1>1. DOMAIN parked' = {}
    <2>1. CASE disk = {}
      BY <2>1 DEF Boot, NoParks
    <2>2. CASE disk # {}
      BY <2>2, RestoredNone DEF Boot, StreakInv, NothingParked
    <2>. QED
      BY <2>1, <2>2
  <1>. QED
    BY <1>1 DEF Boot, envVars, histVars, StreakInv, StreakIsOurs, NothingParked,
                WalkHasNext, PublishedBehind

LEMMA SaveStreak ==
  ASSUME StreakInv, Shrink \/ SaveWalk
  PROVE  StreakInv'
  <1>1. \A b \in disk' : b.parks = {}
    BY SavedNone DEF Shrink, SaveWalk, StreakInv
  <1>2. pc' \in {"tick", "work"}
    BY DEF Shrink, SaveWalk, AfterSave
  <1>. QED
    BY <1>1, <1>2 DEF Shrink, SaveWalk, envVars, StreakInv, StreakIsOurs, NothingParked,
                      WalkHasNext, PublishedBehind

LEMMA WalkStreak ==
  ASSUME StreakInv, ~CanBlock,
         Release \/ RetryWalk \/ WalkPast \/ WalkParks \/ WalkLands \/ WalkFails
  PROVE  StreakInv'
  <1>1. CASE Release
    BY <1>1, CandidatesExist
       DEF Release, envVars, StreakInv, StreakIsOurs, NothingParked, WalkHasNext, PublishedBehind
  <1>2. CASE RetryWalk
    BY <1>2 DEF RetryWalk, StreakInv
  <1>3. CASE WalkPast
    BY <1>3 DEF WalkPast, Blocked, StreakInv, NothingParked
  <1>4. CASE WalkParks
    BY <1>4 DEF WalkParks
  <1>5. CASE WalkLands
    <2>1. DOMAIN parked' = {}
      BY <1>5 DEF WalkLands, Unparked, StreakInv, NothingParked
    <2>. QED
      BY <1>5, <2>1
         DEF WalkLands, LandedPub, envVars, StreakInv, StreakIsOurs, NothingParked, WalkHasNext, PublishedBehind
  <1>6. CASE WalkFails
    BY <1>6 DEF WalkFails, envVars, histVars, StreakInv, StreakIsOurs, NothingParked,
                WalkHasNext, PublishedBehind
  <1>. QED
    BY <1>1, <1>2, <1>3, <1>4, <1>5, <1>6

LEMMA RoundStreak ==
  ASSUME StreakInv, Tick \/ FoldEnd \/ StayPut \/ Publish \/ SkipRound
  PROVE  StreakInv'
  <1>1. CASE Tick \/ FoldEnd \/ StayPut \/ SkipRound
    BY <1>1 DEF Tick, FoldEnd, StayPut, SkipRound, envVars, histVars, StreakInv, StreakIsOurs,
                NothingParked, WalkHasNext, PublishedBehind
  <1>2. CASE Publish
    <2>1. /\ pub' = {IF last > ptrEv THEN ptrEv ELSE last}
          /\ pc' = "tick"
          /\ UNCHANGED <<ev, disk, streak, last, ptrEv, parked, repair, walk, lost>>
      BY <1>2 DEF Publish, histVars
    <2>2. PublishedBehind'
      BY <2>1 DEF StreakInv, PublishedBehind
    <2>. QED
      BY <2>1, <2>2 DEF StreakInv, StreakIsOurs, NothingParked, WalkHasNext
  <1>. QED
    BY <1>1, <1>2

(* The death of the process, and the surroundings.                          *)
LEMMA CrashStreak == ASSUME StreakInv, Crash PROVE StreakInv'
  BY DEF Crash, GoDown, NoParks, envVars, StreakInv, StreakIsOurs, NothingParked,
         WalkHasNext, PublishedBehind

LEMMA EnvStreak ==
  ASSUME StreakInv,
         Time \/ Rulings \/ (\E c \in Coords : CoordOther(c)) \/ CoordReset
  PROVE  StreakInv'
  <1>1. ev' \in Nat /\ UNCHANGED <<disk, procVars, histVars>>
    <2>1. CASE Time
      BY <2>1 DEF Time, StreakInv, PublishedBehind
    <2>2. CASE Rulings
      BY <2>2 DEF Rulings, CoordRules, RecordEvent, StreakInv, PublishedBehind
    <2>3. CASE \E c \in Coords : CoordOther(c)
      BY <2>3 DEF CoordOther, RecordEvent, StreakInv, PublishedBehind
    <2>4. CASE CoordReset
      BY <2>4 DEF CoordReset
    <2>. QED
      BY <2>1, <2>2, <2>3, <2>4
  <1>. QED
    BY <1>1 DEF procVars, histVars, StreakInv, StreakIsOurs, NothingParked, WalkHasNext,
                PublishedBehind

LEMMA StreakStep == ASSUME StreakInv, ~CanBlock, [Next]_vars PROVE StreakInv'
  <1>1. CASE ProcNext
    BY <1>1, BootStreak, FoldStreak, SaveStreak, WalkStreak, RoundStreak DEF ProcNext
  <1>2. CASE UNCHANGED vars
    BY <1>2 DEF vars, envVars, procVars, histVars, StreakInv, StreakIsOurs, NothingParked,
                WalkHasNext, PublishedBehind
  <1>. QED
    BY <1>1, <1>2, CrashStreak, EnvStreak DEF Next

(* The streak counts verdicts on deltas this claim published and nothing     *)
(* else, for every coordinator, clock, save failure and crash, as long as no *)
(* walk is refused: a refused walk moves the claim and keeps the streak of   *)
(* the layer it left.                                                        *)
THEOREM StreakHonest == ASSUME ~CanBlock PROVE Spec => []StreakIsOurs
  <1>1. Init => StreakInv
    BY StreakInit
  <1>2. StreakInv /\ [Next]_vars => StreakInv'
    BY StreakStep
  <1>3. StreakInv => StreakIsOurs
    BY DEF StreakInv
  <1>. QED
    BY <1>1, <1>2, <1>3, PTL DEF Spec
-----------------------------------------------------------------------------
(* Parks.  Every step of the system, by what it does to the park table, the *)
(* file and the claim.                                                      *)
MaySave == (UNCHANGED <<disk, lastFp, due>>) \/ Save(own, parked, rung')

OnWalk == pc \in {"advance", "save"}

(* A step that may save: a verdict, a smaller dose, the end of a walk.       *)
Saving ==
  /\ pc # "down" /\ pc' \notin {"down", "advance", "save"}
  /\ MaySave /\ (OnWalk => Save(own, parked, rung'))
  /\ UNCHANGED <<envVars, own, ptrEv, parked, walk>>

(* A step that touches neither the table nor the file.                       *)
Passing ==
  /\ pc # "down" /\ pc' # "down" /\ (OnWalk => OnWalk')
  /\ walk' \in {walk, Candidates} \/ (walk # << >> /\ walk' = Tail(walk))
  /\ UNCHANGED <<now, ev, resets, disk, own, ptrEv, parked, lastFp, due>>

Around ==
  /\ UNCHANGED <<disk, procVars, histVars>>
  /\ now' \in {now, now + 1}
  /\ \/ ev' \in {ev, ev + 1} /\ resets' = resets
     \/ ev' = 0 /\ resets < MaxResets /\ resets' = resets + 1

LEMMA ClaimSteps ==
  ASSUME Next
  PROVE  \/ \E lad \in Ladders, live \in {{}, {ev}} : Boot(lad, live)
         \/ Crash \/ Saving \/ WalkParks \/ WalkLands \/ Tick \/ Passing \/ Around
  <1>1. CASE FoldRecord
    <2>. DEFINE rec == log[last + 1]
    <2>1. NoVerdict \/ StreakAction(rec)
      BY <1>1 DEF FoldRecord
    <2>2. MaySave
      BY <2>1 DEF StreakAction, NoVerdict, StreakReject, StreakAccept, MaySave
    <2>. QED
      BY <1>1, <2>2 DEF FoldRecord, Saving, OnWalk
  <1>2. CASE Shrink
    BY <1>2 DEF Shrink, AfterSave, Saving, MaySave, OnWalk
  <1>3. CASE SaveWalk
    <2>1. rung' = rung /\ Save(own, parked, rung)
      BY <1>3 DEF SaveWalk
    <2>2. Save(own, parked, rung')
      BY <2>1
    <2>3. pc = "save" /\ pc' \in {"tick", "work"} /\ UNCHANGED <<envVars, own, ptrEv, parked, walk>>
      BY <1>3 DEF SaveWalk, AfterSave
    <2>. QED
      BY <2>2, <2>3 DEF Saving, MaySave
  <1>4. CASE FoldEnd \/ StayPut \/ SkipRound \/ Publish
    BY <1>4 DEF FoldEnd, StayPut, SkipRound, Publish, Passing, OnWalk, envVars, histVars
  <1>5. CASE Release \/ RetryWalk \/ WalkPast \/ WalkFails
    BY <1>5 DEF Release, RetryWalk, WalkPast, WalkFails, Passing, OnWalk, envVars, histVars
  <1>6. CASE Time \/ Rulings \/ (\E c \in Coords : CoordOther(c)) \/ CoordReset
    <2>1. CASE Time
      BY <2>1 DEF Time, Around
    <2>2. CASE Rulings
      BY <2>2 DEF Rulings, CoordRules, RecordEvent, Around
    <2>3. CASE \E c \in Coords : CoordOther(c)
      BY <2>3 DEF CoordOther, RecordEvent, Around
    <2>4. CASE CoordReset
      BY <2>4 DEF CoordReset, Around
    <2>. QED
      BY <1>6, <2>1, <2>2, <2>3, <2>4
  <1>. QED
    BY <1>1, <1>2, <1>3, <1>4, <1>5, <1>6 DEF Next, ProcNext

(* The candidates are the rest of the walk order, round from the claim.     *)
LEMMA CandidatesAreOthers ==
  ASSUME own \in Coords
  PROVE  Candidates \in Seq(Coords) /\ \A k \in 1..Len(Candidates) : Candidates[k] # own
  <1>. DEFINE n == Len(Walk)
              start == PositionOf(own)
              at(k) == ((start + k - 1) % n) + 1
  <1>1. n \in Nat /\ Walk \in Seq(Coords) /\ DOMAIN Walk = 1..n
    BY ClaimConstants
  <1>2. start \in 1..n /\ Walk[start] = own
    BY <1>1, ClaimConstants DEF PositionOf
  <1>3. Candidates = [k \in 1..(n - 1) |-> Walk[at(k)]]
    BY DEF Candidates
  <1>. HIDE DEF start, n
  <1>4. ASSUME NEW k \in 1..(n - 1) PROVE at(k) \in 1..n /\ at(k) # start
    <2>1. CASE start + k - 1 < n
      <3>1. (start + k - 1) % n = start + k - 1
        BY <1>1, <1>2, <2>1
      <3>. QED
        BY <1>1, <1>2, <2>1, <3>1
    <2>2. CASE start + k - 1 >= n
      <3>1. (start + k - 1) % n = start + k - 1 - n
        BY <1>1, <1>2, <2>2
      <3>. QED
        BY <1>1, <1>2, <2>2, <3>1
    <2>. QED
      BY <1>1, <1>2, <2>1, <2>2
  <1>5. ASSUME NEW k \in 1..(n - 1) PROVE Walk[at(k)] \in Coords /\ Walk[at(k)] # own
    <2>1. \A i, j \in 1..n : Walk[i] = Walk[j] => i = j
      BY <1>1, ClaimConstants
    <2>2. at(k) \in 1..n /\ at(k) # start
      BY <1>4
    <2>. HIDE DEF at
    <2>3. Walk[at(k)] \in Coords
      BY <1>1, <2>2
    <2>. QED
      BY ONLY <1>2, <2>1, <2>2, <2>3
  <1>. HIDE DEF at
  <1>6. n - 1 \in Nat
    BY <1>1, <1>2
  <1>. QED
    BY <1>3, <1>5, <1>6

(* What every later argument about parks rests on: the types, a file that   *)
(* holds one blob, no park beyond one full cooldown, and a claim that is     *)
(* neither parked nor a candidate.                                          *)
Clocks == now \in Nat /\ ev \in Nat /\ ptrEv \in Nat /\ resets \in Nat

TableInv ==
  \A c \in DOMAIN parked : /\ parked[c].t \in Int /\ parked[c].e \in Int
                           /\ parked[c].t <= now + Seconds

BlobOk(b) ==
  /\ b.coord \in Coords /\ b.saved \in Nat /\ b.saved <= now /\ b.at \in Nat
  /\ \A p \in b.parks : /\ p.left \in Int /\ p.e \in Int /\ p.left <= Seconds
                        /\ p.c # b.coord
  /\ \A p, q \in b.parks : p.c = q.c => p = q

FileInv == (\A b, d \in disk : b = d) /\ (\A b \in disk : BlobOk(b))

OwnInv ==
  /\ own \in Coords /\ own \notin DOMAIN parked
  /\ walk \in Seq(Coords) /\ \A i \in 1..Len(walk) : walk[i] # own
  /\ pc = "down" => walk = << >>

ParkInv == Clocks /\ TableInv /\ FileInv /\ OwnInv

LEMMA ParkInit == Init => ParkInv
  BY ClaimConstants DEF Init, NoParks, ParkInv, Clocks, TableInv, FileInv, OwnInv

LEMMA ExportedPark ==
  ASSUME NEW p \in Exported(parked)
  PROVE  /\ p.c \in DOMAIN parked /\ parked[p.c].t > now
         /\ p.left = parked[p.c].t - now /\ p.e = parked[p.c].e
  BY DEF Exported

LEMMA BlobIsOk ==
  ASSUME ParkInv, NEW rungs
  PROVE  BlobOk(Blob(own, parked, rungs))
  <1>. DEFINE b == Blob(own, parked, rungs)
  <1>1. b.coord = own /\ b.saved = now /\ b.at = ptrEv /\ b.parks = Exported(parked)
    BY DEF Blob
  <1>2. ASSUME NEW p \in Exported(parked)
        PROVE  /\ p.left \in Int /\ p.e \in Int /\ p.left <= Seconds /\ p.c # own
    <2>1. /\ p.c \in DOMAIN parked /\ p.left = parked[p.c].t - now /\ p.e = parked[p.c].e
      BY ExportedPark
    <2>2. /\ parked[p.c].t \in Int /\ parked[p.c].e \in Int
          /\ parked[p.c].t <= now + Seconds
      BY <2>1 DEF ParkInv, TableInv
    <2>3. p.c # own /\ now \in Nat /\ Seconds \in Nat
      BY <2>1, ClaimConstants DEF ParkInv, OwnInv, Clocks
    <2>. QED
      BY ONLY <2>1, <2>2, <2>3
  <1>3. \A p, q \in Exported(parked) : p.c = q.c => p = q
    BY DEF Exported
  <1>4. own \in Coords /\ now \in Nat /\ now <= now /\ ptrEv \in Nat
    BY DEF ParkInv, Clocks, OwnInv
  <1>. HIDE DEF b
  <1>5. BlobOk(b)
    BY ONLY <1>1, <1>2, <1>3, <1>4 DEF BlobOk
  <1>. QED
    BY <1>5 DEF b

LEMMA SavedFile ==
  ASSUME ParkInv, MaySave, now' = now
  PROVE  FileInv'
  <1>1. disk' = disk \/ disk' = {Blob(own, parked, rung')}
    BY DEF MaySave, Save
  <1>2. BlobOk(Blob(own, parked, rung'))
    BY BlobIsOk
  <1>3. \A b : BlobOk(b)' <=> BlobOk(b)
    BY DEF BlobOk
  <1>. HIDE DEF BlobOk
  <1>. QED
    BY <1>1, <1>2, <1>3 DEF ParkInv, FileInv

(* A park that is brought back keeps its deadline on the wall clock.        *)
Lives(b, p) == p.left - (now - b.saved) > 0

LEMMA RestoredParks ==
  ASSUME Clocks, NEW b, BlobOk(b), NEW live
  PROVE  /\ DOMAIN Restored(b, live) = {p.c : p \in {q \in b.parks : Lives(b, q)}}
         /\ \A p \in b.parks : Lives(b, p) =>
              /\ Restored(b, live)[p.c].t = b.saved + p.left
              /\ Restored(b, live)[p.c].e \in Int
              /\ \/ /\ \E e \in live : e >= b.at
                    /\ Restored(b, live)[p.c].e <= b.at + Events
                 \/ Restored(b, live)[p.c].e = 0
  <1>. DEFINE D == {p.c : p \in {q \in b.parks : q.left - (now - b.saved) > 0}}
              pick(c) == CHOOSE q \in b.parks : q.c = c
              clamped(p) == IF p.e < b.at + Events THEN p.e ELSE b.at + Events
              back(c) == [t |-> now + pick(c).left - (now - b.saved),
                          e |-> IF \E e \in live : e >= b.at THEN clamped(pick(c)) ELSE 0]
  <1>1. Restored(b, live) = [c \in D |-> back(c)]
    BY DEF Restored
  <1>2. ASSUME NEW p \in b.parks PROVE pick(p.c) = p
    BY DEF BlobOk
  <1>. HIDE DEF pick
  <1>3. D = {p.c : p \in {q \in b.parks : Lives(b, q)}}
    BY DEF Lives
  <1>4. ASSUME NEW p \in b.parks, Lives(b, p)
        PROVE  Restored(b, live)[p.c] = back(p.c)
    BY <1>1, <1>4 DEF Lives
  <1>5. ASSUME NEW p \in b.parks
        PROVE  /\ back(p.c).t = b.saved + p.left
               /\ back(p.c).e = IF \E e \in live : e >= b.at THEN clamped(p) ELSE 0
    BY <1>2 DEF BlobOk, Clocks
  <1>6. ASSUME NEW p \in b.parks
        PROVE  clamped(p) \in Int /\ clamped(p) <= b.at + Events
    <2>1. Events \in Nat
      BY ClaimConstants
    <2>2. p.e \in Int /\ b.at \in Nat
      BY DEF BlobOk
    <2>. QED
      BY ONLY <2>1, <2>2
  <1>7. DOMAIN Restored(b, live) = {p.c : p \in {q \in b.parks : Lives(b, q)}}
    BY <1>1, <1>3
  <1>. HIDE DEF D, back, clamped
  <1>. QED
    BY <1>4, <1>5, <1>6, <1>7

LEMMA RestoredPark ==
  ASSUME Clocks, NEW b, BlobOk(b), NEW live, NEW p \in b.parks, Lives(b, p)
  PROVE  /\ p.c \in DOMAIN Restored(b, live)
         /\ Restored(b, live)[p.c].t = b.saved + p.left
         /\ Restored(b, live)[p.c].e \in Int
         /\ \/ /\ \E e \in live : e >= b.at
               /\ Restored(b, live)[p.c].e <= b.at + Events
            \/ Restored(b, live)[p.c].e = 0
  BY RestoredParks, ZenonT(40)

LEMMA BootParks ==
  ASSUME ParkInv, NEW lad, NEW live \in {{}, {ev}}, Boot(lad, live)
  PROVE  /\ \A c \in DOMAIN parked' : /\ parked'[c].t \in Int /\ parked'[c].e \in Int
                                      /\ parked'[c].t <= now + Seconds
                                      /\ parked'[c].e <= ev + Events
         /\ own' \in Coords /\ own' \notin DOMAIN parked'
  <1>1. CASE disk = {}
    BY <1>1, ClaimConstants DEF Boot, NoParks
  <1>2. CASE disk # {}
    <2>1. PICK b \in disk : TRUE
      BY <1>2
    <2>2. (CHOOSE d \in disk : TRUE) = b /\ BlobOk(b)
      BY <2>1 DEF ParkInv, FileInv
    <2>3. own' = b.coord /\ parked' = Restored(b, live)
      BY <1>2, <2>2 DEF Boot
    <2>4. ASSUME NEW c \in DOMAIN parked'
          PROVE  /\ parked'[c].t \in Int /\ parked'[c].e \in Int
                 /\ parked'[c].t <= now + Seconds /\ parked'[c].e <= ev + Events
                 /\ c # b.coord
      <3>1. PICK p \in b.parks : p.c = c /\ Lives(b, p)
        BY <2>2, <2>3, <2>4, RestoredParks DEF ParkInv
      <3>2. /\ parked'[c].t = b.saved + p.left
            /\ parked'[c].e \in Int
            /\ \/ (\E e \in live : e >= b.at) /\ parked'[c].e <= b.at + Events
               \/ parked'[c].e = 0
        <4>1. Clocks /\ BlobOk(b)
          BY <2>2 DEF ParkInv
        <4>3. /\ Restored(b, live)[p.c].t = b.saved + p.left
              /\ Restored(b, live)[p.c].e \in Int
              /\ \/ /\ \E e \in live : e >= b.at
                    /\ Restored(b, live)[p.c].e <= b.at + Events
                 \/ Restored(b, live)[p.c].e = 0
          BY <3>1, <4>1, RestoredPark
        <4>. QED
          BY ONLY <2>3, <3>1, <4>3
      <3>3. parked'[c].e <= ev + Events
        <4>1. /\ b.at \in Nat /\ ev \in Nat /\ Events \in Nat
              /\ \A e \in live : e = ev
          BY <2>2, ClaimConstants DEF BlobOk, ParkInv, Clocks
        <4>. QED
          BY ONLY <3>2, <4>1
      <3>4. parked'[c].t \in Int /\ parked'[c].t <= now + Seconds /\ c # b.coord
        <4>1. /\ now \in Nat /\ b.saved \in Nat /\ b.saved <= now /\ Seconds \in Nat
              /\ p.left \in Int /\ p.left <= Seconds /\ p.c # b.coord
          BY <2>2, <3>1, ClaimConstants DEF BlobOk, ParkInv, Clocks
        <4>. QED
          BY ONLY <3>1, <3>2, <4>1
      <3>. QED
        BY <3>2, <3>3, <3>4
    <2>. QED
      BY <2>2, <2>3, <2>4 DEF BlobOk
  <1>. QED
    BY <1>1, <1>2

LEMMA ParkStep == ASSUME ParkInv, [Next]_vars PROVE ParkInv'
  <1>t. Clocks /\ TableInv /\ FileInv /\ OwnInv
    BY DEF ParkInv
  <1>h. ASSUME walk # << >>
        PROVE  /\ Head(walk) \in Coords /\ Head(walk) # own /\ Tail(walk) \in Seq(Coords)
               /\ \A i \in 1..Len(Tail(walk)) : Tail(walk)[i] # own
    <2>1. /\ Len(walk) \in Nat /\ Len(walk) >= 1 /\ Head(walk) = walk[1]
          /\ Len(Tail(walk)) = Len(walk) - 1 /\ Tail(walk) \in Seq(Coords)
          /\ \A i \in 1..Len(Tail(walk)) : Tail(walk)[i] = walk[i + 1]
      BY <1>h DEF ParkInv, OwnInv
    <2>. QED
      BY <2>1 DEF ParkInv, OwnInv
  <1>f. ASSUME disk' = disk, now' \in Nat, now' >= now PROVE FileInv'
    BY <1>f, <1>t DEF FileInv, BlobOk, Clocks
  <1>1. ASSUME NEW lad, NEW live \in {{}, {ev}}, Boot(lad, live) PROVE ParkInv'
    <2>1. UNCHANGED <<now, ev, resets, ptrEv, walk, disk>> /\ pc = "down"
      BY <1>1 DEF Boot, envVars
    <2>2. walk' = << >>
      BY <2>1 DEF ParkInv, OwnInv
    <2>3. TableInv' /\ OwnInv'
      <3>1. /\ \A c \in DOMAIN parked' : /\ parked'[c].t \in Int /\ parked'[c].e \in Int
                                         /\ parked'[c].t <= now + Seconds
            /\ own' \in Coords /\ own' \notin DOMAIN parked'
        BY <1>1, BootParks
      <3>2. now' = now /\ walk' \in Seq(Coords) /\ Len(walk') = 0
        BY <2>1, <2>2
      <3>. QED
        BY ONLY <2>2, <3>1, <3>2 DEF TableInv, OwnInv
    <2>4. Clocks' /\ FileInv'
      BY <1>t, <1>f, <2>1 DEF Clocks
    <2>. QED
      BY <2>3, <2>4 DEF ParkInv
  <1>2. CASE Crash
    <2>1. /\ UNCHANGED <<now, ev, resets, disk>> /\ ptrEv' = 0 /\ own' = StartCoord
          /\ DOMAIN parked' = {} /\ walk' = << >>
      BY <1>2 DEF Crash, GoDown, envVars, NoParks
    <2>2. Clocks' /\ FileInv'
      BY <1>t, <1>f, <2>1 DEF Clocks
    <2>. QED
      BY <2>1, <2>2, ClaimConstants DEF ParkInv, TableInv, OwnInv
  <1>3. CASE Saving
    <2>1. MaySave /\ UNCHANGED <<now, ev, resets, own, ptrEv, parked, walk>> /\ pc' # "down"
      BY <1>3 DEF Saving, envVars
    <2>2. FileInv'
      BY <2>1, SavedFile
    <2>. QED
      BY <1>t, <2>1, <2>2 DEF ParkInv, Clocks, TableInv, OwnInv
  <1>4. CASE WalkParks
    <2>1. /\ walk # << >> /\ walk' = Tail(walk) /\ parked' = Parked(Head(walk))
          /\ UNCHANGED <<now, ev, resets, ptrEv, disk, own>> /\ pc' # "down"
      BY <1>4 DEF WalkParks, envVars
    <2>2. TableInv'
      BY <1>t, <2>1, ClaimConstants DEF Parked, TableInv, Clocks
    <2>3. own \notin DOMAIN parked'
      BY <1>t, <1>h, <2>1 DEF Parked, OwnInv
    <2>4. OwnInv'
      BY <1>t, <1>h, <2>1, <2>3 DEF OwnInv
    <2>5. Clocks' /\ FileInv'
      BY <1>t, <1>f, <2>1 DEF Clocks
    <2>. QED
      BY <2>2, <2>4, <2>5 DEF ParkInv
  <1>5. CASE WalkLands
    <2>1. /\ walk # << >> /\ walk' = << >> /\ parked' = Unparked(Head(walk))
          /\ own' = Head(walk) /\ pc' # "down"
          /\ UNCHANGED <<now, ev, resets, ptrEv, disk>>
      BY <1>5 DEF WalkLands, envVars
    <2>2. TableInv' /\ own' \notin DOMAIN parked'
      BY <1>t, <2>1 DEF Unparked, TableInv
    <2>3. OwnInv'
      BY <1>h, <2>1, <2>2 DEF OwnInv
    <2>4. Clocks' /\ FileInv'
      BY <1>t, <1>f, <2>1 DEF Clocks
    <2>. QED
      BY <2>2, <2>3, <2>4 DEF ParkInv
  <1>6. CASE Tick
    <2>1. /\ UNCHANGED <<now, ev, resets, disk, own, parked, walk>> /\ ptrEv' = ev /\ pc' # "down"
      BY <1>6 DEF Tick, envVars
    <2>. QED
      BY <1>t, <1>f, <2>1 DEF ParkInv, Clocks, TableInv, OwnInv
  <1>7. CASE Passing
    <2>1. UNCHANGED <<now, ev, resets, disk, own, ptrEv, parked>> /\ pc' # "down"
      BY <1>7 DEF Passing
    <2>2. walk' \in {walk, Candidates} \/ (walk # << >> /\ walk' = Tail(walk))
      BY <1>7 DEF Passing
    <2>3. walk' \in Seq(Coords) /\ \A i \in 1..Len(walk') : walk'[i] # own
      BY <1>t, <1>h, <2>2, CandidatesAreOthers DEF OwnInv
    <2>. QED
      BY <1>t, <1>f, <2>1, <2>3 DEF ParkInv, Clocks, TableInv, OwnInv
  <1>8. CASE Around
    <2>1. /\ UNCHANGED <<disk, pc, own, ptrEv, parked, walk>>
          /\ now' \in Nat /\ now' >= now /\ ev' \in Nat /\ resets' \in Nat
      BY <1>8, <1>t DEF Around, procVars, Clocks
    <2>s. Seconds \in Nat
      BY ClaimConstants
    <2>2. TableInv'
      BY ONLY <1>t, <2>1, <2>s DEF TableInv, Clocks
    <2>. QED
      BY <1>t, <1>f, <2>1, <2>2 DEF ParkInv, Clocks, OwnInv
  <1>9. CASE UNCHANGED vars
    BY <1>9 DEF vars, envVars, procVars, ParkInv, Clocks, TableInv, FileInv, BlobOk, OwnInv
  <1>. QED
    BY <1>1, <1>2, <1>3, <1>4, <1>5, <1>6, <1>7, <1>8, <1>9, ClaimSteps

(* What a restart brings back never parks a coordinate beyond one full      *)
(* cooldown from now, in seconds or in events of the live counter: the two   *)
(* clamps of CoordCooldown.restore, for every clock, every number of counter *)
(* resets and every save that failed.                                       *)
THEOREM ParksBounded == Spec => RestoredParksBounded
  <1>1. Init => ParkInv
    BY ParkInit
  <1>2. ParkInv /\ [Next]_vars => ParkInv'
    BY ParkStep
  <1>3. ParkInv /\ [Next]_vars =>
          [ pc = "down" /\ pc' = "tick" =>
              \A c \in DOMAIN parked' :
                parked'[c].t <= now + Seconds /\ parked'[c].e <= ev + Events ]_vars
    <2>. SUFFICES ASSUME ParkInv, Next, pc = "down", pc' = "tick", NEW c \in DOMAIN parked'
                  PROVE  parked'[c].t <= now + Seconds /\ parked'[c].e <= ev + Events
      OBVIOUS
    <2>1. \E lad \in Ladders, live \in {{}, {ev}} : Boot(lad, live)
      BY ClaimSteps DEF Crash, Saving, WalkParks, WalkLands, Tick, Passing, Around, procVars
    <2>. QED
      BY <2>1, BootParks
  <1>. QED
    BY <1>1, <1>2, <1>3, PTL DEF Spec, RestoredParksBounded
-----------------------------------------------------------------------------
(* ParkSurvives.  `due` is a history of what completed saves covered, so    *)
(* the argument relates it to the table while the process is up, and to the  *)
(* file for the process that comes after.  A save is skipped when its        *)
(* fingerprint is the last one's, and the fingerprint leaves the seconds     *)
(* out: the skip is sound only if a park with the same deadline in events is *)
(* the same park.  That is what Events >= 1 and a counter that never goes    *)
(* back (or saves that never fail) are for.                                 *)
SavesCover == Events >= 1 /\ (MaxResets = 0 \/ ~DiskFails)

OwedUp(c) == c \in DOMAIN parked /\ parked[c].t >= due[c].t
OwedOnDisk(c) == \E b \in disk : \E p \in b.parks : p.c = c /\ b.saved + p.left >= due[c].t

Same(b, p) == p.c \in DOMAIN parked /\ parked[p.c].t = b.saved + p.left /\ parked[p.c].e = p.e
Gone(p) == ptrEv >= p.e /\ (p.c \in DOMAIN parked => parked[p.c].e > p.e)

Mirror(b) ==
  /\ lastFp = {Fingerprint(b)}
  /\ \A p \in b.parks : Same(b, p) \/ (Gone(p) /\ (MaxResets = 0 \/ OnWalk))

KeptInv ==
  /\ \A c \in Coords : due[c].t \in Int
  /\ pc # "down" => /\ \A c \in Coords : due[c].t > now => OwedUp(c)
                    /\ due[own].t <= now
  /\ \A c \in Coords : due[c].t > now => OwedOnDisk(c)
  /\ \A b \in disk : due[b.coord].t <= now
  /\ lastFp # {} => pc # "down" /\ disk # {} /\ \A b \in disk : Mirror(b)
  /\ MaxResets = 0 => ptrEv <= ev

LEMMA KeptInit == Init => KeptInv
  BY ClaimConstants DEF Init, NoDues, KeptInv

(* A completed save, or one that was skipped.                               *)
LEMMA KeptSave ==
  ASSUME SavesCover, ParkInv, KeptInv, Saving
  PROVE  KeptInv'
  <1>. DEFINE new == Blob(own, parked, rung')
              done == [c \in Coords |-> IF c \in DOMAIN parked THEN parked[c] ELSE due[c]]
  <1>t. Clocks /\ TableInv /\ FileInv /\ OwnInv
    BY DEF ParkInv
  <1>1. /\ pc # "down" /\ pc' # "down" /\ ~OnWalk'
        /\ MaySave /\ (OnWalk => Save(own, parked, rung'))
        /\ UNCHANGED <<now, ev, own, ptrEv, parked>>
    BY DEF Saving, OnWalk, envVars
  <1>n. /\ new.coord = own /\ new.saved = now /\ new.parks = Exported(parked)
    BY DEF Blob
  <1>k. /\ \A c \in Coords : due[c].t \in Int /\ (due[c].t > now => OwedUp(c))
        /\ due[own].t <= now /\ own \in Coords /\ own \notin DOMAIN parked
    BY <1>1, <1>t DEF KeptInv, OwnInv
  <1>d. ASSUME NEW c \in Coords
        PROVE  /\ done[c].t \in Int
               /\ done[c].t > now => /\ c \in DOMAIN parked /\ done[c] = parked[c]
                                     /\ \E p \in Exported(parked) :
                                          /\ p.c = c /\ now + p.left = parked[c].t
                                          /\ p.e = parked[c].e
    <2>1. CASE c \in DOMAIN parked
      <3>1. done[c] = parked[c] /\ parked[c].t \in Int /\ now \in Nat
        BY <2>1, <1>t DEF TableInv, Clocks
      <3>2. ASSUME parked[c].t > now
            PROVE  \E p \in Exported(parked) : /\ p.c = c /\ now + p.left = parked[c].t
                                               /\ p.e = parked[c].e
        <4>. DEFINE p == [c |-> c, left |-> parked[c].t - now, e |-> parked[c].e]
        <4>1. p \in Exported(parked)
          BY <2>1, <3>2 DEF Exported
        <4>2. p.c = c /\ now + p.left = parked[c].t /\ p.e = parked[c].e
          BY <3>1
        <4>. QED
          BY <4>1, <4>2
      <3>. QED
        BY <2>1, <3>1, <3>2
    <2>2. CASE c \notin DOMAIN parked
      BY <2>2, <1>k DEF OwedUp
    <2>. QED
      BY <2>1, <2>2
  <1>o. done[own] = due[own]
    BY <1>k
  <1>. HIDE DEF new, done
  (* the claim's side of the invariant, whatever due became *)
  <1>u. ASSUME due' = done
        PROVE  /\ \A c \in Coords : due'[c].t \in Int
               /\ \A c \in Coords : due'[c].t > now' => OwedUp(c)'
               /\ due'[own'].t <= now'
    <2>1. /\ now' = now /\ own' = own /\ parked' = parked /\ now \in Nat
      BY <1>1, <1>t DEF Clocks
    <2>2. ASSUME NEW c \in Coords, due'[c].t > now' PROVE OwedUp(c)'
      BY <2>1, <2>2, <1>u, <1>d DEF OwedUp
    <2>. QED
      BY <1>u, <1>d, <1>o, <1>k, <2>1, <2>2
  <1>e. MaxResets = 0 => ptrEv' <= ev'
    BY <1>1 DEF KeptInv
  <1>2. CASE disk' = {new} /\ lastFp' = {Fingerprint(new)} /\ due' = done
    <2>1. ASSUME NEW c \in Coords, due'[c].t > now' PROVE OwedOnDisk(c)'
      <3>1. done[c].t > now /\ done[c].t \in Int
        BY <2>1, <1>1, <1>2, <1>d
      <3>2. done[c] = parked[c]
        BY <3>1, <1>d
      <3>3. PICK p \in Exported(parked) : p.c = c /\ now + p.left = parked[c].t
        BY <3>1, <1>d
      <3>4. new \in disk' /\ p \in new.parks /\ p.c = c /\ new.saved + p.left >= due'[c].t
        BY <3>1, <3>2, <3>3, <1>2, <1>n
      <3>. QED
        BY <3>4 DEF OwedOnDisk
    <2>2. \A b \in disk' : due'[b.coord].t <= now'
      BY <1>1, <1>2, <1>n, <1>o, <1>k
    <2>. PICK b : b = new
      OBVIOUS
    <2>3. ASSUME NEW p \in b.parks PROVE Same(b, p)'
      <3>0. p \in Exported(parked) /\ b.saved = now
        BY <1>n
      <3>1. /\ p.c \in DOMAIN parked /\ p.left = parked[p.c].t - now /\ p.e = parked[p.c].e
        BY <3>0, ExportedPark
      <3>2. parked[p.c].t \in Int /\ now \in Nat
        BY <3>1, <1>t DEF TableInv, Clocks
      <3>. QED
        BY <3>0, <3>1, <3>2, <1>1 DEF Same
    <2>4. Mirror(b)'
      BY <2>3, <1>2 DEF Mirror
    <2>5. (lastFp # {} => pc # "down" /\ disk # {} /\ \A d \in disk : Mirror(d))'
      BY <1>1, <1>2, <2>4
    <2>. QED
      BY <1>2, <1>u, <1>e, <2>1, <2>2, <2>5 DEF KeptInv
  <1>3. CASE {Fingerprint(new)} = lastFp /\ UNCHANGED <<disk, lastFp>> /\ due' = done
    <2>1. PICK b \in disk : TRUE
      BY <1>3 DEF KeptInv
    <2>2. /\ disk = {b} /\ BlobOk(b) /\ Mirror(b)
      BY <2>1, <1>3, <1>t DEF KeptInv, FileInv
    <2>3. /\ b.coord = new.coord
          /\ {<<p.c, p.e>> : p \in b.parks} = {<<p.c, p.e>> : p \in new.parks}
      <3>1. Fingerprint(b) = Fingerprint(new)
        BY <2>2, <1>3 DEF Mirror
      <3>2. /\ Fingerprint(b).coord = Fingerprint(new).coord
            /\ Fingerprint(b).parks = Fingerprint(new).parks
        BY <3>1
      <3>. QED
        BY <3>2 DEF Fingerprint
    <2>4. ASSUME NEW p \in b.parks PROVE Same(b, p)
      <3>1. PICK q \in new.parks : q.c = p.c /\ q.e = p.e
        <4>1. <<p.c, p.e>> \in {<<x.c, x.e>> : x \in new.parks}
          BY <2>3
        <4>. QED
          BY <4>1
      <3>2. p.c \in DOMAIN parked /\ parked[p.c].e = p.e /\ p.e \in Int
        BY <3>1, <1>n, <2>2, ExportedPark DEF BlobOk
      <3>. QED
        BY <3>2, <2>2 DEF Mirror, Gone
    <2>5. ASSUME NEW c \in Coords, due'[c].t > now' PROVE OwedOnDisk(c)'
      <3>1. done[c].t > now /\ done[c].t \in Int
        BY <2>5, <1>1, <1>3, <1>d
      <3>2. done[c] = parked[c]
        BY <3>1, <1>d
      <3>3. PICK q \in Exported(parked) : q.c = c
        BY <3>1, <1>d
      <3>4. PICK p \in b.parks : p.c = c
        <4>1. <<q.c, q.e>> \in {<<x.c, x.e>> : x \in b.parks}
          BY <2>3, <1>n
        <4>. QED
          BY <4>1, <3>3
      <3>5. b.saved + p.left >= due'[c].t
        BY <2>4, <3>1, <3>2, <3>4, <1>3 DEF Same
      <3>. QED
        BY <2>1, <1>3, <3>4, <3>5 DEF OwedOnDisk
    <2>6. \A d \in disk' : due'[d.coord].t <= now'
      BY <1>1, <1>3, <1>n, <1>o, <1>k, <2>2, <2>3
    <2>7. Mirror(b)'
      <3>1. \A p \in b.parks : Same(b, p)'
        BY <2>4, <1>1 DEF Same
      <3>. QED
        BY <3>1, <2>2, <1>3 DEF Mirror
    <2>. QED
      BY <1>1, <1>3, <1>u, <1>e, <2>2, <2>5, <2>6, <2>7 DEF KeptInv
  <1>4. CASE UNCHANGED <<disk, lastFp, due>> /\ (DiskFails \/ ~OnWalk)
    <2>1. UNCHANGED <<now, ev, own, ptrEv, parked, disk, lastFp, due>>
      BY <1>1, <1>4
    <2>2. \A b, p : (Same(b, p)' <=> Same(b, p)) /\ (Gone(p)' <=> Gone(p))
      BY <2>1 DEF Same, Gone
    <2>3. MaxResets = 0 \/ ~OnWalk
      BY <1>4 DEF SavesCover
    <2>4. ASSUME NEW b, Mirror(b) PROVE Mirror(b)'
      BY <2>1, <2>2, <2>3, <2>4 DEF Mirror
    <2>5. \A c : (OwedUp(c)' <=> OwedUp(c)) /\ (OwedOnDisk(c)' <=> OwedOnDisk(c))
      BY <2>1 DEF OwedUp, OwedOnDisk
    <2>. QED
      BY <1>1, <2>1, <2>4, <2>5 DEF KeptInv
  <1>. QED
    BY <1>1, <1>2, <1>3, <1>4 DEF MaySave, Save, new, done

LEMMA KeptBoot ==
  ASSUME ParkInv, KeptInv, NEW lad, NEW live \in {{}, {ev}}, Boot(lad, live)
  PROVE  KeptInv'
  <1>t. Clocks /\ TableInv /\ FileInv /\ OwnInv
    BY DEF ParkInv
  <1>1. /\ pc = "down" /\ lastFp = {} /\ UNCHANGED <<now, ev, ptrEv, disk, lastFp, due>>
    BY DEF Boot, envVars, histVars, KeptInv
  <1>2. ASSUME NEW c \in Coords, due[c].t > now PROVE OwedUp(c)'
    <2>1. PICK b \in disk : \E p \in b.parks : p.c = c /\ b.saved + p.left >= due[c].t
      BY <1>2 DEF KeptInv, OwedOnDisk
    <2>2. PICK p \in b.parks : p.c = c /\ b.saved + p.left >= due[c].t
      BY <2>1
    <2>3. (CHOOSE d \in disk : TRUE) = b /\ BlobOk(b) /\ disk # {}
      BY <2>1, <1>t DEF FileInv
    <2>4. parked' = Restored(b, live)
      BY <2>3 DEF Boot
    <2>5. Lives(b, p)
      <3>1. p.left \in Int /\ b.saved \in Nat /\ now \in Nat /\ due[c].t \in Int
        BY <2>2, <2>3, <1>t DEF BlobOk, Clocks, KeptInv
      <3>. QED
        BY ONLY <1>2, <2>2, <3>1 DEF Lives
    <2>6. p.c \in DOMAIN Restored(b, live)
      BY <1>t, <2>3, <2>5, RestoredPark
    <2>7. Restored(b, live)[p.c].t = b.saved + p.left
      BY <1>t, <2>3, <2>5, RestoredPark
    <2>. QED
      BY <2>2, <2>4, <2>6, <2>7, <1>1 DEF OwedUp
  <1>3. due[own'].t <= now
    <2>1. CASE disk = {}
      BY <2>1, <1>t, ClaimConstants DEF Boot, KeptInv, OwedOnDisk, Clocks
    <2>2. CASE disk # {}
      BY <2>2 DEF Boot, KeptInv
    <2>. QED
      BY <2>1, <2>2
  <1>4. \A c : OwedOnDisk(c)' <=> OwedOnDisk(c)
    BY <1>1 DEF OwedOnDisk
  <1>. QED
    BY <1>1, <1>2, <1>3, <1>4 DEF KeptInv

(* The walk: only a candidate whose two halves have elapsed is parked anew   *)
(* or claimed.                                                              *)
LEMMA KeptWalk ==
  ASSUME SavesCover, ParkInv, KeptInv, WalkParks \/ WalkLands
  PROVE  KeptInv'
  <1>. DEFINE h == Head(walk)
  <1>t. Clocks /\ TableInv /\ FileInv /\ OwnInv
    BY DEF ParkInv
  <1>1. /\ pc = "advance" /\ OnWalk' /\ pc' # "down" /\ walk # << >> /\ ~Blocked(h)
        /\ UNCHANGED <<now, ev, ptrEv, disk, lastFp, due>>
        /\ \/ own' = own /\ parked' = Parked(h)
           \/ own' = h /\ parked' = Unparked(h)
    BY DEF WalkParks, WalkLands, OnWalk, envVars, histVars
  <1>h. h \in Coords
    <2>1. Len(walk) >= 1 /\ h = walk[1]
      BY <1>1, <1>t DEF OwnInv
    <2>. QED
      BY <1>1, <1>t DEF OwnInv
  <1>b. h \in DOMAIN parked => now >= parked[h].t /\ ptrEv >= parked[h].e
    BY <1>1 DEF Blocked
  <1>2. due[h].t <= now
    BY <1>1, <1>h, <1>b, <1>t DEF KeptInv, OwedUp, TableInv, Clocks
  <1>p. \A c \in DOMAIN parked : c # h => c \in DOMAIN parked' /\ parked'[c] = parked[c]
    BY <1>1 DEF Parked, Unparked
  <1>q. h \in DOMAIN parked' => parked'[h].e = ptrEv + Events
    BY <1>1 DEF Parked, Unparked
  <1>r. \A c \in DOMAIN parked' : c # h => c \in DOMAIN parked
    BY <1>1 DEF Parked, Unparked
  <1>. HIDE DEF h
  <1>3. ASSUME NEW c \in Coords, due[c].t > now PROVE OwedUp(c)'
    <2>1. c # h /\ OwedUp(c)
      BY <1>1, <1>2, <1>3, <1>t DEF KeptInv, Clocks
    <2>. QED
      BY <2>1, <1>p, <1>1 DEF OwedUp
  <1>4. due[own'].t <= now
    BY <1>1, <1>2 DEF KeptInv
  <1>5. ASSUME NEW b \in disk, Mirror(b) PROVE Mirror(b)'
    <2>1. ASSUME NEW p \in b.parks PROVE Same(b, p)' \/ Gone(p)'
      <3>t. p.e \in Int /\ ptrEv \in Nat /\ Events \in Nat /\ Events >= 1
        BY <1>t, ClaimConstants DEF FileInv, BlobOk, Clocks, SavesCover
      <3>0. Same(b, p) \/ Gone(p)
        BY <1>5 DEF Mirror
      <3>1. CASE p.c = h
        <4>1. ptrEv >= p.e
          BY <3>0, <3>1, <1>b DEF Same, Gone
        <4>2. p.c \in DOMAIN parked' => parked'[p.c].e > p.e
          BY <4>1, <3>1, <3>t, <1>q
        <4>. QED
          BY <4>1, <4>2, <1>1 DEF Gone
      <3>2. CASE p.c # h
        BY <3>0, <3>2, <1>1, <1>p, <1>r DEF Same, Gone
      <3>. QED
        BY <3>1, <3>2
    <2>. QED
      BY <1>5, <2>1, <1>1 DEF Mirror
  <1>6. \A c : OwedOnDisk(c)' <=> OwedOnDisk(c)
    BY <1>1 DEF OwedOnDisk
  <1>. QED
    BY <1>1, <1>3, <1>4, <1>5, <1>6 DEF KeptInv

LEMMA KeptRest ==
  ASSUME SavesCover, ParkInv, KeptInv,
         Crash \/ Tick \/ Passing \/ Around \/ UNCHANGED vars
  PROVE  KeptInv'
  <1>t. Clocks
    BY DEF ParkInv
  <1>1. UNCHANGED <<disk, due>> /\ now' \in Nat /\ now' >= now /\ now \in Nat
    BY <1>t DEF Crash, GoDown, Tick, Passing, Around, Clocks, envVars, procVars, histVars, vars
  <1>2. /\ \A c \in Coords : due'[c].t \in Int
        /\ \A c \in Coords : due'[c].t > now' => OwedOnDisk(c)'
        /\ \A b \in disk' : due'[b.coord].t <= now'
    <2>1. ASSUME NEW b \in disk PROVE due[b.coord].t <= now'
      BY <1>1, <1>t DEF ParkInv, FileInv, BlobOk, KeptInv
    <2>2. \A c : OwedOnDisk(c)' <=> OwedOnDisk(c)
      BY <1>1 DEF OwedOnDisk
    <2>3. \A c \in Coords : due[c].t > now' => due[c].t > now
      BY <1>1 DEF KeptInv
    <2>4. \A c \in Coords : due'[c].t > now' => OwedOnDisk(c)'
      BY <1>1, <2>2, <2>3 DEF KeptInv
    <2>. QED
      BY <1>1, <2>1, <2>4 DEF KeptInv
  <1>3. CASE Crash
    <2>1. lastFp' = {} /\ pc' = "down" /\ ptrEv' = 0 /\ ev' = ev
      BY <1>3 DEF Crash, GoDown, envVars
    <2>. QED
      BY <1>2, <2>1, <1>t DEF KeptInv, Clocks
  <1>4. ASSUME UNCHANGED <<own, parked, lastFp>>, pc' = "down" <=> pc = "down",
               MaxResets = 0 => ptrEv' >= ptrEv /\ ptrEv' <= ev',
               ptrEv' = ptrEv \/ ~OnWalk, OnWalk => OnWalk'
        PROVE  KeptInv'
    <2>1. pc' # "down" => /\ \A c \in Coords : due'[c].t > now' => OwedUp(c)'
                          /\ due'[own'].t <= now'
      BY <1>1, <1>4 DEF KeptInv, OwedUp, ParkInv, OwnInv
    <2>2. ASSUME NEW b \in disk, Mirror(b) PROVE Mirror(b)'
      <3>1. ASSUME NEW p \in b.parks
            PROVE  Same(b, p)' \/ (Gone(p)' /\ (MaxResets = 0 \/ OnWalk'))
        <4>1. CASE Same(b, p)
          BY <4>1, <1>4 DEF Same
        <4>2. CASE Gone(p) /\ (MaxResets = 0 \/ OnWalk)
          <5>1. p.e \in Int /\ ptrEv \in Nat /\ ptrEv' \in Int
            <6>1. p.e \in Int /\ ptrEv \in Nat /\ ev \in Nat
              BY <1>t DEF ParkInv, FileInv, BlobOk, Clocks
            <6>2. ptrEv' = ptrEv \/ ptrEv' = ev \/ ptrEv' = 0
              BY DEF Crash, GoDown, Tick, Passing, Around, procVars, vars
            <6>. QED
              BY <6>1, <6>2
          <5>2. ptrEv' >= ptrEv
            BY <4>2, <1>4, <5>1
          <5>. QED
            BY <4>2, <5>1, <5>2, <1>4 DEF Gone
        <4>. QED
          BY <4>1, <4>2, <2>2 DEF Mirror
      <3>. QED
        BY <2>2, <3>1, <1>4 DEF Mirror
    <2>3. lastFp' # {} => pc' # "down" /\ disk' # {} /\ \A b \in disk' : Mirror(b)'
      BY <1>1, <1>4, <2>2 DEF KeptInv
    <2>4. MaxResets = 0 => ptrEv' <= ev'
      BY <1>4
    <2>. QED
      BY <1>2, <2>1, <2>3, <2>4 DEF KeptInv
  <1>5. CASE Tick
    <2>1. UNCHANGED <<own, parked, lastFp, ev>> /\ ptrEv' = ev /\ pc = "tick" /\ pc' = "fold"
      BY <1>5 DEF Tick, envVars
    <2>. QED
      BY <1>4, <2>1, <1>t DEF KeptInv, OnWalk, Clocks
  <1>6. CASE Passing
    <2>1. UNCHANGED <<own, parked, lastFp, ev, ptrEv>> /\ pc # "down" /\ pc' # "down"
          /\ (OnWalk => OnWalk')
      BY <1>6 DEF Passing
    <2>. QED
      BY <1>4, <2>1, <1>t DEF KeptInv, Clocks
  <1>7. CASE Around
    <2>1. UNCHANGED <<own, parked, lastFp, ptrEv, pc>>
      BY <1>7 DEF Around, procVars
    <2>2. MaxResets = 0 => ev' \in {ev, ev + 1}
      BY <1>7, <1>t DEF Around, Clocks
    <2>3. MaxResets = 0 => ptrEv' <= ev'
      BY <2>1, <2>2, <1>t DEF KeptInv, Clocks
    <2>. QED
      BY <1>4, <2>1, <2>3, <1>t DEF OnWalk, Clocks
  <1>8. CASE UNCHANGED vars
    <2>1. UNCHANGED <<own, parked, lastFp, ptrEv, pc, ev>>
      BY <1>8 DEF vars, envVars, procVars
    <2>. QED
      BY <1>4, <2>1, <1>t DEF KeptInv, OnWalk, Clocks
  <1>. QED
    BY <1>3, <1>5, <1>6, <1>7, <1>8

(* A park that a completed save covered is kept through restarts: no round   *)
(* trains on the coordinate before the wall-clock half has elapsed, for      *)
(* every interleaving of saves, crashes, clocks and walks.  The hypothesis is *)
(* what the skipped save of ClaimState._fingerprint needs: with cooldowns of *)
(* no events two parks of a coordinate look alike, and the later one is lost. *)
THEOREM ParksKept == ASSUME SavesCover PROVE Spec => []ParkSurvives
  <1>1. Init => ParkInv /\ KeptInv
    BY ParkInit, KeptInit
  <1>2. ParkInv /\ KeptInv /\ [Next]_vars => (ParkInv /\ KeptInv)'
    BY ParkStep, ClaimSteps, KeptBoot, KeptSave, KeptWalk, KeptRest
  <1>3. KeptInv => ParkSurvives
    BY DEF KeptInv, ParkSurvives
  <1>. QED
    BY <1>1, <1>2, <1>3, PTL DEF Spec
-----------------------------------------------------------------------------
(* DoseKept.  The rung of a layer lives three times: in the ladder, in the  *)
(* file, and as whole streaks in the history of our losses.                 *)
OneLadder == \A a, b \in Ladders : a = b
SteadyLadder == ~CanBlock /\ ~DiskFails /\ OneLadder

Lowest == Len(SomeLadder) - 1

Entry(r) == r.l \in Layers /\ r.rung \in 1..Lowest /\ r.mult = SomeLadder[r.rung + 1]

(* The file holds exactly the rungs rg, those of the campaign's dose left out. *)
Holds(rg) ==
  /\ \A b \in disk : \A r \in b.rungs : r.rung = rg[r.l]
  /\ \A l \in Layers : rg[l] > 0 => \E b \in disk : \E r \in b.rungs : r.l = l

EntriesOk ==
  \A b \in disk : /\ \A r \in b.rungs : Entry(r)
                  /\ \A r, q \in b.rungs : r.l = q.l => r = q

FpIsDisk == lastFp # {} => disk # {} /\ \A b \in disk : lastFp = {Fingerprint(b)}

(* Every rung is paid for in whole streaks, and the streak under way is not  *)
(* yet counted in one of them.                                              *)
PaidRungs ==
  \A l \in Layers :
    losses[l] >= AdvanceAfter * rung[l] + (IF l = LayerOf[own] THEN lost ELSE 0)

PaidEntries == \A b \in disk : \A r \in b.rungs : losses[r.l] >= AdvanceAfter * r.rung

DoseType ==
  /\ ladder = SomeLadder
  /\ rung \in [Layers -> 0..Lowest] /\ losses \in [Layers -> Nat] /\ lost \in Nat

DoseInv ==
  /\ DoseType /\ EntriesOk /\ FpIsDisk
  /\ pc # "down" => Holds(rung)
  /\ pc = "down" => lost = 0 /\ lastFp = {}
  /\ PaidRungs /\ PaidEntries

LEMMA LadderFacts ==
  /\ SomeLadder \in Ladders /\ SomeLadder \in Seq(Nat \ {0}) /\ Lowest \in Nat
  /\ Len(SomeLadder) = Lowest + 1 /\ AdvanceAfter \in Nat
  <1>1. SomeLadder \in Ladders
    BY ClaimConstants DEF SomeLadder
  <1>2. SomeLadder \in Seq(Nat \ {0}) /\ SomeLadder # << >>
    BY <1>1, ClaimConstants
  <1>3. Len(SomeLadder) \in Nat /\ Len(SomeLadder) # 0
    BY <1>2
  <1>. QED
    BY <1>1, <1>2, <1>3, ClaimConstants DEF Lowest

LEMMA TimesZero == ASSUME NEW a \in Nat PROVE a * 0 = 0
  OBVIOUS

LEMMA TimesNext == ASSUME NEW a \in Nat, NEW n \in Nat PROVE a * (n + 1) = a * n + a
  OBVIOUS

LEMMA DoseInit == Init => DoseInv
  <1>. SUFFICES ASSUME Init PROVE DoseInv
    OBVIOUS
  <1>1. /\ disk = {} /\ pc = "down" /\ ladder = SomeLadder /\ lastFp = {} /\ lost = 0
        /\ rung = [l \in Layers |-> 0] /\ losses = [l \in Layers |-> 0]
    BY DEF Init, TopRungs
  <1>2. DoseType
    BY <1>1, LadderFacts DEF DoseType
  <1>3. PaidRungs
    BY <1>1, LadderFacts, TimesZero DEF PaidRungs
  <1>. QED
    BY <1>1, <1>2, <1>3 DEF DoseInv, EntriesOk, FpIsDisk, PaidEntries

(* A save that cannot fail leaves the rungs it was given in the file.       *)
LEMMA SavedRungs ==
  ASSUME ~DiskFails, DoseType, EntriesOk, FpIsDisk,
         NEW rg \in [Layers -> 0..Lowest], Save(own, parked, rg), now' = now
  PROVE  /\ EntriesOk' /\ FpIsDisk' /\ Holds(rg)'
  <1>. DEFINE new == Blob(own, parked, rg)
  <1>1. new.rungs = {[l |-> l, rung |-> rg[l], mult |-> SomeLadder[rg[l] + 1]] :
                       l \in {k \in Layers : rg[k] > 0}}
    BY DEF Blob, ExportedRungs, DoseType
  <1>2. /\ \A r \in new.rungs : Entry(r) /\ r.rung = rg[r.l]
        /\ \A r, q \in new.rungs : r.l = q.l => r = q
        /\ \A l \in Layers : rg[l] > 0 => \E r \in new.rungs : r.l = l
    <2>1. \A r \in new.rungs : Entry(r) /\ r.rung = rg[r.l]
      BY <1>1, LadderFacts DEF Entry
    <2>2. \A r, q \in new.rungs : r.l = q.l => r = q
      BY <1>1
    <2>3. ASSUME NEW l \in Layers, rg[l] > 0
          PROVE  \E r \in new.rungs : r.l = l
      <3>. DEFINE r == [l |-> l, rung |-> rg[l], mult |-> SomeLadder[rg[l] + 1]]
      <3>1. r \in new.rungs /\ r.l = l
        BY <1>1, <2>3
      <3>. QED
        BY <3>1
    <2>. QED
      BY <2>1, <2>2, <2>3
  <1>. HIDE DEF new
  <1>3. CASE disk' = {new} /\ lastFp' = {Fingerprint(new)}
    <2>. PICK b : b = new
      OBVIOUS
    <2>1. disk' = {b} /\ lastFp' = {Fingerprint(b)}
      BY <1>3
    <2>2. EntriesOk'
      BY <2>1, <1>2 DEF EntriesOk, Entry
    <2>3. FpIsDisk'
      <3>1. Fingerprint(b)' = Fingerprint(b)
        BY DEF Fingerprint
      <3>. QED
        BY <2>1, <3>1 DEF FpIsDisk
    <2>4. Holds(rg)'
      BY <2>1, <1>2 DEF Holds
    <2>. QED
      BY <2>2, <2>3, <2>4
  <1>4. CASE {Fingerprint(new)} = lastFp /\ UNCHANGED <<disk, lastFp>>
    <2>1. PICK b \in disk : \A d \in disk : lastFp = {Fingerprint(d)}
      BY <1>4 DEF FpIsDisk
    <2>2. ASSUME NEW d \in disk
          PROVE  {<<r.l, r.rung>> : r \in d.rungs} = {<<r.l, r.rung>> : r \in new.rungs}
      <3>1. Fingerprint(d).rungs = Fingerprint(new).rungs
        BY <1>4, <2>1
      <3>. QED
        BY <3>1 DEF Fingerprint
    <2>3. ASSUME NEW d \in disk, NEW r \in d.rungs PROVE r.rung = rg[r.l]
      <3>1. <<r.l, r.rung>> \in {<<x.l, x.rung>> : x \in new.rungs}
        BY <2>2
      <3>2. PICK x \in new.rungs : x.l = r.l /\ x.rung = r.rung
        BY <3>1
      <3>. QED
        BY <3>2, <1>2
    <2>4. ASSUME NEW l \in Layers, rg[l] > 0 PROVE \E r \in b.rungs : r.l = l
      <3>1. PICK x \in new.rungs : x.l = l
        BY <2>4, <1>2
      <3>2. <<x.l, x.rung>> \in {<<r.l, r.rung>> : r \in b.rungs}
        BY <2>2
      <3>. QED
        BY <3>1, <3>2
    <2>5. Holds(rg)'
      BY <1>4, <2>1, <2>3, <2>4 DEF Holds
    <2>. QED
      BY <1>4, <2>5 DEF EntriesOk, FpIsDisk
  <1>. QED
    BY <1>3, <1>4 DEF Save, new

(* What the file holds is paid for when the ladder is.                      *)
LEMMA EntriesArePaid ==
  ASSUME DoseType, EntriesOk, PaidRungs, Holds(rung)
  PROVE  PaidEntries
  <1>. SUFFICES ASSUME NEW b \in disk, NEW r \in b.rungs
                PROVE  losses[r.l] >= AdvanceAfter * r.rung
    BY DEF PaidEntries
  <1>1. r.l \in Layers /\ r.rung = rung[r.l]
    BY DEF EntriesOk, Entry, Holds
  <1>2. losses[r.l] >= AdvanceAfter * rung[r.l] + (IF r.l = LayerOf[own] THEN lost ELSE 0)
    BY <1>1 DEF PaidRungs
  <1>3. losses[r.l] \in Nat /\ AdvanceAfter * rung[r.l] \in Nat /\ lost \in Nat
    BY <1>1, LadderFacts DEF DoseType
  <1>. QED
    BY <1>1, <1>2, <1>3

LEMMA EntriesArePaidNext ==
  DoseType' /\ EntriesOk' /\ PaidRungs' /\ Holds(rung)' => PaidEntries'
  BY EntriesArePaid, PTL

LEMMA DoseBoot ==
  ASSUME OneLadder, ParkInv, DoseInv, NEW lad \in Ladders, NEW live, Boot(lad, live)
  PROVE  DoseInv'
  <1>1. /\ pc = "down" /\ pc' = "tick" /\ lad = SomeLadder /\ ladder' = SomeLadder
        /\ rung' = RestoredRungs(SomeLadder) /\ lost = 0 /\ lastFp = {}
        /\ UNCHANGED <<disk, lastFp, losses, lost>>
    BY LadderFacts DEF Boot, envVars, histVars, DoseInv, OneLadder
  <1>2. ASSUME NEW b \in disk, NEW r \in b.rungs
        PROVE  r.l \in Layers /\ rung'[r.l] = r.rung /\ r.rung \in 1..Lowest
    <2>1. Entry(r) /\ \A q \in b.rungs : q.l = r.l => q = r
      BY DEF DoseInv, EntriesOk
    <2>2. \A d \in disk : d = b
      BY DEF ParkInv, FileInv
    <2>3. (CHOOSE d \in disk : TRUE) = b
      BY <2>2
    <2>4. (CHOOSE q \in b.rungs : q.l = r.l) = r
      BY <2>1
    <2>5. RestoredRung(SomeLadder, r) = r.rung
      BY <2>1, LadderFacts DEF RestoredRung, Entry
    <2>6. r.l \in Layers
      BY <2>1 DEF Entry
    <2>7. RestoredRungs(SomeLadder)[r.l] = RestoredRung(SomeLadder, r)
      BY <2>3, <2>4, <2>6 DEF RestoredRungs
    <2>. QED
      BY <1>1, <2>1, <2>5, <2>6, <2>7 DEF Entry
  <1>3. ASSUME NEW l \in Layers, ~ \E b \in disk : \E r \in b.rungs : r.l = l
        PROVE  rung'[l] = 0
    BY <1>1, <1>3 DEF RestoredRungs
  <1>4. DoseType'
    <2>1. \A l \in Layers : rung'[l] \in 0..Lowest
      BY <1>2, <1>3, LadderFacts
    <2>2. rung' = [l \in Layers |-> rung'[l]]
      BY <1>1 DEF RestoredRungs
    <2>. QED
      BY <1>1, <2>1, <2>2 DEF DoseInv, DoseType
  <1>5. Holds(rung)'
    <2>1. \A b \in disk' : \A r \in b.rungs : r.rung = rung'[r.l]
      BY <1>1, <1>2
    <2>2. \A l \in Layers : rung'[l] > 0 => \E b \in disk' : \E r \in b.rungs : r.l = l
      BY <1>1, <1>3
    <2>. QED
      BY <2>1, <2>2 DEF Holds
  <1>6. PaidRungs'
    <2>1. ASSUME NEW l \in Layers PROVE losses[l] >= AdvanceAfter * rung'[l]
      <3>1. CASE \E b \in disk : \E r \in b.rungs : r.l = l
        <4>1. PICK b \in disk : \E r \in b.rungs : r.l = l
          BY <3>1
        <4>2. PICK r \in b.rungs : r.l = l
          BY <4>1
        <4>3. losses[r.l] >= AdvanceAfter * r.rung
          BY <4>1, <4>2 DEF DoseInv, PaidEntries
        <4>. QED
          BY <4>2, <4>3, <1>2
      <3>2. CASE ~ \E b \in disk : \E r \in b.rungs : r.l = l
        <4>1. rung'[l] = 0 /\ losses[l] \in Nat
          BY <3>2, <1>3 DEF DoseInv, DoseType
        <4>. QED
          BY <4>1, TimesZero, LadderFacts
      <3>. QED
        BY <3>1, <3>2
    <2>2. \A l \in Layers : losses[l] \in Nat /\ AdvanceAfter * rung'[l] \in Nat
      BY <1>4, LadderFacts DEF DoseInv, DoseType
    <2>. QED
      BY <1>1, <2>1, <2>2 DEF PaidRungs
  <1>7. EntriesOk' /\ FpIsDisk' /\ PaidEntries'
    BY <1>1 DEF DoseInv, EntriesOk, Entry, FpIsDisk, PaidEntries
  <1>. QED
    BY <1>1, <1>4, <1>5, <1>6, <1>7 DEF DoseInv

(* A step of a running process that leaves the ladder alone.                *)
LEMMA DoseSame ==
  ASSUME DoseInv, pc # "down", pc' # "down",
         UNCHANGED <<ladder, rung, disk, lastFp>>,
         losses' \in [Layers -> Nat], lost' \in Nat, PaidRungs'
  PROVE  DoseInv'
  <1>1. DoseType' /\ EntriesOk' /\ FpIsDisk' /\ Holds(rung)'
    BY DEF DoseInv, DoseType, EntriesOk, Entry, FpIsDisk, Holds
  <1>2. PaidEntries'
    BY <1>1, EntriesArePaidNext
  <1>. QED
    BY <1>1, <1>2 DEF DoseInv

(* A step of a running process that changes the ladder and saves it.        *)
LEMMA DoseSaved ==
  ASSUME ~DiskFails, DoseInv, pc # "down", pc' # "down", now' = now, ladder' = ladder,
         Save(own, parked, rung'), rung' \in [Layers -> 0..Lowest],
         losses' \in [Layers -> Nat], lost' \in Nat, PaidRungs'
  PROVE  DoseInv'
  <1>. PICK rg : rg = rung'
    OBVIOUS
  <1>1. EntriesOk' /\ FpIsDisk' /\ Holds(rg)'
    BY SavedRungs DEF DoseInv
  <1>2. Holds(rung)'
    BY <1>1 DEF Holds
  <1>3. DoseType'
    BY DEF DoseInv, DoseType
  <1>4. PaidEntries'
    BY <1>1, <1>2, <1>3, EntriesArePaidNext
  <1>. QED
    BY <1>1, <1>2, <1>3, <1>4 DEF DoseInv

LEMMA OwnLayer == ASSUME ParkInv PROVE LayerOf[own] \in Layers
  BY DEF ParkInv, OwnInv, Layers

LEMMA DoseFold ==
  ASSUME ~DiskFails, ParkInv, StreakInv, DoseInv, FoldRecord
  PROVE  DoseInv'
  <1>. DEFINE rec == log[last + 1]
              l0 == LayerOf[own]
              ours == rec.coord = own /\ pub # {}
  <1>1. /\ pc = "fold" /\ pc' = "fold" /\ UNCHANGED <<ladder, own, now>> /\ Witness(rec)
        /\ IF rec.coord = own /\ JudgedUs(last + 1) THEN StreakAction(rec) ELSE NoVerdict
    BY DEF FoldRecord, envVars
  <1>2. ours <=> rec.coord = own /\ JudgedUs(last + 1)
    BY DEF JudgedUs, StreakInv, PublishedBehind
  <1>t. /\ rung \in [Layers -> 0..Lowest] /\ losses \in [Layers -> Nat] /\ lost \in Nat
        /\ l0 \in Layers /\ PaidRungs /\ Lowest \in Nat /\ AdvanceAfter \in Nat
    BY OwnLayer, LadderFacts DEF DoseInv, DoseType
  <1>p. \A l \in Layers : /\ AdvanceAfter * rung[l] \in Nat
                          /\ losses[l] >= AdvanceAfter * rung[l] + (IF l = l0 THEN lost ELSE 0)
    BY <1>t DEF PaidRungs
  <1>3. CASE ours /\ rec.us = "accepted"
    <2>1. StreakAccept(l0) /\ lost' = 0 /\ losses' = [losses EXCEPT ![l0] = 0]
      BY <1>1, <1>2, <1>3 DEF Witness, StreakAction
    <2>2. rung' = [rung EXCEPT ![l0] = 0]
      <3>1. CASE rung[l0] > 0
        BY <3>1, <2>1 DEF StreakAccept
      <3>2. CASE ~(rung[l0] > 0)
        BY <3>2, <2>1, <1>t DEF StreakAccept
      <3>. QED
        BY <3>1, <3>2
    <2>3. PaidRungs'
      <3>1. ASSUME NEW l \in Layers
            PROVE  losses'[l] >= AdvanceAfter * rung'[l] + 0
        <4>1. CASE l = l0
          BY <4>1, <2>1, <2>2, <1>t, TimesZero
        <4>2. CASE l # l0
          BY <4>2, <2>1, <2>2, <1>t, <1>p
        <4>. QED
          BY <4>1, <4>2
      <3>. QED
        BY <3>1, <2>1 DEF PaidRungs
    <2>4. losses' \in [Layers -> Nat] /\ lost' \in Nat /\ rung' \in [Layers -> 0..Lowest]
      BY <2>1, <2>2, <1>t
    <2>5. Save(own, parked, rung') \/ UNCHANGED <<rung, disk, lastFp>>
      BY <2>1 DEF StreakAccept
    <2>. QED
      BY <1>1, <2>3, <2>4, <2>5, DoseSame, DoseSaved
  <1>4. CASE ours /\ rec.us = "rejected"
    <2>1. /\ UNCHANGED <<rung, disk, lastFp>>
          /\ lost' = lost + 1 /\ losses' = [losses EXCEPT ![l0] = losses[l0] + 1]
      BY <1>1, <1>2, <1>4 DEF Witness, StreakAction, StreakReject
    <2>2. PaidRungs'
      <3>1. ASSUME NEW l \in Layers
            PROVE  losses'[l] >= AdvanceAfter * rung[l] + (IF l = l0 THEN lost + 1 ELSE 0)
        BY <2>1, <1>t, <1>p
      <3>. QED
        BY <3>1, <2>1, <1>1 DEF PaidRungs
    <2>. QED
      BY <1>1, <2>1, <2>2, <1>t, DoseSame
  <1>5. CASE ~(ours /\ rec.us \in {"accepted", "rejected"})
    <2>1. UNCHANGED <<rung, disk, lastFp, lost, losses>>
      BY <1>1, <1>2, <1>5 DEF Witness, StreakAction, NoVerdict
    <2>2. PaidRungs'
      BY <2>1, <1>1, <1>t DEF PaidRungs
    <2>. QED
      BY <1>1, <2>1, <2>2, <1>t, DoseSame
  <1>. QED
    BY <1>3, <1>4, <1>5

(* A smaller dose: one whole streak of this claim becomes one rung.         *)
LEMMA DoseShrink ==
  ASSUME ~DiskFails, ParkInv, StreakInv, DoseInv, Shrink
  PROVE  DoseInv'
  <1>. DEFINE l0 == LayerOf[own]
  <1>1. /\ pc = "judge" /\ pc' \in {"tick", "work"} /\ streak >= AdvanceAfter
        /\ rung[l0] < Bottom /\ rung' = [rung EXCEPT ![l0] = rung[l0] + 1] /\ lost' = 0
        /\ Save(own, parked, rung') /\ UNCHANGED <<ladder, own, now, losses>>
    BY DEF Shrink, Plateau, AfterSave, envVars
  <1>t. /\ rung \in [Layers -> 0..Lowest] /\ losses \in [Layers -> Nat] /\ lost \in Nat
        /\ l0 \in Layers /\ PaidRungs /\ Lowest \in Nat /\ AdvanceAfter \in Nat
        /\ streak \in Nat /\ streak <= lost /\ Bottom = Lowest
    BY OwnLayer, LadderFacts
       DEF DoseInv, DoseType, StreakInv, StreakIsOurs, Bottom, Lowest
  <1>p. \A l \in Layers : /\ AdvanceAfter * rung[l] \in Nat
                          /\ losses[l] >= AdvanceAfter * rung[l] + (IF l = l0 THEN lost ELSE 0)
    BY <1>t DEF PaidRungs
  <1>2. ASSUME NEW l \in Layers PROVE losses[l] >= AdvanceAfter * rung'[l]
    <2>1. CASE l = l0
      <3>1. AdvanceAfter * (rung[l0] + 1) = AdvanceAfter * rung[l0] + AdvanceAfter
        BY <1>t, TimesNext
      <3>2. losses[l0] >= AdvanceAfter * rung[l0] + lost
        BY <1>t, <1>p
      <3>3. rung'[l0] = rung[l0] + 1
        BY <1>1, <1>t
      <3>4. losses[l0] \in Nat /\ AdvanceAfter * rung[l0] \in Nat
        BY <1>t, <1>p
      <3>5. losses[l0] >= AdvanceAfter * rung[l0] + AdvanceAfter
        BY ONLY <3>2, <3>4, <1>1, <1>t
      <3>. QED
        BY <2>1, <3>1, <3>3, <3>5
    <2>2. CASE l # l0
      BY <2>2, <1>1, <1>t, <1>p
    <2>. QED
      BY <2>1, <2>2
  <1>3. rung' \in [Layers -> 0..Lowest]
    BY <1>1, <1>t
  <1>4. PaidRungs'
    <2>1. \A l \in Layers : losses[l] \in Nat /\ AdvanceAfter * rung'[l] \in Nat
      BY <1>3, <1>t
    <2>. QED
      BY <1>1, <1>2, <2>1 DEF PaidRungs
  <1>. QED
    BY <1>1, <1>3, <1>4, <1>t, DoseSaved

(* Every other step of the process.                                         *)
LEMMA DoseRest ==
  ASSUME ParkInv, StreakInv, DoseInv, ~DiskFails,
         \/ Tick \/ FoldEnd \/ Release \/ RetryWalk \/ StayPut \/ WalkPast \/ WalkParks
         \/ WalkLands \/ WalkFails \/ SaveWalk \/ Publish \/ SkipRound
  PROVE  DoseInv'
  <1>t. /\ losses \in [Layers -> Nat] /\ lost \in Nat /\ PaidRungs
        /\ rung \in [Layers -> 0..Lowest] /\ Lowest \in Nat /\ AdvanceAfter \in Nat
    BY LadderFacts DEF DoseInv, DoseType
  <1>1. /\ pc # "down" /\ pc' # "down" /\ UNCHANGED <<ladder, rung, losses, now>>
        /\ \/ lost' = 0
           \/ lost' = lost /\ own' = own
    BY DEF Tick, FoldEnd, Release, RetryWalk, StayPut, WalkPast, WalkParks, WalkLands,
           WalkFails, SaveWalk, Publish, SkipRound, AfterSave, envVars, histVars
  <1>2. \A l \in Layers : losses[l] \in Nat /\ AdvanceAfter * rung[l] \in Nat
    BY <1>t
  <1>3. PaidRungs'
    <2>1. ASSUME NEW l \in Layers
          PROVE  losses[l] >= AdvanceAfter * rung[l] + (IF l = LayerOf[own'] THEN lost' ELSE 0)
      <3>1. losses[l] >= AdvanceAfter * rung[l] + (IF l = LayerOf[own] THEN lost ELSE 0)
        BY <1>t DEF PaidRungs
      <3>. QED
        BY <3>1, <1>1, <1>2, <1>t
    <2>. QED
      BY <2>1, <1>1 DEF PaidRungs
  <1>4. UNCHANGED <<disk, lastFp>> \/ Save(own, parked, rung')
    <2>1. CASE SaveWalk
      <3>1. Save(own, parked, rung) /\ rung' = rung
        BY <2>1 DEF SaveWalk
      <3>. QED
        BY <3>1
    <2>2. CASE ~SaveWalk
      BY <2>2 DEF Tick, FoldEnd, Release, RetryWalk, StayPut, WalkPast, WalkParks, WalkLands,
                  WalkFails, Publish, SkipRound
    <2>. QED
      BY <2>1, <2>2
  <1>. QED
    BY <1>1, <1>3, <1>4, <1>t, DoseSame, DoseSaved

LEMMA DoseCrash == ASSUME DoseInv, Crash PROVE DoseInv'
  <1>1. /\ pc' = "down" /\ ladder' = SomeLadder /\ rung' = [l \in Layers |-> 0]
        /\ lastFp' = {} /\ lost' = 0 /\ UNCHANGED <<disk, losses>>
    BY DEF Crash, GoDown, TopRungs
  <1>2. DoseType'
    BY <1>1, LadderFacts DEF DoseInv, DoseType
  <1>3. PaidRungs'
    BY <1>1, LadderFacts, TimesZero DEF PaidRungs, DoseInv, DoseType
  <1>. QED
    BY <1>1, <1>2, <1>3 DEF DoseInv, EntriesOk, Entry, FpIsDisk, PaidEntries

LEMMA DoseAround ==
  ASSUME DoseInv, Around \/ UNCHANGED vars
  PROVE  DoseInv'
  <1>1. UNCHANGED <<disk, pc, ladder, own, rung, lastFp, lost, losses>>
    BY DEF Around, vars, procVars, histVars
  <1>. QED
    BY <1>1 DEF DoseInv, DoseType, EntriesOk, Entry, FpIsDisk, Holds, PaidRungs, PaidEntries

LEMMA DoseStep ==
  ASSUME SteadyLadder, ParkInv, StreakInv, DoseInv, [Next]_vars
  PROVE  DoseInv'
  <1>1. CASE ProcNext
    BY <1>1, DoseBoot, DoseFold, DoseShrink, DoseRest DEF ProcNext, SteadyLadder
  <1>2. CASE Crash \/ UNCHANGED vars
    BY <1>2, DoseCrash, DoseAround
  <1>3. CASE Time \/ Rulings \/ (\E c \in Coords : CoordOther(c)) \/ CoordReset
    <2>1. UNCHANGED <<disk, procVars, histVars>>
      BY <1>3 DEF Time, Rulings, CoordRules, CoordOther, CoordReset
    <2>2. UNCHANGED <<disk, pc, ladder, own, rung, lastFp, lost, losses>>
      BY <2>1 DEF procVars, histVars
    <2>. QED
      BY <2>2 DEF DoseInv, DoseType, EntriesOk, Entry, FpIsDisk, Holds, PaidRungs, PaidEntries
  <1>. QED
    BY <1>1, <1>2, <1>3 DEF Next

(* The dose of a layer is neither taken early nor forgotten: every rung was  *)
(* paid for with a whole streak of the layer's own losses since its last     *)
(* acceptance, and the rung a round trains at is the one in the file, for    *)
(* every order of verdicts, claims, restarts and counter resets.  Of one      *)
(* ladder, saves that succeed and walks that are not refused.               *)
THEOREM DoseAlwaysKept == ASSUME SteadyLadder PROVE Spec => []DoseKept
  <1>1. Init => ParkInv /\ StreakInv /\ DoseInv
    BY ParkInit, StreakInit, DoseInit
  <1>2. ParkInv /\ StreakInv /\ DoseInv /\ [Next]_vars => (ParkInv /\ StreakInv /\ DoseInv)'
    BY ParkStep, StreakStep, DoseStep DEF SteadyLadder
  <1>3. ParkInv /\ StreakInv /\ DoseInv => DoseKept
    <2>. SUFFICES ASSUME DoseInv PROVE DoseEarned /\ DoseDurable
      BY DEF DoseKept
    <2>1. ASSUME NEW l \in Layers PROVE losses[l] >= AdvanceAfter * rung[l]
      <3>1. losses[l] \in Nat /\ lost \in Nat /\ AdvanceAfter * rung[l] \in Nat
        BY LadderFacts DEF DoseInv, DoseType
      <3>2. losses[l] >= AdvanceAfter * rung[l] + (IF l = LayerOf[own] THEN lost ELSE 0)
        BY DEF DoseInv, PaidRungs
      <3>. QED
        BY ONLY <3>1, <3>2
    <2>2. ASSUME pc = "work", NEW l \in Layers, rung[l] # 0
          PROVE  \E b \in disk : \E r \in b.rungs : r.l = l /\ r.rung = rung[l]
      <3>1. Holds(rung) /\ rung[l] > 0
        BY <2>2, LadderFacts DEF DoseInv, DoseType
      <3>. QED
        BY <3>1 DEF Holds
    <2>. QED
      BY <2>1, <2>2 DEF DoseEarned, DoseDurable
  <1>. QED
    BY <1>1, <1>2, <1>3, PTL DEF Spec
=============================================================================
