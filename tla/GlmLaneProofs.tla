--------------------------- MODULE GlmLaneProofs ---------------------------
(***************************************************************************)
(* Theorems about GlmLane for every set of coordinates, every bound, with  *)
(* and without campaign scoping, through any number of restarts.           *)
(***************************************************************************)
EXTENDS GlmLane, TLAPS

LEMMA FrozenType ==
  /\ Frozen \in Weights
  /\ FrozenBase \in [Coords -> Weights]
  /\ NoRecord \in Record
  /\ NoFold \in FoldType
  /\ NoScan \in ScanType
  BY LaneConstants
     DEF Frozen, Weights, FrozenBase, NoRecord, Record, NoFold, FoldType, NoScan,
         ScanType, SlotRoot, NoCampaign

LEMMA CampaignType == ASSUME NEW r \in Nat PROVE CampaignOf(r) \in Nat
  BY CoordinatorConstants DEF CampaignOf, NoCampaign

LEMMA PointerType ==
  ASSUME NEW r \in Nat, NEW e \in Nat, NEW s \in SUBSET Coords, NEW x, NEW d
  PROVE  /\ Pointer(r, e, s, x, d).event \in Nat
         /\ Pointer(r, e, s, x, d).campaign \in Nat
         /\ Pointer(r, e, s, x, d).active \subseteq Coords
  BY CampaignType DEF Pointer

LEMMA NoSnapshotType == NoSnapshot.store \subseteq Record /\ NoSnapshot.ptr.event \in Nat
  BY PointerType, CoordinatorConstants DEF NoSnapshot

LEMMA InitType == Init => TypeOK
  <1>. SUFFICES ASSUME Init PROVE TypeOK
    OBVIOUS
  <1>1. CoordTypeOK
    <2>1. advertised \subseteq Coords \X Weights
      BY FrozenType DEF Init, CoordInit
    <2>2. ptr.event \in Nat /\ ptr.campaign \in Nat /\ ptr.active \subseteq Coords
      BY PointerType, CoordinatorConstants DEF Init, CoordInit
    <2>3. coordW \in [Coords -> Weights]
      BY FrozenType DEF Init, CoordInit
    <2>. QED
      BY <2>1, <2>2, <2>3, CoordinatorConstants DEF Init, CoordInit, CoordTypeOK
  <1>2. ProcessTypeOK
    BY NoSnapshotType DEF Init, MinerInit, ProcessTypeOK, NoCampaign
  <1>3. FlagsTypeOK
    BY DEF Init, MinerInit, FlagsTypeOK
  <1>4. HostTypeOK
    BY FrozenType DEF Init, MinerInit, HostTypeOK
  <1>5. ClaimTypeOK
    BY LaneConstants DEF Init, MinerInit, ClaimTypeOK, NoCursor
  <1>. QED
    BY <1>1, <1>2, <1>3, <1>4, <1>5 DEF TypeOK

(* The coordinator's steps.                                                *)
LEMMA CoordType ==
  ASSUME TypeOK, CoordNext
  PROVE  CoordTypeOK'
  <1>. USE DEF TypeOK
  <1>1. CASE \E c \in Coords, n \in 1..MaxRows : CoordAccept(c, n)
    <2>1. PICK c \in Coords, n \in 1..MaxRows : CoordAccept(c, n)
      BY <1>1
    <2>2. RowDeltas(run, head + 1, n) \in Weights
      BY CoordinatorConstants DEF CoordTypeOK, RowDeltas, Weights, Delta
    <2>. DEFINE nw == coordW[c] \o RowDeltas(run, head + 1, n)
    <2>3. nw \in Weights
      BY <2>2 DEF CoordTypeOK, Weights
    <2>. DEFINE rec == [campaign |-> CampaignOf(run), run |-> run,
                        event |-> head + 1, coord |-> c,
                        rows |-> RowDeltas(run, head + 1, n),
                        root |-> SlotRoot(CampaignOf(run), nw)]
    <2>4. rec \in Record
      BY <2>2, <2>3, CampaignType DEF CoordTypeOK, Record, SlotRoot
    <2>5. store' \subseteq Record
      BY <2>1, <2>4 DEF CoordAccept, PutNamed, CoordTypeOK
    <2>6. advertised' \subseteq Coords \X Weights
      <3>1. advertised' = advertised \cup {<<c, nw>>}
        BY <2>1 DEF CoordAccept
      <3>2. <<c, nw>> \in Coords \X Weights
        BY <2>3
      <3>. QED
        BY <3>1, <3>2 DEF CoordTypeOK
    <2>7. coordW' \in [Coords -> Weights] /\ head' \in Nat /\ active' \subseteq Coords
      BY <2>1, <2>3 DEF CoordAccept, CoordTypeOK
    <2>8. UNCHANGED <<run, ptr>>
      BY <2>1 DEF CoordAccept
    <2>. QED
      BY <2>5, <2>6, <2>7, <2>8 DEF CoordTypeOK
  <1>2. CASE CoordPublish
    BY <1>2, PointerType DEF CoordPublish, CoordTypeOK
  <1>3. CASE CoordFinish
    BY <1>3, PointerType DEF CoordFinish, CoordTypeOK
  <1>4. CASE CoordRestart
    <2>. DEFINE p == Pointer(run + 1, 0, Seeds, FrozenBase, FALSE)
    <2>a. run + 1 \in Nat /\ Seeds \in SUBSET Coords
      BY CoordinatorConstants DEF CoordTypeOK
    <2>b. p.event \in Nat /\ p.campaign \in Nat /\ p.active \subseteq Coords
      BY <2>a, PointerType
    <2>1. (ptr.event \in Nat /\ ptr.campaign \in Nat /\ ptr.active \subseteq Coords)'
      BY <1>4, <2>b DEF CoordRestart
    <2>2. coordW' \in [Coords -> Weights]
      BY <1>4, FrozenType DEF CoordRestart
    <2>3. run' \in Nat /\ head' \in Nat /\ active' \subseteq Coords
      BY <1>4, <2>a DEF CoordRestart
    <2>4. UNCHANGED <<store, advertised>>
      BY <1>4 DEF CoordRestart
    <2>. QED
      BY <2>1, <2>2, <2>3, <2>4 DEF CoordTypeOK
  <1>. QED
    BY <1>1, <1>2, <1>3, <1>4 DEF CoordNext

(* The miner's steps, one part of the type invariant at a time.            *)
LEMMA ProcessType ==
  ASSUME TypeOK, MinerStep \/ Crash
  PROVE  ProcessTypeOK'
  <1>. USE DEF MinerStep, Crash, GoDown, Boot, BootManifest, BootManifestFails,
           TickDone, TickCampaignChanged, TickStart, CatchUpFetch, CatchUpStop,
           FoldRow, FoldRowRejected, FoldSkipRows, FoldTimeout, FoldRaises,
           FoldPoison, FoldOk, FoldLineage, ResumeSkip, ResumeFetch, ResumeEnd,
           ResumeFetchRaises, ResumeAbort, StartAdvance, DoseMoved, StayPut, AdvanceBlocked,
           CooldownElapsed, AdvanceRefused, AdvanceTry, AdvanceNone, IdleInRepair,
           NoProgress, SkipRound, Publish, PublishLast, StartScan, StartFold,
           Land, Leave, SaveClaim, NextTick
  <1>1. Snapshot.store \subseteq Record /\ Snapshot.ptr.event \in Nat
    BY DEF Snapshot, TypeOK, CoordTypeOK
  <1>2. man' \in {man, Snapshot, NoSnapshot}
    OBVIOUS
  <1>3. (man.store \subseteq Record /\ man.ptr.event \in Nat)'
    BY ONLY <1>1, <1>2, NoSnapshotType, TypeOK DEF TypeOK, ProcessTypeOK
  <1>4. campaign' \in {campaign, ptr.campaign, NoCampaign}
    OBVIOUS
  <1>5. last' \in {last, fold.rec.event, 0}
    OBVIOUS
  <1>6. campaign' \in Nat /\ last' \in Nat
    BY ONLY <1>4, <1>5, TypeOK
       DEF NoCampaign, TypeOK, CoordTypeOK, ProcessTypeOK, HostTypeOK, FoldType, Record
  <1>7. fold.by \in {"catchup", "resume"}
    BY DEF TypeOK, HostTypeOK, FoldType
  <1>8. pc' \in {"down", "bootmanifest", "resume", "tick", "catchup", "fold", "judge",
               "advance", "work"}
    BY <1>7 DEF TypeOK, ProcessTypeOK
  <1>. QED
    BY ONLY <1>3, <1>6, <1>8 DEF ProcessTypeOK

LEMMA FlagsType ==
  ASSUME TypeOK, MinerStep \/ Crash
  PROVE  FlagsTypeOK'
  <1>. QED
    BY DEF TypeOK, FlagsTypeOK,
           MinerStep, Crash, GoDown, Boot, BootManifest, BootManifestFails,
           TickDone, TickCampaignChanged, TickStart, CatchUpFetch, CatchUpStop,
           FoldRow, FoldRowRejected, FoldSkipRows, FoldTimeout, FoldRaises,
           FoldPoison, FoldOk, FoldLineage, ResumeSkip, ResumeFetch, ResumeEnd,
           ResumeFetchRaises, ResumeAbort, StartAdvance, DoseMoved, StayPut, AdvanceBlocked,
           CooldownElapsed, AdvanceRefused, AdvanceTry, AdvanceNone, IdleInRepair,
           NoProgress, SkipRound, Publish, PublishLast, StartScan, StartFold,
           Land, Leave, SaveClaim, NextTick

LEMMA RolledBackType == ASSUME HostTypeOK PROVE RolledBack \in [Coords -> Weights]
  BY DEF HostTypeOK, FoldType, RolledBack

LEMMA RowWrittenType ==
  ASSUME HostTypeOK, NEW x \in BOOLEAN
  PROVE  RowWritten(x) \in FoldType
  <1>1. CowSave(fold.rec.coord) \in [Coords -> Weights]
    BY DEF HostTypeOK, FoldType, Record, CowSave
  <1>2. fold.touched \cup {fold.rec.coord} \in SUBSET Coords
    BY DEF HostTypeOK, FoldType, Record
  <1>. DEFINE rej == fold.rejected \/ x
              cow == CowSave(fold.rec.coord)
  <1>3. rej \in BOOLEAN
    OBVIOUS
  <1>4. RowWritten(x) = [fold EXCEPT !.row = fold.row + 1,
                                     !.touched = fold.touched \cup {fold.rec.coord},
                                     !.saved = cow, !.rejected = rej]
    BY DEF RowWritten
  <1>5. cow \in [Coords -> Weights]
    BY <1>1
  <1>. HIDE DEF rej, cow
  <1>6. fold \in FoldType /\ fold.row + 1 \in Nat \ {0}
    BY DEF HostTypeOK, FoldType
  <1>7. [fold EXCEPT !.row = fold.row + 1] \in FoldType
    BY <1>6 DEF FoldType
  <1>8. [fold EXCEPT !.row = fold.row + 1,
                     !.touched = fold.touched \cup {fold.rec.coord}] \in FoldType
    BY <1>2, <1>7, <1>6 DEF FoldType
  <1>9. [fold EXCEPT !.row = fold.row + 1,
                     !.touched = fold.touched \cup {fold.rec.coord},
                     !.saved = cow] \in FoldType
    BY <1>5, <1>8, <1>6 DEF FoldType
  <1>. QED
    BY <1>3, <1>4, <1>9, <1>6 DEF FoldType

LEMMA HostType ==
  ASSUME TypeOK, MinerStep \/ Crash
  PROVE  HostTypeOK'
  <1>1. w' \in {w, FrozenBase, RolledBack, scan.snap} \/ FoldRow
    BY DEF MinerStep, Crash, GoDown, Boot, BootManifest, BootManifestFails,
           TickDone, TickCampaignChanged, TickStart, CatchUpFetch, CatchUpStop,
           FoldRow, FoldRowRejected, FoldSkipRows, FoldTimeout, FoldRaises,
           FoldPoison, FoldOk, FoldLineage, ResumeSkip, ResumeFetch, ResumeEnd,
           ResumeFetchRaises, ResumeAbort, StartAdvance, DoseMoved, StayPut, AdvanceBlocked,
           CooldownElapsed, AdvanceRefused, AdvanceTry, AdvanceNone, IdleInRepair,
           NoProgress, SkipRound, Publish, PublishLast, StartScan, StartFold,
           Land, Leave, SaveClaim, NextTick
  <1>2. ASSUME FoldRow PROVE w' \in [Coords -> Weights]
    <2>1. fold.rec.rows[fold.row] \in Delta
      BY <1>2 DEF FoldRow, AtRow, TypeOK, HostTypeOK, FoldType, Record, Weights
    <2>2. Append(w[fold.rec.coord], fold.rec.rows[fold.row]) \in Weights
      BY <2>1 DEF TypeOK, HostTypeOK, FoldType, Record, Weights
    <2>. QED
      BY <1>2, <2>2 DEF FoldRow, TypeOK, HostTypeOK
  <1>3. w' \in [Coords -> Weights]
    BY <1>1, <1>2, FrozenType, RolledBackType DEF TypeOK, HostTypeOK, ScanType
  <1>4. \/ fold' \in {fold, NoFold, RowWritten(TRUE), RowWritten(FALSE)}
        \/ FoldSkipRows
        \/ \E r \in man.store : StartFold(r, "catchup") \/ StartFold(r, "resume")
    BY DEF MinerStep, Crash, GoDown, Boot, BootManifest, BootManifestFails,
           TickDone, TickCampaignChanged, TickStart, CatchUpFetch, CatchUpStop,
           FoldRow, FoldRowRejected, FoldSkipRows, FoldTimeout, FoldRaises,
           FoldPoison, FoldOk, FoldLineage, ResumeSkip, ResumeFetch, ResumeEnd,
           ResumeFetchRaises, ResumeAbort, StartAdvance, DoseMoved, StayPut, AdvanceBlocked,
           CooldownElapsed, AdvanceRefused, AdvanceTry, AdvanceNone, IdleInRepair,
           NoProgress, SkipRound, Publish, PublishLast, StartScan, StartFold,
           Land, Leave, SaveClaim, NextTick,
           NextRecords, Remaining
  <1>5. ASSUME FoldSkipRows PROVE fold' \in FoldType
    <2>1. fold.rec.rows \in Seq(Delta)
      BY DEF TypeOK, HostTypeOK, FoldType, Record, Weights
    <2>2. Len(fold.rec.rows) + 1 \in Nat \ {0}
      BY <2>1
    <2>3. fold \in FoldType
      BY DEF TypeOK, HostTypeOK
    <2>. QED
      BY <1>5, <2>2, <2>3 DEF FoldSkipRows, FoldType
  <1>6. ASSUME NEW r \in man.store, NEW by \in {"catchup", "resume"}, StartFold(r, by)
        PROVE  fold' \in FoldType
    BY <1>6, FrozenType DEF StartFold, FoldType, TypeOK, ProcessTypeOK
  <1>7. fold' \in FoldType
    BY <1>4, <1>5, <1>6, FrozenType, RowWrittenType DEF TypeOK, HostTypeOK
  <1>8. \/ scan' \in {scan, NoScan, [scan EXCEPT !.hit = TRUE]}
        \/ \E r \in man.store : scan' = [scan EXCEPT !.pos = r.event]
        \/ StartScan(own, "boot")
        \/ walk # << >> /\ StartScan(Head(walk), "advance")
    BY DEF MinerStep, Crash, GoDown, Boot, BootManifest, BootManifestFails,
           TickDone, TickCampaignChanged, TickStart, CatchUpFetch, CatchUpStop,
           FoldRow, FoldRowRejected, FoldSkipRows, FoldTimeout, FoldRaises,
           FoldPoison, FoldOk, FoldLineage, ResumeSkip, ResumeFetch, ResumeEnd,
           ResumeFetchRaises, ResumeAbort, StartAdvance, DoseMoved, StayPut, AdvanceBlocked,
           CooldownElapsed, AdvanceRefused, AdvanceTry, AdvanceNone, IdleInRepair,
           NoProgress, SkipRound, Publish, PublishLast, StartScan, StartFold,
           Land, Leave, SaveClaim, NextTick,
           Remaining
  <1>9. ASSUME walk # << >> PROVE Head(walk) \in Coords
    BY <1>9 DEF TypeOK, ClaimTypeOK
  <1>10. ASSUME NEW c \in Coords, NEW by \in {"boot", "advance"}, StartScan(c, by)
         PROVE  scan' \in ScanType
    BY <1>10 DEF StartScan, ScanType, TypeOK, HostTypeOK
  <1>11. own \in Coords
    BY DEF TypeOK, ClaimTypeOK
  <1>12. ASSUME NEW r \in man.store, scan' = [scan EXCEPT !.pos = r.event]
         PROVE  scan' \in ScanType
    BY <1>12 DEF ScanType, TypeOK, HostTypeOK, ProcessTypeOK, Record
  <1>13. [scan EXCEPT !.hit = TRUE] \in ScanType /\ scan \in ScanType
    BY DEF ScanType, TypeOK, HostTypeOK
  <1>14. scan' \in ScanType
    BY <1>8, <1>9, <1>10, <1>11, <1>12, <1>13, FrozenType
  <1>. QED
    BY <1>3, <1>7, <1>14 DEF HostTypeOK

LEMMA CandidatesType == ASSUME ClaimTypeOK PROVE Candidates \in Seq(Coords)
  <1>1. ASSUME NEW c \in Claimable
        PROVE  PositionOf(c) \in 1..Len(WalkOrder)
    BY LaneConstants DEF Claimable, PositionOf
  <1>. DEFINE n == Len(WalkOrder)
              start == IF own \in Claimable THEN PositionOf(own) ELSE 0
              m == IF own \in Claimable THEN n - 1 ELSE n
  <1>2. n \in Nat /\ start \in Nat
    BY <1>1, LaneConstants
  <1>3. CASE n <= 1
    BY <1>3 DEF Candidates
  <1>4. CASE n > 1
    <2>1. m \in Nat
      BY <1>2, <1>4
    <2>2. ASSUME NEW k \in 1..m
          PROVE  WalkOrder[((start + k - 1) % n) + 1] \in Coords
      <3>1. (start + k - 1) % n \in 0..(n - 1)
        BY <1>2, <1>4, <2>1
      <3>. QED
        BY <3>1, <1>2, LaneConstants
    <2>3. Candidates = [k \in 1..m |-> WalkOrder[((start + k - 1) % n) + 1]]
      BY <1>2, <1>4 DEF Candidates
    <2>. HIDE DEF m, n, start
    <2>. QED
      BY <2>1, <2>2, <2>3
  <1>. QED
    BY <1>2, <1>3, <1>4

LEMMA ClaimType ==
  ASSUME TypeOK, MinerStep \/ Crash
  PROVE  ClaimTypeOK'
  <1>1. walk' \in {walk, << >>, Candidates} \/ (walk # << >> /\ walk' = Tail(walk))
    BY DEF MinerStep, Crash, GoDown, Boot, BootManifest, BootManifestFails,
           TickDone, TickCampaignChanged, TickStart, CatchUpFetch, CatchUpStop,
           FoldRow, FoldRowRejected, FoldSkipRows, FoldTimeout, FoldRaises,
           FoldPoison, FoldOk, FoldLineage, ResumeSkip, ResumeFetch, ResumeEnd,
           ResumeFetchRaises, ResumeAbort, StartAdvance, DoseMoved, StayPut, AdvanceBlocked,
           CooldownElapsed, AdvanceRefused, AdvanceTry, AdvanceNone, IdleInRepair,
           NoProgress, SkipRound, Publish, PublishLast, StartScan, StartFold,
           Land, Leave, SaveClaim, NextTick
  <1>a. walk \in Seq(Coords) /\ ClaimTypeOK
    BY DEF TypeOK, ClaimTypeOK
  <1>b. walk # << >> => Tail(walk) \in Seq(Coords)
    BY <1>a
  <1>c. << >> \in Seq(Coords) /\ Candidates \in Seq(Coords)
    BY <1>a, CandidatesType
  <1>2. walk' \in Seq(Coords)
    BY <1>1, <1>a, <1>b, <1>c
  <1>3. ASSUME walk # << >> PROVE Head(walk) \in Coords
    BY <1>3 DEF TypeOK, ClaimTypeOK
  <1>4. \/ own' \in disk.cursor \cup {own, StartCoord, scan.cand}
        \/ walk # << >> /\ own' = Head(walk)
    BY DEF MinerStep, Crash, GoDown, Boot, BootManifest, BootManifestFails,
           TickDone, TickCampaignChanged, TickStart, CatchUpFetch, CatchUpStop,
           FoldRow, FoldRowRejected, FoldSkipRows, FoldTimeout, FoldRaises,
           FoldPoison, FoldOk, FoldLineage, ResumeSkip, ResumeFetch, ResumeEnd,
           ResumeFetchRaises, ResumeAbort, StartAdvance, DoseMoved, StayPut, AdvanceBlocked,
           CooldownElapsed, AdvanceRefused, AdvanceTry, AdvanceNone, IdleInRepair,
           NoProgress, SkipRound, Publish, PublishLast, StartScan, StartFold,
           Land, Leave, SaveClaim, NextTick
  <1>5. own' \in Coords
    BY <1>3, <1>4, LaneConstants DEF TypeOK, ClaimTypeOK, HostTypeOK, ScanType
  <1>6. \/ slots' \in {slots, {}, InitSlots \cup {own'}}
        \/ walk # << >> /\ slots' = slots \cup {Head(walk)}
    BY DEF MinerStep, Crash, GoDown, Boot, BootManifest, BootManifestFails,
           TickDone, TickCampaignChanged, TickStart, CatchUpFetch, CatchUpStop,
           FoldRow, FoldRowRejected, FoldSkipRows, FoldTimeout, FoldRaises,
           FoldPoison, FoldOk, FoldLineage, ResumeSkip, ResumeFetch, ResumeEnd,
           ResumeFetchRaises, ResumeAbort, StartAdvance, DoseMoved, StayPut, AdvanceBlocked,
           CooldownElapsed, AdvanceRefused, AdvanceTry, AdvanceNone, IdleInRepair,
           NoProgress, SkipRound, Publish, PublishLast, StartScan, StartFold,
           Land, Leave, SaveClaim, NextTick
  <1>7. slots' \subseteq Coords
    BY <1>3, <1>5, <1>6, LaneConstants DEF TypeOK, ClaimTypeOK
  <1>8. \/ parked' \in {parked, {}, parked \cup {scan.cand}}
        \/ parked' \subseteq disk.parked
        \/ walk # << >> /\ parked' \in {parked \cup {Head(walk)}, parked \ {Head(walk)}}
    BY DEF MinerStep, Crash, GoDown, Boot, BootManifest, BootManifestFails,
           TickDone, TickCampaignChanged, TickStart, CatchUpFetch, CatchUpStop,
           FoldRow, FoldRowRejected, FoldSkipRows, FoldTimeout, FoldRaises,
           FoldPoison, FoldOk, FoldLineage, ResumeSkip, ResumeFetch, ResumeEnd,
           ResumeFetchRaises, ResumeAbort, StartAdvance, DoseMoved, StayPut, AdvanceBlocked,
           CooldownElapsed, AdvanceRefused, AdvanceTry, AdvanceNone, IdleInRepair,
           NoProgress, SkipRound, Publish, PublishLast, StartScan, StartFold,
           Land, Leave, SaveClaim, NextTick
  <1>9. parked' \subseteq Coords
    BY <1>3, <1>8 DEF TypeOK, ClaimTypeOK, HostTypeOK, ScanType
  <1>10. disk' = disk \/ disk' = [cursor |-> {own'}, parked |-> parked]
    BY DEF MinerStep, Crash, GoDown, Boot, BootManifest, BootManifestFails,
           TickDone, TickCampaignChanged, TickStart, CatchUpFetch, CatchUpStop,
           FoldRow, FoldRowRejected, FoldSkipRows, FoldTimeout, FoldRaises,
           FoldPoison, FoldOk, FoldLineage, ResumeSkip, ResumeFetch, ResumeEnd,
           ResumeFetchRaises, ResumeAbort, StartAdvance, DoseMoved, StayPut, AdvanceBlocked,
           CooldownElapsed, AdvanceRefused, AdvanceTry, AdvanceNone, IdleInRepair,
           NoProgress, SkipRound, Publish, PublishLast, StartScan, StartFold,
           Land, Leave, SaveClaim, NextTick
  <1>11. (disk.cursor \subseteq Coords /\ disk.parked \subseteq Coords)'
    BY <1>5, <1>10 DEF TypeOK, ClaimTypeOK
  <1>. QED
    BY <1>2, <1>5, <1>7, <1>9, <1>11 DEF ClaimTypeOK

(* Every variable of the lane keeps its type.                              *)
THEOREM TypeCorrect == Spec => []TypeOK
  <1>1. TypeOK /\ [Next]_vars => TypeOK'
    <2>. SUFFICES ASSUME TypeOK, [Next]_vars PROVE TypeOK'
      OBVIOUS
    <2>1. CASE (MinerStep \/ Crash) /\ UNCHANGED coordVars
      <3>1. CoordTypeOK'
        BY <2>1 DEF TypeOK, CoordTypeOK, coordVars
      <3>. QED
        BY <2>1, <3>1, ProcessType, FlagsType, HostType, ClaimType DEF TypeOK
    <2>2. CASE CoordNext /\ UNCHANGED minerVars
      <3>1. (ProcessTypeOK /\ FlagsTypeOK /\ HostTypeOK /\ ClaimTypeOK)'
        BY <2>2 DEF TypeOK, minerVars, ProcessTypeOK, FlagsTypeOK, HostTypeOK, ClaimTypeOK
      <3>. QED
        BY <2>2, <3>1, CoordType DEF TypeOK
    <2>3. CASE UNCHANGED vars
      BY <2>3 DEF vars, coordVars, minerVars, TypeOK, CoordTypeOK, ProcessTypeOK,
                  FlagsTypeOK, HostTypeOK, ClaimTypeOK
    <2>. QED
      BY <2>1, <2>2, <2>3 DEF Next
  <1>. QED
    BY InitType, <1>1, PTL DEF Spec

-----------------------------------------------------------------------------
(* FailClosedBase is not inductive: it says nothing of the base in the     *)
(* middle of a fold, of what a rollback would restore, or of the records   *)
(* about to be folded.  The strengthening does.                            *)
Known(c, x) == <<c, x>> \in advertised
RecordKnown(r) == Known(r.coord, r.root.weights)

FoldSafe ==
  /\ RecordKnown(fold.rec)
  /\ fold.touched \subseteq {fold.rec.coord} \cap slots
  /\ \A c \in Coords : Known(c, IF c \in fold.touched THEN fold.saved[c] ELSE w[c])

FailClosedInv ==
  /\ \A c \in Coords : Known(c, Frozen)
  /\ \A r \in store \cup man.store : RecordKnown(r)
  /\ \A c \in Coords : Known(c, scan.snap[c])
  /\ pc = "fold" => FoldSafe
  /\ FailClosedBase

LEMMA FailClosedInit == Init => FailClosedInv
  BY DEF Init, CoordInit, MinerInit, FailClosedInv, FailClosedBase, Known, NoScan,
         NoSnapshot, FrozenBase

(* A name re-pointed: what the lane lists is the new record or was listed.  *)
LEMMA PutNamedMembers ==
  ASSUME NEW recs, NEW rec
  PROVE  \A r \in PutNamed(recs, rec) : r \in recs \/ r = rec
  BY DEF PutNamed

LEMMA FailClosedCoord ==
  ASSUME TypeOK, FailClosedInv, CoordNext, UNCHANGED minerVars
  PROVE  FailClosedInv'
  <1>1. advertised \subseteq advertised'
    BY DEF CoordNext, CoordAccept, CoordPublish, CoordFinish, CoordRestart
  <1>2. \A r \in store' : RecordKnown(r)'
    <2>1. ASSUME NEW c \in Coords, NEW n \in 1..MaxRows, CoordAccept(c, n)
          PROVE  \A r \in store' : RecordKnown(r)'
      <3>. DEFINE x == coordW[c] \o RowDeltas(run, head + 1, n)
                  rec == [campaign |-> CampaignOf(run), run |-> run, event |-> head + 1,
                          coord |-> c, rows |-> RowDeltas(run, head + 1, n),
                          root |-> SlotRoot(CampaignOf(run), x)]
      <3>1. store' = PutNamed(store, rec) /\ <<c, x>> \in advertised'
        BY <2>1 DEF CoordAccept
      <3>2. rec.coord = c /\ rec.root.weights = x
        BY DEF SlotRoot
      <3>3. <<rec.coord, rec.root.weights>> \in advertised'
        BY <3>1, <3>2
      <3>. HIDE DEF rec, x
      <3>4. \A r \in store' : r \in store \/ r = rec
        BY <3>1, PutNamedMembers
      <3>5. \A r \in store : <<r.coord, r.root.weights>> \in advertised'
        BY <1>1 DEF FailClosedInv, RecordKnown, Known
      <3>. QED
        BY <3>3, <3>4, <3>5 DEF RecordKnown, Known
    <2>2. CASE store' = store
      BY <2>2, <1>1 DEF FailClosedInv, RecordKnown, Known
    <2>. QED
      BY <2>1, <2>2 DEF CoordNext, CoordPublish, CoordFinish, CoordRestart
  <1>. QED
    BY <1>1, <1>2 DEF FailClosedInv, FailClosedBase, FoldSafe, RecordKnown, Known, minerVars

LEMMA FailClosedMiner ==
  ASSUME TypeOK, FailClosedInv, MinerStep \/ Crash, UNCHANGED coordVars
  PROVE  FailClosedInv'
  <1>1. advertised' = advertised /\ store' = store
    BY DEF coordVars
  <1>2. \A c \in Coords : Known(c, FrozenBase[c])
    BY DEF FailClosedInv, FrozenBase
  <1>3. man' \in {man, Snapshot, NoSnapshot}
    BY DEF MinerStep, Crash, GoDown, Boot, BootManifest, BootManifestFails,
           TickDone, TickCampaignChanged, TickStart, CatchUpFetch, CatchUpStop,
           FoldRow, FoldRowRejected, FoldSkipRows, FoldTimeout, FoldRaises,
           FoldPoison, FoldOk, FoldLineage, ResumeSkip, ResumeFetch, ResumeEnd,
           ResumeFetchRaises, ResumeAbort, StartAdvance, DoseMoved, StayPut, AdvanceBlocked,
           CooldownElapsed, AdvanceRefused, AdvanceTry, AdvanceNone, IdleInRepair,
           NoProgress, SkipRound, Publish, PublishLast, StartScan, StartFold,
           Land, Leave, SaveClaim, NextTick
  <1>4. \A r \in (store \cup man.store)' : RecordKnown(r)'
    <2>1. man'.store \subseteq man.store \cup store
      <3>1. Snapshot.store \subseteq store
        BY DEF Snapshot
      <3>2. NoSnapshot.store = {}
        BY DEF NoSnapshot
      <3>. QED
        BY <1>3, <3>1, <3>2
    <2>2. \A r \in man.store \cup store : <<r.coord, r.root.weights>> \in advertised
      BY DEF FailClosedInv, RecordKnown, Known
    <2>3. \A r \in (store \cup man.store)' : r \in man.store \cup store
      BY <1>1, <2>1
    <2>. QED
      BY <1>1, <2>2, <2>3 DEF RecordKnown, Known
  <1>5. \/ scan' \in {scan, NoScan}
        \/ \E e : scan' = [scan EXCEPT !.pos = e]
        \/ scan' = [scan EXCEPT !.hit = TRUE]
        \/ pc # "fold" /\ \E c, by : scan' = [cand |-> c, pos |-> 0, snap |-> w,
                                            hit |-> FALSE, by |-> by]
    BY DEF MinerStep, Crash, GoDown, Boot, BootManifest, BootManifestFails,
           TickDone, TickCampaignChanged, TickStart, CatchUpFetch, CatchUpStop,
           FoldRow, FoldRowRejected, FoldSkipRows, FoldTimeout, FoldRaises,
           FoldPoison, FoldOk, FoldLineage, ResumeSkip, ResumeFetch, ResumeEnd,
           ResumeFetchRaises, ResumeAbort, StartAdvance, DoseMoved, StayPut, AdvanceBlocked,
           CooldownElapsed, AdvanceRefused, AdvanceTry, AdvanceNone, IdleInRepair,
           NoProgress, SkipRound, Publish, PublishLast, StartScan, StartFold,
           Land, Leave, SaveClaim, NextTick
  <1>6. \A c \in Coords : Known(c, scan.snap[c])'
    <2>1. \/ scan'.snap \in {scan.snap, FrozenBase}
          \/ pc # "fold" /\ scan'.snap = w
      <3>1. scan = [cand |-> scan.cand, pos |-> scan.pos, snap |-> scan.snap,
                    hit |-> scan.hit, by |-> scan.by]
        BY DEF TypeOK, HostTypeOK, ScanType
      <3>2. CASE scan' \in {scan, NoScan}
        BY <3>2 DEF NoScan
      <3>3. CASE \E e : scan' = [scan EXCEPT !.pos = e]
        BY <3>1, <3>3
      <3>4. CASE scan' = [scan EXCEPT !.hit = TRUE]
        BY <3>1, <3>4
      <3>. QED
        BY <1>5, <3>2, <3>3, <3>4
    <2>. QED
      BY <1>1, <1>2, <2>1 DEF FailClosedInv, FailClosedBase, Known
  <1>7. \/ pc # "fold" /\ w' \in {w, FrozenBase, scan.snap}
        \/ pc = "fold" /\ w' \in {FrozenBase, scan.snap, RolledBack}
        \/ FoldOk \/ FoldRow \/ FoldRowRejected \/ FoldSkipRows
    BY DEF MinerStep, Crash, GoDown, Boot, BootManifest, BootManifestFails,
           TickDone, TickCampaignChanged, TickStart, CatchUpFetch, CatchUpStop,
           FoldRow, FoldRowRejected, FoldSkipRows, FoldTimeout, FoldRaises,
           FoldPoison, FoldOk, FoldLineage, ResumeSkip, ResumeFetch, ResumeEnd,
           ResumeFetchRaises, ResumeAbort, StartAdvance, DoseMoved, StayPut, AdvanceBlocked,
           CooldownElapsed, AdvanceRefused, AdvanceTry, AdvanceNone, IdleInRepair,
           NoProgress, SkipRound, Publish, PublishLast, StartScan, StartFold,
           Land, Leave, SaveClaim, NextTick,
           AtRow, FoldEnded
  <1>8. ASSUME pc # "fold", w' \in {w, FrozenBase, scan.snap}
        PROVE  \A c \in Coords : Known(c, w[c])'
    BY <1>1, <1>2, <1>8 DEF FailClosedInv, FailClosedBase, Known
  <1>9. ASSUME pc = "fold", w' \in {FrozenBase, scan.snap, RolledBack}
        PROVE  \A c \in Coords : Known(c, w[c])'
    <2>1. \A c \in Coords : Known(c, RolledBack[c])
      BY <1>9 DEF FailClosedInv, FoldSafe, RolledBack
    <2>. QED
      BY <1>1, <1>2, <1>9, <2>1 DEF FailClosedInv, Known
  <1>10. ASSUME FoldOk
         PROVE  pc' # "fold" /\ \A c \in Coords : Known(c, w[c])'
    <2>1. pc = "fold" /\ w' = w /\ pc' # "fold" /\ ReplicaRootOk
      BY <1>10 DEF FoldOk, FoldEnded, TypeOK, HostTypeOK, FoldType
    <2>2. ASSUME NEW c \in Coords PROVE Known(c, w[c])
      <3>1. CASE c \in fold.touched
        <4>1. c = fold.rec.coord /\ c \in slots
          BY <3>1, <2>1 DEF FailClosedInv, FoldSafe
        <4>2. w[c] = fold.rec.root.weights
          BY <4>1, <2>1 DEF ReplicaRootOk, SlotRoot, TypeOK, HostTypeOK, FoldType, Record
        <4>. QED
          BY <4>1, <4>2, <2>1 DEF FailClosedInv, FoldSafe, RecordKnown
      <3>2. CASE c \notin fold.touched
        BY <3>2, <2>1 DEF FailClosedInv, FoldSafe
      <3>. QED
        BY <3>1, <3>2
    <2>. QED
      BY <1>1, <2>1, <2>2 DEF Known
  <1>11. ASSUME FoldRow \/ FoldRowRejected
         PROVE  pc' = "fold" /\ FoldSafe'
    <2>. DEFINE k == fold.rec.coord
    <2>1. /\ pc = "fold" /\ pc' = "fold" /\ slots' = slots /\ k \in slots /\ k \in Coords
          /\ fold'.rec = fold.rec /\ fold'.touched = fold.touched \cup {k}
          /\ fold'.saved = CowSave(k)
      BY <1>11 DEF FoldRow, FoldRowRejected, AtRow, RowWritten, TypeOK, HostTypeOK,
                   FoldType, Record
    <2>2. \A c \in Coords : c # k => w'[c] = w[c]
      BY <1>11 DEF FoldRow, FoldRowRejected, TypeOK, HostTypeOK
    <2>3. FoldSafe
      BY <2>1 DEF FailClosedInv
    <2>4. CowSave(k)[k] = IF k \in fold.touched THEN fold.saved[k] ELSE w[k]
      BY <2>1 DEF CowSave, TypeOK, HostTypeOK, FoldType
    <2>5. ASSUME NEW c \in Coords
          PROVE  Known(c, IF c \in fold.touched THEN fold.saved[c] ELSE w[c])'
      <3>1. CASE c = k
        BY <3>1, <1>1, <2>1, <2>3, <2>4 DEF FoldSafe, Known
      <3>2. CASE c # k
        BY <3>2, <1>1, <2>1, <2>2, <2>3 DEF FoldSafe, Known
      <3>. QED
        BY <3>1, <3>2
    <2>. QED
      BY <1>1, <2>1, <2>3, <2>5 DEF FoldSafe, RecordKnown, Known
  <1>12. ASSUME FoldSkipRows
         PROVE  pc' = "fold" /\ FoldSafe'
    <2>1. /\ pc = "fold" /\ pc' = "fold" /\ w' = w /\ slots' = slots
          /\ fold'.rec = fold.rec /\ fold'.touched = fold.touched
          /\ fold'.saved = fold.saved
      BY <1>12 DEF FoldSkipRows, TypeOK, HostTypeOK, FoldType
    <2>. QED
      BY <1>1, <2>1 DEF FailClosedInv, FoldSafe, RecordKnown, Known
  <1>13. pc' = "fold" => \/ FoldRow \/ FoldRowRejected \/ FoldSkipRows
                         \/ /\ pc # "fold" /\ w' = w
                            /\ \E r \in man.store : StartFold(r, "catchup") \/ StartFold(r, "resume")
    BY DEF MinerStep, Crash, GoDown, Boot, BootManifest, BootManifestFails,
           TickDone, TickCampaignChanged, TickStart, CatchUpFetch, CatchUpStop,
           FoldRow, FoldRowRejected, FoldSkipRows, FoldTimeout, FoldRaises,
           FoldPoison, FoldOk, FoldLineage, ResumeSkip, ResumeFetch, ResumeEnd,
           ResumeFetchRaises, ResumeAbort, StartAdvance, DoseMoved, StayPut, AdvanceBlocked,
           CooldownElapsed, AdvanceRefused, AdvanceTry, AdvanceNone, IdleInRepair,
           NoProgress, SkipRound, Publish, PublishLast, StartScan, StartFold,
           Land, Leave, SaveClaim, NextTick,
           AtRow, FoldEnded, NextRecords, Remaining, TypeOK, HostTypeOK, FoldType
  <1>14. ASSUME NEW r \in man.store, StartFold(r, "catchup") \/ StartFold(r, "resume"),
                pc # "fold", w' = w
         PROVE  FoldSafe'
    BY <1>1, <1>14 DEF StartFold, FoldSafe, FailClosedInv, FailClosedBase, RecordKnown, Known
  <1>15. pc' = "fold" => FoldSafe'
    BY <1>11, <1>12, <1>13, <1>14
  <1>16. FailClosedBase'
    BY <1>7, <1>8, <1>9, <1>10, <1>11, <1>12 DEF FailClosedBase, Known
  <1>. QED
    BY <1>1, <1>4, <1>6, <1>15, <1>16 DEF FailClosedInv, Known

(* Outside a fold, every weight a process holds is one the coordinator     *)
(* advertised for that coordinate, whatever failed before.                 *)
THEOREM FailClosed == Spec => []FailClosedBase
  <1>1. TypeOK /\ FailClosedInv /\ [Next]_vars => FailClosedInv'
    <2>. SUFFICES ASSUME TypeOK, FailClosedInv, [Next]_vars PROVE FailClosedInv'
      OBVIOUS
    <2>1. CASE UNCHANGED vars
      BY <2>1 DEF vars, coordVars, minerVars, FailClosedInv, FailClosedBase, FoldSafe,
                  RecordKnown, Known
    <2>. QED
      BY <2>1, FailClosedCoord, FailClosedMiner DEF Next
  <1>2. FailClosedInv => FailClosedBase
    BY DEF FailClosedInv
  <1>. QED
    BY FailClosedInit, TypeCorrect, <1>1, <1>2, PTL DEF Spec
-----------------------------------------------------------------------------
(* OneRunInBase speaks of the base alone; a base is made of rows, so the   *)
(* strengthening follows the rows: in the store each carries the run of    *)
(* the record's name, in the snapshot, the record being folded, the        *)
(* pre-images and the replay's snapshot the campaign that was latched; and *)
(* a process that is down holds none, so that the latch may change.        *)
OfRun(x, n) == \A i \in 1..Len(x) : x[i][1] = n

Emptied == man = NoSnapshot /\ w = FrozenBase /\ fold = NoFold /\ scan = NoScan

OneRunInv ==
  /\ \A r \in store : OfRun(r.rows, r.campaign)
  /\ \A r \in man.store : OfRun(r.rows, campaign)
  /\ OfRun(fold.rec.rows, campaign)
  /\ \A c \in Coords : /\ OfRun(w[c], campaign)
                       /\ OfRun(scan.snap[c], campaign)
                       /\ OfRun(fold.saved[c], campaign)
  /\ pc = "down" => Emptied

LEMMA EmptiedIsPure ==
  ASSUME Emptied, NEW n
  PROVE  /\ \A r \in man.store : OfRun(r.rows, n)
         /\ OfRun(fold.rec.rows, n)
         /\ \A c \in Coords : /\ OfRun(w[c], n)
                              /\ OfRun(scan.snap[c], n)
                              /\ OfRun(fold.saved[c], n)
  BY DEF Emptied, NoSnapshot, FrozenBase, Frozen, NoFold, NoRecord, NoScan, OfRun

(* A process goes down, comes up, or keeps the campaign it latched.        *)
LEMMA GoesDownOrStays ==
  ASSUME TypeOK, MinerStep \/ Crash
  PROVE  \/ \E code : GoDown(code)
         \/ Boot
         \/ pc # "down" /\ pc' # "down" /\ campaign' = campaign
  <1>1. CASE Crash
    BY <1>1 DEF Crash
  <1>2. CASE TickDone \/ TickCampaignChanged \/ FoldRaises \/ FoldPoison \/ NoProgress
             \/ PublishLast
    BY <1>2 DEF TickDone, TickCampaignChanged, FoldRaises, FoldPoison, NoProgress,
                PublishLast
  <1>3. CASE MinerStep /\ ~(TickDone \/ TickCampaignChanged \/ FoldRaises \/ FoldPoison
                            \/ NoProgress \/ PublishLast)
    BY <1>3 DEF MinerStep, Crash, GoDown, Boot, BootManifest, BootManifestFails,
           TickDone, TickCampaignChanged, TickStart, CatchUpFetch, CatchUpStop,
           FoldRow, FoldRowRejected, FoldSkipRows, FoldTimeout, FoldRaises,
           FoldPoison, FoldOk, FoldLineage, ResumeSkip, ResumeFetch, ResumeEnd,
           ResumeFetchRaises, ResumeAbort, StartAdvance, DoseMoved, StayPut, AdvanceBlocked,
           CooldownElapsed, AdvanceRefused, AdvanceTry, AdvanceNone, IdleInRepair,
           NoProgress, SkipRound, Publish, PublishLast, StartScan, StartFold,
           Land, Leave, SaveClaim, NextTick,
           AtRow, FoldEnded, NextRecords, Remaining, TypeOK, HostTypeOK, FoldType
  <1>. QED
    BY <1>1, <1>2, <1>3

LEMMA OneRunCoord ==
  ASSUME Scoped, TypeOK, OneRunInv, CoordNext, UNCHANGED minerVars
  PROVE  OneRunInv'
  <1>1. \A r \in store' : OfRun(r.rows, r.campaign)
    <2>1. ASSUME NEW c \in Coords, NEW n \in 1..MaxRows, CoordAccept(c, n)
          PROVE  \A r \in store' : OfRun(r.rows, r.campaign)
      <3>. DEFINE x == coordW[c] \o RowDeltas(run, head + 1, n)
                  rec == [campaign |-> CampaignOf(run), run |-> run, event |-> head + 1,
                          coord |-> c, rows |-> RowDeltas(run, head + 1, n),
                          root |-> SlotRoot(CampaignOf(run), x)]
      <3>1. store' = PutNamed(store, rec)
        BY <2>1 DEF CoordAccept
      <3>2. rec.campaign = run /\ rec.rows = RowDeltas(run, head + 1, n)
        BY DEF CampaignOf
      <3>3. OfRun(RowDeltas(run, head + 1, n), run)
        BY CoordinatorConstants DEF OfRun, RowDeltas
      <3>. HIDE DEF rec, x
      <3>. QED
        BY <3>1, <3>2, <3>3, PutNamedMembers DEF OneRunInv
    <2>2. CASE store' = store
      BY <2>2 DEF OneRunInv
    <2>. QED
      BY <2>1, <2>2 DEF CoordNext, CoordPublish, CoordFinish, CoordRestart
  <1>. QED
    BY <1>1 DEF OneRunInv, Emptied, minerVars

(* The rows of one record, one after the other.                            *)
LEMMA OneRunFold ==
  ASSUME TypeOK, OneRunInv,
         FoldRow \/ FoldRowRejected \/ FoldSkipRows
  PROVE  /\ fold'.rec = fold.rec
         /\ \A c \in Coords : OfRun(w'[c], campaign) /\ OfRun(fold'.saved[c], campaign)
  <1>. DEFINE k == fold.rec.coord
  <1>t. fold \in FoldType /\ w \in [Coords -> Weights] /\ k \in Coords
    BY DEF TypeOK, HostTypeOK, FoldType, Record
  <1>1. CASE FoldSkipRows
    BY <1>1, <1>t DEF FoldSkipRows, FoldType, OneRunInv
  <1>2. ASSUME NEW x \in BOOLEAN, fold' = RowWritten(x)
        PROVE  /\ fold'.rec = fold.rec
               /\ \A c \in Coords : OfRun(fold'.saved[c], campaign)
    <2>1. fold'.rec = fold.rec /\ fold'.saved = CowSave(k)
      BY <1>2, <1>t DEF RowWritten, FoldType
    <2>. QED
      BY <2>1, <1>t DEF CowSave, FoldType, OneRunInv
  <1>3. CASE FoldRowRejected
    BY <1>3, <1>2 DEF FoldRowRejected, OneRunInv
  <1>4. CASE FoldRow
    <2>1. /\ fold.row \in 1..Len(fold.rec.rows)
          /\ w' = [w EXCEPT ![k] = Append(w[k], fold.rec.rows[fold.row])]
      BY <1>4, <1>t DEF FoldRow, AtRow, FoldType
    <2>. DEFINE d == fold.rec.rows[fold.row]
    <2>2. d[1] = campaign
      BY <2>1 DEF OneRunInv, OfRun
    <2>3. d \in Delta /\ w[k] \in Seq(Delta)
      BY <2>1, <1>t DEF FoldType, Record, Weights
    <2>4. OfRun(Append(w[k], d), campaign)
      <3>. HIDE DEF d
      <3>1. OfRun(w[k], campaign)
        BY <1>t DEF OneRunInv
      <3>2. /\ Len(Append(w[k], d)) = Len(w[k]) + 1
            /\ \A i \in 1..Len(w[k]) : Append(w[k], d)[i] = w[k][i]
            /\ Append(w[k], d)[Len(w[k]) + 1] = d
            /\ Len(w[k]) \in Nat
        BY <2>3
      <3>. QED
        BY <2>2, <3>1, <3>2 DEF OfRun
    <2>5. \A c \in Coords : OfRun(w'[c], campaign)
      <3>. HIDE DEF d
      <3>1. w' = [w EXCEPT ![k] = Append(w[k], d)]
        BY <2>1 DEF d
      <3>. QED
        BY <3>1, <2>4, <1>t DEF OneRunInv
    <2>. QED
      BY <1>2, <1>4, <2>5 DEF FoldRow
  <1>. QED
    BY <1>1, <1>3, <1>4

LEMMA OneRunMiner ==
  ASSUME Scoped, TypeOK, OneRunInv, MinerStep \/ Crash, UNCHANGED coordVars
  PROVE  OneRunInv'
  <1>0. store' = store
    BY DEF coordVars
  <1>1. ASSUME NEW code, GoDown(code) PROVE OneRunInv'
    <2>1. Emptied'
      BY <1>1 DEF GoDown, Emptied, NoSnapshot, NoFold, NoScan
    <2>2. /\ \A r \in man'.store : OfRun(r.rows, campaign')
          /\ OfRun(fold'.rec.rows, campaign')
          /\ \A c \in Coords : /\ OfRun(w'[c], campaign')
                               /\ OfRun(scan'.snap[c], campaign')
                               /\ OfRun(fold'.saved[c], campaign')
      BY <2>1 DEF Emptied, NoSnapshot, FrozenBase, Frozen, NoFold, NoRecord, NoScan, OfRun
    <2>. QED
      BY <1>0, <2>1, <2>2 DEF OneRunInv
  <1>2. CASE Boot
    <2>1. Emptied
      BY <1>2 DEF Boot, OneRunInv
    <2>2. UNCHANGED <<man, w, fold, scan>>
      BY <1>2 DEF Boot
    <2>3. Emptied'
      BY <2>1, <2>2 DEF Emptied, NoSnapshot, NoFold, NoScan
    <2>. QED
      BY <1>0, <2>1, <2>2, <2>3, EmptiedIsPure DEF OneRunInv
  <1>3. ASSUME pc # "down", pc' # "down", campaign' = campaign
        PROVE  OneRunInv'
    <2>1. man' \in {man, Snapshot, NoSnapshot}
      BY DEF MinerStep, Crash, GoDown, Boot, BootManifest, BootManifestFails,
           TickDone, TickCampaignChanged, TickStart, CatchUpFetch, CatchUpStop,
           FoldRow, FoldRowRejected, FoldSkipRows, FoldTimeout, FoldRaises,
           FoldPoison, FoldOk, FoldLineage, ResumeSkip, ResumeFetch, ResumeEnd,
           ResumeFetchRaises, ResumeAbort, StartAdvance, DoseMoved, StayPut, AdvanceBlocked,
           CooldownElapsed, AdvanceRefused, AdvanceTry, AdvanceNone, IdleInRepair,
           NoProgress, SkipRound, Publish, PublishLast, StartScan, StartFold,
           Land, Leave, SaveClaim, NextTick
    <2>2. \A r \in man'.store : OfRun(r.rows, campaign)
      <3>1. CASE man' = man
        BY <3>1 DEF OneRunInv
      <3>2. CASE man' = Snapshot
        BY <3>2 DEF Snapshot, OneRunInv
      <3>3. CASE man' = NoSnapshot
        BY <3>3 DEF NoSnapshot
      <3>. QED
        BY <2>1, <3>1, <3>2, <3>3
    <2>3. \/ scan' \in {scan, NoScan}
          \/ \E e : scan' = [scan EXCEPT !.pos = e]
          \/ scan' = [scan EXCEPT !.hit = TRUE]
          \/ \E c, by : scan' = [cand |-> c, pos |-> 0, snap |-> w, hit |-> FALSE,
                                 by |-> by]
      BY DEF MinerStep, Crash, GoDown, Boot, BootManifest, BootManifestFails,
           TickDone, TickCampaignChanged, TickStart, CatchUpFetch, CatchUpStop,
           FoldRow, FoldRowRejected, FoldSkipRows, FoldTimeout, FoldRaises,
           FoldPoison, FoldOk, FoldLineage, ResumeSkip, ResumeFetch, ResumeEnd,
           ResumeFetchRaises, ResumeAbort, StartAdvance, DoseMoved, StayPut, AdvanceBlocked,
           CooldownElapsed, AdvanceRefused, AdvanceTry, AdvanceNone, IdleInRepair,
           NoProgress, SkipRound, Publish, PublishLast, StartScan, StartFold,
           Land, Leave, SaveClaim, NextTick
    <2>4. \A c \in Coords : OfRun(scan'.snap[c], campaign)
      <3>1. scan \in ScanType
        BY DEF TypeOK, HostTypeOK
      <3>2. scan'.snap \in {scan.snap, FrozenBase, w}
        BY <2>3, <3>1 DEF ScanType, NoScan
      <3>. QED
        BY <3>2 DEF OneRunInv, FrozenBase, Frozen, OfRun
    <2>5. \/ FoldRow \/ FoldRowRejected \/ FoldSkipRows
          \/ w' \in {w, FrozenBase, RolledBack, scan.snap}
      BY DEF MinerStep, Crash, GoDown, Boot, BootManifest, BootManifestFails,
           TickDone, TickCampaignChanged, TickStart, CatchUpFetch, CatchUpStop,
           FoldRow, FoldRowRejected, FoldSkipRows, FoldTimeout, FoldRaises,
           FoldPoison, FoldOk, FoldLineage, ResumeSkip, ResumeFetch, ResumeEnd,
           ResumeFetchRaises, ResumeAbort, StartAdvance, DoseMoved, StayPut, AdvanceBlocked,
           CooldownElapsed, AdvanceRefused, AdvanceTry, AdvanceNone, IdleInRepair,
           NoProgress, SkipRound, Publish, PublishLast, StartScan, StartFold,
           Land, Leave, SaveClaim, NextTick
    <2>6. \/ FoldRow \/ FoldRowRejected \/ FoldSkipRows
          \/ fold' \in {fold, NoFold}
          \/ \E r \in man.store : StartFold(r, "catchup") \/ StartFold(r, "resume")
      BY DEF MinerStep, Crash, GoDown, Boot, BootManifest, BootManifestFails,
           TickDone, TickCampaignChanged, TickStart, CatchUpFetch, CatchUpStop,
           FoldRow, FoldRowRejected, FoldSkipRows, FoldTimeout, FoldRaises,
           FoldPoison, FoldOk, FoldLineage, ResumeSkip, ResumeFetch, ResumeEnd,
           ResumeFetchRaises, ResumeAbort, StartAdvance, DoseMoved, StayPut, AdvanceBlocked,
           CooldownElapsed, AdvanceRefused, AdvanceTry, AdvanceNone, IdleInRepair,
           NoProgress, SkipRound, Publish, PublishLast, StartScan, StartFold,
           Land, Leave, SaveClaim, NextTick,
           NextRecords, Remaining
    <2>7. ASSUME FoldRow \/ FoldRowRejected \/ FoldSkipRows
          PROVE  /\ OfRun(fold'.rec.rows, campaign)
                 /\ \A c \in Coords : OfRun(w'[c], campaign) /\ OfRun(fold'.saved[c], campaign)
      BY <2>7, OneRunFold DEF OneRunInv
    <2>8. ASSUME w' \in {w, FrozenBase, RolledBack, scan.snap}
          PROVE  \A c \in Coords : OfRun(w'[c], campaign)
      BY <2>8 DEF OneRunInv, RolledBack, FrozenBase, Frozen, OfRun
    <2>9. ASSUME fold' \in {fold, NoFold}
          PROVE  /\ OfRun(fold'.rec.rows, campaign)
                 /\ \A c \in Coords : OfRun(fold'.saved[c], campaign)
      BY <2>9 DEF OneRunInv, NoFold, NoRecord, FrozenBase, Frozen, OfRun
    <2>10. ASSUME NEW r \in man.store, StartFold(r, "catchup") \/ StartFold(r, "resume")
           PROVE  /\ OfRun(fold'.rec.rows, campaign)
                  /\ \A c \in Coords : OfRun(fold'.saved[c], campaign)
      <3>1. fold'.rec = r /\ fold'.saved = FrozenBase
        BY <2>10 DEF StartFold
      <3>. QED
        BY <3>1 DEF OneRunInv, FrozenBase, Frozen, OfRun
    <2>. QED
      BY <1>0, <1>3, <2>2, <2>4, <2>5, <2>6, <2>7, <2>8, <2>9, <2>10 DEF OneRunInv
  <1>. QED
    BY <1>1, <1>2, <1>3, GoesDownOrStays

(* With campaign scoping the base of a process never mixes rows of two runs *)
(* of the coordinator, through every restart of either side: the snapshot's *)
(* filter (`accepted_prefix`), the campaign check at the top of the tick    *)
(* and a process that starts on the frozen base.                            *)
THEOREM OneRun == Spec => []OneRunInBase
  <1>1. CASE Scoped
    <2>1. Init => OneRunInv
      BY EmptiedIsPure DEF Init, CoordInit, MinerInit, OneRunInv, Emptied
    <2>2. TypeOK /\ OneRunInv /\ [Next]_vars => OneRunInv'
      <3>. SUFFICES ASSUME TypeOK, OneRunInv, [Next]_vars PROVE OneRunInv'
        OBVIOUS
      <3>1. CASE UNCHANGED vars
        BY <3>1 DEF vars, coordVars, minerVars, OneRunInv, Emptied
      <3>. QED
        BY <1>1, <3>1, OneRunCoord, OneRunMiner DEF Next
    <2>3. TypeOK /\ OneRunInv => OneRunInBase
      <3>. SUFFICES ASSUME TypeOK, OneRunInv, NEW c \in Coords, NEW d \in Coords,
                           NEW i \in DOMAIN w[c], NEW j \in DOMAIN w[d]
                    PROVE  w[c][i][1] = w[d][j][1]
        BY DEF OneRunInBase
      <3>1. i \in 1..Len(w[c]) /\ j \in 1..Len(w[d])
        BY DEF TypeOK, HostTypeOK, Weights
      <3>. QED
        BY <3>1 DEF OneRunInv, OfRun
    <2>. QED
      BY <2>1, <2>2, <2>3, TypeCorrect, PTL DEF Spec
  <1>2. CASE ~Scoped
    <2>1. OneRunInBase
      BY <1>2 DEF OneRunInBase
    <2>. QED
      BY <2>1, PTL
  <1>. QED
    BY <1>1, <1>2
-----------------------------------------------------------------------------
(* TrainsUnparked rests on what a walk can reach: the coordinate claimed   *)
(* is never among the candidates, a candidate being replayed is neither    *)
(* parked nor the one claimed, and the cursor on disk is never one of the  *)
(* parks saved beside it.                                                  *)
Walking == pc = "resume" \/ (pc = "fold" /\ fold.by = "resume")

ClaimFree ==
  /\ own \notin parked
  /\ \A i \in 1..Len(walk) : walk[i] # own

DiskFree ==
  /\ disk.cursor \cap disk.parked = {}
  /\ disk.cursor = NoCursor => disk.parked = {}

ScanFree == scan.by = "advance" => Walking /\ scan.cand \notin parked /\ scan.cand # own

ParkInv ==
  /\ ClaimFree /\ DiskFree /\ ScanFree
  /\ pc = "down" => walk = << >> /\ scan = NoScan

(* The candidates are the rest of the walk order, round from the claim.    *)
LEMMA OwnIsNoCandidate ==
  ASSUME ClaimTypeOK
  PROVE  \A k \in 1..Len(Candidates) : Candidates[k] # own
  <1>. DEFINE n == Len(WalkOrder)
              start == IF own \in Claimable THEN PositionOf(own) ELSE 0
              m == IF own \in Claimable THEN n - 1 ELSE n
              at(k) == ((start + k - 1) % n) + 1
  <1>1. n \in Nat /\ WalkOrder \in Seq(Coords) /\ DOMAIN WalkOrder = 1..n
    BY LaneConstants
  <1>2. CASE n <= 1
    BY <1>2 DEF Candidates
  <1>3. CASE n > 1
    <2>1. Candidates = [k \in 1..m |-> WalkOrder[at(k)]]
      BY <1>1, <1>3 DEF Candidates
    <2>2. m \in Nat
      BY <1>1, <1>3
    <2>3. Len(Candidates) = m
      BY <2>1, <2>2
    <2>4. ASSUME NEW k \in 1..m PROVE WalkOrder[at(k)] # own
      <3>1. CASE own \notin Claimable
        <4>1. start = 0
          BY <3>1
        <4>2. at(k) \in 1..n
          BY <4>1, <1>1, <1>3, <2>2
        <4>. QED
          BY <3>1, <4>2, <1>1 DEF Claimable
      <3>2. CASE own \in Claimable
        <4>1. start \in 1..n /\ WalkOrder[start] = own
          BY <3>2, <1>1 DEF Claimable, PositionOf
        <4>2. k \in 1..(n - 1)
          BY <3>2
        <4>. HIDE DEF start, n
        <4>3. at(k) \in 1..n /\ at(k) # start
          <5>1. CASE start + k - 1 < n
            <6>1. (start + k - 1) % n = start + k - 1
              BY <5>1, <4>1, <4>2, <1>1, <1>3
            <6>. QED
              BY <6>1, <5>1, <4>1, <4>2, <1>1
          <5>2. CASE start + k - 1 >= n
            <6>1. (start + k - 1) % n = start + k - 1 - n
              BY <5>2, <4>1, <4>2, <1>1, <1>3
            <6>. QED
              BY <6>1, <5>2, <4>1, <4>2, <1>1
          <5>. QED
            BY <5>1, <5>2, <4>1, <4>2, <1>1
        <4>. QED
          BY <4>1, <4>3, <1>1, LaneConstants
      <3>. QED
        BY <3>1, <3>2
    <2>. HIDE DEF m, at, n
    <2>. QED
      BY <2>1, <2>3, <2>4
  <1>. QED
    BY <1>1, <1>2, <1>3

(* The steps that move neither the claim, nor the walk, nor a park.        *)
Idling ==
  /\ pc # "down" /\ pc' # "down"
  /\ UNCHANGED <<own, walk, parked>>
  /\ disk' \in {disk, [cursor |-> {own}, parked |-> parked]}
  /\ scan'.cand = scan.cand /\ scan'.by = scan.by
  /\ Walking => Walking'

Moving == \/ Boot \/ BootManifest \/ StartAdvance \/ AdvanceBlocked \/ CooldownElapsed
          \/ AdvanceRefused \/ AdvanceTry \/ ResumeEnd \/ ResumeFetchRaises \/ ResumeAbort

LEMMA IdlesOrMoves ==
  ASSUME TypeOK, MinerStep \/ Crash
  PROVE  (\E code : GoDown(code)) \/ Moving \/ Idling
  <1>t. fold \in FoldType /\ scan \in ScanType
    BY DEF TypeOK, HostTypeOK
  <1>1. CASE Crash
    BY <1>1 DEF Crash
  <1>2. CASE TickDone \/ TickCampaignChanged \/ FoldRaises \/ FoldPoison \/ NoProgress
             \/ PublishLast
    BY <1>2 DEF TickDone, TickCampaignChanged, FoldRaises, FoldPoison, NoProgress,
                PublishLast
  <1>3. CASE FoldRow \/ FoldRowRejected \/ FoldSkipRows
    BY <1>t, <1>3 DEF FoldRow, FoldRowRejected, FoldSkipRows, AtRow, Idling, Walking,
                      RowWritten, FoldType
  <1>4. CASE FoldOk \/ FoldLineage \/ FoldTimeout
    BY <1>t, <1>4 DEF FoldOk, FoldLineage, FoldTimeout, FoldEnded, AtRow, Idling, Walking,
                      FoldType, ScanType
  <1>5. CASE ResumeSkip \/ ResumeFetch
    BY <1>t, <1>5 DEF ResumeSkip, ResumeFetch, StartFold, Idling, Walking, ScanType
  <1>6. CASE BootManifestFails \/ TickStart \/ CatchUpFetch \/ CatchUpStop \/ DoseMoved
             \/ StayPut \/ AdvanceNone \/ IdleInRepair \/ SkipRound \/ Publish
    BY <1>6 DEF BootManifestFails, TickStart, CatchUpFetch, CatchUpStop, DoseMoved,
                StayPut, AdvanceNone, IdleInRepair, SkipRound, Publish, StartFold,
                NextTick, SaveClaim, Idling, Walking
  <1>. QED
    BY <1>1, <1>2, <1>3, <1>4, <1>5, <1>6 DEF MinerStep, Moving

LEMMA ParkMoving ==
  ASSUME TypeOK, ParkInv, Moving
  PROVE  ParkInv'
  <1>t. walk \in Seq(Coords)
    BY DEF TypeOK, ClaimTypeOK
  <1>h. ASSUME walk # << >>
        PROVE  /\ Head(walk) # own
               /\ \A i \in 1..Len(Tail(walk)) : Tail(walk)[i] # own
    <2>1. /\ Len(walk) \in Nat /\ Len(walk) >= 1 /\ Head(walk) = walk[1]
          /\ Len(Tail(walk)) = Len(walk) - 1
          /\ \A i \in 1..Len(Tail(walk)) : Tail(walk)[i] = walk[i + 1]
      BY <1>t, <1>h
    <2>. QED
      BY <2>1 DEF ParkInv, ClaimFree
  <1>1. CASE Boot
    <2>1. own' \notin parked'
      BY <1>1 DEF Boot, ParkInv, DiskFree, NoCursor
    <2>2. walk' = << >> /\ scan' = NoScan /\ disk' = disk /\ pc' # "down"
      BY <1>1 DEF Boot, ParkInv
    <2>. QED
      BY <2>1, <2>2 DEF ParkInv, ClaimFree, DiskFree, ScanFree, NoScan
  <1>2. CASE BootManifest
    BY <1>2 DEF BootManifest, StartScan, ParkInv, ClaimFree, DiskFree, ScanFree, Walking
  <1>3. CASE StartAdvance
    <2>1. \A i \in 1..Len(walk') : walk'[i] # own
      BY <1>3, OwnIsNoCandidate DEF StartAdvance, TypeOK
    <2>. QED
      BY <1>3, <2>1 DEF StartAdvance, ParkInv, ClaimFree, DiskFree, ScanFree, Walking
  <1>4. CASE AdvanceBlocked
    BY <1>4, <1>h DEF AdvanceBlocked, ParkInv, ClaimFree, DiskFree, ScanFree, Walking
  <1>5. CASE CooldownElapsed
    BY <1>5 DEF CooldownElapsed, ParkInv, ClaimFree, DiskFree, ScanFree, Walking
  <1>6. CASE AdvanceRefused
    BY <1>6, <1>h DEF AdvanceRefused, ParkInv, ClaimFree, DiskFree, ScanFree, Walking
  <1>7. CASE AdvanceTry
    <2>1. Head(walk) # own /\ Head(walk) \notin parked /\ pc = "advance"
      BY <1>7, <1>h DEF AdvanceTry, Blocked
    <2>2. CASE Land(Head(walk)) /\ UNCHANGED scan
      BY <2>1, <2>2 DEF Land, SaveClaim, ParkInv, ClaimFree, DiskFree, ScanFree, Walking,
                        NoCursor
    <2>3. CASE /\ StartScan(Head(walk), "advance") /\ walk' = Tail(walk)
               /\ UNCHANGED <<own, parked, repair, published, disk>>
      BY <1>7, <1>h, <2>1, <2>3
         DEF AdvanceTry, StartScan, ParkInv, ClaimFree, DiskFree, ScanFree, Walking
    <2>. QED
      BY <1>7, <2>2, <2>3 DEF AdvanceTry
  <1>8. ASSUME pc = "resume", NEW x, Leave(x) PROVE ParkInv'
    <2>1. scan' = NoScan /\ pc' # "down"
      BY <1>8 DEF Leave, Land
    <2>2. CASE scan.by = "boot"
      BY <1>8, <2>1, <2>2 DEF Leave, ParkInv, ClaimFree, DiskFree, ScanFree, NoScan
    <2>3. CASE scan.by = "advance"
      <3>1. Land(scan.cand)
        BY <1>8, <2>3 DEF Leave
      <3>. QED
        BY <2>1, <2>3, <3>1, SMTT(30) DEF Land, SaveClaim, ParkInv, ClaimFree, DiskFree, ScanFree,
                                NoScan, NoCursor
    <2>. QED
      BY <2>2, <2>3 DEF TypeOK, HostTypeOK, ScanType
  <1>9. CASE ResumeEnd \/ ResumeFetchRaises
    BY <1>8, <1>9 DEF ResumeEnd, ResumeFetchRaises
  <1>10. CASE ResumeAbort
    <2>1. scan' = NoScan /\ pc' # "down" /\ UNCHANGED <<own, walk, disk>>
      BY <1>10 DEF ResumeAbort
    <2>2. CASE scan.by = "boot"
      BY <1>10, <2>1, <2>2 DEF ResumeAbort, ParkInv, ClaimFree, DiskFree, ScanFree, NoScan
    <2>3. CASE scan.by = "advance"
      BY <1>10, <2>1, <2>3 DEF ResumeAbort, ParkInv, ClaimFree, DiskFree, ScanFree, NoScan
    <2>. QED
      BY <2>2, <2>3 DEF TypeOK, HostTypeOK, ScanType
  <1>. QED
    BY <1>1, <1>2, <1>3, <1>4, <1>5, <1>6, <1>7, <1>9, <1>10 DEF Moving

(* No round is trained on a coordinate that is on cooldown: the walk skips  *)
(* it, a replay that gave up parks only its candidate, and the cursor a     *)
(* restart resumes is not among the parks it restores.                      *)
THEOREM Unparked == Spec => []TrainsUnparked
  <1>1. Init => ParkInv
    BY DEF Init, MinerInit, ParkInv, ClaimFree, DiskFree, ScanFree, NoScan
  <1>2. TypeOK /\ ParkInv /\ [Next]_vars => ParkInv'
    <2>. SUFFICES ASSUME TypeOK, ParkInv, [Next]_vars PROVE ParkInv'
      OBVIOUS
    <2>1. ASSUME NEW code, GoDown(code) PROVE ParkInv'
      BY <2>1 DEF GoDown, ParkInv, ClaimFree, DiskFree, ScanFree, NoScan
    <2>2. CASE Idling
      BY <2>2 DEF Idling, ParkInv, ClaimFree, DiskFree, ScanFree, NoCursor
    <2>3. CASE UNCHANGED minerVars
      BY <2>3 DEF minerVars, ParkInv, ClaimFree, DiskFree, ScanFree, Walking, NoScan
    <2>. QED
      BY <2>1, <2>2, <2>3, ParkMoving, IdlesOrMoves DEF Next, vars
  <1>3. ParkInv => TrainsUnparked
    BY DEF ParkInv, ClaimFree, TrainsUnparked
  <1>. QED
    BY <1>1, <1>2, <1>3, TypeCorrect, PTL DEF Spec
-----------------------------------------------------------------------------
(* FrontierExact is about a process that never replays a coordinate: it    *)
(* does not advance its claim, and it does not hold every seed of the      *)
(* coordinator, so that no global root can be compared at start-up.        *)
NeverReplays ==
  Scoped /\ ~CanAdvance /\ ~(Seeds \subseteq InitSlots \cup {StartCoord})

(* The store: a campaign is a run, one record for each of its events.      *)
StoreInv ==
  /\ \A r \in store : /\ r.campaign = r.run /\ r.run <= run /\ r.event >= 1
                      /\ r.run = run => r.event <= head
  /\ \A r, s \in store : r.run = s.run /\ r.event = s.event => r = s
  /\ Seeds \subseteq active /\ Seeds \subseteq ptr.active /\ ptr.campaign <= run

(* Where the coordinator had c at the frontier.                            *)
AtFrontier(c) == CoordinatorAt(store, campaign, c, last)

Folding ==
  /\ fold.by = "catchup"
  /\ fold.rec \in store /\ fold.rec.campaign = campaign /\ fold.rec.event = last + 1
  /\ fold.touched \subseteq {fold.rec.coord}
  /\ \A c \in slots : (IF c \in fold.touched THEN fold.saved[c] ELSE w[c]) = AtFrontier(c)

NoReplay ==
  /\ own = StartCoord /\ disk.cursor \subseteq {StartCoord} /\ ~repair
  /\ pc \in {"down", "tick", "catchup", "fold", "judge", "work"}

FrontierInv ==
  /\ NoReplay
  /\ campaign <= run /\ (campaign = run => last <= head)
  /\ man.store \subseteq {r \in store : r.campaign = campaign}
  /\ pc = "down" => last = 0 /\ w = FrozenBase /\ man.store = {}
  /\ pc = "fold" => Folding
  /\ FrontierExact

LEMMA FrontierInit == Init /\ NeverReplays => StoreInv /\ FrontierInv
  <1>. SUFFICES ASSUME Init, NeverReplays PROVE StoreInv /\ FrontierInv
    OBVIOUS
  <1>1. ptr.campaign = 1 /\ ptr.active = Seeds
    BY DEF Init, CoordInit, Pointer, CampaignOf, NeverReplays
  <1>2. StoreInv
    <2>1. store = {} /\ run = 1 /\ active = Seeds
      BY DEF Init, CoordInit
    <2>. QED
      BY ONLY <1>1, <2>1 DEF StoreInv
  <1>3. /\ pc = "down" /\ last = 0 /\ w = FrozenBase /\ campaign = 0 /\ man.store = {}
        /\ own = StartCoord /\ disk.cursor = {} /\ repair = FALSE /\ run = 1
    BY DEF Init, CoordInit, MinerInit, NoCursor, NoSnapshot, NoCampaign
  <1>4. FrontierInv
    BY <1>3 DEF FrontierInv, NoReplay, FrontierExact
  <1>. QED
    BY <1>2, <1>4

(* The coordinator only adds: a record of its current run, after its head. *)
LEMMA StoreGrows ==
  ASSUME Scoped, TypeOK, StoreInv, CoordNext
  PROVE  /\ store \subseteq store'
         /\ \A r \in store' : r \notin store => r.run = run /\ r.event = head + 1
         /\ run' >= run
         /\ run' = run => head' >= head
         /\ StoreInv'
  <1>t. run \in Nat /\ head \in Nat /\ \A r \in store : r.event \in Nat /\ r.run \in Nat
    BY DEF TypeOK, CoordTypeOK, Record
  <1>1. ASSUME NEW c \in Coords, NEW n \in 1..MaxRows, CoordAccept(c, n)
        PROVE  /\ store \subseteq store'
               /\ \A r \in store' : r \notin store => r.run = run /\ r.event = head + 1
               /\ run' = run /\ head' = head + 1
               /\ StoreInv'
    <2>. DEFINE x == coordW[c] \o RowDeltas(run, head + 1, n)
                rec == [campaign |-> CampaignOf(run), run |-> run, event |-> head + 1,
                        coord |-> c, rows |-> RowDeltas(run, head + 1, n),
                        root |-> SlotRoot(CampaignOf(run), x)]
    <2>1. store' = PutNamed(store, rec)
      BY <1>1 DEF CoordAccept
    <2>2. rec.campaign = run /\ rec.run = run /\ rec.event = head + 1
      BY DEF CampaignOf
    <2>3. /\ run' = run /\ head' = head + 1 /\ active' = active \cup {c} /\ ptr' = ptr
      BY <1>1 DEF CoordAccept
    <2>. HIDE DEF rec, x
    <2>4. \A r \in store : <<r.campaign, r.event>> # <<rec.campaign, rec.event>>
      BY <2>2, <1>t DEF StoreInv
    <2>5. store' = store \cup {rec}
      BY <2>1, <2>4 DEF PutNamed
    <2>6. \A r \in store' : /\ r.campaign = r.run /\ r.run <= run' /\ r.event >= 1
                            /\ r.run = run' => r.event <= head'
      BY <2>2, <2>3, <2>5, <1>t DEF StoreInv
    <2>7. \A r, s \in store' : r.run = s.run /\ r.event = s.event => r = s
      <3>1. \A r \in store : ~(r.run = rec.run /\ r.event = rec.event)
        BY <2>2, <1>t DEF StoreInv
      <3>. QED
        BY <2>5, <3>1 DEF StoreInv
    <2>8. Seeds \subseteq active' /\ Seeds \subseteq ptr'.active /\ ptr'.campaign <= run'
      BY <2>3 DEF StoreInv
    <2>9. StoreInv'
      BY <2>6, <2>7, <2>8 DEF StoreInv
    <2>. QED
      BY <2>2, <2>3, <2>5, <2>9
  <1>2. ASSUME CoordPublish \/ CoordFinish
        PROVE  store' = store /\ run' = run /\ head' = head /\ StoreInv'
    <2>1. /\ store' = store /\ run' = run /\ head' = head /\ active' = active
          /\ ptr'.campaign = run /\ ptr'.active = active
      BY <1>2 DEF CoordPublish, CoordFinish, Pointer, CampaignOf
    <2>. QED
      BY <2>1, <1>t DEF StoreInv
  <1>3. ASSUME CoordRestart
        PROVE  store' = store /\ run' = run + 1 /\ StoreInv'
    <2>1. /\ store' = store /\ run' = run + 1 /\ head' = 0 /\ active' = Seeds
          /\ ptr'.campaign = run + 1 /\ ptr'.active = Seeds
      BY <1>3 DEF CoordRestart, Pointer, CampaignOf
    <2>. QED
      BY <2>1, <1>t DEF StoreInv
  <1>. QED
    BY <1>1, <1>2, <1>3, <1>t DEF CoordNext

(* What it adds is not part of the history a frontier refers to.           *)
LEMMA HistoryKept ==
  ASSUME Scoped, TypeOK, StoreInv, CoordNext,
         NEW n \in Nat, NEW e \in Nat, n = run => e <= head, NEW c
  PROVE  CoordinatorAt(store, n, c, e)' = CoordinatorAt(store, n, c, e)
  <1>1. run \in Nat /\ head \in Nat
    BY DEF TypeOK, CoordTypeOK
  <1>2. HistoryOf(store', n, c, e) = HistoryOf(store, n, c, e)
    BY <1>1, StoreGrows DEF HistoryOf
  <1>. QED
    BY <1>2 DEF CoordinatorAt

LEMMA FrontierCoord ==
  ASSUME Scoped, TypeOK, StoreInv, FrontierInv, CoordNext, UNCHANGED minerVars
  PROVE  FrontierInv'
  <1>t. run \in Nat /\ run' \in Nat /\ head \in Nat /\ head' \in Nat /\ campaign \in Nat
        /\ last \in Nat
    BY CoordType DEF TypeOK, CoordTypeOK, ProcessTypeOK
  <1>1. \A c \in Coords : AtFrontier(c)' = AtFrontier(c)
    BY <1>t, HistoryKept DEF AtFrontier, FrontierInv, minerVars
  <1>2. campaign' <= run' /\ (campaign' = run' => last' <= head')
    BY <1>t, StoreGrows DEF FrontierInv, minerVars
  <1>3. man'.store \subseteq {r \in store' : r.campaign = campaign'}
    BY StoreGrows DEF FrontierInv, minerVars
  <1>4. NoReplay' /\ (pc = "down" => last = 0 /\ w = FrozenBase /\ man.store = {})'
    BY DEF FrontierInv, NoReplay, minerVars
  <1>s. slots \subseteq Coords /\ slots' = slots /\ w' = w /\ fold' = fold /\ pc' = pc
        /\ last' = last /\ campaign' = campaign
    BY DEF TypeOK, ClaimTypeOK, minerVars
  <1>5. (pc = "fold" => Folding)'
    BY <1>1, <1>s, StoreGrows DEF FrontierInv, Folding
  <1>6. FrontierExact'
    BY <1>1, <1>s DEF FrontierInv, FrontierExact, AtFrontier
  <1>. QED
    BY <1>2, <1>3, <1>4, <1>5, <1>6 DEF FrontierInv

(* The steps that move no weight and no frontier.                          *)
Waiting ==
  /\ pc \notin {"down", "fold"} /\ pc' \in {"tick", "catchup", "judge", "work"}
  /\ UNCHANGED <<campaign, slots, w, own, last, repair>>
  /\ man' \in {man, Snapshot, NoSnapshot}
  /\ disk' = disk \/ disk'.cursor = {own}

LEMMA StepsWithoutReplay ==
  ASSUME NeverReplays, TypeOK, FrontierInv, MinerStep \/ Crash
  PROVE  \/ \E code : GoDown(code)
         \/ Boot \/ CatchUpFetch \/ Waiting
         \/ FoldRow \/ FoldRowRejected \/ FoldSkipRows
         \/ FoldOk \/ FoldLineage \/ FoldTimeout
  <1>n. /\ pc \notin {"bootmanifest", "resume", "advance"} /\ ~repair /\ ~CanAdvance
        /\ pc = "fold" => fold.by = "catchup"
    BY DEF FrontierInv, NoReplay, Folding, NeverReplays
  <1>1. CASE Crash
    BY <1>1 DEF Crash
  <1>2. CASE TickDone \/ TickCampaignChanged \/ FoldRaises \/ FoldPoison \/ NoProgress
             \/ PublishLast
    BY <1>2 DEF TickDone, TickCampaignChanged, FoldRaises, FoldPoison, NoProgress,
                PublishLast
  <1>3. ~(\/ BootManifest \/ BootManifestFails \/ ResumeSkip \/ ResumeFetch \/ ResumeEnd
          \/ ResumeFetchRaises \/ ResumeAbort \/ StartAdvance \/ AdvanceBlocked
          \/ CooldownElapsed \/ AdvanceRefused \/ AdvanceTry \/ AdvanceNone \/ IdleInRepair)
    BY <1>n DEF BootManifest, BootManifestFails, ResumeSkip, ResumeFetch, ResumeEnd,
                ResumeFetchRaises, ResumeAbort, StartAdvance, AdvanceBlocked,
                CooldownElapsed, AdvanceRefused, AdvanceTry, AdvanceNone, IdleInRepair, AtRow
  <1>4. CASE TickStart \/ CatchUpStop \/ DoseMoved \/ StayPut \/ SkipRound \/ Publish
    BY <1>4 DEF TickStart, CatchUpStop, DoseMoved, StayPut, SkipRound, Publish, NextTick,
                SaveClaim, Waiting
  <1>. QED
    BY <1>1, <1>2, <1>3, <1>4 DEF MinerStep

(* The rows of a record: what a rollback would restore stays in place.     *)
LEMMA FrontierRows ==
  ASSUME TypeOK, FrontierInv, UNCHANGED coordVars,
         FoldRow \/ FoldRowRejected \/ FoldSkipRows
  PROVE  FrontierInv'
  <1>. DEFINE k == fold.rec.coord
  <1>t. fold \in FoldType /\ w \in [Coords -> Weights] /\ k \in Coords /\ slots \subseteq Coords
    BY DEF TypeOK, HostTypeOK, ClaimTypeOK, FoldType, Record
  <1>1. /\ pc = "fold" /\ pc' = "fold"
        /\ UNCHANGED <<campaign, slots, own, last, man, repair, disk, store, run, head>>
    BY DEF FoldRow, FoldRowRejected, FoldSkipRows, AtRow, coordVars
  <1>2. Folding
    BY <1>1 DEF FrontierInv
  <1>3. \A c : AtFrontier(c)' = AtFrontier(c)
    BY <1>1 DEF AtFrontier
  <1>4. Folding'
    <2>1. CASE FoldSkipRows
      <3>1. /\ fold'.rec = fold.rec /\ fold'.touched = fold.touched /\ fold'.by = fold.by
            /\ fold'.saved = fold.saved /\ w' = w
        BY <2>1, <1>t DEF FoldSkipRows, FoldType
      <3>. QED
        BY <1>1, <1>2, <1>3, <3>1 DEF Folding
    <2>2. CASE FoldRow \/ FoldRowRejected
      <3>1. /\ fold'.rec = fold.rec /\ fold'.touched = fold.touched \cup {k}
            /\ fold'.by = fold.by /\ fold'.saved = CowSave(k)
        BY <2>2, <1>t DEF FoldRow, FoldRowRejected, RowWritten, FoldType
      <3>2. \A c \in Coords : c # k => w'[c] = w[c]
        BY <2>2, <1>t DEF FoldRow, FoldRowRejected
      <3>3. CowSave(k)[k] = IF k \in fold.touched THEN fold.saved[k] ELSE w[k]
        BY <1>t DEF CowSave, FoldType
      <3>4. ASSUME NEW c \in slots
            PROVE  (IF c \in fold'.touched THEN fold'.saved[c] ELSE w'[c]) = AtFrontier(c)
        <4>1. CASE c = k
          BY <4>1, <3>1, <3>3, <1>2 DEF Folding
        <4>2. CASE c # k
          BY <4>2, <3>1, <3>2, <1>t, <1>2 DEF Folding
        <4>. QED
          BY <4>1, <4>2
      <3>. QED
        BY <1>1, <1>2, <1>3, <3>1, <3>4 DEF Folding
    <2>. QED
      BY <2>1, <2>2
  <1>. QED
    BY <1>1, <1>4 DEF FrontierInv, NoReplay, FrontierExact

(* The coordinator one event further: only the record's coordinate moved.  *)
LEMMA NextEvent ==
  ASSUME TypeOK, StoreInv, NEW r \in store, r.event = last + 1, NEW c \in Coords
  PROVE  CoordinatorAt(store, r.run, c, r.event) =
           IF c = r.coord THEN r.root.weights ELSE CoordinatorAt(store, r.run, c, last)
  <1>t. last \in Nat /\ \A x \in store : x.event \in Nat
    BY DEF TypeOK, ProcessTypeOK, CoordTypeOK, Record
  <1>u. \A x \in store : x.run = r.run /\ x.event = r.event => x = r
    BY DEF StoreInv
  <1>. DEFINE newest(h) == IF h = {} THEN Frozen
                            ELSE (CHOOSE x \in h : \A y \in h : y.event <= x.event).root.weights
  <1>d. \A e : CoordinatorAt(store, r.run, c, e) = newest(HistoryOf(store, r.run, c, e))
    BY DEF CoordinatorAt
  <1>1. CASE c = r.coord
    <2>. DEFINE h == HistoryOf(store, r.run, c, r.event)
    <2>1. r \in h /\ \A y \in h : y.event <= r.event /\ y \in store /\ y.run = r.run
      BY <1>1, <1>t DEF HistoryOf
    <2>2. \A x \in h : (\A y \in h : y.event <= x.event) => x = r
      BY <2>1, <1>t, <1>u
    <2>3. (CHOOSE x \in h : \A y \in h : y.event <= x.event) = r
      <3>. HIDE DEF h
      <3>. QED
        BY <2>1, <2>2
    <2>4. h # {}
      BY <2>1
    <2>5. newest(h) = r.root.weights
      <3>. HIDE DEF h
      <3>. QED
        BY <2>3, <2>4
    <2>. HIDE DEF newest
    <2>. QED
      BY <1>1, <1>d, <2>5
  <1>2. CASE c # r.coord
    <2>1. HistoryOf(store, r.run, c, r.event) = HistoryOf(store, r.run, c, last)
      <3>1. ASSUME NEW x \in store, x.run = r.run, x.coord = c
            PROVE  x.event <= r.event <=> x.event <= last
        BY <3>1, <1>2, <1>t, <1>u
      <3>. QED
        BY <3>1 DEF HistoryOf
    <2>. HIDE DEF newest
    <2>. QED
      BY <1>2, <2>1, <1>d
  <1>. QED
    BY <1>1, <1>2

LEMMA FrontierFoldOk ==
  ASSUME TypeOK, StoreInv, FrontierInv, UNCHANGED coordVars, FoldOk
  PROVE  FrontierInv'
  <1>1. /\ pc = "fold" /\ fold.by = "catchup" /\ Folding
        /\ pc' = "catchup" /\ last' = fold.rec.event /\ w' = w /\ ReplicaRootOk
        /\ UNCHANGED <<campaign, slots, own, man, repair, disk, store, run, head>>
    BY DEF FoldOk, FoldEnded, coordVars, FrontierInv, Folding
  <1>t. /\ slots \subseteq Coords /\ last \in Nat /\ w \in [Coords -> Weights]
        /\ fold.rec \in Record
    BY DEF TypeOK, ClaimTypeOK, ProcessTypeOK, HostTypeOK, FoldType
  <1>2. /\ fold.rec \in store /\ fold.rec.event = last + 1 /\ fold.rec.run = campaign
        /\ campaign = run => fold.rec.event <= head
    BY <1>1 DEF Folding, StoreInv
  <1>3. ASSUME NEW c \in slots PROVE w[c] = CoordinatorAt(store, campaign, c, fold.rec.event)
    <2>1. CASE c = fold.rec.coord
      <3>1. w[c] = fold.rec.root.weights
        BY <1>1, <2>1, <1>t DEF ReplicaRootOk, SlotRoot
      <3>. QED
        BY <3>1, <2>1, <1>2, <1>t, NextEvent
    <2>2. CASE c # fold.rec.coord
      <3>1. w[c] = CoordinatorAt(store, campaign, c, last)
        BY <1>1, <2>2 DEF Folding, AtFrontier
      <3>. QED
        BY <3>1, <2>2, <1>2, <1>t, NextEvent
    <2>. QED
      BY <2>1, <2>2
  <1>4. FrontierExact'
    BY <1>1, <1>3 DEF FrontierExact
  <1>. QED
    BY <1>1, <1>2, <1>4 DEF FrontierInv, NoReplay

LEMMA FrontierMiner ==
  ASSUME NeverReplays, TypeOK, StoreInv, FrontierInv, MinerStep \/ Crash,
         UNCHANGED coordVars
  PROVE  FrontierInv'
  <1>0. UNCHANGED <<store, run, head>> /\ run \in Nat /\ head \in Nat
    BY DEF coordVars, TypeOK, CoordTypeOK
  <1>t. slots \subseteq Coords /\ last \in Nat /\ campaign \in Nat
    BY DEF TypeOK, ClaimTypeOK, ProcessTypeOK
  <1>1. ASSUME NEW code, GoDown(code) PROVE FrontierInv'
    <2>1. /\ pc' = "down" /\ campaign' = 0 /\ last' = 0 /\ w' = FrozenBase
          /\ own' = StartCoord /\ repair' = FALSE /\ disk' = disk /\ man'.store = {}
      BY <1>1 DEF GoDown, NoCampaign, NoSnapshot
    <2>. QED
      BY <2>1, <1>0 DEF FrontierInv, NoReplay, FrontierExact
  <1>2. CASE Boot
    <2>1. /\ own' = StartCoord /\ slots' = InitSlots \cup {StartCoord}
          /\ campaign' = ptr.campaign
          /\ UNCHANGED <<w, last, man, repair, disk>> /\ pc = "down"
      BY <1>2 DEF Boot, FrontierInv, NoReplay, NoCursor
    <2>2. slots' # ptr.active
      BY <2>1 DEF NeverReplays, StoreInv
    <2>3. pc' = "tick"
      BY <1>2, <2>2 DEF Boot
    <2>4. last = 0 /\ w = FrozenBase /\ man.store = {}
      BY <2>1 DEF FrontierInv
    <2>5. \A c \in slots' : w'[c] = CoordinatorAt(store, campaign', c, 0)
      <3>1. \A n, c : HistoryOf(store, n, c, 0) = {}
        BY DEF HistoryOf, StoreInv, TypeOK, CoordTypeOK, Record
      <3>2. slots' \subseteq Coords
        BY <2>1, LaneConstants
      <3>. QED
        BY <2>1, <2>4, <3>1, <3>2 DEF CoordinatorAt, FrozenBase
    <2>6. FrontierExact'
      BY <1>0, <2>1, <2>4, <2>5 DEF FrontierExact
    <2>7. campaign' <= run'
      BY <1>0, <2>1 DEF StoreInv
    <2>8. NoReplay'
      BY <2>1, <2>3 DEF FrontierInv, NoReplay
    <2>9. last' <= head'
      BY <1>0, <2>1, <2>4
    <2>10. man'.store \subseteq {r \in store' : r.campaign = campaign'}
      BY <2>1, <2>4
    <2>11. pc' # "down" /\ pc' # "fold"
      BY <2>3
    <2>. QED
      BY ONLY <2>6, <2>7, <2>8, <2>9, <2>10, <2>11 DEF FrontierInv
  <1>3. CASE Waiting
    <2>1. man'.store \subseteq {r \in store : r.campaign = campaign}
      <3>1. Snapshot.store = {r \in store : r.campaign = campaign} /\ NoSnapshot.store = {}
        BY DEF Snapshot, NoSnapshot
      <3>2. man.store \subseteq {r \in store : r.campaign = campaign}
        BY DEF FrontierInv
      <3>3. man' \in {man, Snapshot, NoSnapshot}
        BY <1>3 DEF Waiting
      <3>. QED
        BY ONLY <3>1, <3>2, <3>3
    <2>2. FrontierExact'
      BY <1>0, <1>3 DEF Waiting, FrontierInv, FrontierExact
    <2>. QED
      BY <1>0, <1>3, <2>1, <2>2 DEF Waiting, FrontierInv, NoReplay
  <1>4. CASE CatchUpFetch
    <2>1. PICK r \in NextRecords : StartFold(r, "catchup")
      BY <1>4 DEF CatchUpFetch
    <2>2. /\ pc = "catchup" /\ pc' = "fold"
          /\ UNCHANGED <<campaign, slots, w, own, last, man, repair, disk>>
      BY <1>4, <2>1 DEF CatchUpFetch, StartFold
    <2>3. /\ fold'.rec = r /\ fold'.touched = {} /\ fold'.by = "catchup"
      BY <2>1 DEF StartFold
    <2>4. r \in store /\ r.campaign = campaign /\ r.event = last + 1
      BY DEF NextRecords, FrontierInv
    <2>5. \A c \in slots : w[c] = CoordinatorAt(store, campaign, c, last)
      BY <2>2 DEF FrontierInv, FrontierExact
    <2>6. Folding'
      BY <1>0, <2>2, <2>3, <2>4, <2>5 DEF Folding, AtFrontier
    <2>. QED
      BY <1>0, <2>2, <2>6 DEF FrontierInv, NoReplay, FrontierExact
  <1>5. CASE FoldLineage \/ FoldTimeout
    <2>1. /\ pc = "fold" /\ fold.by = "catchup" /\ Folding /\ pc' = "judge" /\ w' = RolledBack
          /\ UNCHANGED <<campaign, slots, own, last, man, repair, disk>>
      BY <1>5 DEF FoldLineage, FoldTimeout, FoldEnded, AtRow, FrontierInv, Folding
    <2>2. \A c \in slots : RolledBack[c] = AtFrontier(c)
      BY <2>1, <1>t DEF RolledBack, Folding
    <2>3. FrontierExact'
      BY <1>0, <2>1, <2>2 DEF FrontierExact, AtFrontier
    <2>. QED
      BY <1>0, <2>1, <2>3 DEF FrontierInv, NoReplay
  <1>. QED
    BY <1>1, <1>2, <1>3, <1>4, <1>5, FrontierRows, FrontierFoldOk, StepsWithoutReplay

(* Of a process that never replays: between folds every resident            *)
(* coordinate is exactly where the coordinator had it at event              *)
(* last_applied (`catch_up_accepted`, `_fold_accepted_checked`), for any    *)
(* number of events, rows, runs and restarts of either side.                *)
THEOREM FrontierIsExact == ASSUME NeverReplays PROVE Spec => []FrontierExact
  <1>1. Init => StoreInv /\ FrontierInv
    BY FrontierInit
  <1>2. TypeOK /\ StoreInv /\ FrontierInv /\ [Next]_vars => (StoreInv /\ FrontierInv)'
    <2>. SUFFICES ASSUME TypeOK, StoreInv, FrontierInv, [Next]_vars
                  PROVE  (StoreInv /\ FrontierInv)'
      OBVIOUS
    <2>s. Scoped
      BY DEF NeverReplays
    <2>1. CASE UNCHANGED vars
      <3>1. StoreInv'
        BY <2>1 DEF vars, coordVars, StoreInv
      <3>2. \A c : AtFrontier(c)' = AtFrontier(c)
        BY <2>1 DEF vars, coordVars, minerVars, AtFrontier
      <3>3. FrontierInv'
        BY <2>1, <3>2 DEF vars, coordVars, minerVars, FrontierInv, NoReplay, Folding,
                          FrontierExact
      <3>. QED
        BY <3>1, <3>3
    <2>2. CASE (MinerStep \/ Crash) /\ UNCHANGED coordVars
      <3>1. StoreInv'
        BY <2>2 DEF coordVars, StoreInv
      <3>. QED
        BY <2>2, <3>1, FrontierMiner
    <2>3. CASE CoordNext /\ UNCHANGED minerVars
      BY <2>s, <2>3, StoreGrows, FrontierCoord
    <2>. QED
      BY <2>1, <2>2, <2>3 DEF Next
  <1>3. FrontierInv => FrontierExact
    BY DEF FrontierInv
  <1>. QED
    BY <1>1, <1>2, <1>3, TypeCorrect, PTL DEF Spec
=============================================================================
