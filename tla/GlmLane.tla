------------------------------ MODULE GlmLane ------------------------------
(***************************************************************************)
(* One contributor of the asynchronous GLM lane:                           *)
(* tools/sharddiloco_glm_contributor.py, `_run_async` and everything it    *)
(* calls that moves weights, the frontier or the claim: the catch-up over  *)
(* accepted records, the verified fold with its copy-on-write rollback,    *)
(* the bounded replay of a coordinate (`resume_to_root`), the walk to the  *)
(* next claimable coordinate (`advance_claim`), repair mode, publication,  *)
(* and the process's exits and restarts.                                   *)
(*                                                                         *)
(* A tick reads the manifest and the pointer once, in one snapshot `man`;  *)
(* the coordinator goes on meanwhile.  Every delta and record fetch may    *)
(* succeed, run into the per-call deadline, or raise.  Weights live in     *)
(* memory only: a process that goes down starts again on the frozen base.  *)
(***************************************************************************)
EXTENDS GlmCoordinator

CONSTANTS
  InitSlots,    \* the coordinates resident when the process starts
  WalkOrder,    \* claim_walk_order of this identity: the claimable coordinates
  StartCoord,   \* pick_start_coord: the claim when no cursor was saved
  MaxSeats,     \* --max-active-slots
  CanAdvance    \* --advance-after > 0

ASSUME LaneConstants ==
  /\ InitSlots \subseteq Coords
  /\ StartCoord \in Coords
  /\ WalkOrder \in Seq(Coords)
  /\ \A i, j \in DOMAIN WalkOrder : WalkOrder[i] = WalkOrder[j] => i = j
  /\ MaxSeats \in Nat
  /\ CanAdvance \in BOOLEAN

VARIABLES
  pc,           \* where the process is; "down" when it is not running
  rc,           \* why it last went down
  campaign,     \* the campaign latched from the pointer at boot
  slots,        \* the coordinates registered in the host
  w,            \* the host's weights of every coordinate
  own,          \* the coordinate claimed
  last,         \* last_applied
  applied,      \* applied_any of this tick
  judged,       \* a record folded this tick moved `own` after we published on it
  man,          \* this tick's snapshot: the campaign's records and the pointer
  fold,         \* the accepted record being folded
  scan,         \* the replay in progress
  walk,         \* the candidates advance_claim has still to try
  parked,       \* the coordinates on cooldown
  repair,       \* repair_since is set
  published,    \* last_pub_base_event is set
  disk          \* claim_state_<identity>.json

minerVars == <<pc, rc, campaign, slots, w, own, last, applied, judged, man, fold, scan,
               walk, parked, repair, published, disk>>
vars == <<coordVars, minerVars>>

Claimable == {WalkOrder[i] : i \in DOMAIN WalkOrder}
NoCursor == {}

(* Mutant of Snapshot: accepted records of every campaign.                 *)
SnapshotUnscoped == [store |-> store, ptr |-> ptr]

Snapshot == [store |-> {r \in store : r.campaign = campaign}, ptr |-> ptr]
NoSnapshot == [store |-> {}, ptr |-> Pointer(1, 0, Seeds, FrozenBase, FALSE)]

NoRecord == [campaign |-> NoCampaign, run |-> 0, event |-> 0, coord |-> StartCoord,
             rows |-> Frozen, root |-> SlotRoot(NoCampaign, Frozen)]
NoFold == [rec |-> NoRecord, row |-> 1, touched |-> {}, saved |-> FrozenBase,
           rejected |-> FALSE, by |-> "catchup"]
NoScan == [cand |-> StartCoord, pos |-> 0, snap |-> FrozenBase, hit |-> FALSE,
           by |-> "boot"]

Comparable(p) == slots = p.active
AtRoot(s, p) == ModelRoot(campaign, s, w) = p.root

MinerInit ==
  /\ pc = "down" /\ rc = "none"
  /\ campaign = NoCampaign
  /\ slots = {} /\ w = FrozenBase /\ own = StartCoord
  /\ last = 0 /\ applied = FALSE /\ judged = FALSE
  /\ man = NoSnapshot /\ fold = NoFold /\ scan = NoScan
  /\ walk = << >> /\ parked = {} /\ repair = FALSE /\ published = FALSE
  /\ disk = [cursor |-> NoCursor, parked |-> {}]

Init == CoordInit /\ MinerInit

(* The process ends, for whatever reason: its memory is gone.              *)
GoDown(code) ==
  /\ pc' = "down" /\ rc' = code
  /\ campaign' = NoCampaign
  /\ slots' = {} /\ w' = FrozenBase /\ own' = StartCoord
  /\ last' = 0 /\ applied' = FALSE /\ judged' = FALSE
  /\ man' = NoSnapshot /\ fold' = NoFold /\ scan' = NoScan
  /\ walk' = << >> /\ parked' = {} /\ repair' = FALSE /\ published' = FALSE
  /\ UNCHANGED disk

-----------------------------------------------------------------------------
(* Start-up: latch the campaign, resume the saved cursor, restore the      *)
(* parks that have not expired, and, when the two slot sets are the same,  *)
(* compare the global roots.                                               *)
Boot ==
  /\ pc = "down"
  /\ campaign' = ptr.campaign
  /\ \E c \in disk.cursor \cup {StartCoord} :
       /\ disk.cursor # NoCursor => c \in disk.cursor
       /\ own' = c
       /\ slots' = InitSlots \cup {c}
  /\ parked' \in SUBSET disk.parked
  /\ rc' = "none"
  /\ pc' = IF slots' = ptr.active /\ ModelRoot(campaign', slots', w) # ptr.root
           THEN "bootmanifest" ELSE "tick"
  /\ UNCHANGED <<w, last, applied, judged, man, fold, scan, walk, repair, published, disk>>

StartScan(cand, by) ==
  /\ scan' = [cand |-> cand, pos |-> 0, snap |-> w, hit |-> FALSE, by |-> by]
  /\ pc' = "resume"

(* resume_to_root at start-up reads a manifest of its own.                 *)
BootManifest ==
  /\ pc = "bootmanifest"
  /\ man' = Snapshot
  /\ IF Snapshot.store = {} THEN pc' = "tick" /\ UNCHANGED scan
                            ELSE StartScan(own, "boot")
  /\ UNCHANGED <<rc, campaign, slots, w, own, last, applied, judged, fold, walk, parked,
                 repair, published, disk>>

BootManifestFails ==
  /\ pc = "bootmanifest"
  /\ pc' = "tick"
  /\ UNCHANGED <<rc, campaign, slots, w, own, last, applied, judged, man, fold, scan,
                 walk, parked, repair, published, disk>>

(* The top of the loop: ONE manifest and the pointer in it.                *)
TickDone ==
  /\ pc = "tick" /\ ptr.done
  /\ GoDown("done")

TickCampaignChanged ==
  /\ pc = "tick" /\ ~ptr.done
  /\ ptr.campaign # campaign
  /\ GoDown("campaign")

TickStart ==
  /\ pc = "tick" /\ ~ptr.done
  /\ ptr.campaign = campaign
  /\ man' = Snapshot
  /\ applied' = FALSE /\ judged' = FALSE
  /\ pc' = "catchup"
  /\ UNCHANGED <<rc, campaign, slots, w, own, last, fold, scan, walk, parked,
                 repair, published, disk>>

-----------------------------------------------------------------------------
(* catch_up_accepted: the records after the frontier, in order, up to the  *)
(* pointer's event, stopping at the first gap.                             *)
(* Mutants: a gap in the records is skipped; the pointer's frontier does   *)
(* not bound the scan; the last event of the frontier is left out.         *)
NextRecordsOverGaps ==
  {r \in man.store : r.event > last /\ r.event <= man.ptr.event}
NextRecordsUnbounded == {r \in man.store : r.event = last + 1}
NextRecordsShort ==
  {r \in man.store : r.event = last + 1 /\ r.event < man.ptr.event}

NextRecords ==
  {r \in man.store : r.event = last + 1 /\ r.event <= man.ptr.event}

StartFold(rec, by) ==
  /\ fold' = [rec |-> rec, row |-> 1, touched |-> {}, saved |-> FrozenBase,
              rejected |-> FALSE, by |-> by]
  /\ pc' = "fold"

CatchUpFetch ==
  /\ pc = "catchup"
  /\ \E r \in NextRecords : StartFold(r, "catchup")
  /\ UNCHANGED <<rc, campaign, slots, w, own, last, applied, judged, man, scan, walk,
                 parked, repair, published, disk>>

(* Nothing more is visible, or the record's fetch failed: go and train.    *)
CatchUpStop ==
  /\ pc = "catchup"
  /\ pc' = "judge"
  /\ UNCHANGED <<rc, campaign, slots, w, own, last, applied, judged, man, fold, scan,
                 walk, parked, repair, published, disk>>

-----------------------------------------------------------------------------
(* _fold_accepted_checked: the rows of one record, one fetch each, through *)
(* the copy-on-write host; then the verdict on the whole record.           *)
(* Mutants: every write takes a new pre-image; the rollback is forgotten,  *)
(* or knows only the coordinates it wrote.                                 *)
CowSaveAgain(c) == [fold.saved EXCEPT ![c] = w[c]]
NotRolledBack == w
RolledBackAlone == [c \in fold.touched |-> fold.saved[c]]

CowSave(c) == IF c \in fold.touched THEN fold.saved
              ELSE [fold.saved EXCEPT ![c] = w[c]]

(* write_slot through the shim, for the next row of the record.            *)
RowWritten(rejects) ==
  [fold EXCEPT !.row = @ + 1,
               !.touched = @ \cup {fold.rec.coord},
               !.saved = CowSave(fold.rec.coord),
               !.rejected = @ \/ rejects]

RolledBack == [c \in Coords |-> IF c \in fold.touched THEN fold.saved[c] ELSE w[c]]

AtRow == /\ pc = "fold"
         /\ fold.rec.coord \in slots
         /\ fold.row <= Len(fold.rec.rows)

FoldRow ==
  /\ AtRow
  /\ fold' = RowWritten(FALSE)
  /\ w' = [w EXCEPT ![fold.rec.coord] = Append(@, fold.rec.rows[fold.row])]
  /\ UNCHANGED <<pc, rc, campaign, slots, own, last, applied, judged, man, scan, walk,
                 parked, repair, published, disk>>

(* The local re-gate of the own slot's row: folding it raises the held-out *)
(* loss too far, so the row is written back and put on `rejected`.         *)
FoldRowRejected ==
  /\ AtRow
  /\ fold.by = "catchup" /\ fold.rec.coord = own
  /\ fold' = RowWritten(TRUE)
  /\ UNCHANGED <<pc, rc, campaign, slots, w, own, last, applied, judged, man, scan, walk,
                 parked, repair, published, disk>>

(* A coordinate this node does not hold: nothing to fold, nothing fetched. *)
FoldSkipRows ==
  /\ pc = "fold" /\ fold.rec.coord \notin slots
  /\ fold.row <= Len(fold.rec.rows)
  /\ fold' = [fold EXCEPT !.row = Len(fold.rec.rows) + 1]
  /\ UNCHANGED <<pc, rc, campaign, slots, w, own, last, applied, judged, man, scan, walk,
                 parked, repair, published, disk>>

(* replica_root_ok: the advertised coordinate, where we hold it, must hash *)
(* to what the coordinator advertised.                                     *)
ReplicaRootOk ==
  fold.rec.coord \in slots =>
    SlotRoot(campaign, w[fold.rec.coord]) = fold.rec.root

FoldEnded == pc = "fold" /\ fold.row > Len(fold.rec.rows)

FoldPoison == FoldEnded /\ fold.rejected /\ GoDown("poison")

FoldOk ==
  /\ FoldEnded /\ ~fold.rejected
  /\ ReplicaRootOk
  /\ IF fold.by = "catchup"
     THEN /\ last' = fold.rec.event
          /\ applied' = TRUE
          /\ judged' = (judged \/ (published /\ fold.rec.coord = own))
          /\ UNCHANGED scan
     ELSE /\ scan' = [scan EXCEPT !.hit = TRUE]
          /\ UNCHANGED <<last, applied, judged>>
  /\ pc' = fold.by
  /\ fold' = NoFold
  /\ UNCHANGED <<rc, campaign, slots, w, own, man, walk, parked, repair,
                 published, disk>>

(* Off-lineage: unfold everything.  The catch-up holds the frontier, the   *)
(* replay goes on with the next record.                                    *)
FoldLineage ==
  /\ FoldEnded /\ ~fold.rejected
  /\ ~ReplicaRootOk
  /\ w' = RolledBack
  /\ pc' = IF fold.by = "catchup" THEN "judge" ELSE "resume"
  /\ fold' = NoFold
  /\ UNCHANGED <<rc, campaign, slots, own, last, applied, judged, man, scan, walk, parked,
                 repair, published, disk>>

(* A delta fetch overran its deadline in the catch-up: restore, stop the   *)
(* scan, try again next tick.                                              *)
FoldTimeout ==
  /\ AtRow /\ fold.by = "catchup"
  /\ w' = RolledBack
  /\ pc' = "judge"
  /\ fold' = NoFold
  /\ UNCHANGED <<rc, campaign, slots, own, last, applied, judged, man, scan, walk, parked,
                 repair, published, disk>>

(* Any other exception of a delta fetch goes through every caller.         *)
FoldRaises == AtRow /\ GoDown("raised")

-----------------------------------------------------------------------------
(* resume_to_root: replay the campaign's records that moved the candidate, *)
(* oldest first, then judge the newest one that was folded.                *)
Remaining == {r \in man.store : r.event > scan.pos}

NextInScan(r) == r \in Remaining /\ \A x \in Remaining : r.event <= x.event

ResumeSkip ==
  /\ pc = "resume"
  /\ \E r \in Remaining :
       /\ NextInScan(r) /\ r.coord # scan.cand
       /\ scan' = [scan EXCEPT !.pos = r.event]
  /\ UNCHANGED <<pc, rc, campaign, slots, w, own, last, applied, judged, man, fold, walk,
                 parked, repair, published, disk>>

ResumeFetch ==
  /\ pc = "resume"
  /\ \E r \in Remaining :
       /\ NextInScan(r) /\ r.coord = scan.cand
       /\ scan' = [scan EXCEPT !.pos = r.event]
       /\ StartFold(r, "resume")
  /\ UNCHANGED <<rc, campaign, slots, w, own, last, applied, judged, man, walk, parked,
                 repair, published, disk>>

SaveClaim(coord) == disk' = [cursor |-> {coord}, parked |-> parked]

(* The walk ends on a coordinate: claim it and save the cursor.            *)
Land(cand) ==
  /\ own' = cand
  /\ walk' = << >>
  /\ repair' = FALSE
  /\ published' = FALSE
  /\ SaveClaim(cand)
  /\ pc' = "work"
  /\ UNCHANGED parked

Leave(reached) ==
  /\ w' = IF reached THEN w ELSE scan.snap
  /\ IF scan.by = "boot" THEN pc' = "tick" /\ UNCHANGED <<own, walk, repair, published, disk, parked>>
                         ELSE Land(scan.cand)
  /\ scan' = NoScan /\ fold' = NoFold
  /\ UNCHANGED <<rc, campaign, slots, last, applied, judged, man>>

(* The whole list was replayed, or fetching a record raised: both leave    *)
(* the loop, and both are judged by the newest record folded.              *)
ResumeEnd ==
  /\ pc = "resume" /\ Remaining = {}
  /\ Leave(scan.hit)

ResumeFetchRaises ==
  /\ pc = "resume" /\ Remaining # {}
  /\ Leave(scan.hit)

(* A bound fired (wall budget, stall, per-call deadline): full rollback,   *)
(* and the walk parks the candidate and goes on.                           *)
ResumeAbort ==
  /\ \/ pc = "resume" /\ Remaining # {}
     \/ AtRow /\ fold.by = "resume"
  /\ w' = scan.snap
  /\ IF scan.by = "boot"
     THEN pc' = "tick" /\ UNCHANGED parked
     ELSE pc' = "advance" /\ parked' = parked \cup {scan.cand}
  /\ scan' = NoScan /\ fold' = NoFold
  /\ UNCHANGED <<rc, campaign, slots, own, last, applied, judged, man, walk, repair,
                 published, disk>>

-----------------------------------------------------------------------------
(* The verdicts of this tick.  A plateau needs a record folded this tick   *)
(* that judged a delta we published on this coordinate.                    *)
PositionOf(c) == CHOOSE i \in DOMAIN WalkOrder : WalkOrder[i] = c
Candidates ==
  LET n == Len(WalkOrder)
      start == IF own \in Claimable THEN PositionOf(own) ELSE 0
      m == IF own \in Claimable THEN n - 1 ELSE n
  IN  IF n <= 1 THEN << >>
      ELSE [k \in 1..m |-> WalkOrder[((start + k - 1) % n) + 1]]

StartAdvance ==
  /\ pc = "judge"
  /\ \/ CanAdvance /\ judged                  \* plateau
     \/ repair                                   \* retry the walk every tick
  /\ walk' = Candidates
  /\ pc' = "advance"
  /\ UNCHANGED <<rc, campaign, slots, w, own, last, applied, judged, man, fold, scan,
                 parked, repair, published, disk>>

(* The dose ladder moved instead (a smaller dose on the same coordinate,   *)
(* or back to the campaign's): the claim state is saved.                   *)
DoseMoved ==
  /\ pc = "judge" /\ judged
  /\ SaveClaim(own)
  /\ pc' = "work"
  /\ UNCHANGED <<rc, campaign, slots, w, own, last, applied, judged, man, fold, scan, walk,
                 parked, repair, published>>

StayPut ==
  /\ pc = "judge" /\ ~repair
  /\ pc' = "work"
  /\ UNCHANGED <<rc, campaign, slots, w, own, last, applied, judged, man, fold, scan, walk,
                 parked, repair, published, disk>>

(* advance_claim, one candidate at a time.                                 *)
(* Mutant: the cooldown is not looked up for a coordinate already resident. *)
BlockedUnlessResident(c) == c \in parked \ slots

Blocked(c) == c \in parked

AdvanceBlocked ==
  /\ pc = "advance" /\ walk # << >>
  /\ Blocked(Head(walk))
  /\ walk' = Tail(walk)
  /\ UNCHANGED <<pc, rc, campaign, slots, w, own, last, applied, judged, man, fold, scan,
                 parked, repair, published, disk>>

CooldownElapsed ==
  /\ pc = "advance" /\ walk # << >>
  /\ Blocked(Head(walk))
  /\ parked' = parked \ {Head(walk)}
  /\ UNCHANGED <<pc, rc, campaign, slots, w, own, last, applied, judged, man, fold, scan,
                 walk, repair, published, disk>>

AdvanceRefused ==
  /\ pc = "advance" /\ walk # << >>
  /\ ~Blocked(Head(walk)) /\ Head(walk) \notin slots
  /\ Cardinality(slots) >= MaxSeats
  /\ parked' = parked \cup {Head(walk)}
  /\ walk' = Tail(walk)
  /\ UNCHANGED <<pc, rc, campaign, slots, w, own, last, applied, judged, man, fold, scan,
                 repair, published, disk>>

AdvanceTry ==
  /\ pc = "advance" /\ walk # << >>
  /\ ~Blocked(Head(walk))
  /\ Head(walk) \in slots \/ Cardinality(slots) < MaxSeats
  /\ slots' = slots \cup {Head(walk)}
  /\ IF AtRoot(slots', man.ptr) \/ man.store = {}
     THEN /\ Land(Head(walk))
          /\ UNCHANGED scan
     ELSE /\ StartScan(Head(walk), "advance")
          /\ walk' = Tail(walk)
          /\ UNCHANGED <<own, parked, repair, published, disk>>
  /\ UNCHANGED <<rc, campaign, w, last, applied, judged, man, fold>>

(* Every candidate is blocked: repair mode, unless there is nowhere to go. *)
AdvanceNone ==
  /\ pc = "advance" /\ walk = << >>
  /\ repair' = (repair \/ Cardinality(Claimable) > 1)
  /\ SaveClaim(own)
  /\ pc' = "work"
  /\ UNCHANGED <<rc, campaign, slots, w, own, last, applied, judged, man, fold, scan, walk,
                 parked, published>>

-----------------------------------------------------------------------------
(* The rest of the tick: repair mode idles, a stuck replica gives up, a    *)
(* round trains and publishes, or is skipped (out of memory).              *)
NextTick ==
  /\ pc' = "tick"
  /\ man' = NoSnapshot
  /\ applied' = FALSE /\ judged' = FALSE
  /\ UNCHANGED <<rc, campaign, slots, w, own, last, fold, scan, walk, parked,
                 repair, disk>>

IdleInRepair == pc = "work" /\ repair /\ NextTick /\ UNCHANGED published

NoProgress ==
  /\ pc = "work" /\ ~repair
  /\ ~applied
  /\ Comparable(man.ptr) /\ ~AtRoot(slots, man.ptr)
  /\ GoDown("no progress")

SkipRound == pc = "work" /\ ~repair /\ NextTick /\ UNCHANGED published

BaseEvent == IF last > man.ptr.event THEN man.ptr.event ELSE last

Publish == pc = "work" /\ ~repair /\ NextTick /\ published' = TRUE

PublishLast == pc = "work" /\ ~repair /\ GoDown("max rounds")

Crash == pc # "down" /\ GoDown("crashed")

MinerStep ==
  \/ Boot \/ BootManifest \/ BootManifestFails
  \/ TickDone \/ TickCampaignChanged \/ TickStart
  \/ CatchUpFetch \/ CatchUpStop
  \/ FoldRow \/ FoldRowRejected \/ FoldSkipRows \/ FoldTimeout \/ FoldRaises
  \/ FoldPoison \/ FoldOk \/ FoldLineage
  \/ ResumeSkip \/ ResumeFetch \/ ResumeEnd \/ ResumeFetchRaises \/ ResumeAbort
  \/ StartAdvance \/ DoseMoved \/ StayPut
  \/ AdvanceBlocked \/ CooldownElapsed \/ AdvanceRefused \/ AdvanceTry \/ AdvanceNone
  \/ IdleInRepair \/ NoProgress \/ SkipRound \/ Publish \/ PublishLast

Next ==
  \/ MinerStep /\ UNCHANGED coordVars
  \/ Crash /\ UNCHANGED coordVars
  \/ CoordNext /\ UNCHANGED minerVars

Spec == Init /\ [][Next]_vars

-----------------------------------------------------------------------------
(* PROPERTIES *)

FoldType ==
  [rec : Record, row : Nat \ {0}, touched : SUBSET Coords,
   saved : [Coords -> Weights], rejected : BOOLEAN, by : {"catchup", "resume"}]
ScanType ==
  [cand : Coords, pos : Nat, snap : [Coords -> Weights], hit : BOOLEAN,
   by : {"boot", "advance"}]

CoordTypeOK ==
  /\ run \in Nat /\ head \in Nat
  /\ coordW \in [Coords -> Weights]
  /\ store \subseteq Record
  /\ advertised \subseteq Coords \X Weights
  /\ active \subseteq Coords
  /\ ptr.event \in Nat /\ ptr.campaign \in Nat /\ ptr.active \subseteq Coords
ProcessTypeOK ==
  /\ pc \in {"down", "bootmanifest", "resume", "tick", "catchup", "fold", "judge",
             "advance", "work"}
  /\ campaign \in Nat /\ last \in Nat
  /\ man.store \subseteq Record /\ man.ptr.event \in Nat
FlagsTypeOK ==
  /\ applied \in BOOLEAN /\ judged \in BOOLEAN
  /\ repair \in BOOLEAN /\ published \in BOOLEAN
HostTypeOK == w \in [Coords -> Weights] /\ fold \in FoldType /\ scan \in ScanType
ClaimTypeOK ==
  /\ slots \subseteq Coords /\ own \in Coords
  /\ walk \in Seq(Coords) /\ parked \subseteq Coords
  /\ disk.cursor \subseteq Coords /\ disk.parked \subseteq Coords

(* Every variable keeps its type.                                          *)
TypeOK == CoordTypeOK /\ ProcessTypeOK /\ FlagsTypeOK /\ HostTypeOK /\ ClaimTypeOK

(* Fail-closed base: outside a fold, whatever failed before, every weight   *)
(* the process holds is a state of that coordinate the coordinator itself   *)
(* advertised (or the frozen base).  Half of a record, a row folded twice   *)
(* or a row that a later row's failure should have undone never stays.      *)
(* (_fold_accepted_checked, _CowSlots, resume_to_root's rollback.)          *)
FailClosedBase ==
  pc # "fold" => \A c \in Coords : <<c, w[c]>> \in advertised

(* With campaign scoping the base of a process never mixes deltas of two    *)
(* runs of the coordinator, through restarts of either side                 *)
(* (accepted_prefix, the campaign check of the tick, the seeded digests).   *)
OneRunInBase ==
  Scoped => \A c, d \in Coords : \A i \in DOMAIN w[c], j \in DOMAIN w[d] :
              w[c][i][1] = w[d][j][1]

(* The frontier means something: between folds, every resident coordinate   *)
(* is exactly where the coordinator had it at event last_applied.  Holds    *)
(* for a process that never replays a coordinate (resume_to_root).          *)
FrontierExact ==
  pc \notin {"down", "fold"} =>
    \A c \in slots : w[c] = CoordinatorAt(store, campaign, c, last)

(* _clamp_base_event's comment: "With the P2 guard in place last_applied    *)
(* <= frontier already so this is a defense-in-depth no-op": a round is     *)
(* never trained with a frontier beyond the pointer it latched.             *)
ClampIsNoOp == pc = "work" => BaseEvent = last

(* A round is never trained on a coordinate that is on cooldown: the walk   *)
(* skips it, the cursor a restart resumes is never a parked one, and the    *)
(* all-blocked state does not train at all.                                 *)
TrainsUnparked == pc = "work" /\ ~repair => own \notin parked

(* catch_up_accepted's log: a LINEAGE-SKIP is "a previous run's leftover in *)
(* the never-deleting store".                                               *)
LineageSkipIsLeftover ==
  [][FoldLineage /\ fold.by = "catchup" => fold.rec.run < run]_vars

(* resume_to_root's docstring: it has reached the coordinate's root when    *)
(* "the most recent record that ADVERTISED a slot_roots entry for our       *)
(* coordinate has been folded, and our local slot_root equals that".        *)
ReachedIsNewest ==
  [][ pc = "resume" /\ pc' \in {"tick", "work"} /\ scan.hit =>
        \A r \in man.store :
          r.coord = scan.cand /\ (\A x \in man.store :
                                    x.coord = scan.cand => x.event <= r.event)
            => SlotRoot(campaign, w'[scan.cand]) = r.root ]_vars

(* Fairness: the loop keeps running, and a fetch that is retried tick after *)
(* tick is not refused forever.                                             *)
Fairness ==
  /\ WF_vars(MinerStep /\ UNCHANGED coordVars)
  /\ SF_vars(CatchUpFetch /\ UNCHANGED coordVars)
  /\ \A k \in 1..MaxRows : SF_vars(FoldRow /\ fold.row = k /\ UNCHANGED coordVars)

FairSpec == Spec /\ Fairness

(* A process that stays up keeps up: it reaches the pointer's event again   *)
(* and again, whatever fetches failed in between (the scan is retried every *)
(* tick; a failed fetch never loses its place).                             *)
KeepsUp == []<>(pc # "down" /\ last = ptr.event) \/ []<>(pc = "down")
=============================================================================
