--------------------------- MODULE GlmCoordinator ---------------------------
(***************************************************************************)
(* The coordinator of the asynchronous GLM lane and the never-deleting     *)
(* content store it writes to, as a contributor sees them.  The            *)
(* coordinator's own program is not part of the repository; what it does   *)
(* is taken from how tools/sharddiloco_glm_contributor.py reads it:        *)
(*   - one ACCEPTED record per event, named by (campaign, event), which    *)
(*     moves exactly one coordinate and advertises the digest the          *)
(*     coordinate has afterwards (`slot_roots`);                           *)
(*   - a v2 pointer that is rewritten in place: event frontier, model      *)
(*     root, active coordinates, campaign and a done flag.  The record of  *)
(*     an event is put before the pointer that covers it.                  *)
(*   - a restart begins a new run on the frozen base.  With campaign       *)
(*     scoping it also begins a new name family, without it the new run    *)
(*     writes over the previous run's names one event at a time.           *)
(*                                                                         *)
(* The weights of a coordinate are the sequence of deltas folded onto the  *)
(* frozen base (the frozen base is the empty sequence): float addition is  *)
(* order sensitive and folding a delta twice moves the weights twice, so   *)
(* two copies are bit-identical exactly when the sequences are equal.      *)
(***************************************************************************)
EXTENDS Naturals, Sequences, FiniteSets

CONSTANTS
  Coords,       \* the (layer, expert) coordinates
  Seeds,        \* the coordinates the coordinator registers at genesis
  MaxEvents,    \* bound on the events of one run
  MaxRows,      \* bound on the accepted deltas of one event
  MaxRuns,      \* bound on the runs of the coordinator (1 = it never restarts)
  Scoped        \* does the coordinator stamp a campaign id on its pointer?

ASSUME CoordinatorConstants ==
  /\ Seeds \subseteq Coords
  /\ MaxEvents \in Nat /\ MaxRows \in Nat /\ MaxRuns \in Nat \ {0}
  /\ Scoped \in BOOLEAN

VARIABLES
  run,          \* the current run, 1, 2, ...
  coordW,       \* the coordinator's weights of every coordinate in this run
  head,         \* the last event committed in this run
  active,       \* the coordinates registered in this run
  ptr,          \* the pointer object on the lane
  store,        \* the accepted records the lane's manifest lists
  advertised    \* history: every (coordinate, weights) some record advertised

coordVars == <<run, coordW, head, active, ptr, store, advertised>>

Delta == Nat \X Nat \X Nat                \* run, event, row
Weights == Seq(Delta)
Frozen == << >>

NoCampaign == 0
CampaignOf(r) == IF Scoped THEN r ELSE NoCampaign

(* One coordinate's lineage fingerprint: the campaign seeds the digest. *)
SlotRoot(campaign, weights) == [campaign |-> campaign, weights |-> weights]

Record == [campaign : Nat, run : Nat, event : Nat, coord : Coords,
           rows : Weights, root : [campaign : Nat, weights : Weights]]

(* The digest over a whole slot list: the campaign and every slot's weights. *)
ModelRoot(campaign, slots, w) ==
  [campaign |-> campaign, weights |-> [c \in slots |-> w[c]]]

Pointer(r, e, slots, w, done) ==
  [run |-> r, campaign |-> CampaignOf(r), event |-> e, active |-> slots,
   root |-> ModelRoot(CampaignOf(r), slots, w), done |-> done]

FrozenBase == [c \in Coords |-> Frozen]

CoordInit ==
  /\ run = 1
  /\ coordW = FrozenBase
  /\ head = 0
  /\ active = Seeds
  /\ ptr = Pointer(1, 0, Seeds, FrozenBase, FALSE)
  /\ store = {}
  /\ advertised = {<<c, Frozen>> : c \in Coords}

(* The name of an accepted record is (campaign, event): putting it again   *)
(* re-points the name.                                                     *)
PutNamed(recs, rec) ==
  {r \in recs : <<r.campaign, r.event>> # <<rec.campaign, rec.event>>} \cup {rec}

RowDeltas(r, e, n) == [k \in 1..n |-> <<r, e, k>>]

(* One event: n deltas for coordinate c pass the gate and are merged in    *)
(* order; the record that says so is put on the lane.                      *)
CoordAccept(c, n) ==
  /\ ptr.run = run /\ ptr.event = head /\ ~ptr.done
  /\ head < MaxEvents
  /\ LET rows == RowDeltas(run, head + 1, n)
         w == coordW[c] \o rows
     IN  /\ coordW' = [coordW EXCEPT ![c] = w]
         /\ store' = PutNamed(store,
                       [campaign |-> CampaignOf(run), run |-> run,
                        event |-> head + 1, coord |-> c, rows |-> rows,
                        root |-> SlotRoot(CampaignOf(run), w)])
         /\ advertised' = advertised \cup {<<c, w>>}
  /\ head' = head + 1
  /\ active' = active \cup {c}
  /\ UNCHANGED <<run, ptr>>

(* The pointer catches up with the last committed event. *)
CoordPublish ==
  /\ ~ptr.done
  /\ ptr.event # head
  /\ ptr' = Pointer(run, head, active, coordW, FALSE)
  /\ UNCHANGED <<run, coordW, head, active, store, advertised>>

CoordFinish ==
  /\ ~ptr.done /\ ptr.event = head
  /\ head = MaxEvents
  /\ ptr' = Pointer(run, head, active, coordW, TRUE)
  /\ UNCHANGED <<run, coordW, head, active, store, advertised>>

(* A crash and a restart from the frozen base: a new run, and a genesis    *)
(* pointer at event 0.  The store keeps everything.                        *)
CoordRestart ==
  /\ run < MaxRuns
  /\ run' = run + 1
  /\ coordW' = FrozenBase
  /\ head' = 0
  /\ active' = Seeds
  /\ ptr' = Pointer(run + 1, 0, Seeds, FrozenBase, FALSE)
  /\ UNCHANGED <<store, advertised>>

CoordNext ==
  \/ \E c \in Coords, n \in 1..MaxRows : CoordAccept(c, n)
  \/ CoordPublish
  \/ CoordFinish
  \/ CoordRestart

(* The weights the coordinator had for c at event e of run r, read off the *)
(* records of that run: the last one at or before e that moved c.          *)
HistoryOf(recs, r, c, e) ==
  {x \in recs : x.run = r /\ x.coord = c /\ x.event <= e}

CoordinatorAt(recs, r, c, e) ==
  IF HistoryOf(recs, r, c, e) = {} THEN Frozen
  ELSE (CHOOSE x \in HistoryOf(recs, r, c, e) :
          \A y \in HistoryOf(recs, r, c, e) : y.event <= x.event).root.weights
=============================================================================
