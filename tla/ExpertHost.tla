------------------------------ MODULE ExpertHost ------------------------------
(***************************************************************************)
(* The registry of a coordinator's expert slots and one merge event on it: *)
(* coordinates are admitted, also in the middle of an event, idle ones are *)
(* evicted, each delta is measured alone on the resident model, and what   *)
(* was accepted is written back.                                           *)
(*                                                                         *)
(* The weights of a coordinate are the deltas merged into it, in order.    *)
(* What read_slot returns is a view over the model's storage where no cast *)
(* or copy to another device is needed, and a copy elsewhere: views says   *)
(* which.  The loop that admits, evicts and merges is outside src; it is   *)
(* taken from the calls the tests and run_smoke make.                      *)
(***************************************************************************)
EXTENDS Integers, Sequences, SequencesExt, FiniteSets

CONSTANTS
  Coords,          \* the coordinates this node may host
  Views,           \* what read_slot may do: return views or not
  MaxActive,       \* max_active
  MaxDeltas        \* bound: contributions ever admitted

VARIABLES
  views,           \* read_slot returns views here
  slots,           \* the coordinate of each index
  active,          \* the indices that are live
  model,           \* the resident weights
  base,            \* _base_slots: an entry for each index, NoEntry for a hole
  inRound,         \* begin_round has run
  experts,         \* the canonical list of this event
  batch,           \* contributions of this event still to be judged
  pc,              \* "idle", "event", "ce base", "ce merged", "between", "judged"
  start,           \* the model when the event began
  accepted,        \* the records written: slot, coordinate, delta
  count            \* deltas so far

vars == <<views, slots, active, model, base, inRound, experts, batch, pc, start, accepted, count>>

\* An entry of a list of weights: a view of the model, weights of its own, or a hole.
View == [kind |-> "view", w |-> <<>>]
Own(w) == [kind |-> "own", w |-> w]
NoEntry == [kind |-> "none", w |-> <<>>]
Value(i, e) == IF e.kind = "view" THEN model[slots[i]] ELSE e.w

ReadSlot(s, i) == IF views THEN View ELSE Own(model[s[i]])
Copied(i, e) == IF e = NoEntry THEN NoEntry ELSE Own(Value(i, e))

Init ==
  /\ views \in Views
  /\ slots = <<>> /\ active = {} /\ model = [c \in Coords |-> <<>>]
  /\ base = <<>> /\ inRound = FALSE /\ experts = <<>> /\ batch = <<>>
  /\ pc = "idle" /\ start = model /\ accepted = {} /\ count = 0

-----------------------------------------------------------------------------
\* The registry.

Known(c) == \E i \in DOMAIN slots : slots[i] = c
Index(s, c) == CHOOSE i \in DOMAIN s : s[i] = c

\* A list of entries with i filled in, holes up to the length of the registry.
Filled(list, n, i, e) ==
  [j \in 1..n |-> IF j = i THEN e ELSE IF j <= Len(list) THEN list[j] ELSE NoEntry]

\* mutant: the snapshot of the round is left as it was
RepairedNot(s, i) == base
\* _repair_base_slot: the current weights are the pre-round base.
Repaired(s, i) == IF inRound THEN Filled(base, Len(s), i, Own(model[s[i]])) ELSE base

\* mutant: a new coordinate takes the index of one that was evicted
PlacedInHole(c) ==
  IF Known(c) THEN slots
  ELSE IF DOMAIN slots = active THEN Append(slots, c)
  ELSE [slots EXCEPT ![CHOOSE i \in DOMAIN slots : i \notin active] = c]
\* An index is never used again, nor moved.
Placed(c) == IF Known(c) THEN slots ELSE Append(slots, c)

\* register, then the delta joins the event; over the bound the claim waits.  ok: the
\* signature is valid and the base not too old.
Admit(c, ok) ==
  /\ pc \in {"idle", "event"} /\ count < MaxDeltas
  /\ \/ Known(c) /\ Index(slots, c) \in active
     \/ Cardinality(active) < MaxActive
  /\ LET s == Placed(c)
         i == Index(s, c)
     IN /\ slots' = s /\ active' = active \cup {i}
        /\ base' = Repaired(s, i)
        /\ experts' =
             IF pc = "event" /\ (i > Len(experts) \/ experts[i] = NoEntry)
             THEN Filled(experts, Len(s), i, ReadSlot(s, i)) ELSE experts
        /\ batch' = Append(batch, [slot |-> i, id |-> count + 1, ok |-> ok])
  /\ count' = count + 1
  /\ UNCHANGED <<views, model, inRound, pc, start, accepted>>

\* evict: the working state of an index goes.
Evict(i) ==
  /\ pc \in {"idle", "event"} /\ i \in active /\ \A k \in DOMAIN batch : batch[k].slot # i
  /\ active' = active \ {i}
  /\ base' = IF inRound /\ i <= Len(base) THEN [base EXCEPT ![i] = NoEntry] ELSE base
  /\ UNCHANGED <<views, slots, model, inRound, experts, batch, pc, start, accepted, count>>

-----------------------------------------------------------------------------
\* The event.

Canonical == [i \in DOMAIN slots |-> IF i \in active THEN ReadSlot(slots, i) ELSE NoEntry]

\* mutant: the snapshot shares the list's arrays
SnapshotShared(list) == list
\* begin_round copies.
Snapshot(list) == [i \in DOMAIN list |-> Copied(i, list[i])]

BeginEvent ==
  /\ pc = "idle" /\ pc' = "event"
  /\ experts' = Canonical /\ base' = Snapshot(Canonical) /\ inRound' = TRUE /\ start' = model
  /\ UNCHANGED <<views, slots, active, model, batch, accepted, count>>

Slot == Head(batch).slot
Coord == slots[Slot]
HasEntry(list) == Slot <= Len(list) /\ list[Slot] # NoEntry

\* shard_merge_round: what is unsigned or too old never reaches the weights.
Drops == ~Head(batch).ok
Filtered ==
  /\ pc = "event" /\ batch # <<>> /\ Drops
  /\ batch' = Tail(batch)
  /\ UNCHANGED <<views, slots, active, model, base, inRound, experts, pc, start, accepted, count>>

\* eval_expert, once for the base and once for base plus delta: write, measure, write back.
Merged == Append(Value(Slot, experts[Slot]), Head(batch).id)
TryBase ==
  /\ pc = "event" /\ batch # <<>> /\ ~Drops /\ HasEntry(base) /\ HasEntry(experts)
  /\ model' = [model EXCEPT ![Coord] = Value(Slot, experts[Slot])] /\ pc' = "ce base"
  /\ UNCHANGED <<views, slots, active, base, inRound, experts, batch, start, accepted, count>>
TryMerged ==
  /\ pc = "between" /\ model' = [model EXCEPT ![Coord] = Merged] /\ pc' = "ce merged"
  /\ UNCHANGED <<views, slots, active, base, inRound, experts, batch, start, accepted, count>>
PutBack ==
  /\ pc \in {"ce base", "ce merged"}
  /\ model' = [model EXCEPT ![Coord] = Value(Slot, base[Slot])]
  /\ pc' = IF pc = "ce base" THEN "between" ELSE "judged"
  /\ UNCHANGED <<views, slots, active, base, inRound, experts, batch, start, accepted, count>>

\* apply_delta_gated: the delta goes into the canonical list, not into the model.
Judge(accept) ==
  /\ pc = "judged" /\ pc' = "event" /\ batch' = Tail(batch)
  /\ IF accept
     THEN /\ experts' = [experts EXCEPT ![Slot] = Own(Merged)]
          /\ accepted' = accepted \cup {[slot |-> Slot, coord |-> Coord, id |-> Head(batch).id]}
     ELSE UNCHANGED <<views, experts, accepted>>
  /\ UNCHANGED <<views, slots, active, model, base, inRound, start, count>>

\* mutant: holes are dropped before the list is written by position
SyncedCompact ==
  LET list == SelectSeq(experts, LAMBDA e : e # NoEntry) IN
  [c \in Coords |->
     IF Known(c) /\ Index(slots, c) <= Len(list) THEN Value(Index(slots, c), list[Index(slots, c)])
     ELSE model[c]]
\* sync_from_canonical: positional, holes skipped.
Synced ==
  [c \in Coords |->
     IF Known(c) /\ Index(slots, c) <= Len(experts) /\ experts[Index(slots, c)] # NoEntry
     THEN Value(Index(slots, c), experts[Index(slots, c)]) ELSE model[c]]
Sync ==
  /\ pc = "event" /\ batch = <<>> /\ model' = Synced /\ pc' = "idle" /\ experts' = <<>>
  /\ UNCHANGED <<views, slots, active, base, inRound, batch, start, accepted, count>>

Next ==
  \/ \E c \in Coords, ok \in BOOLEAN : Admit(c, ok)
  \/ \E i \in active : Evict(i)
  \/ BeginEvent
  \/ Filtered
  \/ TryBase
  \/ TryMerged
  \/ PutBack
  \/ \E accept \in BOOLEAN : Judge(accept)
  \/ Sync

Spec == Init /\ [][Next]_vars

-----------------------------------------------------------------------------
\* Properties.

\* "Compacting the list on eviction would silently re-point every historical accepted
\* record at a DIFFERENT expert": the slot of a record names its coordinate for ever.
RecordsPoint == \A r \in accepted : slots[r.slot] = r.coord

\* "each delta is gated independently": while one is measured, every other coordinate
\* has the weights it had when the event began, and after it so has its own.
GatedOnBase ==
  /\ pc \in {"ce base", "ce merged"} => \A c \in Coords \ {Coord} : model[c] = start[c]
  /\ pc \in {"between", "judged", "event"} => model = start

\* "the model IS the store": between two events the model of a coordinate holds every
\* delta accepted for it once, and nothing else, whatever was evicted and admitted again.
HoldsAccepted ==
  pc = "idle" => \A c \in Coords :
    /\ ToSet(model[c]) = {r.id : r \in {q \in accepted : q.coord = c}}
    /\ Len(model[c]) = Cardinality(ToSet(model[c]))

\* A merge never finds its slot without a snapshot (MissingBaseSnapshot would end the
\* process), though the registry grows and fills its holes in the middle of an event.
NeverMissing == pc = "event" /\ batch # <<>> /\ ~Drops => HasEntry(base) /\ HasEntry(experts)

\* The store of a lane whose coordinates come and go: every record names its expert, every
\* delta was measured alone, and the weights are exactly the accepted deltas.
StoreExact == RecordsPoint /\ GatedOnBase /\ HoldsAccepted /\ NeverMissing
=============================================================================
