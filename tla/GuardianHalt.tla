---------------------------- MODULE GuardianHalt ----------------------------
(***************************************************************************)
(* The emergency halt of neurahash/guardian_halt.py: k of m guardians sign *)
(* an order, anyone drops it at the path the coordinator polls, and the    *)
(* controller halts, resumes, or ignores it.  The controller lives in the  *)
(* coordinator's memory; of what it did only the ledger's intent records   *)
(* outlast a restart.                                                      *)
(*                                                                         *)
(* A signature is a pair (key, payload) that only the key's owner makes    *)
(* and anyone can keep and drop again.  Time is what is left: `left` is    *)
(* _halted_until - now, and Time takes one from it.                        *)
(***************************************************************************)
EXTENDS Naturals, FiniteSets

CONSTANTS
  Guardians,    \* GuardianSet.members
  Outsiders,    \* keys outside the set
  Threshold,    \* GuardianSet.threshold
  MaxHalt,      \* max_halt_s
  Durations,    \* the duration_s of orders; 0 stands for max_halt_s
  MaxEpoch,     \* bound: orders carry epochs 1..MaxEpoch
  MaxSigned,    \* bound: signatures ever made
  LedgerFails   \* may the ledger refuse an intent record?

ASSUME HaltConstants ==
  /\ IsFiniteSet(Guardians) /\ Guardians \cap Outsiders = {}
  /\ Threshold \in 1..Cardinality(Guardians)
  /\ MaxHalt \in Nat \ {0} /\ Durations \subseteq Nat
  /\ MaxEpoch \in Nat /\ MaxSigned \in Nat
  /\ LedgerFails \in BOOLEAN

VARIABLES
  up,        \* the coordinator runs
  left,      \* what is left of the halt, 0 when not halted
  lastEpoch, \* _last_epoch
  order,     \* {} or the one order in the file
  ledger,    \* the intent records of the ledger
  signed,    \* every signature made so far
  applied,   \* history: how often the order of an epoch was applied (2 is often)
  owed       \* history: what is left of the halt guardians ordered and did not lift

vars == <<up, left, lastEpoch, order, ledger, signed, applied, owed>>

Epochs == 1..MaxEpoch
Payload == [action : {"halt", "resume"}, epoch : Epochs, dur : Durations]
Keys == Guardians \cup Outsiders

Init ==
  /\ up = TRUE /\ left = 0 /\ lastEpoch = 0
  /\ order = {} /\ ledger = {} /\ signed = {}
  /\ applied = [e \in Epochs |-> 0] /\ owed = 0

SignersOf(p) == {s.key : s \in {x \in signed : x.payload = p}}

Sign(k, p) ==
  /\ Cardinality(signed) < MaxSigned
  /\ signed' = signed \cup {[key |-> k, payload |-> p]}
  /\ UNCHANGED <<up, left, lastEpoch, order, ledger, applied, owed>>

(* Any order that can be put together from signatures made so far is        *)
(* dropped: a fresh one, an old one again, one with a signature repeated.   *)
DropOrder(p, copies) ==
  /\ SignersOf(p) # {}
  /\ order' = {[payload |-> p, sigs |-> SignersOf(p) \X (1..copies)]}
  /\ UNCHANGED <<up, left, lastEpoch, ledger, signed, applied, owed>>

(* Mutant: signatures are counted, not the guardians that made them.        *)
SignaturesOf(o) == {s \in o.sigs : s[1] \in Guardians}

DistinctSigners(o) == {s[1] : s \in o.sigs} \cap Guardians

MeetsThreshold(o) == Cardinality(DistinctSigners(o)) >= Threshold

(* Mutant: the floor itself passes, so a file that stays is applied again.  *)
NotStale(e) == e >= lastEpoch

Fresh(e) == e > lastEpoch

(* Mutant: the cap is only the default.                                     *)
EffectiveUncapped(d) == IF d > 0 THEN d ELSE MaxHalt

Effective(d) == IF d > 0 /\ d < MaxHalt THEN d ELSE MaxHalt

(* The history counts to two.                                               *)
Again(n) == IF n < 2 THEN n + 1 ELSE n

(* One poll of the order file: submit and _record.                          *)
Poll(recorded) ==
  /\ up /\ (recorded \/ LedgerFails)
  /\ \E o \in order :
       LET p == o.payload
           rest == IF p.action = "halt" THEN Effective(p.dur) ELSE 0
       IN  /\ Fresh(p.epoch) /\ MeetsThreshold(o)
           /\ lastEpoch' = p.epoch
           /\ left' = rest /\ owed' = rest
           /\ ledger' = IF recorded
                        THEN ledger \cup {[action |-> p.action, epoch |-> p.epoch]} ELSE ledger
           /\ applied' = [applied EXCEPT ![p.epoch] = Again(@)]
  /\ UNCHANGED <<up, order, signed>>

Time ==
  /\ left > 0 \/ owed > 0
  /\ left' = IF left > 0 THEN left - 1 ELSE 0
  /\ owed' = IF owed > 0 THEN owed - 1 ELSE 0
  /\ UNCHANGED <<up, lastEpoch, order, ledger, signed, applied>>

Crash ==
  /\ up /\ up' = FALSE
  /\ left' = 0 /\ lastEpoch' = 0
  /\ UNCHANGED <<order, ledger, signed, applied, owed>>

(* _init_epoch_from_ledger: f is the greatest epoch on record.              *)
(* Mutant: only halts are looked at.                                        *)
FloorOfHalts(f) ==
  LET epochs == {r.epoch : r \in {x \in ledger : x.action = "halt"}}
  IN  /\ f \in epochs \/ (f = 0 /\ epochs = {})
      /\ \A e \in epochs : e <= f

Floor(f) ==
  LET epochs == {r.epoch : r \in ledger}
  IN  /\ f \in epochs \/ (f = 0 /\ epochs = {})
      /\ \A e \in epochs : e <= f

Start ==
  /\ ~up /\ up' = TRUE
  /\ \E f \in Epochs \cup {0} : Floor(f) /\ lastEpoch' = f
  /\ UNCHANGED <<left, order, ledger, signed, applied, owed>>

Next ==
  \/ \E k \in Keys, p \in Payload : Sign(k, p)
  \/ \E p \in Payload, copies \in 1..2 : DropOrder(p, copies)
  \/ \E recorded \in BOOLEAN : Poll(recorded)
  \/ Time \/ Crash \/ Start

Spec == Init /\ [][Next]_vars

(* The clock does not stop.                                                 *)
FairSpec == Spec /\ WF_vars(Time)

-----------------------------------------------------------------------------
(* PROPERTIES *)

(* Every variable keeps its type; no halt is longer than max_halt_s.        *)
TypeOK ==
  /\ up \in BOOLEAN /\ left \in 0..MaxHalt /\ owed \in 0..MaxHalt
  /\ lastEpoch \in 0..MaxEpoch
  /\ \A o \in order : o.payload \in Payload /\ o.sigs \subseteq Keys \X (1..2)
  /\ ledger \subseteq [action : {"halt", "resume"}, epoch : Epochs]
  /\ signed \subseteq [key : Keys, payload : Payload]
  /\ applied \in [Epochs -> Nat]

(* GuardianSet: the pool halts only on an order of which k different        *)
(* guardians signed that very action, epoch and duration; copies of one     *)
(* signature and keys outside the set count for nothing (distinct_signers). *)
HaltedByQuorum ==
  [][ left' > left =>
        \E e \in Epochs, d \in Durations :
          /\ left' = Effective(d)
          /\ Cardinality(SignersOf([action |-> "halt", epoch |-> e, dur |-> d])
                           \cap Guardians) >= Threshold ]_vars

(* "a captured order can't be replayed": with a ledger that takes every     *)
(* record, no order is applied twice, whatever is dropped again and however *)
(* often the coordinator restarts.                                          *)
AppliedOnce == \A e \in Epochs : applied[e] <= 1

(* "a lost-key guardian set can't freeze the chain forever": once no new    *)
(* orders are signed, a halt ends, although the order stays in the file and *)
(* is polled every round.                                                   *)
HaltEnds == left > 0 ~> left = 0

(* A RESUME of k guardians lifts a halt early; otherwise it lasts until it  *)
(* expires (module docstring).  A running coordinator is halted as long as  *)
(* the order says, also after a restart.                                    *)
HaltHonoured == up /\ owed > 0 => left > 0
=============================================================================
