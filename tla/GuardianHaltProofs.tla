------------------------- MODULE GuardianHaltProofs -------------------------
(***************************************************************************)
(* Proofs about GuardianHalt for every guardian set, threshold, bound on   *)
(* epochs and length of a halt: with a ledger that takes every record no   *)
(* order is applied twice, over any number of restarts; and the pool       *)
(* halts only on a quorum, whatever the ledger does.                       *)
(***************************************************************************)
EXTENDS GuardianHalt, FiniteSetTheorems, TLAPS

-----------------------------------------------------------------------------
(* No order twice.  While the coordinator runs, whatever was applied is at  *)
(* or below the floor; what carries this over a restart is that it is also  *)
(* on the ledger, of which the next floor is the greatest epoch.            *)
HistoryOK ==
  /\ applied \in [Epochs -> Nat]
  /\ \A o \in order : o.payload \in Payload
  /\ \A r \in ledger : r.epoch \in Epochs
  /\ lastEpoch \in Nat
  /\ \A e \in Epochs :
       applied[e] > 0 => /\ \E r \in ledger : r.epoch = e
                         /\ up => e <= lastEpoch

OnceInv == HistoryOK /\ AppliedOnce

LEMMA PollOnce ==
  ASSUME ~LedgerFails, OnceInv, NEW recorded \in BOOLEAN, Poll(recorded)
  PROVE  OnceInv'
  <1>1. recorded /\ up /\ up' = up /\ order' = order
    BY DEF Poll
  <1>2. PICK o \in order :
          /\ Fresh(o.payload.epoch)
          /\ lastEpoch' = o.payload.epoch
          /\ ledger' = ledger \cup {[action |-> o.payload.action, epoch |-> o.payload.epoch]}
          /\ applied' = [applied EXCEPT ![o.payload.epoch] = Again(@)]
    BY <1>1 DEF Poll
  <1> DEFINE n == o.payload.epoch
  <1>3. n \in Epochs /\ n \in Nat
    BY DEF OnceInv, HistoryOK, Payload, Epochs
  <1>4. applied[n] = 0
    BY <1>1, <1>2, <1>3, HaltConstants DEF OnceInv, HistoryOK, Fresh, Epochs
  <1>5. applied' \in [Epochs -> Nat]
    BY <1>2, <1>3 DEF OnceInv, HistoryOK, Again
  <1>6. ASSUME NEW e \in Epochs
        PROVE  /\ applied'[e] <= 1
               /\ applied'[e] > 0 => (\E r \in ledger' : r.epoch = e) /\ e <= lastEpoch'
    <2>1. CASE e = n
      <3>1. applied'[e] = 1
        BY <1>2, <1>3, <1>4, <2>1 DEF OnceInv, HistoryOK, Again
      <3>2. \E r \in ledger' : r.epoch = e
        <4>1. [action |-> o.payload.action, epoch |-> n] \in ledger'
          BY <1>2
        <4>2. [action |-> o.payload.action, epoch |-> n].epoch = e
          BY <2>1
        <4> QED
          BY <4>1, <4>2
      <3> QED
        BY <1>2, <1>3, <2>1, <3>1, <3>2
    <2>2. CASE e # n
      <3>1. applied'[e] = applied[e]
        BY <1>2, <2>2 DEF OnceInv, HistoryOK
      <3>2. applied[e] > 0 => e <= lastEpoch /\ \E r \in ledger : r.epoch = e
        BY <1>1 DEF OnceInv, HistoryOK
      <3>3. applied[e] > 0 => \E r \in ledger' : r.epoch = e
        BY <1>2, <3>2
      <3>4. applied[e] > 0 => e <= lastEpoch'
        BY <1>2, <1>3, <3>2 DEF Fresh, Epochs, OnceInv, HistoryOK
      <3> QED
        BY <3>1, <3>3, <3>4 DEF OnceInv, AppliedOnce
    <2> QED
      BY <2>1, <2>2
  <1>7. AppliedOnce'
    BY <1>6 DEF AppliedOnce
  <1>8. \A r \in ledger' : r.epoch \in Epochs
    BY <1>2, <1>3 DEF OnceInv, HistoryOK
  <1> QED
    BY <1>1, <1>2, <1>3, <1>5, <1>6, <1>7, <1>8 DEF OnceInv, HistoryOK

LEMMA StartOnce ==
  ASSUME OnceInv, Start
  PROVE  OnceInv'
  <1>1. PICK f \in Epochs \cup {0} : Floor(f) /\ lastEpoch' = f
    BY DEF Start
  <1>2. \A r \in ledger : r.epoch <= f
    BY <1>1 DEF Floor
  <1>3. UNCHANGED <<order, ledger, applied>>
    BY DEF Start
  <1>4. f \in Nat
    BY DEF Epochs
  <1> QED
    BY <1>1, <1>2, <1>3, <1>4 DEF OnceInv, HistoryOK, AppliedOnce

LEMMA NextOnce ==
  ASSUME ~LedgerFails, OnceInv, [Next]_vars
  PROVE  OnceInv'
  <1>1. ASSUME NEW k \in Keys, NEW p \in Payload, Sign(k, p)
        PROVE  OnceInv'
    BY <1>1 DEF Sign, OnceInv, HistoryOK, AppliedOnce
  <1>2. ASSUME NEW p \in Payload, NEW copies \in 1..2, DropOrder(p, copies)
        PROVE  OnceInv'
    BY <1>2 DEF DropOrder, OnceInv, HistoryOK, AppliedOnce
  <1>3. ASSUME NEW recorded \in BOOLEAN, Poll(recorded)
        PROVE  OnceInv'
    BY <1>3, PollOnce
  <1>4. CASE Time
    BY <1>4 DEF Time, OnceInv, HistoryOK, AppliedOnce
  <1>5. CASE Crash
    BY <1>5 DEF Crash, OnceInv, HistoryOK, AppliedOnce
  <1>6. CASE Start
    BY <1>6, StartOnce
  <1>7. CASE UNCHANGED vars
    BY <1>7 DEF vars, OnceInv, HistoryOK, AppliedOnce
  <1> QED
    BY <1>1, <1>2, <1>3, <1>4, <1>5, <1>6, <1>7 DEF Next

(* "The epoch floor is rebuilt from the persisted ledger on startup, so      *)
(* replay-safety survives a coordinator restart", as long as the ledger     *)
(* took the record (_record swallows its refusal).                          *)
THEOREM NoReplay ==
  ASSUME ~LedgerFails
  PROVE  Spec => []AppliedOnce
  <1>1. Init => OnceInv
    BY DEF Init, OnceInv, HistoryOK, AppliedOnce
  <1>2. OnceInv /\ [Next]_vars => OnceInv'
    BY NextOnce
  <1>3. OnceInv => AppliedOnce
    BY DEF OnceInv
  <1> QED
    BY <1>1, <1>2, <1>3, PTL DEF Spec

-----------------------------------------------------------------------------
(* Quorum.  What lies in the file was put together from signatures that     *)
(* were made, and a signature made stays made.                              *)
OrderIsSigned ==
  \A o \in order : /\ o.payload \in Payload
                   /\ DistinctSigners(o) \subseteq SignersOf(o.payload)

QuorumInv == OrderIsSigned /\ left \in Nat

(* What a rise of `left` must find: a quorum for a halt of that length.      *)
Authorised(l) ==
  \E e \in Epochs, d \in Durations :
    /\ l = Effective(d)
    /\ Cardinality(SignersOf([action |-> "halt", epoch |-> e, dur |-> d])
                     \cap Guardians) >= Threshold

LEMMA DroppedIsSigned ==
  ASSUME NEW p \in Payload, NEW copies \in 1..2, DropOrder(p, copies)
  PROVE  OrderIsSigned'
  <1> SUFFICES ASSUME NEW o \in order'
               PROVE  /\ o.payload \in Payload
                      /\ DistinctSigners(o) \subseteq SignersOf(o.payload)'
    BY DEF OrderIsSigned, DistinctSigners
  <1>1. o.payload = p /\ o.sigs = SignersOf(p) \X (1..copies)
    BY DEF DropOrder
  <1>2. SignersOf(p)' = SignersOf(p)
    BY DEF DropOrder, SignersOf
  <1>3. DistinctSigners(o) \subseteq SignersOf(p)
    BY <1>1 DEF DistinctSigners
  <1> QED
    BY <1>1, <1>2, <1>3

LEMMA PolledByQuorum ==
  ASSUME QuorumInv, NEW recorded \in BOOLEAN, Poll(recorded), left' > left
  PROVE  Authorised(left')
  <1>1. PICK o \in order :
          /\ MeetsThreshold(o)
          /\ left' = IF o.payload.action = "halt" THEN Effective(o.payload.dur) ELSE 0
    BY DEF Poll
  <1> DEFINE p == o.payload
             halt == [action |-> "halt", epoch |-> p.epoch, dur |-> p.dur]
  <1>2. p \in Payload /\ DistinctSigners(o) \subseteq SignersOf(p)
    BY DEF QuorumInv, OrderIsSigned
  <1>3. p.action = "halt"
    BY <1>1 DEF QuorumInv
  <1>4. p = halt /\ p.epoch \in Epochs /\ p.dur \in Durations
    BY <1>2, <1>3 DEF Payload
  <1>5. /\ DistinctSigners(o) \subseteq SignersOf(p) \cap Guardians
        /\ IsFiniteSet(SignersOf(p) \cap Guardians)
    BY <1>2, HaltConstants, FS_Subset DEF DistinctSigners
  <1>6. Cardinality(DistinctSigners(o)) <= Cardinality(SignersOf(p) \cap Guardians)
    BY <1>5, FS_Subset
  <1>7. /\ Cardinality(DistinctSigners(o)) \in Nat
        /\ Cardinality(SignersOf(p) \cap Guardians) \in Nat
        /\ Threshold \in Nat
    <2>1. IsFiniteSet(DistinctSigners(o))
      BY <1>5, FS_Subset
    <2> QED
      BY <1>5, <2>1, HaltConstants, FS_CardinalityType
  <1>8. Cardinality(SignersOf(p) \cap Guardians) >= Threshold
    BY <1>1, <1>6, <1>7 DEF MeetsThreshold
  <1>9. left' = Effective(p.dur)
    BY <1>1, <1>3
  <1> QED
    BY <1>4, <1>8, <1>9 DEF Authorised

LEMMA NextQuorum ==
  ASSUME QuorumInv, [Next]_vars
  PROVE  QuorumInv' /\ (left' > left => Authorised(left'))
  <1> USE DEF QuorumInv
  <1>1. ASSUME NEW k \in Keys, NEW p \in Payload, Sign(k, p)
        PROVE  QuorumInv' /\ left' = left
    <2>1. \A q : SignersOf(q) \subseteq SignersOf(q)'
      BY <1>1 DEF Sign, SignersOf
    <2>2. order' = order /\ left' = left
      BY <1>1 DEF Sign
    <2> QED
      BY <2>1, <2>2 DEF OrderIsSigned, DistinctSigners
  <1>2. ASSUME NEW p \in Payload, NEW copies \in 1..2, DropOrder(p, copies)
        PROVE  QuorumInv' /\ left' = left
    BY <1>2, DroppedIsSigned DEF DropOrder
  <1>3. ASSUME NEW recorded \in BOOLEAN, Poll(recorded)
        PROVE  QuorumInv'
    <2>1. PICK o \in order :
            left' = IF o.payload.action = "halt" THEN Effective(o.payload.dur) ELSE 0
      BY <1>3 DEF Poll
    <2>2. o.payload.dur \in Nat
      BY HaltConstants DEF OrderIsSigned, Payload
    <2>3. Effective(o.payload.dur) \in Nat
      BY <2>2, HaltConstants DEF Effective
    <2>4. left' \in Nat
      BY <2>1, <2>3
    <2>5. OrderIsSigned'
      BY <1>3 DEF Poll, OrderIsSigned, SignersOf, DistinctSigners
    <2> QED
      BY <2>4, <2>5
  <1>4. ASSUME Time \/ Crash \/ Start \/ UNCHANGED vars
        PROVE  QuorumInv' /\ left' <= left
    <2>1. order' = order /\ signed' = signed /\ left' \in Nat /\ left' <= left
      BY <1>4 DEF Time, Crash, Start, vars
    <2>2. OrderIsSigned'
      BY <2>1 DEF OrderIsSigned, SignersOf, DistinctSigners
    <2> QED
      BY <2>1, <2>2
  <1>5. ASSUME NEW recorded \in BOOLEAN, Poll(recorded), left' > left
        PROVE  Authorised(left')
    BY <1>5, PolledByQuorum
  <1>6. CASE Next
    <2> USE <1>6 DEF Next
    <2>1. QuorumInv'
      BY <1>1, <1>2, <1>3, <1>4
    <2>2. ASSUME left' > left PROVE Authorised(left')
      BY <1>1, <1>2, <1>4, <1>5, <2>2
    <2> QED
      BY <2>1, <2>2
  <1> QED
    BY <1>4, <1>6

(* GuardianSet.distinct_signers: the pool never halts, and no halt is ever  *)
(* extended, on less than a quorum of different guardians.                  *)
THEOREM QuorumHalts == Spec => HaltedByQuorum
  <1>1. Init => QuorumInv
    BY DEF Init, QuorumInv, OrderIsSigned
  <1>2. QuorumInv /\ [Next]_vars => QuorumInv'
    BY NextQuorum
  <1>3. QuorumInv /\ [Next]_vars => [left' > left => Authorised(left')]_vars
    BY NextQuorum
  <1>4. QuorumInv /\ [Next]_vars =>
          [left' > left =>
             \E e \in Epochs, d \in Durations :
               /\ left' = Effective(d)
               /\ Cardinality(SignersOf([action |-> "halt", epoch |-> e, dur |-> d])
                                \cap Guardians) >= Threshold]_vars
    BY <1>3 DEF Authorised
  <1> QED
    BY <1>1, <1>2, <1>4, PTL DEF Spec, HaltedByQuorum
=============================================================================
