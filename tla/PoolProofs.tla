----------------------------- MODULE PoolProofs -----------------------------
(***************************************************************************)
(* Proofs about PoolCoordinator, for every set of records, stores,         *)
(* verifiers and validators and every number of rounds and restarts.       *)
(*                                                                         *)
(*   NoneWaitsLonger   WaitBounded: the queue is a sequence of typed       *)
(*                     entries, none past the cap (QueueInv).              *)
(*   SignedComesFirst  SquatterYields: what a poll appends is of one view. *)
(*   MergesAreVouched  HonestVouched, under FewLiars: who stays in a batch *)
(*                     and all that is merged has an acceptance among what *)
(*                     honest verifiers signed (VouchInv).                 *)
(*   PaysOnce          PaidOnce and ChainVerifies, without a hypothesis.   *)
(*   PaymentsAreRight  PaidRight, under OwnSigned and SharesWhole: the     *)
(*                     books (chain, paid cids, cid of each block) and the *)
(*                     trunk (its merges, the drop of the loss), live and  *)
(*                     in the checkpoint (BooksInv).                       *)
(*                                                                         *)
(* The sums and the payments of a batch are folds over finite sets; what   *)
(* is needed of them is proved by a least set that would be a              *)
(* counterexample.                                                         *)
(***************************************************************************)
EXTENDS PoolCoordinator, TLAPS, FiniteSetTheorems, NaturalsInduction, WellFoundedInduction

-----------------------------------------------------------------------------
(* What is polled and queued.                                                               *)

QueueType == queue \in Seq([rec : Records, age : Nat])

QueueInv == QueueType /\ WaitBounded

\* What a poll queues is records, each once.
LEMMA PolledAre ==
  ASSUME NEW S, S \subseteq Records, NEW new \in SetToSeqs(S)
  PROVE  /\ new \in Seq(Records)
         /\ \A i \in DOMAIN new : new[i] \in S
         /\ \A i, j \in DOMAIN new : new[i] = new[j] => i = j
  <1>1. Cardinality(S) \in Nat
    BY FS_Subset, FS_CardinalityType, PoolConstants
  <1>2. /\ new \in [1 .. Cardinality(S) -> S]
        /\ \A i, j \in 1 .. Cardinality(S) : i # j => new[i] # new[j]
    BY DEF SetToSeqs, IsInjective
  <1>3. \A i \in 1 .. Cardinality(S) : new[i] \in Records
    BY <1>2
  <1>4. new \in [1 .. Cardinality(S) -> Records]
    BY <1>2, <1>3
  <1>5. new \in Seq(Records)
    BY <1>1, <1>4
  <1> QED
    BY <1>2, <1>5

\* Every step either polls or shortens, ages or keeps the queue.
LEMMA QueueSteps ==
  ASSUME QueueInv, [Next]_vars
  PROVE  \/ UNCHANGED queue
         \/ queue' = <<>>
         \/ \E up \in SUBSET Stores, fetched \in SUBSET Cids : Poll(up, fetched)
         \/ Tick
         \/ Gather
  BY DEF Next, vars, Publish, Vote, MergeAndPay, Checkpoint, Restart

\* A view holds records of the stores, one of each cid, unsigned only if none is signed.
LEMMA ViewOf ==
  ASSUME NEW up, NEW view \in PollContribRecords(up)
  PROVE  /\ view \subseteq Records
         /\ \A r, q \in view : r.cid = q.cid => r = q
         /\ \A r \in view : ~SigOk(r) =>
              \E s \in IF RegistryPosture = "enforce" THEN RegistryStores ELSE {Primary} :
                ~SignedFor(r.cid, s)
  <1> DEFINE at == IF RegistryPosture = "enforce" THEN RegistryStores ELSE {Primary}
             recs == UNION {PollOneStore(s) : s \in up \cap at}
  <1>1. view \in DedupPreferSigned(recs)
    <2>1. CASE RegistryPosture = "enforce"
      BY <2>1 DEF PollContribRecords
    <2>2. CASE RegistryPosture # "enforce"
      <3>1. recs = IF Primary \in up THEN PollOneStore(Primary) ELSE {}
        BY <2>2
      <3> QED
        BY <2>2, <3>1 DEF PollContribRecords
    <2> QED
      BY <2>1, <2>2
  <1>2. recs \subseteq Records
    BY DEF PollOneStore
  <1>3. /\ view \subseteq recs
        /\ \A r, q \in view : r.cid = q.cid => r = q
        /\ \A r \in view : ~SigOk(r) => \A q \in recs : q.cid = r.cid => ~SigOk(q)
    BY <1>1 DEF DedupPreferSigned
  <1>4. ASSUME NEW r \in view, ~SigOk(r), NEW s \in up \cap at, r \in PollOneStore(s)
        PROVE  ~SignedFor(r.cid, s)
    <2> SUFFICES ASSUME NEW q \in Records, q.cid = r.cid, SigOk(q), store[s][q.name] = {q}
                 PROVE  FALSE
      BY DEF SignedFor
    <2>1. q \in PollOneStore(s)
      BY DEF PollOneStore
    <2>2. q \in recs
      BY <1>4, <2>1
    <2> QED
      BY <1>3, <1>4, <2>2
  <1>5. ASSUME NEW r \in view, ~SigOk(r)
        PROVE  \E s \in at : ~SignedFor(r.cid, s)
    <2>1. PICK s \in up \cap at : r \in PollOneStore(s)
      BY <1>3
    <2> QED
      BY <1>4, <1>5, <2>1
  <1> QED
    BY <1>2, <1>3, <1>5

\* A poll appends new records of one view, of age 0.
LEMMA PollAppends ==
  ASSUME QueueType, NEW up, NEW fetched, Poll(up, fetched)
  PROVE  \E view \in PollContribRecords(up), new \in Seq(Records) :
           /\ queue' = queue \o [i \in DOMAIN new |-> [rec |-> new[i], age |-> 0]]
           /\ seen' = seen \cup {new[i].cid : i \in DOMAIN new}
           /\ \A i \in DOMAIN new : new[i] \in view /\ new[i].cid \notin seen
           /\ \A i, j \in DOMAIN new : new[i] = new[j] => i = j
  <1>0. PICK view \in PollContribRecords(up) :
          \E new \in SetToSeqs({r \in view : r.cid \in fetched \ seen /\ CorpusShaOk(r)}) :
            /\ seen' = seen \cup {new[i].cid : i \in DOMAIN new}
            /\ queue' = queue \o [i \in DOMAIN new |-> [rec |-> new[i], age |-> 0]]
    BY DEF Poll
  <1>1. PICK new \in SetToSeqs({r \in view : r.cid \in fetched \ seen /\ CorpusShaOk(r)}) :
          /\ seen' = seen \cup {new[i].cid : i \in DOMAIN new}
          /\ queue' = queue \o [i \in DOMAIN new |-> [rec |-> new[i], age |-> 0]]
    BY <1>0
  <1> DEFINE S == {r \in view : r.cid \in fetched \ seen /\ CorpusShaOk(r)}
  <1>2. S \subseteq Records
    BY ViewOf
  <1>3. /\ new \in Seq(Records)
        /\ \A i \in DOMAIN new : new[i] \in S
        /\ \A i, j \in DOMAIN new : new[i] = new[j] => i = j
    <2> HIDE DEF S
    <2>1. new \in SetToSeqs(S)
      BY <1>1 DEF S
    <2> QED
      BY <1>2, <2>1, PolledAre
  <1>4. \A i \in DOMAIN new : new[i] \in view /\ new[i].cid \notin seen
    BY <1>3
  <1> QED
    BY <1>1, <1>3, <1>4

\* What stands in the queue after a poll.
LEMMA Appended ==
  ASSUME QueueType, NEW new \in Seq(Records),
         queue' = queue \o [i \in DOMAIN new |-> [rec |-> new[i], age |-> 0]]
  PROVE  /\ queue' \in Seq([rec : Records, age : Nat])
         /\ Len(queue) \in Nat /\ Len(new) \in Nat
         /\ DOMAIN queue = 1 .. Len(queue) /\ DOMAIN new = 1 .. Len(new)
         /\ DOMAIN queue' = 1 .. Len(queue) + Len(new) /\ Len(queue') = Len(queue) + Len(new)
         /\ \A i \in 1 .. Len(queue) : queue'[i] = queue[i]
         /\ \A i \in Len(queue) + 1 .. Len(queue) + Len(new) :
              /\ i - Len(queue) \in 1 .. Len(new)
              /\ queue'[i] = [rec |-> new[i - Len(queue)], age |-> 0]
  <1> DEFINE E == [rec : Records, age : Nat]
             more == [i \in DOMAIN new |-> [rec |-> new[i], age |-> 0]]
  <1>1. /\ queue \in Seq(E) /\ Len(queue) \in Nat /\ DOMAIN queue = 1 .. Len(queue)
        /\ Len(new) \in Nat /\ DOMAIN new = 1 .. Len(new)
    BY DEF QueueType
  <1>2. /\ more \in Seq(E) /\ Len(more) = Len(new)
        /\ \A i \in 1 .. Len(new) : more[i] = [rec |-> new[i], age |-> 0]
    <2>1. more \in [1 .. Len(new) -> E]
      BY <1>1
    <2> QED
      BY <1>1, <2>1
  <1> HIDE DEF E, more
  <1>3. queue' = queue \o more
    BY DEF more
  <1>4. /\ queue' \in Seq(E) /\ Len(queue') = Len(queue) + Len(new)
        /\ DOMAIN queue' = 1 .. Len(queue')
        /\ \A i \in 1 .. Len(queue) : queue'[i] = queue[i]
        /\ \A i \in Len(queue) + 1 .. Len(queue) + Len(new) : queue'[i] = more[i - Len(queue)]
    <2>1. \A s, t \in Seq(E) :
            /\ s \o t \in Seq(E) /\ Len(s \o t) = Len(s) + Len(t)
            /\ DOMAIN (s \o t) = 1 .. Len(s \o t)
      OBVIOUS
    <2>2. \A s, t \in Seq(E) : \A i \in 1 .. Len(s) + Len(t) :
            (s \o t)[i] = IF i <= Len(s) THEN s[i] ELSE t[i - Len(s)]
      OBVIOUS
    <2>3. /\ queue' \in Seq(E) /\ Len(queue') = Len(queue) + Len(more)
          /\ DOMAIN queue' = 1 .. Len(queue')
      BY ONLY <1>1, <1>2, <1>3, <2>1
    <2>4. \A i \in 1 .. Len(queue) + Len(more) :
            queue'[i] = IF i <= Len(queue) THEN queue[i] ELSE more[i - Len(queue)]
      BY ONLY <1>1, <1>2, <1>3, <2>2
    <2> DEFINE m == Len(queue)
               k == Len(new)
    <2>5. m \in Nat /\ k \in Nat /\ Len(more) = k
      BY <1>1, <1>2
    <2> HIDE DEF m, k
    <2>6. \A i \in 1 .. m : i \in 1 .. m + k /\ i <= m
      BY ONLY <2>5
    <2>7. \A i \in m + 1 .. m + k : i \in 1 .. m + k /\ ~(i <= m)
      BY ONLY <2>5
    <2>8. \A i \in 1 .. m + k : queue'[i] = IF i <= m THEN queue[i] ELSE more[i - m]
      BY ONLY <2>4, <2>5 DEF m, k
    <2>9. \A i \in 1 .. m : queue'[i] = queue[i]
      BY ONLY <2>6, <2>8
    <2>10. \A i \in m + 1 .. m + k : queue'[i] = more[i - m]
      BY ONLY <2>7, <2>8
    <2> QED
      BY ONLY <1>2, <2>3, <2>9, <2>10 DEF m, k
  <1>5. \A i \in Len(queue) + 1 .. Len(queue) + Len(new) : i - Len(queue) \in 1 .. Len(new)
    BY ONLY <1>1
  <1> QED
    BY <1>1, <1>2, <1>4, <1>5 DEF E

\* The first of the queue leave it in a batch.
LEMMA Gathered ==
  ASSUME QueueType, Gather
  PROVE  /\ BatchSize \in 0 .. Len(queue)
         /\ queue' \in Seq([rec : Records, age : Nat])
         /\ Len(queue') = Len(queue) - BatchSize
         /\ \A i \in 1 .. Len(queue') : queue'[i] = queue[i + BatchSize]
  <1> DEFINE E == [rec : Records, age : Nat]
  <1>1. Len(queue) \in Nat /\ queue \in Seq(E)
    BY DEF QueueType
  <1> HIDE DEF E
  <1>2. BatchSize \in 0 .. Len(queue)
    <2>1. BatchMax \in Nat
      BY PoolConstants
    <2> QED
      BY ONLY <1>1, <2>1 DEF BatchSize
  <1>3. queue' = SubSeq(queue, BatchSize + 1, Len(queue))
    BY DEF Gather
  <1>4. \A k \in 0 .. Len(queue) :
          /\ SubSeq(queue, k + 1, Len(queue)) \in Seq(E)
          /\ Len(SubSeq(queue, k + 1, Len(queue))) = Len(queue) - k
          /\ \A i \in 1 .. Len(queue) - k : SubSeq(queue, k + 1, Len(queue))[i] = queue[i + k]
    BY ONLY <1>1
  <1> QED
    BY ONLY <1>2, <1>3, <1>4 DEF E

LEMMA QueueStep ==
  ASSUME QueueInv, [Next]_vars
  PROVE  QueueInv'
  <1>1. CASE UNCHANGED queue
    BY <1>1 DEF QueueInv, QueueType, WaitBounded
  <1>2. CASE queue' = <<>>
    BY <1>2 DEF QueueInv, QueueType, WaitBounded
  <1>3. ASSUME NEW up, NEW fetched, Poll(up, fetched) PROVE QueueInv'
    <2>1. PICK new \in Seq(Records) :
            queue' = queue \o [i \in DOMAIN new |-> [rec |-> new[i], age |-> 0]]
      BY <1>3, PollAppends DEF QueueInv
    <2>2. QueueType'
      BY <2>1, Appended DEF QueueInv, QueueType
    <2>3. ASSUME NEW i \in DOMAIN queue' PROVE queue'[i].age <= GraceMaxS
      <3>1. CASE i \in 1 .. Len(queue)
        BY <2>1, <3>1, Appended DEF QueueInv, WaitBounded
      <3>2. CASE i \in Len(queue) + 1 .. Len(queue) + Len(new)
        BY <2>1, <3>2, Appended, PoolConstants DEF QueueInv
      <3>3. i \in 1 .. Len(queue) \/ i \in Len(queue) + 1 .. Len(queue) + Len(new)
        <4>1. i \in 1 .. Len(queue) + Len(new) /\ Len(queue) \in Nat /\ Len(new) \in Nat
          BY <2>1, <2>3, Appended DEF QueueInv
        <4> QED
          BY <4>1
      <3> QED
        BY <3>1, <3>2, <3>3
    <2> QED
      BY <2>2, <2>3 DEF QueueInv, WaitBounded
  <1>4. CASE Tick
    <2>1. \A i \in DOMAIN queue : queue[i].age < GraceMaxS
      <3>1. \A a \in Ages : a < GraceMaxS
        BY <1>4 DEF Tick, Defers
      <3> QED
        BY <3>1 DEF Ages
    <2>5. /\ DOMAIN queue' = DOMAIN queue
          /\ \A i \in DOMAIN queue : queue'[i] = [queue[i] EXCEPT !.age = @ + 1]
      BY <1>4 DEF Tick
    <2>2. \A i \in DOMAIN queue : queue[i] \in [rec : Records, age : Nat]
      <3> DEFINE E == [rec : Records, age : Nat]
      <3>1. queue \in Seq(E)
        BY DEF QueueInv, QueueType
      <3> HIDE DEF E
      <3>2. \A i \in DOMAIN queue : queue[i] \in E
        BY ONLY <3>1
      <3> QED
        BY <3>2 DEF E
    <2>3. ASSUME NEW i \in DOMAIN queue
          PROVE  queue'[i] \in [rec : Records, age : Nat] /\ queue'[i].age <= GraceMaxS
      <3>1. GraceMaxS \in Nat /\ queue[i].age < GraceMaxS /\ queue[i].age \in Nat
        BY <2>1, <2>2, PoolConstants
      <3>2. queue'[i] = [queue[i] EXCEPT !.age = @ + 1]
        BY <2>5
      <3> QED
        BY <2>2, <3>1, <3>2
    <2>4. queue' \in Seq([rec : Records, age : Nat])
      <3>1. DOMAIN queue = 1 .. Len(queue) /\ Len(queue) \in Nat
        BY DEF QueueInv, QueueType
      <3> DEFINE E == [rec : Records, age : Nat]
      <3>2. queue' \in [1 .. Len(queue) -> E]
        BY <1>4, <2>3, <3>1 DEF Tick
      <3> HIDE DEF E
      <3>3. queue' \in Seq(E)
        BY ONLY <3>1, <3>2
      <3> QED
        BY <3>3 DEF E
    <2> QED
      BY <2>3, <2>4, <2>5 DEF QueueInv, QueueType, WaitBounded
  <1>5. CASE Gather
    <2>1. QueueType' /\ DOMAIN queue' = 1 .. Len(queue')
      BY <1>5, Gathered DEF QueueInv, QueueType
    <2>2. ASSUME NEW i \in 1 .. Len(queue') PROVE queue'[i].age <= GraceMaxS
      <3>1. /\ queue'[i] = queue[i + BatchSize] /\ BatchSize \in 0 .. Len(queue)
            /\ Len(queue') = Len(queue) - BatchSize
        BY <1>5, Gathered DEF QueueInv
      <3>2. i + BatchSize \in DOMAIN queue
        BY <3>1 DEF QueueInv, QueueType
      <3> QED
        BY <3>1, <3>2 DEF QueueInv, WaitBounded
    <2> QED
      BY <2>1, <2>2 DEF QueueInv, WaitBounded
  <1> QED
    BY <1>1, <1>2, <1>3, <1>4, <1>5, QueueSteps

LEMMA QueueHolds == Spec => []QueueInv
  <1>1. Init => QueueInv
    BY DEF Init, QueueInv, QueueType, WaitBounded
  <1>2. QueueInv /\ [Next]_vars => QueueInv'
    BY QueueStep
  <1> QED
    BY <1>1, <1>2, PTL DEF Spec

(* No candidate waits for company past the cap (gather_batch), however the   *)
(* arrivals drip in, for every window, cap and batch size.                   *)
THEOREM NoneWaitsLonger == Spec => []WaitBounded
  <1>1. QueueInv => WaitBounded
    BY DEF QueueInv
  <1> QED
    BY <1>1, QueueHolds, PTL

(* A squatter's unsigned record is queued for a cid only while some store of *)
(* the registry lacks a signed one (_dedup_prefer_signed), for every set of  *)
(* records, every number of stores and every one of them out of reach.       *)
THEOREM SignedComesFirst == Spec => SquatterYields
  <1> DEFINE at == IF RegistryPosture = "enforce" THEN RegistryStores ELSE {Primary}
             A == \A i \in DOMAIN queue' :
                    (Len(queue') > Len(queue) /\ i > Len(queue) /\ ~SigOk(queue'[i].rec)) =>
                      \E s \in at : ~SignedFor(queue'[i].rec.cid, s)
  <1>1. ASSUME QueueInv, [Next]_vars PROVE [A]_vars
    <2> SUFFICES ASSUME Len(queue') > Len(queue), NEW i \in DOMAIN queue', i > Len(queue),
                        ~SigOk(queue'[i].rec)
                 PROVE  \E s \in at : ~SignedFor(queue'[i].rec.cid, s)
      OBVIOUS
    <2>1. Len(queue) \in Nat
      BY <1>1 DEF QueueInv, QueueType
    <2>2. ASSUME NEW up, NEW fetched, Poll(up, fetched)
          PROVE  \E s \in at : ~SignedFor(queue'[i].rec.cid, s)
      <3>1. PICK view \in PollContribRecords(up), new \in Seq(Records) :
              /\ queue' = queue \o [j \in DOMAIN new |-> [rec |-> new[j], age |-> 0]]
              /\ \A j \in DOMAIN new : new[j] \in view
        BY <1>1, <2>2, PollAppends DEF QueueInv
      <3>2. i \in Len(queue) + 1 .. Len(queue) + Len(new)
        <4>1. i \in 1 .. Len(queue) + Len(new) /\ Len(new) \in Nat
          BY <1>1, <3>1, Appended DEF QueueInv
        <4> QED
          BY <2>1, <4>1
      <3>3. queue'[i].rec = new[i - Len(queue)] /\ i - Len(queue) \in DOMAIN new
        BY <1>1, <3>1, <3>2, Appended DEF QueueInv
      <3>4. queue'[i].rec \in view
        BY <3>1, <3>3
      <3> QED
        BY <3>4, ViewOf
    <2>3. CASE Tick
      <3>1. DOMAIN queue' = DOMAIN queue /\ DOMAIN queue = 1 .. Len(queue)
        BY <1>1, <2>3 DEF Tick, QueueInv, QueueType
      <3> QED
        BY <2>1, <3>1
    <2>4. ~Gather
      BY <1>1, <2>1, Gathered DEF QueueInv
    <2> QED
      BY <1>1, <2>1, <2>2, <2>3, <2>4, QueueSteps
  <1>2. SquatterYields <=> [][A]_vars
    BY DEF SquatterYields
  <1> QED
    BY <1>1, <1>2, QueueHolds, PTL DEF Spec-----------------------------------------------------------------------------
(* What a merge credits.                                                     *)

\* A family of subsets of a finite set that is not empty has a least one.
LEMMA LeastSet ==
  ASSUME NEW S, IsFiniteSet(S), NEW F, F \subseteq SUBSET S, F # {}
  PROVE  \E T \in F : \A U \in F : U \subseteq T => U = T
  <1> DEFINE R == StrictSubsetOrdering(S)
  <1>1. IsWellFoundedOn(R, SUBSET S)
    BY FS_StrictSubsetOrderingWellFounded, FS_FiniteSubsetsOfFinite
  <1>2. PICK T \in F : \A U \in F : ~(<<U, T>> \in R)
    BY <1>1, WFMin
  <1>3. ASSUME NEW U \in F, U \subseteq T, U # T PROVE FALSE
    BY <1>2, <1>3 DEF StrictSubsetOrdering
  <1> QED
    BY <1>2, <1>3

\* Some candidate of a batch gains the most.
LEMMA BestExists ==
  ASSUME NEW S, IsFiniteSet(S), S # {}, \A c \in S : c.gain \in Int
  PROVE  \E b \in S : \A c \in S : c.gain <= b.gain
  <1> DEFINE HasBest(T) == \E b \in T : \A c \in T : c.gain <= b.gain
             bad == {T \in SUBSET S : T # {} /\ ~HasBest(T)}
  <1>1. SUFFICES ASSUME bad # {} PROVE FALSE
    BY <1>1
  <1>2. PICK T \in bad : \A W \in bad : W \subseteq T => W = T
    <2>1. bad \subseteq SUBSET S
      OBVIOUS
    <2> HIDE DEF bad
    <2> QED
      BY <1>1, <2>1, LeastSet
  <1>3. T \subseteq S /\ T # {} /\ ~HasBest(T)
    BY <1>2
  <1>4. PICK x \in T : TRUE
    BY <1>3
  <1>5. x.gain \in Int
    BY <1>3
  <1>6. CASE T \ {x} = {}
    <2>1. \A c \in T : c.gain <= x.gain
      BY <1>5, <1>6
    <2> QED
      BY <1>3, <1>4, <2>1
  <1>7. CASE T \ {x} # {}
    <2>1. HasBest(T \ {x})
      <3>1. T \ {x} \in SUBSET S /\ T \ {x} \subseteq T /\ T \ {x} # T
        BY <1>3, <1>4
      <3>2. T \ {x} \notin bad
        BY <1>2, <3>1
      <3> HIDE DEF HasBest
      <3> QED
        BY <1>7, <3>1, <3>2
    <2>2. PICK b \in T \ {x} : \A c \in T \ {x} : c.gain <= b.gain
      BY <2>1
    <2>3. b.gain \in Int /\ b \in T
      BY <1>3
    <2>4. CASE x.gain <= b.gain
      <3>1. \A c \in T : c.gain <= b.gain
        BY <2>2, <2>4
      <3> QED
        BY <1>3, <2>3, <3>1
    <2>5. CASE ~(x.gain <= b.gain)
      <3>1. \A c \in T : c.gain <= x.gain
        <4> SUFFICES ASSUME NEW c \in T PROVE c.gain <= x.gain
          OBVIOUS
        <4>1. c.gain \in Int
          BY <1>3
        <4>2. CASE c = x
          BY <1>5, <4>2
        <4>3. CASE c # x
          <5>1. c.gain <= b.gain
            BY <2>2, <4>3
          <5> QED
            BY ONLY <1>5, <2>3, <2>5, <4>1, <5>1
        <4> QED
          BY <4>2, <4>3
      <3> QED
        BY <1>3, <3>1
    <2> QED
      BY <2>4, <2>5
  <1> QED
    BY <1>6, <1>7

Candidates == [rec : Records, gain : Int, vote : {"none", "stays", "vetoed"}]

Best(pos) == CHOOSE c \in pos : \A d \in pos : d.gain <= c.gain

\* The best of those that help is one of them.
LEMMA BestOf ==
  ASSUME NEW cands, cands \subseteq Candidates, IsFiniteSet(cands), Positive(cands) # {}
  PROVE  /\ Best(Positive(cands)) \in Positive(cands)
         /\ \A d \in Positive(cands) : d.gain <= Best(Positive(cands)).gain
  <1> DEFINE pos == Positive(cands)
  <1>1. pos \subseteq cands /\ IsFiniteSet(pos)
    BY FS_Subset DEF Positive
  <1>2. \A c \in pos : c.gain \in Int
    BY <1>1 DEF Candidates
  <1> HIDE DEF pos
  <1>3. pos # {}
    BY DEF pos
  <1>4. \E b \in pos : \A c \in pos : c.gain <= b.gain
    BY ONLY <1>1, <1>2, <1>3, BestExists
  <1>5. Best(pos) \in pos /\ \A d \in pos : d.gain <= Best(pos).gain
    BY ONLY <1>4 DEF Best
  <1> QED
    BY <1>5 DEF pos

\* Only candidates of the batch are credited.
LEMMA CreditsOf ==
  ASSUME NEW cands, cands \subseteq Candidates, IsFiniteSet(cands),
         NEW res \in MergeResults(cands), NEW g \in res.gains
  PROVE  \E c \in cands : g.cid = c.rec.cid
  <1> DEFINE pos == Positive(cands)
  <1>1. pos \subseteq cands
    BY DEF Positive
  <1>2. pos # {}
    BY DEF MergeResults
  <1>3. ASSUME NEW t, res = Combined(cands, t) PROVE \E c \in cands : g.cid = c.rec.cid
    BY <1>1, <1>3 DEF Combined
  <1>4. ASSUME NEW then, res = SerialFallback(cands, then) PROVE \E c \in cands : g.cid = c.rec.cid
    <2>1. res.gains = {[cid |-> Best(pos).rec.cid, gain |-> Best(pos).gain]} \cup
                      {[cid |-> c.rec.cid, gain |-> then[c.rec.cid]] :
                         c \in {d \in pos \ {Best(pos)} : then[d.rec.cid] > 0}}
      BY <1>4 DEF SerialFallback, Best
    <2>2. Best(pos) \in cands
      BY <1>1, <1>2, BestOf
    <2> HIDE DEF pos
    <2> QED
      BY <1>1, <2>1, <2>2
  <1> QED
    BY <1>2, <1>3, <1>4 DEF MergeResults-----------------------------------------------------------------------------
(* Who vouches for what is merged.                                           *)

\* A majority of a large enough cohort holds an honest verifier.
LEMMA HonestAmong ==
  ASSUME FewLiars, NEW S \in Cohorts, Cardinality(S) >= MinCohort,
         NEW atts, Aggregate(atts, S).accepted
  PROVE  \E a \in atts : a.accepted /\ a.by \in S \ Liars
  <1> DEFINE yes == {a.by : a \in {b \in atts : b.accepted}} \cap S
  <1>1. Cardinality(yes) >= Cardinality(S) \div 2 + 1
    BY DEF Aggregate
  <1>2. IsFiniteSet(S)
    BY FS_Subset, PoolConstants, SettlementConstants
  <1> SUFFICES ASSUME \A a \in atts : a.accepted => a.by \notin S \ Liars PROVE FALSE
    OBVIOUS
  <1>3. yes \subseteq S \cap Liars
    OBVIOUS
  <1>4. IsFiniteSet(S \cap Liars)
    BY <1>2, FS_Subset
  <1> HIDE DEF yes
  <1>5. /\ Cardinality(yes) <= Cardinality(S \cap Liars)
        /\ Cardinality(yes) \in Nat /\ Cardinality(S \cap Liars) \in Nat
    BY <1>3, <1>4, FS_Subset, FS_CardinalityType
  <1>6. Cardinality(S) \div 2 + 1 \in Int
    BY <1>2, FS_CardinalityType
  <1>7. Cardinality(S \cap Liars) < Cardinality(S) \div 2 + 1
    BY DEF FewLiars
  <1> QED
    BY ONLY <1>1, <1>5, <1>6, <1>7

\* What a function makes of a finite set is finite.
LEMMA ImageFinite ==
  ASSUME NEW S, IsFiniteSet(S), NEW f
  PROVE  IsFiniteSet({f[x] : x \in S})
  <1> DEFINE T == {f[x] : x \in S}
             g == [x \in S |-> f[x]]
  <1>1. g \in Surjection(S, T)
    BY DEF Surjection
  <1> QED
    BY <1>1, FS_Surjection

VouchedIn(sigs, cid, r) ==
  \E s \in sigs : s.accepted /\ s.beacon.cid = cid /\ s.beacon.round = r

BatchType == IsFiniteSet(batch) /\ batch \subseteq Candidates

VouchInv ==
  /\ QueueInv /\ BatchType
  /\ (CommitteeMode = "enforce" /\ Strict) =>
       /\ \A c \in batch : c.vote = "stays" => VouchedIn(signed, c.rec.cid, round)
       /\ \A m \in merged \cup ckpt.merged :
            \E s \in signed : s.accepted /\ s.beacon.cid = m.cid /\ s.beacon.round + 1 = m.round

\* A batch stays one of candidates.
LEMMA BatchStep ==
  ASSUME QueueType, BatchType, [Next]_vars
  PROVE  BatchType'
  <1>1. CASE UNCHANGED batch
    BY <1>1 DEF BatchType
  <1>2. CASE batch' = {}
    BY <1>2, FS_EmptySet DEF BatchType
  <1>3. CASE Gather
    <2> DEFINE cand(i) == [rec |-> queue[i].rec, gain |-> 0, vote |-> "none"]
    <2>1. BatchSize \in 0 .. Len(queue) /\ batch' = {cand(i) : i \in 1 .. BatchSize}
      BY <1>3, Gathered DEF Gather
    <2>2. \A i \in 1 .. BatchSize : queue[i].rec \in Records
      <3> DEFINE E == [rec : Records, age : Nat]
      <3>1. queue \in Seq(E)
        BY DEF QueueType
      <3> HIDE DEF E
      <3>2. \A i \in 1 .. BatchSize : queue[i] \in E
        BY ONLY <2>1, <3>1
      <3> QED
        BY <3>2 DEF E
    <2>3. \A i \in 1 .. BatchSize : cand(i) \in Candidates
      BY <2>2 DEF Candidates
    <2>4. IsFiniteSet(1 .. BatchSize)
      BY <2>1, FS_Interval DEF QueueType
    <2>5. IsFiniteSet({cand(i) : i \in 1 .. BatchSize})
      <3> DEFINE f == [i \in 1 .. BatchSize |-> cand(i)]
      <3>1. IsFiniteSet({f[i] : i \in 1 .. BatchSize})
        BY <2>4, ImageFinite
      <3> QED
        BY <3>1
    <2> QED
      BY <2>1, <2>3, <2>5 DEF BatchType
  <1>4. ASSUME NEW c \in batch, NEW gain \in Gains, NEW vote \in {"stays", "vetoed"},
               batch' = (batch \ {c}) \cup {[c EXCEPT !.gain = gain, !.vote = vote]}
        PROVE  BatchType'
    <2>1. c \in Candidates /\ gain \in Int
      BY PoolConstants DEF BatchType
    <2>2. [c EXCEPT !.gain = gain, !.vote = vote] \in Candidates
      BY <2>1 DEF Candidates
    <2>3. IsFiniteSet(batch \ {c})
      BY FS_Subset DEF BatchType
    <2>4. IsFiniteSet(batch')
      BY <1>4, <2>3, FS_AddElement
    <2> QED
      BY <1>4, <2>2, <2>4 DEF BatchType
  <1>5. ASSUME NEW c \in batch, NEW gain \in Gains, NEW selected, NEW ok, NEW lie, NEW inTime,
               NEW late, Vote(c, gain, selected, inTime, ok, lie, late)
        PROVE  BatchType'
    <2>1. PICK vote \in {"stays", "vetoed"} :
            batch' = (batch \ {c}) \cup {[c EXCEPT !.gain = gain, !.vote = vote]}
      BY <1>5 DEF Vote
    <2> QED
      BY <2>1, <1>4
  <1>6. \/ UNCHANGED batch \/ batch' = {} \/ Gather
        \/ \E c \in batch, gain \in Gains : \E selected, ok, lie, inTime, late :
             Vote(c, gain, selected, inTime, ok, lie, late)
    BY DEF Next, vars, Publish, Poll, Tick, MergeAndPay, Checkpoint, Restart
  <1> QED
    BY <1>1, <1>2, <1>3, <1>5, <1>6
\* What a strict committee lets stay, an honest verifier accepted in this round.
LEMMA StaysVouched ==
  ASSUME FewLiars, CommitteeMode = "enforce", Strict,
         NEW c, NEW gain, NEW selected \in Cohorts, NEW ok, NEW lie, NEW inTime \in SUBSET selected,
         NEW late \in SUBSET signed, Vote(c, gain, selected, inTime, ok, lie, late),
         batch' # (batch \ {c}) \cup {[c EXCEPT !.gain = gain, !.vote = "vetoed"]}
  PROVE  VouchedIn(signed', c.rec.cid, round)
  <1> DEFINE beacon == Beacon(c.rec.cid)
             atts == BoundTo(beacon, Answers(beacon, inTime, ok, lie, late))
             v == Aggregate(atts, selected)
  <1>1. GatedAccept(TRUE, v)
    BY DEF Vote
  <1>2. /\ v.selected_n = Cardinality(selected)
        /\ Cardinality(selected) \in Nat /\ MinCohort \in Nat
    BY FS_Subset, FS_CardinalityType, PoolConstants, SettlementConstants DEF Aggregate
  <1>3. v.accepted /\ ~(v.selected_n < MinCohort)
    BY <1>1 DEF GatedAccept
  <1>4. Cardinality(selected) >= MinCohort
    BY <1>2, <1>3
  <1>5. PICK a \in atts : a.accepted /\ a.by \in selected \ Liars
    BY <1>3, <1>4, HonestAmong
  <1>6. a.beacon = beacon
    BY DEF BoundTo
  <1>7. signed \subseteq signed'
    BY DEF Vote
  <1>8. beacon.cid = c.rec.cid /\ beacon.round = round
    BY DEF Beacon
  <1>9. CASE a \in late
    BY <1>5, <1>6, <1>7, <1>8, <1>9 DEF VouchedIn
  <1>10. ASSUME NEW w \in inTime, a = Attestation(w, beacon, IF w \in Liars THEN lie ELSE ok)
         PROVE  VouchedIn(signed', c.rec.cid, round)
    <2>1. a.by = w /\ a.accepted = IF w \in Liars THEN lie ELSE ok
      BY <1>10 DEF Attestation
    <2>2. ok /\ w \in selected \ Liars
      BY <1>5, <2>1
    <2>3. Attestation(w, beacon, TRUE) \in signed'
      BY <2>2 DEF Vote
    <2>4. Attestation(w, beacon, TRUE).accepted /\ Attestation(w, beacon, TRUE).beacon = beacon
      BY DEF Attestation
    <2> HIDE DEF beacon
    <2> QED
      BY <1>8, <2>3, <2>4 DEF VouchedIn
  <1>11. a \in late \/ \E w \in inTime : a = Attestation(w, beacon, IF w \in Liars THEN lie ELSE ok)
    BY DEF BoundTo, Answers
  <1> QED
    BY <1>9, <1>10, <1>11

\* Signatures are kept, what is merged and checkpointed was in the last state
\* or is what stayed of the batch.
LEMMA MergedSteps ==
  ASSUME QueueType, BatchType, [Next]_vars
  PROVE  /\ signed \subseteq signed'
         /\ \A m \in merged' \cup (ckpt').merged :
              \/ m \in merged \cup ckpt.merged
              \/ m.round = round + 1 /\ \E c \in batch : c.vote = "stays" /\ m.cid = c.rec.cid
  <1> DEFINE Goal ==
         /\ signed \subseteq signed'
         /\ \A m \in merged' \cup (ckpt').merged :
              \/ m \in merged \cup ckpt.merged
              \/ m.round = round + 1 /\ \E c \in batch : c.vote = "stays" /\ m.cid = c.rec.cid
  <1>1. CASE signed \subseteq signed' /\ UNCHANGED <<merged, ckpt>>
    BY <1>1
  <1>2. CASE Checkpoint
    BY <1>2 DEF Checkpoint, Snapshot, disk
  <1>3. CASE Restart
    BY <1>3 DEF Restart
  <1>4. ASSUME NEW answer, MergeAndPay(answer) PROVE Goal
    <2> DEFINE cands == {c \in batch : c.vote = "stays"}
    <2>1. PICK res \in MergeResults(cands) :
            merged' = merged \cup {[cid |-> g.cid, round |-> round + 1, gain |-> g.gain] : g \in res.gains}
      BY <1>4 DEF MergeAndPay
    <2>2. cands \subseteq Candidates /\ IsFiniteSet(cands)
      BY FS_Subset DEF BatchType
    <2>3. \A g \in res.gains : \E c \in cands : g.cid = c.rec.cid
      <3> HIDE DEF cands
      <3> QED
        BY <2>2, CreditsOf
    <2>4. signed' = signed /\ ckpt' = ckpt
      BY <1>4 DEF MergeAndPay
    <2> QED
      BY <2>1, <2>3, <2>4
  <1>5. ASSUME NEW c \in batch, NEW gain \in Gains, NEW selected, NEW ok, NEW lie, NEW inTime,
               NEW late, Vote(c, gain, selected, inTime, ok, lie, late)
        PROVE  signed \subseteq signed' /\ UNCHANGED <<merged, ckpt>>
    BY <1>5 DEF Vote, disk
  <1>6. \/ UNCHANGED <<signed, merged, ckpt>>
        \/ Checkpoint \/ Restart \/ \E answer : MergeAndPay(answer)
        \/ \E c \in batch, gain \in Gains : \E selected, ok, lie, inTime, late :
             Vote(c, gain, selected, inTime, ok, lie, late)
    BY DEF Next, vars, disk, Publish, Poll, Tick, Gather
  <1> QED
    BY <1>1, <1>2, <1>3, <1>4, <1>5, <1>6

LEMMA VouchStep ==
  ASSUME FewLiars, VouchInv, [Next]_vars
  PROVE  VouchInv'
  <1>1. QueueInv' /\ BatchType'
    BY BatchStep, QueueStep DEF VouchInv, QueueInv
  <1> SUFFICES ASSUME CommitteeMode = "enforce", Strict
               PROVE  /\ \A c \in batch' : c.vote = "stays" => VouchedIn(signed', c.rec.cid, round')
                      /\ \A m \in merged' \cup (ckpt').merged :
                           \E s \in signed' : s.accepted /\ s.beacon.cid = m.cid
                                              /\ s.beacon.round + 1 = m.round
    BY <1>1 DEF VouchInv
  <1>2. signed \subseteq signed'
    BY MergedSteps DEF VouchInv, QueueInv
  <1>3. ASSUME NEW m \in merged' \cup (ckpt').merged
        PROVE  \E s \in signed' : s.accepted /\ s.beacon.cid = m.cid /\ s.beacon.round + 1 = m.round
    <2>1. CASE m \in merged \cup ckpt.merged
      BY <1>2, <2>1 DEF VouchInv
    <2>2. ASSUME NEW c \in batch, c.vote = "stays", m.cid = c.rec.cid, m.round = round + 1
          PROVE  \E s \in signed' : s.accepted /\ s.beacon.cid = m.cid /\ s.beacon.round + 1 = m.round
      <3>1. VouchedIn(signed, c.rec.cid, round)
        BY <2>2 DEF VouchInv
      <3> QED
        BY <1>2, <2>2, <3>1 DEF VouchedIn
    <2> QED
      BY <2>1, <2>2, MergedSteps DEF VouchInv, QueueInv
  <1>4. ASSUME NEW c \in batch', c.vote = "stays"
        PROVE  VouchedIn(signed', c.rec.cid, round')
    <2>1. CASE batch' = batch /\ round' = round
      <3>1. VouchedIn(signed, c.rec.cid, round)
        BY <1>4, <2>1 DEF VouchInv
      <3> QED
        BY <1>2, <2>1, <3>1 DEF VouchedIn
    <2>2. CASE batch' = {}
      BY <1>4, <2>2
    <2>3. CASE Gather
      BY <1>4, <2>3 DEF Gather
    <2>4. ASSUME NEW d \in batch, NEW gain \in Gains, NEW selected \in Cohorts, NEW ok, NEW lie,
                 NEW inTime \in SUBSET selected, NEW late \in SUBSET signed,
                 Vote(d, gain, selected, inTime, ok, lie, late)
          PROVE  VouchedIn(signed', c.rec.cid, round')
      <3>1. round' = round
        BY <2>4 DEF Vote, disk
      <3>2. PICK vote \in {"stays", "vetoed"} :
              batch' = (batch \ {d}) \cup {[d EXCEPT !.gain = gain, !.vote = vote]}
        BY <2>4 DEF Vote
      <3>3. CASE c \in batch
        <4>1. VouchedIn(signed, c.rec.cid, round)
          BY <1>4, <3>3 DEF VouchInv
        <4> QED
          BY <1>2, <3>1, <4>1 DEF VouchedIn
      <3>4. CASE c \notin batch
        <4>1. d \in Candidates
          BY DEF VouchInv, BatchType
        <4>2. c = [d EXCEPT !.gain = gain, !.vote = vote]
          BY <1>4, <3>2, <3>4
        <4>3. c.rec = d.rec /\ c.vote = vote
          BY <4>1, <4>2 DEF Candidates
        <4>4. [d EXCEPT !.gain = gain, !.vote = "vetoed"].vote = "vetoed"
          BY <4>1 DEF Candidates
        <4>5. batch' # (batch \ {d}) \cup {[d EXCEPT !.gain = gain, !.vote = "vetoed"]}
          BY <1>4, <3>4, <4>4
        <4>6. VouchedIn(signed', d.rec.cid, round)
          BY <2>4, <4>5, StaysVouched
        <4> QED
          BY <3>1, <4>3, <4>6
      <3> QED
        BY <3>3, <3>4
    <2>5. \/ batch' = batch /\ round' = round
          \/ batch' = {} \/ Gather
          \/ \E d \in batch, gain \in Gains, selected \in Cohorts, ok, lie \in BOOLEAN :
               \E inTime \in SUBSET selected, late \in SUBSET signed :
                 Vote(d, gain, selected, inTime, ok, lie, late)
      <3>1. ASSUME NEW d \in batch, NEW gain \in Gains, NEW selected \in Cohorts,
                   NEW ok \in BOOLEAN, NEW lie \in BOOLEAN, NEW inTime \in SUBSET selected,
                   NEW late \in {{}} \cup {{a} : a \in {s \in signed : s.by \in selected \ inTime}},
                   Vote(d, gain, selected, inTime, ok, lie, late)
            PROVE  late \in SUBSET signed
        OBVIOUS
      <3>2. \/ batch' = batch /\ round' = round
            \/ batch' = {} \/ Gather
            \/ \E d \in batch, gain \in Gains, selected \in Cohorts, ok, lie \in BOOLEAN :
                 \E inTime \in SUBSET selected :
                   \E late \in {{}} \cup {{a} : a \in {s \in signed : s.by \in selected \ inTime}} :
                     Vote(d, gain, selected, inTime, ok, lie, late)
        BY DEF Next, vars, disk, Publish, Poll, Tick, MergeAndPay, Checkpoint, Restart
      <3> QED
        BY <3>1, <3>2
    <2> QED
      BY <2>1, <2>2, <2>3, <2>4, <2>5
  <1> QED
    BY <1>3, <1>4

(* With a strict committee in which the liars are no majority of any cohort  *)
(* that is large enough, whatever is merged was accepted, in that round, by  *)
(* an honest verifier (gated_accept, _bound_to), for every set of verifiers  *)
(* and cohorts, over late answers, lies and restarts.                        *)
THEOREM MergesAreVouched ==
  ASSUME FewLiars
  PROVE  Spec => []HonestVouched
  <1>1. Init => VouchInv
    BY FS_EmptySet DEF Init, VouchInv, QueueInv, QueueType, WaitBounded, BatchType, Snapshot
  <1>2. VouchInv /\ [Next]_vars => VouchInv'
    BY VouchStep
  <1>3. VouchInv => HonestVouched
    BY DEF VouchInv, HonestVouched
  <1> QED
    BY <1>1, <1>2, <1>3, PTL DEF Spec-----------------------------------------------------------------------------
(* Folds.  The sums of the model and the payments of a batch are folds over  *)
(* a finite set; both are Fold below, with the step its first argument tells *)
(* and what it starts from.  What is needed of them is proved by a least set *)
(* that has it not.                                                          *)

RecOf(cid) == (CHOOSE c \in batch : c.rec.cid = cid).rec

Step(p, x, acc) == IF p.kind = "sum" THEN p.of[x] + acc ELSE Pay(acc, x, RecOf(x.cid), p.by)

AnyOne(S) == CHOOSE x \in S : TRUE

IterOn(g, p, S) ==
  g = [T \in SUBSET S |-> IF T = {} THEN p.base ELSE Step(p, AnyOne(T), g[T \ {AnyOne(T)}])]

Fold(p, S) == (CHOOSE g : IterOn(g, p, S))[S]

LEMMA AnyOf == ASSUME NEW S, S # {} PROVE AnyOne(S) \in S
  BY DEF AnyOne

\* Two folds that begin alike and step alike on T.
Alike(e, f, T) ==
  e.base = f.base /\ \A x \in T : \A acc : Step(e, x, acc) = Step(f, x, acc)

LEMMA IterUnique ==
  ASSUME NEW R, NEW S, NEW T, T \subseteq R, T \subseteq S, IsFiniteSet(T),
         NEW e, NEW f, Alike(e, f, T), NEW g, IterOn(g, e, R), NEW h, IterOn(h, f, S)
  PROVE  g[T] = h[T]
  <1> DEFINE bad == {U \in SUBSET T : g[U] # h[U]}
  <1>1. SUFFICES ASSUME bad # {} PROVE FALSE
    OBVIOUS
  <1>2. PICK U \in bad : \A W \in bad : W \subseteq U => W = U
    <2>1. bad \subseteq SUBSET T
      OBVIOUS
    <2> HIDE DEF bad
    <2> QED
      BY <1>1, <2>1, LeastSet
  <1>3. /\ g[U] = IF U = {} THEN e.base ELSE Step(e, AnyOne(U), g[U \ {AnyOne(U)}])
        /\ h[U] = IF U = {} THEN f.base ELSE Step(f, AnyOne(U), h[U \ {AnyOne(U)}])
    BY <1>2 DEF IterOn
  <1>4. e.base = f.base /\ \A x \in T : \A acc : Step(e, x, acc) = Step(f, x, acc)
    BY DEF Alike
  <1>5. U # {}
    BY <1>2, <1>3, <1>4
  <1>6. AnyOne(U) \in U /\ U \ {AnyOne(U)} \notin bad
    BY <1>2, <1>5, AnyOf
  <1>7. g[U \ {AnyOne(U)}] = h[U \ {AnyOne(U)}]
    BY <1>2, <1>6
  <1>8. g[U] # h[U] /\ AnyOne(U) \in T
    BY <1>2, <1>6
  <1>9. \A acc : Step(e, AnyOne(U), acc) = Step(f, AnyOne(U), acc)
    BY <1>4, <1>8
  <1> HIDE DEF bad
  <1>10. h[U] = Step(f, AnyOne(U), h[U \ {AnyOne(U)}]) /\ g[U] = Step(e, AnyOne(U), h[U \ {AnyOne(U)}])
    BY <1>3, <1>5, <1>7
  <1> QED
    BY <1>8, <1>9, <1>10

\* One fold, iterated over two sets, is the same over a part of both.
LEMMA IterAgrees ==
  ASSUME NEW S, NEW T, T \subseteq S, IsFiniteSet(T), NEW f,
         NEW g, IterOn(g, f, S), NEW h, IterOn(h, f, T)
  PROVE  g[T] = h[T]
  <1>1. T \subseteq T /\ f.base = f.base /\ \A x \in T : \A acc : Step(f, x, acc) = Step(f, x, acc)
    OBVIOUS
  <1>2. Alike(f, f, T)
    BY <1>1 DEF Alike
  <1> QED
    BY <1>1, <1>2, IterUnique

LEMMA IterExists ==
  ASSUME NEW S, IsFiniteSet(S), NEW f
  PROVE  \E g : IterOn(g, f, S)
  <1> DEFINE bad == {T \in SUBSET S : ~\E g : IterOn(g, f, T)}
             h(W) == CHOOSE g : IterOn(g, f, W)
             less(W) == W \ {AnyOne(W)}
  <1>1. SUFFICES ASSUME bad # {} PROVE FALSE
    OBVIOUS
  <1>2. PICK T \in bad : \A W \in bad : W \subseteq T => W = T
    <2>1. bad \subseteq SUBSET S
      OBVIOUS
    <2> HIDE DEF bad
    <2> QED
      BY <1>1, <2>1, LeastSet
  <1>3. ASSUME NEW W \in SUBSET T, W # T
        PROVE  IterOn(h(W), f, W)
    BY <1>2, <1>3
  <1> DEFINE val(W) == IF W = {} THEN f.base ELSE Step(f, AnyOne(W), h(less(W))[less(W)])
             g == [W \in SUBSET T |-> val(W)]
  <1>4. ASSUME NEW U \in SUBSET T, U # T
        PROVE  h(U)[U] = val(U)
    <2>1. IterOn(h(U), f, U)
      BY <1>3, <1>4
    <2>2. h(U)[U] = IF U = {} THEN f.base ELSE Step(f, AnyOne(U), h(U)[less(U)])
      <3> DEFINE k == h(U)
      <3>1. k = [W \in SUBSET U |-> IF W = {} THEN f.base ELSE Step(f, AnyOne(W), k[W \ {AnyOne(W)}])]
        BY <2>1 DEF IterOn
      <3> HIDE DEF k
      <3>2. k[U] = IF U = {} THEN f.base ELSE Step(f, AnyOne(U), k[U \ {AnyOne(U)}])
        BY <3>1
      <3> QED
        BY <3>2 DEF k
    <2>3. ASSUME U # {} PROVE h(U)[less(U)] = h(less(U))[less(U)]
      <3>1. less(U) \in SUBSET T /\ less(U) # T /\ less(U) \subseteq U /\ IsFiniteSet(less(U))
        <4>1. AnyOne(U) \in U
          BY <2>3, AnyOf
        <4>2. IsFiniteSet(U \ {AnyOne(U)})
          BY <1>2, FS_Subset
        <4> QED
          BY <1>2, <4>1, <4>2
      <3>2. IterOn(h(less(U)), f, less(U))
        BY <1>3, <3>1
      <3> HIDE DEF h, less
      <3> QED
        BY <2>1, <3>1, <3>2, IterAgrees
    <2> HIDE DEF h, less
    <2> QED
      BY <2>2, <2>3
  <1>5. ASSUME NEW W \in SUBSET T, W # {} PROVE g[less(W)] = h(less(W))[less(W)]
    <2>1. less(W) \in SUBSET T /\ less(W) # T
      BY <1>5, AnyOf
    <2>2. h(less(W))[less(W)] = val(less(W))
      BY <1>4, <2>1
    <2> HIDE DEF h, less, val
    <2> QED
      BY <2>1, <2>2
  <1>6. \A W \in SUBSET T : g[W] = IF W = {} THEN f.base ELSE Step(f, AnyOne(W), g[less(W)])
    <2> TAKE W \in SUBSET T
    <2>1. g[W] = val(W)
      OBVIOUS
    <2> HIDE DEF g, h, less
    <2> QED
      BY <1>5, <2>1
  <1>7. g = [W \in SUBSET T |-> g[W]]
    OBVIOUS
  <1> HIDE DEF g
  <1>8. IterOn(g, f, T)
    BY <1>6, <1>7 DEF IterOn
  <1> QED
    BY <1>2, <1>8

\* The fold over nothing, and over the chosen one and the others.
LEMMA FoldSteps ==
  ASSUME NEW S, IsFiniteSet(S), NEW p
  PROVE  Fold(p, S) = IF S = {} THEN p.base ELSE Step(p, AnyOne(S), Fold(p, S \ {AnyOne(S)}))
  <1> DEFINE h(W) == CHOOSE g : IterOn(g, p, W)
             U == S \ {AnyOne(S)}
  <1>1. IsFiniteSet(U) /\ U \subseteq S
    BY FS_Subset
  <1>2. IterOn(h(S), p, S) /\ IterOn(h(U), p, U)
    BY <1>1, IterExists
  <1>3. Fold(p, S) = h(S)[S] /\ Fold(p, U) = h(U)[U]
    BY DEF Fold
  <1> HIDE DEF h
  <1> HIDE DEF U
  <1>4. h(S)[U] = h(U)[U]
    <2> DEFINE g == h(S)
               k == h(U)
    <2>1. IterOn(g, p, S) /\ IterOn(k, p, U)
      BY <1>2
    <2> HIDE DEF g, k
    <2>2. g[U] = k[U]
      BY ONLY <1>1, <2>1, IterAgrees, ZenonT(60)
    <2> QED
      BY <2>2 DEF g, k
  <1> USE DEF U
  <1>5. h(S)[S] = IF S = {} THEN p.base ELSE Step(p, AnyOne(S), h(S)[U])
    BY <1>2 DEF IterOn
  <1> QED
    BY <1>3, <1>4, <1>5

\* A sum is such a fold.
SumOn(f, S) == MapThenSumSet(LAMBDA x : f[x], S)

Summing(f) == [kind |-> "sum", of |-> f, base |-> 0]

LEMMA SumIsFold ==
  ASSUME NEW f, NEW S
  PROVE  SumOn(f, S) = Fold(Summing(f), S)
  <1> DEFINE P(g) == g = [T \in SUBSET S |-> IF T = {} THEN 0 ELSE f[AnyOne(T)] + g[T \ {AnyOne(T)}]]
  <1>1. SumOn(f, S) = (CHOOSE g : P(g))[S]
    BY DEF SumOn, MapThenSumSet, MapThenFoldSet, AnyOne
  <1>2. \A x, acc : Step(Summing(f), x, acc) = f[x] + acc
    BY DEF Step, Summing
  <1>3. Summing(f).base = 0
    BY DEF Summing
  <1>4. \A g : P(g) <=> IterOn(g, Summing(f), S)
    BY <1>2, <1>3 DEF IterOn
  <1> HIDE DEF P
  <1>5. (CHOOSE g : P(g)) = (CHOOSE g : IterOn(g, Summing(f), S))
    BY <1>4
  <1> QED
    BY <1>1, <1>5 DEF Fold

\* The sum of no summands, and of the chosen one and the others.
LEMMA SumSteps ==
  ASSUME NEW S, IsFiniteSet(S), NEW f
  PROVE  SumOn(f, S) = IF S = {} THEN 0 ELSE f[AnyOne(S)] + SumOn(f, S \ {AnyOne(S)})
  <1>1. Summing(f).base = 0 /\ \A x, acc : Step(Summing(f), x, acc) = f[x] + acc
    BY DEF Step, Summing
  <1>2. \A T : SumOn(f, T) = Fold(Summing(f), T)
    BY SumIsFold
  <1> QED
    BY <1>1, <1>2, FoldSteps

\* The sum over a part of a function is that part's alone.
LEMMA SumSame ==
  ASSUME NEW S, IsFiniteSet(S), NEW e, NEW f, \A x \in S : e[x] = f[x]
  PROVE  SumOn(e, S) = SumOn(f, S)
  <1> DEFINE h(f_) == CHOOSE g : IterOn(g, Summing(f_), S)
  <1>1. IterOn(h(e), Summing(e), S) /\ IterOn(h(f), Summing(f), S)
    BY IterExists
  <1>2. SumOn(e, S) = h(e)[S] /\ SumOn(f, S) = h(f)[S]
    BY SumIsFold DEF Fold
  <1> HIDE DEF h
  <1>3. /\ Summing(e).base = Summing(f).base
        /\ \A x \in S : \A acc : Step(Summing(e), x, acc) = Step(Summing(f), x, acc)
    BY DEF Step, Summing
  <1>4. Alike(Summing(e), Summing(f), S)
    BY <1>3 DEF Alike
  <1> QED
    BY <1>1, <1>2, <1>4, IterUnique

\* A least set for which a statement about its sums fails is not empty, and
\* the statement holds of it without the chosen element.
LEMMA SumNat ==
  ASSUME NEW S, IsFiniteSet(S), NEW f, \A x \in S : f[x] \in Nat
  PROVE  SumOn(f, S) \in Nat
  <1> DEFINE bad == {T \in SUBSET S : SumOn(f, T) \notin Nat}
  <1>1. SUFFICES ASSUME bad # {} PROVE FALSE
    OBVIOUS
  <1>2. PICK T \in bad : \A W \in bad : W \subseteq T => W = T
    <2>1. bad \subseteq SUBSET S
      OBVIOUS
    <2> HIDE DEF bad
    <2> QED
      BY <1>1, <2>1, LeastSet
  <1>3. IsFiniteSet(T)
    BY <1>2, FS_Subset
  <1>4. SumOn(f, T) = IF T = {} THEN 0 ELSE f[AnyOne(T)] + SumOn(f, T \ {AnyOne(T)})
    BY <1>3, SumSteps
  <1>5. T # {} /\ AnyOne(T) \in T /\ f[AnyOne(T)] \in Nat
    BY <1>2, <1>4, AnyOf
  <1>6. SumOn(f, T \ {AnyOne(T)}) \in Nat
    BY <1>2, <1>5
  <1> QED
    BY <1>2, <1>4, <1>5, <1>6

\* Any summand can be taken out.
LEMMA SumWithout ==
  ASSUME NEW S, IsFiniteSet(S), NEW f, \A x \in S : f[x] \in Nat, NEW a \in S
  PROVE  SumOn(f, S) = f[a] + SumOn(f, S \ {a})
  <1> DEFINE Fails(T) == \E x \in T : SumOn(f, T) # f[x] + SumOn(f, T \ {x})
             bad == {T \in SUBSET S : Fails(T)}
  <1>1. SUFFICES ASSUME bad # {} PROVE FALSE
    BY <1>1
  <1>2. PICK T \in bad : \A W \in bad : W \subseteq T => W = T
    <2>1. bad \subseteq SUBSET S
      OBVIOUS
    <2> HIDE DEF bad
    <2> QED
      BY <1>1, <2>1, LeastSet
  <1>3. PICK b \in T : SumOn(f, T) # f[b] + SumOn(f, T \ {b})
    BY <1>2
  <1> DEFINE c == AnyOne(T)
             U == T \ {b, c}
  <1>4. T \in SUBSET S /\ b \in T /\ c \in T
    BY <1>2, <1>3, AnyOf
  <1>5. IsFiniteSet(T) /\ IsFiniteSet(U)
    BY <1>4, FS_Subset
  <1>6. SumOn(f, T) = f[c] + SumOn(f, T \ {c})
    BY <1>4, <1>5, SumSteps
  <1>7. b # c
    BY <1>3, <1>6
  <1>8. ASSUME NEW x \in T, NEW y \in T, x # y, {x, y} = {b, c}
        PROVE  SumOn(f, T \ {x}) = f[y] + SumOn(f, U)
    <2>1. T \ {x} \notin bad /\ (T \ {x}) \ {y} = U /\ y \in T \ {x} /\ T \ {x} \in SUBSET S
      BY <1>2, <1>4, <1>8
    <2> HIDE DEF U, c
    <2> QED
      BY <2>1
  <1>9. /\ SumOn(f, T \ {c}) = f[b] + SumOn(f, U)
        /\ SumOn(f, T \ {b}) = f[c] + SumOn(f, U)
    BY <1>4, <1>7, <1>8
  <1>10. SumOn(f, U) \in Nat /\ f[b] \in Nat /\ f[c] \in Nat
    BY <1>4, <1>5, SumNat
  <1> HIDE DEF c, U
  <1> QED
    BY <1>3, <1>6, <1>9, <1>10

\* Summands that are zero can be left out.
LEMMA SumWithoutZeros ==
  ASSUME NEW S, IsFiniteSet(S), NEW f, \A x \in S : f[x] \in Nat,
         NEW R, R \subseteq S, \A x \in S : x \notin R => f[x] = 0
  PROVE  SumOn(f, S) = SumOn(f, R)
  <1> DEFINE bad == {T \in SUBSET S : SumOn(f, T) # SumOn(f, T \cap R)}
  <1>1. SUFFICES ASSUME bad # {} PROVE FALSE
    <2>1. S \cap R = R /\ S \in SUBSET S
      OBVIOUS
    <2> QED
      BY <1>1, <2>1
  <1>2. PICK T \in bad : \A W \in bad : W \subseteq T => W = T
    <2>1. bad \subseteq SUBSET S
      OBVIOUS
    <2> HIDE DEF bad
    <2> QED
      BY <1>1, <2>1, LeastSet
  <1> DEFINE c == AnyOne(T)
             U == T \ {c}
  <1>3. IsFiniteSet(T) /\ T \subseteq S /\ IsFiniteSet(U) /\ IsFiniteSet(T \cap R)
    BY <1>2, FS_Subset
  <1>4. SumOn(f, T) # SumOn(f, T \cap R)
    BY <1>2
  <1>5. T # {}
    <2>1. CASE T = {}
      <3>1. T \cap R = T
        BY <2>1
      <3> QED
        BY <1>4, <3>1
    <2> QED
      BY <2>1
  <1>6. SumOn(f, T) = f[c] + SumOn(f, U)
    BY <1>3, <1>5, SumSteps
  <1>7. c \in T /\ SumOn(f, U) = SumOn(f, U \cap R)
    BY <1>2, <1>5, AnyOf
  <1>8. SumOn(f, U) \in Nat
    BY <1>3, SumNat
  <1>9. CASE c \in R
    <2>1. (T \cap R) \ {c} = U \cap R /\ c \in T \cap R
      BY <1>7, <1>9
    <2>2. SumOn(f, T \cap R) = f[c] + SumOn(f, (T \cap R) \ {c})
      BY <1>3, <2>1, SumWithout
    <2> QED
      BY <1>4, <1>6, <1>7, <2>1, <2>2
  <1>10. CASE c \notin R
    <2>1. T \cap R = U \cap R /\ f[c] = 0
      BY <1>3, <1>7, <1>10
    <2> HIDE DEF c, U, bad
    <2> QED
      BY ONLY <1>4, <1>6, <1>7, <1>8, <2>1
  <1> QED
    BY <1>9, <1>10
\* A sum over what a function makes of a set, no two elements alike.
LEMMA SumImage ==
  ASSUME NEW S, IsFiniteSet(S), NEW F, \A x, y \in S : F[x] = F[y] => x = y,
         NEW e, NEW f, \A x \in S : e[x] \in Nat /\ f[F[x]] = e[x]
  PROVE  SumOn(f, {F[x] : x \in S}) = SumOn(e, S)
  <1> DEFINE Img(T) == {F[x] : x \in T}
             bad == {T \in SUBSET S : SumOn(f, Img(T)) # SumOn(e, T)}
  <1>1. SUFFICES ASSUME bad # {} PROVE FALSE
    OBVIOUS
  <1>2. PICK T \in bad : \A W \in bad : W \subseteq T => W = T
    <2>1. bad \subseteq SUBSET S
      OBVIOUS
    <2> HIDE DEF bad
    <2> QED
      BY <1>1, <2>1, LeastSet
  <1> DEFINE c == AnyOne(T)
             U == T \ {c}
  <1>3. T \subseteq S /\ IsFiniteSet(T) /\ IsFiniteSet(U) /\ IsFiniteSet(Img(T))
    BY <1>2, FS_Subset, ImageFinite
  <1>4. SumOn(f, Img(T)) # SumOn(e, T)
    BY <1>2
  <1>5. T # {}
    <2>1. Img({}) = {} /\ SumOn(f, {}) = 0 /\ SumOn(e, {}) = 0
      BY FS_EmptySet, SumSteps
    <2> QED
      BY <1>4, <2>1
  <1>6. c \in T /\ SumOn(f, Img(U)) = SumOn(e, U)
    BY <1>2, <1>5, AnyOf
  <1>7. SumOn(e, T) = e[c] + SumOn(e, U)
    BY <1>3, <1>5, SumSteps
  <1>8. Img(T) \ {F[c]} = Img(U) /\ F[c] \in Img(T)
    BY <1>3, <1>6
  <1>9. \A y \in Img(T) : f[y] \in Nat
    BY <1>3
  <1>10. f[F[c]] = e[c]
    BY <1>3, <1>6
  <1> HIDE DEF Img, c, U, bad
  <1>11. SumOn(f, Img(T)) = f[F[c]] + SumOn(f, Img(T) \ {F[c]})
    BY <1>3, <1>8, <1>9, SumWithout
  <1> QED
    BY <1>4, <1>6, <1>7, <1>8, <1>10, <1>11

\* The sum over two sets without a common element.
LEMMA SumUnion ==
  ASSUME NEW R, IsFiniteSet(R), NEW S, IsFiniteSet(S), R \cap S = {},
         NEW f, \A x \in R \cup S : f[x] \in Nat
  PROVE  SumOn(f, R \cup S) = SumOn(f, R) + SumOn(f, S)
  <1> DEFINE bad == {T \in SUBSET S : SumOn(f, R \cup T) # SumOn(f, R) + SumOn(f, T)}
  <1>1. SUFFICES ASSUME bad # {} PROVE FALSE
    OBVIOUS
  <1>2. PICK T \in bad : \A W \in bad : W \subseteq T => W = T
    <2>1. bad \subseteq SUBSET S
      OBVIOUS
    <2> HIDE DEF bad
    <2> QED
      BY <1>1, <2>1, LeastSet
  <1> DEFINE c == AnyOne(T)
             U == T \ {c}
  <1>3. T \subseteq S /\ IsFiniteSet(T) /\ IsFiniteSet(U) /\ IsFiniteSet(R \cup T)
    BY <1>2, FS_Subset, FS_Union
  <1>4. SumOn(f, R \cup T) # SumOn(f, R) + SumOn(f, T)
    BY <1>2
  <1>5. SumOn(f, R) \in Nat
    BY SumNat
  <1>6. T # {}
    <2>1. R \cup {} = R /\ SumOn(f, {}) = 0
      BY FS_EmptySet, SumSteps
    <2> QED
      BY <1>4, <1>5, <2>1
  <1>7. c \in T /\ SumOn(f, R \cup U) = SumOn(f, R) + SumOn(f, U)
    BY <1>2, <1>6, AnyOf
  <1>8. (R \cup T) \ {c} = R \cup U
    BY <1>3, <1>7
  <1>9. \A x \in R \cup T : f[x] \in Nat
    BY <1>3
  <1>10. f[c] \in Nat /\ SumOn(f, U) \in Nat
    BY <1>3, <1>7, SumNat
  <1> HIDE DEF c, U, bad
  <1>11. SumOn(f, T) = f[c] + SumOn(f, U)
    BY <1>3, <1>6, SumSteps DEF c, U
  <1>12. SumOn(f, R \cup T) = f[c] + SumOn(f, (R \cup T) \ {c})
    BY <1>3, <1>7, <1>9, SumWithout
  <1> QED
    BY ONLY <1>4, <1>5, <1>7, <1>8, <1>10, <1>11, <1>12

\* Summands in one proportion.
LEMMA SumScale ==
  ASSUME NEW S, IsFiniteSet(S), NEW d, NEW e, NEW t \in Nat, NEW G \in Nat,
         \A x \in S : d[x] \in Nat /\ e[x] \in Nat /\ d[x] * G = t * e[x]
  PROVE  SumOn(d, S) * G = t * SumOn(e, S)
  <1> DEFINE bad == {T \in SUBSET S : SumOn(d, T) * G # t * SumOn(e, T)}
  <1>1. SUFFICES ASSUME bad # {} PROVE FALSE
    OBVIOUS
  <1>2. PICK T \in bad : \A W \in bad : W \subseteq T => W = T
    <2>1. bad \subseteq SUBSET S
      OBVIOUS
    <2> HIDE DEF bad
    <2> QED
      BY <1>1, <2>1, LeastSet
  <1> DEFINE c == AnyOne(T)
             U == T \ {c}
  <1>3. T \subseteq S /\ IsFiniteSet(T) /\ IsFiniteSet(U)
    BY <1>2, FS_Subset
  <1>4. SumOn(d, T) * G # t * SumOn(e, T)
    BY <1>2
  <1>5. T # {}
    <2>1. SumOn(d, {}) = 0 /\ SumOn(e, {}) = 0
      BY FS_EmptySet, SumSteps
    <2>2. 0 * G = 0 /\ t * 0 = 0
      OBVIOUS
    <2>3. CASE T = {}
      BY ONLY <1>4, <2>1, <2>2, <2>3
    <2> QED
      BY <2>3
  <1>6. c \in T /\ SumOn(d, U) * G = t * SumOn(e, U)
    BY <1>2, <1>5, AnyOf
  <1>7. SumOn(d, U) \in Nat /\ SumOn(e, U) \in Nat
    BY <1>3, SumNat
  <1>8. d[c] \in Nat /\ e[c] \in Nat /\ d[c] * G = t * e[c]
    BY <1>3, <1>6
  <1> HIDE DEF c, U, bad
  <1>9. SumOn(d, T) = d[c] + SumOn(d, U) /\ SumOn(e, T) = e[c] + SumOn(e, U)
    BY <1>3, <1>5, SumSteps DEF c, U
  <1>10. \A k, a, b \in Nat : (a + b) * k = a * k + b * k /\ k * (a + b) = k * a + k * b
    OBVIOUS
  <1>11. /\ SumOn(d, T) * G = d[c] * G + SumOn(d, U) * G
         /\ t * SumOn(e, T) = t * e[c] + t * SumOn(e, U)
    BY ONLY <1>7, <1>8, <1>9, <1>10, t \in Nat, G \in Nat
  <1> QED
    BY ONLY <1>4, <1>6, <1>8, <1>11

\* Shares of a total, in proportion to what each gains, add up to it.
LEMMA SharesAdd ==
  ASSUME NEW S, IsFiniteSet(S), S # {}, NEW e, \A x \in S : e[x] \in Nat /\ e[x] > 0,
         NEW t \in Nat, \A x \in S : (t * e[x]) % SumOn(e, S) = 0
  PROVE  /\ SumOn([x \in S |-> (t * e[x]) \div SumOn(e, S)], S) = t
         /\ \A x \in S : (t * e[x]) \div SumOn(e, S) \in Nat
  <1> DEFINE G == SumOn(e, S)
             d == [x \in S |-> (t * e[x]) \div G]
  <1>1. G \in Nat /\ G > 0
    <2>1. PICK x \in S : TRUE
      OBVIOUS
    <2>2. G \in Nat /\ SumOn(e, S \ {x}) \in Nat
      BY FS_Subset, SumNat
    <2>3. SumOn(e, S) = e[x] + SumOn(e, S \ {x})
      BY <2>1, SumWithout
    <2>4. e[x] \in Nat /\ e[x] > 0
      BY <2>1
    <2> QED
      BY ONLY <2>2, <2>3, <2>4
  <1>2. \A x \in S : (t * e[x]) % G = 0
    OBVIOUS
  <1> HIDE DEF G
  <1>3. \A a, k \in Nat : k > 0 /\ a % k = 0 => (a \div k) * k = a /\ a \div k \in Nat
    OBVIOUS
  <1>4. \A a, b \in Nat : a * b \in Nat
    OBVIOUS
  <1>5. \A x \in S : t * e[x] \in Nat
    BY <1>4
  <1>6. \A x \in S : d[x] \in Nat /\ d[x] * G = t * e[x]
    BY <1>1, <1>2, <1>3, <1>5
  <1>7. SumOn(d, S) * G = t * SumOn(e, S) /\ SumOn(d, S) \in Nat
    <2> HIDE DEF d
    <2> QED
      BY <1>1, <1>6, SumScale, SumNat
  <1>8. \A q, k, g \in Nat : g > 0 /\ q * g = k * g => q = k
    OBVIOUS
  <1>9. SumOn(d, S) = t
    <2> HIDE DEF d
    <2>1. SumOn(d, S) * G = t * G
      BY <1>7 DEF G
    <2> QED
      BY <1>1, <1>7, <1>8, <2>1
  <1> QED
    BY <1>6, <1>9 DEF G
-----------------------------------------------------------------------------
(* What a merge credits is what it brings the loss down by.                  *)

GainOf(S) == [c \in S |-> c.gain]

LEMMA GainSums ==
  ASSUME NEW S
  PROVE  GainSum(S) = SumOn(GainOf(S), S)
  BY DEF GainSum, Total, SumOn, GainOf

\* Credits are records of a cid and a gain.
Credits(gs) ==
  /\ IsFiniteSet(gs)
  /\ \A g \in gs : g \in [cid : {g.cid}, gain : Nat]

Credit(c, n) == [cid |-> c.rec.cid, gain |-> n]

\* The sum of what candidates with distinct cids are credited with.
LEMMA CreditSum ==
  ASSUME NEW S, IsFiniteSet(S), \A c, d \in S : c.rec.cid = d.rec.cid => c = d,
         NEW e, \A c \in S : e[c] \in Nat
  PROVE  LET gs == {Credit(c, e[c]) : c \in S}
         IN  Credits(gs) /\ GainSum(gs) = SumOn(e, S)
  <1> DEFINE F == [c \in S |-> Credit(c, e[c])]
             gs == {Credit(c, e[c]) : c \in S}
  <1>1. gs = {F[c] : c \in S}
    OBVIOUS
  <1>2. \A c \in S : /\ F[c] \in [cid : {F[c].cid}, gain : Nat]
                     /\ F[c].gain = e[c] /\ F[c].cid = c.rec.cid /\ F[c] \in gs
    BY DEF Credit
  <1> HIDE DEF F, gs
  <1>3. Credits(gs)
    BY <1>1, <1>2, ImageFinite DEF Credits
  <1>4. \A c, d \in S : F[c] = F[d] => c = d
    BY <1>2
  <1>5. \A c \in S : e[c] \in Nat /\ GainOf(gs)[F[c]] = e[c]
    BY <1>2 DEF GainOf
  <1>6. SumOn(GainOf(gs), {F[c] : c \in S}) = SumOn(e, S)
    BY ONLY IsFiniteSet(S), <1>4, <1>5, SumImage
  <1>7. GainSum(gs) = SumOn(e, S)
    BY <1>1, <1>6, GainSums
  <1> QED
    BY <1>3, <1>7 DEF gs

\* What may be merged.
Voted(cands) ==
  /\ IsFiniteSet(cands) /\ cands \subseteq [rec : Records, gain : Gains, vote : {"stays"}]
  /\ \A c, d \in cands : c.rec.cid = d.rec.cid => c = d

LEMMA CombinedSum ==
  ASSUME SharesWhole, NEW cands, Voted(cands), Positive(cands) # {},
         NEW t \in Gains, t >= 0
  PROVE  /\ t \in Nat /\ Credits(Combined(cands, t).gains)
         /\ GainSum(Combined(cands, t).gains) = Combined(cands, t).drop
         /\ Combined(cands, t).drop = t
  <1> DEFINE pos == Positive(cands)
             e == GainOf(pos)
             q == [c \in pos |-> (t * e[c]) \div SumOn(e, pos)]
  <1>1. t \in Nat
    BY PoolConstants
  <1>2. pos \subseteq cands /\ IsFiniteSet(pos) /\ \A c \in pos : c.gain > 0
    BY FS_Subset DEF Positive, Voted
  <1>3. \A c \in pos : c.gain \in Nat
    <2>1. \A c \in pos : c.gain \in Int
      BY <1>2, PoolConstants DEF Voted
    <2> HIDE DEF pos
    <2> QED
      BY <1>2, <2>1
  <1>4. \A c \in pos : e[c] = c.gain /\ e[c] \in Nat /\ e[c] > 0
    BY <1>2, <1>3 DEF GainOf
  <1>5. \A c \in pos : (t * e[c]) % SumOn(e, pos) = 0
    <2>1. \A c \in pos : (t * c.gain) % GainSum(pos) = 0
      BY DEF SharesWhole, Voted
    <2> HIDE DEF pos
    <2> QED
      BY <1>4, <2>1, GainSums
  <1>6. SumOn(q, pos) = t /\ \A c \in pos : q[c] \in Nat
    <2> HIDE DEF pos, e
    <2> QED
      BY <1>1, <1>2, <1>4, <1>5, SharesAdd DEF pos
  <1>7. Combined(cands, t).gains = {Credit(c, q[c]) : c \in pos}
    <2>1. \A c \in pos : q[c] = (t * c.gain) \div GainSum(pos)
      <3> HIDE DEF pos
      <3> QED
        BY <1>4, GainSums
    <2>2. Combined(cands, t).gains = {Credit(c, (t * c.gain) \div GainSum(pos)) : c \in pos}
      BY DEF Combined, Credit
    <2> HIDE DEF pos, q
    <2> QED
      BY <2>1, <2>2
  <1>8. Combined(cands, t).drop = t
    BY DEF Combined
  <1>9. \A c, d \in pos : c.rec.cid = d.rec.cid => c = d
    BY <1>2 DEF Voted
  <1> HIDE DEF pos, e, q
  <1> QED
    BY <1>1, <1>2, <1>6, <1>7, <1>8, <1>9, CreditSum

LEMMA SerialSum ==
  ASSUME NEW cands, Voted(cands), Positive(cands) # {},
         NEW then \in [{c.rec.cid : c \in Positive(cands)} -> {g \in Gains : g >= 0}]
  PROVE  /\ SerialFallback(cands, then).drop \in Nat
         /\ Credits(SerialFallback(cands, then).gains)
         /\ GainSum(SerialFallback(cands, then).gains) = SerialFallback(cands, then).drop
  <1> DEFINE pos == Positive(cands)
             best == Best(pos)
             rest == pos \ {best}
             adds == [c \in rest |-> then[c.rec.cid]]
             help == {c \in rest : then[c.rec.cid] > 0}
             e == [c \in pos |-> IF c = best THEN best.gain ELSE then[c.rec.cid]]
             S == help \cup {best}
             res == SerialFallback(cands, then)
  <1>1. cands \subseteq Candidates /\ IsFiniteSet(cands)
    BY PoolConstants DEF Voted, Candidates
  <1>2. /\ pos \subseteq cands /\ IsFiniteSet(pos) /\ best \in pos /\ \A c \in pos : c.gain > 0
        /\ IsFiniteSet(rest) /\ IsFiniteSet(S) /\ S \subseteq pos
    <2>1. pos \subseteq cands /\ IsFiniteSet(pos) /\ \A c \in pos : c.gain > 0
      BY <1>1, FS_Subset DEF Positive
    <2>2. best \in pos
      BY <1>1, BestOf
    <2> HIDE DEF pos
    <2> QED
      BY <2>1, <2>2, FS_Subset
  <1>3. best.gain \in Nat /\ best.gain > 0
    <2>1. best.gain \in Int
      BY <1>1, <1>2 DEF Candidates
    <2> HIDE DEF best
    <2> QED
      BY <1>2, <2>1
  <1>4. \A c \in pos : then[c.rec.cid] \in Nat
    BY PoolConstants
  <1>5. /\ res.drop = best.gain + SumOn(adds, rest)
        /\ res.gains = {[cid |-> best.rec.cid, gain |-> best.gain]} \cup
                       {[cid |-> c.rec.cid, gain |-> then[c.rec.cid]] : c \in help}
    BY DEF SerialFallback, Best, Total, SumOn
  <1>6. \A c \in pos : e[c] \in Nat
    BY <1>3, <1>4
  <1>7. e[best] = best.gain /\ \A c \in rest : e[c] = then[c.rec.cid] /\ adds[c] = e[c]
    BY <1>2
  <1>8. res.gains = {Credit(c, e[c]) : c \in S}
    <2>1. \A c \in help : e[c] = then[c.rec.cid]
      BY <1>7
    <2>2. {Credit(c, e[c]) : c \in S} = {Credit(best, e[best])} \cup {Credit(c, e[c]) : c \in help}
      <3> HIDE DEF help, best, e
      <3> QED
        OBVIOUS
    <2>3. {Credit(c, e[c]) : c \in help} = {[cid |-> c.rec.cid, gain |-> then[c.rec.cid]] : c \in help}
      <3> HIDE DEF help, e
      <3> QED
        BY <2>1 DEF Credit
    <2>4. Credit(best, e[best]) = [cid |-> best.rec.cid, gain |-> best.gain]
      BY <1>7 DEF Credit
    <2> HIDE DEF help, best, e, res
    <2> QED
      BY <1>5, <2>2, <2>3, <2>4
  <1>9. \A c, d \in S : c.rec.cid = d.rec.cid => c = d
    BY <1>2 DEF Voted
  <1>10. S \ {best} = help /\ help \subseteq rest /\ best \in S
         /\ \A c \in rest : c \notin help => e[c] = 0
    <2>1. \A c \in rest : c \notin help => ~(then[c.rec.cid] > 0) /\ then[c.rec.cid] \in Nat
      BY <1>4
    <2>2. \A n \in Nat : ~(n > 0) => n = 0
      OBVIOUS
    <2>3. \A c \in rest : c \notin help => e[c] = 0
      <3> HIDE DEF help, rest, e
      <3> QED
        BY <1>7, <2>1, <2>2
    <2> QED
      BY <2>3
  <1> HIDE DEF pos, best, rest, adds, help, e, S, res
  <1>11. Credits(res.gains) /\ GainSum(res.gains) = SumOn(e, S)
    <2>1. \A c \in S : e[c] \in Nat
      BY <1>2, <1>6
    <2>2. IsFiniteSet(S)
      BY <1>2
    <2>3. /\ Credits({Credit(c, e[c]) : c \in S})
          /\ GainSum({Credit(c, e[c]) : c \in S}) = SumOn(e, S)
      BY ONLY <1>9, <2>1, <2>2, CreditSum
    <2> QED
      BY ONLY <1>8, <2>3
  <1>12. \A c \in rest : e[c] \in Nat
    BY <1>6 DEF rest
  <1>13. SumOn(e, S) = best.gain + SumOn(e, help)
    <2>1. \A c \in S : e[c] \in Nat
      BY <1>2, <1>6
    <2>2. IsFiniteSet(S) /\ best \in S
      BY <1>2, <1>10
    <2>3. SumOn(e, S) = e[best] + SumOn(e, S \ {best})
      BY ONLY <2>1, <2>2, SumWithout
    <2> QED
      BY ONLY <1>7, <1>10, <2>3
  <1>14. SumOn(e, rest) = SumOn(e, help) /\ SumOn(e, rest) \in Nat
    BY <1>2, <1>10, <1>12, SumWithoutZeros, SumNat
  <1>15. SumOn(adds, rest) = SumOn(e, rest)
    BY <1>2, <1>7, SumSame
  <1>16. res.drop \in Nat /\ GainSum(res.gains) = res.drop
    BY <1>3, <1>5, <1>11, <1>13, <1>14, <1>15
  <1> QED
    BY <1>11, <1>16 DEF res

LEMMA MergeSum ==
  ASSUME SharesWhole, NEW cands, Voted(cands), NEW res \in MergeResults(cands)
  PROVE  /\ res.drop \in Nat /\ Credits(res.gains)
         /\ GainSum(res.gains) = res.drop
  <1>1. CASE Positive(cands) = {}
    <2>1. res.drop = 0 /\ res.gains = {}
      BY <1>1 DEF MergeResults
    <2>2. GainSum({}) = 0
      BY GainSums, SumSteps, FS_EmptySet
    <2> QED
      BY <2>1, <2>2, FS_EmptySet DEF Credits
  <1>2. ASSUME Positive(cands) # {}, Cardinality(cands) = 1, res = Combined(cands, GainSum(cands))
        PROVE  /\ res.drop \in Nat /\ Credits(res.gains)
               /\ GainSum(res.gains) = res.drop
    <2>1. PICK c : cands = {c}
      BY <1>2, FS_Singleton DEF Voted
    <2>2. c.gain \in Gains /\ c.gain > 0 /\ c.gain \in Int
      BY <1>2, <2>1, PoolConstants DEF Voted, Positive
    <2>3. GainSum(cands) = c.gain
      <3>1. SumOn(GainOf(cands), cands) = GainOf(cands)[c] + SumOn(GainOf(cands), cands \ {c})
        <4>1. \A x \in cands : GainOf(cands)[x] \in Nat
          BY <2>1, <2>2 DEF GainOf
        <4> QED
          BY <2>1, <4>1, SumWithout DEF Voted
      <3>2. cands \ {c} = {} /\ SumOn(GainOf(cands), {}) = 0
        BY <2>1, SumSteps, FS_EmptySet
      <3>3. GainOf(cands)[c] = c.gain
        BY <2>1 DEF GainOf
      <3> QED
        BY <2>2, <3>1, <3>2, <3>3, GainSums
    <2>4. c.gain >= 0
      BY <2>2
    <2> QED
      BY <1>2, <2>2, <2>3, <2>4, CombinedSum
  <1>3. ASSUME Positive(cands) # {}, NEW t \in Gains, t >= 0, res = Combined(cands, t)
        PROVE  /\ res.drop \in Nat /\ Credits(res.gains)
               /\ GainSum(res.gains) = res.drop
    BY <1>3, CombinedSum
  <1>4. ASSUME Positive(cands) # {},
               NEW then \in [{c.rec.cid : c \in Positive(cands)} -> {g \in Gains : g >= 0}],
               res = SerialFallback(cands, then)
        PROVE  /\ res.drop \in Nat /\ Credits(res.gains)
               /\ GainSum(res.gains) = res.drop
    BY <1>4, SerialSum
  <1> QED
    BY <1>1, <1>2, <1>3, <1>4 DEF MergeResults
-----------------------------------------------------------------------------
(* Replay: by the least number of blocks at which a claim would fail.       *)

\* Every set of naturals that has an element has a least one.
LEMMA LeastNatural ==
  ASSUME NEW S, S \subseteq Nat, S # {}
  PROVE  \E x \in S : \A y \in S : x <= y
  <1> DEFINE R == {p \in Nat \X Nat : p[1] < p[2]}
  <1>1. IsWellFoundedOn(R, Nat)
    BY NatLessThanWellFounded DEF OpToRel
  <1>2. PICK x \in S : \A y \in S : ~(<<y, x>> \in R)
    BY <1>1, WFMin
  <1>3. \A y \in S : ~(y < x)
    BY <1>2
  <1> QED
    BY <1>3

ReplaysTo(f, blocks, n) ==
  f = [i \in 0 .. n |-> IF i = 0 THEN EmptyChain ELSE Extended(f[i - 1], blocks[i])]

\* Every sequence of blocks has a replay.
LEMMA ReplayExists ==
  ASSUME NEW blocks, NEW n \in Nat
  PROVE  \E f : ReplaysTo(f, blocks, n)
  <1> DEFINE bad == {k \in Nat : ~\E f : ReplaysTo(f, blocks, k)}
  <1>1. SUFFICES ASSUME bad # {} PROVE FALSE
    OBVIOUS
  <1>2. PICK k \in bad : \A j \in bad : k <= j
    BY <1>1, LeastNatural
  <1>3. k # 0
    <2> DEFINE f == [i \in 0 .. 0 |-> EmptyChain]
    <2>1. f = [i \in 0 .. 0 |-> IF i = 0 THEN EmptyChain ELSE Extended(f[i - 1], blocks[i])]
      OBVIOUS
    <2>2. 0 \notin bad
      BY <2>1 DEF ReplaysTo
    <2> QED
      BY <2>2
  <1>4. k \in Nat /\ k - 1 \in Nat /\ k - 1 \notin bad
    BY <1>2, <1>3
  <1>5. PICK g : ReplaysTo(g, blocks, k - 1)
    BY <1>4
  <1> DEFINE f == [i \in 0 .. k |-> IF i = k THEN Extended(g[k - 1], blocks[k]) ELSE g[i]]
  <1>6. \A i \in 0 .. k : f[i] = IF i = k THEN Extended(g[k - 1], blocks[k]) ELSE g[i]
    OBVIOUS
  <1>7. \A i \in 0 .. k - 1 :
          g[i] = IF i = 0 THEN EmptyChain ELSE Extended(g[i - 1], blocks[i])
    BY <1>5 DEF ReplaysTo
  <1>8. \A i \in 0 .. k :
          f[i] = IF i = 0 THEN EmptyChain ELSE Extended(f[i - 1], blocks[i])
    <2> HIDE DEF f
    <2> TAKE i \in 0 .. k
    <2>1. CASE i = k
      <3>1. k - 1 \in 0 .. k /\ k - 1 # k /\ k \in 0 .. k
        BY <1>3, <1>4
      <3>2. f[k - 1] = g[k - 1]
        BY <1>6, <3>1
      <3> QED
        BY <1>3, <1>6, <2>1, <3>1, <3>2
    <2>2. CASE i # k /\ i # 0
      <3>1. i \in 0 .. k - 1 /\ i - 1 \in 0 .. k /\ i - 1 # k
        BY <1>4, <2>2
      <3>2. f[i] = g[i] /\ f[i - 1] = g[i - 1]
        BY <1>6, <2>2, <3>1
      <3> QED
        BY <1>7, <2>2, <3>1, <3>2
    <2>3. CASE i = 0
      <3>1. 0 \in 0 .. k - 1 /\ i # k
        BY <1>3, <1>4, <2>3
      <3> QED
        BY <1>6, <1>7, <2>3, <3>1
    <2> QED
      BY <2>1, <2>2, <2>3
  <1>9. f = [i \in 0 .. k |-> f[i]]
    OBVIOUS
  <1> HIDE DEF f
  <1>10. ReplaysTo(f, blocks, k)
    BY <1>8, <1>9 DEF ReplaysTo
  <1> QED
    BY <1>2, <1>10

\* Replays of sequences that agree so far agree so far.
LEMMA ReplayUnique ==
  ASSUME NEW bs, NEW cs, NEW n \in Nat, NEW m \in Nat, n <= m,
         \A i \in 1 .. n : bs[i] = cs[i],
         NEW f, ReplaysTo(f, bs, n), NEW g, ReplaysTo(g, cs, m)
  PROVE  \A i \in 0 .. n : f[i] = g[i]
  <1> DEFINE bad == {k \in 0 .. n : f[k] # g[k]}
  <1>1. SUFFICES ASSUME bad # {} PROVE FALSE
    OBVIOUS
  <1>2. PICK k \in bad : \A j \in bad : k <= j
    <2>1. bad \subseteq Nat
      OBVIOUS
    <2> HIDE DEF bad
    <2> QED
      BY <1>1, <2>1, LeastNatural
  <1>3. k \in 0 .. n /\ k \in 0 .. m
    BY <1>2
  <1>4. /\ f[k] = IF k = 0 THEN EmptyChain ELSE Extended(f[k - 1], bs[k])
        /\ g[k] = IF k = 0 THEN EmptyChain ELSE Extended(g[k - 1], cs[k])
    BY <1>3 DEF ReplaysTo
  <1>5. k # 0 => k - 1 \in 0 .. n /\ k - 1 \notin bad /\ k \in 1 .. n
    BY <1>2, <1>3
  <1> QED
    BY <1>2, <1>4, <1>5

\* One block more is replayed on what the replay had reached.
LEMMA ReplayedOneMore ==
  ASSUME NEW bs, bs \in Seq(Range(bs)), NEW rec
  PROVE  Replayed(Append(bs, rec)) = Extended(Replayed(bs), rec)
  <1> DEFINE n == Len(bs)
             cs == Append(bs, rec)
             fun(b) == CHOOSE f : ReplaysTo(f, b, Len(b))
  <1>1. /\ n \in Nat /\ cs \in Seq(Range(bs) \cup {rec}) /\ Len(cs) = n + 1 /\ cs[n + 1] = rec
        /\ \A i \in 1 .. n : bs[i] = cs[i]
    OBVIOUS
  <1>2. \A b : Replayed(b) = fun(b)[Len(b)]
    BY DEF Replayed, ReplaysTo
  <1> HIDE DEF n, cs
  <1>3. ReplaysTo(fun(bs), bs, n)
    BY <1>1, ReplayExists DEF n
  <1>4. ReplaysTo(fun(cs), cs, n + 1)
    BY <1>1, ReplayExists
  <1>5. fun(bs)[n] = fun(cs)[n]
    <2>1. \A i \in 0 .. n : fun(bs)[i] = fun(cs)[i]
      <3> HIDE DEF fun
      <3> QED
        BY <1>1, <1>3, <1>4, ReplayUnique, SMTT(30)
    <2> QED
      BY <1>1, <2>1
  <1>6. fun(cs)[n + 1] = Extended(fun(cs)[n], rec)
    <2> HIDE DEF fun
    <2>1. n + 1 \in 0 .. n + 1 /\ n + 1 # 0 /\ (n + 1) - 1 = n
      BY <1>1
    <2> QED
      BY <1>1, <1>4, <2>1 DEF ReplaysTo
  <1> QED
    BY <1>1, <1>2, <1>5, <1>6 DEF n, cs

IsChain(ch) ==
  /\ ch \in [blocks : {ch.blocks}, head : {ch.head}, bal : {ch.bal}, minted : {ch.minted}]
  /\ ch.blocks \in Seq(Range(ch.blocks))
  /\ ch.head = PrevOf(ch.blocks, Len(ch.blocks) + 1)

\* What a block adds to a chain.
LEMMA ExtendedFields ==
  ASSUME NEW ch, IsChain(ch), NEW rec
  PROVE  /\ IsChain(Extended(ch, rec))
         /\ Extended(ch, rec).blocks = Append(ch.blocks, rec)
         /\ Extended(ch, rec).head = Hash(rec.hdr)
         /\ DOMAIN Extended(ch, rec).blocks = 1 .. Len(ch.blocks) + 1
         /\ \A i \in 1 .. Len(ch.blocks) : Extended(ch, rec).blocks[i] = ch.blocks[i]
         /\ Extended(ch, rec).blocks[Len(ch.blocks) + 1] = rec
  <1> DEFINE x == Extended(ch, rec)
  <1>1. x \in [blocks : {x.blocks}, head : {x.head}, bal : {x.bal}, minted : {x.minted}]
        /\ x.blocks = Append(ch.blocks, rec) /\ x.head = Hash(rec.hdr)
    BY DEF IsChain, Extended, ApplyBlock
  <1> HIDE DEF x
  <1>2. ch.blocks \in Seq(Range(ch.blocks)) /\ Len(ch.blocks) \in Nat
        /\ DOMAIN ch.blocks = 1 .. Len(ch.blocks)
    BY DEF IsChain
  <1>3. x.blocks \in Seq(Range(ch.blocks) \cup {rec}) /\ Len(x.blocks) = Len(ch.blocks) + 1
    BY <1>1, <1>2
  <1>4. \A i \in 1 .. Len(ch.blocks) : x.blocks[i] = ch.blocks[i]
    BY <1>1, <1>2
  <1>5. x.blocks[Len(ch.blocks) + 1] = rec
    BY <1>1, <1>2
  <1>6. x.blocks \in Seq(Range(x.blocks))
    BY <1>3 DEF Range
  <1>7. x.head = PrevOf(x.blocks, Len(x.blocks) + 1)
    BY <1>1, <1>2, <1>3, <1>5 DEF PrevOf
  <1> QED
    BY <1>1, <1>2, <1>3, <1>4, <1>5, <1>6, <1>7 DEF IsChain, x

\* A chain is what its blocks replay to.
Sound(ch) ==
  /\ IsChain(ch)
  /\ ch = Replayed(ch.blocks)
  /\ \A i \in DOMAIN ch.blocks : BlockReplays(ch.blocks, i, FALSE)

LEMMA SoundExtended ==
  ASSUME NEW ch, Sound(ch), NEW rec, rec.hdr.prev = ch.head,
         rec.sig = [by |-> CoordKey, over |-> Hash(rec.hdr)]
  PROVE  Sound(Extended(ch, rec))
  <1> DEFINE x == Extended(ch, rec)
             n == Len(ch.blocks)
  <1>1. /\ n \in Nat /\ DOMAIN ch.blocks = 1 .. n /\ ch.blocks \in Seq(Range(ch.blocks))
        /\ ch.head = PrevOf(ch.blocks, n + 1)
    BY DEF Sound, IsChain
  <1>2. /\ IsChain(x) /\ x.blocks = Append(ch.blocks, rec)
        /\ DOMAIN x.blocks = 1 .. n + 1 /\ x.blocks[n + 1] = rec
        /\ \A i \in 1 .. n : x.blocks[i] = ch.blocks[i]
    <2>1. IsChain(ch)
      BY DEF Sound
    <2> HIDE DEF n
    <2>2. IsChain(x) /\ x.blocks = Append(ch.blocks, rec)
      BY <2>1, ExtendedFields
    <2>3. DOMAIN x.blocks = 1 .. n + 1 /\ x.blocks[n + 1] = rec
      BY <2>1, ExtendedFields DEF n
    <2>4. \A i \in 1 .. n : x.blocks[i] = ch.blocks[i]
      <3> HIDE DEF x
      <3> QED
        BY <1>1, <2>2
    <2> HIDE DEF x
    <2> QED
      BY <2>2, <2>3, <2>4
  <1>3. x = Replayed(x.blocks)
    BY <1>1, <1>2, ReplayedOneMore DEF Sound
  <1> HIDE DEF x, n
  <1>4. \A i \in 1 .. n + 1 : PrevOf(x.blocks, i) = PrevOf(ch.blocks, i)
    <2> TAKE i \in 1 .. n + 1
    <2>1. i # 1 => i - 1 \in 1 .. n
      BY <1>1
    <2> QED
      BY <1>2, <2>1 DEF PrevOf
  <1>5. ASSUME NEW i \in 1 .. n + 1 PROVE BlockReplays(x.blocks, i, FALSE)
    <2>1. CASE i \in 1 .. n
      BY <1>1, <1>2, <1>4, <2>1 DEF Sound, BlockReplays
    <2>2. CASE i = n + 1
      <3>1. rec.hdr.prev = PrevOf(x.blocks, n + 1) /\ x.blocks[n + 1] = rec
        BY <1>1, <1>2, <1>4, <2>2
      <3> QED
        BY <2>2, <3>1 DEF BlockReplays
    <2>3. i \in 1 .. n \/ i = n + 1
      BY <1>1
    <2> QED
      BY <2>1, <2>2, <2>3
  <1> QED
    BY <1>2, <1>3, <1>5 DEF Sound, x

LEMMA EmptyChainSound == Sound(EmptyChain)
  <1>1. EmptyChain.blocks = <<>> /\ EmptyChain.head = <<>>
        /\ EmptyChain \in [blocks : {EmptyChain.blocks}, head : {EmptyChain.head},
                           bal : {EmptyChain.bal}, minted : {EmptyChain.minted}]
    BY DEF EmptyChain, GENESIS_PREV_HASH
  <1>2. <<>> \in Seq(Range(<<>>)) /\ Len(<<>>) = 0 /\ DOMAIN <<>> = {}
    BY DEF Range
  <1>3. IsChain(EmptyChain)
    BY <1>1, <1>2 DEF IsChain, PrevOf, GENESIS_PREV_HASH
  <1>4. Replayed(<<>>) = EmptyChain
    <2> DEFINE fun(b) == CHOOSE f : ReplaysTo(f, b, Len(b))
    <2>1. Replayed(<<>>) = fun(<<>>)[Len(<<>>)]
      BY DEF Replayed, ReplaysTo
    <2>2. ReplaysTo(fun(<<>>), <<>>, 0)
      BY <1>2, ReplayExists
    <2> HIDE DEF fun
    <2>3. fun(<<>>)[0] = EmptyChain
      BY <2>2 DEF ReplaysTo
    <2> QED
      BY <1>2, <2>1, <2>3
  <1> QED
    BY <1>1, <1>2, <1>3, <1>4 DEF Sound
\* A sound chain is restored as it was.
LEMMA SoundRestored ==
  ASSUME NEW ch, Sound(ch)
  PROVE  Restored(ch.blocks) = ch
  <1>1. ch \in [blocks : {ch.blocks}, head : {ch.head}, bal : {ch.bal}, minted : {ch.minted}]
    BY DEF Sound, IsChain
  <1>2. Restored(ch.blocks) = [ch EXCEPT !.head = ch.head]
    BY DEF Sound, IsChain, Restored
  <1> QED
    BY <1>1, <1>2

-----------------------------------------------------------------------------
(* The books: a chain, the cids paid on it and the cid of each of its blocks. *)

Books(ch, paid, ms) ==
  /\ Sound(ch)
  /\ ms \in Seq(Cids) /\ Len(ms) = Len(ch.blocks)
  /\ \A i \in 1 .. Len(ms) : ms[i] \in paid
  /\ \A i, j \in 1 .. Len(ms) : ms[i] = ms[j] => i = j
  /\ OwnSigned => \A i \in 1 .. Len(ms) : ch.blocks[i].to = Author[ms[i]]

BooksOf(acc) == Books(acc.chain, acc.paid, acc.mints)

LEMMA PayBooks ==
  ASSUME NEW acc, BooksOf(acc), NEW g, NEW rec \in Records, rec.cid = g.cid, NEW answer
  PROVE  BooksOf(Pay(acc, g, rec, answer))
  <1> DEFINE b == SettledBlock(acc.chain, round + 1, g.gain, Payee(rec), NoQuorum)
             ch == Settle(acc.chain, round + 1, g.gain, Payee(rec), NoQuorum)
             paid == acc.paid \cup {g.cid}
             ms == Append(acc.mints, g.cid)
             n == Len(acc.mints)
  <1>1. CASE Pay(acc, g, rec, answer) = acc
    BY <1>1
  <1>2. CASE SigOk(rec) /\ g.cid \notin acc.paid
             /\ Pay(acc, g, rec, answer) = [chain |-> ch, paid |-> paid, mints |-> ms]
    <2>1. /\ Sound(acc.chain) /\ IsChain(acc.chain)
          /\ acc.mints \in Seq(Cids) /\ n \in Nat /\ n = Len(acc.chain.blocks)
      <3>1. acc.mints \in Seq(Cids) /\ n = Len(acc.chain.blocks)
        BY DEF BooksOf, Books
      <3>2. Sound(acc.chain)
        BY DEF BooksOf, Books
      <3>3. IsChain(acc.chain)
        BY <3>2 DEF Sound
      <3>4. n \in Nat
        BY <3>1
      <3> QED
        BY <3>1, <3>2, <3>3, <3>4
    <2>2. b.hdr.prev = acc.chain.head /\ b.to = Payee(rec)
          /\ b.sig = [by |-> CoordKey, over |-> Hash(b.hdr)]
      BY DEF SettledBlock
    <2>3. ch = Extended(acc.chain, b)
      BY DEF Settle
    <2> HIDE DEF b, ch
    <2>4. Sound(ch)
      BY <2>1, <2>2, <2>3, SoundExtended
    <2>5. /\ \A i \in 1 .. n : ch.blocks[i] = acc.chain.blocks[i]
          /\ ch.blocks[n + 1] = b /\ Len(ch.blocks) = n + 1
      <3> HIDE DEF n
      <3> DEFINE s == acc.chain.blocks
      <3>1. IsChain(acc.chain) /\ s \in Seq(Range(s)) /\ Len(s) = n
        BY <2>1 DEF IsChain
      <3>2. ch.blocks = Append(s, b)
        BY <2>3, <3>1, ExtendedFields
      <3> HIDE DEF s
      <3>3. /\ \A i \in 1 .. n : Append(s, b)[i] = s[i]
            /\ Append(s, b)[n + 1] = b /\ Len(Append(s, b)) = n + 1
        BY ONLY <3>1
      <3> QED
        BY <3>2, <3>3 DEF s
    <2>6. g.cid \in Cids
      BY DEF Cids
    <2>7. /\ ms \in Seq(Cids) /\ Len(ms) = n + 1 /\ ms[n + 1] = g.cid
          /\ \A i \in 1 .. n : ms[i] = acc.mints[i]
      BY <2>1, <2>6
    <2>8. \A i \in 1 .. n + 1 : i \in 1 .. n \/ i = n + 1
      BY <2>1
    <2>9. \A i \in 1 .. n : acc.mints[i] \in acc.paid
      BY DEF BooksOf, Books
    <2>10. \A i, j \in 1 .. n : acc.mints[i] = acc.mints[j] => i = j
      BY DEF BooksOf, Books
    <2>11. OwnSigned => \A i \in 1 .. n : acc.chain.blocks[i].to = Author[acc.mints[i]]
      BY DEF BooksOf, Books
    <2>12. OwnSigned => Payee(rec) = Author[g.cid]
      BY <1>2 DEF OwnSigned, Payee
    <2> HIDE DEF ms, n
    <2>13. \A i \in 1 .. n + 1 : ms[i] \in paid
      BY <2>7, <2>8, <2>9
    <2>14. \A i, j \in 1 .. n + 1 : ms[i] = ms[j] => i = j
      <3>1. \A i \in 1 .. n : ms[i] # ms[n + 1]
        BY <1>2, <2>7, <2>9
      <3> QED
        BY <2>7, <2>8, <2>10, <3>1
    <2>15. OwnSigned => \A i \in 1 .. n + 1 : ch.blocks[i].to = Author[ms[i]]
      BY <2>2, <2>5, <2>7, <2>8, <2>11, <2>12
    <2> HIDE DEF paid
    <2>16. Books(ch, paid, ms)
      BY <2>4, <2>5, <2>7, <2>13, <2>14, <2>15 DEF Books
    <2> QED
      BY <1>2, <2>16 DEF BooksOf
  <1>3. \/ Pay(acc, g, rec, answer) = acc
        \/ SigOk(rec) /\ g.cid \notin acc.paid
           /\ Pay(acc, g, rec, answer) = [chain |-> ch, paid |-> paid, mints |-> ms]
    BY DEF Pay
  <1> QED
    BY <1>1, <1>2, <1>3

\* The payments of a batch keep the books.
LEMMA PaysBooks ==
  ASSUME NEW S, IsFiniteSet(S), NEW p, p.kind = "pay", BooksOf(p.base),
         \A g \in S : RecOf(g.cid) \in Records /\ RecOf(g.cid).cid = g.cid
  PROVE  BooksOf(Fold(p, S))
  <1> DEFINE bad == {T \in SUBSET S : ~BooksOf(Fold(p, T))}
  <1>1. SUFFICES ASSUME bad # {} PROVE FALSE
    OBVIOUS
  <1>2. PICK T \in bad : \A W \in bad : W \subseteq T => W = T
    <2>1. bad \subseteq SUBSET S
      OBVIOUS
    <2> HIDE DEF bad
    <2> QED
      BY <1>1, <2>1, LeastSet
  <1>3. T \subseteq S /\ IsFiniteSet(T) /\ ~BooksOf(Fold(p, T))
    BY <1>2, FS_Subset
  <1>4. Fold(p, T) = IF T = {} THEN p.base ELSE Step(p, AnyOne(T), Fold(p, T \ {AnyOne(T)}))
    BY <1>3, FoldSteps
  <1>5. T # {}
    BY <1>3, <1>4
  <1>6. AnyOne(T) \in T /\ BooksOf(Fold(p, T \ {AnyOne(T)}))
    BY <1>2, <1>5, AnyOf
  <1> DEFINE g == AnyOne(T)
             acc == Fold(p, T \ {g})
  <1>7. Step(p, g, acc) = Pay(acc, g, RecOf(g.cid), p.by)
    BY DEF Step
  <1>8. RecOf(g.cid) \in Records /\ RecOf(g.cid).cid = g.cid
    BY <1>3, <1>6
  <1> HIDE DEF acc, g
  <1>9. BooksOf(Pay(acc, g, RecOf(g.cid), p.by))
    BY <1>6, <1>8, PayBooks DEF acc, g
  <1> QED
    BY <1>3, <1>4, <1>5, <1>7, <1>9 DEF acc, g

\* The payments of MergeAndPay are such a fold.
PaidOut(base, answer, S) ==
  FoldSet(LAMBDA g, acc : Pay(acc, g, (CHOOSE c \in batch : c.rec.cid = g.cid).rec, answer),
          base, S)

Paying(base, answer) == [kind |-> "pay", base |-> base, by |-> answer]

LEMMA PaysAreFold ==
  ASSUME NEW base, NEW answer, NEW S
  PROVE  PaidOut(base, answer, S) = Fold(Paying(base, answer), S)
  <1> DEFINE P(h) == h = [T \in SUBSET S |-> IF T = {} THEN base
                            ELSE Pay(h[T \ {AnyOne(T)}], AnyOne(T), RecOf(AnyOne(T).cid), answer)]
  <1>1. PaidOut(base, answer, S) = (CHOOSE h : P(h))[S]
    BY DEF PaidOut, FoldSet, MapThenFoldSet, AnyOne, RecOf
  <1>2. \A x, acc : Step(Paying(base, answer), x, acc) = Pay(acc, x, RecOf(x.cid), answer)
    BY DEF Step, Paying
  <1>3. Paying(base, answer).base = base
    BY DEF Paying
  <1>4. \A h : P(h) <=> IterOn(h, Paying(base, answer), S)
    BY <1>2, <1>3 DEF IterOn
  <1> HIDE DEF P
  <1>5. (CHOOSE h : P(h)) = (CHOOSE h : IterOn(h, Paying(base, answer), S))
    BY <1>4
  <1> QED
    BY <1>1, <1>5 DEF Fold
-----------------------------------------------------------------------------
(* Each cid is queued once, and is once in a batch.                          *)

Distinct ==
  /\ \A i, j \in 1 .. Len(queue) : queue[i].rec.cid = queue[j].rec.cid => i = j
  /\ \A i \in 1 .. Len(queue) : queue[i].rec.cid \in seen
  /\ \A c, d \in batch : c.rec.cid = d.rec.cid => c = d
  /\ \A c \in batch : c.vote # "none" => c.gain \in Gains

LEMMA PollDistinct ==
  ASSUME QueueInv, Distinct, NEW up, NEW fetched, Poll(up, fetched)
  PROVE  Distinct'
  <1>1. PICK view \in PollContribRecords(up), new \in Seq(Records) :
          /\ queue' = queue \o [i \in DOMAIN new |-> [rec |-> new[i], age |-> 0]]
          /\ seen' = seen \cup {new[i].cid : i \in DOMAIN new}
          /\ \A i \in DOMAIN new : new[i] \in view /\ new[i].cid \notin seen
          /\ \A i, j \in DOMAIN new : new[i] = new[j] => i = j
    BY PollAppends DEF QueueInv
  <1>2. \A r, q \in view : r.cid = q.cid => r = q
    BY ViewOf
  <1> DEFINE n == Len(queue)
             k == Len(new)
  <1>3. /\ n \in Nat /\ k \in Nat /\ DOMAIN new = 1 .. k /\ Len(queue') = n + k
        /\ \A i \in 1 .. n : queue'[i] = queue[i]
        /\ \A i \in n + 1 .. n + k :
             /\ i - n \in 1 .. k
             /\ queue'[i] = [rec |-> new[i - n], age |-> 0]
    BY <1>1, Appended DEF QueueInv
  <1>4. batch' = batch
    BY DEF Poll
  <1> HIDE DEF n, k
  <1>5. \A i \in n + 1 .. n + k : queue'[i].rec = new[i - n] /\ i - n \in 1 .. k
    <2>1. \A r : [rec |-> r, age |-> 0].rec = r
      OBVIOUS
    <2> QED
      BY <1>3, <2>1
  <1>6. \A i \in 1 .. n + k : i \in 1 .. n \/ i \in n + 1 .. n + k
    BY <1>3
  <1>7. \A i, j \in 1 .. k : new[i].cid = new[j].cid => i = j
    BY <1>1, <1>2, <1>3
  <1>8. \A i \in 1 .. k : new[i].cid \notin seen /\ new[i].cid \in seen'
    BY <1>1, <1>3
  <1>9. \A i \in 1 .. n : queue'[i].rec.cid \in seen /\ seen \subseteq seen'
    BY <1>1, <1>3 DEF Distinct, n
  <1>10. \A i, j \in 1 .. n : queue'[i].rec.cid = queue'[j].rec.cid => i = j
    BY <1>3 DEF Distinct, n
  <1>11. \A i \in n + 1 .. n + k : queue'[i].rec.cid \notin seen /\ queue'[i].rec.cid \in seen'
    BY <1>5, <1>8
  <1>12. \A i, j \in n + 1 .. n + k : queue'[i].rec.cid = queue'[j].rec.cid => i = j
    <2> TAKE i, j \in n + 1 .. n + k
    <2> HAVE queue'[i].rec.cid = queue'[j].rec.cid
    <2>1. i - n = j - n
      BY <1>5, <1>7
    <2> QED
      BY <1>3, <2>1
  <1>13. \A i, j \in 1 .. n + k : queue'[i].rec.cid = queue'[j].rec.cid => i = j
    BY <1>6, <1>9, <1>10, <1>11, <1>12
  <1>14. \A i \in 1 .. n + k : queue'[i].rec.cid \in seen'
    BY <1>6, <1>9, <1>11
  <1> QED
    BY <1>3, <1>4, <1>13, <1>14 DEF Distinct

LEMMA DistinctStep ==
  ASSUME QueueInv, BatchType, Distinct, [Next]_vars
  PROVE  Distinct'
  <1>1. CASE UNCHANGED <<queue, seen, batch>>
    BY <1>1 DEF Distinct
  <1>2. CASE Restart
    <2>1. Len(<<>>) = 0
      OBVIOUS
    <2> QED
      BY <1>2, <2>1 DEF Restart, Distinct
  <1>3. CASE UNCHANGED <<queue, seen>> /\ batch' = {}
    BY <1>3 DEF Distinct
  <1>4. ASSUME NEW up, NEW fetched, Poll(up, fetched) PROVE Distinct'
    BY <1>4, PollDistinct
  <1>5. CASE Tick
    <2>1. /\ queue' = [i \in DOMAIN queue |-> [queue[i] EXCEPT !.age = @ + 1]]
          /\ seen' = seen /\ batch' = batch
      BY <1>5 DEF Tick
    <2>2. QueueType'
      BY QueueStep DEF QueueInv
    <2>3. DOMAIN queue = 1 .. Len(queue) /\ Len(queue) \in Nat
      BY DEF QueueInv, QueueType
    <2>4. DOMAIN queue' = 1 .. Len(queue') /\ Len(queue') \in Nat
      BY <2>2 DEF QueueType
    <2>5. Len(queue') = Len(queue)
      BY <2>1, <2>3, <2>4
    <2>6. \A i \in 1 .. Len(queue) : queue[i] \in [rec : Records, age : Nat]
      <3> DEFINE E == [rec : Records, age : Nat]
      <3>1. queue \in Seq(E)
        BY DEF QueueInv, QueueType
      <3> HIDE DEF E
      <3>2. \A i \in 1 .. Len(queue) : queue[i] \in E
        BY ONLY <3>1
      <3> QED
        BY <3>2 DEF E
    <2>7. \A i \in 1 .. Len(queue) : queue'[i].rec = queue[i].rec
      BY <2>1, <2>3, <2>6
    <2> QED
      BY <2>1, <2>5, <2>7 DEF Distinct
  <1>6. CASE Gather
    <2> DEFINE n == BatchSize
               cand(i) == [rec |-> queue[i].rec, gain |-> 0, vote |-> "none"]
    <2>1. /\ n \in 0 .. Len(queue) /\ Len(queue') = Len(queue) - n /\ Len(queue) \in Nat
          /\ \A i \in 1 .. Len(queue') : queue'[i] = queue[i + n]
      BY <1>6, Gathered DEF QueueInv, QueueType
    <2>2. batch' = {cand(i) : i \in 1 .. n} /\ seen' = seen
      BY <1>6 DEF Gather
    <2> HIDE DEF n
    <2>3. \A i \in 1 .. Len(queue') : i + n \in 1 .. Len(queue)
      BY <2>1
    <2>4. \A i \in 1 .. Len(queue') : queue'[i].rec.cid \in seen'
      BY <2>1, <2>2, <2>3 DEF Distinct
    <2>5. ASSUME NEW i \in 1 .. Len(queue'), NEW j \in 1 .. Len(queue'),
                 queue'[i].rec.cid = queue'[j].rec.cid
          PROVE  i = j
      <3>1. i + n = j + n
        BY <2>1, <2>3, <2>5 DEF Distinct
      <3> QED
        BY <2>1, <3>1
    <2>6. \A i \in 1 .. n : i \in 1 .. Len(queue)
      BY <2>1
    <2>7. \A i, j \in 1 .. n : cand(i).rec.cid = cand(j).rec.cid => i = j
      BY <2>6 DEF Distinct
    <2>8. \A c, d \in batch' : c.rec.cid = d.rec.cid => c = d
      <3> HIDE DEF cand
      <3> QED
        BY <2>2, <2>7
    <2>9. \A c \in batch' : c.vote = "none"
      BY <2>2
    <2> QED
      BY <2>4, <2>5, <2>8, <2>9 DEF Distinct
  <1>7. ASSUME NEW c \in batch, NEW gain \in Gains, NEW selected, NEW ok, NEW lie, NEW inTime,
               NEW late, Vote(c, gain, selected, inTime, ok, lie, late)
        PROVE  Distinct'
    <2>1. PICK vote \in {"stays", "vetoed"} :
            batch' = (batch \ {c}) \cup {[c EXCEPT !.gain = gain, !.vote = vote]}
      BY <1>7 DEF Vote
    <2>2. c \in Candidates
      BY DEF BatchType
    <2>3. [c EXCEPT !.gain = gain, !.vote = vote].rec = c.rec
          /\ [c EXCEPT !.gain = gain, !.vote = vote].gain = gain
      BY <2>2 DEF Candidates
    <2>4. queue' = queue /\ seen' = seen
      BY <1>7 DEF Vote
    <2>5. \A b \in batch' : b \in batch \ {c} \/ (b.rec = c.rec /\ b.gain = gain
                              /\ b = [c EXCEPT !.gain = gain, !.vote = vote])
      BY <2>1, <2>3
    <2>6. \A b, d \in batch' : b.rec.cid = d.rec.cid => b = d
      BY <2>5 DEF Distinct
    <2>7. \A b \in batch' : b.vote # "none" => b.gain \in Gains
      BY <2>5 DEF Distinct
    <2> QED
      BY <2>4, <2>6, <2>7 DEF Distinct
  <1>8. \/ UNCHANGED <<queue, seen, batch>>
        \/ UNCHANGED <<queue, seen>> /\ batch' = {}
        \/ Restart \/ Tick \/ Gather \/ \E up, fetched : Poll(up, fetched)
        \/ \E c \in batch, gain \in Gains : \E selected, ok, lie, inTime, late :
             Vote(c, gain, selected, inTime, ok, lie, late)
    BY DEF Next, vars, Publish, MergeAndPay, Checkpoint
  <1> QED
    BY <1>1, <1>2, <1>3, <1>4, <1>5, <1>6, <1>7, <1>8
\* A merge credits finitely many.
LEMMA CreditsFinite ==
  ASSUME NEW cands, IsFiniteSet(cands), NEW res \in MergeResults(cands)
  PROVE  IsFiniteSet(res.gains)
  <1> DEFINE pos == Positive(cands)
  <1>1. IsFiniteSet(pos)
    BY FS_Subset DEF Positive
  <1>2. ASSUME NEW t, res = Combined(cands, t) PROVE IsFiniteSet(res.gains)
    <2> DEFINE F == [c \in pos |-> [cid |-> c.rec.cid, gain |-> (t * c.gain) \div GainSum(pos)]]
    <2>1. res.gains = {F[c] : c \in pos}
      BY <1>2 DEF Combined
    <2> HIDE DEF F, pos
    <2> QED
      BY <1>1, <2>1, ImageFinite
  <1>3. ASSUME NEW then, res = SerialFallback(cands, then) PROVE IsFiniteSet(res.gains)
    <2> DEFINE F == [c \in pos |-> [cid |-> c.rec.cid, gain |-> then[c.rec.cid]]]
               best == Best(pos)
               help == {c \in pos \ {best} : then[c.rec.cid] > 0}
    <2>1. res.gains = {[cid |-> best.rec.cid, gain |-> best.gain]} \cup {F[c] : c \in help}
      BY <1>3 DEF SerialFallback, Best
    <2>2. IsFiniteSet(help)
      BY <1>1, FS_Subset
    <2> HIDE DEF F, help, best
    <2>3. IsFiniteSet({F[c] : c \in help})
      BY <2>2, ImageFinite
    <2> DEFINE A == {F[c] : c \in help}
               b == [cid |-> best.rec.cid, gain |-> best.gain]
    <2>4. IsFiniteSet(A) /\ res.gains = {b} \cup A
      BY <2>1, <2>3
    <2> HIDE DEF A, b
    <2> QED
      BY <2>4, FS_AddElement
  <1>4. CASE res.gains = {}
    BY <1>4, FS_EmptySet
  <1>5. \/ res = [drop |-> 0, gains |-> {}]
        \/ res = Combined(cands, GainSum(cands))
        \/ \E t : res = Combined(cands, t)
        \/ \E then : res = SerialFallback(cands, then)
    BY DEF MergeResults
  <1> HIDE DEF pos
  <1> QED
    BY <1>2, <1>3, <1>4, <1>5
-----------------------------------------------------------------------------
(* A merge adds to the trunk what it brings the loss down by.                *)

Trunk(r, d, m) ==
  /\ d \in Nat /\ IsFiniteSet(m)
  /\ \A x \in m : x.gain \in Nat /\ x.round \in Nat /\ x.round <= r
  /\ d = GainSum(m)

\* The candidates that stayed may be merged.
LEMMA StayedVoted ==
  ASSUME BatchType, Distinct
  PROVE  Voted({c \in batch : c.vote = "stays"})
  <1> DEFINE cands == {c \in batch : c.vote = "stays"}
  <1>1. IsFiniteSet(cands)
    BY FS_Subset DEF BatchType
  <1>2. ASSUME NEW c \in cands PROVE c \in [rec : Records, gain : Gains, vote : {"stays"}]
    <2>1. c \in Candidates /\ c.vote = "stays" /\ c.gain \in Gains
      BY <1>2 DEF BatchType, Distinct
    <2> QED
      BY <2>1 DEF Candidates
  <1>3. \A c, d \in cands : c.rec.cid = d.rec.cid => c = d
    BY DEF Distinct
  <1> QED
    BY <1>1, <1>2, <1>3 DEF Voted

LEMMA MergeTrunk ==
  ASSUME SharesWhole, BatchType, Distinct, round \in Nat, Trunk(round, drop, merged),
         NEW res \in MergeResults({c \in batch : c.vote = "stays"})
  PROVE  Trunk(round + 1, drop + res.drop, merged \cup
           {[cid |-> g.cid, round |-> round + 1, gain |-> g.gain] : g \in res.gains})
  <1> DEFINE gs == res.gains
             F == [g \in gs |-> [cid |-> g.cid, round |-> round + 1, gain |-> g.gain]]
             new == {F[g] : g \in gs}
             all == merged \cup new
  <1>1. res.drop \in Nat /\ Credits(gs) /\ GainSum(gs) = res.drop
    BY StayedVoted, MergeSum
  <1>2. new = {[cid |-> g.cid, round |-> round + 1, gain |-> g.gain] : g \in gs}
    OBVIOUS
  <1>3. \A g \in gs : F[g].gain = g.gain /\ F[g].cid = g.cid /\ F[g].round = round + 1
    OBVIOUS
  <1>4. \A g \in gs : g \in [cid : {g.cid}, gain : Nat]
    BY <1>1 DEF Credits
  <1>5. \A g, h \in gs : F[g] = F[h] => g = h
    <2>1. \A g, h \in gs : g.cid = h.cid /\ g.gain = h.gain => g = h
      BY <1>4
    <2> HIDE DEF F, gs
    <2> QED
      BY <1>3, <2>1
  <1>6. \A g \in gs : g.gain \in Nat
    BY <1>4
  <1>7. IsFiniteSet(gs)
    BY <1>1 DEF Credits
  <1> HIDE DEF gs, F
  <1>8. IsFiniteSet(new)
    BY <1>7, ImageFinite
  <1>9. \A x \in new : x.gain \in Nat /\ x.round = round + 1
    BY <1>3, <1>6
  <1>10. \A x \in merged : x.gain \in Nat /\ x.round \in Nat /\ x.round <= round
    BY DEF Trunk
  <1>11. IsFiniteSet(merged) /\ drop \in Nat /\ drop = GainSum(merged)
    BY DEF Trunk
  <1> HIDE DEF new
  <1>12. merged \cap new = {}
    <2> SUFFICES ASSUME NEW x \in merged, x \in new PROVE FALSE
      OBVIOUS
    <2>1. x.round \in Nat /\ x.round <= round /\ x.round = round + 1
      BY <1>9, <1>10
    <2> QED
      BY <2>1
  <1>13. \A x \in all : x.gain \in Nat /\ x.round \in Nat /\ x.round <= round + 1
    <2> TAKE x \in all
    <2>1. CASE x \in merged
      BY <1>10, <2>1
    <2>2. CASE x \in new
      BY <1>9, <2>2
    <2> QED
      BY <2>1, <2>2
  <1>14. IsFiniteSet(all)
    BY <1>8, <1>11, FS_Union
  <1>15. SumOn(GainOf(all), all) = SumOn(GainOf(all), merged) + SumOn(GainOf(all), new)
    <2>1. \A x \in merged \cup new : GainOf(all)[x] \in Nat
      BY <1>13 DEF GainOf
    <2> QED
      BY <1>8, <1>11, <1>12, <2>1, SumUnion
  <1>16. SumOn(GainOf(all), merged) = SumOn(GainOf(merged), merged)
    <2>1. \A x \in merged : GainOf(all)[x] = GainOf(merged)[x]
      BY DEF GainOf
    <2> HIDE DEF all
    <2> QED
      BY <1>11, <2>1, SumSame
  <1>17. SumOn(GainOf(all), new) = SumOn(GainOf(gs), gs)
    <2>1. \A g \in gs : GainOf(gs)[g] \in Nat /\ GainOf(all)[F[g]] = GainOf(gs)[g]
      <3>1. \A g \in gs : F[g] \in all
        BY DEF new
      <3> HIDE DEF all
      <3> QED
        BY <1>3, <1>6, <3>1 DEF GainOf
    <2> HIDE DEF all
    <2> QED
      BY <1>5, <1>7, <2>1, SumImage DEF new
  <1> HIDE DEF all
  <1>18. GainSum(all) = drop + res.drop
    BY <1>1, <1>11, <1>15, <1>16, <1>17, GainSums
  <1>19. drop + res.drop \in Nat
    BY <1>1, <1>11
  <1>20. Trunk(round + 1, drop + res.drop, all)
    BY <1>13, <1>14, <1>18, <1>19 DEF Trunk
  <1> QED
    BY <1>2, <1>20 DEF all, gs

\* The payments of a merge keep the books.
LEMMA MergeBooks ==
  ASSUME BatchType, Distinct, Books(chain, paid_cids, mints),
         NEW res \in MergeResults({c \in batch : c.vote = "stays"}), NEW answer,
         NEW after,
         after = PaidOut([chain |-> chain, paid |-> paid_cids, mints |-> mints], answer, res.gains)
  PROVE  Books(after.chain, after.paid, after.mints)
  <1> DEFINE base == [chain |-> chain, paid |-> paid_cids, mints |-> mints]
             cands == {c \in batch : c.vote = "stays"}
  <1>1. after = Fold(Paying(base, answer), res.gains)
    BY PaysAreFold
  <1>2. Voted(cands)
    BY StayedVoted
  <1>3. cands \subseteq Candidates /\ IsFiniteSet(cands)
    BY FS_Subset DEF BatchType
  <1>4. \A g \in res.gains : \E c \in cands : g.cid = c.rec.cid
    <2> HIDE DEF cands
    <2> QED
      BY <1>3, CreditsOf DEF cands
  <1>5. ASSUME NEW g \in res.gains
        PROVE  RecOf(g.cid) \in Records /\ RecOf(g.cid).cid = g.cid
    <2>1. \E c \in batch : c.rec.cid = g.cid
      BY <1>4
    <2>2. \A c \in batch : c.rec \in Records
      BY DEF BatchType, Candidates
    <2> QED
      BY <2>1, <2>2 DEF RecOf
  <1>6. IsFiniteSet(res.gains)
    <2> HIDE DEF cands
    <2> QED
      BY <1>3, CreditsFinite DEF cands
  <1>7. Paying(base, answer).kind = "pay" /\ Paying(base, answer).base = base /\ BooksOf(base)
    BY DEF Paying, BooksOf
  <1> HIDE DEF base, cands
  <1> QED
    BY <1>1, <1>5, <1>6, <1>7, PaysBooks DEF BooksOf
-----------------------------------------------------------------------------
(* The books and the trunk, live and in the checkpoint.                      *)

BooksInv ==
  /\ QueueInv /\ BatchType /\ Distinct
  /\ round \in Nat /\ ckpt.round \in Nat
  /\ Books(chain, paid_cids, mints)
  /\ Books(Restored(ckpt.blocks), ckpt.paid_cids, ckpt.mints)
  /\ SharesWhole => Trunk(round, drop, merged) /\ Trunk(ckpt.round, ckpt.drop, ckpt.merged)

LEMMA BooksStep ==
  ASSUME BooksInv, [Next]_vars
  PROVE  BooksInv'
  <1>1. QueueInv' /\ BatchType' /\ Distinct'
    BY BatchStep, QueueStep, DistinctStep DEF BooksInv, QueueInv
  <1>2. CASE UNCHANGED <<disk, ckpt>>
    BY <1>1, <1>2 DEF BooksInv, disk
  <1>3. CASE Checkpoint
    <2>1. /\ UNCHANGED <<round, drop, merged, chain, paid_cids, mints>>
          /\ ckpt' = [round |-> round, drop |-> drop, merged |-> merged, blocks |-> chain.blocks,
                      paid_cids |-> paid_cids, mints |-> mints]
      BY <1>3 DEF Checkpoint, Snapshot, disk
    <2>2. Restored(chain.blocks) = chain
      BY SoundRestored DEF BooksInv, Books
    <2> QED
      BY <1>1, <2>1, <2>2 DEF BooksInv
  <1>4. CASE Restart
    BY <1>1, <1>4 DEF Restart, BooksInv
  <1>5. ASSUME NEW answer, MergeAndPay(answer) PROVE BooksInv'
    <2> DEFINE cands == {c \in batch : c.vote = "stays"}
               base == [chain |-> chain, paid |-> paid_cids, mints |-> mints]
               paying(res) == PaidOut(base, answer, res.gains)
    <2>1. PICK res \in MergeResults(cands) :
            /\ drop' = drop + res.drop
            /\ merged' = merged \cup
                 {[cid |-> g.cid, round |-> round + 1, gain |-> g.gain] : g \in res.gains}
            /\ chain' = paying(res).chain /\ paid_cids' = paying(res).paid
            /\ mints' = paying(res).mints
      BY <1>5 DEF MergeAndPay, PaidOut
    <2>2. round' = round + 1 /\ ckpt' = ckpt
      BY <1>5 DEF MergeAndPay
    <2>3. Books(chain', paid_cids', mints')
      <3>1. Books(paying(res).chain, paying(res).paid, paying(res).mints)
        BY MergeBooks DEF BooksInv
      <3> HIDE DEF paying
      <3> QED
        BY <2>1, <3>1
    <2>4. SharesWhole => Trunk(round', drop', merged')
      <3> SUFFICES ASSUME SharesWhole PROVE Trunk(round', drop', merged')
        OBVIOUS
      <3>1. Trunk(round + 1, drop + res.drop, merged \cup
              {[cid |-> g.cid, round |-> round + 1, gain |-> g.gain] : g \in res.gains})
        BY MergeTrunk DEF BooksInv
      <3> QED
        BY <2>1, <2>2, <3>1
    <2>5. round' \in Nat
      BY <2>2 DEF BooksInv
    <2> QED
      BY <1>1, <2>2, <2>3, <2>4, <2>5 DEF BooksInv
  <1>6. ASSUME NEW c \in batch, NEW gain \in Gains, NEW selected, NEW ok, NEW lie, NEW inTime,
               NEW late, Vote(c, gain, selected, inTime, ok, lie, late)
        PROVE  UNCHANGED <<disk, ckpt>>
    BY <1>6 DEF Vote
  <1>7. \/ UNCHANGED <<disk, ckpt>> \/ Checkpoint \/ Restart \/ \E answer : MergeAndPay(answer)
        \/ \E c \in batch, gain \in Gains : \E selected, ok, lie, inTime, late :
             Vote(c, gain, selected, inTime, ok, lie, late)
    BY DEF Next, vars, disk, Publish, Poll, Tick, Gather
  <1> QED
    BY <1>2, <1>3, <1>4, <1>5, <1>6, <1>7

LEMMA BooksHold == Spec => []BooksInv
  <1>1. Init => BooksInv
    <2> SUFFICES ASSUME Init PROVE BooksInv
      OBVIOUS
    <2>1. QueueInv /\ BatchType /\ Distinct
      BY FS_EmptySet DEF Init, QueueInv, QueueType, WaitBounded, BatchType, Distinct
    <2>2. Books(EmptyChain, {}, <<>>)
      BY EmptyChainSound DEF Books, EmptyChain
    <2>3. Trunk(0, 0, {})
      <3>1. GainSum({}) = 0
        BY GainSums, SumSteps, FS_EmptySet
      <3> QED
        BY <3>1, FS_EmptySet DEF Trunk
    <2>4. Restored(EmptyChain.blocks) = EmptyChain
      BY EmptyChainSound, SoundRestored
    <2>5. /\ round = 0 /\ drop = 0 /\ merged = {} /\ mints = <<>> /\ chain = EmptyChain
          /\ paid_cids = {}
          /\ ckpt = [round |-> 0, drop |-> 0, merged |-> {}, blocks |-> EmptyChain.blocks,
                     paid_cids |-> {}, mints |-> <<>>]
      BY DEF Init, Snapshot
    <2> QED
      BY <2>1, <2>2, <2>3, <2>4, <2>5 DEF BooksInv
  <1>2. BooksInv /\ [Next]_vars => BooksInv'
    BY BooksStep
  <1> QED
    BY <1>1, <1>2, PTL DEF Spec

(* No delta is paid twice on one chain and the chain replays to its balances *)
(* (mark_paid, already_paid, from_state, verify), with no hypothesis: for    *)
(* every batch, committee and settlement mode, and however often the process *)
(* restarts from a checkpoint whose deltas it then polls again.              *)
THEOREM PaysOnce == Spec => [](PaidOnce /\ ChainVerifies)
  <1>1. BooksInv => PaidOnce /\ ChainVerifies
    <2> SUFFICES ASSUME BooksInv PROVE PaidOnce /\ ChainVerifies
      OBVIOUS
    <2>1. Books(chain, paid_cids, mints)
      BY DEF BooksInv
    <2>2. PaidOnce
      <3>1. DOMAIN mints = 1 .. Len(mints)
        BY <2>1 DEF Books
      <3> QED
        BY <2>1, <3>1 DEF Books, PaidOnce
    <2>3. Sound(chain)
      BY <2>1 DEF Books
    <2> QED
      BY <2>2, <2>3 DEF Sound, ChainVerifies, Verify, VerifyPublicChain, BlockReplays
  <1> QED
    BY <1>1, BooksHold, PTL

(* Who is paid is the author, once, and what the merges were credited with   *)
(* is what the loss came down by (apply_deltas_weighted_gated, settle): where *)
(* a delta is signed for by its author only and shares are whole units, for  *)
(* every set of records, authors and drops of the loss.                      *)
THEOREM PaymentsAreRight ==
  ASSUME OwnSigned, SharesWhole
  PROVE  Spec => []PaidRight
  <1>1. BooksInv => AuthorPaid /\ GainsConserved
    <2> SUFFICES ASSUME BooksInv PROVE AuthorPaid /\ GainsConserved
      OBVIOUS
    <2>1. Books(chain, paid_cids, mints) /\ Trunk(round, drop, merged)
      BY DEF BooksInv
    <2>2. DOMAIN mints = 1 .. Len(mints)
      BY <2>1 DEF Books
    <2> QED
      BY <2>1, <2>2 DEF Books, Trunk, AuthorPaid, GainsConserved
  <1>2. PaidOnce /\ ChainVerifies /\ AuthorPaid /\ GainsConserved => PaidRight
    BY DEF PaidRight
  <1> QED
    BY <1>1, <1>2, BooksHold, PaysOnce, PTL
=============================================================================
