----------------------------- MODULE PartsProofs -----------------------------
(***************************************************************************)
(* What is proved of the parts that the run parts steps side by side: the  *)
(* expert host, the corpus, the product judge, the synchronous lane, the   *)
(* publication names, the layer claim caches, the expert round, the two    *)
(* memory managers, the stages of a pipeline, the search for the dose; and *)
(* at the end all of them side by side.                                    *)
(*                                                                         *)
(* Up to there every lemma and theorem is about ONE instance of Parts, and *)
(* a theorem holds of its steps alone, whatever else happens beside them   *)
(* and whether its fairness is granted or not.                             *)
(***************************************************************************)
EXTENDS Parts, FiniteSetTheorems, NaturalsInduction, WellFoundedInduction, TLAPS

-----------------------------------------------------------------------------
(* ExpertHost.                                                              *)

Weights == Seq(Nat)
Entries == {Host!View, Host!NoEntry} \cup {Host!Own(w) : w \in Weights}
Contribution == [slot : Nat, id : Nat, ok : BOOLEAN]

HostType ==
  /\ slots \in Seq(HostCoords) /\ active \subseteq DOMAIN slots
  /\ model \in [HostCoords -> Weights] /\ start \in [HostCoords -> Weights]
  /\ hostBase \in Seq(Entries) /\ Len(hostBase) <= Len(slots)
  /\ experts \in Seq(Entries) /\ Len(experts) <= Len(slots)
  /\ hostBatch \in Seq(Contribution) /\ hostCount \in Nat /\ inRound \in BOOLEAN
  /\ accepted \subseteq [slot : Nat, coord : HostCoords, id : Nat]
  /\ hostPc \in {"idle", "event", "ce base", "between", "ce merged", "judged"}

\* An index names one coordinate for ever.
Registry ==
  /\ \A i, j \in DOMAIN slots : slots[i] = slots[j] => i = j
  /\ \A r \in accepted : r.slot \in DOMAIN slots /\ slots[r.slot] = r.coord /\ r.id <= hostCount

\* A contribution waits once, for a slot that is live, and was not accepted before.
Waiting ==
  /\ \A k \in DOMAIN hostBatch : hostBatch[k].slot \in active /\ hostBatch[k].id <= hostCount
  /\ \A k, l \in DOMAIN hostBatch : k < l => hostBatch[k].id # hostBatch[l].id
  /\ \A k \in DOMAIN hostBatch : \A r \in accepted : r.id # hostBatch[k].id

\* In an event a live slot has both entries, and a snapshot is what the model was.
Entered(list) == \A i \in active : i \in DOMAIN list /\ list[i] # Host!NoEntry
Snapped ==
  hostPc # "idle" =>
    /\ inRound /\ Entered(hostBase) /\ Entered(experts)
    /\ \A i \in DOMAIN hostBase : hostBase[i] # Host!NoEntry => hostBase[i] = Host!Own(start[slots[i]])

Judging == hostPc \notin {"idle", "event"} => hostBatch # <<>> /\ ~Host!Drops

\* These weights hold every delta accepted for c once, and nothing else.
Ids(c) == {r.id : r \in {q \in accepted : q.coord = c}}
Exact(w, c) ==
  /\ IsFiniteSet(Host!ToSet(w)) /\ Host!ToSet(w) = Ids(c)
  /\ Len(w) = Cardinality(Host!ToSet(w))

\* In an event an entry of its own holds them, or else the model of the start does.
Holding ==
  /\ hostPc = "idle" => \A c \in HostCoords : Exact(model[c], c)
  /\ hostPc # "idle" =>
       /\ \A i \in DOMAIN experts : experts[i].kind = "own" => Exact(experts[i].w, slots[i])
       /\ \A c \in HostCoords :
            (\A i \in DOMAIN experts : slots[i] = c => experts[i].kind # "own") =>
               Exact(start[c], c)

HostInv ==
  HostType /\ Registry /\ Waiting /\ Snapped /\ Judging /\ Host!GatedOnBase /\ Holding

LEMMA HostInit == Host!Init => HostInv
  <1> SUFFICES ASSUME Host!Init PROVE HostInv
    OBVIOUS
  <1>1. HostType
    <2>1. <<>> \in Weights /\ model \in [HostCoords -> Weights]
      BY DEF Host!Init, Weights
    <2>2. <<>> \in Seq(HostCoords) /\ <<>> \in Seq(Entries) /\ <<>> \in Seq(Contribution) /\ Len(<<>>) = 0
      OBVIOUS
    <2>3. start \in [HostCoords -> Weights] /\ active \subseteq DOMAIN slots /\ accepted = {}
      BY <2>1 DEF Host!Init
    <2>4. /\ slots = <<>> /\ hostBase = <<>> /\ experts = <<>> /\ hostBatch = <<>>
          /\ hostCount = 0 /\ inRound = FALSE /\ hostPc = "idle"
      BY DEF Host!Init
    <2>5. /\ slots \in Seq(HostCoords) /\ hostBase \in Seq(Entries) /\ experts \in Seq(Entries)
          /\ hostBatch \in Seq(Contribution)
      BY <2>2, <2>4
    <2>6. Len(hostBase) <= Len(slots) /\ Len(experts) <= Len(slots)
      BY <2>4
    <2>7. hostCount \in Nat /\ inRound \in BOOLEAN
      BY <2>4
    <2> QED
      BY <2>1, <2>3, <2>4, <2>5, <2>6, <2>7 DEF HostType
  <1>2. Registry /\ Waiting /\ Snapped /\ Judging /\ Host!GatedOnBase
    BY DEF Host!Init, Registry, Waiting, Snapped, Judging, Host!GatedOnBase
  <1>3. Host!ToSet(<<>>) = {}
    BY DEF Host!ToSet
  <1>4. Holding
    BY <1>3, FS_EmptySet DEF Host!Init, Holding, Exact, Ids
  <1> QED
    BY <1>1, <1>2, <1>4 DEF HostInv

LEMMA EntryKinds ==
  /\ Host!View # Host!NoEntry /\ Host!View.kind = "view" /\ Host!NoEntry.kind = "none"
  /\ \A w : Host!Own(w) # Host!NoEntry /\ Host!Own(w).kind = "own" /\ Host!Own(w).w = w
  BY DEF Host!View, Host!NoEntry, Host!Own

LEMMA EntryIs ==
  ASSUME NEW e \in Entries
  PROVE  \/ e = Host!NoEntry \/ e = Host!View
         \/ e.kind = "own" /\ e.w \in Weights /\ e = Host!Own(e.w)
  BY EntryKinds DEF Entries

LEMMA AppendIs ==
  ASSUME NEW S, NEW s \in Seq(S), NEW e \in S, NEW t, t = Append(s, e)
  PROVE  /\ t \in Seq(S) /\ Len(t) = Len(s) + 1 /\ t[Len(s) + 1] = e
         /\ DOMAIN t = DOMAIN s \cup {Len(s) + 1} /\ Len(s) + 1 \notin DOMAIN s
         /\ \A k \in DOMAIN s : t[k] = s[k]
  <1>1. Len(s) \in Nat /\ DOMAIN s = 1 .. Len(s)
    OBVIOUS
  <1>2. t \in Seq(S) /\ Len(t) = Len(s) + 1 /\ t[Len(s) + 1] = e /\ DOMAIN t = 1 .. Len(s) + 1
    OBVIOUS
  <1>3. 1 .. Len(s) + 1 = (1 .. Len(s)) \cup {Len(s) + 1} /\ Len(s) + 1 \notin 1 .. Len(s)
    BY <1>1
  <1>4. \A k \in DOMAIN s : t[k] = s[k]
    OBVIOUS
  <1> QED
    BY <1>1, <1>2, <1>3, <1>4

LEMMA TailIs ==
  ASSUME NEW S, NEW s \in Seq(S), s # <<>>
  PROVE  /\ Tail(s) \in Seq(S) /\ Len(Tail(s)) = Len(s) - 1 /\ Len(s) \in Nat \ {0}
         /\ Head(s) = s[1] /\ 1 \in DOMAIN s
         /\ \A k \in DOMAIN Tail(s) : k \in Nat /\ k + 1 \in DOMAIN s /\ Tail(s)[k] = s[k + 1]
  <1>1. Len(s) \in Nat \ {0} /\ DOMAIN s = 1 .. Len(s) /\ Head(s) = s[1]
    OBVIOUS
  <1>2. Tail(s) \in Seq(S) /\ Len(Tail(s)) = Len(s) - 1 /\ DOMAIN Tail(s) = 1 .. Len(s) - 1
    BY <1>1
  <1>3. \A k \in 1 .. Len(s) - 1 : Tail(s)[k] = s[k + 1]
    BY <1>1
  <1>4. \A k \in 1 .. Len(s) - 1 : k \in Nat /\ k + 1 \in 1 .. Len(s)
    BY <1>1
  <1> QED
    BY <1>1, <1>2, <1>3, <1>4

LEMMA HostShape ==
  ASSUME HostType
  PROVE  /\ Len(slots) \in Nat /\ DOMAIN slots = 1 .. Len(slots)
         /\ Len(hostBase) \in Nat /\ DOMAIN hostBase = 1 .. Len(hostBase) /\ Len(hostBase) <= Len(slots)
         /\ Len(experts) \in Nat /\ DOMAIN experts = 1 .. Len(experts) /\ Len(experts) <= Len(slots)
         /\ Len(hostBatch) \in Nat /\ DOMAIN hostBatch = 1 .. Len(hostBatch)
         /\ \A k \in DOMAIN hostBatch : hostBatch[k].id \in Nat /\ hostBatch[k].slot \in Nat
         /\ \A j \in DOMAIN hostBase : j \in DOMAIN slots
         /\ \A j \in DOMAIN experts : j \in DOMAIN slots
         /\ \A j \in DOMAIN slots : slots[j] \in HostCoords
  <1>1. /\ slots \in Seq(HostCoords) /\ hostBase \in Seq(Entries) /\ Len(hostBase) <= Len(slots)
        /\ experts \in Seq(Entries) /\ Len(experts) <= Len(slots) /\ hostBatch \in Seq(Contribution)
    BY DEF HostType
  <1>2. /\ Len(slots) \in Nat /\ DOMAIN slots = 1 .. Len(slots)
        /\ Len(hostBase) \in Nat /\ DOMAIN hostBase = 1 .. Len(hostBase)
        /\ Len(experts) \in Nat /\ DOMAIN experts = 1 .. Len(experts)
        /\ Len(hostBatch) \in Nat /\ DOMAIN hostBatch = 1 .. Len(hostBatch)
        /\ \A j \in DOMAIN slots : slots[j] \in HostCoords
    BY <1>1
  <1>3. \A k \in DOMAIN hostBatch : hostBatch[k] \in Contribution
    BY <1>1
  <1> QED
    BY <1>1, <1>2, <1>3 DEF Contribution

\* Filled: the entry is at i, the others are where they were, and the rest are holes.
FilledFrom(f, list, n, i, e) ==
  /\ f \in Seq(Entries) /\ Len(f) = n /\ f[i] = e
  /\ \A j \in DOMAIN list : j \in DOMAIN f /\ (j # i => f[j] = list[j])
  /\ \A j \in 1 .. n : j # i /\ j \notin DOMAIN list => f[j] = Host!NoEntry
LEMMA FilledIs ==
  ASSUME NEW list \in Seq(Entries), NEW n \in Nat, Len(list) <= n,
         NEW i \in 1 .. n, NEW e \in Entries, NEW f, f = Host!Filled(list, n, i, e)
  PROVE  FilledFrom(f, list, n, i, e)
  <1>1. f = [j \in 1 .. n |-> IF j = i THEN e ELSE IF j <= Len(list) THEN list[j] ELSE Host!NoEntry]
    BY DEF Host!Filled
  <1>2. DOMAIN list = 1 .. Len(list) /\ Len(list) \in Nat
    OBVIOUS
  <1>3. \A j \in DOMAIN list : list[j] \in Entries
    OBVIOUS
  <1>4. Host!NoEntry \in Entries
    BY DEF Entries
  <1>5. \A j \in 1 .. n : f[j] \in Entries
    BY <1>1, <1>2, <1>3, <1>4
  <1>6. f \in [1 .. n -> Entries]
    BY <1>1, <1>5
  <1>7. f \in Seq(Entries) /\ Len(f) = n /\ DOMAIN f = 1 .. n
    BY <1>1, <1>6
  <1> QED
    BY <1>1, <1>2, <1>7 DEF FilledFrom

\* register: a coordinate keeps its index or gets one of its own at the end.
LEMMA PlacedIs ==
  ASSUME HostType, Registry, NEW c \in HostCoords
  PROVE  LET s == Host!Placed(c)
             i == Host!Index(s, c) IN
         /\ s \in Seq(HostCoords) /\ Len(s) >= Len(slots)
         /\ \A j \in DOMAIN slots : j \in DOMAIN s /\ s[j] = slots[j]
         /\ i \in DOMAIN s /\ s[i] = c
         /\ \A j, k \in DOMAIN s : s[j] = s[k] => j = k
         /\ i \notin DOMAIN slots => ~Host!Known(c)
  <1> DEFINE s == Host!Placed(c)
             i == Host!Index(s, c)
  <1>1. slots \in Seq(HostCoords) /\ \A j, k \in DOMAIN slots : slots[j] = slots[k] => j = k
    BY DEF HostType, Registry
  <1>2. CASE Host!Known(c)
    <2>1. s = slots
      BY <1>2 DEF Host!Placed
    <2>2. \E j \in DOMAIN slots : slots[j] = c
      BY <1>2 DEF Host!Known
    <2>3. i \in DOMAIN s /\ s[i] = c
      BY <2>1, <2>2 DEF Host!Index
    <2> QED
      BY <1>1, <2>1, <2>3
  <1>3. CASE ~Host!Known(c)
    <2>1. s = Append(slots, c)
      BY <1>3 DEF Host!Placed
    <2>2. /\ s \in Seq(HostCoords) /\ Len(s) = Len(slots) + 1 /\ s[Len(slots) + 1] = c
          /\ \A j \in DOMAIN slots : j \in DOMAIN s /\ s[j] = slots[j]
          /\ \A j \in DOMAIN s : j \in DOMAIN slots \/ j = Len(slots) + 1
          /\ Len(slots) \in Nat /\ Len(slots) + 1 \in DOMAIN s
      BY <1>1, <2>1
    <2>3. \A j \in DOMAIN slots : slots[j] # c
      BY <1>3 DEF Host!Known
    <2>4. i \in DOMAIN s /\ s[i] = c
      BY <2>2 DEF Host!Index
    <2>5. \A j, k \in DOMAIN s : s[j] = s[k] => j = k
      BY <1>1, <2>2, <2>3
    <2> QED
      BY <1>3, <2>2, <2>4, <2>5
  <1> QED
    BY <1>2, <1>3


LEMMA AdmitKeeps ==
  ASSUME HostInv, NEW c \in HostCoords, NEW ok \in BOOLEAN, Host!Admit(c, ok)
  PROVE  HostInv'
  <1> DEFINE s == Host!Placed(c)
             i == Host!Index(s, c)
             new == [slot |-> i, id |-> hostCount + 1, ok |-> ok]
             fills == hostPc = "event" /\ (i > Len(experts) \/ experts[i] = Host!NoEntry)
  <1>1. /\ s \in Seq(HostCoords) /\ Len(s) >= Len(slots)
        /\ \A j \in DOMAIN slots : j \in DOMAIN s /\ s[j] = slots[j]
        /\ i \in DOMAIN s /\ s[i] = c
        /\ \A j, k \in DOMAIN s : s[j] = s[k] => j = k
    BY PlacedIs DEF HostInv
  <1>s. HostType /\ Registry /\ Waiting
    BY DEF HostInv
  <1>2. /\ slots' = s /\ active' = active \cup {i} /\ hostBatch' = Append(hostBatch, new)
        /\ hostCount' = hostCount + 1 /\ hostPc \in {"idle", "event"}
        /\ hostBase' = Host!Repaired(s, i)
        /\ experts' = IF fills THEN Host!Filled(experts, Len(s), i, Host!ReadSlot(s, i)) ELSE experts
        /\ UNCHANGED <<model, inRound, hostPc, start, accepted>>
    BY DEF Host!Admit
  <1>3. model[c] \in Weights /\ s[i] = c
    BY <1>1 DEF HostInv, HostType
  <1>4. Host!Own(model[c]) \in Entries /\ Host!View \in Entries
    BY <1>3 DEF Entries
  <1>5. Host!ReadSlot(s, i) \in {Host!View, Host!Own(model[c])}
    BY <1>1 DEF Host!ReadSlot
  <1>6. i \in 1 .. Len(s) /\ Len(s) \in Nat /\ Len(hostBase) <= Len(s) /\ Len(experts) <= Len(s)
    <2>1. Len(s) \in Nat /\ DOMAIN s = 1 .. Len(s)
      BY <1>1
    <2> QED
      BY <1>1, <1>s, <2>1, HostShape
  <1>7. hostBase \in Seq(Entries) /\ experts \in Seq(Entries)
    BY DEF HostInv, HostType
  <1> HIDE DEF s, i
  <1>8. /\ hostBase' \in Seq(Entries) /\ Len(hostBase') <= Len(s)
        /\ inRound => i \in DOMAIN hostBase' /\ hostBase'[i] = Host!Own(model[c])
        /\ \A j \in DOMAIN hostBase : j \in DOMAIN hostBase' /\ (j # i => hostBase'[j] = hostBase[j])
        /\ \A j \in DOMAIN hostBase' : j # i /\ j \notin DOMAIN hostBase => hostBase'[j] = Host!NoEntry
    <2>1. CASE inRound
      <3>1. hostBase' = Host!Filled(hostBase, Len(s), i, Host!Own(model[c]))
        BY <2>1, <1>2, <1>3 DEF Host!Repaired
      <3>2. Host!Own(model[c]) \in Entries
        BY <1>4
      <3>n. ASSUME NEW n \in Nat, n = Len(s), NEW e \in Entries, e = Host!Own(model[c])
            PROVE  /\ hostBase' \in Seq(Entries) /\ Len(hostBase') = n /\ hostBase'[i] = e
                   /\ \A j \in DOMAIN hostBase : j \in DOMAIN hostBase' /\ (j # i => hostBase'[j] = hostBase[j])
                   /\ \A j \in 1 .. n : j # i /\ j \notin DOMAIN hostBase => hostBase'[j] = Host!NoEntry
        <4>1. i \in 1 .. n /\ hostBase \in Seq(Entries) /\ Len(hostBase) <= n /\ hostBase' = Host!Filled(hostBase, n, i, e)
          BY ONLY <3>n, <3>1, <3>2, <1>6, <1>7
        <4>2. PICK l, f : l = hostBase /\ f = hostBase'
          OBVIOUS
        <4>3. i \in 1 .. n /\ l \in Seq(Entries) /\ Len(l) <= n /\ f = Host!Filled(l, n, i, e)
          BY ONLY <4>1, <4>2
        <4>4. FilledFrom(f, l, n, i, e)
          BY ONLY <3>n, <4>3, FilledIs
        <4> QED
          BY ONLY <4>2, <4>4 DEF FilledFrom
      <3>3. /\ hostBase' \in Seq(Entries) /\ Len(hostBase') = Len(s) /\ hostBase'[i] = Host!Own(model[c])
            /\ \A j \in DOMAIN hostBase : j \in DOMAIN hostBase' /\ (j # i => hostBase'[j] = hostBase[j])
            /\ \A j \in 1 .. Len(s) : j # i /\ j \notin DOMAIN hostBase => hostBase'[j] = Host!NoEntry
        BY ONLY <3>n, <3>1, <3>2, <1>6
      <3>4. DOMAIN hostBase' = 1 .. Len(s)
        BY <3>3
      <3> QED
        BY ONLY <3>3, <3>4, <1>6
    <2>2. CASE ~inRound
      BY <2>2, <1>2, <1>6, <1>7 DEF Host!Repaired
    <2> QED
      BY <2>1, <2>2
  <1>9. /\ experts' \in Seq(Entries) /\ Len(experts') <= Len(s)
        /\ hostPc = "event" => i \in DOMAIN experts' /\ experts'[i] # Host!NoEntry
        /\ \A j \in DOMAIN experts :
             j \in DOMAIN experts' /\ (experts[j] # Host!NoEntry => experts'[j] = experts[j])
        /\ \A j \in DOMAIN experts' :
             j \notin DOMAIN experts \/ experts[j] = Host!NoEntry =>
               \/ experts'[j] = Host!NoEntry
               \/ j = i /\ experts'[j] \in {Host!View, Host!Own(model[c])}
    <2>1. CASE fills
      <3>1. Host!ReadSlot(s, i) \in Entries /\ Host!ReadSlot(s, i) # Host!NoEntry
        BY <1>4, <1>5, EntryKinds
      <3>2. experts' = Host!Filled(experts, Len(s), i, Host!ReadSlot(s, i))
        BY <2>1, <1>2
      <3>n. ASSUME NEW n \in Nat, n = Len(s), NEW e \in Entries, e = Host!ReadSlot(s, i)
            PROVE  /\ experts' \in Seq(Entries) /\ Len(experts') = n /\ experts'[i] = e
                   /\ \A j \in DOMAIN experts : j \in DOMAIN experts' /\ (j # i => experts'[j] = experts[j])
                   /\ \A j \in 1 .. n : j # i /\ j \notin DOMAIN experts => experts'[j] = Host!NoEntry
        <4>1. i \in 1 .. n /\ experts \in Seq(Entries) /\ Len(experts) <= n /\ experts' = Host!Filled(experts, n, i, e)
          BY ONLY <3>n, <3>1, <3>2, <1>6, <1>7
        <4>2. PICK l, f : l = experts /\ f = experts'
          OBVIOUS
        <4>3. i \in 1 .. n /\ l \in Seq(Entries) /\ Len(l) <= n /\ f = Host!Filled(l, n, i, e)
          BY ONLY <4>1, <4>2
        <4>4. FilledFrom(f, l, n, i, e)
          BY ONLY <3>n, <4>3, FilledIs
        <4> QED
          BY ONLY <4>2, <4>4 DEF FilledFrom
      <3>3. /\ experts' \in Seq(Entries) /\ Len(experts') = Len(s) /\ experts'[i] = Host!ReadSlot(s, i)
            /\ \A j \in DOMAIN experts : j \in DOMAIN experts' /\ (j # i => experts'[j] = experts[j])
            /\ \A j \in 1 .. Len(s) : j # i /\ j \notin DOMAIN experts => experts'[j] = Host!NoEntry
        BY ONLY <3>n, <3>1, <3>2, <1>6
      <3>4. i \in DOMAIN experts => experts[i] = Host!NoEntry
        BY <2>1, <1>7
      <3>5. DOMAIN experts' = 1 .. Len(s)
        BY <3>3
      <3> QED
        BY <3>1, <3>3, <3>4, <3>5, <1>5, <1>6
    <2>2. CASE ~fills
      <3>1. experts' = experts
        BY <2>2, <1>2
      <3>2. hostPc = "event" => i <= Len(experts) /\ experts[i] # Host!NoEntry
        BY <2>2, <1>6, <1>7
      <3> QED
        BY <3>1, <3>2, <1>6, <1>7
    <2> QED
      BY <2>1, <2>2
  <1>10. /\ hostBatch \in Seq(Contribution) /\ hostCount \in Nat /\ new \in Contribution
         /\ active \subseteq DOMAIN slots
    <2>1. i \in Nat
      BY <1>6
    <2>2. hostBatch \in Seq(Contribution) /\ hostCount \in Nat /\ active \subseteq DOMAIN slots
      BY <1>s DEF HostType
    <2>3. new \in Contribution
      BY <2>1, <2>2 DEF Contribution
    <2> QED
      BY <2>2, <2>3
  <1>11. HostType'
    <2>1. hostBatch' \in Seq(Contribution) /\ hostCount' \in Nat
      BY <1>2, <1>10
    <2>2. active' \subseteq DOMAIN slots'
      BY <1>1, <1>2, <1>10
    <2>3. slots' \in Seq(HostCoords) /\ Len(hostBase') <= Len(slots') /\ Len(experts') <= Len(slots')
      BY <1>1, <1>2, <1>8, <1>9
    <2>4. /\ model' \in [HostCoords -> Weights] /\ start' \in [HostCoords -> Weights] /\ inRound' \in BOOLEAN
          /\ accepted' \subseteq [slot : Nat, coord : HostCoords, id : Nat]
          /\ hostPc' \in {"idle", "event", "ce base", "between", "ce merged", "judged"}
      BY <1>2, <1>s DEF HostType
    <2> QED
      BY <1>8, <1>9, <2>1, <2>2, <2>3, <2>4 DEF HostType
  <1>12. Registry'
    <2>1. \A r \in accepted : r.id \in Nat
      BY <1>s DEF HostType
    <2>2. \A r \in accepted : r.slot \in DOMAIN s /\ s[r.slot] = r.coord /\ r.id <= hostCount + 1
      BY <2>1, <1>1, <1>s, <1>10 DEF Registry
    <2> QED
      BY <2>2, <1>1, <1>2 DEF Registry
  <1>13. Waiting'
    <2>0. new \in Contribution /\ hostBatch \in Seq(Contribution) /\ hostBatch' = Append(hostBatch, new)
      BY <1>2, <1>10
    <2> HIDE DEF new
    <2>a. /\ \A k \in DOMAIN hostBatch : k \in DOMAIN hostBatch' /\ hostBatch'[k] = hostBatch[k]
          /\ \A k \in DOMAIN hostBatch' : k \in DOMAIN hostBatch \/ (k = Len(hostBatch) + 1 /\ hostBatch'[k] = new)
      <3>1. /\ DOMAIN hostBatch' = DOMAIN hostBatch \cup {Len(hostBatch) + 1} /\ hostBatch'[Len(hostBatch) + 1] = new
            /\ \A k \in DOMAIN hostBatch : hostBatch'[k] = hostBatch[k]
        BY ONLY <2>0, AppendIs
      <3>2. Len(hostBatch) + 1 \in Nat
        BY <2>0
      <3> QED
        BY ONLY <3>1, <3>2
    <2>1. /\ \A k \in DOMAIN hostBatch : k \in DOMAIN hostBatch' /\ hostBatch'[k] = hostBatch[k] /\ hostBatch[k].id <= hostCount
          /\ \A k \in DOMAIN hostBatch' : k \in DOMAIN hostBatch \/ (k = Len(hostBatch) + 1 /\ hostBatch'[k] = new)
          /\ new.id = hostCount + 1 /\ new.slot = i
      BY <2>a, <1>s DEF Waiting, new
    <2>2. \A k \in DOMAIN hostBatch : hostBatch[k].id \in Nat /\ k <= Len(hostBatch) /\ k \in Nat
      BY <1>s, HostShape
    <2>3. \A r \in accepted : r.id \in Nat /\ r.id <= hostCount
      BY DEF HostInv, HostType, Registry
    <2>4. Len(hostBatch) \in Nat
      BY <1>10
    <2>5. \A k \in DOMAIN hostBatch' : hostBatch'[k].slot \in active' /\ hostBatch'[k].id <= hostCount'
      BY <2>1, <2>2, <1>2, <1>10 DEF HostInv, Waiting
    <2>6. \A k, l \in DOMAIN hostBatch' : k < l => hostBatch'[k].id # hostBatch'[l].id
      BY <2>1, <2>2, <2>4, <1>10 DEF HostInv, Waiting
    <2>7. \A k \in DOMAIN hostBatch' : \A r \in accepted' : r.id # hostBatch'[k].id
      BY <2>1, <2>2, <2>3, <1>2, <1>10 DEF HostInv, Waiting
    <2> QED
      BY <2>5, <2>6, <2>7 DEF Waiting
  <1>14. Snapped'
    <2> SUFFICES ASSUME hostPc = "event"
                 PROVE  /\ inRound /\ Entered(hostBase)' /\ Entered(experts)'
                        /\ \A j \in DOMAIN hostBase' : hostBase'[j] # Host!NoEntry => hostBase'[j] = Host!Own(start[s[j]])
      BY <1>2 DEF Snapped
    <2>1. /\ inRound /\ Entered(hostBase) /\ Entered(experts) /\ model = start
          /\ \A j \in DOMAIN hostBase : hostBase[j] # Host!NoEntry => hostBase[j] = Host!Own(start[slots[j]])
      BY DEF HostInv, Snapped, Host!GatedOnBase
    <2>2. Entered(hostBase)'
      BY <2>1, <1>2, <1>8, EntryKinds DEF Entered
    <2>3. Entered(experts)'
      BY <2>1, <1>2, <1>9 DEF Entered
    <2>4. ASSUME NEW j \in DOMAIN hostBase', hostBase'[j] # Host!NoEntry PROVE hostBase'[j] = Host!Own(start[s[j]])
      <3>1. CASE j = i
        BY <3>1, <2>1, <1>3, <1>8
      <3>2. CASE j # i
        <4>1. j \in DOMAIN hostBase /\ hostBase'[j] = hostBase[j]
          BY <3>2, <2>4, <1>8
        <4>2. j \in DOMAIN slots
          BY <4>1, <1>7 DEF HostInv, HostType
        <4> QED
          BY <4>1, <4>2, <2>1, <2>4, <1>1
      <3> QED
        BY <3>1, <3>2
    <2> QED
      BY <2>1, <2>2, <2>3, <2>4
  <1>15. Judging' /\ Host!GatedOnBase'
    BY <1>2 DEF HostInv, Judging, Host!GatedOnBase
  <1>16. Holding'
    <2>1. \A d : Ids(d)' = Ids(d)
      BY <1>2 DEF Ids
    <2>2. hostPc = "idle" => \A d \in HostCoords : Exact(model[d], d)'
      BY <2>1, <1>2 DEF HostInv, Holding, Exact
    <2>3. ASSUME hostPc = "event", NEW j \in DOMAIN experts', experts'[j].kind = "own"
          PROVE  Exact(experts[j].w, slots[j])'
      <3>1. CASE j \in DOMAIN experts /\ experts[j] # Host!NoEntry
        <4>1. experts'[j] = experts[j] /\ slots'[j] = slots[j]
          BY <3>1, <1>1, <1>2, <1>s, <1>9, HostShape
        <4> QED
          BY <3>1, <4>1, <2>1, <2>3 DEF HostInv, Holding, Exact
      <3>2. CASE ~(j \in DOMAIN experts /\ experts[j] # Host!NoEntry)
        <4>1. j = i /\ experts'[j] = Host!Own(model[c])
          BY <3>2, <2>3, <1>9, EntryKinds
        <4>2. \A k \in DOMAIN experts : slots[k] = c => experts[k].kind # "own"
          <5>1. \A k \in DOMAIN experts : k \in DOMAIN slots
            BY <1>s, HostShape
          <5>2. \A k \in DOMAIN experts : slots[k] = c => k = i
            BY <5>1, <1>1
          <5> QED
            BY <5>2, <4>1, <3>2, EntryKinds
        <4>3. Exact(model[c], c)
          BY <2>3, <4>2 DEF HostInv, Holding, Host!GatedOnBase
        <4>4. experts'[j].w = model[c] /\ slots'[j] = c
          BY <4>1, <1>1, <1>2, EntryKinds
        <4> QED
          BY <4>3, <4>4, <2>1 DEF Exact
      <3> QED
        BY <3>1, <3>2
    <2>4. ASSUME hostPc = "event", NEW d \in HostCoords,
                 \A j \in DOMAIN experts' : slots'[j] = d => experts'[j].kind # "own"
          PROVE  Exact(start[d], d)'
      <3>1. \A j \in DOMAIN experts : slots[j] = d => experts[j].kind # "own"
        <4>1. \A j \in DOMAIN experts : j \in DOMAIN slots
          BY <1>s, HostShape
        <4> QED
          BY <4>1, <2>4, <1>1, <1>2, <1>9, EntryKinds
      <3>2. Exact(start[d], d)
        BY <3>1, <2>4 DEF HostInv, Holding
      <3> QED
        BY <3>2, <2>1, <1>2 DEF Exact
    <2> QED
      BY <1>2, <2>2, <2>3, <2>4 DEF Holding
  <1> QED
    BY <1>11, <1>12, <1>13, <1>14, <1>15, <1>16 DEF HostInv
\* evict: the deltas of the coordinate are in the list or in the model, not in its slot's snapshot.
LEMMA EvictKeeps ==
  ASSUME HostInv, NEW i \in active, Host!Evict(i)
  PROVE  HostInv'
  <1>s. HostType /\ Registry /\ Waiting
    BY DEF HostInv
  <1>1. /\ active' = active \ {i} /\ \A k \in DOMAIN hostBatch : hostBatch[k].slot # i
        /\ hostBase' = IF inRound /\ i <= Len(hostBase) THEN [hostBase EXCEPT ![i] = Host!NoEntry] ELSE hostBase
        /\ UNCHANGED <<slots, model, inRound, experts, hostBatch, hostPc, start, accepted, hostCount>>
    BY DEF Host!Evict
  <1>2. hostBase \in Seq(Entries) /\ Host!NoEntry \in Entries
    BY <1>s DEF HostType, Entries
  <1>3. /\ hostBase' \in Seq(Entries) /\ Len(hostBase') = Len(hostBase) /\ DOMAIN hostBase' = DOMAIN hostBase
        /\ \A j \in DOMAIN hostBase : j # i => hostBase'[j] = hostBase[j]
        /\ \A j \in DOMAIN hostBase : hostBase'[j] = hostBase[j] \/ hostBase'[j] = Host!NoEntry
    <2>1. CASE inRound /\ i <= Len(hostBase)
      <3>1. hostBase' = [hostBase EXCEPT ![i] = Host!NoEntry]
        BY <1>1, <2>1
      <3>2. hostBase \in [1 .. Len(hostBase) -> Entries] /\ Len(hostBase) \in Nat
        BY <1>2
      <3>3. hostBase' \in [1 .. Len(hostBase) -> Entries]
        BY ONLY <3>1, <3>2, <1>2
      <3>4. hostBase' \in Seq(Entries) /\ Len(hostBase') = Len(hostBase) /\ DOMAIN hostBase' = DOMAIN hostBase
        BY ONLY <3>2, <3>3
      <3> QED
        BY ONLY <3>1, <3>4
    <2>2. CASE ~(inRound /\ i <= Len(hostBase))
      BY <2>2, <1>1, <1>2
    <2> QED
      BY <2>1, <2>2
  <1>4. HostType'
    BY <1>1, <1>3, <1>s DEF HostType
  <1>5. Registry' /\ Waiting'
    BY <1>1, <1>s DEF Registry, Waiting
  <1>6. Snapped'
    BY <1>1, <1>3 DEF HostInv, Snapped, Entered
  <1>7. Judging' /\ Host!GatedOnBase'
    <2>1. Host!Drops' = Host!Drops /\ Host!Coord' = Host!Coord
      BY <1>1 DEF Host!Drops, Host!Coord, Host!Slot
    <2> QED
      BY <2>1, <1>1 DEF HostInv, Judging, Host!GatedOnBase
  <1>8. Holding'
    BY <1>1 DEF HostInv, Holding, Exact, Ids
  <1> QED
    BY <1>4, <1>5, <1>6, <1>7, <1>8 DEF HostInv

\* begin_round: the list reads the model, and the snapshot is a copy of it.
LEMMA BeginKeeps ==
  ASSUME HostInv, Host!BeginEvent
  PROVE  HostInv'
  <1>s. HostType /\ Registry /\ Waiting /\ Holding
    BY DEF HostInv
  <1>1. /\ hostPc = "idle" /\ hostPc' = "event" /\ inRound' = TRUE /\ start' = model
        /\ experts' = Host!Canonical /\ hostBase' = Host!Snapshot(Host!Canonical)
        /\ UNCHANGED <<slots, active, model, hostBatch, accepted, hostCount>>
    BY DEF Host!BeginEvent
  <1>2. /\ Len(slots) \in Nat /\ DOMAIN slots = 1 .. Len(slots)
        /\ \A i \in DOMAIN slots : slots[i] \in HostCoords /\ model[slots[i]] \in Weights
    BY <1>s, HostShape DEF HostType
  <1>3. /\ DOMAIN experts' = DOMAIN slots
        /\ \A i \in DOMAIN slots :
             IF i \in active THEN experts'[i] \in {Host!View, Host!Own(model[slots[i]])}
             ELSE experts'[i] = Host!NoEntry
    BY <1>1 DEF Host!Canonical, Host!ReadSlot
  <1>4. /\ DOMAIN hostBase' = DOMAIN slots
        /\ \A i \in DOMAIN slots :
             hostBase'[i] = IF i \in active THEN Host!Own(model[slots[i]]) ELSE Host!NoEntry
    <2>1. hostBase' = [i \in DOMAIN slots |-> Host!Copied(i, experts'[i])]
      BY <1>1, <1>3 DEF Host!Snapshot
    <2>2. ASSUME NEW i \in DOMAIN slots
          PROVE  Host!Copied(i, experts'[i]) = IF i \in active THEN Host!Own(model[slots[i]]) ELSE Host!NoEntry
      <3>1. CASE i \in active /\ experts'[i] = Host!View
        BY <3>1, EntryKinds DEF Host!Copied, Host!Value
      <3>2. CASE i \in active /\ experts'[i] = Host!Own(model[slots[i]])
        BY <3>2, EntryKinds DEF Host!Copied, Host!Value
      <3>3. CASE i \notin active
        BY <3>3, <1>3 DEF Host!Copied
      <3> QED
        BY <3>1, <3>2, <3>3, <1>3
    <2> QED
      BY <2>1, <2>2
  <1>5. Host!View \in Entries /\ Host!NoEntry \in Entries /\ \A w \in Weights : Host!Own(w) \in Entries
    BY DEF Entries
  <1>6. /\ experts' \in Seq(Entries) /\ Len(experts') = Len(slots)
        /\ hostBase' \in Seq(Entries) /\ Len(hostBase') = Len(slots)
    <2>1. /\ \A i \in 1 .. Len(slots) : experts'[i] \in Entries /\ hostBase'[i] \in Entries
          /\ DOMAIN experts' = 1 .. Len(slots) /\ DOMAIN hostBase' = 1 .. Len(slots)
      BY <1>2, <1>3, <1>4, <1>5
    <2>2. experts' = [i \in DOMAIN experts' |-> experts'[i]] /\ hostBase' = [i \in DOMAIN hostBase' |-> hostBase'[i]]
      BY <1>1 DEF Host!Canonical, Host!Snapshot
    <2>3. experts' \in [1 .. Len(slots) -> Entries] /\ hostBase' \in [1 .. Len(slots) -> Entries]
      BY ONLY <2>1, <2>2
    <2> QED
      BY ONLY <2>3, <1>2
  <1>7. HostType'
    BY <1>1, <1>2, <1>6, <1>s DEF HostType
  <1>8. Registry' /\ Waiting'
    BY <1>1, <1>s DEF Registry, Waiting
  <1>9. Snapped'
    <2>1. active \subseteq DOMAIN slots
      BY <1>s DEF HostType
    <2>2. Entered(hostBase)' /\ Entered(experts)'
      BY <2>1, <1>1, <1>3, <1>4, EntryKinds DEF Entered
    <2>3. \A i \in DOMAIN hostBase' : hostBase'[i] # Host!NoEntry => hostBase'[i] = Host!Own(model[slots[i]])
      BY <1>4
    <2> QED
      BY <2>2, <2>3, <1>1 DEF Snapped
  <1>10. Judging' /\ Host!GatedOnBase'
    BY <1>1 DEF Judging, Host!GatedOnBase
  <1>11. Holding'
    <2>1. \A c \in HostCoords : Exact(model[c], c)
      BY <1>1, <1>s DEF Holding
    <2>2. \A c \in HostCoords : (\A w : w = model[c] => Exact(w, c)') /\ Exact(start[c], c)'
      BY <2>1, <1>1 DEF Exact, Ids
    <2>3. \A i \in DOMAIN experts' : experts'[i].kind = "own" => experts'[i].w = model[slots[i]]
      BY <1>3, EntryKinds
    <2>4. \A i \in DOMAIN experts' : experts'[i].kind = "own" => Exact(experts[i].w, slots[i])'
      BY <2>2, <2>3, <1>1, <1>2, <1>3
    <2> QED
      BY <2>2, <2>4, <1>1 DEF Holding
  <1> QED
    BY <1>7, <1>8, <1>9, <1>10, <1>11 DEF HostInv

\* A contribution leaves the batch.
LEMMA BatchShrinks ==
  ASSUME HostType, Waiting, hostBatch # <<>>, hostBatch' = Tail(hostBatch),
         UNCHANGED <<active, hostCount>>,
         \A r \in accepted' : r \in accepted \/ r.id = hostBatch[1].id
  PROVE  Waiting' /\ hostBatch' \in Seq(Contribution)
  <1>1. /\ hostBatch' \in Seq(Contribution) /\ 1 \in DOMAIN hostBatch
        /\ \A k \in DOMAIN hostBatch' : k \in Nat /\ k + 1 \in DOMAIN hostBatch /\ hostBatch'[k] = hostBatch[k + 1]
    BY TailIs DEF HostType
  <1>2. \A k, l \in DOMAIN hostBatch' : k < l => k + 1 < l + 1
    BY <1>1
  <1>3. DOMAIN hostBatch = 1 .. Len(hostBatch) /\ Len(hostBatch) \in Nat
    BY HostShape
  <1>4. \A k \in DOMAIN hostBatch' : hostBatch[1].id # hostBatch[k + 1].id
    <2>1. \A k \in DOMAIN hostBatch' : 1 < k + 1
      BY <1>1, <1>3
    <2> QED
      BY <2>1, <1>1 DEF Waiting
  <1>5. \A k \in DOMAIN hostBatch' : hostBatch'[k].slot \in active' /\ hostBatch'[k].id <= hostCount'
    BY <1>1 DEF Waiting
  <1>6. \A k, l \in DOMAIN hostBatch' : k < l => hostBatch'[k].id # hostBatch'[l].id
    BY <1>1, <1>2 DEF Waiting
  <1>7. \A k \in DOMAIN hostBatch' : \A r \in accepted' : r.id # hostBatch'[k].id
    BY <1>1, <1>4 DEF Waiting
  <1> QED
    BY <1>1, <1>5, <1>6, <1>7 DEF Waiting

LEMMA FilteredKeeps ==
  ASSUME HostInv, Host!Filtered
  PROVE  HostInv'
  <1>s. HostType /\ Registry /\ Waiting
    BY DEF HostInv
  <1>1. /\ hostPc = "event" /\ hostBatch # <<>> /\ hostBatch' = Tail(hostBatch)
        /\ UNCHANGED <<slots, active, model, hostBase, inRound, experts, hostPc, start, accepted, hostCount>>
    BY DEF Host!Filtered
  <1>2. Waiting' /\ hostBatch' \in Seq(Contribution)
    BY <1>1, <1>s, BatchShrinks
  <1>3. HostType' /\ Registry' /\ Snapped' /\ Judging' /\ Host!GatedOnBase'
    BY <1>1, <1>2 DEF HostInv, HostType, Registry, Snapped, Entered, Judging, Host!GatedOnBase
  <1>4. Holding'
    BY <1>1 DEF HostInv, Holding, Exact, Ids
  <1> QED
    BY <1>2, <1>3, <1>4 DEF HostInv
LEMMA HeadIs ==
  ASSUME HostType, Waiting, hostBatch # <<>>
  PROVE  /\ Host!Slot = hostBatch[1].slot /\ Head(hostBatch) = hostBatch[1] /\ 1 \in DOMAIN hostBatch
         /\ Host!Slot \in active /\ Host!Slot \in DOMAIN slots /\ Host!Slot \in Nat
         /\ Host!Coord = slots[Host!Slot] /\ Host!Coord \in HostCoords /\ hostBatch[1].id \in Nat
  <1>1. Head(hostBatch) = hostBatch[1] /\ 1 \in DOMAIN hostBatch
    BY TailIs DEF HostType
  <1>2. Host!Slot = hostBatch[1].slot /\ Host!Slot \in active
    BY <1>1 DEF Host!Slot, Waiting
  <1>3. active \subseteq DOMAIN slots
    BY DEF HostType
  <1> QED
    BY <1>1, <1>2, <1>3, HostShape DEF Host!Coord

LEMMA ValueIs ==
  ASSUME HostType, NEW i \in DOMAIN experts, experts[i] # Host!NoEntry
  PROVE  /\ Host!Value(i, experts[i]) \in Weights
         /\ \/ experts[i].kind = "own" /\ Host!Value(i, experts[i]) = experts[i].w
            \/ experts[i].kind # "own" /\ Host!Value(i, experts[i]) = model[slots[i]]
  <1>1. experts[i] \in Entries
    <2>1. experts \in Seq(Entries)
      BY DEF HostType
    <2> QED
      BY <2>1
  <1>2. slots[i] \in HostCoords /\ model \in [HostCoords -> Weights]
    BY HostShape DEF HostType
  <1>3. model[slots[i]] \in Weights
    BY <1>2
  <1> QED
    BY <1>1, <1>3, EntryIs, EntryKinds DEF Host!Value

\* What is merged on is what the coordinate holds.
LEMMA HeldIs ==
  ASSUME HostType, Registry, Holding, hostPc # "idle", model = start,
         NEW i \in DOMAIN experts, experts[i] # Host!NoEntry
  PROVE  Exact(Host!Value(i, experts[i]), slots[i])
  <1>1. CASE experts[i].kind = "own"
    BY <1>1, ValueIs DEF Holding
  <1>2. CASE experts[i].kind # "own"
    <2>1. \A j \in DOMAIN experts : slots[j] = slots[i] => j = i
      BY HostShape DEF Registry
    <2>2. Exact(start[slots[i]], slots[i])
      BY <2>1, <1>2, HostShape DEF Holding
    <2> QED
      BY <2>2, <1>2, ValueIs
  <1> QED
    BY <1>1, <1>2

\* The steps of a measurement, which touch the model only.
LEMMA MeasureKeeps ==
  ASSUME HostInv, NEW v \in Weights, hostBatch # <<>>, ~Host!Drops, hostPc # "idle",
         model' = [model EXCEPT ![Host!Coord] = v],
         \/ hostPc' \in {"ce base", "ce merged"} /\ \A c \in HostCoords \ {Host!Coord} : model[c] = start[c]
         \/ hostPc' \in {"between", "judged"} /\ model' = start,
         UNCHANGED <<slots, active, hostBase, inRound, experts, hostBatch, start, accepted, hostCount>>
  PROVE  HostInv'
  <1>s. HostType /\ Registry /\ Waiting
    BY DEF HostInv
  <1>1. Host!Coord \in HostCoords /\ model \in [HostCoords -> Weights]
    BY <1>s, HeadIs DEF HostType
  <1>2. model' \in [HostCoords -> Weights] /\ \A c \in HostCoords \ {Host!Coord} : model'[c] = model[c]
    BY <1>1
  <1>3. hostPc' \in {"ce base", "between", "ce merged", "judged"}
    OBVIOUS
  <1>4. HostType'
    BY <1>2, <1>3, <1>s DEF HostType
  <1>5. Registry' /\ Waiting' /\ Snapped'
    BY <1>3, <1>s DEF HostInv, Registry, Waiting, Snapped, Entered
  <1>6. Host!Drops' = Host!Drops /\ Host!Coord' = Host!Coord
    BY DEF Host!Drops, Host!Coord, Host!Slot
  <1>7. Judging'
    BY <1>6 DEF Judging
  <1>8. Host!GatedOnBase'
    BY <1>2, <1>3, <1>6 DEF Host!GatedOnBase
  <1>9. Holding'
    BY <1>3 DEF HostInv, Holding, Exact, Ids
  <1> QED
    BY <1>4, <1>5, <1>7, <1>8, <1>9 DEF HostInv

\* In an event the slot of the contribution measured has its entries.
LEMMA MeasuredSlot ==
  ASSUME HostInv, hostPc # "idle", hostBatch # <<>>
  PROVE  /\ Host!Slot \in DOMAIN experts /\ experts[Host!Slot] # Host!NoEntry
         /\ Host!Slot \in DOMAIN hostBase /\ hostBase[Host!Slot] = Host!Own(start[Host!Coord])
  <1>1. Host!Slot \in active /\ Host!Coord = slots[Host!Slot]
    BY HeadIs DEF HostInv
  <1> QED
    BY <1>1 DEF HostInv, Snapped, Entered

LEMMA TryBaseKeeps ==
  ASSUME HostInv, Host!TryBase
  PROVE  HostInv'
  <1>1. /\ hostPc = "event" /\ hostBatch # <<>> /\ ~Host!Drops /\ hostPc' = "ce base"
        /\ model' = [model EXCEPT ![Host!Coord] = Host!Value(Host!Slot, experts[Host!Slot])]
        /\ UNCHANGED <<slots, active, hostBase, inRound, experts, hostBatch, start, accepted, hostCount>>
    BY DEF Host!TryBase
  <1>2. Host!Value(Host!Slot, experts[Host!Slot]) \in Weights
    BY <1>1, MeasuredSlot, ValueIs DEF HostInv
  <1>3. model = start
    BY <1>1 DEF HostInv, Host!GatedOnBase
  <1> QED
    BY <1>1, <1>2, <1>3, MeasureKeeps

LEMMA MergedIs ==
  ASSUME HostInv, hostPc # "idle", hostBatch # <<>>, model = start
  PROVE  /\ Host!Merged = Append(Host!Value(Host!Slot, experts[Host!Slot]), hostBatch[1].id)
         /\ Host!Value(Host!Slot, experts[Host!Slot]) \in Weights /\ Host!Merged \in Weights
         /\ Exact(Host!Value(Host!Slot, experts[Host!Slot]), Host!Coord)
  <1>1. HostType /\ Registry /\ Waiting /\ Holding
    BY DEF HostInv
  <1>2. Host!Coord = slots[Host!Slot] /\ Head(hostBatch) = hostBatch[1] /\ hostBatch[1].id \in Nat
    BY <1>1, HeadIs
  <1>3. Host!Slot \in DOMAIN experts /\ experts[Host!Slot] # Host!NoEntry
    BY MeasuredSlot
  <1>4. Host!Value(Host!Slot, experts[Host!Slot]) \in Weights
    BY <1>1, <1>3, ValueIs
  <1>5. Exact(Host!Value(Host!Slot, experts[Host!Slot]), Host!Coord)
    BY <1>1, <1>2, <1>3, HeldIs
  <1>6. Host!Merged = Append(Host!Value(Host!Slot, experts[Host!Slot]), hostBatch[1].id)
    BY <1>2 DEF Host!Merged
  <1>7. Host!Merged \in Weights
    BY <1>2, <1>4, <1>6 DEF Weights
  <1> QED
    BY <1>4, <1>5, <1>6, <1>7

LEMMA TryMergedKeeps ==
  ASSUME HostInv, Host!TryMerged
  PROVE  HostInv'
  <1>1. /\ hostPc = "between" /\ hostPc' = "ce merged" /\ model' = [model EXCEPT ![Host!Coord] = Host!Merged]
        /\ UNCHANGED <<slots, active, hostBase, inRound, experts, hostBatch, start, accepted, hostCount>>
    BY DEF Host!TryMerged
  <1>2. hostBatch # <<>> /\ ~Host!Drops /\ model = start
    BY <1>1 DEF HostInv, Judging, Host!GatedOnBase
  <1>3. Host!Merged \in Weights
    BY <1>1, <1>2, MergedIs
  <1> QED
    BY <1>1, <1>2, <1>3, MeasureKeeps

LEMMA PutBackKeeps ==
  ASSUME HostInv, Host!PutBack
  PROVE  HostInv'
  <1>1. /\ hostPc \in {"ce base", "ce merged"} /\ hostPc' \in {"between", "judged"}
        /\ model' = [model EXCEPT ![Host!Coord] = Host!Value(Host!Slot, hostBase[Host!Slot])]
        /\ UNCHANGED <<slots, active, hostBase, inRound, experts, hostBatch, start, accepted, hostCount>>
    BY DEF Host!PutBack
  <1>2. hostBatch # <<>> /\ ~Host!Drops /\ \A c \in HostCoords \ {Host!Coord} : model[c] = start[c]
    BY <1>1 DEF HostInv, Judging, Host!GatedOnBase
  <1>3. Host!Value(Host!Slot, hostBase[Host!Slot]) = start[Host!Coord]
    BY <1>1, <1>2, MeasuredSlot, EntryKinds DEF Host!Value
  <1>4. Host!Coord \in HostCoords /\ model \in [HostCoords -> Weights] /\ start \in [HostCoords -> Weights]
    BY <1>2, HeadIs DEF HostInv, HostType
  <1>5. model' = start
    BY <1>1, <1>2, <1>3, <1>4
  <1>6. start[Host!Coord] \in Weights
    BY <1>4
  <1> QED
    BY <1>1, <1>2, <1>3, <1>5, <1>6, MeasureKeeps
\* One more delta, new to the coordinate.
LEMMA AppendExact ==
  ASSUME NEW w \in Weights, NEW id \in Nat, NEW c, NEW S, S = Ids(c) \cup {id},
         Exact(w, c), id \notin Ids(c), NEW v, v = Append(w, id)
  PROVE  /\ IsFiniteSet(Host!ToSet(v)) /\ Host!ToSet(v) = S
         /\ Len(v) = Cardinality(Host!ToSet(v))
  <1>1. /\ Len(v) = Len(w) + 1 /\ v[Len(w) + 1] = id /\ DOMAIN v = DOMAIN w \cup {Len(w) + 1}
        /\ \A k \in DOMAIN w : v[k] = w[k]
    BY AppendIs DEF Weights
  <1>2. Host!ToSet(v) = Host!ToSet(w) \cup {id}
    BY <1>1 DEF Host!ToSet
  <1>3. /\ IsFiniteSet(Host!ToSet(w)) /\ Host!ToSet(w) = Ids(c) /\ Len(w) = Cardinality(Host!ToSet(w))
    BY DEF Exact
  <1>4. /\ IsFiniteSet(Host!ToSet(w) \cup {id})
        /\ Cardinality(Host!ToSet(w) \cup {id}) = Cardinality(Host!ToSet(w)) + 1
    BY <1>3, FS_AddElement
  <1> QED
    BY <1>1, <1>2, <1>3, <1>4

\* apply_delta_gated: an accepted delta is in the list, under its coordinate, once.
LEMMA JudgeKeeps ==
  ASSUME HostInv, NEW accept \in BOOLEAN, Host!Judge(accept)
  PROVE  HostInv'
  <1> DEFINE i == Host!Slot
             c == Host!Coord
             id == hostBatch[1].id
             v == Host!Merged
  <1>s. HostType /\ Registry /\ Waiting /\ Holding
    BY DEF HostInv
  <1>1. /\ hostPc = "judged" /\ hostPc' = "event" /\ hostBatch' = Tail(hostBatch)
        /\ UNCHANGED <<slots, active, model, hostBase, inRound, start, hostCount>>
        /\ \/ experts' = experts /\ accepted' = accepted
           \/ /\ experts' = [experts EXCEPT ![i] = Host!Own(v)]
              /\ accepted' = accepted \cup {[slot |-> i, coord |-> c, id |-> Head(hostBatch).id]}
    BY DEF Host!Judge
  <1>2. hostBatch # <<>> /\ model = start
    BY <1>1 DEF HostInv, Judging, Host!GatedOnBase
  <1>3. /\ i \in DOMAIN slots /\ i \in Nat /\ slots[i] = c /\ c \in HostCoords
        /\ Head(hostBatch) = hostBatch[1] /\ id \in Nat /\ id <= hostCount /\ 1 \in DOMAIN hostBatch
    BY <1>2, <1>s, HeadIs DEF Waiting
  <1>4. i \in DOMAIN experts
    BY <1>1, <1>2, MeasuredSlot
  <1>5. v \in Weights
    BY <1>1, <1>2, MergedIs
  <1>6. /\ experts' \in Seq(Entries) /\ Len(experts') = Len(experts) /\ DOMAIN experts' = DOMAIN experts
        /\ \A j \in DOMAIN experts :
             experts'[j] = experts[j] \/ (j = i /\ experts'[j] = Host!Own(v) /\ accepted' # accepted)
    <2>0. experts \in Seq(Entries)
      BY <1>s DEF HostType
    <2>1. experts \in [1 .. Len(experts) -> Entries] /\ Len(experts) \in Nat /\ experts \in Seq(Entries)
      BY <2>0
    <2>2. Host!Own(v) \in Entries
      BY <1>5 DEF Entries
    <2>3. [slot |-> i, coord |-> c, id |-> id] \notin accepted
      BY <1>3, <1>s DEF Waiting
    <2>4. CASE experts' = experts
      BY <2>1, <2>4
    <2>5. CASE experts' # experts
      <3> HIDE DEF i, v, c
      <3>1. experts' = [experts EXCEPT ![i] = Host!Own(v)] /\ accepted' # accepted
        BY <2>3, <2>5, <1>1, <1>3
      <3>2. experts' \in [1 .. Len(experts) -> Entries]
        BY ONLY <3>1, <2>1, <2>2
      <3>3. experts' \in Seq(Entries) /\ Len(experts') = Len(experts) /\ DOMAIN experts' = DOMAIN experts
        BY ONLY <3>2, <2>1
      <3> QED
        BY ONLY <3>1, <3>3
    <2> QED
      BY <2>4, <2>5
  <1>7. \A r \in accepted' : r \in accepted \/ (r = [slot |-> i, coord |-> c, id |-> id])
    BY <1>1, <1>3
  <1> HIDE DEF i, c, v
  <1>8. Waiting' /\ hostBatch' \in Seq(Contribution)
    BY <1>1, <1>2, <1>7, <1>s, BatchShrinks
  <1>9. HostType'
    <2>1. accepted' \subseteq [slot : Nat, coord : HostCoords, id : Nat]
      <3>1. accepted \subseteq [slot : Nat, coord : HostCoords, id : Nat]
        BY <1>s DEF HostType
      <3>2. [slot |-> i, coord |-> c, id |-> id] \in [slot : Nat, coord : HostCoords, id : Nat]
        BY <1>3
      <3> QED
        BY <3>1, <3>2, <1>7
    <2> QED
      BY <2>1, <1>1, <1>6, <1>8, <1>s DEF HostType
  <1>10. Registry'
    BY <1>1, <1>3, <1>7, <1>s DEF Registry
  <1>11. Snapped'
    <2>1. inRound /\ Entered(hostBase) /\ Entered(experts)
      BY <1>1 DEF HostInv, Snapped
    <2>2. Entered(hostBase)' /\ Entered(experts)'
      BY <2>1, <1>1, <1>6, EntryKinds DEF Entered
    <2> QED
      BY <2>2, <1>1 DEF HostInv, Snapped
  <1>12. Judging' /\ Host!GatedOnBase'
    BY <1>1, <1>2 DEF Judging, Host!GatedOnBase
  <1>13. Holding'
    <2>1. CASE experts' = experts /\ accepted' = accepted
      BY <2>1, <1>1, <1>s DEF Holding, Exact, Ids
    <2>2. CASE /\ experts' = [experts EXCEPT ![i] = Host!Own(v)]
               /\ accepted' = accepted \cup {[slot |-> i, coord |-> c, id |-> Head(hostBatch).id]}
      <3>1. accepted' = accepted \cup {[slot |-> i, coord |-> c, id |-> id]}
        BY <2>2, <1>3
      <3>2. \A d : d # c => Ids(d)' = Ids(d)
        BY <3>1 DEF Ids
      <3>3. \A d : d = c => Ids(d)' = Ids(d) \cup {id}
        <4> DEFINE r == [slot |-> i, coord |-> c, id |-> id]
        <4>1. r.coord = c /\ r.id = id /\ accepted' = accepted \cup {r}
          BY <3>1
        <4> HIDE DEF r
        <4> QED
          BY ONLY <4>1 DEF Ids
      <3>4. id \notin Ids(c)
        BY <1>3, <1>s DEF Waiting, Ids
      <3>5. ASSUME NEW d, d = c
            PROVE  /\ IsFiniteSet(Host!ToSet(v)) /\ Host!ToSet(v) = Ids(d)'
                   /\ Len(v) = Cardinality(Host!ToSet(v))
        <4>1. /\ v = Append(Host!Value(i, experts[i]), id) /\ Host!Value(i, experts[i]) \in Weights
              /\ Exact(Host!Value(i, experts[i]), c)
          BY <1>1, <1>2, MergedIs DEF v, i, c
        <4> HIDE DEF id
        <4>2. Ids(d)' = Ids(d) \cup {id} /\ id \notin Ids(d) /\ id \in Nat
          BY <3>3, <3>4, <3>5, <1>3
        <4> QED
          BY ONLY <4>1, <4>2, <3>5, AppendExact, ZenonT(40)
      <3> HIDE DEF id
      <3>6. \A w : Host!ToSet(w)' = Host!ToSet(w)
        BY DEF Host!ToSet
      <3>7. experts'[i].kind = "own" /\ experts'[i].w = v
        BY <2>2, <1>4, <1>6, EntryKinds
      <3>8. ASSUME NEW j \in DOMAIN experts', experts'[j].kind = "own"
            PROVE  Exact(experts[j].w, slots[j])'
        <4>1. CASE j = i
          BY <4>1, <3>5, <3>7, <1>1, <1>3 DEF Exact
        <4>2. CASE j # i
          <5>1. experts'[j] = experts[j] /\ j \in DOMAIN slots /\ slots[j] # c
            BY <4>2, <1>3, <1>6, <1>s, HostShape DEF Registry
          <5>2. Exact(experts[j].w, slots[j])
            BY <5>1, <3>8, <1>1, <1>6, <1>s DEF Holding
          <5> QED
            BY <5>1, <5>2, <3>2, <1>1 DEF Exact
        <4> QED
          BY <4>1, <4>2
      <3>9. ASSUME NEW d \in HostCoords, \A j \in DOMAIN experts' : slots'[j] = d => experts'[j].kind # "own"
            PROVE  Exact(start[d], d)'
        <4>1. d # c
          BY <3>7, <3>9, <1>1, <1>3, <1>4, <1>6
        <4>2. \A j \in DOMAIN experts : slots[j] = d => experts[j].kind # "own"
          BY <4>1, <3>9, <1>1, <1>3, <1>6
        <4>3. Exact(start[d], d)
          BY <4>2, <1>1, <1>s DEF Holding
        <4> QED
          BY <4>1, <4>3, <3>2, <1>1 DEF Exact
      <3> QED
        BY <3>8, <3>9, <1>1 DEF Holding
    <2> QED
      BY <2>1, <2>2, <1>1
  <1> QED
    BY <1>8, <1>9, <1>10, <1>11, <1>12, <1>13 DEF HostInv
\* sync_from_canonical: each coordinate takes what it holds.
LEMMA SyncKeeps ==
  ASSUME HostInv, Host!Sync
  PROVE  HostInv'
  <1>s. HostType /\ Registry /\ Waiting /\ Holding
    BY DEF HostInv
  <1>1. /\ hostPc = "event" /\ hostBatch = <<>> /\ model' = Host!Synced /\ hostPc' = "idle" /\ experts' = <<>>
        /\ UNCHANGED <<slots, active, hostBase, inRound, hostBatch, start, accepted, hostCount>>
    BY DEF Host!Sync
  <1>2. model = start
    BY <1>1 DEF HostInv, Host!GatedOnBase
  <1>3. ASSUME NEW c \in HostCoords PROVE Host!Synced[c] \in Weights /\ Exact(Host!Synced[c], c)
    <2> DEFINE i == Host!Index(slots, c)
    <2>1. Host!Synced[c] = IF Host!Known(c) /\ i <= Len(experts) /\ experts[i] # Host!NoEntry
                           THEN Host!Value(i, experts[i]) ELSE model[c]
      BY DEF Host!Synced
    <2>2. Host!Known(c) => i \in DOMAIN slots /\ slots[i] = c
      BY DEF Host!Known, Host!Index
    <2> HIDE DEF i
    <2>3. CASE Host!Known(c) /\ i <= Len(experts) /\ experts[i] # Host!NoEntry
      <3>1. i \in DOMAIN experts /\ slots[i] = c
        BY <2>2, <2>3, <1>s, HostShape
      <3>2. Host!Value(i, experts[i]) \in Weights /\ Exact(Host!Value(i, experts[i]), slots[i])
        BY <3>1, <2>3, <1>1, <1>2, <1>s, ValueIs, HeldIs
      <3> QED
        BY <3>1, <3>2, <2>1, <2>3
    <2>4. CASE ~(Host!Known(c) /\ i <= Len(experts) /\ experts[i] # Host!NoEntry)
      <3>1. ASSUME NEW j \in DOMAIN experts, slots[j] = c PROVE experts[j].kind # "own"
        <4>1. j \in DOMAIN slots /\ j <= Len(experts)
          BY <1>s, HostShape
        <4>2. Host!Known(c) /\ j = i
          BY <4>1, <3>1, <2>2, <1>s DEF Host!Known, Registry
        <4> QED
          BY <4>1, <4>2, <2>4, EntryKinds
      <3>2. Exact(start[c], c)
        BY <3>1, <1>1, <1>s DEF Holding
      <3>3. model[c] \in Weights
        BY <1>s DEF HostType
      <3> QED
        BY <3>2, <3>3, <2>1, <2>4, <1>2
    <2> QED
      BY <2>3, <2>4
  <1>4. model' \in [HostCoords -> Weights]
    BY <1>1, <1>3 DEF Host!Synced
  <1>5. HostType'
    <2>1. experts' \in Seq(Entries) /\ Len(experts') <= Len(slots')
      <3>1. Len(slots) \in Nat /\ Len(experts') = 0
        BY <1>1, <1>s, HostShape
      <3> QED
        BY <3>1, <1>1
    <2> QED
      BY <2>1, <1>1, <1>4, <1>s DEF HostType
  <1>6. Registry' /\ Waiting' /\ Snapped' /\ Judging' /\ Host!GatedOnBase'
    BY <1>1, <1>s DEF Registry, Waiting, Snapped, Judging, Host!GatedOnBase
  <1>7. Holding'
    BY <1>1, <1>3 DEF Holding, Exact, Ids
  <1> QED
    BY <1>5, <1>6, <1>7 DEF HostInv

\* The instance has a Cardinality of its own name.
LEMMA HostCardinality == \A S : Host!Cardinality(S) = Cardinality(S)
  BY DEF Host!Cardinality, Cardinality

\* The store of a coordinator's experts is exact: for every set of coordinates, number of slots
\* and deltas, however coordinates come, go and come back, also in the middle of an event, and
\* whether or not the weights read are views of the model, each record names its expert, each
\* delta is measured alone, and between two events the model is the accepted deltas.
THEOREM StoreAlwaysExact ==
  Host!Init /\ [][Host!Next]_(Host!vars) => []Host!StoreExact
  <1>1. HostInv /\ [Host!Next]_(Host!vars) => HostInv'
    <2> SUFFICES ASSUME HostInv, [Host!Next]_(Host!vars) PROVE HostInv'
      OBVIOUS
    <2>1. CASE UNCHANGED Host!vars
      <3>1. UNCHANGED <<slots, active, model, hostBase, inRound, experts, hostBatch, hostPc, start, accepted, hostCount>>
        BY <2>1 DEF Host!vars
      <3>2. Host!Drops' = Host!Drops /\ Host!Coord' = Host!Coord
        BY <3>1 DEF Host!Drops, Host!Coord, Host!Slot
      <3>3. HostType' /\ Registry' /\ Waiting' /\ Snapped'
        BY <3>1 DEF HostInv, HostType, Registry, Waiting, Snapped, Entered
      <3>4. Judging' /\ Host!GatedOnBase' /\ Holding'
        BY <3>1, <3>2 DEF HostInv, Judging, Host!GatedOnBase, Holding, Exact, Ids
      <3> QED
        BY <3>3, <3>4 DEF HostInv
    <2>2. CASE \E c \in HostCoords, ok \in BOOLEAN : Host!Admit(c, ok)
      BY <2>2, AdmitKeeps
    <2>3. CASE \E i \in active : Host!Evict(i)
      BY <2>3, EvictKeeps
    <2>4. CASE Host!BeginEvent \/ Host!Filtered \/ Host!Sync
      BY <2>4, BeginKeeps, FilteredKeeps, SyncKeeps
    <2>5. CASE Host!TryBase \/ Host!TryMerged \/ Host!PutBack
      BY <2>5, TryBaseKeeps, TryMergedKeeps, PutBackKeeps
    <2>6. CASE \E accept \in BOOLEAN : Host!Judge(accept)
      BY <2>6, JudgeKeeps
    <2> QED
      BY <2>1, <2>2, <2>3, <2>4, <2>5, <2>6 DEF Host!Next
  <1>2. HostInv => Host!StoreExact
    <2> SUFFICES ASSUME HostInv PROVE Host!StoreExact
      OBVIOUS
    <2>1. Host!RecordsPoint /\ Host!GatedOnBase
      BY DEF HostInv, Registry, Host!RecordsPoint
    <2>2. Host!HoldsAccepted
      <3> SUFFICES ASSUME hostPc = "idle", NEW c \in HostCoords
                   PROVE  /\ Host!ToSet(model[c]) = {r.id : r \in {q \in accepted : q.coord = c}}
                          /\ Len(model[c]) = Cardinality(Host!ToSet(model[c]))
        BY HostCardinality DEF Host!HoldsAccepted
      <3>1. Exact(model[c], c)
        BY DEF HostInv, Holding
      <3> QED
        BY <3>1 DEF Exact, Ids
    <2>3. Host!NeverMissing
      <3> SUFFICES ASSUME hostPc = "event", hostBatch # <<>>
                   PROVE  Host!HasEntry(hostBase) /\ Host!HasEntry(experts)
        BY DEF Host!NeverMissing
      <3>1. /\ Host!Slot \in DOMAIN experts /\ experts[Host!Slot] # Host!NoEntry
            /\ Host!Slot \in DOMAIN hostBase /\ hostBase[Host!Slot] # Host!NoEntry
        BY MeasuredSlot, EntryKinds
      <3> QED
        BY <3>1, HostShape DEF HostInv, Host!HasEntry
    <2> QED
      BY <2>1, <2>2, <2>3 DEF Host!StoreExact
  <1> QED
    BY HostInit, <1>1, <1>2, PTL
-----------------------------------------------------------------------------
(* CorpusSync.                                                              *)

LEMMA CorpusCardinality == \A S : Corpus!Cardinality(S) = Cardinality(S)
  BY DEF Corpus!Cardinality, Cardinality

LEMMA CorpusFinite == \A S : Corpus!IsFiniteSet(S) <=> IsFiniteSet(S)
  BY DEF Corpus!IsFiniteSet, IsFiniteSet

Parts == Corpus!PartNames
Records == 1 .. Corpus!NRecords

LEMMA CorpusFacts ==
  ASSUME Corpus!CorpusAssumption
  PROVE  /\ Corpus!NRecords \in Nat \ {0} /\ DOMAIN Files = Records
         /\ \A r \in Records : \A n \in DOMAIN Files[r] : n \in Names /\ Files[r][n] \in Nat \ {0}
         /\ Val \in Names /\ Mono \in Names /\ Parts \subseteq Names /\ Val \notin Parts
         /\ Cardinality(Parts) \in Nat /\ DOMAIN PartName = 0 .. Cardinality(Parts) - 1
         /\ \A p \in 0 .. Cardinality(Parts) - 1 : PartName[p] \in Parts
         /\ \A n \in 1 .. Cardinality(Parts) : Home[n] \in 0 .. n - 1
         /\ \A r : Cardinality(Corpus!Declared(r)) \in 0 .. Cardinality(Parts)
         /\ NoPart \notin Nat
  <1>1. IsFiniteSet(Parts) /\ Parts \subseteq Names
    BY CorpusFinite DEF Corpus!CorpusAssumption, Parts
  <1>2. Cardinality(Parts) \in Nat
    BY <1>1, FS_CardinalityType
  <1>3. DOMAIN PartName = 0 .. Cardinality(Parts) - 1
    BY CorpusCardinality DEF Corpus!CorpusAssumption, Parts
  <1>4. \A p \in DOMAIN PartName : PartName[p] \in Parts
    BY DEF Parts, Corpus!PartNames, Corpus!Range
  <1>5. \A n \in 1 .. Cardinality(Parts) : Home[n] \in 0 .. n - 1
    BY CorpusCardinality DEF Corpus!CorpusAssumption, Parts
  <1>6. ASSUME NEW r PROVE Cardinality(Corpus!Declared(r)) \in 0 .. Cardinality(Parts)
    <2>1. Corpus!Declared(r) \subseteq Parts
      BY DEF Corpus!Declared, Parts
    <2>2. /\ IsFiniteSet(Corpus!Declared(r))
          /\ Cardinality(Corpus!Declared(r)) <= Cardinality(Parts)
      BY <1>1, <2>1, FS_Subset
    <2> QED
      BY <1>2, <2>2, FS_CardinalityType
  <1>7. \A r \in Records : \A n \in DOMAIN Files[r] : n \in Names /\ Files[r][n] \in Nat \ {0}
    BY DEF Corpus!CorpusAssumption, Records
  <1>8. /\ Corpus!NRecords \in Nat \ {0} /\ DOMAIN Files = Records
        /\ Val \in Names /\ Mono \in Names /\ Val \notin Parts /\ NoPart \notin Nat
    BY DEF Corpus!CorpusAssumption, Records, Parts
  <1> QED
    BY <1>1, <1>2, <1>3, <1>4, <1>5, <1>6, <1>7, <1>8

CorpusShapes ==
  /\ adv \in Records /\ disk = [n \in Names |-> disk[n]] /\ total \in 0 .. Cardinality(Parts)
  /\ part = NoPart \/ part \in 0 .. total - 1

\* A fetch is of a record; a rotation has a part to go to; no job outlives its end.
Jobs ==
  /\ corpusPc = "fetch" => rec \in Records /\ todo \subseteq DOMAIN Files[rec]
  /\ job = "rotate" => part # NoPart
  /\ corpusPc \in {"off", "round"} => job = "none"
  /\ corpusPc = "reopen" => job \in {"fresh", "same"}

CorpusInv == CorpusShapes /\ Jobs /\ Corpus!CorpusKept

LEMMA FilesOfRecord == ASSUME Corpus!CorpusAssumption, NEW r \in Records PROVE Corpus!FilesOf(r) = Files[r]
  BY CorpusFacts DEF Corpus!FilesOf, Records

LEMMA CorpusInit == ASSUME Corpus!CorpusAssumption, Corpus!Init PROVE CorpusInv
  <1>1. CorpusShapes
    BY CorpusFacts DEF Corpus!Init, CorpusShapes, Records
  <1>2. Jobs
    BY DEF Corpus!Init, Jobs
  <1>3. Corpus!VerifiedOnly
    BY DEF Corpus!Init, Corpus!VerifiedOnly
  <1>4. Corpus!NeverBare /\ Corpus!RegateLive
    BY DEF Corpus!Init, Corpus!NeverBare, Corpus!RegateLive
  <1> QED
    BY <1>1, <1>2, <1>3, <1>4 DEF CorpusInv, Corpus!CorpusKept

\* A part in use is a file of the box's.
LEMMA TrainIs ==
  ASSUME Corpus!CorpusAssumption, CorpusShapes
  PROVE  /\ part # NoPart => PartName[part] \in Parts
         /\ part # NoPart /\ total >= 1 => Corpus!Following \in 0 .. total - 1
         /\ part # NoPart => total >= 1 /\ PartName[Corpus!Following] \in Parts
  <1>1. \A t \in Nat : \A p \in 0 .. t - 1 : t >= 1 /\ (p + 1) % t \in 0 .. t - 1
    OBVIOUS
  <1>2. total \in Nat /\ total <= Cardinality(Parts) /\ Cardinality(Parts) \in Nat
    BY CorpusFacts DEF CorpusShapes
  <1>3. part # NoPart => part \in 0 .. total - 1
    BY DEF CorpusShapes
  <1>4. \A p \in 0 .. total - 1 : PartName[p] \in Parts
    BY <1>2, CorpusFacts
  <1>5. part # NoPart => total >= 1 /\ Corpus!Following \in 0 .. total - 1
    BY <1>1, <1>2, <1>3 DEF Corpus!Following
  <1> QED
    BY <1>3, <1>4, <1>5

\* A step that leaves the files and the part alone keeps what is said of them.
LEMMA CorpusSame ==
  ASSUME CorpusInv, disk' = disk, part' = part, total' = total, adv' = adv
  PROVE  CorpusShapes' /\ Corpus!VerifiedOnly' /\ Corpus!Held' = Corpus!Held
  <1>1. CorpusShapes'
    BY DEF CorpusInv, CorpusShapes
  <1>2. Corpus!VerifiedOnly'
    BY DEF CorpusInv, Corpus!CorpusKept, Corpus!VerifiedOnly
  <1>3. Corpus!TrainName' = Corpus!TrainName
    BY DEF Corpus!TrainName
  <1> QED
    BY <1>1, <1>2, <1>3 DEF Corpus!Held

LEMMA PublishKeepsCorpus == ASSUME Corpus!CorpusAssumption, CorpusInv, Corpus!Publish PROVE CorpusInv'
  <1>1. CorpusShapes'
    <2>1. adv \in Records /\ adv < Corpus!NRecords /\ adv' = adv + 1 /\ Corpus!NRecords \in Nat
      BY CorpusFacts DEF CorpusInv, CorpusShapes, Corpus!Publish
    <2>2. adv' \in Records
      BY <2>1 DEF Records
    <2> QED
      BY <2>2 DEF CorpusInv, CorpusShapes, Corpus!Publish, Corpus!plan
  <1>2. Jobs'
    BY DEF CorpusInv, Jobs, Corpus!Publish, Corpus!plan
  <1>3. Corpus!VerifiedOnly'
    BY DEF CorpusInv, Corpus!CorpusKept, Corpus!VerifiedOnly, Corpus!Publish
  <1>4. Corpus!NeverBare' /\ Corpus!RegateLive'
    BY DEF CorpusInv, Corpus!CorpusKept, Corpus!NeverBare, Corpus!RegateLive, Corpus!Held, Corpus!TrainName,
           Corpus!Publish, Corpus!plan, Corpus!maps
  <1> QED
    BY <1>1, <1>2, <1>3, <1>4 DEF CorpusInv, Corpus!CorpusKept

LEMMA StartKeeps ==
  ASSUME Corpus!CorpusAssumption, CorpusInv, NEW r \in Corpus!Reads, Corpus!Start(r) PROVE CorpusInv'
  <1>1. CorpusShapes'
    <2> DEFINE n == Cardinality(Corpus!Declared(r))
    <2>1. n \in 0 .. Cardinality(Parts) /\ Cardinality(Parts) \in Nat
      BY CorpusFacts
    <2>2. total' = n /\ part' = IF n = 0 THEN NoPart ELSE Home[n]
      BY CorpusCardinality DEF Corpus!Start
    <2>3. n # 0 => Home[n] \in 0 .. n - 1
      BY <2>1, CorpusFacts
    <2>4. part' = NoPart \/ part' \in 0 .. total' - 1
      BY <2>2, <2>3
    <2> QED
      BY <2>1, <2>2, <2>4 DEF CorpusInv, CorpusShapes, Corpus!Start
  <1>2. corpusPc' = "read" /\ job' = "start" /\ disk' = disk
    BY DEF Corpus!Start, Corpus!Begin
  <1>3. Jobs'
    BY <1>2 DEF Jobs
  <1>4. Corpus!VerifiedOnly'
    BY <1>2 DEF CorpusInv, Corpus!CorpusKept, Corpus!VerifiedOnly
  <1>5. Corpus!NeverBare' /\ Corpus!RegateLive'
    BY <1>2 DEF Corpus!NeverBare, Corpus!RegateLive
  <1> QED
    BY <1>1, <1>3, <1>4, <1>5 DEF CorpusInv, Corpus!CorpusKept

LEMMA ReadKeeps ==
  ASSUME Corpus!CorpusAssumption, CorpusInv, NEW r \in Corpus!Reads, Corpus!ReadRecord(r) PROVE CorpusInv'
  <1>1. CorpusShapes' /\ Corpus!VerifiedOnly' /\ Corpus!Held' = Corpus!Held
    BY CorpusSame DEF Corpus!ReadRecord, Corpus!plan
  <1>2. r # 0 => r \in Records
    BY DEF CorpusInv, CorpusShapes, Corpus!Reads
  <1>3. Jobs'
    <2>1. CASE r = 0 \/ r \in Disallowed
      BY <2>1 DEF CorpusInv, Jobs, Corpus!ReadRecord, Corpus!plan
    <2>2. CASE ~(r = 0 \/ r \in Disallowed)
      <3>1. corpusPc' = "fetch" /\ rec' = r /\ todo' = todo \cap DOMAIN Files[r] /\ r \in Records /\ job' = job /\ part' = part
        BY <2>2, <1>2, FilesOfRecord DEF Corpus!ReadRecord, Corpus!plan
      <3> QED
        BY <3>1 DEF CorpusInv, Jobs
    <2> QED
      BY <2>1, <2>2
  <1>4. corpusPc = "read" /\ corpusPc' \in {"done", "fetch"} /\ job' = job
    BY DEF Corpus!ReadRecord
  <1>5. Corpus!NeverBare' /\ Corpus!RegateLive'
    BY <1>1, <1>4 DEF CorpusInv, Corpus!CorpusKept, Corpus!NeverBare, Corpus!RegateLive
  <1> QED
    BY <1>1, <1>3, <1>5 DEF CorpusInv, Corpus!CorpusKept

LEMMA FetchKeeps ==
  ASSUME Corpus!CorpusAssumption, CorpusInv, NEW n \in todo, Corpus!FetchOne(n) PROVE CorpusInv'
  <1>1. corpusPc = "fetch" /\ rec \in Records /\ todo \subseteq DOMAIN Files[rec] /\ Corpus!FilesOf(rec) = Files[rec]
    BY FilesOfRecord DEF CorpusInv, Jobs, Corpus!FetchOne
  <1>2. n \in Names /\ Files[rec][n] \in Nat \ {0}
    BY <1>1, CorpusFacts
  <1>3. Files[rec][n] \in Corpus!Contents(n)
    BY <1>1 DEF Corpus!Contents, Records
  <1>4. /\ adv' = adv /\ part' = part /\ total' = total /\ job' = job /\ rec' = rec
        /\ corpusPc' \in {"fetch", "failed"} /\ todo' \subseteq todo
    BY DEF Corpus!FetchOne, Corpus!plan
  <1>5. disk' = disk \/ disk' = [disk EXCEPT ![n] = Files[rec][n]]
    BY <1>1 DEF Corpus!FetchOne, Corpus!Installs
  <1>6. disk = [m \in Names |-> disk[m]]
    BY DEF CorpusInv, CorpusShapes
  <1>7. disk' = [m \in Names |-> disk'[m]]
    BY <1>5, <1>6, <1>2
  <1>8. CorpusShapes'
    BY <1>4, <1>7 DEF CorpusInv, CorpusShapes
  <1>9. Jobs'
    BY <1>1, <1>4 DEF CorpusInv, Jobs
  <1>10. Corpus!VerifiedOnly'
    <2>1. \A m \in Names : disk'[m] = disk[m] \/ (m = n /\ disk'[m] = Files[rec][n])
      BY <1>5, <1>6
    <2> QED
      BY <2>1, <1>3 DEF CorpusInv, Corpus!CorpusKept, Corpus!VerifiedOnly, Corpus!Contents
  <1>11. Corpus!NeverBare'
    <2>1. SUFFICES ASSUME job \in {"resync", "rotate"} PROVE Corpus!Held'
      BY <1>4 DEF Corpus!NeverBare
    <2>2. Corpus!Held
      BY <2>1 DEF CorpusInv, Corpus!CorpusKept, Corpus!NeverBare
    <2>3. PartName[part] \in Names \/ part = NoPart
      BY TrainIs, CorpusFacts DEF CorpusInv
    <2>4. \A m \in Names : disk[m] # 0 => disk'[m] # 0
      BY <1>5, <1>6, <1>2
    <2> QED
      BY <2>2, <2>3, <2>4, <1>4, CorpusFacts DEF Corpus!Held, Corpus!TrainName
  <1>12. Corpus!RegateLive'
    BY <1>4 DEF Corpus!RegateLive
  <1> QED
    BY <1>8, <1>9, <1>10, <1>11, <1>12 DEF CorpusInv, Corpus!CorpusKept

LEMMA FetchEndKeeps == ASSUME CorpusInv, Corpus!FetchEnd PROVE CorpusInv'
  <1>1. CorpusShapes' /\ Corpus!VerifiedOnly' /\ Corpus!Held' = Corpus!Held
    BY CorpusSame DEF Corpus!FetchEnd, Corpus!plan
  <1>2. corpusPc = "fetch" /\ corpusPc' = "done" /\ job' = job /\ part' = part
    BY DEF Corpus!FetchEnd, Corpus!plan
  <1> QED
    BY <1>1, <1>2 DEF CorpusInv, Jobs, Corpus!CorpusKept, Corpus!NeverBare, Corpus!RegateLive

LEMMA StartedKeeps ==
  ASSUME CorpusInv, NEW r \in Corpus!Reads, Corpus!Started(r) PROVE CorpusInv'
  <1>1. CorpusShapes' /\ Corpus!VerifiedOnly' /\ Corpus!Held' = Corpus!Held
    BY CorpusSame DEF Corpus!Started
  <1>2. job' = "none" /\ part' = part
    BY DEF Corpus!Started
  <1>3. corpusPc' = "off" \/ (corpusPc' = "round" /\ Corpus!Held /\ mapped' = TRUE /\ regate' = TRUE)
    BY DEF Corpus!Started
  <1> QED
    BY <1>1, <1>2, <1>3 DEF CorpusInv, Jobs, Corpus!CorpusKept, Corpus!NeverBare, Corpus!RegateLive

LEMMA ResyncKeeps ==
  ASSUME CorpusInv, NEW r \in Corpus!Reads, Corpus!Resync(r) PROVE CorpusInv'
  <1>1. CorpusShapes' /\ Corpus!VerifiedOnly' /\ Corpus!Held' = Corpus!Held
    BY CorpusSame DEF Corpus!Resync, Corpus!plan
  <1>2. Corpus!Held
    BY DEF CorpusInv, Corpus!CorpusKept, Corpus!NeverBare, Corpus!Resync
  <1>3. (corpusPc' = "read" /\ job' = "resync") \/ (corpusPc' = "reopen" /\ job' = "same")
    BY DEF Corpus!Resync, Corpus!Begin
  <1> QED
    BY <1>1, <1>2, <1>3 DEF CorpusInv, Jobs, Corpus!CorpusKept, Corpus!NeverBare, Corpus!RegateLive

LEMMA ResyncedKeeps == ASSUME CorpusInv, Corpus!Resynced PROVE CorpusInv'
  <1>1. CorpusShapes' /\ Corpus!VerifiedOnly' /\ Corpus!Held' = Corpus!Held
    BY CorpusSame DEF Corpus!Resynced
  <1>2. Corpus!Held
    BY DEF CorpusInv, Corpus!CorpusKept, Corpus!NeverBare, Corpus!Resynced
  <1>3. corpusPc' = "reopen" /\ job' \in {"fresh", "same"}
    BY DEF Corpus!Resynced
  <1> QED
    BY <1>1, <1>2, <1>3 DEF CorpusInv, Jobs, Corpus!CorpusKept, Corpus!NeverBare, Corpus!RegateLive

LEMMA RotateKeeps == ASSUME CorpusInv, Corpus!Rotate PROVE CorpusInv'
  <1>1. CorpusShapes' /\ Corpus!VerifiedOnly' /\ Corpus!Held' = Corpus!Held
    BY CorpusSame DEF Corpus!Rotate, Corpus!plan, Corpus!EvictFirst
  <1>2. Corpus!Held
    BY DEF CorpusInv, Corpus!CorpusKept, Corpus!NeverBare, Corpus!Rotate
  <1>3. corpusPc' = "read" /\ job' = "rotate" /\ part' = part /\ part # NoPart
    BY DEF Corpus!Rotate, Corpus!Begin, Corpus!plan
  <1> QED
    BY <1>1, <1>2, <1>3 DEF CorpusInv, Jobs, Corpus!CorpusKept, Corpus!NeverBare, Corpus!RegateLive

\* The eviction spares the next part and the validation file, and these are a corpus.
LEMMA RotatedKeeps == ASSUME Corpus!CorpusAssumption, CorpusInv, Corpus!Rotated PROVE CorpusInv'
  <1>1. Corpus!Held /\ part # NoPart /\ adv' = adv /\ total' = total
    BY DEF CorpusInv, Jobs, Corpus!CorpusKept, Corpus!NeverBare, Corpus!Rotated
  <1>2. corpusPc' = "reopen" /\ job' \in {"fresh", "same"}
    BY DEF Corpus!Rotated
  <1>3. CASE part' = part /\ disk' = disk
    <2>1. CorpusShapes' /\ Corpus!VerifiedOnly' /\ Corpus!Held' = Corpus!Held
      BY <1>1, <1>3, CorpusSame
    <2> QED
      BY <2>1, <1>1, <1>2 DEF CorpusInv, Jobs, Corpus!CorpusKept, Corpus!NeverBare, Corpus!RegateLive
  <1>4. CASE part' = Corpus!Following /\ disk' = Corpus!EvictOld(disk) /\ disk[PartName[Corpus!Following]] # 0
    <2>1. Corpus!Following \in 0 .. total - 1 /\ PartName[Corpus!Following] \in Parts /\ total \in Nat
      BY <1>1, TrainIs, CorpusFacts DEF CorpusInv, CorpusShapes
    <2>2. \A n \in Names : disk'[n] = 0 \/ disk'[n] = disk[n]
      BY <1>4 DEF Corpus!EvictOld
    <2>3. disk'[PartName[Corpus!Following]] # 0 /\ disk'[Val] = disk[Val]
      BY <1>4, <2>1, CorpusFacts DEF Corpus!EvictOld, Parts
    <2>4. disk' = [n \in Names |-> disk'[n]]
      BY <1>4 DEF Corpus!EvictOld
    <2>5. CorpusShapes'
      BY <1>1, <1>4, <2>1, <2>4 DEF CorpusInv, CorpusShapes
    <2>6. part' # NoPart
      BY <1>4, <2>1, CorpusFacts
    <2>7. Jobs'
      BY <1>2 DEF Jobs
    <2>8. Corpus!VerifiedOnly'
      BY <2>2 DEF CorpusInv, Corpus!CorpusKept, Corpus!VerifiedOnly, Corpus!Contents
    <2>9. Corpus!Held'
      BY <1>1, <1>4, <2>3, <2>6 DEF Corpus!Held, Corpus!TrainName
    <2> QED
      BY <1>2, <2>5, <2>7, <2>8, <2>9 DEF CorpusInv, Corpus!CorpusKept, Corpus!NeverBare, Corpus!RegateLive
  <1> QED
    BY <1>3, <1>4 DEF Corpus!Rotated

LEMMA ReopenKeeps == ASSUME CorpusInv, Corpus!Reopen PROVE CorpusInv'
  <1>1. CorpusShapes' /\ Corpus!VerifiedOnly' /\ Corpus!Held' = Corpus!Held
    BY CorpusSame DEF Corpus!Reopen, Corpus!plan
  <1>2. Corpus!Held /\ part' = part /\ job' = "none"
    BY DEF CorpusInv, Corpus!CorpusKept, Corpus!NeverBare, Corpus!Reopen, Corpus!plan
  <1>3. corpusPc' = "round" /\ mapped' = TRUE /\ regate' = TRUE
    BY <1>2 DEF Corpus!Reopen, Corpus!Rebinds
  <1> QED
    BY <1>1, <1>2, <1>3 DEF CorpusInv, Jobs, Corpus!CorpusKept, Corpus!NeverBare, Corpus!RegateLive

LEMMA CrashKeepsCorpus == ASSUME CorpusInv, Corpus!Crash PROVE CorpusInv'
  <1>1. CorpusShapes' /\ Corpus!VerifiedOnly' /\ Corpus!Held' = Corpus!Held
    BY CorpusSame DEF Corpus!Crash, Corpus!plan
  <1>2. corpusPc' = "off" /\ job' = "none"
    BY DEF Corpus!Crash
  <1> QED
    BY <1>1, <1>2 DEF CorpusInv, Jobs, Corpus!CorpusKept, Corpus!NeverBare, Corpus!RegateLive

\* CorpusKept, for every number of records, names and parts, and whatever is served or
\* fails: a file on the box is absent or what an advertised record declares
\* (glm_data_autosync installs only bytes of the right hash), a resync or a rotation never
\* leaves a miner without a train or validation file (_maybe_rotate evicts only with the
\* next part on disk), and a round never uses a closed mapping.
THEOREM CorpusAlwaysKept ==
  ASSUME Corpus!CorpusAssumption
  PROVE  Corpus!Init /\ [][Corpus!Next]_(Corpus!vars) => []Corpus!CorpusKept
  <1>1. Corpus!Init => CorpusInv
    BY CorpusInit
  <1>2. ASSUME CorpusInv, [Corpus!Next]_(Corpus!vars) PROVE CorpusInv'
    <2>1. CASE Corpus!Publish
      BY <1>2, <2>1, PublishKeepsCorpus
    <2>2. ASSUME NEW r \in Corpus!Reads, Corpus!Start(r) \/ Corpus!ReadRecord(r) PROVE CorpusInv'
      BY <1>2, <2>2, StartKeeps, ReadKeeps
    <2>3. ASSUME NEW r \in Corpus!Reads, Corpus!Started(r) \/ Corpus!Resync(r) PROVE CorpusInv'
      BY <1>2, <2>3, StartedKeeps, ResyncKeeps
    <2>4. ASSUME NEW n \in todo, Corpus!FetchOne(n) PROVE CorpusInv'
      BY <1>2, <2>4, FetchKeeps
    <2>5. CASE Corpus!FetchEnd \/ Corpus!Resynced
      BY <1>2, <2>5, FetchEndKeeps, ResyncedKeeps
    <2>6. CASE Corpus!Rotate \/ Corpus!Rotated
      BY <1>2, <2>6, RotateKeeps, RotatedKeeps
    <2>7. CASE Corpus!Reopen \/ Corpus!Crash
      BY <1>2, <2>7, ReopenKeeps, CrashKeepsCorpus
    <2>8. CASE UNCHANGED Corpus!vars
      <3>1. CorpusShapes' /\ Corpus!VerifiedOnly' /\ Corpus!Held' = Corpus!Held
        BY <1>2, <2>8, CorpusSame DEF Corpus!vars
      <3> QED
        BY <1>2, <2>8, <3>1 DEF CorpusInv, Jobs, Corpus!CorpusKept, Corpus!NeverBare, Corpus!RegateLive, Corpus!vars
    <2> QED
      BY <1>2, <2>1, <2>2, <2>3, <2>4, <2>5, <2>6, <2>7, <2>8 DEF Corpus!Next
  <1>3. CorpusInv => Corpus!CorpusKept
    BY DEF CorpusInv
  <1> QED
    BY <1>1, <1>2, <1>3, PTL
-----------------------------------------------------------------------------
(* ProductJudge.                                                            *)

PairKeys == [coord : Coords, base : Int, cand : Int]
Pairs == {Judge!Job(k, k.base, k.cand) : k \in PairKeys}

JudgeType ==
  /\ judgeBase \in [Coords -> Int] /\ judgeCand \in [Coords -> Int] /\ count \in Nat
  /\ queue \in Seq(Pairs) /\ inflight \in Pairs \cup {Judge!NoJob} /\ (judgePc # "wait" => inflight \in Pairs)
  /\ attempts = [c \in Coords |-> attempts[c]] /\ net = [c \in Coords |-> net[c]]

\* What is queued or judged has been attempted.
Attempted ==
  /\ \A i \in DOMAIN queue : queue[i].key \in attempts[queue[i].coord]
  /\ judgePc # "wait" => inflight.key \in attempts[inflight.coord]

\* The kept loss is one, of its own base, and of the pair in hand once its base arm is over.
KeptOne ==
  /\ \A m1, m2 \in measured : m1 = m2
  /\ \A m \in measured : m.net[m.coord] = m.base
  /\ judgePc \in {"candidate", "restore"} => \A m \in measured : m.coord = inflight.coord /\ m.base = inflight.base

\* Two networks differ in coordinate c at most.
Alike(f, g, c) == \A d \in Coords \ {c} : f[d] = g[d]

\* The arms so far are those of the pair.
Arms ==
  /\ judgePc \in {"candidate", "restore"} => before[inflight.coord] = inflight.base
  /\ judgePc = "restore" => after[inflight.coord] = inflight.cand

\* While no pair has failed in an arm: the arms, the kept loss and the network agree elsewhere.
ArmsAlike ==
  /\ \A m \in measured : Alike(m.net, net, m.coord)
  /\ judgePc = "candidate" => Alike(before, net, inflight.coord)
  /\ judgePc = "restore" => Alike(before, after, inflight.coord)

\* And it holds bases only, but for the candidate of the pair in hand.
OnBases ==
  \A c \in Coords :
    \/ net[c] = 0 \/ (\E k \in attempts[c] : net[c] = k.base)
    \/ (judgePc = "restore" /\ c = inflight.coord)

\* An accepting verdict is about the base and the candidate of its key.
RuledOnKey ==
  \A k \in Judge!Accepted : done[k].before[k.coord] = k.base /\ done[k].after[k.coord] = k.cand

JudgeSound == Attempted /\ KeptOne /\ Arms /\ RuledOnKey
JudgeClean == ~broken => ArmsAlike /\ OnBases /\ Judge!SameElsewhere
JudgeInv == JudgeType /\ JudgeSound /\ JudgeClean

LEMMA JudgeInit == Judge!Init => JudgeInv
  <1> SUFFICES ASSUME Judge!Init PROVE JudgeInv
    OBVIOUS
  <1>1. JudgeType
    BY DEF Judge!Init, JudgeType, Judge!Pack, Judge!None
  <1>2. Attempted /\ KeptOne /\ Arms
    BY DEF Judge!Init, Attempted, KeptOne, Arms
  <1>3. DOMAIN done = {}
    BY DEF Judge!Init
  <1>4. RuledOnKey /\ Judge!SameElsewhere
    BY <1>3 DEF RuledOnKey, Judge!Accepted, Judge!SameElsewhere
  <1>5. ArmsAlike /\ OnBases
    BY DEF Judge!Init, ArmsAlike, OnBases, Judge!Pack
  <1> QED
    BY <1>1, <1>2, <1>4, <1>5 DEF JudgeInv, JudgeSound, JudgeClean

LEMMA PairIs ==
  ASSUME NEW j \in Pairs
  PROVE  j.key \in PairKeys /\ j.coord = j.key.coord /\ j.base = j.key.base /\ j.cand = j.key.cand
  BY DEF Pairs, Judge!Job

LEMMA PairOf == \A k \in PairKeys : Judge!Job(k, k.base, k.cand) \in Pairs
  BY DEF Pairs

\* A loop's step leaves the worker alone.
LEMMA LoopKeeps ==
  ASSUME JudgeInv, NEW c \in Coords,
         Judge!Propose(c) \/ Judge!MoveBase(c) \/ Judge!SubmitRefused(c) \/ Judge!Poll(c)
  PROVE  JudgeInv'
  <1>1. /\ queue' = queue /\ inflight' = inflight /\ attempts' = attempts /\ judgePc' = judgePc /\ net' = net
        /\ measured' = measured /\ before' = before /\ after' = after /\ broken' = broken
    BY DEF Judge!Propose, Judge!MoveBase, Judge!SubmitRefused, Judge!Poll, Judge!gate, Judge!judge
  <1>2. judgeBase' \in [Coords -> Int] /\ judgeCand' \in [Coords -> Int] /\ count' \in Nat
    BY DEF JudgeInv, JudgeType, Judge!Propose, Judge!MoveBase, Judge!SubmitRefused, Judge!Poll, Judge!None
  <1>3. JudgeType'
    BY <1>1, <1>2 DEF JudgeInv, JudgeType
  <1>4. Attempted' /\ KeptOne' /\ Arms'
    BY <1>1 DEF JudgeInv, JudgeSound, Attempted, KeptOne, Arms
  <1>5. ~broken => ArmsAlike' /\ OnBases'
    BY <1>1 DEF JudgeInv, JudgeClean, ArmsAlike, OnBases, Alike
  <1>6. DOMAIN done' \subseteq DOMAIN done /\ \A k \in DOMAIN done' : done'[k] = done[k]
    BY DEF Judge!Propose, Judge!MoveBase, Judge!SubmitRefused, Judge!Poll, Judge!gate, Judge!Forget
  <1>7. Judge!Accepted' \subseteq Judge!Accepted
    BY <1>6 DEF Judge!Accepted
  <1>8. \A k \in Judge!Accepted' : done'[k] = done[k]
    BY <1>6 DEF Judge!Accepted
  <1>9. RuledOnKey'
    BY <1>7, <1>8 DEF JudgeInv, JudgeSound, RuledOnKey
  <1>10. ~broken => Judge!SameElsewhere'
    BY <1>7, <1>8 DEF JudgeInv, JudgeClean, Judge!SameElsewhere
  <1> QED
    BY <1>1, <1>3, <1>4, <1>5, <1>9, <1>10 DEF JudgeInv, JudgeSound, JudgeClean

LEMMA SubmitKeeps == ASSUME JudgeInv, NEW c \in Coords, Judge!Submit(c) PROVE JudgeInv'
  <1> DEFINE k == Judge!Key(c)
  <1>1. /\ judgeBase' = judgeBase /\ judgeCand' = judgeCand /\ count' = count /\ inflight' = inflight /\ done' = done /\ judgePc' = judgePc
        /\ net' = net /\ measured' = measured /\ before' = before /\ after' = after /\ broken' = broken
        /\ attempts' = [attempts EXCEPT ![c] = @ \cup {k}]
        /\ queue' = Append(queue, Judge!Job(k, judgeBase[c], judgeCand[c]))
    BY DEF Judge!Submit, Judge!judge
  <1>2. k \in PairKeys /\ k.coord = c /\ k.base = judgeBase[c] /\ k.cand = judgeCand[c]
    BY DEF JudgeInv, JudgeType, PairKeys, Judge!Key
  <1> HIDE DEF k
  <1> DEFINE j == Judge!Job(k, judgeBase[c], judgeCand[c])
  <1>3. j \in Pairs /\ j.key = k /\ j.coord = c
    BY <1>2, PairOf DEF Judge!Job
  <1> HIDE DEF j
  <1>4. queue \in Seq(Pairs) /\ attempts = [d \in Coords |-> attempts[d]]
    BY DEF JudgeInv, JudgeType
  <1>5. attempts' = [d \in Coords |-> attempts'[d]] /\ k \in attempts'[c]
        /\ \A d \in Coords : attempts[d] \subseteq attempts'[d]
    BY <1>1, <1>4
  <1>6. /\ queue' \in Seq(Pairs) /\ DOMAIN queue' = DOMAIN queue \cup {Len(queue) + 1}
        /\ \A i \in DOMAIN queue : queue'[i] = queue[i]
        /\ queue'[Len(queue) + 1] = j
    BY <1>1, <1>3, <1>4 DEF j
  <1>7. JudgeType'
    BY <1>1, <1>5, <1>6 DEF JudgeInv, JudgeType
  <1>8. Attempted'
    <2>1. ASSUME NEW i \in DOMAIN queue PROVE queue'[i].key \in attempts'[queue'[i].coord]
      <3>1. queue[i] \in Pairs
        BY <1>4
      <3>2. queue[i].coord \in Coords
        BY <3>1, PairIs DEF PairKeys
      <3> QED
        BY <3>2, <1>5, <1>6 DEF JudgeInv, JudgeSound, Attempted
    <2>2. queue'[Len(queue) + 1].key \in attempts'[queue'[Len(queue) + 1].coord]
      BY <1>3, <1>5, <1>6
    <2>3. judgePc' # "wait" => inflight'.key \in attempts'[inflight'.coord]
      <3>1. judgePc # "wait" => inflight.coord \in Coords
        BY PairIs DEF JudgeInv, JudgeType, PairKeys
      <3> QED
        BY <3>1, <1>1, <1>5 DEF JudgeInv, JudgeSound, Attempted
    <2> QED
      BY <2>1, <2>2, <2>3, <1>6 DEF Attempted
  <1>9. KeptOne' /\ Arms' /\ RuledOnKey'
    BY <1>1 DEF JudgeInv, JudgeSound, KeptOne, Arms, RuledOnKey, Judge!Accepted
  <1>10. ~broken => ArmsAlike' /\ Judge!SameElsewhere'
    BY <1>1 DEF JudgeInv, JudgeClean, ArmsAlike, Alike, Judge!SameElsewhere, Judge!Accepted
  <1>11. ~broken => OnBases'
    BY <1>1, <1>5 DEF JudgeInv, JudgeClean, OnBases
  <1> QED
    BY <1>1, <1>7, <1>8, <1>9, <1>10, <1>11 DEF JudgeInv, JudgeSound, JudgeClean
LEMMA TakeKeeps == ASSUME JudgeInv, Judge!Take PROVE JudgeInv'
  <1>1. /\ judgeBase' = judgeBase /\ judgeCand' = judgeCand /\ count' = count /\ attempts' = attempts /\ done' = done
        /\ net' = net /\ measured' = measured /\ before' = before /\ after' = after /\ broken' = broken
        /\ queue # <<>> /\ inflight' = Head(queue) /\ queue' = Tail(queue) /\ judgePc = "wait" /\ judgePc' = "build"
    BY DEF Judge!Take, Judge!judge
  <1>2. queue \in Seq(Pairs)
    BY DEF JudgeInv, JudgeType
  <1>3. /\ inflight' = queue[1] /\ inflight' \in Pairs /\ 1 \in DOMAIN queue /\ queue' \in Seq(Pairs)
        /\ \A i \in DOMAIN queue' : i + 1 \in DOMAIN queue /\ queue'[i] = queue[i + 1]
    BY <1>1, <1>2
  <1>4. JudgeType'
    BY <1>1, <1>3 DEF JudgeInv, JudgeType
  <1>5. Attempted'
    <2>1. inflight'.key \in attempts'[inflight'.coord]
      BY <1>1, <1>3 DEF JudgeInv, JudgeSound, Attempted
    <2>2. \A i \in DOMAIN queue' : queue'[i].key \in attempts'[queue'[i].coord]
      BY <1>1, <1>3 DEF JudgeInv, JudgeSound, Attempted
    <2> QED
      BY <2>1, <2>2 DEF Attempted
  <1>6. KeptOne' /\ Arms' /\ RuledOnKey'
    BY <1>1 DEF JudgeInv, JudgeSound, KeptOne, Arms, RuledOnKey, Judge!Accepted
  <1>7. ~broken => ArmsAlike' /\ OnBases' /\ Judge!SameElsewhere'
    BY <1>1 DEF JudgeInv, JudgeClean, ArmsAlike, Alike, OnBases, Judge!SameElsewhere, Judge!Accepted
  <1> QED
    BY <1>1, <1>4, <1>5, <1>6, <1>7 DEF JudgeInv, JudgeSound, JudgeClean

\* A step of the worker that rules on nothing moves neither the loop nor the gate.
LEMMA WorkerType ==
  ASSUME JudgeInv, judgePc # "wait", judgeBase' = judgeBase, judgeCand' = judgeCand, count' = count, queue' = queue,
         inflight' = inflight, attempts' = attempts, net' = [c \in Coords |-> net'[c]]
  PROVE  JudgeType' /\ Attempted' /\ inflight' \in Pairs
  <1>1. inflight \in Pairs
    BY DEF JudgeInv, JudgeType
  <1> QED
    BY <1>1 DEF JudgeInv, JudgeType, JudgeSound, Attempted

LEMMA BuildKeeps == ASSUME JudgeInv, Judge!Build \/ Judge!Hang PROVE JudgeInv'
  <1>1. /\ judgeBase' = judgeBase /\ judgeCand' = judgeCand /\ count' = count /\ queue' = queue /\ inflight' = inflight
        /\ done' = done /\ attempts' = attempts
        /\ net' = net /\ measured' = measured /\ before' = before /\ after' = after /\ broken' = broken
        /\ judgePc \notin {"wait", "restore"} /\ judgePc' \in {"base", "hung"}
    BY DEF Judge!Build, Judge!Hang, Judge!judge, Judge!gate
  <1>2. net' = [c \in Coords |-> net'[c]]
    BY <1>1 DEF JudgeInv, JudgeType
  <1>3. JudgeType' /\ Attempted'
    BY <1>1, <1>2, WorkerType
  <1>4. KeptOne' /\ Arms' /\ RuledOnKey'
    BY <1>1 DEF JudgeInv, JudgeSound, KeptOne, Arms, RuledOnKey, Judge!Accepted
  <1>5. ~broken => ArmsAlike' /\ OnBases' /\ Judge!SameElsewhere'
    BY <1>1 DEF JudgeInv, JudgeClean, ArmsAlike, Alike, OnBases, Judge!SameElsewhere, Judge!Accepted
  <1> QED
    BY <1>1, <1>3, <1>4, <1>5 DEF JudgeInv, JudgeSound, JudgeClean

\* A verdict on the pair in hand.
LEMMA RuleIs ==
  ASSUME JudgeInv, NEW v, Judge!Rule(v)
  PROVE  /\ judgeBase' = judgeBase /\ judgeCand' = judgeCand /\ count' = count /\ queue' = queue /\ attempts' = attempts
         /\ inflight' = Judge!NoJob /\ judgePc' = "wait"
         /\ v.accept = FALSE => Judge!Accepted' \subseteq Judge!Accepted
         /\ Judge!Accepted' \subseteq Judge!Accepted \cup {inflight.key}
         /\ \A k \in Judge!Accepted' : done'[k] = IF k = inflight.key THEN v ELSE done[k]
         /\ v.accept = FALSE => \A k \in Judge!Accepted' : k # inflight.key
  <1>1. /\ judgeBase' = judgeBase /\ judgeCand' = judgeCand /\ count' = count /\ queue' = queue /\ attempts' = attempts
        /\ inflight' = Judge!NoJob /\ judgePc' = "wait"
        /\ done' = [k \in DOMAIN done \cup {inflight.key} |-> IF k = inflight.key THEN v ELSE done[k]]
    BY DEF Judge!Rule
  <1>2. \A k \in Judge!Accepted' :
          /\ k \in DOMAIN done \cup {inflight.key} /\ done'[k].accept
          /\ done'[k] = IF k = inflight.key THEN v ELSE done[k]
    BY <1>1 DEF Judge!Accepted
  <1>3. Judge!Accepted' \subseteq Judge!Accepted \cup {inflight.key}
    BY <1>2 DEF Judge!Accepted
  <1>4. v.accept = FALSE => \A k \in Judge!Accepted' : k # inflight.key
    BY <1>2
  <1> QED
    BY <1>1, <1>2, <1>3, <1>4

\* A rejection adds no accepting verdict; the worker waits, with the pair let go.
LEMMA FailKeeps ==
  ASSUME JudgeInv, Judge!Fail
  PROVE  /\ net' = [c \in Coords |-> net'[c]] => JudgeType'
         /\ Attempted' /\ RuledOnKey' /\ (~broken => Judge!SameElsewhere')
         /\ judgePc' = "wait" /\ attempts' = attempts
  <1>1. /\ judgeBase' = judgeBase /\ judgeCand' = judgeCand /\ count' = count /\ queue' = queue /\ attempts' = attempts
        /\ inflight' = Judge!NoJob /\ judgePc' = "wait"
        /\ Judge!Accepted' \subseteq Judge!Accepted
        /\ \A k \in Judge!Accepted' : done'[k] = done[k]
    <2> DEFINE v == Judge!Rejection
    <2>1. Judge!Rule(v) /\ v.accept = FALSE
      BY DEF Judge!Fail, Judge!Rejection
    <2> HIDE DEF v
    <2> QED
      BY <2>1, RuleIs
  <1>2. net' = [c \in Coords |-> net'[c]] => JudgeType'
    BY <1>1 DEF JudgeInv, JudgeType
  <1>3. Attempted'
    BY <1>1 DEF JudgeInv, JudgeSound, Attempted
  <1>4. RuledOnKey'
    BY <1>1 DEF JudgeInv, JudgeSound, RuledOnKey
  <1>5. ~broken => Judge!SameElsewhere'
    BY <1>1 DEF JudgeInv, JudgeClean, Judge!SameElsewhere
  <1> QED
    BY <1>1, <1>2, <1>3, <1>4, <1>5

LEMMA RaisesKeep ==
  ASSUME JudgeInv, Judge!BuildRaises \/ Judge!BaseArmRaises \/ Judge!CandidateArmRaises
  PROVE  JudgeInv'
  <1>1. Judge!Fail /\ judgePc # "wait"
    BY DEF Judge!BuildRaises, Judge!BaseArmRaises, Judge!CandidateArmRaises
  <1>2. net = [c \in Coords |-> net[c]]
    BY DEF JudgeInv, JudgeType
  <1>3. net' = [c \in Coords |-> net'[c]]
    BY <1>2 DEF Judge!BuildRaises, Judge!BaseArmRaises, Judge!CandidateArmRaises, Judge!At, Judge!Pack
  <1>4. measured' = measured \/ measured' = {}
    BY DEF Judge!BuildRaises, Judge!BaseArmRaises, Judge!CandidateArmRaises
  <1>5. KeptOne' /\ Arms'
    BY <1>1, <1>4, FailKeeps DEF JudgeInv, JudgeSound, KeptOne, Arms
  <1>6. broken' \/ (broken' = broken /\ net' = Judge!Pack /\ measured' = {})
    BY DEF Judge!BuildRaises, Judge!BaseArmRaises, Judge!CandidateArmRaises
  <1>7. ~broken' => ArmsAlike' /\ OnBases'
    BY <1>1, <1>6, FailKeeps DEF ArmsAlike, OnBases, Judge!Pack
  <1> QED
    BY <1>1, <1>3, <1>5, <1>6, <1>7, FailKeeps DEF JudgeInv, JudgeSound, JudgeClean
LEMMA BaseArmKeeps == ASSUME JudgeInv, Judge!BaseArm PROVE JudgeInv'
  <1> DEFINE c == inflight.coord
             b == inflight.base
  <1>1. /\ judgeBase' = judgeBase /\ judgeCand' = judgeCand /\ count' = count /\ queue' = queue /\ inflight' = inflight
        /\ done' = done /\ attempts' = attempts /\ after' = after /\ broken' = broken
        /\ judgePc = "base" /\ judgePc' = "candidate"
    BY DEF Judge!BaseArm, Judge!gate
  <1>2. /\ inflight \in Pairs /\ c \in Coords /\ inflight.key \in attempts[c] /\ b = inflight.key.base
        /\ net = [d \in Coords |-> net[d]]
    BY <1>1, PairIs DEF JudgeInv, JudgeType, JudgeSound, Attempted, PairKeys
  <1>3. \/ /\ net' = net /\ measured' = measured
           /\ \E m \in measured : m.coord = c /\ m.base = b /\ before' = m.net
        \/ /\ net' = [net EXCEPT ![c] = b] /\ before' = net'
           /\ measured' = {[coord |-> c, base |-> b, net |-> net']}
    BY DEF Judge!BaseArm, Judge!Kept, Judge!At, Judge!Keeps
  <1>4. ASSUME JudgeType', Attempted', RuledOnKey', KeptOne', Arms',
               ~broken => ArmsAlike' /\ OnBases' /\ Judge!SameElsewhere'
        PROVE  JudgeInv'
    BY <1>1, <1>4 DEF JudgeInv, JudgeSound, JudgeClean
  <1>5. RuledOnKey' /\ (~broken => Judge!SameElsewhere')
    BY <1>1 DEF JudgeInv, JudgeSound, JudgeClean, RuledOnKey, Judge!SameElsewhere, Judge!Accepted
  <1>6. net' = [d \in Coords |-> net'[d]]
    BY <1>2, <1>3
  <1>7. JudgeType' /\ Attempted'
    BY <1>1, <1>6, WorkerType
  <1>8. CASE net' = net /\ measured' = measured /\ \E m \in measured : m.coord = c /\ m.base = b /\ before' = m.net
    <2>1. PICK m \in measured : m.coord = c /\ m.base = b /\ before' = m.net
      BY <1>8
    <2>2. \A x \in measured : x = m
      BY DEF JudgeInv, JudgeSound, KeptOne
    <2>3. m.net[m.coord] = m.base
      BY DEF JudgeInv, JudgeSound, KeptOne
    <2>4. KeptOne'
      BY <1>1, <1>8, <2>1, <2>2, <2>3 DEF KeptOne
    <2>5. Arms'
      BY <1>1, <2>1, <2>3 DEF Arms
    <2>6. ~broken => ArmsAlike' /\ OnBases'
      BY <1>1, <1>8, <2>1 DEF JudgeInv, JudgeClean, ArmsAlike, OnBases, Alike
    <2> QED
      BY <1>4, <1>5, <1>7, <2>4, <2>5, <2>6
  <1>9. CASE /\ net' = [net EXCEPT ![c] = b] /\ before' = net'
             /\ measured' = {[coord |-> c, base |-> b, net |-> net']}
    <2>1. net'[c] = b /\ \A d \in Coords \ {c} : net'[d] = net[d]
      BY <1>2, <1>9
    <2>2. \A m \in measured' : m.coord = c /\ m.base = b /\ m.net = net'
      BY <1>9
    <2>3. \A m1, m2 \in measured' : m1 = m2
      BY <1>9
    <2>4. KeptOne'
      BY <1>1, <2>1, <2>2, <2>3 DEF KeptOne
    <2>5. Arms'
      BY <1>1, <1>9, <2>1 DEF Arms
    <2>6. ArmsAlike'
      BY <1>1, <1>9, <2>2 DEF ArmsAlike, Alike
    <2>7. ~broken => OnBases'
      BY <1>1, <1>2, <2>1 DEF JudgeInv, JudgeClean, OnBases
    <2> QED
      BY <1>4, <1>5, <1>7, <2>4, <2>5, <2>6, <2>7
  <1> QED
    BY <1>3, <1>8, <1>9

LEMMA CandidateArmKeeps == ASSUME JudgeInv, Judge!CandidateArm PROVE JudgeInv'
  <1> DEFINE c == inflight.coord
  <1>1. /\ judgeBase' = judgeBase /\ judgeCand' = judgeCand /\ count' = count /\ queue' = queue /\ inflight' = inflight
        /\ done' = done /\ attempts' = attempts /\ broken' = broken /\ measured' = measured /\ before' = before
        /\ judgePc = "candidate" /\ judgePc' = "restore" /\ net' = [net EXCEPT ![c] = inflight.cand] /\ after' = net'
    BY DEF Judge!CandidateArm, Judge!gate, Judge!At
  <1>2. c \in Coords /\ net = [d \in Coords |-> net[d]]
    BY <1>1, PairIs DEF JudgeInv, JudgeType, PairKeys
  <1>3. /\ net' = [d \in Coords |-> net'[d]] /\ net'[c] = inflight.cand
        /\ \A d \in Coords \ {c} : net'[d] = net[d]
    BY <1>1, <1>2
  <1>4. JudgeType' /\ Attempted'
    BY <1>1, <1>3, WorkerType
  <1>5. KeptOne' /\ Arms' /\ RuledOnKey'
    BY <1>1, <1>3 DEF JudgeInv, JudgeSound, KeptOne, Arms, RuledOnKey, Judge!Accepted
  <1>6. \A m \in measured : m.coord = c
    BY <1>1 DEF JudgeInv, JudgeSound, KeptOne
  <1>7. ~broken => ArmsAlike'
    BY <1>1, <1>3, <1>6 DEF JudgeInv, JudgeClean, ArmsAlike, Alike
  <1>8. ~broken => OnBases' /\ Judge!SameElsewhere'
    BY <1>1, <1>3 DEF JudgeInv, JudgeClean, OnBases, Judge!SameElsewhere, Judge!Accepted
  <1> QED
    BY <1>1, <1>4, <1>5, <1>7, <1>8 DEF JudgeInv, JudgeSound, JudgeClean

LEMMA VerdictKeeps == ASSUME JudgeInv, NEW accept \in BOOLEAN, Judge!Verdict(accept) PROVE JudgeInv'
  <1> DEFINE c == inflight.coord
             k == inflight.key
             v == IF accept THEN [accept |-> TRUE, before |-> before, after |-> after] ELSE Judge!Rejection
  <1>1. /\ judgePc = "restore" /\ net' = [net EXCEPT ![c] = inflight.base] /\ measured' = measured /\ broken' = broken
    BY DEF Judge!Verdict, Judge!Restored, Judge!At
  <1>2. Judge!Rule(v)
    BY DEF Judge!Verdict
  <1>3. /\ judgeBase' = judgeBase /\ judgeCand' = judgeCand /\ count' = count /\ queue' = queue /\ attempts' = attempts
        /\ inflight' = Judge!NoJob /\ judgePc' = "wait"
        /\ v.accept = FALSE => Judge!Accepted' \subseteq Judge!Accepted
        /\ Judge!Accepted' \subseteq Judge!Accepted \cup {k}
        /\ \A q \in Judge!Accepted' : done'[q] = IF q = k THEN v ELSE done[q]
        /\ v.accept = FALSE => \A q \in Judge!Accepted' : q # k
    <2> HIDE DEF v
    <2> QED
      BY <1>2, RuleIs
  <1>4. accept = TRUE => v.before = before /\ v.after = after
    OBVIOUS
  <1>5. accept = FALSE => v.accept = FALSE
    BY DEF Judge!Rejection
  <1>6. \A q \in Judge!Accepted' :
          \/ q \in Judge!Accepted /\ done'[q] = done[q]
          \/ q = k /\ done'[q].before = before /\ done'[q].after = after
    BY <1>3, <1>4, <1>5
  <1> HIDE DEF v
  <1>7. /\ inflight \in Pairs /\ c \in Coords /\ c = k.coord /\ k \in attempts[c]
        /\ inflight.base = k.base /\ inflight.cand = k.cand /\ net = [d \in Coords |-> net[d]]
    BY <1>1, PairIs DEF JudgeInv, JudgeType, JudgeSound, Attempted, PairKeys
  <1>8. /\ net' = [d \in Coords |-> net'[d]] /\ net'[c] = k.base
        /\ \A d \in Coords \ {c} : net'[d] = net[d]
    BY <1>1, <1>7
  <1>9. JudgeType' /\ Attempted'
    BY <1>3, <1>8 DEF JudgeInv, JudgeType, JudgeSound, Attempted
  <1>10. KeptOne' /\ Arms'
    BY <1>1, <1>3 DEF JudgeInv, JudgeSound, KeptOne, Arms
  <1>11. before[c] = k.base /\ after[c] = k.cand
    BY <1>1, <1>7 DEF JudgeInv, JudgeSound, Arms
  <1>12. RuledOnKey'
    BY <1>6, <1>7, <1>11 DEF JudgeInv, JudgeSound, RuledOnKey
  <1>13. \A m \in measured : m.coord = c
    BY <1>1 DEF JudgeInv, JudgeSound, KeptOne
  <1>14. ~broken => ArmsAlike'
    BY <1>1, <1>3, <1>8, <1>13 DEF JudgeInv, JudgeClean, ArmsAlike, Alike
  <1>15. ~broken => OnBases'
    BY <1>1, <1>3, <1>7, <1>8 DEF JudgeInv, JudgeClean, OnBases
  <1>16. ~broken => Judge!SameElsewhere'
    BY <1>1, <1>6, <1>7 DEF JudgeInv, JudgeClean, ArmsAlike, Alike, Judge!SameElsewhere
  <1> QED
    BY <1>1, <1>9, <1>10, <1>12, <1>14, <1>15, <1>16 DEF JudgeInv, JudgeSound, JudgeClean

\* VerdictsHold, for every number of coordinates, candidates and attempts, whatever moves
\* while a pair is queued or judged: a verdict is applied to the base and the candidate it
\* measured (JudgeGate keys a verdict by both), and while no pair failed in an arm its two
\* arms agree elsewhere and the network starts a pair on bases (_base_ce keeps the loss of
\* the latest base only; the base is put back after the candidate).
THEOREM VerdictsAlwaysHold ==
  Judge!Init /\ [][Judge!Next]_(Judge!vars) => []Judge!VerdictsHold
  <1>1. Judge!Init => JudgeInv
    BY JudgeInit
  <1>2. ASSUME JudgeInv, [Judge!Next]_(Judge!vars) PROVE JudgeInv'
    <2>1. ASSUME NEW c \in Coords, Judge!Propose(c) \/ Judge!MoveBase(c) \/ Judge!Loop(c) PROVE JudgeInv'
      BY <1>2, <2>1, LoopKeeps, SubmitKeeps DEF Judge!Loop
    <2>2. CASE Judge!Take \/ Judge!Build \/ Judge!Hang
      BY <1>2, <2>2, TakeKeeps, BuildKeeps
    <2>3. CASE Judge!BuildRaises \/ Judge!BaseArmRaises \/ Judge!CandidateArmRaises
      BY <1>2, <2>3, RaisesKeep
    <2>4. CASE Judge!BaseArm \/ Judge!CandidateArm
      BY <1>2, <2>4, BaseArmKeeps, CandidateArmKeeps
    <2>5. ASSUME NEW accept \in BOOLEAN, Judge!Verdict(accept) PROVE JudgeInv'
      BY <1>2, <2>5, VerdictKeeps
    <2>6. CASE UNCHANGED Judge!vars
      <3>1. /\ judgeBase' = judgeBase /\ judgeCand' = judgeCand /\ count' = count /\ queue' = queue /\ inflight' = inflight
            /\ done' = done /\ attempts' = attempts /\ judgePc' = judgePc /\ net' = net /\ measured' = measured
            /\ before' = before /\ after' = after /\ broken' = broken
        BY <2>6 DEF Judge!vars, Judge!gate, Judge!judge
      <3>2. JudgeType' /\ JudgeSound'
        BY <1>2, <3>1 DEF JudgeInv, JudgeType, JudgeSound, Attempted, KeptOne, Arms, RuledOnKey, Judge!Accepted
      <3>3. JudgeClean'
        BY <1>2, <3>1
           DEF JudgeInv, JudgeClean, ArmsAlike, Alike, OnBases, Judge!SameElsewhere, Judge!Accepted
      <3> QED
        BY <3>2, <3>3 DEF JudgeInv
    <2> QED
      BY <1>2, <2>1, <2>2, <2>3, <2>4, <2>5, <2>6 DEF Judge!Next, Judge!Worker
  <1>3. JudgeInv => Judge!VerdictsHold
    <2> SUFFICES ASSUME JudgeInv PROVE Judge!VerdictsHold
      OBVIOUS
    <2>1. Judge!RuledOnOwn
      BY DEF JudgeInv, JudgeSound, RuledOnKey, Judge!RuledOnOwn, Judge!Key
    <2>2. Judge!ArmsAgree
      BY DEF JudgeInv, JudgeClean, Judge!ArmsAgree
    <2>3. Judge!CarriesBases
      BY DEF JudgeInv, JudgeClean, OnBases, Judge!CarriesBases, Judge!NetOfBases
    <2> QED
      BY <2>1, <2>2, <2>3 DEF Judge!VerdictsHold
  <1> QED
    BY <1>1, <1>2, <1>3, PTL
-----------------------------------------------------------------------------
(* SyncRound.                                                               *)

Merges == SUBSET (Miners \X Nat)
Tables == [Miners -> [Sync!Rounds -> Nat]]

SyncType ==
  /\ log \in Seq(Merges) /\ Len(log) <= MaxRound /\ runs \in Nat \ {0}
  /\ merges = [r \in Sync!Rounds |-> merges[r]]
  /\ syncNames \in Tables /\ man \in [Miners -> Tables]
  /\ syncPc = [m \in Miners |-> syncPc[m]] /\ syncBase = [m \in Miners |-> syncBase[m]] /\ root = [m \in Miners |-> root[m]]
  /\ applied \in [Miners -> Int] /\ rnd \in [Miners -> Nat] /\ syncRec \in [Miners -> Nat] /\ syncSent \in Nat

\* The records of a lane of one run are its merges.
OfThisRun == \A r \in Sync!Rounds : merges[r] = Absent \/ (r < Len(log) /\ merges[r] = log[r + 1])

\* And a miner holds the merges up to applied, and replays up to the pointer it read.
Replica(m) ==
  /\ applied[m] + 1 \in 0 .. Len(log) /\ syncBase[m] = SubSeq(log, 1, applied[m] + 1)
  /\ syncPc[m] = "replay" =>
       rnd[m] <= Len(log) /\ root[m] = SubSeq(log, 1, rnd[m]) /\ applied[m] + 1 <= rnd[m]

TrainsOn(m) == m \notin Light /\ syncPc[m] = "train" => syncBase[m] = root[m]

SyncInv ==
  /\ SyncType /\ \A m \in Miners : TrainsOn(m)
  /\ runs = 1 => OfThisRun /\ (\A m \in Miners : Replica(m)) /\ ~drifted

LEMMA Prefixes ==
  /\ \A S : \A s \in Seq(S), x \in S : \A n \in 0 .. Len(s) : SubSeq(Append(s, x), 1, n) = SubSeq(s, 1, n)
  /\ \A S : \A s \in Seq(S) : \A n \in Nat : n < Len(s) => Append(SubSeq(s, 1, n), s[n + 1]) = SubSeq(s, 1, n + 1)
  /\ \A S : \A s \in Seq(S) : SubSeq(s, 1, Len(s)) = s /\ SubSeq(s, 1, 0) = << >>
  OBVIOUS

LEMMA SyncInit == ASSUME Sync!SyncAssumption, Sync!Init PROVE SyncInv
  <1>1. SyncType
    BY DEF Sync!Init, SyncType, Sync!Start, Sync!NoNames, Tables, Sync!SyncAssumption
  <1>2. \A m \in Miners : TrainsOn(m)
    BY DEF Sync!Init, TrainsOn, Sync!Start
  <1>3. OfThisRun
    BY DEF Sync!Init, OfThisRun
  <1>4. log \in Seq({}) /\ SubSeq(log, 1, 0) = << >>
    BY Prefixes DEF Sync!Init
  <1>5. \A m \in Miners : Replica(m)
    BY <1>4 DEF Sync!Init, Replica, Sync!Start
  <1> QED
    BY <1>1, <1>2, <1>3, <1>5 DEF SyncInv, Sync!Init

\* What a step of the coordinator's leaves to the miners.
LEMMA MergeKeeps == ASSUME Sync!SyncAssumption, SyncInv, Sync!Merge PROVE SyncInv'
  <1> USE DEF Sync!SyncAssumption
  <1>1. /\ UNCHANGED <<up, runs, merges, syncNames, syncPc, syncBase, applied, doneLast, rnd, root, syncRec, syncSent, man, drifted>>
        /\ ~Sync!Done
    BY DEF Sync!Merge, Sync!process, Sync!seen, Sync!records
  <1>2. /\ log \in Seq(Merges) /\ Len(log) <= MaxRound /\ syncNames \in Tables
        /\ Len(log) # MaxRound /\ Len(log) \in Sync!Rounds
    BY <1>1 DEF SyncInv, SyncType, Sync!Done, Sync!Round, Sync!Rounds
  <1>3. PICK won \in SUBSET Sync!Submitted : log' = Append(log, won)
    BY DEF Sync!Merge
  <1>4. won \in Merges
    BY <1>2 DEF Merges, Sync!Submitted, Tables, Sync!Round
  <1>5. /\ log' \in Seq(Merges) /\ Len(log') = Len(log) + 1 /\ Len(log') <= MaxRound
        /\ \A i \in 1 .. Len(log) : log'[i] = log[i]
        /\ \A n \in 0 .. Len(log) : SubSeq(log', 1, n) = SubSeq(log, 1, n)
    BY <1>2, <1>3, <1>4, Prefixes
  <1>6. SyncType'
    BY <1>1, <1>5 DEF SyncInv, SyncType
  <1>7. \A m \in Miners : TrainsOn(m)'
    BY <1>1 DEF SyncInv, TrainsOn
  <1>8. OfThisRun => OfThisRun'
    BY <1>1, <1>2, <1>5 DEF OfThisRun, Sync!Rounds
  <1>9. ASSUME NEW m \in Miners, Replica(m) PROVE Replica(m)'
    <2>1. rnd[m] \in Nat /\ applied[m] \in Int
      BY DEF SyncInv, SyncType
    <2> QED
      BY <1>1, <1>2, <1>5, <1>9, <2>1 DEF Replica
  <1> QED
    BY <1>1, <1>6, <1>7, <1>8, <1>9 DEF SyncInv

LEMMA CoordinatorKeeps ==
  ASSUME Sync!SyncAssumption, SyncInv, Sync!ComeUp \/ Sync!PutAccepted \/ Sync!StartOver PROVE SyncInv'
  <1>1. /\ syncNames' = syncNames /\ syncPc' = syncPc /\ syncBase' = syncBase /\ applied' = applied /\ rnd' = rnd /\ root' = root
        /\ syncRec' = syncRec /\ syncSent' = syncSent /\ man' = man /\ drifted' = drifted
    <2>1. CASE Sync!ComeUp
      BY <2>1 DEF Sync!ComeUp, Sync!process, Sync!seen, Sync!records
    <2>2. CASE Sync!PutAccepted
      BY <2>2 DEF Sync!PutAccepted, Sync!process, Sync!seen, Sync!records
    <2>3. CASE Sync!StartOver
      BY <2>3 DEF Sync!StartOver, Sync!process, Sync!seen, Sync!records
    <2> QED
      BY <2>1, <2>2, <2>3
  <1>2. SyncType'
    <2>1. /\ (log' = log \/ log' = << >>) /\ (runs' = runs \/ runs' = runs + 1)
      BY DEF Sync!ComeUp, Sync!PutAccepted, Sync!StartOver
    <2>2. log \in Seq(Merges) /\ Len(log) <= MaxRound /\ runs \in Nat \ {0} /\ MaxRound \in Nat
      BY DEF SyncInv, SyncType, Sync!SyncAssumption
    <2>3. log' \in Seq(Merges) /\ Len(log') <= MaxRound
      <3>1. << >> \in Seq(Merges) /\ Len(<< >>) = 0
        OBVIOUS
      <3>2. CASE log' = << >>
        BY <2>2, <3>1, <3>2
      <3>3. CASE log' = log
        BY <2>2, <3>3
      <3> QED
        BY <2>1, <3>2, <3>3
    <2>7. runs' \in Nat \ {0}
      BY <2>1, <2>2
    <2>4. merges = [r \in Sync!Rounds |-> merges[r]]
      BY DEF SyncInv, SyncType
    <2>5. merges' = merges \/ \E r, x : merges' = [merges EXCEPT ![r] = x]
      BY DEF Sync!ComeUp, Sync!PutAccepted, Sync!StartOver
    <2>6. merges' = [r \in Sync!Rounds |-> merges'[r]]
      BY <2>4, <2>5
    <2> QED
      BY <1>1, <2>3, <2>6, <2>7 DEF SyncInv, SyncType
  <1>3. \A m \in Miners : TrainsOn(m)'
    BY <1>1 DEF SyncInv, TrainsOn
  <1>4. runs' = 1 => runs = 1 /\ log' = log
    BY DEF SyncInv, SyncType, Sync!ComeUp, Sync!PutAccepted, Sync!StartOver
  <1>5. runs' = 1 => \A m \in Miners : Replica(m)'
    BY <1>1, <1>4 DEF SyncInv, Replica
  <1>6. ASSUME runs' = 1 PROVE OfThisRun'
    <2>1. OfThisRun /\ log' = log /\ merges = [r \in Sync!Rounds |-> merges[r]] /\ Len(log) \in Nat
      BY <1>4, <1>6 DEF SyncInv, SyncType
    <2>2. merges' = merges \/ (merges' = [merges EXCEPT ![Len(log) - 1] = log[Len(log)]] /\ Len(log) > 0)
      BY DEF Sync!ComeUp, Sync!PutAccepted, Sync!StartOver, Sync!Visible, Sync!Round
    <2>3. SUFFICES ASSUME NEW r \in Sync!Rounds PROVE merges'[r] = Absent \/ (r < Len(log) /\ merges'[r] = log[r + 1])
      BY <2>1 DEF OfThisRun
    <2>4. merges[r] = Absent \/ (r < Len(log) /\ merges[r] = log[r + 1])
      BY <2>1 DEF OfThisRun
    <2>5. r \in Int
      BY DEF Sync!Rounds
    <2>6. merges'[r] = merges[r] \/ (r = Len(log) - 1 /\ merges'[r] = log[Len(log)])
      BY <2>1, <2>2
    <2> QED
      BY <2>1, <2>4, <2>5, <2>6
  <1> QED
    BY <1>1, <1>2, <1>3, <1>4, <1>5, <1>6 DEF SyncInv
\* A step of miner m's: the coordinator stays, and so do the other miners.
MinerFrame(m) ==
  /\ log' = log /\ runs' = runs /\ merges' = merges
  /\ \A n \in Miners \ {m} :
       syncPc'[n] = syncPc[n] /\ syncBase'[n] = syncBase[n] /\ applied'[n] = applied[n] /\ rnd'[n] = rnd[n] /\ root'[n] = root[n]

LEMMA OneMiner ==
  ASSUME SyncInv, NEW m \in Miners, SyncType', MinerFrame(m), TrainsOn(m)',
         runs = 1 /\ Replica(m) => Replica(m)' /\ drifted' = drifted
  PROVE  SyncInv'
  <1>1. \A n \in Miners \ {m} : TrainsOn(n)'
    BY DEF SyncInv, TrainsOn, MinerFrame
  <1>2. runs = 1 => \A n \in Miners \ {m} : Replica(n)'
    BY DEF SyncInv, Replica, MinerFrame
  <1>3. runs = 1 => OfThisRun'
    BY DEF SyncInv, OfThisRun, MinerFrame
  <1> QED
    BY <1>1, <1>2, <1>3 DEF SyncInv, MinerFrame

\* What a tick leaves behind.
LEMMA TickIs ==
  ASSUME SyncInv, NEW m \in Miners, NEW to, Sync!Tick(m, to)
  PROVE  /\ syncPc' = [n \in Miners |-> syncPc'[n]] /\ syncPc'[m] = to /\ root' = [n \in Miners |-> root'[n]]
         /\ rnd' \in [Miners -> Nat] /\ syncRec' \in [Miners -> Nat] /\ man' \in [Miners -> Tables]
         /\ \A n \in Miners \ {m} : syncPc'[n] = syncPc[n] /\ rnd'[n] = rnd[n] /\ root'[n] = root[n]
  <1>1. Sync!NoNames \in Tables
    BY DEF Sync!NoNames, Sync!Start, Tables
  <1> QED
    BY <1>1 DEF SyncInv, SyncType, Sync!Tick, Sync!Goes

LEMMA DiesIs ==
  ASSUME SyncInv, NEW m \in Miners, Sync!Dies(m),
         log' = log, runs' = runs, merges' = merges, syncNames' = syncNames, syncSent' = syncSent
  PROVE  SyncType' /\ MinerFrame(m) /\ TrainsOn(m)' /\ Replica(m)'
  <1>1. Sync!Tick(m, "off")
    BY DEF Sync!Dies
  <1>2. /\ syncPc' = [n \in Miners |-> syncPc'[n]] /\ syncPc'[m] = "off" /\ root' = [n \in Miners |-> root'[n]]
        /\ rnd' \in [Miners -> Nat] /\ syncRec' \in [Miners -> Nat] /\ man' \in [Miners -> Tables]
        /\ \A n \in Miners \ {m} : syncPc'[n] = syncPc[n] /\ rnd'[n] = rnd[n] /\ root'[n] = root[n]
    BY <1>1, TickIs
  <1>3. /\ syncBase' = [n \in Miners |-> syncBase'[n]] /\ syncBase'[m] = << >> /\ applied' \in [Miners -> Int] /\ applied'[m] = -1
        /\ \A n \in Miners \ {m} : syncBase'[n] = syncBase[n] /\ applied'[n] = applied[n]
    <2>1. /\ syncBase' = [syncBase EXCEPT ![m] = << >>] /\ applied' = [applied EXCEPT ![m] = -1]
      BY DEF Sync!Dies
    <2>2. syncBase = [n \in Miners |-> syncBase[n]] /\ applied \in [Miners -> Int]
      BY DEF SyncInv, SyncType
    <2>3. applied' \in [Miners -> Int] /\ applied'[m] = -1 /\ \A n \in Miners \ {m} : applied'[n] = applied[n]
      BY <2>1, <2>2
    <2>4. /\ syncBase' = [n \in Miners |-> syncBase'[n]] /\ syncBase'[m] = << >>
          /\ \A n \in Miners \ {m} : syncBase'[n] = syncBase[n]
      BY ONLY <2>1, <2>2, m \in Miners
    <2> QED
      BY <2>3, <2>4
  <1>4. SyncType'
    BY <1>2, <1>3 DEF SyncInv, SyncType
  <1>5. MinerFrame(m)
    BY <1>2, <1>3 DEF MinerFrame
  <1>6. log \in Seq(Merges) /\ SubSeq(log, 1, 0) = << >> /\ Len(log) \in Nat
    BY Prefixes DEF SyncInv, SyncType
  <1>7. Replica(m)'
    BY <1>2, <1>3, <1>6 DEF Replica
  <1> QED
    BY <1>2, <1>4, <1>5, <1>7 DEF TrainsOn

LEMMA DiesKeeps ==
  ASSUME SyncInv, NEW m \in Miners, Sync!ReadDone(m) \/ Sync!Refuse(m) \/ Sync!Crash(m) PROVE SyncInv'
  <1>1. /\ Sync!Dies(m) /\ log' = log /\ runs' = runs /\ merges' = merges /\ syncNames' = syncNames
        /\ syncSent' = syncSent /\ drifted' = drifted
    BY DEF Sync!ReadDone, Sync!Refuse, Sync!Crash, Sync!coordinator
  <1> QED
    BY <1>1, DiesIs, OneMiner

\* The replay of a lane of one run ends on the root of the pointer.
LEMMA DriftKeeps == ASSUME SyncInv, NEW m \in Miners, Sync!Drift(m) PROVE SyncInv'
  <1>1. /\ Sync!Dies(m) /\ log' = log /\ runs' = runs /\ merges' = merges /\ syncNames' = syncNames
        /\ syncSent' = syncSent
    BY DEF Sync!Drift, Sync!coordinator
  <1>2. ~(runs = 1 /\ Replica(m))
    <2>1. SUFFICES ASSUME runs = 1, Replica(m) PROVE FALSE
      OBVIOUS
    <2>2. applied[m] \in Int /\ rnd[m] \in Nat
      BY DEF SyncInv, SyncType
    <2>3. syncPc[m] = "replay" /\ ~(applied[m] + 1 < rnd[m]) /\ syncBase[m] # root[m]
      BY DEF Sync!Drift, Sync!At, Sync!Behind, Sync!ReplayFrom, Sync!OnBase
    <2>4. applied[m] + 1 = rnd[m]
      BY <2>1, <2>2, <2>3 DEF Replica
    <2> QED
      BY <2>1, <2>3, <2>4 DEF Replica
  <1> QED
    BY <1>1, <1>2, DiesIs, OneMiner

LEMMA TickKeeps == ASSUME SyncInv, NEW m \in Miners, Sync!Skip(m) \/ Sync!Release(m) PROVE SyncInv'
  <1>1. /\ Sync!Tick(m, "poll") /\ log' = log /\ runs' = runs /\ merges' = merges /\ syncNames' = syncNames
        /\ syncSent' = syncSent /\ drifted' = drifted /\ syncBase' = syncBase /\ applied' = applied
    BY DEF Sync!Skip, Sync!Release, Sync!coordinator, Sync!process
  <1>2. /\ syncPc' = [n \in Miners |-> syncPc'[n]] /\ syncPc'[m] = "poll" /\ root' = [n \in Miners |-> root'[n]]
        /\ rnd' \in [Miners -> Nat] /\ syncRec' \in [Miners -> Nat] /\ man' \in [Miners -> Tables]
        /\ \A n \in Miners \ {m} : syncPc'[n] = syncPc[n] /\ rnd'[n] = rnd[n] /\ root'[n] = root[n]
    BY <1>1, TickIs
  <1>3. SyncType' /\ MinerFrame(m)
    BY <1>1, <1>2 DEF SyncInv, SyncType, MinerFrame
  <1>4. TrainsOn(m)' /\ (Replica(m) => Replica(m)')
    BY <1>1, <1>2 DEF TrainsOn, Replica
  <1> QED
    BY <1>1, <1>3, <1>4, OneMiner

LEMMA PublishingKeeps ==
  ASSUME SyncInv, NEW m \in Miners, Sync!Boot(m) \/ Sync!Publish(m) \/ Sync!Write(m) \/ Sync!Reassert(m)
  PROVE  SyncInv'
  <1>1. /\ log' = log /\ runs' = runs /\ merges' = merges /\ drifted' = drifted
        /\ syncBase' = syncBase /\ applied' = applied /\ rnd' = rnd /\ root' = root
    BY DEF Sync!Boot, Sync!Publish, Sync!Write, Sync!Reassert, Sync!coordinator, Sync!process, Sync!seen
  <1>2. \E to \in {"poll", "write", "hold"} : syncPc' = [syncPc EXCEPT ![m] = to]
    BY DEF Sync!Boot, Sync!Publish, Sync!Write, Sync!Reassert, Sync!Goes
  <1>3. /\ syncPc' = [n \in Miners |-> syncPc'[n]] /\ syncPc'[m] \in {"poll", "write", "hold"}
        /\ \A n \in Miners \ {m} : syncPc'[n] = syncPc[n]
    BY <1>2 DEF SyncInv, SyncType
  <1>4. syncNames' \in Tables /\ man' \in [Miners -> Tables] /\ syncRec' \in [Miners -> Nat] /\ syncSent' \in Nat
    <2>1. /\ syncNames \in Tables /\ man \in [Miners -> Tables] /\ syncRec \in [Miners -> Nat] /\ syncSent \in Nat
          /\ Sync!NoNames \in Tables
      BY DEF SyncInv, SyncType, Sync!NoNames, Sync!Start, Tables
    <2>2. CASE Sync!Boot(m)
      BY <2>1, <2>2 DEF Sync!Boot, Sync!records
    <2>3. CASE Sync!Publish(m)
      BY <2>1, <2>3 DEF Sync!Publish
    <2>4. CASE Sync!Write(m)
      <3>1. [man[m] EXCEPT ![m][rnd[m]] = syncRec[m]] \in Tables
        BY <2>1 DEF Tables
      <3> QED
        BY <2>1, <2>4, <3>1 DEF Sync!Write
    <2>5. CASE Sync!Reassert(m)
      BY <2>1, <2>5 DEF Sync!Reassert
    <2> QED
      BY <2>2, <2>3, <2>4, <2>5
  <1>5. SyncType' /\ MinerFrame(m)
    BY <1>1, <1>3, <1>4 DEF SyncInv, SyncType, MinerFrame
  <1>6. TrainsOn(m)' /\ (Replica(m) => Replica(m)')
    BY <1>1, <1>3 DEF TrainsOn, Replica
  <1> QED
    BY <1>1, <1>5, <1>6, OneMiner

LEMMA PointerKeeps == ASSUME SyncInv, NEW m \in Miners, Sync!ReadPointer(m) PROVE SyncInv'
  <1>1. /\ log' = log /\ runs' = runs /\ merges' = merges /\ drifted' = drifted /\ syncNames' = syncNames
        /\ syncBase' = syncBase /\ applied' = applied /\ syncRec' = syncRec /\ syncSent' = syncSent /\ man' = man
        /\ syncPc' = [syncPc EXCEPT ![m] = IF m \in Light THEN "train" ELSE "replay"]
        /\ rnd' = [rnd EXCEPT ![m] = Len(log)] /\ root' = [root EXCEPT ![m] = log]
    BY DEF Sync!ReadPointer, Sync!coordinator, Sync!process, Sync!records, Sync!Round, Sync!Goes
  <1>2. log \in Seq(Merges) /\ Len(log) \in Nat /\ SubSeq(log, 1, Len(log)) = log
    BY Prefixes DEF SyncInv, SyncType
  <1>3. /\ syncPc' = [n \in Miners |-> syncPc'[n]] /\ (m \notin Light => syncPc'[m] = "replay")
        /\ \A n \in Miners \ {m} : syncPc'[n] = syncPc[n] /\ rnd'[n] = rnd[n] /\ root'[n] = root[n]
        /\ rnd' \in [Miners -> Nat] /\ root' = [n \in Miners |-> root'[n]]
        /\ rnd'[m] = Len(log) /\ root'[m] = log
    BY <1>1, <1>2 DEF SyncInv, SyncType
  <1>4. SyncType' /\ MinerFrame(m)
    BY <1>1, <1>3 DEF SyncInv, SyncType, MinerFrame
  <1>5. TrainsOn(m)'
    BY <1>3 DEF TrainsOn
  <1>6. Replica(m) => Replica(m)'
    BY <1>1, <1>2, <1>3 DEF Replica
  <1> QED
    BY <1>1, <1>4, <1>5, <1>6, OneMiner

LEMMA FoldKeeps == ASSUME Sync!SyncAssumption, SyncInv, NEW m \in Miners, Sync!Fold(m) PROVE SyncInv'
  <1> DEFINE a == applied[m] + 1
  <1>1. /\ log' = log /\ runs' = runs /\ merges' = merges /\ drifted' = drifted /\ syncNames' = syncNames
        /\ syncPc' = syncPc /\ rnd' = rnd /\ root' = root /\ syncRec' = syncRec /\ syncSent' = syncSent /\ man' = man
        /\ syncPc[m] = "replay" /\ a < rnd[m] /\ merges[a] # Absent
        /\ syncBase' = [syncBase EXCEPT ![m] = Append(@, merges[a])] /\ applied' = [applied EXCEPT ![m] = a]
    BY DEF Sync!Fold, Sync!coordinator, Sync!seen, Sync!records, Sync!At, Sync!Behind, Sync!ReplayFrom, Sync!Record
  <1>2. /\ log \in Seq(Merges) /\ Len(log) \in Nat /\ Len(log) <= MaxRound /\ MaxRound \in Nat
        /\ applied \in [Miners -> Int] /\ syncBase = [n \in Miners |-> syncBase[n]] /\ rnd[m] \in Nat /\ applied[m] \in Int
    BY DEF SyncInv, SyncType, Sync!SyncAssumption
  <1>3. /\ syncBase' = [n \in Miners |-> syncBase'[n]] /\ syncBase'[m] = Append(syncBase[m], merges[a])
        /\ applied' \in [Miners -> Int] /\ applied'[m] = a
        /\ \A n \in Miners \ {m} : syncBase'[n] = syncBase[n] /\ applied'[n] = applied[n]
    <2>1. syncBase' = [syncBase EXCEPT ![m] = Append(syncBase[m], merges[a])] /\ a \in Int
      BY <1>1, <1>2
    <2> HIDE DEF a
    <2>2. applied' \in [Miners -> Int] /\ applied'[m] = a /\ \A n \in Miners \ {m} : applied'[n] = applied[n]
      BY <1>1, <1>2, <2>1
    <2> DEFINE x == Append(syncBase[m], merges[a])
    <2> HIDE DEF x
    <2>3. syncBase' = [syncBase EXCEPT ![m] = x]
      BY <2>1 DEF x
    <2>4. syncBase' = [n \in Miners |-> syncBase'[n]] /\ syncBase'[m] = x /\ \A n \in Miners \ {m} : syncBase'[n] = syncBase[n]
      BY <1>2, <2>3
    <2> QED
      BY <2>2, <2>4 DEF x
  <1>4. SyncType' /\ MinerFrame(m) /\ TrainsOn(m)'
    BY <1>1, <1>3 DEF SyncInv, SyncType, MinerFrame, TrainsOn
  <1>5. ASSUME runs = 1, Replica(m) PROVE Replica(m)'
    <2>1. /\ a \in 0 .. Len(log) /\ syncBase[m] = SubSeq(log, 1, a) /\ rnd[m] <= Len(log)
          /\ root[m] = SubSeq(log, 1, rnd[m])
      BY <1>1, <1>5 DEF Replica
    <2>2. a \in Sync!Rounds /\ a < Len(log) /\ a \in Nat
      BY <1>1, <1>2, <2>1 DEF Sync!Rounds
    <2>3. merges[a] = log[a + 1]
      BY <1>1, <1>5, <2>2 DEF SyncInv, OfThisRun
    <2>4. Append(SubSeq(log, 1, a), log[a + 1]) = SubSeq(log, 1, a + 1)
      BY <1>2, <2>2, Prefixes
    <2>5. syncBase'[m] = SubSeq(log, 1, a + 1)
      BY <1>3, <2>1, <2>3, <2>4
    <2> QED
      BY <1>1, <1>2, <1>3, <2>1, <2>2, <2>5 DEF Replica
  <1> QED
    BY <1>1, <1>4, <1>5, OneMiner

LEMMA TrainingKeeps == ASSUME SyncInv, NEW m \in Miners, Sync!StartTraining(m) PROVE SyncInv'
  <1>1. /\ log' = log /\ runs' = runs /\ merges' = merges /\ drifted' = drifted /\ syncNames' = syncNames
        /\ syncBase' = syncBase /\ applied' = applied /\ rnd' = rnd /\ root' = root
        /\ syncRec' = syncRec /\ syncSent' = syncSent /\ man' = man
        /\ syncBase[m] = root[m] /\ syncPc' = [syncPc EXCEPT ![m] = "train"]
    BY DEF Sync!StartTraining, Sync!coordinator, Sync!process, Sync!seen, Sync!records, Sync!OnBase, Sync!Goes
  <1>2. syncPc' = [n \in Miners |-> syncPc'[n]] /\ syncPc'[m] = "train" /\ \A n \in Miners \ {m} : syncPc'[n] = syncPc[n]
    BY <1>1 DEF SyncInv, SyncType
  <1>3. SyncType' /\ MinerFrame(m)
    BY <1>1, <1>2 DEF SyncInv, SyncType, MinerFrame
  <1>4. TrainsOn(m)' /\ (Replica(m) => Replica(m)')
    BY <1>1, <1>2 DEF TrainsOn, Replica
  <1> QED
    BY <1>1, <1>3, <1>4, OneMiner

\* BasesAgree, for every number of miners, rounds, crashes and restarts: a miner trains on
\* the root of the pointer it read, whatever happened to the lane meanwhile, and on a lane of
\* one run no replay ever ends on another base ("FATAL DRIFT"), whatever rounds were skipped
\* and wherever a replay began, so the exit is one for a coordinator that started over.
THEOREM BasesAlwaysAgree ==
  ASSUME Sync!SyncAssumption
  PROVE  Sync!Init /\ [][Sync!Next]_(Sync!vars) => []Sync!BasesAgree
  <1>1. Sync!Init => SyncInv
    BY SyncInit
  <1>2. ASSUME SyncInv, [Sync!Next]_(Sync!vars) PROVE SyncInv'
    <2>1. CASE Sync!Merge \/ Sync!ComeUp \/ Sync!PutAccepted \/ Sync!StartOver
      BY <1>2, <2>1, MergeKeeps, CoordinatorKeeps
    <2>2. ASSUME NEW m \in Miners, Sync!Miner(m) PROVE SyncInv'
      <3>1. CASE Sync!ReadDone(m) \/ Sync!Refuse(m) \/ Sync!Crash(m) \/ Sync!Drift(m)
        BY <1>2, <3>1, DiesKeeps, DriftKeeps
      <3>2. CASE Sync!Skip(m) \/ Sync!Release(m)
        BY <1>2, <3>2, TickKeeps
      <3>3. CASE Sync!Boot(m) \/ Sync!Publish(m) \/ Sync!Publishing(m)
        BY <1>2, <3>3, PublishingKeeps DEF Sync!Publishing
      <3>4. CASE Sync!ReadPointer(m) \/ Sync!Fold(m) \/ Sync!StartTraining(m)
        BY <1>2, <3>4, PointerKeeps, FoldKeeps, TrainingKeeps
      <3> QED
        BY <2>2, <3>1, <3>2, <3>3, <3>4 DEF Sync!Miner
    <2>3. CASE UNCHANGED Sync!vars
      <3>1. /\ log' = log /\ runs' = runs /\ merges' = merges /\ syncNames' = syncNames /\ syncPc' = syncPc
            /\ syncBase' = syncBase /\ applied' = applied /\ rnd' = rnd /\ root' = root /\ syncRec' = syncRec
            /\ syncSent' = syncSent /\ man' = man /\ drifted' = drifted
        BY <2>3 DEF Sync!vars, Sync!coordinator, Sync!process, Sync!seen, Sync!records
      <3>2. SyncType' /\ (\A m \in Miners : TrainsOn(m)') /\ (OfThisRun => OfThisRun')
        BY <1>2, <3>1 DEF SyncInv, SyncType, TrainsOn, OfThisRun
      <3>3. \A m \in Miners : Replica(m) => Replica(m)'
        BY <3>1 DEF Replica
      <3> QED
        BY <1>2, <3>1, <3>2, <3>3 DEF SyncInv
    <2> QED
      BY <1>2, <2>1, <2>2, <2>3 DEF Sync!Next
  <1>3. SyncInv => Sync!BasesAgree
    BY DEF SyncInv, TrainsOn, Sync!BasesAgree, Sync!OnAdvertised, Sync!NeverDrifts
  <1> QED
    BY <1>1, <1>2, <1>3, PTL
-----------------------------------------------------------------------------
(* LaneHealth.                                                              *)

\* A name of this process bears a number it has used.
HealthInv ==
  /\ sent \in Nat /\ firstSent \in Nat /\ firstSent <= sent /\ publishK \in Nat
  /\ \A p \in DOMAIN names :
       names[p] \in Nat /\ names[p] <= sent /\ (names[p] > firstSent => p[2] \in 0 .. publishK - 1)
  /\ Health!OwnRecordsKept

LEMMA HealthInit == Health!Init => HealthInv
  BY DEF Health!Init, HealthInv, Health!OwnRecordsKept

LEMMA HealthFrame ==
  ASSUME HealthInv, names' = names, sent' = sent, firstSent' = firstSent, publishK' = publishK, taken \subseteq taken'
  PROVE  HealthInv'
  BY DEF HealthInv, Health!OwnRecordsKept, Health!Kept, Health!Range

LEMMA BootKeeps == ASSUME HealthInv, Health!Boot PROVE HealthInv'
  <1>1. names' = names /\ sent' = sent /\ firstSent' = sent /\ publishK' = 0
    BY DEF Health!Boot
  <1>2. sent \in Nat /\ \A p \in DOMAIN names : names[p] \in Nat /\ names[p] <= sent
    BY DEF HealthInv
  <1>3. Health!OwnRecordsKept'
    BY <1>1, <1>2 DEF Health!OwnRecordsKept
  <1> QED
    BY <1>1, <1>2, <1>3 DEF HealthInv

\* The name of a record bears a number no name of this process does.
LEMMA PublishKeeps == ASSUME HealthInv, Health!Publish PROVE HealthInv'
  <1> DEFINE p == Health!PublishName(Health!Lower(folded, view.event))
  <1>1. /\ names' = [q \in DOMAIN names \cup {p} |-> IF q = p THEN sent + 1 ELSE names[q]]
        /\ sent' = sent + 1 /\ publishK' = publishK + 1 /\ firstSent' = firstSent /\ taken' = taken
    BY DEF Health!Publish
  <1>2. p[2] = publishK
    BY DEF Health!PublishName
  <1> HIDE DEF p
  <1>3. /\ sent \in Nat /\ firstSent \in Nat /\ firstSent <= sent /\ publishK \in Nat
        /\ \A q \in DOMAIN names :
             names[q] \in Nat /\ names[q] <= sent /\ (names[q] > firstSent => q[2] \in 0 .. publishK - 1)
    BY DEF HealthInv
  <1>4. ASSUME NEW q \in DOMAIN names'
        PROVE  /\ names'[q] \in Nat /\ names'[q] <= sent' /\ (names'[q] > firstSent' => q[2] \in 0 .. publishK' - 1)
    <2>1. CASE q = p
      BY <1>1, <1>2, <1>3, <2>1
    <2>2. CASE q # p
      <3>1. q \in DOMAIN names /\ names'[q] = names[q]
        BY <1>1, <2>2, <1>4
      <3>2. names[q] \in Nat /\ names[q] <= sent /\ (names[q] > firstSent => q[2] \in 0 .. publishK - 1)
        BY <1>3, <3>1
      <3>3. sent' = sent + 1 /\ publishK' = publishK + 1 /\ firstSent' = firstSent
        BY <1>1
      <3>4. names[q] <= sent + 1
        BY <1>3, <3>2
      <3>5. q[2] \in 0 .. publishK - 1 => q[2] \in 0 .. (publishK + 1) - 1
        BY <1>3
      <3> QED
        BY <3>1, <3>2, <3>3, <3>4, <3>5
    <2> QED
      BY <2>1, <2>2
  <1>5. ASSUME NEW s \in firstSent + 1 .. sent + 1 PROVE s \in taken \/ \E q \in DOMAIN names' : names'[q] = s
    <2>1. CASE s = sent + 1
      BY <1>1, <2>1
    <2>2. CASE s # sent + 1
      <3>1. s \in firstSent + 1 .. sent
        BY <1>3, <2>2
      <3>2. s \in taken \/ \E q \in DOMAIN names : names[q] = s
        BY <3>1 DEF HealthInv, Health!OwnRecordsKept, Health!Kept, Health!Range
      <3>3. ASSUME NEW q \in DOMAIN names, names[q] = s PROVE q \in DOMAIN names' /\ names'[q] = s
        <4>1. q[2] < publishK
          BY <1>3, <3>1, <3>3
        <4>2. q # p
          BY <1>2, <1>3, <4>1
        <4> QED
          BY <1>1, <3>3, <4>2
      <3> QED
        BY <3>2, <3>3
    <2> QED
      BY <2>1, <2>2
  <1>6. Health!OwnRecordsKept'
    <2>1. SUFFICES ASSUME NEW s \in firstSent' + 1 .. sent' PROVE s \in taken' \/ \E q \in DOMAIN names' : names'[q] = s
      BY DEF Health!OwnRecordsKept, Health!Kept, Health!Range
    <2>2. s \in firstSent + 1 .. sent + 1
      BY <1>1
    <2> QED
      BY <1>1, <1>5, <2>2
  <1>7. sent' \in Nat /\ firstSent' \in Nat /\ firstSent' <= sent' /\ publishK' \in Nat
    BY <1>1, <1>3
  <1> QED
    BY <1>4, <1>6, <1>7 DEF HealthInv

\* OwnRecordsKept, for every number of events, records and restarts: no record of a process
\* is replaced in the manifest before the coordinator has read it, because async_publish_name
\* ends in publish_k, which a process only counts up.
THEOREM OwnRecordsAlwaysKept ==
  Health!Init /\ [][Health!Next]_(Health!vars) => []Health!OwnRecordsKept
  <1>1. Health!Init => HealthInv
    BY HealthInit
  <1>2. ASSUME HealthInv, [Health!Next]_(Health!vars) PROVE HealthInv'
    <2>1. CASE Health!Boot \/ Health!Publish
      BY <1>2, <2>1, BootKeeps, PublishKeeps
    <2>2. CASE Health!Commit
      <3>1. names' = names /\ sent' = sent /\ firstSent' = firstSent /\ publishK' = publishK /\ taken \subseteq taken'
        BY <2>2 DEF Health!Commit, Health!records
      <3> QED
        BY <1>2, <3>1, HealthFrame
    <2>3. CASE \/ Health!PublishPointer \/ Health!Restart \/ Health!Die \/ Health!Settle \/ Health!TimePasses
               \/ UNCHANGED Health!vars
      <3>1. names' = names /\ sent' = sent /\ firstSent' = firstSent /\ publishK' = publishK /\ taken' = taken
        BY <2>3 DEF Health!PublishPointer, Health!Restart, Health!Die, Health!Settle, Health!TimePasses,
                    Health!vars, Health!records
      <3> QED
        BY <1>2, <3>1, HealthFrame
    <2>4. CASE \/ \E i \in 1 .. Len(shots) : Health!Observe(i)
               \/ Health!FoldOk \/ Health!FoldNone \/ Health!Abort \/ Health!Skip \/ Health!Crash
      <3>1. names' = names /\ sent' = sent /\ firstSent' = firstSent /\ publishK' = publishK /\ taken' = taken
        BY <2>4 DEF Health!Observe, Health!FoldOk, Health!FoldNone, Health!Abort, Health!Skip, Health!Crash,
                    Health!records
      <3> QED
        BY <1>2, <3>1, HealthFrame
    <2> QED
      BY <1>2, <2>1, <2>2, <2>3, <2>4 DEF Health!Next, Health!Miner
  <1>3. HealthInv => Health!OwnRecordsKept
    BY DEF HealthInv
  <1> QED
    BY <1>1, <1>2, <1>3, PTL

-----------------------------------------------------------------------------
(* LayerClaim.                                                              *)

LayerShapes ==
  /\ store = [n \in Layer!FileNames |-> store[n]] /\ local = [n \in Layer!FileNames |-> local[n]]
  /\ \A n \in Layer!FileNames : store[n] = Absent \/ \E g \in Layer!Gens : store[n] = <<n, g>>
  /\ \A n \in Layer!FileNames : local[n] \in {Absent, Wrong} \/ \E g \in Layer!Gens : local[n] = <<n, g>>

\* While a cache is written there is no manifest, and the chunks so far are of it.
Writes ==
  writing # 0 =>
    /\ writing \in Layer!Gens /\ store[0] = Absent /\ nwritten \in 0 .. NChunks[writing]
    /\ \A n \in 1 .. nwritten : store[n] = <<n, writing>>

LayerInv == LayerShapes /\ Writes /\ (layerPc = "train" => Layer!Verified) /\ Layer!WholeCaches

LEMMA LayerFacts ==
  ASSUME Layer!LayerAssumption
  PROVE  /\ 0 \in Layer!FileNames
         /\ \A g \in Layer!Gens : NChunks[g] \in 1 .. 2 /\ \A n \in 0 .. NChunks[g] : n \in Layer!FileNames
  <1>1. \A g \in Layer!Gens : NChunks[g] \in 1 .. 2
    BY DEF Layer!LayerAssumption
  <1> QED
    BY <1>1 DEF Layer!FileNames

LEMMA LayerInit == Layer!Init => LayerInv
  <1> SUFFICES ASSUME Layer!Init PROVE LayerInv
    OBVIOUS
  <1>1. LayerShapes
    BY DEF Layer!Init, LayerShapes, Layer!Empty
  <1>2. Writes /\ layerPc # "train" /\ Layer!TrainsWhole
    BY DEF Layer!Init, Writes, Layer!TrainsWhole
  <1>3. store[0] = Absent
    BY DEF Layer!Init, Layer!Empty, Layer!FileNames
  <1> QED
    BY <1>1, <1>2, <1>3 DEF LayerInv, Layer!WholeCaches, Layer!ManifestDescribes

\* A step of the producer's leaves the miner its files and its dose.
LEMMA ProducerFrame ==
  ASSUME LayerInv, local' = local, layerPc' = layerPc, used' = used
  PROVE  (layerPc' = "train" => Layer!Verified') /\ Layer!TrainsWhole'
  BY DEF LayerInv, Layer!Verified, Layer!VerifiesChunks, Layer!WholeCaches, Layer!TrainsWhole

LEMMA ProducerKeeps ==
  ASSUME Layer!LayerAssumption, LayerInv,
         \/ \E g \in Layer!Gens : Layer!WriterOpen(g)
         \/ Layer!WriterFlush \/ Layer!WriterClose \/ Layer!WriterCrash \/ Layer!Advertise
  PROVE  LayerInv'
  <1>1. local' = local /\ layerPc' = layerPc /\ used' = used
    BY DEF Layer!WriterOpen, Layer!WriterFlush, Layer!WriterClose, Layer!WriterCrash, Layer!Advertise, Layer!round
  <1>2. (layerPc' = "train" => Layer!Verified') /\ Layer!TrainsWhole'
    BY <1>1, ProducerFrame
  <1>3. /\ store = [n \in Layer!FileNames |-> store[n]]
        /\ \A n \in Layer!FileNames : store[n] = Absent \/ \E g \in Layer!Gens : store[n] = <<n, g>>
        /\ 0 \in Layer!FileNames
    BY LayerFacts DEF LayerInv, LayerShapes
  <1>4. ASSUME /\ store' = [n \in Layer!FileNames |-> store'[n]]
               /\ \A n \in Layer!FileNames : store'[n] = Absent \/ \E g \in Layer!Gens : store'[n] = <<n, g>>
               /\ Writes' /\ Layer!ManifestDescribes'
        PROVE  LayerInv'
    BY <1>1, <1>2, <1>4 DEF LayerInv, LayerShapes, Layer!WholeCaches
  <1>5. CASE \E g \in Layer!Gens : Layer!WriterOpen(g)
    <2>1. PICK g \in Layer!Gens : Layer!WriterOpen(g)
      BY <1>5
    <2>2. store' = [store EXCEPT ![0] = Absent] /\ writing' = g /\ nwritten' = 0
      BY <2>1 DEF Layer!WriterOpen, Layer!OpenClearing
    <2>3. /\ store' = [n \in Layer!FileNames |-> store'[n]] /\ store'[0] = Absent
          /\ \A n \in Layer!FileNames : store'[n] = Absent \/ store'[n] = store[n]
      BY <1>3, <2>2
    <2>4. 0 \in 0 .. NChunks[g]
      BY LayerFacts
    <2>5. Writes' /\ Layer!ManifestDescribes'
      BY <2>2, <2>3, <2>4 DEF Writes, Layer!ManifestDescribes
    <2> QED
      BY <1>3, <1>4, <2>3, <2>5
  <1>6. CASE Layer!WriterFlush
    <2> DEFINE w == nwritten + 1
    <2>1. /\ writing # 0 /\ nwritten < NChunks[writing] /\ nwritten' = w /\ writing' = writing
          /\ store' = [store EXCEPT ![w] = <<w, writing>>]
      BY <1>6 DEF Layer!WriterFlush
    <2>2. /\ writing \in Layer!Gens /\ store[0] = Absent /\ nwritten \in 0 .. NChunks[writing]
          /\ \A n \in 1 .. nwritten : store[n] = <<n, writing>>
      BY <2>1 DEF LayerInv, Writes
    <2>3. w \in 1 .. NChunks[writing] /\ w \in Layer!FileNames /\ w # 0 /\ nwritten \in Nat
      <3>1. NChunks[writing] \in 1 .. 2 /\ \A n \in 0 .. NChunks[writing] : n \in Layer!FileNames
        BY <2>2, LayerFacts
      <3> QED
        BY <3>1, <2>1, <2>2
    <2>4. /\ store' = [n \in Layer!FileNames |-> store'[n]] /\ store'[w] = <<w, writing>>
          /\ \A n \in Layer!FileNames \ {w} : store'[n] = store[n]
      BY <1>3, <2>1, <2>3
    <2>5. store'[0] = Absent
      BY <1>3, <2>2, <2>3, <2>4
    <2>6. \A n \in 1 .. w : store'[n] = <<n, writing>>
      <3>1. SUFFICES ASSUME NEW n \in 1 .. w PROVE store'[n] = <<n, writing>>
        OBVIOUS
      <3>2. CASE n = w
        BY <2>4, <3>2
      <3>3. CASE n # w
        <4>0. NChunks[writing] \in 1 .. 2
          BY <2>2, LayerFacts
        <4>1. n \in 1 .. nwritten /\ n \in 0 .. NChunks[writing]
          BY <4>0, <2>2, <2>3, <3>3
        <4>2. n \in Layer!FileNames
          BY <4>1, <2>2, LayerFacts
        <4> QED
          BY <2>2, <2>4, <3>3, <4>1, <4>2
      <3> QED
        BY <3>2, <3>3
    <2>7. Writes'
      BY <2>1, <2>2, <2>3, <2>5, <2>6 DEF Writes
    <2>8. Layer!ManifestDescribes'
      BY <2>5 DEF Layer!ManifestDescribes
    <2>9. \A n \in Layer!FileNames : store'[n] = Absent \/ \E g \in Layer!Gens : store'[n] = <<n, g>>
      BY <1>3, <2>2, <2>4
    <2> QED
      BY <1>4, <2>4, <2>7, <2>8, <2>9
  <1>7. CASE Layer!WriterClose
    <2>1. writing # 0 /\ nwritten = NChunks[writing] /\ store' = [store EXCEPT ![0] = <<0, writing>>] /\ writing' = 0
      BY <1>7 DEF Layer!WriterClose
    <2>2. writing \in Layer!Gens /\ \A n \in 1 .. NChunks[writing] : store[n] = <<n, writing>>
      BY <2>1 DEF LayerInv, Writes
    <2>3. /\ store' = [n \in Layer!FileNames |-> store'[n]] /\ store'[0] = <<0, writing>>
          /\ \A n \in Layer!FileNames \ {0} : store'[n] = store[n]
      BY <1>3, <2>1
    <2>4. \A n \in 0 .. NChunks[writing] : store'[n] = <<n, writing>>
      <3>1. SUFFICES ASSUME NEW n \in 0 .. NChunks[writing] PROVE store'[n] = <<n, writing>>
        OBVIOUS
      <3>2. n \in Layer!FileNames /\ NChunks[writing] \in Nat
        BY <2>2, LayerFacts
      <3>3. n = 0 \/ n \in 1 .. NChunks[writing]
        BY <3>2
      <3> QED
        BY <2>2, <2>3, <3>2, <3>3
    <2>5. Layer!ManifestDescribes'
      BY <2>3, <2>4 DEF Layer!ManifestDescribes, Layer!FilesIn
    <2>6. Writes'
      BY <2>1 DEF Writes
    <2>7. \A n \in Layer!FileNames : store'[n] = Absent \/ \E g \in Layer!Gens : store'[n] = <<n, g>>
      BY <1>3, <2>2, <2>3
    <2> QED
      BY <1>4, <2>3, <2>5, <2>6, <2>7
  <1>8. CASE Layer!WriterCrash \/ Layer!Advertise
    <2>1. store' = store /\ writing' = 0
      BY <1>8 DEF Layer!WriterCrash, Layer!Advertise
    <2>2. Writes' /\ Layer!ManifestDescribes'
      BY <2>1 DEF Writes, Layer!ManifestDescribes, LayerInv, Layer!WholeCaches
    <2> QED
      BY <1>3, <1>4, <2>1, <2>2
  <1> QED
    BY <1>5, <1>6, <1>7, <1>8

\* The miner's files, and the dose they give.
LEMMA MinerFrameOfLayer ==
  ASSUME LayerInv, store' = store, writing' = writing, nwritten' = nwritten,
         local' = [n \in Layer!FileNames |-> local'[n]],
         \A n \in Layer!FileNames : local'[n] \in {Absent, Wrong} \/ \E g \in Layer!Gens : local'[n] = <<n, g>>,
         layerPc' = "train" => Layer!Verified', Layer!TrainsWhole'
  PROVE  LayerInv'
  <1>1. Layer!ManifestDescribes'
    BY DEF LayerInv, Layer!WholeCaches, Layer!ManifestDescribes
  <1> QED
    BY <1>1 DEF LayerInv, LayerShapes, Writes, Layer!WholeCaches

LEMMA FilesKeep ==
  ASSUME Layer!LayerAssumption, LayerInv, Layer!FetchFile \/ Layer!CheckFile PROVE LayerInv'
  <1>1. /\ store' = store /\ writing' = writing /\ nwritten' = nwritten /\ layerPc' # "train"
        /\ used' = used \/ used' = {}
    BY DEF Layer!FetchFile, Layer!CheckFile, Layer!producer, Layer!round, Layer!Ends
  <1>2. \/ local' = local
        \/ \E served \in {store[at], Wrong, Absent} : local' = [local EXCEPT ![at] = served]
    BY DEF Layer!FetchFile, Layer!CheckFile, Layer!Served
  <1>3. /\ local = [n \in Layer!FileNames |-> local[n]]
        /\ \A n \in Layer!FileNames : store[n] = Absent \/ \E g \in Layer!Gens : store[n] = <<n, g>>
        /\ \A n \in Layer!FileNames : local[n] \in {Absent, Wrong} \/ \E g \in Layer!Gens : local[n] = <<n, g>>
    BY DEF LayerInv, LayerShapes
  <1>4. local' = [n \in Layer!FileNames |-> local'[n]]
    BY <1>2, <1>3
  <1>5. \A n \in Layer!FileNames : local'[n] \in {local[n], store[n], Wrong, Absent}
    BY <1>2, <1>3
  <1>6. \A n \in Layer!FileNames : local'[n] \in {Absent, Wrong} \/ \E g \in Layer!Gens : local'[n] = <<n, g>>
    BY <1>3, <1>5
  <1>7. Layer!TrainsWhole'
    BY <1>1 DEF LayerInv, Layer!WholeCaches, Layer!TrainsWhole
  <1> QED
    BY <1>1, <1>4, <1>6, <1>7, MinerFrameOfLayer

LEMMA QuietKeeps ==
  ASSUME LayerInv,
         \/ Layer!FetchBegin \/ Layer!FetchEnd \/ Layer!Refuse \/ (\E c \in left : Layer!Publish(c))
         \/ Layer!RoundEnd \/ Layer!MinerCrash
  PROVE  LayerInv'
  <1>1. /\ store' = store /\ writing' = writing /\ nwritten' = nwritten /\ local' = local /\ layerPc' # "train"
        /\ used' = used \/ used' = {}
    BY DEF Layer!FetchBegin, Layer!FetchEnd, Layer!Refuse, Layer!Publish, Layer!RoundEnd, Layer!MinerCrash,
           Layer!producer, Layer!round, Layer!Ends
  <1>2. Layer!TrainsWhole'
    BY <1>1 DEF LayerInv, Layer!WholeCaches, Layer!TrainsWhole
  <1>3. /\ local = [n \in Layer!FileNames |-> local[n]]
        /\ \A n \in Layer!FileNames : local[n] \in {Absent, Wrong} \/ \E g \in Layer!Gens : local[n] = <<n, g>>
    BY DEF LayerInv, LayerShapes
  <1> QED
    BY <1>1, <1>2, <1>3, MinerFrameOfLayer

LEMMA VerifyKeeps == ASSUME LayerInv, Layer!Verify PROVE LayerInv'
  <1>1. /\ store' = store /\ writing' = writing /\ nwritten' = nwritten /\ local' = local
        /\ used' = used \/ used' = {}
    BY DEF Layer!Verify, Layer!producer, Layer!round, Layer!Ends
  <1>2. layerPc' = "train" => Layer!Verified'
    BY <1>1 DEF Layer!Verify, Layer!Ends, Layer!Verified, Layer!VerifiesChunks
  <1>3. Layer!TrainsWhole'
    BY <1>1 DEF LayerInv, Layer!WholeCaches, Layer!TrainsWhole
  <1>4. /\ local = [n \in Layer!FileNames |-> local[n]]
        /\ \A n \in Layer!FileNames : local[n] \in {Absent, Wrong} \/ \E g \in Layer!Gens : local[n] = <<n, g>>
    BY DEF LayerInv, LayerShapes
  <1> QED
    BY <1>1, <1>2, <1>3, <1>4, MinerFrameOfLayer

\* What was verified is what is trained from.
LEMMA TrainKeeps == ASSUME Layer!LayerAssumption, LayerInv, Layer!Train PROVE LayerInv'
  <1>1. /\ store' = store /\ writing' = writing /\ nwritten' = nwritten /\ local' = local /\ layerPc' # "train"
        /\ used' = {local[n] : n \in 1 .. NChunks[local[0][2]]}
    BY DEF Layer!Train, Layer!producer
  <1>2. /\ local = [n \in Layer!FileNames |-> local[n]]
        /\ \A n \in Layer!FileNames : local[n] \in {Absent, Wrong} \/ \E g \in Layer!Gens : local[n] = <<n, g>>
    BY DEF LayerInv, LayerShapes
  <1>3. local[0] \notin {Absent, Wrong} /\ local[0][2] \notin Foreign /\ Layer!VerifiesChunks(local[0][2])
    BY DEF LayerInv, Layer!Verified, Layer!Train
  <1>4. PICK g \in Layer!Gens : local[0] = <<0, g>>
    BY <1>2, <1>3, LayerFacts
  <1>5. g \in Layer!Gens \ Foreign /\ \A n \in 1 .. NChunks[g] : local[n] = <<n, g>>
    BY <1>3, <1>4 DEF Layer!VerifiesChunks
  <1>6. used' = {<<n, g>> : n \in 1 .. NChunks[g]}
    BY <1>1, <1>4, <1>5
  <1>7. Layer!TrainsWhole'
    BY <1>5, <1>6 DEF Layer!TrainsWhole
  <1> QED
    BY <1>1, <1>2, <1>7, MinerFrameOfLayer

\* WholeCaches, for every number of generations and crashes, whatever seeds serve: a
\* manifest on the producer's disk stands over its own chunks (GradCacheWriter removes the
\* old one first and writes the new one last), and a dose is trained from all the chunks of
\* one generation of this campaign (verify_cache).
THEOREM CachesAlwaysWhole ==
  ASSUME Layer!LayerAssumption
  PROVE  Layer!Init /\ [][Layer!Next]_(Layer!vars) => []Layer!WholeCaches
  <1>1. Layer!Init => LayerInv
    BY LayerInit
  <1>2. ASSUME LayerInv, [Layer!Next]_(Layer!vars) PROVE LayerInv'
    <2>1. CASE \/ \E g \in Layer!Gens : Layer!WriterOpen(g)
               \/ Layer!WriterFlush \/ Layer!WriterClose \/ Layer!WriterCrash \/ Layer!Advertise
      BY <1>2, <2>1, ProducerKeeps
    <2>2. CASE Layer!FetchFile \/ Layer!CheckFile
      BY <1>2, <2>2, FilesKeep
    <2>3. CASE \/ Layer!FetchBegin \/ Layer!FetchEnd \/ Layer!Refuse \/ (\E c \in left : Layer!Publish(c))
               \/ Layer!RoundEnd \/ Layer!MinerCrash
      BY <1>2, <2>3, QuietKeeps
    <2>4. CASE Layer!Verify \/ Layer!Train
      BY <1>2, <2>4, VerifyKeeps, TrainKeeps
    <2>5. CASE UNCHANGED Layer!vars
      BY <1>2, <2>5 DEF LayerInv, LayerShapes, Writes, Layer!Verified, Layer!VerifiesChunks, Layer!WholeCaches,
                        Layer!ManifestDescribes, Layer!TrainsWhole, Layer!vars
    <2> QED
      BY <1>2, <2>1, <2>2, <2>3, <2>4, <2>5 DEF Layer!Next, Layer!Miner
  <1>3. LayerInv => Layer!WholeCaches
    BY DEF LayerInv
  <1> QED
    BY <1>1, <1>2, <1>3, PTL
-----------------------------------------------------------------------------
(* ExpertRound.                                                             *)

\* Only the layer of a round under way holds trained factors.
Wrapped ==
  /\ layer \in Layers /\ wraps = [l \in Layers |-> wraps[l]]
  /\ \A l \in Layers : wraps[l] = "trained" => l = layer /\ roundPc \in {"step", "eval"}

\* The state kept is the best of those measured.
KeepsBest ==
  /\ roundPc \in {"attach", "first"} => judged = {} /\ bestVal = Round!Inf
  /\ roundPc \in {"step", "eval", "end"} =>
       /\ bestVal \in Losses /\ <<best, bestVal>> \in judged
       /\ \A j \in judged : j[2] \in Losses /\ bestVal <= j[2]
  /\ roundPc = "end" => roundSent = best

RoundInv == Wrapped /\ KeepsBest /\ Round!NeverWrapsTwice

LEMMA RoundInit == Round!Init => RoundInv
  BY DEF Round!Init, RoundInv, Wrapped, KeepsBest, Round!NeverWrapsTwice

LEMMA MeasureKeepsBest ==
  ASSUME Round!RoundAssumption, RoundInv, NEW merge \in Losses, NEW full \in Losses, Round!Measures(merge, full),
         roundPc \in {"first", "eval"}, roundPc' = "step"
  PROVE  KeepsBest'
  <1>1. judged' = judged \cup {<<trained, merge>>}
    BY DEF Round!Measures
  <1>2. \A v \in Losses : v \in Int /\ v < Round!Inf
    BY DEF Round!RoundAssumption
  <1>3. Round!Inf \in Int
    BY DEF Round!Inf
  <1>4. \A j \in judged : j[2] \in Losses /\ bestVal <= j[2]
    BY DEF RoundInv, KeepsBest
  <1>5. bestVal = Round!Inf \/ (bestVal \in Losses /\ <<best, bestVal>> \in judged)
    BY DEF RoundInv, KeepsBest
  <1>6. CASE merge < bestVal
    <2>1. best' = trained /\ bestVal' = merge
      BY <1>6 DEF Round!Measures, Round!Selected
    <2>2. \A j \in judged : merge <= j[2]
      BY <1>2, <1>3, <1>4, <1>5, <1>6
    <2>3. <<best', bestVal'>> \in judged' /\ bestVal' \in Losses
      BY <1>1, <2>1
    <2>4. \A j \in judged' : j[2] \in Losses /\ bestVal' <= j[2]
      BY <1>1, <1>2, <1>4, <2>1, <2>2
    <2> QED
      BY <2>3, <2>4 DEF KeepsBest
  <1>7. CASE ~(merge < bestVal)
    <2>1. best' = best /\ bestVal' = bestVal
      BY <1>7 DEF Round!Measures, Round!Selected
    <2>2. bestVal \in Losses /\ <<best, bestVal>> \in judged /\ bestVal <= merge
      BY <1>2, <1>5, <1>7
    <2>3. \A j \in judged' : j[2] \in Losses /\ bestVal <= j[2]
      BY <1>1, <1>4, <2>2
    <2> QED
      BY <1>1, <2>1, <2>2, <2>3 DEF KeepsBest
  <1> QED
    BY <1>6, <1>7

\* RoundsClean of a round, for every number of layers, steps and failures: no wrapper a
\* failed round left ends a later one (the defensive unwrap), between rounds no layer holds
\* trained factors (finally), and of the states measured the one published is the best at
\* the strength of the merge (_sel_val), hence no worse there than no delta.
THEOREM RoundsAlwaysClean ==
  ASSUME Round!RoundAssumption
  PROVE  Round!Init /\ [][Round!Next]_(Round!vars) => []Round!RoundsClean
  <1>1. Round!Init => RoundInv
    BY RoundInit
  <1>2. ASSUME RoundInv, [Round!Next]_(Round!vars) PROVE RoundInv'
    <2>0. layer \in Layers /\ wraps = [l \in Layers |-> wraps[l]]
      BY <1>2 DEF RoundInv, Wrapped
    <2>1. CASE Round!Begin
      <3>1. wraps' = [wraps EXCEPT ![layer] = "none"] /\ layer' = layer
        BY <2>1 DEF Round!Begin, Round!Unwrapped
      <3>2. roundPc = "idle" /\ roundPc' \in {"dead", "attach"} /\ judged' = {} /\ bestVal' = Round!Inf
        BY <2>1 DEF Round!Begin, Round!Ends, Round!Fresh
      <3>3. why' \in {why, "unroutable"}
        BY <2>1 DEF Round!Begin, Round!Ends, Round!Unwrapped
      <3>4. Wrapped'
        BY <1>2, <2>0, <3>1, <3>2 DEF RoundInv, Wrapped
      <3> QED
        BY <1>2, <3>2, <3>3, <3>4 DEF RoundInv, KeepsBest, Round!NeverWrapsTwice
    <2>2. CASE Round!Attach
      BY <1>2, <2>0, <2>2
         DEF RoundInv, Wrapped, KeepsBest, Round!NeverWrapsTwice, Round!Attach, Round!round
    <2>3. ASSUME NEW merge \in Losses, NEW full \in Losses, Round!First(merge, full) \/ Round!Eval(merge, full)
          PROVE  RoundInv'
      <3>1. /\ Round!Measures(merge, full) /\ roundPc \in {"first", "eval"} /\ roundPc' = "step"
            /\ wraps' = wraps /\ layer' = layer /\ why' = why
        BY <2>3 DEF Round!First, Round!Eval
      <3>2. KeepsBest'
        BY <1>2, <3>1, MeasureKeepsBest
      <3> QED
        BY <1>2, <3>1, <3>2 DEF RoundInv, Wrapped, Round!NeverWrapsTwice
    <2>4. ASSUME NEW routed \in BOOLEAN, Round!Step(routed) PROVE RoundInv'
      <3>1. /\ roundPc = "step" /\ roundPc' \in {"step", "eval"} /\ layer' = layer /\ best' = best /\ bestVal' = bestVal
            /\ judged' = judged /\ roundSent' = roundSent /\ why' = why
            /\ wraps' = wraps \/ wraps' = [wraps EXCEPT ![layer] = "trained"]
        BY <2>4 DEF Round!Step
      <3>2. Wrapped'
        BY <1>2, <2>0, <3>1 DEF RoundInv, Wrapped
      <3> QED
        BY <1>2, <3>1, <3>2 DEF RoundInv, KeepsBest, Round!NeverWrapsTwice
    <2>5. CASE Round!End
      <3>1. /\ roundPc = "step" /\ wraps' = [wraps EXCEPT ![layer] = "none"] /\ layer' = layer /\ best' = best
            /\ bestVal' = bestVal /\ judged' = judged
            /\ (roundPc' = "dead" /\ why' = "unroutable") \/ (roundPc' = "end" /\ roundSent' = best /\ why' = why)
        BY <2>5 DEF Round!End, Round!round, Round!Ends
      <3>2. Wrapped'
        BY <1>2, <2>0, <3>1 DEF RoundInv, Wrapped
      <3> QED
        BY <1>2, <3>1, <3>2 DEF RoundInv, KeepsBest, Round!NeverWrapsTwice
    <2>6. CASE Round!OutOfMemory
      <3>1. /\ roundPc \in {"attach", "first", "step", "eval"} /\ roundPc' = "idle" /\ layer' = layer /\ why' = why
            /\ \/ roundPc = "attach" /\ wraps' \in {wraps, [wraps EXCEPT ![layer] = "zero"]}
               \/ wraps' = [wraps EXCEPT ![layer] = "none"]
        BY <2>6 DEF Round!OutOfMemory, Round!Detached
      <3>2. Wrapped'
        BY <1>2, <2>0, <3>1 DEF RoundInv, Wrapped
      <3> QED
        BY <1>2, <3>1, <3>2 DEF RoundInv, KeepsBest, Round!NeverWrapsTwice
    <2>7. ASSUME NEW l \in Layers, Round!Claim(l) PROVE RoundInv'
      BY <1>2, <2>0, <2>7 DEF RoundInv, Wrapped, KeepsBest, Round!NeverWrapsTwice, Round!Claim
    <2>8. CASE Round!Restart
      BY <2>8 DEF RoundInv, Wrapped, KeepsBest, Round!NeverWrapsTwice, Round!Restart
    <2>9. CASE UNCHANGED Round!vars
      BY <1>2, <2>9 DEF RoundInv, Wrapped, KeepsBest, Round!NeverWrapsTwice, Round!vars
    <2> QED
      BY <1>2, <2>1, <2>2, <2>3, <2>4, <2>5, <2>6, <2>7, <2>8, <2>9 DEF Round!Next
  <1>3. RoundInv => Round!RoundsClean
    BY DEF RoundInv, Wrapped, KeepsBest, Round!RoundsClean, Round!PlainBetweenRounds, Round!SendsBest
  <1> QED
    BY <1>1, <1>2, <1>3, PTL

-----------------------------------------------------------------------------
(* VramTuner.                                                               *)

TunerType ==
  /\ tunerExt \in Nat /\ tunerHeld \in Nat /\ tunerCap \in Int /\ reported \in Int /\ units \in Int /\ primed \in BOOLEAN
  /\ streak \in 0 .. Patience - 1 /\ floor \in Int
  /\ history \in Seq(Int) /\ Len(history) <= Patience

\* A streak is on the last readings, and its floor is below each of them.
Streak ==
  /\ streak <= Len(history)
  /\ streak > 0 => \A i \in Len(history) - streak + 1 .. Len(history) : floor <= history[i]

TunerInv == TunerType /\ Streak /\ Tuner!ReportCovered

LEMMA FreeIsNat == ASSUME Tuner!TunerAssumption, TunerType PROVE Tuner!Free \in Nat
  <1>1. TunerCard \in Nat /\ tunerExt \in Nat /\ tunerHeld \in Nat
    BY DEF Tuner!TunerAssumption, TunerType
  <1> QED
    BY <1>1 DEF Tuner!Free, Tuner!Higher

\* What is reported fits the reading it is made of, and is no more than the most units.
LEMMA TargetFits ==
  ASSUME Tuner!TunerAssumption, NEW f \in Nat
  PROVE  /\ Tuner!Target(f) \in Int
         /\ Tuner!Target(f) = 0 \/ Tuner!Footprint(Tuner!Target(f)) * 10 <= Tuner!Cap(f)
  <1> DEFINE budget == f * 9 - (TunerHeadroom + TunerBase) * 10
             fit == budget \div (PerUnit * 10)
             u == Tuner!Higher(MinUnits, Tuner!Lower(fit, MaxUnits))
  <1>1. /\ TunerHeadroom \in Nat /\ TunerBase \in Nat /\ PerUnit \in Nat \ {0} /\ MinUnits \in Nat /\ MaxUnits \in Nat
        /\ MinUnits <= MaxUnits
    BY DEF Tuner!TunerAssumption
  <1>2. budget \in Int
    BY <1>1
  <1>3. fit \in Int
    <2>1. PerUnit * 10 \in Int /\ PerUnit * 10 > 0
      BY <1>1
    <2>2. \A a \in Int : \A b \in Int : b > 0 => a \div b \in Int
      OBVIOUS
    <2> HIDE DEF budget
    <2> QED
      BY <1>2, <2>1, <2>2
  <1>4. Tuner!Target(f) = IF u * PerUnit * 10 > budget THEN 0 ELSE u
    BY DEF Tuner!Target
  <1> HIDE DEF fit
  <1>5. u \in Int /\ u <= MaxUnits
    BY <1>1, <1>3 DEF Tuner!Higher, Tuner!Lower
  <1> HIDE DEF u
  <1>6. CASE u * PerUnit * 10 > budget
    BY <1>4, <1>6
  <1>7. CASE ~(u * PerUnit * 10 > budget)
    <2>1. Tuner!Target(f) = u
      BY <1>4, <1>7
    <2>2. \A a, b \in Int : \A c \in Nat : a <= b => a * c <= b * c
      OBVIOUS
    <2>3. u * PerUnit \in Int /\ MaxUnits * PerUnit \in Nat /\ u * PerUnit <= MaxUnits * PerUnit
      <3>1. \A a, b \in Int : a * b \in Int
        OBVIOUS
      <3>2. \A a, b \in Nat : a * b \in Nat
        OBVIOUS
      <3> QED
        BY <1>1, <1>5, <2>2, <3>1, <3>2
    <2> DEFINE uses == u * PerUnit
               mp == MaxUnits * PerUnit
    <2>4. uses * 10 <= f * 9 - (TunerHeadroom + TunerBase) * 10
      BY <1>1, <1>7, <1>5, <2>3
    <2>5. Tuner!Footprint(u) = TunerBase + uses /\ Tuner!Cap(f) = Tuner!Lower(f * 9, (TunerBase + mp) * 15)
      BY DEF Tuner!Footprint, Tuner!Cap
    <2> HIDE DEF uses, mp
    <2>6. uses \in Int /\ mp \in Nat /\ uses <= mp
      BY <2>3 DEF uses, mp
    <2>7. (TunerBase + uses) * 10 <= f * 9 /\ (TunerBase + uses) * 10 <= (TunerBase + mp) * 15
      BY <1>1, <2>4, <2>6
    <2> QED
      BY <1>5, <2>1, <2>5, <2>7 DEF Tuner!Lower
  <1> QED
    BY <1>6, <1>7

\* One reading more, of the last p.
Cut(s, t, p) == IF Len(Append(s, t)) > p THEN Tail(Append(s, t)) ELSE Append(s, t)

LEMMA CutIs ==
  ASSUME NEW s \in Seq(Int), NEW t \in Int, NEW p \in Nat \ {0}, Len(s) <= p
  PROVE  /\ Cut(s, t, p) \in Seq(Int) /\ Cut(s, t, p)[Len(Cut(s, t, p))] = t
         /\ Len(Cut(s, t, p)) = IF Len(s) + 1 >= p THEN p ELSE Len(s) + 1
         /\ \A i \in 1 .. Len(Cut(s, t, p)) - 1 :
              /\ i + Len(s) + 1 - Len(Cut(s, t, p)) \in 1 .. Len(s)
              /\ Cut(s, t, p)[i] = s[i + Len(s) + 1 - Len(Cut(s, t, p))]
  <1> DEFINE q == Cut(s, t, p)
  <1>1. Append(s, t) \in Seq(Int) /\ Len(Append(s, t)) = Len(s) + 1 /\ Len(s) \in Nat
    OBVIOUS
  <1>2. CASE Len(s) + 1 > p
    <2>1. Len(s) = p /\ q = Tail(Append(s, t))
      BY <1>1, <1>2 DEF Cut
    <2> HIDE DEF q
    <2>2. q \in Seq(Int) /\ Len(q) = p /\ \A i \in 1 .. p : q[i] = Append(s, t)[i + 1]
      BY <1>1, <2>1
    <2>3. q[p] = t
      BY <1>1, <2>1, <2>2
    <2>4. ASSUME NEW i \in 1 .. p - 1 PROVE i + 1 \in 1 .. Len(s) /\ q[i] = s[i + 1]
      BY <1>1, <2>1, <2>2
    <2>5. \A i \in 1 .. p - 1 : i + Len(s) + 1 - Len(q) = i + 1
      <3>1. Len(s) = p /\ Len(q) = p /\ p \in Nat
        BY <2>1, <2>2
      <3> QED
        BY ONLY <3>1
    <2>6. \A i \in 1 .. Len(q) - 1 : i + Len(s) + 1 - Len(q) \in 1 .. Len(s) /\ q[i] = s[i + Len(s) + 1 - Len(q)]
      BY <2>2, <2>4, <2>5
    <2>7. Len(q) = IF Len(s) + 1 >= p THEN p ELSE Len(s) + 1
      BY <2>1, <2>2
    <2>8. q[Len(q)] = t
      BY <2>2, <2>3
    <2> QED
      BY <2>2, <2>6, <2>7, <2>8 DEF q
  <1>3. CASE ~(Len(s) + 1 > p)
    <2>1. q = Append(s, t)
      BY <1>1, <1>3 DEF Cut
    <2> HIDE DEF q
    <2>2. q \in Seq(Int) /\ Len(q) = Len(s) + 1 /\ q[Len(q)] = t /\ \A i \in 1 .. Len(s) : q[i] = s[i]
      BY <1>1, <2>1
    <2>3. Len(q) = IF Len(s) + 1 >= p THEN p ELSE Len(s) + 1
      BY <1>1, <1>3, <2>2
    <2>4. \A i \in 1 .. Len(q) - 1 : i + Len(s) + 1 - Len(q) = i /\ i \in 1 .. Len(s)
      BY <1>1, <2>2
    <2>5. \A i \in 1 .. Len(q) - 1 : i + Len(s) + 1 - Len(q) \in 1 .. Len(s) /\ q[i] = s[i + Len(s) + 1 - Len(q)]
      BY <2>2, <2>4
    <2> QED
      BY <2>2, <2>3, <2>5 DEF q
  <1> QED
    BY <1>2, <1>3

\* A tick keeps the streak, and grows the units only to what all of it allowed.
LEMMA TickOfTuner ==
  ASSUME Tuner!TunerAssumption, TunerType, Streak, NEW t \in Int, Tuner!Tick(t)
  PROVE  /\ units' \in Int /\ primed' = TRUE /\ streak' \in 0 .. Patience - 1 /\ floor' \in Int
         /\ history' \in Seq(Int) /\ Len(history') <= Patience /\ Streak' /\ Tuner!GrowsWhenHeld
  <1> DEFINE old == Len(history)
             new == Len(history')
  <1>1. Patience \in Nat \ {0}
    BY DEF Tuner!TunerAssumption
  <1>2. history \in Seq(Int) /\ old <= Patience /\ old \in Nat /\ streak \in 0 .. Patience - 1 /\ floor \in Int
        /\ streak <= old /\ units \in Int
    BY DEF TunerType, Streak
  <1>3. history' = Cut(history, t, Patience)
    BY DEF Tuner!Tick, Tuner!LastOf, Cut
  <1>4. /\ history' \in Seq(Int) /\ history'[new] = t /\ new = IF old + 1 >= Patience THEN Patience ELSE old + 1
        /\ \A i \in 1 .. new - 1 : i + old + 1 - new \in 1 .. old /\ history'[i] = history[i + old + 1 - new]
    BY <1>1, <1>2, <1>3, CutIs, SMTT(30)
  <1>5. new \in Nat /\ new <= Patience /\ new >= old /\ new >= 1
    BY <1>1, <1>2, <1>4
  <1> HIDE DEF old, new
  <1> DEFINE g == Tuner!GrowFloor(t)
  <1>6. g \in Int /\ g <= t /\ (streak > 0 => g <= floor)
    BY <1>2 DEF Tuner!GrowFloor, Tuner!Lower
  <1> HIDE DEF g
  <1>7. streak + 1 <= new => \A i \in new - streak .. new : g <= history'[i]
    <2>1. SUFFICES ASSUME streak + 1 <= new, NEW i \in new - streak .. new PROVE g <= history'[i]
      OBVIOUS
    <2>2. CASE i = new
      BY <1>4, <1>6, <2>2
    <2>3. CASE i # new
      <3>1. streak > 0 /\ i \in 1 .. new - 1
        BY <1>2, <1>5, <2>1, <2>3
      <3>2. i + old + 1 - new \in old - streak + 1 .. old
        BY <1>2, <1>5, <2>1, <3>1
      <3>3. floor <= history[i + old + 1 - new]
        BY <3>1, <3>2 DEF Streak, old
      <3>4. history'[i] = history[i + old + 1 - new] /\ history[i + old + 1 - new] \in Int
        BY <1>2, <1>4, <3>1 DEF old
      <3> QED
        BY <1>2, <1>6, <3>1, <3>3, <3>4
    <2> QED
      BY <2>2, <2>3
  <1>8. CASE (~primed \/ t <= units) /\ units' = t /\ streak' = 0 /\ floor' = 0
    <2>1. Streak'
      BY <1>5, <1>8 DEF Streak, new
    <2>2. Tuner!GrowsWhenHeld
      BY <1>2, <1>8 DEF Tuner!GrowsWhenHeld
    <2> QED
      BY <1>1, <1>4, <1>5, <1>8, <2>1, <2>2 DEF Tuner!Tick, new
  <1>9. CASE streak + 1 < Patience /\ streak' = streak + 1 /\ floor' = g /\ units' = units
    <2>1. streak + 1 <= new
      BY <1>1, <1>2, <1>4, <1>5, <1>9
    <2>2. Streak'
      <3>1. streak' <= new /\ new - streak' + 1 = new - streak
        BY <1>2, <1>5, <1>9, <2>1
      <3>2. \A i \in new - streak' + 1 .. new : floor' <= history'[i]
        BY <1>7, <1>9, <2>1, <3>1
      <3> QED
        BY <3>1, <3>2 DEF Streak, new
    <2>3. Tuner!GrowsWhenHeld
      BY <1>2, <1>9 DEF Tuner!GrowsWhenHeld
    <2> QED
      BY <1>1, <1>2, <1>4, <1>5, <1>6, <1>9, <2>2, <2>3 DEF Tuner!Tick, new
  <1>10. CASE streak + 1 >= Patience /\ units' = g /\ streak' = 0 /\ floor' = 0
    <2>1. streak + 1 = Patience /\ new = Patience
      BY <1>1, <1>2, <1>4, <1>5, <1>10
    <2>2. \A i \in 1 .. Patience : g <= history'[i]
      BY <1>2, <1>5, <1>7, <2>1
    <2>3. Tuner!GrowsWhenHeld
      <3>1. \A i \in 1 .. Patience : history'[i] \in Int
        BY <1>4, <2>1 DEF new
      <3> QED
        BY <1>6, <1>10, <2>1, <2>2, <3>1 DEF Tuner!GrowsWhenHeld, new
    <2>4. Streak'
      BY <1>5, <1>10 DEF Streak, new
    <2> QED
      BY <1>1, <1>4, <1>5, <1>6, <1>10, <2>3, <2>4 DEF Tuner!Tick, new
  <1> QED
    BY <1>8, <1>9, <1>10 DEF Tuner!Tick, g
LEMMA CapIsInt == ASSUME Tuner!TunerAssumption, NEW f \in Nat PROVE Tuner!Cap(f) \in Int
  <1>1. TunerBase \in Nat /\ PerUnit \in Nat /\ MaxUnits \in Nat
    BY DEF Tuner!TunerAssumption
  <1>2. MaxUnits * PerUnit \in Nat
    <2>1. \A a, b \in Nat : a * b \in Nat
      OBVIOUS
    <2> QED
      BY <1>1, <2>1
  <1>3. Tuner!Footprint(MaxUnits) \in Nat
    BY <1>1, <1>2 DEF Tuner!Footprint
  <1> QED
    BY <1>3 DEF Tuner!Cap, Tuner!Lower

LEMMA TunerInit == ASSUME Tuner!TunerAssumption, Tuner!Init PROVE TunerInv
  <1>1. tunerExt \in Nat /\ tunerHeld = 0 /\ units \in Int /\ Patience \in Nat \ {0} /\ TunerCard \in Nat
    BY DEF Tuner!Init, Tuner!TunerAssumption
  <1>2. Tuner!Free \in Nat
    BY <1>1 DEF Tuner!Free, Tuner!Higher
  <1>3. tunerCap \in Int
    BY <1>2, CapIsInt DEF Tuner!Init
  <1>4. TunerType
    <2>1. /\ reported = 0 /\ units \in Int /\ primed = FALSE /\ streak = 0 /\ floor = 0 /\ history = << >>
      BY <1>1 DEF Tuner!Init
    <2>2. << >> \in Seq(Int) /\ Len(<< >>) = 0
      OBVIOUS
    <2>3. history \in Seq(Int) /\ Len(history) = 0
      BY ONLY <2>1, <2>2
    <2>4. streak \in 0 .. Patience - 1 /\ Len(history) <= Patience
      BY <1>1, <2>1, <2>3
    <2>5. tunerExt \in Nat /\ tunerHeld \in Nat /\ tunerCap \in Int /\ reported \in Int
      BY <1>1, <1>3, <2>1
    <2>6. primed \in BOOLEAN
      BY ONLY <2>1, Zenon
    <2>7. units \in Int /\ floor \in Int
      BY ONLY <2>1
    <2> QED
      BY ONLY <2>3, <2>4, <2>5, <2>6, <2>7 DEF TunerType
  <1>5. Streak /\ Tuner!ReportCovered
    BY DEF Tuner!Init, Streak, Tuner!ReportCovered
  <1> QED
    BY <1>4, <1>5 DEF TunerInv

LEMMA TunerStep ==
  ASSUME Tuner!TunerAssumption, TunerInv, [Tuner!Next]_(Tuner!vars)
  PROVE  TunerInv' /\ Tuner!GrowsWhenHeld
  <1>1. CASE Tuner!ManagerTick
    <2> DEFINE f == Tuner!Free
    <2>1. /\ tunerCap' = Tuner!Cap(f) /\ reported' = Tuner!Target(f) /\ Tuner!Tick(Tuner!Target(f))
          /\ tunerExt' = tunerExt /\ tunerHeld' = tunerHeld
      BY <1>1 DEF Tuner!ManagerTick
    <2>2. f \in Nat
      BY FreeIsNat DEF TunerInv
    <2> HIDE DEF f
    <2>3. /\ Tuner!Target(f) \in Int /\ Tuner!Cap(f) \in Int
          /\ Tuner!Target(f) = 0 \/ Tuner!Footprint(Tuner!Target(f)) * 10 <= Tuner!Cap(f)
      BY <2>2, TargetFits, CapIsInt
    <2>4. /\ units' \in Int /\ primed' = TRUE /\ streak' \in 0 .. Patience - 1 /\ floor' \in Int
          /\ history' \in Seq(Int) /\ Len(history') <= Patience /\ Streak' /\ Tuner!GrowsWhenHeld
      BY <2>1, <2>3, TickOfTuner DEF TunerInv
    <2>5. TunerType'
      BY <2>1, <2>3, <2>4 DEF TunerInv, TunerType
    <2>6. Tuner!Footprint(reported') * 10 <= tunerCap' \/ reported' = 0
      BY <2>1, <2>3
    <2>7. Tuner!ReportCovered'
      BY <2>6 DEF Tuner!ReportCovered, Tuner!Footprint
    <2> QED
      BY <2>4, <2>5, <2>7 DEF TunerInv
  <1>2. CASE (\E e \in TunerLevels : Tuner!Others(e)) \/ Tuner!Loop \/ UNCHANGED Tuner!vars
    <2>1. /\ tunerCap' = tunerCap /\ reported' = reported /\ units' = units /\ primed' = primed /\ streak' = streak
          /\ floor' = floor /\ history' = history
      BY <1>2 DEF Tuner!Others, Tuner!Loop, Tuner!Load, Tuner!Pause, Tuner!Finish, Tuner!tuner, Tuner!vars
    <2>2. tunerExt' \in Nat /\ tunerHeld' \in Nat
      <3>1. TunerModel \in Nat /\ TunerLevels \subseteq Nat /\ tunerExt \in Nat /\ tunerHeld \in Nat
        BY DEF TunerInv, TunerType, Tuner!TunerAssumption
      <3> QED
        BY <1>2, <3>1 DEF Tuner!Others, Tuner!Loop, Tuner!Load, Tuner!Pause, Tuner!Finish, Tuner!vars
    <2>3. TunerInv'
      BY <2>1, <2>2 DEF TunerInv, TunerType, Streak, Tuner!ReportCovered, Tuner!Footprint
    <2>4. ~(units' > units)
      BY <2>1 DEF TunerInv, TunerType
    <2> QED
      BY <2>3, <2>4 DEF Tuner!GrowsWhenHeld
  <1> QED
    BY <1>1, <1>2 DEF Tuner!Next

\* ReportCovered, for every card, cost model and headroom: "the hard ceiling always covers the
\* capacity we advertise", after the first tick, because one reading makes both.
THEOREM ReportAlwaysCovered ==
  ASSUME Tuner!TunerAssumption
  PROVE  Tuner!Init /\ [][Tuner!Next]_(Tuner!vars) => []Tuner!ReportCovered
  <1>1. Tuner!Init => TunerInv
    BY TunerInit
  <1>2. TunerInv /\ [Tuner!Next]_(Tuner!vars) => TunerInv'
    BY TunerStep
  <1>3. TunerInv => Tuner!ReportCovered
    BY DEF TunerInv
  <1> QED
    BY <1>1, <1>2, <1>3, PTL

\* GrowsWhenHeld, for every length of the streak: after its first tick the manager takes more
\* units only when each of the last Patience readings allowed as many ("a single-tick free
\* spike never makes us grab memory").
THEOREM GrowthIsHeld ==
  ASSUME Tuner!TunerAssumption
  PROVE  Tuner!Init /\ [][Tuner!Next]_(Tuner!vars) => [][Tuner!GrowsWhenHeld]_(Tuner!vars)
  <1>1. Tuner!Init => TunerInv
    BY TunerInit
  <1>2. TunerInv /\ [Tuner!Next]_(Tuner!vars) => TunerInv' /\ [Tuner!GrowsWhenHeld]_(Tuner!vars)
    BY TunerStep
  <1> QED
    BY <1>1, <1>2, PTL
-----------------------------------------------------------------------------
(* VramGuard: what an allocation that failed teaches.                       *)

Sizes == Nat \X Nat
Stages == {"off", "guarded", "check", "paused", "round", "training"}

VramType ==
  /\ vramPc \in [Miners -> Stages]
  /\ batch \in [Miners -> Nat \ {0}] /\ inner \in [Miners -> Nat \ {0}]
  /\ tried \in [Miners -> SUBSET Sizes]

\* A back-off gives up the batch first and the steps after it: what failed is larger than
\* what is tried next, and nothing but the floor is tried again.
Larger(p, b, h) == p[1] > b \/ (p[1] = b /\ p[2] > h)
Descends ==
  \A m \in Miners :
    /\ vramPc[m] = "off" => tried[m] = {}
    /\ \A p \in tried[m] : Larger(p, batch[m], inner[m]) \/ (batch[m] = 1 /\ inner[m] = 1)

VramInv == VramType /\ Descends

LEMMA BackoffShrinks ==
  ASSUME NEW b \in Nat \ {0}, NEW h \in Nat \ {0}
  PROVE  /\ Vram!Backoff(b, h)[1] \in Nat \ {0} /\ Vram!Backoff(b, h)[2] \in Nat \ {0}
         /\ \/ Vram!Backoff(b, h)[1] < b
            \/ Vram!Backoff(b, h)[1] = b /\ Vram!Backoff(b, h)[2] < h
            \/ b = 1 /\ h = 1 /\ Vram!Backoff(b, h)[1] = 1 /\ Vram!Backoff(b, h)[2] = 1
  <1>1. \A n \in Nat \ {0} : n > 1 => n \div 2 \in Nat \ {0} /\ n \div 2 < n
    OBVIOUS
  <1> QED
    BY <1>1 DEF Vram!Backoff

LEMMA VramInit == ASSUME Vram!VramAssumption, Vram!Init PROVE VramInv
  <1>1. /\ vramPc = [m \in Miners |-> "off"] /\ batch = [m \in Miners |-> MaxBatch]
        /\ inner = [m \in Miners |-> MaxInner] /\ tried = [m \in Miners |-> {}]
    BY DEF Vram!Init
  <1>2. MaxBatch \in Nat \ {0} /\ MaxInner \in Nat \ {0}
    BY DEF Vram!VramAssumption
  <1>3. vramPc \in [Miners -> Stages] /\ \A m \in Miners : tried[m] = {}
    BY <1>1 DEF Stages
  <1> QED
    BY <1>1, <1>2, <1>3 DEF VramInv, VramType, Descends

LEMMA VramStep ==
  ASSUME Vram!VramAssumption, VramInv, [Vram!Next]_(Vram!vars) PROVE VramInv'
  <1> USE DEF VramInv
  <1>1. ASSUME NEW m \in Miners, Vram!Guard(m) PROVE VramInv'
    <2>1. /\ vramPc[m] = "off" /\ vramPc' = [vramPc EXCEPT ![m] = "guarded"] /\ inner' = inner /\ tried' = tried
          /\ batch' = [batch EXCEPT ![m] = Vram!StartBatch]
      BY <1>1 DEF Vram!Guard
    <2>2. Vram!StartBatch \in Nat \ {0}
      BY DEF Vram!StartBatch, Vram!Lower, Vram!VramAssumption
    <2>3. tried[m] = {}
      BY <2>1 DEF Descends
    <2>4. VramType'
      BY <2>1, <2>2 DEF VramType, Stages
    <2>5. Descends'
      BY <2>1, <2>3 DEF VramType, Descends
    <2> QED
      BY <2>4, <2>5
  <1>2. ASSUME NEW m \in Miners, Vram!Load(m) \/ Vram!Measure(m) \/ Vram!Train(m) \/ Vram!Finish(m)
        PROVE  VramInv'
    <2>1. /\ batch' = batch /\ inner' = inner /\ tried' = tried /\ vramPc[m] # "off"
          /\ \E v \in Stages : v # "off" /\ vramPc' = [vramPc EXCEPT ![m] = v]
      BY <1>2 DEF Vram!Load, Vram!Measure, Vram!Train, Vram!Finish, Vram!size, Stages
    <2> QED
      BY <2>1 DEF VramType, Descends
  <1>3. ASSUME NEW m \in Miners, Vram!OutOfMemory(m) PROVE VramInv'
    <2> DEFINE b == Vram!Backoff(batch[m], inner[m])[1]
               h == Vram!Backoff(batch[m], inner[m])[2]
    <2>1. /\ vramPc[m] = "round" /\ vramPc' = [vramPc EXCEPT ![m] = "check"]
          /\ tried' = [tried EXCEPT ![m] = @ \cup {<<batch[m], inner[m]>>}]
          /\ batch' = [batch EXCEPT ![m] = b] /\ inner' = [inner EXCEPT ![m] = h]
      BY <1>3 DEF Vram!OutOfMemory
    <2>2. batch[m] \in Nat \ {0} /\ inner[m] \in Nat \ {0}
      BY DEF VramType
    <2>3. /\ b \in Nat \ {0} /\ h \in Nat \ {0}
          /\ b < batch[m] \/ (b = batch[m] /\ h < inner[m])
             \/ (batch[m] = 1 /\ inner[m] = 1 /\ b = 1 /\ h = 1)
      BY <2>2, BackoffShrinks
    <2> HIDE DEF b, h
    <2>4. VramType'
      BY <2>1, <2>2, <2>3 DEF VramType, Sizes, Stages
    <2>5. \A p \in tried[m] : Larger(p, b, h) \/ (b = 1 /\ h = 1)
      <3>1. TAKE p \in tried[m]
      <3>2. p[1] \in Nat /\ p[2] \in Nat
        BY DEF VramType, Sizes
      <3>3. Larger(p, batch[m], inner[m]) \/ (batch[m] = 1 /\ inner[m] = 1)
        BY DEF Descends
      <3> QED
        BY <2>2, <2>3, <3>2, <3>3 DEF Larger
    <2>6. Larger(<<batch[m], inner[m]>>, b, h) \/ (b = 1 /\ h = 1)
      BY <2>2, <2>3 DEF Larger
    <2>7. /\ vramPc'[m] = "check" /\ tried'[m] = tried[m] \cup {<<batch[m], inner[m]>>}
          /\ batch'[m] = b /\ inner'[m] = h
      BY <2>1 DEF VramType
    <2>8. ASSUME NEW o \in Miners, o # m
          PROVE  vramPc'[o] = vramPc[o] /\ tried'[o] = tried[o] /\ batch'[o] = batch[o] /\ inner'[o] = inner[o]
      BY <2>1, <2>8 DEF VramType
    <2>9. Descends'
      <3>1. SUFFICES ASSUME NEW o \in Miners
            PROVE  /\ vramPc'[o] = "off" => tried'[o] = {}
                   /\ \A p \in tried'[o] :
                        Larger(p, batch'[o], inner'[o]) \/ (batch'[o] = 1 /\ inner'[o] = 1)
        BY DEF Descends, Larger
      <3>2. CASE o = m
        BY <2>5, <2>6, <2>7, <3>2
      <3>3. CASE o # m
        BY <2>8, <3>3 DEF Descends
      <3> QED
        BY <3>2, <3>3
    <2> QED
      BY <2>4, <2>9
  <1>4. ASSUME NEW m \in Miners, Vram!Exit(m) PROVE VramInv'
    <2>1. /\ vramPc' = [vramPc EXCEPT ![m] = "off"] /\ batch' = batch
          /\ inner' = [inner EXCEPT ![m] = MaxInner] /\ tried' = [tried EXCEPT ![m] = {}]
      BY <1>4 DEF Vram!Exit
    <2>2. MaxInner \in Nat \ {0}
      BY DEF Vram!VramAssumption
    <2>3. VramType'
      BY <2>1, <2>2 DEF VramType, Stages
    <2>4. Descends'
      BY <2>1 DEF VramType, Descends
    <2> QED
      BY <2>3, <2>4
  <1>5. CASE (\E e \in GuardLevels : Vram!Others(e)) \/ (\E m \in Miners : Vram!Repair(m)) \/ UNCHANGED Vram!vars
    <2>1. vramPc' = vramPc /\ batch' = batch /\ inner' = inner /\ tried' = tried
      BY <1>5 DEF Vram!Others, Vram!Repair, Vram!size, Vram!vars
    <2> QED
      BY <2>1 DEF VramType, Descends
  <1> QED
    BY <1>1, <1>2, <1>3, <1>4, <1>5 DEF Vram!Next, Vram!Run

\* OomLearns, for every number of miners and every size of batch and step count: after an
\* allocation that failed, no later attempt of the process is with a batch and a step count
\* that failed before, but the smallest ("refuse to ever re-run a (batch, inner) pair that
\* has already OOM'd"), because each back-off goes down in the order batch first.
THEOREM FailedSizesNotRetried ==
  ASSUME Vram!VramAssumption
  PROVE  Vram!Init /\ [][Vram!Next]_(Vram!vars) => []Vram!OomLearns
  <1>1. Vram!Init => VramInv
    BY VramInit
  <1>2. VramInv /\ [Vram!Next]_(Vram!vars) => VramInv'
    BY VramStep
  <1>3. VramInv => Vram!OomLearns
    <2>1. SUFFICES ASSUME VramInv, NEW m \in Miners, <<batch[m], inner[m]>> \in tried[m]
          PROVE batch[m] = 1 /\ inner[m] = 1
      BY DEF Vram!OomLearns
    <2>2. batch[m] \in Nat /\ inner[m] \in Nat
      BY <2>1 DEF VramInv, VramType
    <2>3. ~Larger(<<batch[m], inner[m]>>, batch[m], inner[m])
      BY <2>2 DEF Larger
    <2> QED
      BY <2>1, <2>3 DEF VramInv, Descends
  <1> QED
    BY <1>1, <1>2, <1>3, PTL
-----------------------------------------------------------------------------
(* PipeStages.                                                              *)

\* What is assumed of a run: no two drivers open a stream of one name, and the store lists
\* its names in the order they were first put.
PipeRun ==
  /\ StreamOf \in [Drivers -> Streams] /\ InOrder
  /\ \A d, e \in Drivers : StreamOf[d] = StreamOf[e] => d = e

PipeNames == [stream : Streams, seg : Nat, hop : Int]
Bodies == {Wrong} \cup [of : Drivers, seg : Nat]

PipeType ==
  /\ pipePc \in [Drivers -> {"send", "wait", "finish", "off"}] /\ seg \in [Drivers -> Nat]
  /\ got \in [Drivers -> Seq(Bodies)]
  /\ pipeTodo \in [Pipe!Stages -> SUBSET [at : Nat, name : PipeNames, body : Bodies]]
  /\ pipeSeen \in [Pipe!Stages -> SUBSET PipeNames] /\ ended \in [Pipe!Stages -> SUBSET Streams]
  /\ pipeCache \in [Pipe!Stages -> [Streams -> Seq(Bodies)]]
  /\ lost \in Nat /\ restarts \in Nat

\* The names of the store are those it lists, each once.
PipeStore ==
  /\ listing \in Seq(PipeNames) /\ content \in [DOMAIN content -> Bodies]
  /\ DOMAIN content = {listing[i] : i \in DOMAIN listing}
  /\ \A i, j \in DOMAIN listing : listing[i] = listing[j] => i = j

\* A stage works through names it has not seen, each once.
PipeTodo ==
  \A k \in Pipe!Stages : \A t \in pipeTodo[k] :
    /\ t.name \notin pipeSeen[k]
    /\ \A u \in pipeTodo[k] : u.name = t.name => u = t

\* What follows is about a driver that has not ended, its stream and the segments it sent.
Driving(d) == pipePc[d] \in {"send", "wait"}
InStream(d, n) == n.stream = StreamOf[d]
Segment(d, h, j) == Pipe!Name(StreamOf[d], h, j)
WasSent(d, h) == h < seg[d] \/ (h = seg[d] /\ pipePc[d] = "wait")
Handled(d, k) == Len(pipeCache[k][StreamOf[d]])

\* A message is the activation of the driver's own text, and while no stage started again
\* every stage below has handled its segment.
Message(d, n, body) ==
  /\ n.hop >= 0 /\ WasSent(d, n.seg) /\ body = Pipe!Own(d, n.seg)
  /\ restarts = 0 => \A k \in Pipe!Stages : k < n.hop => n.seg < Handled(d, k)

StoreOf(d) == \A n \in DOMAIN content : InStream(d, n) => Message(d, n, content[n])
TodoOf(d) ==
  \A k \in Pipe!Stages : \A t \in pipeTodo[k] :
    InStream(d, t.name) => Message(d, t.name, t.body) /\ t.name.hop = k

\* The cache of a stage is the text as far as the stage has seen it.
CacheOf(d, k) ==
  /\ StreamOf[d] \notin ended[k]
  /\ \A i \in 1 .. Handled(d, k) : pipeCache[k][StreamOf[d]][i] = Pipe!Own(d, i - 1)
  /\ \A h \in Nat : Segment(d, h, k) \in pipeSeen[k] <=> h < Handled(d, k)

\* While no name was lost, a stage meets the segments in their order,
InTurn(d) ==
  lost = 0 => \A k \in Pipe!Stages : \A t \in pipeTodo[k] : \A h \in Nat :
    (InStream(d, t.name) /\ h < t.name.seg) =>
      \/ h < Handled(d, k)
      \/ \E u \in pipeTodo[k] : u.name = Segment(d, h, k) /\ u.at < t.at
\* the store lists them in it,
Ascending(d) ==
  lost = 0 => \A i \in DOMAIN listing : \A h \in Nat :
    (InStream(d, listing[i]) /\ h < listing[i].seg) =>
      \E j \in DOMAIN listing : j < i /\ listing[j] = Segment(d, h, listing[i].hop)
\* and has every message that was put.
AllPut(d) ==
  lost = 0 =>
    /\ \A h \in Nat : WasSent(d, h) => Segment(d, h, 0) \in DOMAIN content
    /\ \A k \in Pipe!Stages : \A h \in Nat :
         h < Handled(d, k) => Segment(d, h, k + 1) \in DOMAIN content
\* While no stage started again, every stage has handled what was answered.
Answered(d) ==
  restarts = 0 => \A k \in Pipe!Stages : k < depth =>
    \A h \in Nat : h < seg[d] => h < Handled(d, k)

Flows(d) ==
  /\ StoreOf(d) /\ TodoOf(d) /\ \A k \in Pipe!Stages : CacheOf(d, k)
  /\ InTurn(d) /\ Ascending(d) /\ AllPut(d) /\ Answered(d)

Calm == lost = 0 \/ restarts = 0
Sampled(d) ==
  /\ \A i \in DOMAIN got[d] : got[d][i] = Pipe!Own(d, i - 1)
  /\ Driving(d) => Len(got[d]) = seg[d]

PipeBase == PipeType /\ PipeStore /\ PipeTodo
PipeInv ==
  /\ PipeBase /\ Pipe!Evicted
  /\ Calm => \A d \in Drivers : Sampled(d) /\ (Driving(d) => Flows(d))

LEMMA StageIsNat == \A k \in Pipe!Stages : k \in Nat
  BY DEF Pipe!Stages

LEMMA PipeInit == ASSUME PipeRun, Pipe!Init PROVE PipeInv
  <1>1. PipeType
    BY DEF Pipe!Init, PipeType
  <1>2. PipeStore /\ PipeTodo /\ Pipe!Evicted
    BY DEF Pipe!Init, PipeStore, PipeTodo, Pipe!Evicted
  <1>3. ASSUME NEW d \in Drivers PROVE Sampled(d)
    BY DEF Pipe!Init, Sampled
  <1>4. ASSUME NEW d \in Drivers, Driving(d) PROVE Flows(d)
    <2>1. /\ listing = <<>> /\ DOMAIN content = {} /\ seg[d] = 0 /\ pipePc[d] = "send"
          /\ StreamOf[d] \in Streams
          /\ \A k \in Pipe!Stages :
               /\ pipeTodo[k] = {} /\ pipeSeen[k] = {} /\ ended[k] = {} /\ pipeCache[k][StreamOf[d]] = <<>>
      BY <1>4 DEF Pipe!Init, Driving, PipeRun
    <2>2. \A k \in Pipe!Stages : CacheOf(d, k)
      BY <2>1 DEF CacheOf, Handled
    <2>3. StoreOf(d) /\ TodoOf(d) /\ InTurn(d) /\ Ascending(d)
      BY <2>1 DEF StoreOf, TodoOf, InTurn, Ascending
    <2>4. AllPut(d) /\ Answered(d)
      BY <2>1 DEF AllPut, Answered, WasSent, Handled
    <2> QED
      BY <2>2, <2>3, <2>4 DEF Flows
  <1> QED
    BY <1>1, <1>2, <1>3, <1>4 DEF PipeInv, PipeBase

\* What a PUT leaves: a new name stands behind the others, one put again keeps its place.
LEMMA PutIs ==
  ASSUME PipeStore, NEW name \in PipeNames, NEW body \in Bodies, Pipe!Put(name, body)
  PROVE  /\ DOMAIN content' = DOMAIN content \cup {name} /\ content'[name] = body
         /\ \A n \in DOMAIN content : n # name => content'[n] = content[n]
         /\ DOMAIN listing = 1 .. Len(listing) /\ DOMAIN listing' = 1 .. Len(listing')
         /\ Len(listing) \in Nat /\ Len(listing') \in Nat /\ Len(listing) <= Len(listing')
         /\ \A i \in DOMAIN listing : listing'[i] = listing[i]
         /\ \A i \in DOMAIN listing' :
              i \notin DOMAIN listing => i = Len(listing) + 1 /\ listing'[i] = name /\ name \notin DOMAIN content
  BY DEF Pipe!Put, PipeStore

LEMMA PutKeepsStore ==
  ASSUME PipeStore, NEW name \in PipeNames, NEW body \in Bodies, Pipe!Put(name, body)
  PROVE  PipeStore'
  <1>1. listing' \in Seq(PipeNames) /\ content' \in [DOMAIN content' -> Bodies]
    BY DEF Pipe!Put, PipeStore
  <1>2. DOMAIN content' = {listing'[i] : i \in DOMAIN listing'}
    <2>1. CASE name \in DOMAIN content
      <3>1. listing' = listing /\ DOMAIN content' = DOMAIN content
        BY <2>1 DEF Pipe!Put
      <3> QED
        BY <3>1 DEF PipeStore
    <2>2. CASE name \notin DOMAIN content
      <3>1. listing' = Append(listing, name) /\ DOMAIN content' = DOMAIN content \cup {name}
        BY <2>2 DEF Pipe!Put
      <3>2. /\ listing \in Seq(PipeNames) /\ DOMAIN content = {listing[i] : i \in DOMAIN listing}
        BY DEF PipeStore
      <3>3. DOMAIN listing' = DOMAIN listing \cup {Len(listing) + 1} /\ listing'[Len(listing) + 1] = name
        BY <3>1, <3>2
      <3>4. \A i \in DOMAIN listing : listing'[i] = listing[i]
        BY <3>1, <3>2
      <3> HIDE DEF PipeNames
      <3> QED
        BY <3>1, <3>2, <3>3, <3>4
    <2> QED
      BY <2>1, <2>2
  <1>3. ASSUME NEW i \in DOMAIN listing', NEW j \in DOMAIN listing', listing'[i] = listing'[j] PROVE i = j
    <2>1. /\ \A k \in DOMAIN listing : listing[k] \in DOMAIN content
          /\ \A k, l \in DOMAIN listing : listing[k] = listing[l] => k = l
      BY DEF PipeStore
    <2>2. /\ \A k \in DOMAIN listing : listing'[k] = listing[k]
          /\ \A k \in DOMAIN listing' :
               k \notin DOMAIN listing => k = Len(listing) + 1 /\ listing'[k] = name /\ name \notin DOMAIN content
      BY PutIs
    <2>3. CASE i \in DOMAIN listing /\ j \in DOMAIN listing
      BY <1>3, <2>1, <2>2, <2>3
    <2>4. CASE i \notin DOMAIN listing /\ j \notin DOMAIN listing
      BY <2>2, <2>4
    <2>5. CASE (i \in DOMAIN listing) # (j \in DOMAIN listing)
      BY <1>3, <2>1, <2>2, <2>5
    <2> QED
      BY <2>3, <2>4, <2>5
  <1> QED
    BY <1>1, <1>2, <1>3 DEF PipeStore

\* A step that leaves what belongs to a driver's stream alone.
Beside(d) ==
  /\ pipePc'[d] = pipePc[d] /\ seg'[d] = seg[d] /\ depth' = depth /\ lost' = lost /\ restarts' = restarts
  /\ \A n : InStream(d, n) =>
       (n \in DOMAIN content' <=> n \in DOMAIN content) /\ (n \in DOMAIN content => content'[n] = content[n])
  /\ \A i \in DOMAIN listing : i \in DOMAIN listing' /\ listing'[i] = listing[i]
  /\ \A i \in DOMAIN listing' : InStream(d, listing'[i]) => i \in DOMAIN listing
  /\ \A k \in Pipe!Stages :
       /\ pipeCache'[k][StreamOf[d]] = pipeCache[k][StreamOf[d]]
       /\ StreamOf[d] \in ended'[k] => StreamOf[d] \in ended[k]
       /\ \A n : InStream(d, n) => (n \in pipeSeen'[k] <=> n \in pipeSeen[k])
       /\ \A t : InStream(d, t.name) => (t \in pipeTodo'[k] <=> t \in pipeTodo[k])

LEMMA SegmentIs ==
  \A d \in Drivers : \A h, j :
    /\ InStream(d, Segment(d, h, j)) /\ Segment(d, h, j).seg = h /\ Segment(d, h, j).hop = j
  BY DEF InStream, Segment, Pipe!Name

LEMMA BesideFlows ==
  ASSUME NEW d \in Drivers, Flows(d), Beside(d)
  PROVE  Flows(d)'
  <1>1. /\ pipePc'[d] = pipePc[d] /\ seg'[d] = seg[d] /\ depth' = depth /\ lost' = lost /\ restarts' = restarts
        /\ \A k \in Pipe!Stages : pipeCache'[k][StreamOf[d]] = pipeCache[k][StreamOf[d]]
    BY DEF Beside
  <1>2. \A k \in Pipe!Stages : Handled(d, k)' = Handled(d, k)
    BY <1>1 DEF Handled
  <1>3. \A n, body : Message(d, n, body) => Message(d, n, body)'
    BY <1>1, <1>2 DEF Message, WasSent
  <1>4. StoreOf(d)'
    BY <1>3 DEF Flows, StoreOf, Beside, InStream
  <1>5. TodoOf(d)'
    BY <1>3 DEF Flows, TodoOf, Beside, InStream
  <1>6. ASSUME NEW k \in Pipe!Stages PROVE CacheOf(d, k)'
    <2>1. CacheOf(d, k)
      BY DEF Flows
    <2>2. /\ StreamOf[d] \in ended'[k] => StreamOf[d] \in ended[k]
          /\ \A h \in Nat : Segment(d, h, k) \in pipeSeen'[k] <=> Segment(d, h, k) \in pipeSeen[k]
      BY SegmentIs DEF Beside
    <2> QED
      BY <1>1, <1>2, <2>1, <2>2 DEF CacheOf, Segment
  <1>7. InTurn(d)'
    <2>1. SUFFICES ASSUME lost = 0, NEW k \in Pipe!Stages, NEW t \in pipeTodo'[k], NEW h \in Nat,
                          InStream(d, t.name), h < t.name.seg
                   PROVE  \/ h < Handled(d, k)'
                          \/ \E u \in pipeTodo'[k] : u.name = Segment(d, h, k) /\ u.at < t.at
      BY <1>1 DEF InTurn, InStream, Segment
    <2>2. t \in pipeTodo[k]
      BY <2>1 DEF Beside
    <2>3. CASE h < Handled(d, k)
      BY <1>2, <2>3
    <2>4. CASE \E u \in pipeTodo[k] : u.name = Segment(d, h, k) /\ u.at < t.at
      BY <2>4, SegmentIs DEF Beside
    <2> QED
      BY <2>1, <2>2, <2>3, <2>4 DEF Flows, InTurn
  <1>8. Ascending(d)'
    <2>1. SUFFICES ASSUME lost = 0, NEW i \in DOMAIN listing', NEW h \in Nat,
                          InStream(d, listing'[i]), h < listing'[i].seg
                   PROVE  \E j \in DOMAIN listing' : j < i /\ listing'[j] = Segment(d, h, listing'[i].hop)
      BY <1>1 DEF Ascending, InStream, Segment
    <2>2. i \in DOMAIN listing /\ listing'[i] = listing[i]
      BY <2>1 DEF Beside
    <2>3. PICK j \in DOMAIN listing : j < i /\ listing[j] = Segment(d, h, listing[i].hop)
      BY <2>1, <2>2 DEF Flows, Ascending
    <2> QED
      BY <2>2, <2>3 DEF Beside
  <1>9. AllPut(d)'
    <2>1. \A h, j : Segment(d, h, j) \in DOMAIN content => Segment(d, h, j) \in DOMAIN content'
      BY SegmentIs DEF Beside
    <2> QED
      BY <1>1, <1>2, <2>1 DEF Flows, AllPut, WasSent, Segment
  <1>10. Answered(d)'
    BY <1>1, <1>2 DEF Flows, Answered
  <1> QED
    BY <1>4, <1>5, <1>6, <1>7, <1>8, <1>9, <1>10 DEF Flows

\* A driver's message put, or a name of another stream: what stands under the driver's own
\* names is the same but for the one put.
LEMMA PutBeside ==
  ASSUME PipeStore, NEW name \in PipeNames, NEW body \in Bodies, Pipe!Put(name, body),
         NEW d \in Drivers, ~InStream(d, name)
  PROVE  /\ \A n : InStream(d, n) =>
              (n \in DOMAIN content' <=> n \in DOMAIN content) /\ (n \in DOMAIN content => content'[n] = content[n])
         /\ \A i \in DOMAIN listing : i \in DOMAIN listing' /\ listing'[i] = listing[i]
         /\ \A i \in DOMAIN listing' : InStream(d, listing'[i]) => i \in DOMAIN listing
  <1>1. /\ DOMAIN content' = DOMAIN content \cup {name}
        /\ \A n \in DOMAIN content : n # name => content'[n] = content[n]
    BY PutIs
  <1>2. /\ DOMAIN listing = 1 .. Len(listing) /\ DOMAIN listing' = 1 .. Len(listing')
        /\ Len(listing) \in Nat /\ Len(listing') \in Nat /\ Len(listing) <= Len(listing')
        /\ \A i \in DOMAIN listing : listing'[i] = listing[i]
        /\ \A i \in DOMAIN listing' : i \notin DOMAIN listing => listing'[i] = name
    BY PutIs
  <1>3. \A n : InStream(d, n) => n # name
    OBVIOUS
  <1>4. \A i \in DOMAIN listing : i \in DOMAIN listing'
    BY <1>2
  <1> QED
    BY <1>1, <1>2, <1>3, <1>4

LEMMA DriverNames ==
  ASSUME PipeRun, NEW e \in Drivers, PipeType
  PROVE  /\ \A j \in Int : Pipe!Name(StreamOf[e], seg[e], j) \in PipeNames
         /\ Pipe!InOf(e) \in PipeNames /\ Pipe!DoneOf(StreamOf[e]) \in PipeNames
         /\ \A h \in Nat : Pipe!Own(e, h) \in Bodies
  BY DEF PipeRun, PipeType, PipeNames, Bodies, Pipe!Name, Pipe!InOf, Pipe!DoneOf, Pipe!Own

\* The steps of a driver.
LEMMA DriverBase ==
  ASSUME PipeRun, PipeInv, NEW e \in Drivers, Pipe!Driver(e)
  PROVE  PipeBase' /\ Pipe!Evicted'
  <1>1. /\ pipeTodo' = pipeTodo /\ pipeSeen' = pipeSeen /\ ended' = ended /\ pipeCache' = pipeCache
        /\ lost' = lost /\ restarts' = restarts
    BY DEF Pipe!Driver, Pipe!Send, Pipe!Receive, Pipe!TimeOut, Pipe!Finish, Pipe!stage, Pipe!faults
  <1>2. PipeType /\ PipeStore /\ PipeTodo /\ Pipe!Evicted
    BY DEF PipeInv, PipeBase
  <1>3. PipeTodo' /\ Pipe!Evicted'
    BY <1>1, <1>2 DEF PipeTodo, Pipe!Evicted
  <1>4. PipeStore'
    <2>1. CASE Pipe!Send(e) \/ Pipe!Finish(e)
      <3>1. Pipe!Put(Pipe!InOf(e), Pipe!Own(e, seg[e])) \/ Pipe!Put(Pipe!DoneOf(StreamOf[e]), Pipe!Own(e, 0))
        BY <2>1 DEF Pipe!Send, Pipe!Finish
      <3>2. /\ Pipe!InOf(e) \in PipeNames /\ Pipe!DoneOf(StreamOf[e]) \in PipeNames
            /\ Pipe!Own(e, seg[e]) \in Bodies /\ Pipe!Own(e, 0) \in Bodies
        BY <1>2, DriverNames DEF PipeType
      <3> QED
        BY <1>2, <3>1, <3>2, PutKeepsStore
    <2>2. CASE Pipe!Receive(e) \/ Pipe!TimeOut(e)
      <3>1. listing' = listing /\ content' = content
        BY <2>2 DEF Pipe!Receive, Pipe!TimeOut, Pipe!store
      <3> QED
        BY <1>2, <3>1 DEF PipeStore
    <2> QED
      BY <2>1, <2>2 DEF Pipe!Driver
  <1>5. /\ pipePc' \in [Drivers -> {"send", "wait", "finish", "off"}] /\ seg' \in [Drivers -> Nat]
        /\ got' \in [Drivers -> Seq(Bodies)]
    <2>1. CASE Pipe!Receive(e)
      <3>1. content[Pipe!OutOf(e)] \in Bodies
        BY <1>2, <2>1 DEF Pipe!Receive, PipeStore
      <3>2. Append(got[e], content[Pipe!OutOf(e)]) \in Seq(Bodies)
        BY <1>2, <3>1 DEF PipeType
      <3>3. got' \in [Drivers -> Seq(Bodies)]
        BY <1>2, <2>1, <3>2 DEF Pipe!Receive, PipeType
      <3>4. seg' \in [Drivers -> Nat]
        <4>1. seg \in [Drivers -> Nat] /\ (seg' = seg \/ seg' = [seg EXCEPT ![e] = @ + 1])
          BY <1>2, <2>1 DEF Pipe!Receive, PipeType
        <4> QED
          BY <4>1
      <3>5. pipePc' \in [Drivers -> {"send", "wait", "finish", "off"}]
        BY <1>2, <2>1 DEF Pipe!Receive, PipeType
      <3> QED
        BY <3>3, <3>4, <3>5
    <2>2. CASE Pipe!Send(e) \/ Pipe!TimeOut(e) \/ Pipe!Finish(e)
      BY <1>2, <2>2 DEF Pipe!Send, Pipe!TimeOut, Pipe!Finish, PipeType
    <2> QED
      BY <2>1, <2>2 DEF Pipe!Driver
  <1>6. PipeType'
    BY <1>1, <1>2, <1>5 DEF PipeType
  <1> QED
    BY <1>3, <1>4, <1>6 DEF PipeBase

\* What another driver does is in another stream.
LEMMA OtherDriver ==
  ASSUME PipeRun, PipeInv, NEW e \in Drivers, Pipe!Driver(e), depth' = depth, NEW d \in Drivers, d # e
  PROVE  Beside(d) /\ got'[d] = got[d]
  <1>1. /\ pipeTodo' = pipeTodo /\ pipeSeen' = pipeSeen /\ ended' = ended /\ pipeCache' = pipeCache
        /\ lost' = lost /\ restarts' = restarts
    BY DEF Pipe!Driver, Pipe!Send, Pipe!Receive, Pipe!TimeOut, Pipe!Finish, Pipe!stage, Pipe!faults
  <1>2. PipeType /\ PipeStore
    BY DEF PipeInv, PipeBase
  <1>3. pipePc'[d] = pipePc[d] /\ seg'[d] = seg[d] /\ got'[d] = got[d]
    BY <1>2 DEF Pipe!Driver, Pipe!Send, Pipe!Receive, Pipe!TimeOut, Pipe!Finish, PipeType
  <1>4. /\ \A n : InStream(d, n) =>
             (n \in DOMAIN content' <=> n \in DOMAIN content) /\ (n \in DOMAIN content => content'[n] = content[n])
        /\ \A i \in DOMAIN listing : i \in DOMAIN listing' /\ listing'[i] = listing[i]
        /\ \A i \in DOMAIN listing' : InStream(d, listing'[i]) => i \in DOMAIN listing
    <2>1. CASE Pipe!Send(e) \/ Pipe!Finish(e)
      <3>1. Pipe!Put(Pipe!InOf(e), Pipe!Own(e, seg[e])) \/ Pipe!Put(Pipe!DoneOf(StreamOf[e]), Pipe!Own(e, 0))
        BY <2>1 DEF Pipe!Send, Pipe!Finish
      <3>2. /\ Pipe!InOf(e) \in PipeNames /\ Pipe!DoneOf(StreamOf[e]) \in PipeNames
            /\ Pipe!Own(e, seg[e]) \in Bodies /\ Pipe!Own(e, 0) \in Bodies
        BY <1>2, DriverNames DEF PipeType
      <3>3. ~InStream(d, Pipe!InOf(e)) /\ ~InStream(d, Pipe!DoneOf(StreamOf[e]))
        <4>1. Pipe!InOf(e).stream = StreamOf[e] /\ Pipe!DoneOf(StreamOf[e]).stream = StreamOf[e]
          BY DEF Pipe!InOf, Pipe!DoneOf, Pipe!Name
        <4> QED
          BY <4>1 DEF PipeRun, InStream
      <3>4. CASE Pipe!Put(Pipe!InOf(e), Pipe!Own(e, seg[e]))
        BY <1>2, <3>2, <3>3, <3>4, PutBeside
      <3>5. CASE Pipe!Put(Pipe!DoneOf(StreamOf[e]), Pipe!Own(e, 0))
        BY <1>2, <3>2, <3>3, <3>5, PutBeside
      <3> QED
        BY <3>1, <3>4, <3>5
    <2>2. CASE Pipe!Receive(e) \/ Pipe!TimeOut(e)
      <3>1. listing' = listing /\ content' = content
        BY <2>2 DEF Pipe!Receive, Pipe!TimeOut, Pipe!store
      <3> QED
        BY <3>1
    <2> QED
      BY <2>1, <2>2 DEF Pipe!Driver
  <1> QED
    BY <1>1, <1>3, <1>4 DEF Beside

LEMMA SendFlows ==
  ASSUME PipeRun, PipeInv, NEW d \in Drivers, Flows(d), Pipe!Send(d), depth' = depth
  PROVE  Flows(d)'
  <1> DEFINE new == Segment(d, seg[d], 0)
  <1>1. PipeType /\ PipeStore
    BY DEF PipeInv, PipeBase
  <1>2. /\ pipePc[d] = "send" /\ pipePc'[d] = "wait" /\ seg' = seg /\ seg[d] \in Nat
        /\ pipeTodo' = pipeTodo /\ pipeSeen' = pipeSeen /\ ended' = ended /\ pipeCache' = pipeCache
        /\ lost' = lost /\ restarts' = restarts
    BY <1>1 DEF Pipe!Send, Pipe!stage, Pipe!faults, PipeType
  <1>3. /\ Pipe!Put(new, Pipe!Own(d, seg[d])) /\ new \in PipeNames /\ Pipe!Own(d, seg[d]) \in Bodies
        /\ InStream(d, new) /\ new.seg = seg[d] /\ new.hop = 0
    <2>1. Pipe!InOf(d) = new
      BY DEF Pipe!InOf, Segment
    <2> QED
      BY <1>1, <1>2, <2>1, DriverNames, SegmentIs DEF Pipe!Send
  <1>4. /\ DOMAIN content' = DOMAIN content \cup {new} /\ content'[new] = Pipe!Own(d, seg[d])
        /\ \A n \in DOMAIN content : n # new => content'[n] = content[n]
        /\ DOMAIN listing = 1 .. Len(listing) /\ DOMAIN listing' = 1 .. Len(listing')
        /\ Len(listing) \in Nat /\ Len(listing') \in Nat /\ Len(listing) <= Len(listing')
        /\ \A i \in DOMAIN listing : listing'[i] = listing[i]
        /\ \A i \in DOMAIN listing' :
             i \notin DOMAIN listing => i = Len(listing) + 1 /\ listing'[i] = new /\ new \notin DOMAIN content
    <2> HIDE DEF new
    <2> QED
      BY <1>1, <1>3, PutIs
  <1> HIDE DEF new
  <1>5. /\ \A h \in Nat : WasSent(d, h)' <=> (WasSent(d, h) \/ h = seg[d])
        /\ \A h : WasSent(d, h) => WasSent(d, h)'
        /\ \A k : Handled(d, k)' = Handled(d, k)
    BY <1>2 DEF WasSent, Handled
  <1>6. \A n, body : Message(d, n, body) => Message(d, n, body)'
    BY <1>2, <1>5 DEF Message
  <1>7. StoreOf(d)'
    <2>1. ASSUME NEW n, n = new, NEW body, body = Pipe!Own(d, seg[d]) PROVE Message(d, n, body)'
      BY <1>2, <1>3, <1>5, <2>1, StageIsNat DEF Message
    <2>2. ASSUME NEW n \in DOMAIN content', InStream(d, n), NEW body, body = content'[n]
          PROVE  Message(d, n, body)'
      <3>1. CASE n = new
        BY <1>4, <2>1, <2>2, <3>1
      <3>2. CASE n # new
        <4>1. n \in DOMAIN content /\ content'[n] = content[n]
          BY <1>4, <2>2, <3>2
        <4>2. Message(d, n, content[n])
          BY <2>2, <4>1 DEF Flows, StoreOf
        <4> QED
          BY <1>6, <2>2, <4>1, <4>2
      <3> QED
        BY <3>1, <3>2
    <2> QED
      BY <2>2 DEF StoreOf, InStream, Message
  <1>8. TodoOf(d)'
    BY <1>2, <1>6 DEF Flows, TodoOf, InStream
  <1>9. \A k \in Pipe!Stages : CacheOf(d, k)'
    BY <1>2, <1>5 DEF Flows, CacheOf, Segment
  <1>10. InTurn(d)'
    BY <1>2, <1>5 DEF Flows, InTurn, InStream, Segment
  <1>11. Ascending(d)'
    <2>1. SUFFICES ASSUME lost = 0, NEW i \in DOMAIN listing', NEW h \in Nat,
                          InStream(d, listing'[i]), h < listing'[i].seg
                   PROVE  \E j \in DOMAIN listing' : j < i /\ listing'[j] = Segment(d, h, listing'[i].hop)
      BY <1>2 DEF Ascending, InStream, Segment
    <2>2. CASE i \in DOMAIN listing
      <3>1. PICK j \in DOMAIN listing : j < i /\ listing[j] = Segment(d, h, listing[i].hop)
        BY <1>4, <2>1, <2>2 DEF Flows, Ascending
      <3> QED
        BY <1>4, <2>2, <3>1
    <2>3. CASE i \notin DOMAIN listing
      <3>1. i = Len(listing) + 1 /\ listing'[i] = new
        BY <1>4, <2>3
      <3>2. WasSent(d, h)
        BY <1>2, <1>3, <2>1, <3>1 DEF WasSent
      <3>3. Segment(d, h, 0) \in DOMAIN content
        BY <2>1, <3>2 DEF Flows, AllPut
      <3>4. PICK j \in DOMAIN listing : listing[j] = Segment(d, h, 0)
        BY <1>1, <3>3 DEF PipeStore
      <3> QED
        BY <1>3, <1>4, <3>1, <3>4
    <2> QED
      BY <2>2, <2>3
  <1>12. AllPut(d)'
    <2>1. \A h, j : Segment(d, h, j)' = Segment(d, h, j)
      BY DEF Segment
    <2>2. ASSUME lost = 0, NEW h \in Nat, WasSent(d, h)' PROVE Segment(d, h, 0) \in DOMAIN content'
      <3>1. CASE WasSent(d, h)
        BY <1>4, <2>2, <3>1 DEF Flows, AllPut
      <3>2. CASE h = seg[d]
        BY <1>4, <3>2 DEF new
      <3> QED
        BY <1>5, <2>2, <3>1, <3>2
    <2>3. ASSUME lost = 0, NEW k \in Pipe!Stages, NEW h \in Nat, h < Handled(d, k)
          PROVE  Segment(d, h, k + 1) \in DOMAIN content'
      BY <1>4, <2>3 DEF Flows, AllPut
    <2> QED
      BY <1>2, <1>5, <2>1, <2>2, <2>3 DEF AllPut
  <1>13. Answered(d)'
    BY <1>2, <1>5 DEF Flows, Answered
  <1> QED
    BY <1>7, <1>8, <1>9, <1>10, <1>11, <1>12, <1>13 DEF Flows

\* A driver that receives has the activation of its own text, and every stage has handled
\* the segment.
LEMMA ReceiveFlows ==
  ASSUME PipeRun, PipeInv, NEW d \in Drivers, Flows(d), Pipe!Receive(d), Sampled(d), depth' = depth
  PROVE  Sampled(d)' /\ (Driving(d)' => Flows(d)')
  <1> DEFINE out == Segment(d, seg[d], depth)
  <1>1. PipeType
    BY DEF PipeInv, PipeBase
  <1>2. /\ pipePc[d] = "wait" /\ out \in DOMAIN content /\ got'[d] = Append(got[d], content[out])
        /\ \/ seg'[d] = seg[d] + 1 /\ pipePc'[d] = "send"
           \/ pipePc'[d] = "finish"
        /\ seg[d] \in Nat /\ got[d] \in Seq(Bodies)
        /\ listing' = listing /\ content' = content
        /\ pipeTodo' = pipeTodo /\ pipeSeen' = pipeSeen /\ ended' = ended /\ pipeCache' = pipeCache
        /\ lost' = lost /\ restarts' = restarts
    BY <1>1 DEF Pipe!Receive, Pipe!OutOf, Segment, Pipe!store, Pipe!stage, Pipe!faults, PipeType
  <1>3. Message(d, out, content[out]) /\ out.seg = seg[d] /\ out.hop = depth
    BY <1>2, SegmentIs DEF Flows, StoreOf
  <1> HIDE DEF out
  <1>4. Sampled(d)'
    <2>1. content[out] = Pipe!Own(d, seg[d])
      BY <1>3 DEF Message
    <2>2. Len(got[d]) = seg[d] /\ \A i \in DOMAIN got[d] : got[d][i] = Pipe!Own(d, i - 1)
      BY <1>2 DEF Sampled, Driving
    <2>3. /\ Len(got'[d]) = seg[d] + 1 /\ DOMAIN got'[d] = 1 .. seg[d] + 1 /\ DOMAIN got[d] = 1 .. seg[d]
          /\ got'[d][seg[d] + 1] = content[out] /\ \A i \in 1 .. seg[d] : got'[d][i] = got[d][i]
      BY <1>2, <2>2
    <2>4. \A i \in DOMAIN got'[d] : got'[d][i] = Pipe!Own(d, i - 1)
      BY <1>2, <2>1, <2>2, <2>3
    <2> QED
      BY <1>2, <2>3, <2>4 DEF Sampled, Driving, Pipe!Own
  <1>5. ASSUME Driving(d)' PROVE Flows(d)'
    <2>1. seg'[d] = seg[d] + 1 /\ pipePc'[d] = "send"
      BY <1>2, <1>5 DEF Driving
    <2>2. /\ \A h \in Int : WasSent(d, h)' <=> WasSent(d, h)
          /\ \A k : Handled(d, k)' = Handled(d, k)
      BY <1>2, <2>1 DEF WasSent, Handled
    <2>3. \A n, body : n.seg \in Int => (Message(d, n, body) => Message(d, n, body)')
      BY <1>2, <2>2 DEF Message
    <2>4. StoreOf(d)'
      <3>1. \A n \in DOMAIN content : n.seg \in Int
        <4>1. \A n \in DOMAIN content : n \in PipeNames
          BY DEF PipeInv, PipeBase, PipeStore
        <4> QED
          BY <4>1 DEF PipeNames
      <3> QED
        BY <1>2, <2>3, <3>1 DEF Flows, StoreOf, InStream
    <2>5. TodoOf(d)'
      <3>1. \A k \in Pipe!Stages : \A t \in pipeTodo[k] : t.name.seg \in Int
        BY <1>1 DEF PipeType, PipeNames
      <3> QED
        BY <1>2, <2>3, <3>1 DEF Flows, TodoOf, InStream
    <2>6. \A k \in Pipe!Stages : CacheOf(d, k)'
      BY <1>2, <2>2 DEF Flows, CacheOf, Segment
    <2>7. InTurn(d)' /\ Ascending(d)'
      BY <1>2, <2>2 DEF Flows, InTurn, Ascending, InStream, Segment
    <2>8. AllPut(d)'
      BY <1>2, <2>2 DEF Flows, AllPut, Segment
    <2>9. Answered(d)'
      <3>1. SUFFICES ASSUME restarts = 0, NEW k \in Pipe!Stages, k < depth, NEW h \in Nat, h < seg[d] + 1
                     PROVE  h < Handled(d, k)
        BY <1>2, <2>1, <2>2 DEF Answered
      <3>2. CASE h < seg[d]
        BY <3>1, <3>2 DEF Flows, Answered
      <3>3. CASE h = seg[d]
        BY <1>3, <3>1, <3>3 DEF Message
      <3> QED
        BY <1>2, <3>1, <3>2, <3>3
    <2> QED
      BY <2>4, <2>5, <2>6, <2>7, <2>8, <2>9 DEF Flows
  <1> QED
    BY <1>4, <1>5

\* A stage lists what is new under its names: a stream's segments in their order.
LEMMA TodoIs ==
  ASSUME PipeInv, NEW k \in Pipe!Stages, NEW t \in Pipe!Todo(k)
  PROVE  /\ t.at \in DOMAIN listing /\ t.name = listing[t.at] /\ t.body = content[t.name]
         /\ t.name \in DOMAIN content /\ t.name \in PipeNames /\ t.body \in Bodies
         /\ t.name.hop \in {k, -1} /\ t.name \notin pipeSeen[k]
         /\ t = [at |-> t.at, name |-> t.name, body |-> t.body] /\ t.at \in Nat
  <1>1. PICK i \in Pipe!New(k) : t = [at |-> i, name |-> listing[i], body |-> content[listing[i]]]
    BY DEF Pipe!Todo
  <1>2. i \in DOMAIN listing /\ listing[i].hop \in {k, -1} /\ listing[i] \notin pipeSeen[k]
    BY DEF Pipe!New, Pipe!Mine
  <1>3. listing[i] \in DOMAIN content /\ listing[i] \in PipeNames /\ i \in Nat
    BY <1>2 DEF PipeInv, PipeBase, PipeStore
  <1>4. content[listing[i]] \in Bodies
    BY <1>3 DEF PipeInv, PipeBase, PipeStore
  <1> QED
    BY <1>1, <1>2, <1>3, <1>4

LEMMA ListBase ==
  ASSUME PipeRun, PipeInv, NEW k \in Pipe!Stages, Pipe!List(k)
  PROVE  PipeBase' /\ Pipe!Evicted'
  <1>1. /\ pipeTodo' = [pipeTodo EXCEPT ![k] = Pipe!Todo(k)]
        /\ listing' = listing /\ content' = content /\ pipePc' = pipePc /\ seg' = seg /\ got' = got
        /\ pipeSeen' = pipeSeen /\ ended' = ended /\ pipeCache' = pipeCache
        /\ lost' = lost /\ restarts' = restarts
    BY DEF Pipe!List, Pipe!store, Pipe!driver, Pipe!faults
  <1>2. PipeType /\ PipeStore /\ PipeTodo /\ Pipe!Evicted
    BY DEF PipeInv, PipeBase
  <1>3. PipeStore' /\ Pipe!Evicted'
    BY <1>1, <1>2 DEF PipeStore, Pipe!Evicted
  <1>4. PipeType'
    <2>1. ASSUME NEW t \in Pipe!Todo(k) PROVE t \in [at : Nat, name : PipeNames, body : Bodies]
      BY ONLY TodoIs, PipeInv, k \in Pipe!Stages, t \in Pipe!Todo(k)
    <2>2. pipeTodo' \in [Pipe!Stages -> SUBSET [at : Nat, name : PipeNames, body : Bodies]]
      BY <1>1, <1>2, <2>1 DEF PipeType
    <2> QED
      BY <1>1, <1>2, <2>2 DEF PipeType
  <1>5. PipeTodo'
    <2>1. SUFFICES ASSUME NEW j \in Pipe!Stages, NEW t \in pipeTodo'[j]
                   PROVE  t.name \notin pipeSeen[j] /\ \A u \in pipeTodo'[j] : u.name = t.name => u = t
      BY <1>1 DEF PipeTodo
    <2>2. CASE j # k
      <3>1. pipeTodo'[j] = pipeTodo[j]
        BY <1>1, <1>2, <2>2 DEF PipeType
      <3> QED
        BY <1>2, <2>1, <3>1 DEF PipeTodo
    <2>3. CASE j = k
      <3>1. pipeTodo'[j] = Pipe!Todo(k)
        BY <1>1, <1>2, <2>3 DEF PipeType
      <3>2. t.name \notin pipeSeen[j]
        BY <2>1, <2>3, <3>1, TodoIs
      <3>3. ASSUME NEW u \in Pipe!Todo(k), u.name = t.name PROVE u = t
        <4>1. t \in Pipe!Todo(k)
          BY <2>1, <3>1
        <4>2. /\ t.at \in DOMAIN listing /\ t.name = listing[t.at] /\ t.body = content[t.name]
              /\ t = [at |-> t.at, name |-> t.name, body |-> t.body]
          BY <4>1, TodoIs
        <4>3. /\ u.at \in DOMAIN listing /\ u.name = listing[u.at] /\ u.body = content[u.name]
              /\ u = [at |-> u.at, name |-> u.name, body |-> u.body]
          BY TodoIs
        <4>4. u.at = t.at
          BY <1>2, <3>3, <4>2, <4>3 DEF PipeStore
        <4> QED
          BY <3>3, <4>2, <4>3, <4>4
      <3> QED
        BY <3>1, <3>2, <3>3
    <2> QED
      BY <2>2, <2>3
  <1> QED
    BY <1>3, <1>4, <1>5 DEF PipeBase

LEMMA ListFlows ==
  ASSUME PipeRun, PipeInv, NEW k \in Pipe!Stages, Pipe!List(k), depth' = depth, NEW d \in Drivers, Flows(d)
  PROVE  Flows(d)'
  <1>1. /\ pipeTodo' = [pipeTodo EXCEPT ![k] = Pipe!Todo(k)]
        /\ listing' = listing /\ content' = content /\ pipePc' = pipePc /\ seg' = seg /\ got' = got
        /\ pipeSeen' = pipeSeen /\ ended' = ended /\ pipeCache' = pipeCache
        /\ lost' = lost /\ restarts' = restarts
    BY DEF Pipe!List, Pipe!store, Pipe!driver, Pipe!faults
  <1>2. /\ pipeTodo'[k] = Pipe!Todo(k)
        /\ \A j \in Pipe!Stages : j # k => pipeTodo'[j] = pipeTodo[j]
    BY <1>1 DEF PipeInv, PipeBase, PipeType
  <1>3. (\A h : WasSent(d, h)' <=> WasSent(d, h)) /\ \A j : Handled(d, j)' = Handled(d, j)
    BY <1>1 DEF WasSent, Handled
  <1>4. \A n, body : Message(d, n, body) => Message(d, n, body)'
    BY <1>1, <1>3 DEF Message
  <1>5. StoreOf(d)' /\ Ascending(d)' /\ AllPut(d)' /\ Answered(d)' /\ \A j \in Pipe!Stages : CacheOf(d, j)'
    <2>1. StoreOf(d)'
      BY <1>1, <1>4 DEF Flows, StoreOf, InStream
    <2>2. Ascending(d)'
      BY <1>1 DEF Flows, Ascending, InStream, Segment
    <2>3. AllPut(d)' /\ Answered(d)'
      BY <1>1, <1>3 DEF Flows, AllPut, Answered, Segment
    <2>4. \A j \in Pipe!Stages : CacheOf(d, j)'
      BY <1>1, <1>3 DEF Flows, CacheOf, Segment
    <2> QED
      BY <2>1, <2>2, <2>3, <2>4
  <1>6. TodoOf(d)'
    <2>1. SUFFICES ASSUME NEW j \in Pipe!Stages, NEW t \in pipeTodo'[j], InStream(d, t.name)
                   PROVE  Message(d, t.name, t.body)' /\ t.name.hop = j
      BY DEF TodoOf, InStream
    <2>2. CASE j # k
      BY <1>2, <1>4, <2>1, <2>2 DEF Flows, TodoOf
    <2>3. CASE j = k
      <3>1. t.name \in DOMAIN content /\ t.body = content[t.name] /\ t.name.hop \in {k, -1}
        BY <1>2, <2>1, <2>3, TodoIs
      <3>2. Message(d, t.name, t.body)
        BY <2>1, <3>1 DEF Flows, StoreOf
      <3>3. t.name.hop >= 0
        BY <3>2 DEF Message
      <3> QED
        BY <1>4, <2>3, <3>1, <3>2, <3>3
    <2> QED
      BY <2>2, <2>3
  <1>7. InTurn(d)'
    <2>1. SUFFICES ASSUME lost = 0, NEW j \in Pipe!Stages, NEW t \in pipeTodo'[j], NEW h \in Nat,
                          InStream(d, t.name), h < t.name.seg
                   PROVE  \/ h < Handled(d, j)
                          \/ \E u \in pipeTodo'[j] : u.name = Segment(d, h, j) /\ u.at < t.at
      BY <1>1, <1>3 DEF InTurn, InStream, Segment
    <2>2. CASE j # k
      BY <1>2, <2>1, <2>2 DEF Flows, InTurn
    <2>3. CASE j = k
      <3>1. t.at \in DOMAIN listing /\ t.name = listing[t.at]
        BY <1>2, <2>1, <2>3, TodoIs
      <3>2. t.name.hop = k
        BY <1>6, <2>1, <2>3 DEF TodoOf, InStream
      <3>3. PICK i \in DOMAIN listing : i < t.at /\ listing[i] = Segment(d, h, k)
        BY <2>1, <3>1, <3>2 DEF Flows, Ascending
      <3>4. CASE listing[i] \in pipeSeen[k]
        BY <2>1, <2>3, <3>3, <3>4 DEF Flows, CacheOf
      <3>5. CASE listing[i] \notin pipeSeen[k]
        <4>1. i \in Pipe!New(k)
          BY <3>3, <3>5, SegmentIs DEF Pipe!New, Pipe!Mine
        <4> DEFINE u == [at |-> i, name |-> listing[i], body |-> content[listing[i]]]
        <4>2. u \in Pipe!Todo(k)
          BY <4>1 DEF Pipe!Todo
        <4>3. u.name = Segment(d, h, k) /\ u.at < t.at
          BY <3>3
        <4> QED
          BY <1>2, <2>3, <4>2, <4>3
      <3> QED
        BY <3>4, <3>5
    <2> QED
      BY <2>2, <2>3
  <1> QED
    BY <1>5, <1>6, <1>7 DEF Flows

\* A stage that starts again has the streams of the store before it, in their order.
LEMMA RestartKeepsFlows ==
  ASSUME PipeRun, PipeInv, NEW k \in Pipe!Stages, Pipe!Restart(k), depth' = depth,
         lost = 0, NEW d \in Drivers, Flows(d)
  PROVE  Flows(d)'
  <1>1. /\ pipeTodo' = [pipeTodo EXCEPT ![k] = {}] /\ pipeSeen' = [pipeSeen EXCEPT ![k] = {}]
        /\ ended' = [ended EXCEPT ![k] = {}]
        /\ pipeCache' = [pipeCache EXCEPT ![k] = [s \in Streams |-> <<>>]]
        /\ listing' = listing /\ content' = content /\ pipePc' = pipePc /\ seg' = seg
        /\ lost' = lost /\ restarts' = restarts + 1
    BY DEF Pipe!Restart, Pipe!StartsWith, Pipe!store, Pipe!driver
  <1>2. PipeType /\ StreamOf[d] \in Streams
    BY DEF PipeInv, PipeBase, PipeRun
  <1>3. /\ pipeTodo'[k] = {} /\ pipeSeen'[k] = {} /\ ended'[k] = {} /\ pipeCache'[k][StreamOf[d]] = <<>>
        /\ \A j \in Pipe!Stages : j # k => /\ pipeTodo'[j] = pipeTodo[j] /\ pipeSeen'[j] = pipeSeen[j]
                                           /\ ended'[j] = ended[j] /\ pipeCache'[j] = pipeCache[j]
    BY <1>1, <1>2 DEF PipeType
  <1>4. /\ \A h : WasSent(d, h)' <=> WasSent(d, h)
        /\ Handled(d, k)' = 0 /\ \A j \in Pipe!Stages : j # k => Handled(d, j)' = Handled(d, j)
        /\ restarts' # 0
    BY <1>1, <1>2, <1>3 DEF WasSent, Handled, PipeType
  <1>5. \A n, body : Message(d, n, body) => Message(d, n, body)'
    BY <1>1, <1>4 DEF Message
  <1>6. StoreOf(d)' /\ Ascending(d)' /\ Answered(d)'
    BY <1>1, <1>4, <1>5 DEF Flows, StoreOf, Ascending, Answered, InStream, Segment
  <1>7. TodoOf(d)' /\ InTurn(d)'
    <2>1. TodoOf(d)'
      BY <1>1, <1>3, <1>5 DEF Flows, TodoOf, InStream
    <2>2. SUFFICES ASSUME NEW j \in Pipe!Stages, NEW t \in pipeTodo'[j], NEW h \in Nat,
                          InStream(d, t.name), h < t.name.seg
                   PROVE  \/ h < Handled(d, j)'
                          \/ \E u \in pipeTodo'[j] : u.name = Segment(d, h, j) /\ u.at < t.at
      BY <2>1 DEF InTurn, InStream, Segment
    <2>3. j # k
      BY <1>3, <2>2
    <2> QED
      BY <1>3, <1>4, <2>2, <2>3 DEF Flows, InTurn
  <1>8. ASSUME NEW j \in Pipe!Stages PROVE CacheOf(d, j)'
    <2>1. CASE j = k
      BY <1>3, <1>4, <2>1 DEF CacheOf, Segment
    <2>2. CASE j # k
      BY <1>3, <1>4, <2>2 DEF Flows, CacheOf, Segment
    <2> QED
      BY <2>1, <2>2
  <1>9. AllPut(d)'
    <2>1. SUFFICES ASSUME NEW j \in Pipe!Stages, NEW h \in Nat, h < Handled(d, j)'
                   PROVE  Segment(d, h, j + 1) \in DOMAIN content
      BY <1>1, <1>4 DEF Flows, AllPut, Segment
    <2>2. j # k
      BY <1>4, <2>1
    <2> QED
      BY <1>4, <2>1, <2>2 DEF Flows, AllPut
  <1> QED
    BY <1>6, <1>7, <1>8, <1>9 DEF Flows

LEMMA RestartBase ==
  ASSUME PipeRun, PipeInv, NEW k \in Pipe!Stages, Pipe!Restart(k)
  PROVE  PipeBase' /\ Pipe!Evicted'
  <1>1. /\ pipeTodo' = [pipeTodo EXCEPT ![k] = {}] /\ pipeSeen' = [pipeSeen EXCEPT ![k] = {}]
        /\ ended' = [ended EXCEPT ![k] = {}]
        /\ pipeCache' = [pipeCache EXCEPT ![k] = [s \in Streams |-> <<>>]]
        /\ listing' = listing /\ content' = content /\ pipePc' = pipePc /\ seg' = seg /\ got' = got
        /\ lost' = lost /\ restarts' = restarts + 1
    BY DEF Pipe!Restart, Pipe!StartsWith, Pipe!store, Pipe!driver
  <1>2. PipeType /\ PipeStore /\ PipeTodo /\ Pipe!Evicted
    BY DEF PipeInv, PipeBase
  <1>3. PipeType' /\ PipeStore'
    BY <1>1, <1>2 DEF PipeType, PipeStore
  <1>4. PipeTodo' /\ Pipe!Evicted'
    BY <1>1, <1>2 DEF PipeType, PipeTodo, Pipe!Evicted
  <1> QED
    BY <1>3, <1>4 DEF PipeBase

\* A sequence without its element i.
LeavesOut(r, q, i, S) ==
  /\ r \in Seq(S) /\ DOMAIN r = 1 .. Len(q) - 1
  /\ \A j \in DOMAIN r : r[j] = IF j < i THEN q[j] ELSE q[j + 1]
LEMMA Without ==
  ASSUME NEW S, NEW q \in Seq(S), NEW i \in DOMAIN q,
         NEW r, r = SubSeq(q, 1, i - 1) \o SubSeq(q, i + 1, Len(q))
  PROVE  LeavesOut(r, q, i, S)
  <1> DEFINE a == SubSeq(q, 1, i - 1)
             b == SubSeq(q, i + 1, Len(q))
  <1>1. Len(q) \in Nat /\ DOMAIN q = 1 .. Len(q) /\ i \in 1 .. Len(q)
    OBVIOUS
  <1>2. a \in Seq(S) /\ Len(a) = i - 1 /\ \A j \in 1 .. i - 1 : a[j] = q[j]
    BY <1>1
  <1>3. b \in Seq(S) /\ Len(b) = Len(q) - i /\ \A j \in 1 .. Len(q) - i : b[j] = q[i + j]
    <2>1. b \in Seq(S) /\ Len(b) = Len(q) - i
      BY <1>1
    <2>2. ASSUME NEW j \in 1 .. Len(q) - i PROVE b[j] = q[i + j]
      <3>1. (i + 1) + j - 1 = i + j /\ j \in 1 .. Len(q) - (i + 1) + 1
        BY <1>1
      <3> QED
        BY <1>1, <3>1
    <2> QED
      BY <2>1, <2>2
  <1>4. r = a \o b
    OBVIOUS
  <1> HIDE DEF a, b
  <1>5. r \in Seq(S) /\ Len(r) = Len(q) - 1 /\ DOMAIN r = 1 .. Len(q) - 1
    <2>1. r \in Seq(S) /\ Len(r) = Len(a) + Len(b)
      <3>1. a \in Seq(S) /\ b \in Seq(S)
        BY ONLY <1>2, <1>3
      <3>2. a \o b \in Seq(S) /\ Len(a \o b) = Len(a) + Len(b)
        BY ONLY <3>1
      <3> QED
        BY ONLY <1>4, <3>2
    <2>2. Len(a) + Len(b) = Len(q) - 1
      BY ONLY <1>1, <1>2, <1>3
    <2> QED
      BY ONLY <2>1, <2>2
  <1>6. ASSUME NEW j \in 1 .. Len(q) - 1 PROVE r[j] = IF j < i THEN q[j] ELSE q[j + 1]
    <2>1. r[j] = IF j <= i - 1 THEN a[j] ELSE b[j - (i - 1)]
      BY ONLY <1>1, <1>2, <1>3, <1>4, <1>6
    <2>2. CASE j <= i - 1
      BY ONLY <1>1, <1>2, <1>6, <2>1, <2>2
    <2>3. CASE ~(j <= i - 1)
      <3>1. j - (i - 1) \in 1 .. Len(q) - i /\ i + (j - (i - 1)) = j + 1 /\ ~(j < i)
        BY ONLY <1>1, <1>6, <2>3
      <3> QED
        BY ONLY <1>3, <2>1, <2>3, <3>1
    <2> QED
      BY ONLY <2>2, <2>3
  <1> QED
    BY ONLY <1>5, <1>6 DEF LeavesOut

\* A name that is lost: no stage has started again, and every stage has handled what was
\* before the segment that it meets next.
LEMMA LoseKeeps ==
  ASSUME PipeRun, PipeInv, Pipe!Lose
  PROVE  PipeBase' /\ Pipe!Evicted'
  <1>1. PICK i \in DOMAIN listing :
           /\ listing' = SubSeq(listing, 1, i - 1) \o SubSeq(listing, i + 1, Len(listing))
           /\ content' = [n \in DOMAIN content \ {listing[i]} |-> content[n]]
    BY DEF Pipe!Lose
  <1>2. /\ pipeTodo' = pipeTodo /\ pipeSeen' = pipeSeen /\ ended' = ended /\ pipeCache' = pipeCache
        /\ pipePc' = pipePc /\ seg' = seg /\ got' = got /\ lost' = lost + 1 /\ restarts' = restarts
    BY DEF Pipe!Lose, Pipe!driver, Pipe!stage
  <1>3. PipeType /\ PipeStore /\ PipeTodo /\ Pipe!Evicted
    BY DEF PipeInv, PipeBase
  <1>4. PipeType' /\ PipeTodo' /\ Pipe!Evicted'
    BY <1>2, <1>3 DEF PipeType, PipeTodo, Pipe!Evicted
  <1>5. PipeStore'
    <2>1. /\ listing \in Seq(PipeNames) /\ DOMAIN content = {listing[j] : j \in DOMAIN listing}
          /\ \A a, b \in DOMAIN listing : listing[a] = listing[b] => a = b
          /\ content \in [DOMAIN content -> Bodies]
      BY <1>3 DEF PipeStore
    <2> HIDE DEF PipeNames, Bodies
    <2>2. /\ listing' \in Seq(PipeNames) /\ DOMAIN listing = 1 .. Len(listing) /\ Len(listing) \in Nat
          /\ DOMAIN listing' = 1 .. Len(listing) - 1
          /\ \A j \in DOMAIN listing' : listing'[j] = IF j < i THEN listing[j] ELSE listing[j + 1]
      <3>1. PICK q, r : q = listing /\ r = listing'
        OBVIOUS
      <3>2. /\ q \in Seq(PipeNames) /\ i \in DOMAIN q
            /\ r = SubSeq(q, 1, i - 1) \o SubSeq(q, i + 1, Len(q))
        BY ONLY <1>1, <2>1, <3>1
      <3>3. LeavesOut(r, q, i, PipeNames)
        BY ONLY <3>2, Without
      <3>4. DOMAIN q = 1 .. Len(q) /\ Len(q) \in Nat
        BY ONLY <3>2
      <3> QED
        BY ONLY <3>1, <3>3, <3>4 DEF LeavesOut
    <2>3. \A a, b \in DOMAIN listing' : listing'[a] = listing'[b] => a = b
      BY <2>1, <2>2
    <2>4. DOMAIN content' = {listing'[j] : j \in DOMAIN listing'}
      <3>1. ASSUME NEW j \in DOMAIN listing' PROVE listing'[j] \in DOMAIN content \ {listing[i]}
        BY <2>1, <2>2
      <3>2. ASSUME NEW n \in DOMAIN content \ {listing[i]} PROVE \E j \in DOMAIN listing' : listing'[j] = n
        <4>1. PICK l \in DOMAIN listing : listing[l] = n
          BY <2>1
        <4>2. CASE l < i
          BY <2>2, <4>1, <4>2
        <4>3. CASE l > i
          <5>1. l - 1 \in DOMAIN listing' /\ listing'[l - 1] = listing[l]
            BY <2>2, <4>3
          <5> QED
            BY <4>1, <5>1
        <4> QED
          BY <2>2, <4>1, <4>2, <4>3
      <3>3. DOMAIN content' = DOMAIN content \ {listing[i]}
        BY <1>1
      <3> QED
        BY <3>1, <3>2, <3>3
    <2>5. content' \in [DOMAIN content' -> Bodies]
      BY <1>1, <2>1
    <2> QED
      BY <2>2, <2>3, <2>4, <2>5 DEF PipeStore
  <1> QED
    BY <1>4, <1>5 DEF PipeBase

LEMMA LoseFlows ==
  ASSUME PipeRun, PipeInv, Pipe!Lose, depth' = depth, NEW d \in Drivers, Flows(d)
  PROVE  Flows(d)'
  <1>1. /\ DOMAIN content' \subseteq DOMAIN content
        /\ \A n \in DOMAIN content' : content'[n] = content[n]
    BY DEF Pipe!Lose
  <1>2. /\ pipeTodo' = pipeTodo /\ pipeSeen' = pipeSeen /\ ended' = ended /\ pipeCache' = pipeCache
        /\ pipePc' = pipePc /\ seg' = seg /\ lost' # 0 /\ restarts' = restarts
    BY DEF Pipe!Lose, Pipe!driver, Pipe!stage, PipeInv, PipeBase, PipeType
  <1>3. (\A h : WasSent(d, h)' <=> WasSent(d, h)) /\ \A k : Handled(d, k)' = Handled(d, k)
    BY <1>2 DEF WasSent, Handled
  <1>4. \A n, body : Message(d, n, body) => Message(d, n, body)'
    BY <1>2, <1>3 DEF Message
  <1>5. StoreOf(d)' /\ TodoOf(d)'
    BY <1>1, <1>2, <1>4 DEF Flows, StoreOf, TodoOf, InStream
  <1>6. \A k \in Pipe!Stages : CacheOf(d, k)'
    BY <1>2, <1>3 DEF Flows, CacheOf, Segment
  <1>7. InTurn(d)' /\ Ascending(d)' /\ AllPut(d)'
    BY <1>2 DEF InTurn, Ascending, AllPut
  <1>8. Answered(d)'
    BY <1>2, <1>3 DEF Flows, Answered
  <1> QED
    BY <1>5, <1>6, <1>7, <1>8 DEF Flows

\* What a stage forwards of one of its names.
Forwarded(k, t) ==
  [t.name EXCEPT !.hop = k + 1]
Forwards(k, t) ==
  /\ t.name.hop = k /\ t.name.stream \notin ended[k]
  /\ Pipe!Put(Forwarded(k, t), Pipe!Forward(pipeCache[k][t.name.stream], t.body))
  /\ pipeCache' = [pipeCache EXCEPT ![k][t.name.stream] = Append(@, t.body)]
  /\ ended' = ended
Skips(k, t) ==
  /\ t.name.hop = k /\ t.name.stream \in ended[k]
  /\ listing' = listing /\ content' = content /\ ended' = ended /\ pipeCache' = pipeCache
Evicts(k, t) ==
  /\ t.name.hop = -1
  /\ ended' = [ended EXCEPT ![k] = @ \cup {t.name.stream}]
  /\ pipeCache' = [pipeCache EXCEPT ![k][t.name.stream] = <<>>]
  /\ listing' = listing /\ content' = content

Handles(k, t) ==
  /\ t \in pipeTodo[k] /\ \A u \in pipeTodo[k] : t.at <= u.at
  /\ pipeTodo' = [pipeTodo EXCEPT ![k] = @ \ {t}]
  /\ pipeSeen' = [pipeSeen EXCEPT ![k] = @ \cup {t.name}]
  /\ Evicts(k, t) \/ Skips(k, t) \/ Forwards(k, t)
  /\ pipePc' = pipePc /\ seg' = seg /\ got' = got /\ lost' = lost /\ restarts' = restarts

LEMMA HandleIs ==
  ASSUME PipeRun, PipeType, NEW k \in Pipe!Stages, Pipe!Handle(k)
  PROVE  \E t \in pipeTodo[k] :
           /\ Handles(k, t)
           /\ t.at \in Nat /\ t.name \in PipeNames /\ t.body \in Bodies
           /\ t.name.stream \in Streams /\ t.name.seg \in Nat
           /\ Forwarded(k, t) \in PipeNames /\ Forwarded(k, t) = Pipe!Name(t.name.stream, t.name.seg, k + 1)
           /\ Pipe!Forward(pipeCache[k][t.name.stream], t.body) \in Bodies
  <1>1. PICK t \in pipeTodo[k] :
          /\ Pipe!First(t, k)
          /\ pipeTodo' = [pipeTodo EXCEPT ![k] = @ \ {t}]
          /\ pipeSeen' = [pipeSeen EXCEPT ![k] = @ \cup {t.name}]
          /\ \/ /\ t.name.hop = -1
                /\ ended' = [ended EXCEPT ![k] = @ \cup {t.name.stream}]
                /\ pipeCache' = [pipeCache EXCEPT ![k][t.name.stream] = <<>>]
                /\ UNCHANGED Pipe!store
             \/ /\ t.name.hop = k /\ ~Pipe!Live(k, t.name.stream)
                /\ UNCHANGED <<Pipe!store, ended, pipeCache>>
             \/ /\ t.name.hop = k /\ Pipe!Live(k, t.name.stream)
                /\ Pipe!Put([t.name EXCEPT !.hop = k + 1],
                            Pipe!Forward(pipeCache[k][Pipe!CacheOf(k, t.name.stream)], t.body))
                /\ pipeCache' = [pipeCache EXCEPT ![k][Pipe!CacheOf(k, t.name.stream)] = Append(@, t.body)]
                /\ UNCHANGED ended
    BY DEF Pipe!Handle
  <1>2. pipePc' = pipePc /\ seg' = seg /\ got' = got /\ lost' = lost /\ restarts' = restarts
    BY DEF Pipe!Handle, Pipe!driver, Pipe!faults
  <1>3. \A u \in pipeTodo[k] : t.at <= u.at
    BY <1>1 DEF Pipe!First, PipeRun
  <1>4. Evicts(k, t) \/ Skips(k, t) \/ Forwards(k, t)
    BY <1>1 DEF Evicts, Skips, Forwards, Forwarded, Pipe!Live, Pipe!CacheOf, Pipe!store
  <1>5. t.at \in Nat /\ t.name \in PipeNames /\ t.body \in Bodies
    BY DEF PipeType
  <1>6. /\ t.name.stream \in Streams /\ t.name.seg \in Nat
        /\ Forwarded(k, t) \in PipeNames /\ Forwarded(k, t) = Pipe!Name(t.name.stream, t.name.seg, k + 1)
    BY <1>5, StageIsNat DEF PipeNames, Forwarded, Pipe!Name
  <1>7. Pipe!Forward(pipeCache[k][t.name.stream], t.body) \in Bodies
    <2>1. \A q : Pipe!Forward(q, t.body) = t.body \/ Pipe!Forward(q, t.body) = Wrong
      BY DEF Pipe!Forward
    <2>2. t.body \in Bodies /\ Wrong \in Bodies
      BY <1>5 DEF Bodies
    <2> QED
      BY <2>1, <2>2
  <1> QED
    BY <1>1, <1>2, <1>3, <1>4, <1>5, <1>6, <1>7 DEF Handles

LEMMA HandleBase ==
  ASSUME PipeRun, PipeInv, NEW k \in Pipe!Stages, Pipe!Handle(k)
  PROVE  PipeBase' /\ Pipe!Evicted'
  <1>1. PipeType /\ PipeStore /\ PipeTodo /\ Pipe!Evicted
    BY DEF PipeInv, PipeBase
  <1>2. PICK t \in pipeTodo[k] :
           /\ Handles(k, t)
           /\ t.at \in Nat /\ t.name \in PipeNames /\ t.body \in Bodies
           /\ t.name.stream \in Streams /\ t.name.seg \in Nat
           /\ Forwarded(k, t) \in PipeNames
           /\ Pipe!Forward(pipeCache[k][t.name.stream], t.body) \in Bodies
    BY <1>1, HandleIs
  <1>3. /\ pipeTodo' = [pipeTodo EXCEPT ![k] = @ \ {t}]
        /\ pipeSeen' = [pipeSeen EXCEPT ![k] = @ \cup {t.name}]
        /\ Evicts(k, t) \/ Skips(k, t) \/ Forwards(k, t)
        /\ pipePc' = pipePc /\ seg' = seg /\ got' = got /\ lost' = lost /\ restarts' = restarts
    BY <1>2 DEF Handles
  <1> DEFINE r == t.name.stream
  <1>4. PipeStore'
    <2>1. CASE Forwards(k, t)
      BY <1>1, <1>2, <2>1, PutKeepsStore DEF Forwards
    <2>2. CASE Evicts(k, t) \/ Skips(k, t)
      BY <1>1, <2>2 DEF Evicts, Skips, PipeStore
    <2> QED
      BY <1>3, <2>1, <2>2
  <1>5. PipeTodo'
    <2>1. SUFFICES ASSUME NEW j \in Pipe!Stages, NEW u \in pipeTodo'[j]
                   PROVE  u.name \notin pipeSeen'[j] /\ \A v \in pipeTodo'[j] : v.name = u.name => v = u
      BY DEF PipeTodo
    <2>2. pipeTodo'[j] \subseteq pipeTodo[j] /\ \A v \in pipeTodo[j] : v.name = u.name => v = u
      BY <1>1, <1>3, <2>1 DEF PipeType, PipeTodo
    <2>3. u.name \notin pipeSeen[j]
      BY <1>1, <2>1, <2>2 DEF PipeTodo
    <2>4. CASE j = k
      <3>1. u # t /\ pipeSeen'[j] = pipeSeen[j] \cup {t.name}
        BY <1>1, <1>3, <2>1, <2>4 DEF PipeType
      <3>2. u.name # t.name
        BY <2>2, <2>4, <3>1
      <3> QED
        BY <2>2, <2>3, <3>1, <3>2
    <2>5. CASE j # k
      <3>1. pipeSeen'[j] = pipeSeen[j]
        BY <1>1, <1>3, <2>5 DEF PipeType
      <3> QED
        BY <2>2, <2>3, <3>1
    <2> QED
      BY <2>4, <2>5
  <1>6. /\ ended' \in [Pipe!Stages -> SUBSET Streams] /\ pipeCache' \in [Pipe!Stages -> [Streams -> Seq(Bodies)]]
        /\ \A j \in Pipe!Stages : \A s \in ended'[j] : pipeCache'[j][s] = <<>>
    <2>1. /\ ended \in [Pipe!Stages -> SUBSET Streams] /\ pipeCache \in [Pipe!Stages -> [Streams -> Seq(Bodies)]]
          /\ \A j \in Pipe!Stages : \A s \in ended[j] : pipeCache[j][s] = <<>>
      BY <1>1 DEF PipeType, Pipe!Evicted
    <2>2. r \in Streams /\ t.body \in Bodies
      BY <1>2
    <2> HIDE DEF r, Bodies
    <2>3. CASE Evicts(k, t)
      <3>1. /\ ended' = [ended EXCEPT ![k] = @ \cup {r}]
            /\ pipeCache' = [pipeCache EXCEPT ![k] = [pipeCache[k] EXCEPT ![r] = <<>>]]
        BY <2>3 DEF Evicts, r
      <3>2. [pipeCache[k] EXCEPT ![r] = <<>>] \in [Streams -> Seq(Bodies)]
        BY <2>1, <2>2
      <3>3. pipeCache'[k] = [pipeCache[k] EXCEPT ![r] = <<>>] /\ ended'[k] = ended[k] \cup {r}
        BY <2>1, <3>1
      <3>4. \A j \in Pipe!Stages : j # k => pipeCache'[j] = pipeCache[j] /\ ended'[j] = ended[j]
        BY <2>1, <3>1
      <3>5. \A s \in ended'[k] : pipeCache'[k][s] = <<>>
        BY <2>1, <2>2, <3>3
      <3> QED
        BY <2>1, <2>2, <3>1, <3>2, <3>4, <3>5
    <2>4. CASE Skips(k, t)
      BY <2>1, <2>4 DEF Skips
    <2>5. CASE Forwards(k, t)
      <3>1. /\ ended' = ended /\ r \notin ended[k]
            /\ pipeCache' = [pipeCache EXCEPT ![k] = [pipeCache[k] EXCEPT ![r] = Append(pipeCache[k][r], t.body)]]
        BY <2>5 DEF Forwards, r
      <3>2. Append(pipeCache[k][r], t.body) \in Seq(Bodies)
        BY <2>1, <2>2
      <3>3. [pipeCache[k] EXCEPT ![r] = Append(pipeCache[k][r], t.body)] \in [Streams -> Seq(Bodies)]
        BY <2>1, <2>2, <3>2
      <3>4. /\ pipeCache'[k] = [pipeCache[k] EXCEPT ![r] = Append(pipeCache[k][r], t.body)]
            /\ \A j \in Pipe!Stages : j # k => pipeCache'[j] = pipeCache[j]
        BY <2>1, <3>1
      <3>5. \A s \in ended[k] : pipeCache'[k][s] = <<>>
        BY <2>1, <3>1, <3>4
      <3> QED
        BY <2>1, <2>2, <3>1, <3>3, <3>4, <3>5
    <2> QED
      BY <1>3, <2>3, <2>4, <2>5
  <1>7. PipeType'
    <2>1. /\ pipeTodo' \in [Pipe!Stages -> SUBSET [at : Nat, name : PipeNames, body : Bodies]]
          /\ pipeSeen' \in [Pipe!Stages -> SUBSET PipeNames]
      BY <1>1, <1>2, <1>3 DEF PipeType
    <2> QED
      BY <1>1, <1>3, <1>6, <2>1 DEF PipeType
  <1> QED
    BY <1>4, <1>5, <1>6, <1>7 DEF PipeBase, Pipe!Evicted

\* A name of another stream.
LEMMA HandleBeside ==
  ASSUME PipeRun, PipeInv, NEW k \in Pipe!Stages, depth' = depth, NEW d \in Drivers,
         NEW t \in pipeTodo[k], Handles(k, t), ~InStream(d, t.name),
         t.name.stream \in Streams, t.name.seg \in Nat,
         Forwarded(k, t) \in PipeNames, Forwarded(k, t) = Pipe!Name(t.name.stream, t.name.seg, k + 1),
         Pipe!Forward(pipeCache[k][t.name.stream], t.body) \in Bodies
  PROVE  Beside(d)
  <1>1. PipeType /\ PipeStore
    BY DEF PipeInv, PipeBase
  <1>2. /\ \A n : InStream(d, n) =>
             (n \in DOMAIN content' <=> n \in DOMAIN content) /\ (n \in DOMAIN content => content'[n] = content[n])
        /\ \A i \in DOMAIN listing : i \in DOMAIN listing' /\ listing'[i] = listing[i]
        /\ \A i \in DOMAIN listing' : InStream(d, listing'[i]) => i \in DOMAIN listing
    <2>1. CASE Forwards(k, t)
      <3>1. ~InStream(d, Forwarded(k, t))
        BY DEF InStream, Pipe!Name
      <3> QED
        BY <1>1, <2>1, <3>1, PutBeside DEF Forwards
    <2>2. CASE listing' = listing /\ content' = content
      BY <2>2
    <2> QED
      BY <2>1, <2>2 DEF Handles, Evicts, Skips
  <1>3. /\ pipePc' = pipePc /\ seg' = seg /\ lost' = lost /\ restarts' = restarts
        /\ pipeTodo' = [pipeTodo EXCEPT ![k] = @ \ {t}] /\ pipeSeen' = [pipeSeen EXCEPT ![k] = @ \cup {t.name}]
    BY DEF Handles
  <1>4. ASSUME NEW j \in Pipe!Stages
        PROVE  /\ pipeCache'[j][StreamOf[d]] = pipeCache[j][StreamOf[d]]
               /\ StreamOf[d] \in ended'[j] => StreamOf[d] \in ended[j]
    <2> DEFINE r == t.name.stream
    <2>1. /\ r # StreamOf[d] /\ StreamOf[d] \in Streams /\ r \in Streams
          /\ pipeCache \in [Pipe!Stages -> [Streams -> Seq(Bodies)]] /\ ended \in [Pipe!Stages -> SUBSET Streams]
      BY <1>1 DEF PipeType, InStream, PipeRun
    <2>2. /\ pipeCache' = pipeCache \/ \E q : pipeCache' = [pipeCache EXCEPT ![k] = [pipeCache[k] EXCEPT ![r] = q]]
          /\ ended' = ended \/ ended' = [ended EXCEPT ![k] = ended[k] \cup {r}]
      BY DEF Handles, Evicts, Skips, Forwards
    <2> HIDE DEF r, Bodies
    <2>3. pipeCache'[j][StreamOf[d]] = pipeCache[j][StreamOf[d]]
      <3>1. ASSUME NEW q, pipeCache' = [pipeCache EXCEPT ![k] = [pipeCache[k] EXCEPT ![r] = q]]
            PROVE  pipeCache'[j][StreamOf[d]] = pipeCache[j][StreamOf[d]]
        <4>1. [pipeCache[k] EXCEPT ![r] = q][StreamOf[d]] = pipeCache[k][StreamOf[d]]
          BY <2>1
        <4>2. pipeCache'[j] = IF j = k THEN [pipeCache[k] EXCEPT ![r] = q] ELSE pipeCache[j]
          BY <2>1, <3>1
        <4> QED
          BY <4>1, <4>2
      <3> QED
        BY <2>2, <3>1
    <2>4. StreamOf[d] \in ended'[j] => StreamOf[d] \in ended[j]
      <3>1. ended'[j] = ended[j] \/ ended'[j] = ended[j] \cup {r}
        BY <2>1, <2>2
      <3> QED
        BY <2>1, <3>1
    <2> QED
      BY <2>3, <2>4
  <1>5. ASSUME NEW j \in Pipe!Stages
        PROVE  /\ \A n : InStream(d, n) => (n \in pipeSeen'[j] <=> n \in pipeSeen[j])
               /\ \A u : InStream(d, u.name) => (u \in pipeTodo'[j] <=> u \in pipeTodo[j])
    BY <1>1, <1>3 DEF PipeType
  <1> QED
    BY <1>2, <1>3, <1>4, <1>5 DEF Beside

\* The next segment of the text: the stage has handled those before it, no others, and
\* forwards it.
LEMMA NextSegment ==
  ASSUME PipeRun, PipeInv, Calm, NEW k \in Pipe!Stages, k < depth, NEW d \in Drivers, Flows(d),
         NEW t \in pipeTodo[k], Handles(k, t), InStream(d, t.name),
         t.name.seg \in Nat, t.name = Segment(d, t.name.seg, k)
  PROVE  /\ t.name.seg = Handled(d, k) /\ t.body = Pipe!Own(d, t.name.seg)
         /\ Pipe!Forward(pipeCache[k][t.name.stream], t.body) = t.body
  <1> DEFINE h == t.name.seg
             c == Handled(d, k)
  <1>1. PipeType /\ PipeTodo /\ StreamOf[d] \in Streams
    BY DEF PipeInv, PipeBase, PipeRun
  <1>2. /\ pipeCache[k][StreamOf[d]] \in Seq(Bodies) /\ c \in Nat
    <2>1. pipeCache[k][StreamOf[d]] \in Seq(Bodies)
      BY <1>1 DEF PipeType
    <2> QED
      BY <2>1 DEF Handled
  <1>3. Message(d, t.name, t.body)
    BY DEF Flows, TodoOf
  <1>4. h >= c
    <2>1. t.name \notin pipeSeen[k]
      BY <1>1 DEF PipeTodo
    <2>2. Segment(d, h, k) \in pipeSeen[k] <=> h < c
      BY DEF Flows, CacheOf
    <2> QED
      BY <1>2, <2>1, <2>2
  <1>5. ASSUME h > c PROVE FALSE
    <2>1. CASE lost = 0
      <3>1. \/ c < Handled(d, k)
            \/ \E u \in pipeTodo[k] : u.name = Segment(d, c, k) /\ u.at < t.at
        BY <1>2, <1>5, <2>1 DEF Flows, InTurn
      <3>2. \A u \in pipeTodo[k] : t.at <= u.at /\ u.at \in Nat /\ t.at \in Nat
        BY <1>1 DEF Handles, PipeType
      <3> QED
        BY <1>2, <3>1, <3>2
    <2>2. CASE restarts = 0
      <3>1. c < seg[d] /\ c \in Nat
        BY <1>1, <1>2, <1>3, <1>5 DEF Message, WasSent, PipeType
      <3>2. c < Handled(d, k)
        BY <2>2, <3>1 DEF Flows, Answered
      <3> QED
        BY <1>2, <3>2
    <2> QED
      BY <2>1, <2>2 DEF Calm
  <1>6. h = c
    BY <1>2, <1>4, <1>5
  <1>7. t.body = Pipe!Own(d, h)
    BY <1>3 DEF Message
  <1>8. Pipe!Forward(pipeCache[k][t.name.stream], t.body) = t.body
    <2>1. t.name.stream = StreamOf[d] /\ t.body.seg = h /\ \A i : [t.body EXCEPT !.seg = i] = Pipe!Own(d, i)
      BY <1>7 DEF InStream, Pipe!Own
    <2>2. /\ Len(pipeCache[k][StreamOf[d]]) = h
          /\ \A i \in 1 .. h : pipeCache[k][StreamOf[d]][i] = Pipe!Own(d, i - 1)
      BY <1>6 DEF Flows, CacheOf, Handled
    <2> HIDE DEF h, c, Bodies
    <2>3. pipeCache[k][StreamOf[d]] = [i \in 1 .. h |-> Pipe!Own(d, i - 1)]
      <3>1. DOMAIN pipeCache[k][StreamOf[d]] = 1 .. h
        BY <1>2, <2>2
      <3>2. pipeCache[k][StreamOf[d]] = [i \in DOMAIN pipeCache[k][StreamOf[d]] |-> pipeCache[k][StreamOf[d]][i]]
        BY <1>2
      <3> QED
        BY <2>2, <3>1, <3>2
    <2>4. pipeCache[k][t.name.stream] = [i \in 1 .. t.body.seg |-> [t.body EXCEPT !.seg = i - 1]]
      BY <2>1, <2>3
    <2> QED
      BY <2>4 DEF Pipe!Forward
  <1> QED
    BY <1>6, <1>7, <1>8

LEMMA HandleFlows ==
  ASSUME PipeRun, PipeInv, Calm, NEW k \in Pipe!Stages, k < depth, depth' = depth, NEW d \in Drivers, Flows(d),
         NEW t \in pipeTodo[k], Handles(k, t), InStream(d, t.name),
         t.name \in PipeNames, t.body \in Bodies, t.name.stream \in Streams, t.name.seg \in Nat,
         Forwarded(k, t) \in PipeNames, Forwarded(k, t) = Pipe!Name(t.name.stream, t.name.seg, k + 1),
         Pipe!Forward(pipeCache[k][t.name.stream], t.body) \in Bodies
  PROVE  Flows(d)'
  <1> DEFINE h == t.name.seg
             new == Segment(d, h, k + 1)
  <1>1. PipeType /\ PipeStore /\ PipeTodo /\ StreamOf[d] \in Streams /\ k \in Nat
    BY StageIsNat DEF PipeInv, PipeBase, PipeRun
  <1>2. /\ Message(d, t.name, t.body) /\ t.name.hop = k /\ t.name.stream = StreamOf[d]
        /\ StreamOf[d] \notin ended[k]
    BY DEF Flows, TodoOf, CacheOf, InStream
  <1>3. t.name = Segment(d, h, k)
    BY <1>2 DEF PipeNames, Segment, Pipe!Name
  <1>4. /\ h = Handled(d, k) /\ t.body = Pipe!Own(d, h)
        /\ Pipe!Forward(pipeCache[k][t.name.stream], t.body) = t.body
    BY <1>3, NextSegment
  <1>5. Forwards(k, t)
    BY <1>1, <1>2 DEF Handles, Evicts, Skips
  <1>6. /\ Pipe!Put(new, t.body) /\ new \in PipeNames
    BY <1>2, <1>4, <1>5 DEF Forwards, Segment
  <1>7. /\ DOMAIN content' = DOMAIN content \cup {new} /\ content'[new] = t.body
        /\ \A n \in DOMAIN content : n # new => content'[n] = content[n]
        /\ DOMAIN listing = 1 .. Len(listing) /\ DOMAIN listing' = 1 .. Len(listing')
        /\ Len(listing) \in Nat /\ Len(listing') \in Nat /\ Len(listing) <= Len(listing')
        /\ \A i \in DOMAIN listing : listing'[i] = listing[i]
        /\ \A i \in DOMAIN listing' :
             i \notin DOMAIN listing => i = Len(listing) + 1 /\ listing'[i] = new /\ new \notin DOMAIN content
    <2> HIDE DEF new
    <2> QED
      BY <1>1, <1>6, PutIs
  <1>8. /\ pipeTodo'[k] = pipeTodo[k] \ {t} /\ \A j \in Pipe!Stages : j # k => pipeTodo'[j] = pipeTodo[j]
        /\ pipeSeen'[k] = pipeSeen[k] \cup {t.name}
        /\ \A j \in Pipe!Stages : j # k => pipeSeen'[j] = pipeSeen[j]
        /\ ended' = ended /\ pipePc' = pipePc /\ seg' = seg /\ lost' = lost /\ restarts' = restarts
    BY <1>1, <1>5 DEF Handles, Forwards, PipeType
  <1>9. /\ pipeCache'[k][StreamOf[d]] = Append(pipeCache[k][StreamOf[d]], t.body)
        /\ \A j \in Pipe!Stages : j # k => pipeCache'[j] = pipeCache[j]
        /\ \A j \in Pipe!Stages : pipeCache[j][StreamOf[d]] \in Seq(Bodies)
    BY <1>1, <1>2, <1>5 DEF Forwards, PipeType
  <1>10. /\ Handled(d, k)' = h + 1 /\ \A j \in Pipe!Stages : j # k => Handled(d, j)' = Handled(d, j)
         /\ \A j \in Pipe!Stages :
              Handled(d, j) \in Nat /\ Handled(d, j)' \in Nat /\ Handled(d, j)' >= Handled(d, j)
         /\ h \in Nat
         /\ \A a, b : Segment(d, a, b)' = Segment(d, a, b)
         /\ \A a : WasSent(d, a)' <=> WasSent(d, a)
    <2>1. \A j \in Pipe!Stages : j # k => Handled(d, j)' = Handled(d, j)
      BY <1>9 DEF Handled
    <2>2. \A j \in Pipe!Stages : Handled(d, j) \in Nat
      BY <1>9 DEF Handled
    <2>3. Handled(d, k)' = h + 1 /\ h \in Nat
      BY <1>4, <1>9 DEF Handled
    <2>4. \A j \in Pipe!Stages : Handled(d, j)' \in Nat /\ Handled(d, j)' >= Handled(d, j)
      <3>1. SUFFICES ASSUME NEW j \in Pipe!Stages PROVE Handled(d, j)' \in Nat /\ Handled(d, j)' >= Handled(d, j)
        OBVIOUS
      <3>2. CASE j = k
        BY <1>4, <2>3, <3>2
      <3>3. CASE j # k
        BY <2>1, <2>2, <3>3
      <3> QED
        BY <3>2, <3>3
    <2>5. /\ \A a, b : Segment(d, a, b)' = Segment(d, a, b)
          /\ \A a : WasSent(d, a)' <=> WasSent(d, a)
      BY <1>8 DEF Segment, WasSent
    <2> QED
      BY <2>1, <2>2, <2>3, <2>4, <2>5
  <1>11. new.stream = StreamOf[d] /\ new.seg = h /\ new.hop = k + 1 /\ InStream(d, new)
    BY SegmentIs DEF Segment, Pipe!Name
  <1> HIDE DEF new, h
  <1>12. \A n \in PipeNames : \A body : Message(d, n, body) => Message(d, n, body)'
    <2>1. SUFFICES ASSUME NEW n \in PipeNames, NEW body, Message(d, n, body) PROVE Message(d, n, body)'
      OBVIOUS
    <2>2. n.seg \in Nat
      BY DEF PipeNames
    <2> QED
      BY <1>8, <1>10, <2>1, <2>2 DEF Message
  <1>13. StoreOf(d)'
    <2>1. ASSUME NEW n, n = new, NEW body, body = t.body PROVE Message(d, n, body)'
      <3>1. ASSUME restarts = 0, NEW j \in Pipe!Stages, j < k + 1 PROVE h < Handled(d, j)'
        <4>1. CASE j = k
          BY <1>10, <4>1
        <4>2. CASE j # k
          <5>1. j < k /\ j \in Nat
            <6>1. j \in Nat /\ k \in Nat
              BY StageIsNat
            <6> QED
              BY <3>1, <4>2, <6>1
          <5>2. h < Handled(d, j)
            <6>1. restarts = 0 => \A i \in Pipe!Stages : i < k => h < Handled(d, i)
              BY <1>2 DEF Message, h
            <6> QED
              BY <3>1, <5>1, <6>1
          <5> QED
            BY <1>10, <4>2, <5>2
        <4> QED
          BY <4>1, <4>2
      <3>2. WasSent(d, h)
        BY <1>2 DEF Message, h
      <3> QED
        BY <1>1, <1>4, <1>8, <1>10, <1>11, <2>1, <3>1, <3>2 DEF Message
    <2>2. ASSUME NEW n \in DOMAIN content', InStream(d, n), NEW body, body = content'[n]
          PROVE  Message(d, n, body)'
      <3>1. CASE n = new
        BY <1>7, <2>1, <2>2, <3>1
      <3>2. CASE n # new
        <4>1. n \in DOMAIN content /\ content'[n] = content[n] /\ n \in PipeNames
          BY <1>1, <1>7, <2>2, <3>2 DEF PipeStore
        <4>2. Message(d, n, content[n])
          BY <2>2, <4>1 DEF Flows, StoreOf
        <4> QED
          BY <1>12, <2>2, <4>1, <4>2
      <3> QED
        BY <3>1, <3>2
    <2> QED
      BY <2>2 DEF StoreOf, InStream, Message
  <1>14. TodoOf(d)'
    <2>1. SUFFICES ASSUME NEW j \in Pipe!Stages, NEW u \in pipeTodo'[j], InStream(d, u.name)
                   PROVE  Message(d, u.name, u.body)' /\ u.name.hop = j
      BY DEF TodoOf, InStream
    <2>2. u \in pipeTodo[j] /\ u.name \in PipeNames
      BY <1>1, <1>8, <2>1 DEF PipeType
    <2> QED
      BY <1>12, <2>1, <2>2 DEF Flows, TodoOf
  <1>15. ASSUME NEW j \in Pipe!Stages PROVE CacheOf(d, j)'
    <2>1. CASE j # k
      <3>1. CacheOf(d, j)
        BY DEF Flows
      <3>2. /\ pipeCache'[j] = pipeCache[j] /\ pipeSeen'[j] = pipeSeen[j] /\ ended' = ended
            /\ Handled(d, j)' = Handled(d, j)
        BY <1>8, <1>9, <1>10, <2>1
      <3> QED
        BY <3>1, <3>2 DEF CacheOf, Segment
    <2>2. CASE j = k
      <3>1. /\ StreamOf[d] \notin ended[k]
            /\ \A i \in 1 .. Handled(d, k) : pipeCache[k][StreamOf[d]][i] = Pipe!Own(d, i - 1)
            /\ \A g \in Nat : Segment(d, g, k) \in pipeSeen[k] <=> g < Handled(d, k)
        BY DEF Flows, CacheOf
      <3>2. /\ Len(pipeCache[k][StreamOf[d]]) = h /\ h \in Nat
        BY <1>4, <1>9 DEF Handled
      <3>3. ASSUME NEW i \in 1 .. h + 1 PROVE pipeCache'[k][StreamOf[d]][i] = Pipe!Own(d, i - 1)
        <4>1. CASE i = h + 1
          BY <1>4, <1>9, <3>2, <4>1
        <4>2. CASE i # h + 1
          <5>1. i \in 1 .. h /\ pipeCache'[k][StreamOf[d]][i] = pipeCache[k][StreamOf[d]][i]
            BY <1>9, <3>2, <3>3, <4>2
          <5> QED
            BY <1>4, <3>1, <5>1
        <4> QED
          BY <4>1, <4>2
      <3>4. ASSUME NEW g \in Nat PROVE Segment(d, g, k) \in pipeSeen'[k] <=> g < h + 1
        <4>1. Segment(d, g, k) = t.name <=> g = h
          BY <1>3, SegmentIs DEF h
        <4> QED
          BY <1>4, <1>8, <3>1, <3>2, <4>1
      <3> QED
        BY <1>8, <1>10, <2>2, <3>1, <3>3, <3>4 DEF CacheOf, Pipe!Own
    <2> QED
      BY <2>1, <2>2
  <1>16. InTurn(d)'
    <2>1. SUFFICES ASSUME lost = 0, NEW j \in Pipe!Stages, NEW u \in pipeTodo'[j], NEW g \in Nat,
                          InStream(d, u.name), g < u.name.seg
                   PROVE  \/ g < Handled(d, j)'
                          \/ \E v \in pipeTodo'[j] : v.name = Segment(d, g, j) /\ v.at < u.at
      BY <1>8, <1>10 DEF InTurn, InStream
    <2>2. u \in pipeTodo[j]
      BY <1>8, <2>1
    <2>3. \/ g < Handled(d, j)
          \/ \E v \in pipeTodo[j] : v.name = Segment(d, g, j) /\ v.at < u.at
      BY <2>1, <2>2 DEF Flows, InTurn
    <2>4. CASE g < Handled(d, j)
      BY <1>10, <2>4
    <2>5. CASE \E v \in pipeTodo[j] : v.name = Segment(d, g, j) /\ v.at < u.at
      <3>1. PICK v \in pipeTodo[j] : v.name = Segment(d, g, j) /\ v.at < u.at
        BY <2>5
      <3>2. CASE j = k /\ v = t
        <4>1. g = h
          BY <3>1, <3>2, SegmentIs DEF h
        <4> QED
          BY <1>4, <1>10, <3>2, <4>1
      <3>3. CASE ~(j = k /\ v = t)
        BY <1>8, <3>1, <3>3
      <3> QED
        BY <3>2, <3>3
    <2> QED
      BY <2>3, <2>4, <2>5
  <1>17. Ascending(d)'
    <2>1. SUFFICES ASSUME lost = 0, NEW i \in DOMAIN listing', NEW g \in Nat,
                          InStream(d, listing'[i]), g < listing'[i].seg
                   PROVE  \E j \in DOMAIN listing' : j < i /\ listing'[j] = Segment(d, g, listing'[i].hop)
      BY <1>8 DEF Ascending, InStream, Segment
    <2>2. CASE i \in DOMAIN listing
      <3>1. PICK j \in DOMAIN listing : j < i /\ listing[j] = Segment(d, g, listing[i].hop)
        BY <1>7, <2>1, <2>2 DEF Flows, Ascending
      <3> QED
        BY <1>7, <2>2, <3>1
    <2>3. CASE i \notin DOMAIN listing
      <3>1. i = Len(listing) + 1 /\ listing'[i] = new
        BY <1>7, <2>3
      <3>2. g < Handled(d, k)
        BY <1>4, <1>11, <2>1, <3>1
      <3>3. Segment(d, g, k + 1) \in DOMAIN content
        BY <2>1, <3>2 DEF Flows, AllPut
      <3>4. PICK j \in DOMAIN listing : listing[j] = Segment(d, g, k + 1)
        BY <1>1, <3>3 DEF PipeStore
      <3> QED
        BY <1>7, <1>11, <3>1, <3>4
    <2> QED
      BY <2>2, <2>3
  <1>18. AllPut(d)'
    <2>1. ASSUME lost = 0, NEW g \in Nat, WasSent(d, g) PROVE Segment(d, g, 0) \in DOMAIN content'
      BY <1>7, <2>1 DEF Flows, AllPut
    <2>2. ASSUME lost = 0, NEW j \in Pipe!Stages, NEW g \in Nat, g < Handled(d, j)'
          PROVE  Segment(d, g, j + 1) \in DOMAIN content'
      <3>1. CASE g < Handled(d, j)
        BY <1>7, <2>2, <3>1 DEF Flows, AllPut
      <3>2. CASE ~(g < Handled(d, j))
        <4>1. j = k /\ g = h
          BY <1>4, <1>10, <2>2, <3>2
        <4> QED
          BY <1>7, <4>1 DEF new
      <3> QED
        BY <3>1, <3>2
    <2> QED
      BY <1>8, <1>10, <2>1, <2>2 DEF AllPut
  <1>19. Answered(d)'
    <2>1. SUFFICES ASSUME restarts = 0, NEW j \in Pipe!Stages, j < depth, NEW g \in Nat, g < seg[d]
                   PROVE  g < Handled(d, j)'
      BY <1>8 DEF Answered
    <2>2. g < Handled(d, j)
      BY <2>1 DEF Flows, Answered
    <2> QED
      BY <1>10, <2>2
  <1> QED
    BY <1>13, <1>14, <1>15, <1>16, <1>17, <1>18, <1>19 DEF Flows

\* Sound, for every number of drivers, streams, stages, tokens, restarts and lost names: a
\* driver samples from the activations of its own text, and no stage holds a cache of a
\* stream that was finished (run_stage, PipeDriver).  Two drivers open no stream of one name,
\* and the store lists its names in the order they were first put.
THEOREM PipesAlwaysSound ==
  ASSUME PipeRun
  PROVE  Pipe!Init /\ [][Pipe!Next]_(Pipe!vars) => []Pipe!Sound
  <1>1. Pipe!Init => PipeInv
    BY PipeInit
  <1>2. ASSUME PipeInv, [Pipe!Next]_(Pipe!vars) PROVE PipeInv'
    <2>1. CASE UNCHANGED Pipe!vars
      <3>1. /\ depth' = depth /\ listing' = listing /\ content' = content /\ pipePc' = pipePc /\ seg' = seg
            /\ got' = got /\ pipeTodo' = pipeTodo /\ pipeSeen' = pipeSeen /\ ended' = ended
            /\ pipeCache' = pipeCache /\ lost' = lost /\ restarts' = restarts
        BY <2>1 DEF Pipe!vars, Pipe!store, Pipe!driver, Pipe!stage, Pipe!faults
      <3>2. PipeBase' /\ Pipe!Evicted'
        BY <1>2, <3>1 DEF PipeInv, PipeBase, PipeType, PipeStore, PipeTodo, Pipe!Evicted
      <3>3. ASSUME Calm, NEW d \in Drivers PROVE Sampled(d)' /\ (Driving(d)' => Flows(d)')
        <4>1. Beside(d)
          BY <3>1, <1>2 DEF Beside
        <4> QED
          BY <1>2, <3>1, <3>3, <4>1, BesideFlows DEF PipeInv, Sampled, Driving
      <3> QED
        BY <3>1, <3>2, <3>3 DEF PipeInv, Calm
    <2>2. CASE \E e \in Drivers : Pipe!Driver(e) /\ depth' = depth
      <3>1. PICK e \in Drivers : Pipe!Driver(e) /\ depth' = depth
        BY <2>2
      <3>2. PipeBase' /\ Pipe!Evicted'
        BY <1>2, <3>1, DriverBase
      <3>3. lost' = lost /\ restarts' = restarts
        BY <3>1 DEF Pipe!Driver, Pipe!Send, Pipe!Receive, Pipe!TimeOut, Pipe!Finish, Pipe!faults
      <3>4. ASSUME Calm, NEW d \in Drivers PROVE Sampled(d)' /\ (Driving(d)' => Flows(d)')
        <4>1. Sampled(d) /\ (Driving(d) => Flows(d))
          BY <1>2, <3>4 DEF PipeInv
        <4>2. CASE d # e
          <5>1. Beside(d) /\ got'[d] = got[d]
            BY <1>2, <3>1, <4>2, OtherDriver
          <5>2. (Driving(d)' <=> Driving(d)) /\ seg'[d] = seg[d]
            BY <5>1 DEF Beside, Driving
          <5>3. Sampled(d)'
            BY <4>1, <5>1, <5>2 DEF Sampled
          <5> QED
            BY <4>1, <5>1, <5>2, <5>3, BesideFlows
        <4>3. CASE d = e
          <5>1. CASE Pipe!Send(e)
            <6>1. Driving(d) /\ got' = got /\ seg' = seg
              BY <4>3, <5>1 DEF Pipe!Send, Driving
            <6>2. Flows(d)'
              BY <1>2, <3>1, <4>1, <4>3, <5>1, <6>1, SendFlows
            <6> QED
              BY <4>1, <6>1, <6>2 DEF Sampled
          <5>2. CASE Pipe!Receive(e)
            <6>1. Driving(d)
              BY <4>3, <5>2 DEF Pipe!Receive, Driving
            <6> QED
              BY <1>2, <3>1, <4>1, <4>3, <5>2, <6>1, ReceiveFlows
          <5>3. CASE Pipe!TimeOut(e) \/ Pipe!Finish(e)
            <6>1. ~Driving(d)' /\ got' = got
              BY <1>2, <4>3, <5>3 DEF Pipe!TimeOut, Pipe!Finish, Driving, PipeInv, PipeBase, PipeType
            <6> QED
              BY <4>1, <6>1 DEF Sampled
          <5> QED
            BY <3>1, <5>1, <5>2, <5>3 DEF Pipe!Driver
        <4> QED
          BY <4>2, <4>3
      <3> QED
        BY <3>2, <3>3, <3>4 DEF PipeInv, Calm
    <2>3. CASE \E k \in Pipe!Stages : k < depth /\ Pipe!List(k) /\ depth' = depth
      <3>1. PICK k \in Pipe!Stages : k < depth /\ Pipe!List(k) /\ depth' = depth
        BY <2>3
      <3>2. PipeBase' /\ Pipe!Evicted'
        BY <1>2, <3>1, ListBase
      <3>3. got' = got /\ pipePc' = pipePc /\ seg' = seg /\ lost' = lost /\ restarts' = restarts
        BY <3>1 DEF Pipe!List, Pipe!driver, Pipe!faults
      <3>4. ASSUME Calm, NEW d \in Drivers PROVE Sampled(d)' /\ (Driving(d)' => Flows(d)')
        BY <1>2, <3>1, <3>3, <3>4, ListFlows DEF PipeInv, Sampled, Driving
      <3> QED
        BY <3>2, <3>3, <3>4 DEF PipeInv, Calm
    <2>4. CASE \E k \in Pipe!Stages : k < depth /\ Pipe!Handle(k) /\ depth' = depth
      <3>1. PICK k \in Pipe!Stages : k < depth /\ Pipe!Handle(k) /\ depth' = depth
        BY <2>4
      <3>2. PipeBase' /\ Pipe!Evicted'
        BY <1>2, <3>1, HandleBase
      <3>3. got' = got /\ pipePc' = pipePc /\ seg' = seg /\ lost' = lost /\ restarts' = restarts
        BY <3>1 DEF Pipe!Handle, Pipe!driver, Pipe!faults
      <3>4. PICK t \in pipeTodo[k] :
               /\ Handles(k, t)
               /\ t.at \in Nat /\ t.name \in PipeNames /\ t.body \in Bodies
               /\ t.name.stream \in Streams /\ t.name.seg \in Nat
               /\ Forwarded(k, t) \in PipeNames /\ Forwarded(k, t) = Pipe!Name(t.name.stream, t.name.seg, k + 1)
               /\ Pipe!Forward(pipeCache[k][t.name.stream], t.body) \in Bodies
        BY <1>2, <3>1, HandleIs DEF PipeInv, PipeBase
      <3>5. ASSUME Calm, NEW d \in Drivers PROVE Sampled(d)' /\ (Driving(d)' => Flows(d)')
        <4>1. Sampled(d) /\ (Driving(d) => Flows(d))
          BY <1>2, <3>5 DEF PipeInv
        <4>2. Sampled(d)' /\ (Driving(d)' <=> Driving(d))
          BY <3>3, <4>1 DEF Sampled, Driving
        <4>3. ASSUME Flows(d) PROVE Flows(d)'
          <5>1. CASE InStream(d, t.name)
            BY <1>2, <3>1, <3>4, <3>5, <4>3, <5>1, HandleFlows
          <5>2. CASE ~InStream(d, t.name)
            BY <1>2, <3>1, <3>4, <4>3, <5>2, HandleBeside, BesideFlows
          <5> QED
            BY <5>1, <5>2
        <4> QED
          BY <4>1, <4>2, <4>3
      <3> QED
        BY <3>2, <3>3, <3>5 DEF PipeInv, Calm
    <2>5. CASE \E k \in Pipe!Stages : Pipe!Restart(k) /\ depth' = depth
      <3>1. PICK k \in Pipe!Stages : Pipe!Restart(k) /\ depth' = depth
        BY <2>5
      <3>2. PipeBase' /\ Pipe!Evicted'
        BY <1>2, <3>1, RestartBase
      <3>3. /\ got' = got /\ pipePc' = pipePc /\ seg' = seg /\ lost' = lost /\ restarts' # 0
        BY <1>2, <3>1 DEF Pipe!Restart, Pipe!driver, PipeInv, PipeBase, PipeType
      <3>4. ASSUME lost = 0, NEW d \in Drivers PROVE Sampled(d)' /\ (Driving(d)' => Flows(d)')
        BY <1>2, <3>1, <3>3, <3>4, RestartKeepsFlows DEF PipeInv, Calm, Sampled, Driving
      <3> QED
        BY <3>2, <3>3, <3>4 DEF PipeInv, Calm
    <2>6. CASE Pipe!Lose /\ depth' = depth
      <3>1. PipeBase' /\ Pipe!Evicted'
        BY <1>2, <2>6, LoseKeeps
      <3>2. /\ got' = got /\ pipePc' = pipePc /\ seg' = seg /\ lost' # 0 /\ restarts' = restarts
        BY <1>2, <2>6 DEF Pipe!Lose, Pipe!driver, PipeInv, PipeBase, PipeType
      <3>3. ASSUME restarts = 0, NEW d \in Drivers PROVE Sampled(d)' /\ (Driving(d)' => Flows(d)')
        BY <1>2, <2>6, <3>2, <3>3, LoseFlows DEF PipeInv, Calm, Sampled, Driving
      <3> QED
        BY <3>1, <3>2, <3>3 DEF PipeInv, Calm
    <2> QED
      BY <1>2, <2>1, <2>2, <2>3, <2>4, <2>5, <2>6 DEF Pipe!Next, Pipe!Serve
  <1>3. PipeInv => Pipe!Sound
    BY DEF PipeInv, Calm, Sampled, Pipe!Sound, Pipe!Faithful
  <1> QED
    BY <1>1, <1>2, <1>3, PTL
-----------------------------------------------------------------------------
(* VramGuard: what the miners of a card hold together.  The sum is a fold   *)
(* over a finite set; what is needed of it is proved by a least set that    *)
(* has it not.                                                              *)

\* Every set of naturals that has an element has a least one.
LEMMA LeastNatural ==
  ASSUME NEW S, S \subseteq Nat, S # {}
  PROVE  \E x \in S : \A y \in S : x <= y
  <1> DEFINE R == {p \in Nat \X Nat : p[1] < p[2]}
  <1>1. IsWellFoundedOn(R, Nat)
    BY NatLessThanWellFounded DEF OpToRel
  <1>2. PICK x \in S : \A y \in S : ~(<<y, x>> \in R)
    BY <1>1, WFMin
  <1>3. \A y \in S : ~(y < x)
    BY <1>2
  <1> QED
    BY <1>3

\* A family of subsets of a finite set that is not empty has a least one.
LEMMA LeastSet ==
  ASSUME NEW S, IsFiniteSet(S), NEW F, F \subseteq SUBSET S, F # {}
  PROVE  \E T \in F : \A U \in F : U \subseteq T => U = T
  <1> DEFINE R == StrictSubsetOrdering(S)
  <1>1. IsWellFoundedOn(R, SUBSET S)
    BY FS_StrictSubsetOrderingWellFounded, FS_FiniteSubsetsOfFinite
  <1>2. PICK T \in F : \A U \in F : ~(<<U, T>> \in R)
    BY <1>1, WFMin
  <1>3. ASSUME NEW U \in F, U \subseteq T, U # T PROVE FALSE
    BY <1>2, <1>3 DEF StrictSubsetOrdering
  <1> QED
    BY <1>2, <1>3

LEMMA AnyOfIn == ASSUME NEW S, S # {} PROVE AnyOf(S) \in S
  BY DEF AnyOf

UsedBy(S) == Vram!MapThenSumSet(LAMBDA o : held[o] + cache[o], S)

AddsUp(g, S) ==
  g = [T \in SUBSET S |-> IF T = {} THEN 0
                          ELSE held[AnyOf(T)] + cache[AnyOf(T)] + g[T \ {AnyOf(T)}]]

LEMMA UsedByFold == ASSUME NEW S PROVE UsedBy(S) = (CHOOSE g : AddsUp(g, S))[S]
  BY DEF UsedBy, Vram!MapThenSumSet, Vram!MapThenFoldSet, AddsUp, AnyOf

LEMMA FoldUnique ==
  ASSUME NEW R, NEW S, NEW T, T \subseteq R, T \subseteq S, IsFiniteSet(T),
         NEW g, AddsUp(g, R), NEW h, AddsUp(h, S)
  PROVE  g[T] = h[T]
  <1> DEFINE bad == {U \in SUBSET T : g[U] # h[U]}
  <1>1. SUFFICES ASSUME bad # {} PROVE FALSE
    OBVIOUS
  <1>2. PICK U \in bad : \A W \in bad : W \subseteq U => W = U
    <2>1. bad \subseteq SUBSET T
      OBVIOUS
    <2> HIDE DEF bad
    <2> QED
      BY <1>1, <2>1, LeastSet
  <1>3. /\ g[U] = IF U = {} THEN 0 ELSE held[AnyOf(U)] + cache[AnyOf(U)] + g[U \ {AnyOf(U)}]
        /\ h[U] = IF U = {} THEN 0 ELSE held[AnyOf(U)] + cache[AnyOf(U)] + h[U \ {AnyOf(U)}]
    BY <1>2 DEF AddsUp
  <1>4. U # {}
    BY <1>2, <1>3
  <1>5. AnyOf(U) \in U /\ U \ {AnyOf(U)} \notin bad
    BY <1>2, <1>4, AnyOfIn
  <1>6. g[U \ {AnyOf(U)}] = h[U \ {AnyOf(U)}]
    BY <1>2, <1>5
  <1> QED
    BY <1>2, <1>3, <1>6

LEMMA FoldExists ==
  ASSUME NEW S, IsFiniteSet(S)
  PROVE  \E g : AddsUp(g, S)
  <1> DEFINE bad == {T \in SUBSET S : ~\E g : AddsUp(g, T)}
             h(W) == CHOOSE g : AddsUp(g, W)
             less(W) == W \ {AnyOf(W)}
             owned(W) == held[AnyOf(W)] + cache[AnyOf(W)]
  <1>1. SUFFICES ASSUME bad # {} PROVE FALSE
    OBVIOUS
  <1>2. PICK T \in bad : \A W \in bad : W \subseteq T => W = T
    <2>1. bad \subseteq SUBSET S
      OBVIOUS
    <2> HIDE DEF bad
    <2> QED
      BY <1>1, <2>1, LeastSet
  <1>3. ASSUME NEW W \in SUBSET T, W # T
        PROVE  AddsUp(h(W), W)
    BY <1>2, <1>3
  <1> DEFINE val(W) == IF W = {} THEN 0 ELSE owned(W) + h(less(W))[less(W)]
             g == [W \in SUBSET T |-> val(W)]
  <1>4. ASSUME NEW U \in SUBSET T, U # T
        PROVE  h(U)[U] = val(U)
    <2>1. AddsUp(h(U), U)
      BY <1>3, <1>4
    <2>2. h(U)[U] = IF U = {} THEN 0 ELSE owned(U) + h(U)[less(U)]
      <3> DEFINE k == h(U)
      <3>1. k = [W \in SUBSET U |-> IF W = {} THEN 0 ELSE owned(W) + k[W \ {AnyOf(W)}]]
        BY <2>1 DEF AddsUp
      <3> HIDE DEF k, owned
      <3>2. k[U] = IF U = {} THEN 0 ELSE owned(U) + k[U \ {AnyOf(U)}]
        BY <3>1
      <3> QED
        BY <3>2 DEF k
    <2>3. ASSUME U # {} PROVE h(U)[less(U)] = h(less(U))[less(U)]
      <3>1. less(U) \in SUBSET T /\ less(U) # T /\ less(U) \subseteq U /\ IsFiniteSet(less(U))
        <4>1. AnyOf(U) \in U
          BY <2>3, AnyOfIn
        <4>2. IsFiniteSet(U \ {AnyOf(U)})
          BY <1>2, FS_Subset
        <4> QED
          BY <1>2, <4>1, <4>2
      <3>2. AddsUp(h(less(U)), less(U))
        BY <1>3, <3>1
      <3> HIDE DEF h, less
      <3>3. PICK k, l, V : k = h(U) /\ l = h(less(U)) /\ V = less(U)
        OBVIOUS
      <3>4. V \subseteq U /\ V \subseteq V /\ IsFiniteSet(V) /\ AddsUp(k, U) /\ AddsUp(l, V)
        BY ONLY <2>1, <3>1, <3>2, <3>3
      <3>5. k[V] = l[V]
        BY ONLY <3>4, FoldUnique
      <3> QED
        BY ONLY <3>3, <3>5
    <2> HIDE DEF h, less, owned
    <2> QED
      BY <2>2, <2>3
  <1>5. ASSUME NEW W \in SUBSET T, W # {} PROVE g[less(W)] = h(less(W))[less(W)]
    <2>1. less(W) \in SUBSET T /\ less(W) # T
      BY <1>5, AnyOfIn
    <2>2. h(less(W))[less(W)] = val(less(W))
      BY <1>4, <2>1
    <2> HIDE DEF h, less, val
    <2> QED
      BY <2>1, <2>2
  <1>6. \A W \in SUBSET T : g[W] = IF W = {} THEN 0 ELSE owned(W) + g[less(W)]
    <2> TAKE W \in SUBSET T
    <2>1. g[W] = val(W)
      OBVIOUS
    <2> HIDE DEF g, h, less, owned
    <2> QED
      BY <1>5, <2>1
  <1>7. g = [W \in SUBSET T |-> g[W]]
    OBVIOUS
  <1> HIDE DEF g
  <1>8. AddsUp(g, T)
    BY <1>6, <1>7 DEF AddsUp
  <1> QED
    BY <1>2, <1>8

LEMMA UsedBySteps ==
  ASSUME NEW S, IsFiniteSet(S)
  PROVE  UsedBy(S) = IF S = {} THEN 0
                     ELSE held[AnyOf(S)] + cache[AnyOf(S)] + UsedBy(S \ {AnyOf(S)})
  <1> DEFINE h(W) == CHOOSE g : AddsUp(g, W)
             U == S \ {AnyOf(S)}
  <1>1. IsFiniteSet(U) /\ U \subseteq S
    BY FS_Subset
  <1>2. AddsUp(h(S), S) /\ AddsUp(h(U), U)
    BY <1>1, FoldExists
  <1>3. UsedBy(S) = h(S)[S] /\ UsedBy(U) = h(U)[U]
    BY UsedByFold
  <1> HIDE DEF h
  <1>4. h(S)[U] = h(U)[U]
    <2>1. PICK k, l : k = h(S) /\ l = h(U)
      OBVIOUS
    <2>2. AddsUp(k, S) /\ AddsUp(l, U)
      BY <1>2, <2>1
    <2> HIDE DEF U
    <2>3. k[U] = l[U]
      BY <1>1, <2>2, FoldUnique
    <2> QED
      BY <2>1, <2>3
  <1>5. h(S)[S] = IF S = {} THEN 0 ELSE held[AnyOf(S)] + cache[AnyOf(S)] + h(S)[U]
    BY <1>2 DEF AddsUp
  <1> QED
    BY <1>3, <1>4, <1>5

\* Miners that hold at least w each hold w times their number, and those that hold exactly w,
\* beside others that hold nothing, hold no more.
LEMMA UsedByBounds ==
  ASSUME NEW S, IsFiniteSet(S), NEW A, A \subseteq S, NEW w \in Nat,
         \A o \in S : held[o] \in Nat /\ cache[o] \in Nat,
         \A o \in A : held[o] + cache[o] >= w
  PROVE  /\ UsedBy(S) \in Nat /\ Cardinality(A) \in Nat
         /\ UsedBy(S) >= w * Cardinality(A)
         /\ (\A o \in S : held[o] + cache[o] = IF o \in A THEN w ELSE 0)
              => UsedBy(S) = w * Cardinality(A)
  <1> DEFINE ok(T) ==
        /\ UsedBy(T) \in Nat /\ Cardinality(A \cap T) \in Nat
        /\ UsedBy(T) >= w * Cardinality(A \cap T)
        /\ (\A o \in S : held[o] + cache[o] = IF o \in A THEN w ELSE 0)
             => UsedBy(T) = w * Cardinality(A \cap T)
      bad == {T \in SUBSET S : ~ok(T)}
  <1>1. SUFFICES ASSUME bad # {} PROVE FALSE
    <2>1. ok(S)
      BY <1>1
    <2>2. A \cap S = A
      OBVIOUS
    <2> QED
      BY <2>1, <2>2
  <1>2. PICK T \in bad : \A U \in bad : U \subseteq T => U = T
    <2>1. bad \subseteq SUBSET S
      OBVIOUS
    <2> HIDE DEF bad
    <2> QED
      BY <1>1, <2>1, LeastSet
  <1>3. T \subseteq S /\ ~ok(T) /\ IsFiniteSet(T)
    BY <1>2, FS_Subset
  <1>4. CASE T = {}
    <2>1. A \cap T = {} /\ Cardinality({}) = 0
      BY <1>4, FS_EmptySet
    <2>2. UsedBy(T) = 0
      BY <1>3, <1>4, UsedBySteps
    <2>3. w * 0 = 0 /\ 0 >= 0 /\ 0 \in Nat
      OBVIOUS
    <2>4. /\ UsedBy(T) \in Nat /\ Cardinality(A \cap T) \in Nat
          /\ UsedBy(T) >= w * Cardinality(A \cap T) /\ UsedBy(T) = w * Cardinality(A \cap T)
      BY <2>1, <2>2, <2>3
    <2> QED
      BY <1>3, <2>4
  <1>5. CASE T # {}
    <2> DEFINE x == AnyOf(T)
               U == T \ {x}
               a == held[x] + cache[x]
               k == Cardinality(A \cap U)
    <2>1. x \in T /\ U \subseteq T /\ U # T
      BY <1>5, AnyOfIn
    <2>2. ok(U)
      BY <1>2, <1>3, <2>1
    <2>3. UsedBy(T) = a + UsedBy(U)
      BY <1>3, <1>5, UsedBySteps
    <2>4. a \in Nat /\ k \in Nat
      BY <1>3, <2>1, <2>2
    <2>5. CASE x \in A
      <3>1. /\ A \cap T = (A \cap U) \cup {x} /\ x \notin A \cap U
            /\ IsFiniteSet(A \cap U)
        BY <1>3, <2>1, <2>5, FS_Subset
      <3>2. Cardinality(A \cap T) = k + 1
        BY <3>1, FS_AddElement
      <3>3. a >= w
        BY <2>5
      <3>4. w * (k + 1) = w * k + w /\ w * k \in Nat
        BY <2>4
      <3>5. UsedBy(U) \in Nat /\ UsedBy(U) >= w * k
        BY <2>2
      <3>6. UsedBy(T) \in Nat /\ UsedBy(T) >= w * (k + 1)
        <4> DEFINE wk == w * k
        <4> HIDE DEF wk, a, k, U
        <4> QED
          BY <2>3, <2>4, <3>3, <3>4, <3>5 DEF wk
      <3>7. ASSUME \A o \in S : held[o] + cache[o] = IF o \in A THEN w ELSE 0
            PROVE  UsedBy(T) = w * (k + 1)
        <4>1. a = w /\ UsedBy(U) = w * k
          BY <1>3, <2>1, <2>2, <2>5, <3>7
        <4> DEFINE wk == w * k
        <4> HIDE DEF wk, a, k, U
        <4> QED
          BY <2>3, <2>4, <3>4, <4>1 DEF wk
      <3>8. k + 1 \in Nat
        BY <2>4
      <3> QED
        BY <1>3, <3>2, <3>6, <3>7, <3>8
    <2>6. CASE x \notin A
      <3>1. A \cap T = A \cap U
        BY <2>6
      <3>2. UsedBy(T) \in Nat /\ UsedBy(T) >= w * k
        <4>1. UsedBy(U) \in Nat /\ UsedBy(U) >= w * k /\ w * k \in Nat
          BY <2>2, <2>4
        <4> DEFINE wk == w * k
        <4> HIDE DEF wk, a, k, U
        <4> QED
          BY <2>3, <2>4, <4>1 DEF wk
      <3>3. ASSUME \A o \in S : held[o] + cache[o] = IF o \in A THEN w ELSE 0
            PROVE  UsedBy(T) = w * k
        <4>1. a = 0 /\ UsedBy(U) = w * k /\ UsedBy(U) \in Nat
          BY <1>3, <2>1, <2>2, <2>6, <3>3
        <4> HIDE DEF a, U
        <4> QED
          BY <2>3, <4>1
      <3> QED
        BY <1>3, <2>4, <3>1, <3>2, <3>3
    <2> QED
      BY <2>5, <2>6
  <1> QED
    BY <1>4, <1>5

-----------------------------------------------------------------------------
(* VramGuard: miners of one card, and what each measured before it loaded.  *)

\* A process that runs holds its model once it is loaded, and nothing but it while it is
\* stopped; its ceiling leaves room for the model.
VramMemory ==
  /\ card \in Nat /\ ext \in GuardLevels
  /\ vramPc \in [Miners -> Stages] /\ batch \in [Miners -> 1 .. MaxBatch]
  /\ held \in [Miners -> Nat] /\ cache \in [Miners -> Nat]
  /\ cap \in [Miners -> Int] /\ baseline \in [Miners -> Int]
  /\ \A m \in Miners :
       /\ vramPc[m] \in {"off", "guarded"} => held[m] = 0 /\ cache[m] = 0
       /\ vramPc[m] \in {"check", "paused", "round"} => held[m] = ModelSize
       /\ vramPc[m] = "training" => held[m] >= ModelSize
       /\ vramPc[m] = "paused" => cache[m] = 0
       /\ vramPc[m] # "off" => cap[m] >= ModelSize

\* Of processes that run together, whichever they are, one measured when the others' models
\* were on the card, or measured a full card.
Running == {m \in Miners : vramPc[m] # "off"}
MeasuredOf(S) ==
  \E m \in S : baseline[m] >= card \/ baseline[m] >= Vram!Quiet + ModelSize * (Cardinality(S) - 1)
VramShared ==
  /\ \A m, o \in Miners : vramPc[m] = "guarded" /\ vramPc[o] = "guarded" => m = o
  /\ \A S \in SUBSET Running : S # {} => MeasuredOf(S)

LEMMA VramFacts ==
  ASSUME Vram!VramAssumption
  PROVE  /\ IsFiniteSet(Miners) /\ Cards \subseteq Nat /\ GuardLevels \subseteq Nat
         /\ ModelSize \in Nat /\ Need \in Nat /\ ModelSize <= Need
         /\ MaxBatch \in Nat \ {0} /\ Asked \in Nat /\ \A b \in 1 .. MaxBatch : Work[b] \in Nat
         /\ Vram!StartBatch \in 1 .. MaxBatch \/ card \notin Nat
  <1>1. IsFiniteSet(Miners)
    BY DEF Vram!VramAssumption, Vram!IsFiniteSet, IsFiniteSet
  <1> QED
    BY <1>1 DEF Vram!VramAssumption, Vram!StartBatch, Vram!Lower

\* The least the other processes hold is one of the levels and no more than they hold now.
LEMMA QuietLeast ==
  ASSUME Vram!VramAssumption, VramMemory
  PROVE  Vram!Quiet \in GuardLevels /\ Vram!Quiet \in Nat /\ Vram!Quiet <= ext
  <1>1. GuardLevels \subseteq Nat /\ ext \in GuardLevels
    BY VramFacts DEF VramMemory
  <1>2. \E x \in GuardLevels : \A y \in GuardLevels : x <= y
    BY <1>1, LeastNatural
  <1>3. Vram!Quiet \in GuardLevels /\ \A y \in GuardLevels : Vram!Quiet <= y
    BY <1>2 DEF Vram!Quiet, Vram!Min
  <1> QED
    BY <1>1, <1>3

\* What one miner sees of the others, and of what is free.
LEMMA VramSeen ==
  ASSUME Vram!VramAssumption, VramMemory, NEW m \in Miners
  PROVE  /\ Vram!UsedByOthers(m) \in Nat /\ Vram!UsedByOthers(m) = ext + UsedBy(Miners \ {m})
         /\ Vram!FreeOf(m) \in Nat
         /\ Vram!FreeOf(m) >= card - Vram!UsedByOthers(m) - held[m]
         /\ Vram!FreeOf(m) > 0 => Vram!FreeOf(m) = card - Vram!UsedByOthers(m) - held[m]
         /\ Vram!MinFree(m) \in Int
         /\ Vram!MinFree(m) > 0 => Vram!MinFree(m) <= card - cap[m] - baseline[m]
  <1>1. IsFiniteSet(Miners \ {m}) /\ ext \in Nat /\ card \in Nat /\ Asked \in Nat
    BY VramFacts, FS_Subset DEF VramMemory
  <1>2. \A o \in Miners : held[o] \in Nat /\ cache[o] \in Nat /\ cap[o] \in Int /\ baseline[o] \in Int
    BY DEF VramMemory
  <1>3. UsedBy(Miners \ {m}) \in Nat
    <2> DEFINE S == Miners \ {m}
    <2>1. PICK A : A = {}
      OBVIOUS
    <2>2. A \subseteq S /\ 0 \in Nat /\ \A o \in A : held[o] + cache[o] >= 0
      BY <2>1
    <2>3. IsFiniteSet(S) /\ \A o \in S : held[o] \in Nat /\ cache[o] \in Nat
      BY <1>1, <1>2
    <2> HIDE DEF S
    <2>4. UsedBy(S) \in Nat
      BY <2>2, <2>3, UsedByBounds
    <2> QED
      BY <2>4 DEF S
  <1>4. Vram!UsedByOthers(m) \in Nat /\ Vram!UsedByOthers(m) = ext + UsedBy(Miners \ {m})
    <2>1. Vram!UsedByOthers(m) = ext + UsedBy(Miners \ {m})
      BY DEF Vram!UsedByOthers, UsedBy
    <2> QED
      BY <1>1, <1>3, <2>1
  <1>5. /\ Vram!FreeOf(m) \in Nat
        /\ Vram!FreeOf(m) >= card - Vram!UsedByOthers(m) - held[m]
        /\ Vram!FreeOf(m) > 0 => Vram!FreeOf(m) = card - Vram!UsedByOthers(m) - held[m]
    BY <1>1, <1>2, <1>4 DEF Vram!FreeOf, Vram!Above0
  <1>6. /\ Vram!MinFree(m) \in Int
        /\ Vram!MinFree(m) > 0 => Vram!MinFree(m) <= card - cap[m] - baseline[m]
    <2>1. \A x, y \in Int : Vram!Lower(x, y) \in Int /\ Vram!Lower(x, y) <= y
      BY DEF Vram!Lower
    <2>2. \A x \in Int : /\ Vram!Above0(x) \div 2 \in Int
                         /\ Vram!Above0(x) \div 2 > 0 => Vram!Above0(x) \div 2 <= x
      BY DEF Vram!Above0
    <2>3. card - cap[m] - baseline[m] \in Int
      BY <1>1, <1>2
    <2> DEFINE x == card - cap[m] - baseline[m]
               y == Vram!Above0(x) \div 2
    <2>4. y \in Int /\ (y > 0 => y <= x) /\ Vram!MinFree(m) = Vram!Lower(Asked, y)
      BY <2>2, <2>3 DEF Vram!MinFree
    <2> HIDE DEF x, y
    <2>5. Vram!MinFree(m) \in Int /\ Vram!MinFree(m) <= y /\ x \in Int
      BY <1>1, <2>1, <2>3, <2>4 DEF x
    <2>6. Vram!MinFree(m) > 0 => Vram!MinFree(m) <= x
      BY <2>4, <2>5
    <2> QED
      BY <2>5, <2>6 DEF x
  <1> QED
    BY <1>4, <1>5, <1>6

LEMMA VramMemoryInit == ASSUME Vram!VramAssumption, Vram!Init PROVE VramMemory /\ VramShared
  <1>1. /\ card \in Cards /\ ext \in GuardLevels
        /\ vramPc = [m \in Miners |-> "off"] /\ batch = [m \in Miners |-> MaxBatch]
        /\ cap = [m \in Miners |-> 0] /\ baseline = [m \in Miners |-> 0]
        /\ held = [m \in Miners |-> 0] /\ cache = [m \in Miners |-> 0]
    BY DEF Vram!Init
  <1>2. card \in Nat /\ MaxBatch \in 1 .. MaxBatch
    BY <1>1, VramFacts
  <1>3. \A m \in Miners : vramPc[m] = "off" /\ held[m] = 0 /\ cache[m] = 0
    BY <1>1
  <1>4. VramMemory
    BY <1>1, <1>2, <1>3 DEF VramMemory, Stages
  <1>5. Running = {}
    BY <1>3 DEF Running
  <1>6. VramShared
    BY <1>3, <1>5 DEF VramShared
  <1> QED
    BY <1>4, <1>6

LEMMA VramMemoryStep ==
  ASSUME Vram!VramAssumption, VramMemory, [Vram!Next]_(Vram!vars) PROVE VramMemory'
  <1> USE VramFacts DEF VramMemory
  <1>1. ASSUME NEW m \in Miners, Vram!Guard(m) PROVE VramMemory'
    <2>1. /\ vramPc[m] = "off" /\ vramPc' = [vramPc EXCEPT ![m] = "guarded"]
          /\ cap' = [cap EXCEPT ![m] = Vram!PlanCap(Vram!FreeOf(m))]
          /\ baseline' = [baseline EXCEPT ![m] = card - Vram!FreeOf(m)]
          /\ batch' = [batch EXCEPT ![m] = Vram!StartBatch]
          /\ card' = card /\ ext' = ext /\ held' = held /\ cache' = cache
          /\ Vram!PlanCap(Vram!FreeOf(m)) >= Need
      BY <1>1 DEF Vram!Guard
    <2>2. Vram!FreeOf(m) \in Nat /\ Vram!StartBatch \in 1 .. MaxBatch
      BY VramSeen
    <2>3. \A free \in Nat : Vram!PlanCap(free) \in Int
      BY DEF Vram!PlanCap, Vram!Lower
    <2>4. Vram!PlanCap(Vram!FreeOf(m)) \in Int /\ Vram!PlanCap(Vram!FreeOf(m)) >= ModelSize
      BY <2>1, <2>2, <2>3
    <2>5. card - Vram!FreeOf(m) \in Int
      BY <2>2
    <2> QED
      BY <2>1, <2>2, <2>4, <2>5 DEF Stages
  <1>2. ASSUME NEW m \in Miners, Vram!Load(m) PROVE VramMemory'
    <2>1. /\ vramPc[m] = "guarded" /\ vramPc' = [vramPc EXCEPT ![m] = "check"]
          /\ held' = [held EXCEPT ![m] = ModelSize]
          /\ card' = card /\ ext' = ext /\ cap' = cap /\ baseline' = baseline /\ cache' = cache
          /\ batch' = batch
      BY <1>2 DEF Vram!Load, Vram!size
    <2> QED
      BY <2>1 DEF Stages
  <1>3. ASSUME NEW m \in Miners, Vram!Measure(m) \/ Vram!Repair(m) PROVE VramMemory'
    <2>1. /\ vramPc[m] \in {"check", "paused"}
          /\ \E v \in {"check", "round", "paused"} : vramPc' = [vramPc EXCEPT ![m] = v]
          /\ cache' = [cache EXCEPT ![m] = 0]
          /\ card' = card /\ ext' = ext /\ cap' = cap /\ baseline' = baseline /\ held' = held
          /\ batch' = batch
      BY <1>3 DEF Vram!Measure, Vram!Repair, Vram!size
    <2> QED
      BY <2>1 DEF Stages
  <1>4. ASSUME NEW m \in Miners, Vram!Train(m) PROVE VramMemory'
    <2>1. /\ vramPc[m] = "round" /\ vramPc' = [vramPc EXCEPT ![m] = "training"]
          /\ held' = [held EXCEPT ![m] = ModelSize + Work[batch[m]]]
          /\ card' = card /\ ext' = ext /\ cap' = cap /\ baseline' = baseline /\ cache' = cache
          /\ batch' = batch
      BY <1>4 DEF Vram!Train, Vram!size
    <2>2. Work[batch[m]] \in Nat
      OBVIOUS
    <2> QED
      BY <2>1, <2>2 DEF Stages
  <1>5. ASSUME NEW m \in Miners, Vram!Finish(m) PROVE VramMemory'
    <2>1. /\ vramPc[m] = "training" /\ vramPc' = [vramPc EXCEPT ![m] = "check"]
          /\ held' = [held EXCEPT ![m] = ModelSize]
          /\ cache' = [cache EXCEPT ![m] = held[m] - ModelSize]
          /\ card' = card /\ ext' = ext /\ cap' = cap /\ baseline' = baseline /\ batch' = batch
      BY <1>5 DEF Vram!Finish, Vram!size
    <2>2. held[m] - ModelSize \in Nat
      BY <2>1
    <2> QED
      BY <2>1, <2>2 DEF Stages
  <1>6. ASSUME NEW m \in Miners, Vram!OutOfMemory(m) PROVE VramMemory'
    <2>1. /\ vramPc[m] = "round" /\ vramPc' = [vramPc EXCEPT ![m] = "check"]
          /\ cache' = [cache EXCEPT ![m] = 0]
          /\ batch' = [batch EXCEPT ![m] = Vram!Backoff(batch[m], inner[m])[1]]
          /\ card' = card /\ ext' = ext /\ cap' = cap /\ baseline' = baseline /\ held' = held
      BY <1>6 DEF Vram!OutOfMemory
    <2>2. Vram!Backoff(batch[m], inner[m])[1] \in 1 .. MaxBatch
      BY DEF Vram!Backoff
    <2> QED
      BY <2>1, <2>2 DEF Stages
  <1>7. ASSUME NEW m \in Miners, Vram!Exit(m) PROVE VramMemory'
    <2>1. /\ vramPc' = [vramPc EXCEPT ![m] = "off"]
          /\ held' = [held EXCEPT ![m] = 0] /\ cache' = [cache EXCEPT ![m] = 0]
          /\ card' = card /\ ext' = ext /\ cap' = cap /\ baseline' = baseline /\ batch' = batch
      BY <1>7 DEF Vram!Exit
    <2> QED
      BY <2>1 DEF Stages
  <1>8. CASE (\E e \in GuardLevels : Vram!Others(e)) \/ UNCHANGED Vram!vars
    <2>1. /\ ext' \in GuardLevels /\ card' = card /\ vramPc' = vramPc /\ batch' = batch
          /\ held' = held /\ cache' = cache /\ cap' = cap /\ baseline' = baseline
      BY <1>8 DEF Vram!Others, Vram!size, Vram!vars
    <2> QED
      BY <2>1
  <1> QED
    BY <1>1, <1>2, <1>3, <1>4, <1>5, <1>6, <1>7, <1>8 DEF Vram!Next, Vram!Run

LEMMA VramSharedStep ==
  ASSUME Vram!VramAssumption, ~Overlap, VramMemory, VramShared, [Vram!Next]_(Vram!vars)
  PROVE  VramShared'
  <1>1. ASSUME NEW m \in Miners, Vram!Guard(m) PROVE VramShared'
    <2>1. /\ vramPc[m] = "off" /\ vramPc' = [vramPc EXCEPT ![m] = "guarded"]
          /\ baseline' = [baseline EXCEPT ![m] = card - Vram!FreeOf(m)]
          /\ card' = card
          /\ \A o \in Miners : vramPc[o] # "guarded"
      BY <1>1 DEF Vram!Guard
    <2>2. /\ vramPc'[m] = "guarded" /\ baseline'[m] = card - Vram!FreeOf(m)
          /\ \A o \in Miners \ {m} : vramPc'[o] = vramPc[o] /\ baseline'[o] = baseline[o]
      BY <2>1 DEF VramMemory
    <2>3. \A o, q \in Miners : vramPc'[o] = "guarded" /\ vramPc'[q] = "guarded" => o = q
      BY <2>1, <2>2
    <2>4. ASSUME NEW S \in SUBSET Running', S # {} PROVE MeasuredOf(S)'
      <3>1. S \subseteq Miners /\ \A o \in S \ {m} : o \in Running
        BY <2>2 DEF Running
      <3>2. CASE m \notin S
        <4>1. S \in SUBSET Running
          BY <3>1, <3>2
        <4>2. MeasuredOf(S)
          BY <4>1, <2>4 DEF VramShared
        <4> QED
          BY <2>1, <2>2, <3>1, <3>2, <4>2 DEF MeasuredOf
      <3>3. CASE m \in S
        <4> DEFINE A == S \ {m}
                   u == UsedBy(Miners \ {m})
                   n == Cardinality(A)
        <4>1. /\ IsFiniteSet(Miners \ {m}) /\ A \subseteq Miners \ {m} /\ IsFiniteSet(S)
              /\ IsFiniteSet(A) /\ ModelSize \in Nat
          BY <3>1, VramFacts, FS_Subset
        <4>2. \A o \in A : held[o] + cache[o] >= ModelSize
          <5>1. TAKE o \in A
          <5>2. o \in Miners /\ vramPc[o] \in {"check", "paused", "round", "training"}
            BY <2>1, <3>1 DEF Running, VramMemory, Stages
          <5>3. held[o] \in Nat /\ cache[o] \in Nat /\ held[o] >= ModelSize
            BY <4>1, <5>2 DEF VramMemory
          <5> QED
            BY <4>1, <5>3
        <4>3. \A o \in Miners \ {m} : held[o] \in Nat /\ cache[o] \in Nat
          BY DEF VramMemory
        <4>4. u \in Nat /\ n \in Nat /\ u >= ModelSize * n
          BY <4>1, <4>2, <4>3, UsedByBounds
        <4>5. Cardinality(S) = n + 1
          <5>1. S = A \cup {m} /\ m \notin A
            BY <3>3
          <5> HIDE DEF A
          <5> QED
            BY <4>1, <5>1, FS_AddElement
        <4>6. Cardinality(S) - 1 = n
          BY <4>4, <4>5
        <4>7. held[m] = 0 /\ card \in Nat
          BY <2>1 DEF VramMemory
        <4>8. Vram!Quiet \in Nat /\ Vram!Quiet <= ext /\ ext \in Nat
          BY QuietLeast, VramFacts DEF VramMemory
        <4>9. /\ Vram!UsedByOthers(m) = ext + u /\ Vram!FreeOf(m) \in Nat
              /\ Vram!FreeOf(m) > 0 => Vram!FreeOf(m) = card - Vram!UsedByOthers(m) - held[m]
          BY VramSeen
        <4>10. ModelSize * n \in Nat
          BY <4>1, <4>4
        <4>11. \/ baseline'[m] >= card
               \/ baseline'[m] >= Vram!Quiet + ModelSize * n
          <5> DEFINE wn == ModelSize * n
          <5> HIDE DEF wn, u, n
          <5> QED
            BY <2>2, <4>4, <4>7, <4>8, <4>9, <4>10 DEF wn
        <4>12. Vram!Quiet' = Vram!Quiet
          BY DEF Vram!Quiet, Vram!Min
        <4> QED
          BY <2>1, <3>3, <4>6, <4>11, <4>12 DEF MeasuredOf
      <3> QED
        BY <3>2, <3>3
    <2> QED
      BY <2>3, <2>4 DEF VramShared
  <1>2. ASSUME card' = card, baseline' = baseline,
               \A o \in Miners : /\ vramPc'[o] # "off" => vramPc[o] # "off"
                                 /\ vramPc'[o] = "guarded" => vramPc[o] = "guarded"
        PROVE  VramShared'
    <2>1. Running' \subseteq Running
      BY <1>2 DEF Running
    <2>2. \A S : MeasuredOf(S) => MeasuredOf(S)'
      BY <1>2 DEF MeasuredOf, Vram!Quiet, Vram!Min
    <2> QED
      BY <1>2, <2>1, <2>2 DEF VramShared
  <1>3. ASSUME NEW m \in Miners,
               \/ Vram!Load(m) \/ Vram!Measure(m) \/ Vram!Repair(m) \/ Vram!Train(m)
               \/ Vram!Finish(m) \/ Vram!OutOfMemory(m) \/ Vram!Exit(m)
        PROVE  VramShared'
    <2>1. /\ card' = card /\ baseline' = baseline /\ vramPc[m] # "off"
          /\ \/ vramPc' = vramPc
             \/ \E v \in Stages : v # "guarded" /\ vramPc' = [vramPc EXCEPT ![m] = v]
      BY <1>3 DEF Vram!Load, Vram!Measure, Vram!Repair, Vram!Train, Vram!Finish,
                  Vram!OutOfMemory, Vram!Exit, Vram!size, Stages
    <2> QED
      BY <1>2, <2>1 DEF VramMemory
  <1>4. CASE (\E e \in GuardLevels : Vram!Others(e)) \/ UNCHANGED Vram!vars
    <2>1. card' = card /\ baseline' = baseline /\ vramPc' = vramPc
      BY <1>4 DEF Vram!Others, Vram!size, Vram!vars
    <2> QED
      BY <1>2, <2>1
  <1> QED
    BY <1>1, <1>3, <1>4 DEF Vram!Next, Vram!Run

LEMMA RoomForOne ==
  ASSUME Vram!VramAssumption, VramMemory, VramShared
  PROVE  Vram!NeverAllParked
  <1>1. SUFFICES ASSUME Running # {}, \A m \in Running : vramPc[m] = "paused", ext = Vram!Quiet
                 PROVE  \E m \in Running : Vram!FreeOf(m) >= Vram!MinFree(m)
    BY DEF Vram!NeverAllParked, Running
  <1>2. Running \subseteq Miners /\ Running \in SUBSET Running
    BY DEF Running
  <1>3. PICK m \in Running :
          baseline[m] >= card
          \/ baseline[m] >= Vram!Quiet + ModelSize * (Cardinality(Running) - 1)
    BY <1>1, <1>2 DEF VramShared, MeasuredOf
  <1> DEFINE A == Running \ {m}
             n == Cardinality(A)
             u == UsedBy(Miners \ {m})
  <1>4. /\ m \in Miners /\ IsFiniteSet(Running) /\ IsFiniteSet(A) /\ IsFiniteSet(Miners \ {m})
        /\ A \subseteq Miners \ {m} /\ ModelSize \in Nat
    BY <1>2, <1>3, VramFacts, FS_Subset
  <1>5. /\ \A o \in Miners : held[o] \in Nat /\ cache[o] \in Nat
        /\ \A o \in Running : held[o] = ModelSize /\ cache[o] = 0
        /\ \A o \in Miners \ Running : held[o] = 0 /\ cache[o] = 0
    BY <1>1, <1>2 DEF VramMemory, Running
  <1>6. \A o \in Miners \ {m} : held[o] + cache[o] = IF o \in A THEN ModelSize ELSE 0
    BY <1>4, <1>5
  <1>7. u = ModelSize * n /\ u \in Nat /\ n \in Nat
    <2>1. \A o \in A : held[o] + cache[o] >= ModelSize
      BY <1>4, <1>5
    <2>2. \A o \in Miners \ {m} : held[o] \in Nat /\ cache[o] \in Nat
      BY <1>5
    <2> HIDE DEF A
    <2> QED
      BY <1>4, <1>6, <2>1, <2>2, UsedByBounds
  <1>8. Cardinality(Running) = n + 1
    <2>1. Running = A \cup {m} /\ m \notin A
      BY <1>3
    <2> HIDE DEF A
    <2> QED
      BY <1>4, <2>1, FS_AddElement
  <1>9. Cardinality(Running) - 1 = n
    BY <1>7, <1>8
  <1>10. /\ Vram!UsedByOthers(m) = ext + u /\ Vram!FreeOf(m) \in Nat /\ Vram!MinFree(m) \in Int
         /\ Vram!FreeOf(m) >= card - Vram!UsedByOthers(m) - held[m]
         /\ Vram!MinFree(m) > 0 => Vram!MinFree(m) <= card - cap[m] - baseline[m]
    BY <1>4, VramSeen
  <1>11. /\ card \in Nat /\ ext \in Nat /\ cap[m] \in Int /\ baseline[m] \in Int
         /\ cap[m] >= ModelSize /\ held[m] = ModelSize
    BY <1>3, <1>4, <1>5, VramFacts DEF VramMemory, Running
  <1>12. baseline[m] >= card \/ baseline[m] >= ext + u
    BY <1>1, <1>3, <1>7, <1>9
  <1>13. Vram!FreeOf(m) >= Vram!MinFree(m)
    <2> HIDE DEF u
    <2> QED
      BY <1>4, <1>7, <1>10, <1>11, <1>12
  <1> QED
    BY <1>3, <1>13

\* CardShared, for every number of miners, every card and every load of the other processes,
\* when the miners start one after the other: with the others back at their least, one of
\* the miners that wait for memory finds it free.  The last to measure saw the others'
\* models on the card, or saw none of it free, and waits for no more than what was left
\* beside them; and no size that failed is tried again.
THEOREM CardAlwaysShared ==
  ASSUME Vram!VramAssumption, ~Overlap
  PROVE  Vram!Init /\ [][Vram!Next]_(Vram!vars) => []Vram!CardShared
  <1> DEFINE Inv == VramMemory /\ VramShared
  <1>1. Vram!Init => Inv
    BY VramMemoryInit
  <1>2. Inv /\ [Vram!Next]_(Vram!vars) => Inv'
    BY VramMemoryStep, VramSharedStep
  <1>3. Inv => Vram!NeverAllParked
    BY RoomForOne
  <1>4. Vram!Init /\ [][Vram!Next]_(Vram!vars) => []Vram!OomLearns
    BY FailedSizesNotRetried
  <1>5. Vram!CardShared <=> Vram!NeverAllParked /\ Vram!OomLearns
    BY DEF Vram!CardShared
  <1> HIDE DEF Inv
  <1> QED
    BY <1>1, <1>2, <1>3, <1>4, <1>5, PTL

LEMMA VramYields ==
  ASSUME Vram!VramAssumption, VramMemory, [Vram!Next]_(Vram!vars) PROVE Vram!PausesForOthers
  <1>1. SUFFICES ASSUME NEW m \in Miners, vramPc[m] = "check", vramPc'[m] = "paused"
                 PROVE  Vram!UsedByOthers(m) > baseline[m]
    BY DEF Vram!PausesForOthers
  <1>2. ASSUME NEW o \in Miners, NEW v \in Stages, vramPc' = [vramPc EXCEPT ![o] = v]
        PROVE  o = m /\ v = "paused"
    BY <1>1, <1>2 DEF VramMemory
  <1>3. CASE Vram!Measure(m)
    <2>1. vramPc' = [vramPc EXCEPT ![m] = IF Vram!FreeOf(m) >= Vram!MinFree(m) THEN "round" ELSE "paused"]
      BY <1>3 DEF Vram!Measure
    <2>2. ~(Vram!FreeOf(m) >= Vram!MinFree(m))
      BY <1>1, <2>1 DEF VramMemory
    <2>3. /\ held[m] = ModelSize /\ cap[m] \in Int /\ cap[m] >= ModelSize /\ baseline[m] \in Int
          /\ ModelSize \in Nat /\ card \in Nat
      BY <1>1, VramFacts DEF VramMemory
    <2>4. /\ Vram!UsedByOthers(m) \in Nat /\ Vram!FreeOf(m) \in Nat /\ Vram!MinFree(m) \in Int
          /\ Vram!FreeOf(m) >= card - Vram!UsedByOthers(m) - held[m]
          /\ Vram!MinFree(m) > 0 => Vram!MinFree(m) <= card - cap[m] - baseline[m]
      BY VramSeen
    <2> QED
      BY <2>2, <2>3, <2>4
  <1>4. ASSUME NEW o \in Miners, Vram!Measure(o) PROVE o = m
    <2>1. \E v \in Stages : vramPc' = [vramPc EXCEPT ![o] = v]
      BY <1>4 DEF Vram!Measure, Stages
    <2> QED
      BY <1>2, <2>1
  <1>5. ASSUME NEW o \in Miners,
               \/ Vram!Guard(o) \/ Vram!Load(o) \/ Vram!Train(o) \/ Vram!Finish(o)
               \/ Vram!OutOfMemory(o) \/ Vram!Exit(o)
        PROVE  FALSE
    <2>1. \E v \in Stages : v # "paused" /\ vramPc' = [vramPc EXCEPT ![o] = v]
      BY <1>5 DEF Vram!Guard, Vram!Load, Vram!Train, Vram!Finish, Vram!OutOfMemory, Vram!Exit, Stages
    <2> QED
      BY <1>2, <2>1
  <1>6. CASE (\E e \in GuardLevels : Vram!Others(e)) \/ (\E o \in Miners : Vram!Repair(o))
             \/ UNCHANGED Vram!vars
    <2>1. vramPc' = vramPc
      BY <1>6 DEF Vram!Others, Vram!Repair, Vram!vars
    <2> QED
      BY <1>1, <2>1
  <1> QED
    BY <1>3, <1>4, <1>5, <1>6 DEF Vram!Next, Vram!Run

\* PausesForOthers, for every number of miners, started in any order: a miner that stops
\* for want of memory sees the others hold more than when it took its ceiling ("is
\* something ELSE crowding me out?").
THEOREM PausesOnlyForOthers ==
  ASSUME Vram!VramAssumption
  PROVE  Vram!Init /\ [][Vram!Next]_(Vram!vars) => [][Vram!PausesForOthers]_(Vram!vars)
  <1>1. Vram!Init => VramMemory
    BY VramMemoryInit
  <1>2. VramMemory /\ [Vram!Next]_(Vram!vars) => VramMemory'
    BY VramMemoryStep
  <1>3. VramMemory /\ [Vram!Next]_(Vram!vars) => Vram!PausesForOthers
    BY VramYields
  <1> QED
    BY <1>1, <1>2, <1>3, PTL

-----------------------------------------------------------------------------
(* DoseSearch.                                                              *)

\* The drift in hand is that of the rate in hand, once the seed is taken.
DoseInv ==
  /\ dosePc \in {"bracket", "bisect", "apply", "applied"} => rho = Dose!Rho(lr)
  /\ dosePc \in {"apply", "applied"} => Dose!Within(rho)

LEMMA DoseStep ==
  ASSUME DoseInv, [Dose!Next]_(Dose!vars) PROVE DoseInv'
  <1>1. response' = response /\ target' = target
    BY DEF Dose!Next, Dose!vars, Dose!Probe, Dose!Backoff, Dose!Seed, Dose!Bracket, Dose!BracketEnd,
                Dose!Bisect, Dose!BisectEnd, Dose!Apply
  <1>2. \A x : Dose!Rho(x)' = Dose!Rho(x)
    BY <1>1 DEF Dose!Rho
  <1>3. \A r : Dose!Within(r)' = Dose!Within(r)
    BY <1>1 DEF Dose!Within
  <1>4. ASSUME NEW x, Dose!Pass(x) PROVE rho' = Dose!Rho(lr')
    BY <1>4 DEF Dose!Pass
  <1>5. CASE Dose!Probe \/ Dose!Backoff
    BY <1>5 DEF Dose!Probe, Dose!Backoff, DoseInv
  <1>6. CASE Dose!Seed \/ Dose!Bracket \/ Dose!Bisect
    <2>1. rho' = Dose!Rho(lr') /\ dosePc' \in {"bracket", "bisect"}
      BY <1>4, <1>6 DEF Dose!Seed, Dose!Bracket, Dose!Bisect
    <2>2. rho' = Dose!Rho(lr)'
      BY <1>1, <2>1 DEF Dose!Rho
    <2> QED
      BY <2>1, <2>2 DEF DoseInv
  <1>7. CASE Dose!BracketEnd \/ Dose!BisectEnd \/ UNCHANGED Dose!vars
    <2>1. rho' = rho /\ lr' = lr
      BY <1>7 DEF Dose!BracketEnd, Dose!BisectEnd, Dose!vars
    <2>2. rho = Dose!Rho(lr) => rho' = Dose!Rho(lr)'
      BY <1>1, <2>1 DEF Dose!Rho
    <2>3. Dose!Within(rho) => Dose!Within(rho)'
      BY <1>1, <2>1 DEF Dose!Within
    <2> QED
      BY <1>7, <2>2, <2>3 DEF DoseInv, Dose!BracketEnd, Dose!BisectEnd, Dose!Converged, Dose!vars
  <1>8. CASE Dose!Apply
    <2>1. lr' = lr /\ rho' = Dose!Rho(lr) /\ dosePc = "apply"
      BY <1>8 DEF Dose!Apply, Dose!Pass
    <2>2. rho' = Dose!Rho(lr)'
      BY <1>1, <2>1 DEF Dose!Rho
    <2>3. Dose!Within(rho)'
      BY <1>1, <2>1 DEF DoseInv, Dose!Within
    <2> QED
      BY <2>2, <2>3 DEF DoseInv
  <1> QED
    BY <1>5, <1>6, <1>7, <1>8 DEF Dose!Next

\* What the search adds to the weights, for every cache, tolerance and number of steps, is a
\* pass whose drift is the target within the tolerance (solve_drift_or_refuse).
THEOREM DosesMatched ==
  Dose!Init /\ [][Dose!Next]_(Dose!vars) => []Dose!AppliesMatched
  <1>1. Dose!Init => DoseInv
    BY DEF Dose!Init, DoseInv
  <1>2. DoseInv /\ [Dose!Next]_(Dose!vars) => DoseInv'
    BY DoseStep
  <1>3. DoseInv => Dose!AppliesMatched
    BY DEF DoseInv, Dose!AppliesMatched
  <1> QED
    BY <1>1, <1>2, <1>3, PTL

\* A dose that exists is found: powers of two, and how each stage brings the search closer.

PowTo(f, k) == f = [i \in 0 .. k |-> IF i = 0 THEN 1 ELSE 2 * f[i - 1]]

LEMMA PowToExists == ASSUME NEW n \in Nat PROVE \E f : PowTo(f, n)
  <1> DEFINE bad == {k \in Nat : ~\E f : PowTo(f, k)}
  <1>1. SUFFICES ASSUME bad # {} PROVE FALSE
    OBVIOUS
  <1>2. PICK k \in bad : \A j \in bad : k <= j
    BY <1>1, LeastNatural
  <1>3. k # 0
    <2> DEFINE f == [i \in 0 .. 0 |-> 1]
    <2>1. f = [i \in 0 .. 0 |-> IF i = 0 THEN 1 ELSE 2 * f[i - 1]]
      OBVIOUS
    <2>2. 0 \notin bad
      BY <2>1 DEF PowTo
    <2> QED
      BY <2>2
  <1>4. k \in Nat /\ k - 1 \in Nat /\ k - 1 \notin bad
    BY <1>2, <1>3
  <1>5. PICK g : PowTo(g, k - 1)
    BY <1>4
  <1> DEFINE f == [i \in 0 .. k |-> IF i = k THEN 2 * g[k - 1] ELSE g[i]]
  <1>6. \A i \in 0 .. k : f[i] = IF i = k THEN 2 * g[k - 1] ELSE g[i]
    OBVIOUS
  <1>7. \A i \in 0 .. k - 1 : g[i] = IF i = 0 THEN 1 ELSE 2 * g[i - 1]
    BY <1>5 DEF PowTo
  <1>8. \A i \in 0 .. k : f[i] = IF i = 0 THEN 1 ELSE 2 * f[i - 1]
    <2> HIDE DEF f
    <2> TAKE i \in 0 .. k
    <2>1. CASE i = k
      <3>1. k - 1 \in 0 .. k /\ k - 1 # k /\ k \in 0 .. k
        BY <1>3, <1>4
      <3>2. f[k - 1] = g[k - 1]
        BY <1>6, <3>1
      <3> QED
        BY <1>3, <1>6, <2>1, <3>1, <3>2
    <2>2. CASE i # k /\ i # 0
      <3>1. i \in 0 .. k - 1 /\ i - 1 \in 0 .. k /\ i - 1 # k
        BY <1>4, <2>2
      <3>2. f[i] = g[i] /\ f[i - 1] = g[i - 1]
        BY <1>6, <2>2, <3>1
      <3> QED
        BY <1>7, <2>2, <3>1, <3>2
    <2>3. CASE i = 0
      <3>1. 0 \in 0 .. k - 1 /\ i # k
        BY <1>3, <1>4, <2>3
      <3> QED
        BY <1>6, <1>7, <2>3, <3>1
    <2> QED
      BY <2>1, <2>2, <2>3
  <1>9. f = [i \in 0 .. k |-> f[i]]
    OBVIOUS
  <1> HIDE DEF f
  <1>10. PowTo(f, k)
    BY <1>8, <1>9 DEF PowTo
  <1> QED
    BY <1>2, <1>10

LEMMA PowToUnique ==
  ASSUME NEW n \in Nat, NEW m \in Nat, n <= m, NEW f, PowTo(f, n), NEW g, PowTo(g, m)
  PROVE  \A i \in 0 .. n : f[i] = g[i]
  <1> DEFINE bad == {k \in 0 .. n : f[k] # g[k]}
  <1>1. SUFFICES ASSUME bad # {} PROVE FALSE
    OBVIOUS
  <1>2. PICK k \in bad : \A j \in bad : k <= j
    <2>1. bad \subseteq Nat
      OBVIOUS
    <2> HIDE DEF bad
    <2> QED
      BY <1>1, <2>1, LeastNatural
  <1>3. k \in 0 .. n /\ k \in 0 .. m
    BY <1>2
  <1>4. /\ f[k] = IF k = 0 THEN 1 ELSE 2 * f[k - 1]
        /\ g[k] = IF k = 0 THEN 1 ELSE 2 * g[k - 1]
    BY <1>3 DEF PowTo
  <1>5. k # 0 => k - 1 \in 0 .. n /\ k - 1 \notin bad
    BY <1>2, <1>3
  <1> QED
    BY <1>2, <1>4, <1>5

\* Pow doubles at each step.
LEMMA PowSteps == \A k \in Nat : Dose!Pow[k] = IF k = 0 THEN 1 ELSE 2 * Dose!Pow[k - 1]
  <1> DEFINE to(k) == CHOOSE f : PowTo(f, k)
             p == [k \in Nat |-> to(k)[k]]
  <1>1. \A k \in Nat : PowTo(to(k), k)
    BY PowToExists
  <1>2. ASSUME NEW k \in Nat PROVE p[k] = IF k = 0 THEN 1 ELSE 2 * p[k - 1]
    <2>1. p[k] = to(k)[k]
      OBVIOUS
    <2>2. to(k)[k] = IF k = 0 THEN 1 ELSE 2 * to(k)[k - 1]
      <3>1. PICK f : f = to(k)
        OBVIOUS
      <3>2. PowTo(f, k) /\ k \in 0 .. k
        BY <1>1, <3>1
      <3> HIDE DEF to
      <3>3. f[k] = IF k = 0 THEN 1 ELSE 2 * f[k - 1]
        BY <3>2 DEF PowTo
      <3> QED
        BY <3>1, <3>3
    <2>3. CASE k = 0
      BY <2>1, <2>2, <2>3
    <2>4. CASE k # 0
      <3>1. k - 1 \in Nat /\ k - 1 <= k /\ k - 1 \in 0 .. k - 1
        BY <2>4
      <3>2. p[k - 1] = to(k - 1)[k - 1]
        BY <3>1
      <3>3. PowTo(to(k), k) /\ PowTo(to(k - 1), k - 1)
        BY <1>1, <3>1
      <3> HIDE DEF to, p
      <3>4. to(k - 1)[k - 1] = to(k)[k - 1]
        BY <3>1, <3>3, PowToUnique
      <3> QED
        BY <2>1, <2>2, <2>4, <3>2, <3>4
    <2> QED
      BY <2>3, <2>4
  <1>3. p = [k \in Nat |-> p[k]]
    OBVIOUS
  <1> HIDE DEF p, to
  <1>4. p = [k \in Nat |-> IF k = 0 THEN 1 ELSE 2 * p[k - 1]]
    BY <1>2, <1>3
  <1>5. \E q : q = [k \in Nat |-> IF k = 0 THEN 1 ELSE 2 * q[k - 1]]
    BY <1>4
  <1>6. Dose!Pow = [k \in Nat |-> IF k = 0 THEN 1 ELSE 2 * Dose!Pow[k - 1]]
    BY <1>5 DEF Dose!Pow
  <1> QED
    BY <1>6

LEMMA PowPositive == \A k \in Nat : Dose!Pow[k] \in Nat \ {0}
  <1> DEFINE bad == {k \in Nat : Dose!Pow[k] \notin Nat \ {0}}
  <1>1. SUFFICES ASSUME bad # {} PROVE FALSE
    OBVIOUS
  <1>2. PICK k \in bad : \A j \in bad : k <= j
    BY <1>1, LeastNatural
  <1>3. k \in Nat /\ Dose!Pow[k] = IF k = 0 THEN 1 ELSE 2 * Dose!Pow[k - 1]
    BY <1>2, PowSteps
  <1>4. k # 0
    BY <1>2, <1>3
  <1>5. k - 1 \in Nat /\ k - 1 \notin bad
    BY <1>2, <1>4
  <1> QED
    BY <1>2, <1>3, <1>4, <1>5

LEMMA TimesMono ==
  ASSUME NEW a \in Nat, NEW b \in Nat, NEW c \in Nat, a <= b
  PROVE  a * c <= b * c /\ c * a <= c * b /\ a * c \in Nat /\ c * a \in Nat
  OBVIOUS

\* Halving what is left as often as the power doubles keeps the product.
LEMMA HalfTwice ==
  ASSUME NEW w \in Nat, NEW v \in Nat, NEW p \in Nat, 2 * v <= w
  PROVE  v * (2 * p) <= w * p
  <1>1. (2 * v) * p <= w * p
    BY TimesMono
  <1>2. v * (2 * p) = (2 * v) * p
    OBVIOUS
  <1> QED
    BY <1>1, <1>2

DoseType ==
  /\ response \in Responses /\ target \in Targets

LEMMA DoseFacts ==
  ASSUME Dose!DoseAssumption, DoseType
  PROVE  /\ response.slope \in Nat /\ response.curve \in Nat /\ response.flat \in Nat
         /\ response.edge \in Nat /\ response.top \in 0 .. Dose!Inf
         /\ target \in 1 .. Dose!Inf /\ Tol \in Nat /\ ProbeLr \in Nat \ {0} /\ MaxLr \in Nat
         /\ MaxBackoff \in Nat /\ MaxBracket \in Nat /\ MaxBisect \in Nat /\ Dose!Inf \in Nat
         /\ ProbeLr < 2 * Dose!Pow[MaxBackoff] /\ MaxLr <= Dose!Pow[2 * MaxBracket]
         /\ 4 * MaxLr <= Dose!Pow[MaxBisect] /\ target * ProbeLr <= Dose!Pow[MaxBisect]
  <1>1. \A r \in Responses : {r.slope, r.curve, r.flat, r.edge} \subseteq Nat /\ r.top \in 0 .. Dose!Inf
    BY DEF Dose!DoseAssumption
  <1>2. /\ response.slope \in Nat /\ response.curve \in Nat /\ response.flat \in Nat
        /\ response.edge \in Nat /\ response.top \in 0 .. Dose!Inf
    BY <1>1 DEF DoseType
  <1>3. /\ target \in 1 .. Dose!Inf /\ Tol \in Nat /\ ProbeLr \in Nat \ {0} /\ MaxLr \in Nat
        /\ MaxBackoff \in Nat /\ MaxBracket \in Nat /\ MaxBisect \in Nat /\ Dose!Inf \in Nat
    <2>1. Dose!Inf \in Nat
      BY SMT DEF Dose!Inf
    <2> QED
      BY <2>1 DEF DoseType, Dose!DoseAssumption
  <1>4. /\ ProbeLr < 2 * Dose!Pow[MaxBackoff] /\ MaxLr <= Dose!Pow[2 * MaxBracket]
        /\ 4 * MaxLr <= Dose!Pow[MaxBisect] /\ target * ProbeLr <= Dose!Pow[MaxBisect]
    BY DEF DoseType, Dose!DoseAssumption, Dose!Enough
  <1> QED
    BY <1>2, <1>3, <1>4

\* A drift is a number up to Inf, and a larger rate drifts no less.
LEMMA RhoMono ==
  ASSUME Dose!DoseAssumption, DoseType, NEW x \in Nat, NEW y \in Nat, x <= y
  PROVE  /\ Dose!Rho(x) \in 0 .. Dose!Inf
         /\ Dose!Rho(x) <= Dose!Rho(y)
  <1> DEFINE s == response.slope
             c == response.curve
             rise(z) == s * z + (c * z * z) \div 16
  <1>1. s \in Nat /\ c \in Nat /\ response.top \in 0 .. Dose!Inf /\ response.flat \in Nat
        /\ response.edge \in Nat /\ Dose!Inf \in Nat
    BY DoseFacts
  <1>2. ASSUME NEW z \in Nat PROVE rise(z) \in Nat
    <2>1. s * z \in Nat /\ c * z \in Nat
      BY <1>1, <1>2
    <2>2. (c * z) * z \in Nat
      BY <1>2, <2>1
    <2> DEFINE q == (c * z) * z
    <2> HIDE DEF q
    <2>3. q \div 16 \in Nat
      BY <2>2 DEF q
    <2> HIDE DEF s, c
    <2> QED
      BY <2>1, <2>3 DEF q
  <1>3. rise(x) <= rise(y)
    <2>1. s * x <= s * y /\ s * x \in Nat /\ s * y \in Nat
      BY <1>1, TimesMono
    <2>2. c * x <= c * y /\ c * x \in Nat /\ c * y \in Nat
      BY <1>1, TimesMono
    <2> DEFINE a == c * x
               b == c * y
    <2> HIDE DEF a, b
    <2>3. a \in Nat /\ b \in Nat /\ a <= b
      BY <2>2 DEF a, b
    <2>4. a * x <= b * x /\ b * x <= b * y /\ a * x \in Nat /\ b * x \in Nat /\ b * y \in Nat
      BY <2>3, TimesMono
    <2> DEFINE u == a * x
               v == b * y
    <2>5. u \in Nat /\ v \in Nat /\ u <= v
      BY <2>4
    <2> HIDE DEF u, v
    <2>6. u \div 16 <= v \div 16 /\ u \div 16 \in Nat /\ v \div 16 \in Nat
      BY <2>5
    <2> DEFINE sx == s * x
               sy == s * y
    <2> HIDE DEF s, c, sx, sy
    <2>7. sx + u \div 16 <= sy + v \div 16
      BY <2>1, <2>6 DEF sx, sy
    <2> QED
      BY <2>7 DEF sx, sy, u, v, a, b
  <1>4. \A z : Dose!Rho(z) = IF z >= response.edge THEN Dose!Inf
                             ELSE IF z < response.flat THEN 0
                             ELSE Dose!Lower(rise(z), response.top)
    BY DEF Dose!Rho
  <1> DEFINE rx == rise(x)
             ry == rise(y)
  <1>5. rx \in Nat /\ ry \in Nat /\ rx <= ry
    BY <1>2, <1>3
  <1>6. /\ Dose!Rho(x) = IF x >= response.edge THEN Dose!Inf
                         ELSE IF x < response.flat THEN 0 ELSE Dose!Lower(rx, response.top)
        /\ Dose!Rho(y) = IF y >= response.edge THEN Dose!Inf
                         ELSE IF y < response.flat THEN 0 ELSE Dose!Lower(ry, response.top)
    BY <1>4
  <1> HIDE DEF rise, rx, ry, s, c
  <1> QED
    BY <1>1, <1>5, <1>6 DEF Dose!Lower

\* A pass that is too small was at a rate below every one that lands, and one that is not,
\* or diverged, at a rate above them.
LEMMA Sides ==
  ASSUME Dose!DoseAssumption, DoseType, NEW x \in Nat, Dose!Within(Dose!Rho(x)),
         NEW y \in Nat, ~Dose!Within(Dose!Rho(y))
  PROVE  IF Dose!Below(Dose!Rho(y)) THEN y < x ELSE x < y
  <1>1. /\ Dose!Rho(x) \in 0 .. Dose!Inf /\ Dose!Rho(y) \in 0 .. Dose!Inf
        /\ x <= y => Dose!Rho(x) <= Dose!Rho(y)
        /\ y <= x => Dose!Rho(y) <= Dose!Rho(x)
    BY RhoMono
  <1>2. target \in 1 .. Dose!Inf /\ Tol \in Nat /\ Dose!Inf \in Nat
    BY DoseFacts
  <1> DEFINE rx == Dose!Rho(x)
             ry == Dose!Rho(y)
  <1> HIDE DEF rx, ry
  <1>3. /\ rx \in Nat /\ rx <= Dose!Inf /\ ry \in Nat /\ ry <= Dose!Inf
        /\ x <= y => rx <= ry
        /\ y <= x => ry <= rx
    BY <1>1, <1>2 DEF rx, ry
  <1>4. rx # Dose!Inf /\ rx - target <= Tol /\ target - rx <= Tol
    BY <1>2, <1>3 DEF rx, Dose!Within, Dose!Abs
  <1>5. ry = Dose!Inf \/ ry - target > Tol \/ target - ry > Tol
    BY <1>2, <1>3 DEF ry, Dose!Within, Dose!Abs
  <1>6. IF ry < target THEN y < x ELSE x < y
    BY <1>2, <1>3, <1>4, <1>5
  <1> QED
    BY <1>6 DEF ry, Dose!Below

\* The search on the way to a rate that lands the target.
Reaches(x) ==
  /\ dosePc \in {"probe", "backoff"} =>
       tries \in 0 .. MaxBackoff /\ lr \in Nat \ {0} /\ lr * Dose!Pow[tries] <= ProbeLr
  /\ dosePc = "backoff" => lr > 1
  /\ dosePc = "seed" => lr \in 1 .. ProbeLr /\ rho \in Nat
  /\ dosePc = "bracket" =>
       /\ tries \in 0 .. MaxBracket /\ rho = Dose!Rho(hi)
       /\ lo \in Nat /\ lo < x /\ lo < hi
       /\ hi \in Nat /\ Dose!Pow[2 * tries] <= hi /\ hi <= Dose!Pow[MaxBisect]
  /\ dosePc = "bisect" /\ ~Dose!Within(rho) =>
       /\ tries \in 0 .. MaxBisect /\ lo \in Nat /\ hi \in Nat /\ lo < x /\ x < hi
       /\ (hi - lo - 1) * Dose!Pow[tries] < Dose!Pow[MaxBisect]
  /\ dosePc \in {"seed", "bracket", "bisect", "apply"} => finite
  /\ dosePc \notin {"refused", "nonfinite"}

DoseWay == DoseType /\ \A x \in 1 .. MaxLr : Dose!Within(Dose!Rho(x)) => Reaches(x)

LEMMA DoseStays ==
  ASSUME [Dose!Next]_(Dose!vars)
  PROVE  /\ response' = response /\ target' = target
         /\ \A x : Dose!Rho(x)' = Dose!Rho(x)
         /\ \A r : Dose!Within(r)' = Dose!Within(r)
  <1>1. response' = response /\ target' = target
    BY DEF Dose!Next, Dose!vars, Dose!Probe, Dose!Backoff, Dose!Seed, Dose!Bracket, Dose!BracketEnd,
           Dose!Bisect, Dose!BisectEnd, Dose!Apply
  <1> QED
    BY <1>1 DEF Dose!Rho, Dose!Within

LEMMA DoseWayInit == ASSUME Dose!DoseAssumption, Dose!Init PROVE DoseWay
  <1>1. /\ DoseType /\ dosePc = "probe" /\ lr = ProbeLr /\ tries = 0
    BY DEF Dose!Init, DoseType
  <1>2. ProbeLr \in Nat \ {0} /\ MaxBackoff \in Nat /\ Dose!Pow[0] = 1
    BY <1>1, DoseFacts, PowSteps
  <1>3. lr * Dose!Pow[tries] <= ProbeLr
    BY <1>1, <1>2
  <1>4. \A x : Reaches(x)
    BY <1>1, <1>2, <1>3 DEF Reaches
  <1> QED
    BY <1>1, <1>4 DEF DoseWay

\* Halving the probe ends at a finite pass, before its budget does.
LEMMA ProbeReaches ==
  ASSUME Dose!DoseAssumption, DoseType, NEW x \in 1 .. MaxLr, Dose!Within(Dose!Rho(x)), Reaches(x),
         Dose!Probe \/ Dose!Backoff
  PROVE  Reaches(x)'
  <1>1. /\ tries \in 0 .. MaxBackoff /\ tries \in Nat /\ lr \in Nat \ {0}
        /\ lr * Dose!Pow[tries] <= ProbeLr
    BY DoseFacts DEF Dose!Probe, Dose!Backoff, Reaches
  <1>2. /\ ProbeLr \in Nat \ {0} /\ Dose!Inf \in Nat /\ MaxBackoff \in Nat /\ MaxLr \in Nat
        /\ ProbeLr < 2 * Dose!Pow[MaxBackoff] /\ x \in Nat /\ response.edge \in Nat
    BY DoseFacts
  <1>3. Dose!Pow[tries] \in Nat \ {0}
    BY <1>1, PowPositive
  <1>4. lr <= ProbeLr
    <2> DEFINE p == Dose!Pow[tries]
    <2> HIDE DEF p
    <2>1. p \in Nat /\ 1 <= p /\ lr * p <= ProbeLr
      BY <1>1, <1>3 DEF p
    <2>2. lr * 1 <= lr * p
      BY <1>1, <2>1, TimesMono
    <2> QED
      BY <1>1, <1>2, <2>1, <2>2
  <1>5. CASE Dose!Probe /\ Dose!Rho(lr) # Dose!Inf
    <2>1. dosePc' = "seed" /\ lr' = lr /\ rho' = Dose!Rho(lr) /\ finite'
      BY <1>5 DEF Dose!Probe, Dose!Pass
    <2>2. Dose!Rho(lr) \in Nat
      BY <1>1, <1>2, RhoMono
    <2> QED
      BY <1>1, <1>2, <1>4, <2>1, <2>2 DEF Reaches
  <1>6. CASE Dose!Probe /\ Dose!Rho(lr) = Dose!Inf
    <2>1. dosePc' = "backoff" /\ lr' = lr /\ tries' = tries
      BY <1>6 DEF Dose!Probe, Dose!Pass
    <2>2. lr > 1
      <3>1. ~(Dose!Within(Dose!Inf))
        BY DEF Dose!Within
      <3>2. x < lr
        <4>1. ~Dose!Within(Dose!Rho(lr)) /\ ~Dose!Below(Dose!Rho(lr))
          BY <1>2, <1>6, <3>1, DoseFacts DEF Dose!Below
        <4> QED
          BY <1>1, <1>2, <4>1, Sides
      <3> QED
        BY <1>1, <1>2, <3>2
    <2> QED
      BY <1>1, <2>1, <2>2 DEF Reaches
  <1>7. CASE Dose!Backoff
    <2>1. lr > 1
      BY <1>7 DEF Dose!Backoff, Reaches
    <2>2. tries < MaxBackoff
      <3>1. SUFFICES ASSUME tries = MaxBackoff PROVE FALSE
        BY <1>1, <1>2
      <3> DEFINE p == Dose!Pow[tries]
      <3>2. p \in Nat /\ lr * p <= ProbeLr /\ ProbeLr < 2 * p
        BY <1>1, <1>2, <1>3, <3>1
      <3> HIDE DEF p
      <3>3. 2 * p <= lr * p
        BY <1>1, <2>1, <3>2, TimesMono
      <3>4. lr * p \in Nat
        BY <1>1, <3>2
      <3> DEFINE q == lr * p
      <3> HIDE DEF q
      <3> QED
        BY <1>2, <3>2, <3>3, <3>4 DEF q
    <2>3. dosePc' = "probe" /\ lr' = lr \div 2 /\ tries' = tries + 1
      BY <1>7, <2>2 DEF Dose!Backoff
    <2>4. tries + 1 \in 0 .. MaxBackoff /\ Dose!Pow[tries + 1] = 2 * Dose!Pow[tries]
      <3>1. tries + 1 \in Nat /\ tries + 1 # 0 /\ (tries + 1) - 1 = tries
        BY <1>1
      <3> QED
        BY <1>1, <1>2, <2>2, <3>1, PowSteps
    <2>5. lr \div 2 \in Nat \ {0} /\ 2 * (lr \div 2) <= lr
      BY <1>1, <2>1
    <2>6. (lr \div 2) * (2 * Dose!Pow[tries]) <= ProbeLr
      <3> DEFINE h == lr \div 2
                 p == Dose!Pow[tries]
      <3>1. h \in Nat /\ p \in Nat /\ 2 * h <= lr /\ lr * p <= ProbeLr
        BY <1>1, <1>3, <2>5
      <3> HIDE DEF h, p
      <3>2. h * (2 * p) <= lr * p
        BY <1>1, <3>1, HalfTwice
      <3>3. h * (2 * p) \in Nat /\ lr * p \in Nat
        <4>1. 2 * p \in Nat
          BY <3>1
        <4> QED
          BY <1>1, <3>1, <4>1, TimesMono
      <3> DEFINE a == h * (2 * p)
                 b == lr * p
      <3> HIDE DEF a, b
      <3>4. a <= ProbeLr
        BY <1>2, <3>1, <3>2, <3>3 DEF a, b
      <3> QED
        BY <3>4 DEF a, h, p
    <2>7. lr' * Dose!Pow[tries'] <= ProbeLr
      BY <2>3, <2>4, <2>6
    <2>8. (Dose!Pow[tries])' = Dose!Pow[tries']
      OBVIOUS
    <2> QED
      BY <2>3, <2>4, <2>5, <2>7, <2>8 DEF Reaches
  <1> QED
    BY <1>5, <1>6, <1>7

\* The seed is within the span that bisection parts.
LEMMA SeedReaches ==
  ASSUME Dose!DoseAssumption, DoseType, NEW x \in 1 .. MaxLr, Reaches(x), Dose!Seed
  PROVE  Reaches(x)'
  <1>1. /\ lr \in 1 .. ProbeLr /\ rho \in Nat /\ finite
        /\ dosePc' = "bracket" /\ hi' = Dose!SeedLr /\ lo' = 0 /\ tries' = 0
        /\ rho' = Dose!Rho(Dose!SeedLr) /\ finite' = (finite \/ Dose!Rho(Dose!SeedLr) # Dose!Inf)
    BY DEF Dose!Seed, Dose!Pass, Reaches
  <1>2. /\ ProbeLr \in Nat \ {0} /\ target \in Nat \ {0} /\ MaxBracket \in Nat /\ MaxLr \in Nat
        /\ target * ProbeLr <= Dose!Pow[MaxBisect] /\ MaxBisect \in Nat
    BY DoseFacts
  <1>3. Dose!Pow[MaxBisect] \in Nat
    BY <1>2, PowPositive
  <1>4. Dose!SeedLr \in Nat \ {0} /\ Dose!SeedLr <= target * ProbeLr
    <2>1. /\ target * lr <= target * ProbeLr /\ 1 * ProbeLr <= target * ProbeLr
          /\ target * lr \in Nat /\ target * ProbeLr \in Nat
      BY <1>1, <1>2, TimesMono
    <2> DEFINE a == target * lr
               b == target * ProbeLr
    <2>2. a \in Nat /\ b \in Nat /\ a <= b /\ ProbeLr <= b
      BY <1>2, <2>1
    <2> HIDE DEF a, b
    <2>3. CASE rho > 0
      <3>1. a \div rho \in Nat /\ a \div rho <= a
        BY <1>1, <2>2, <2>3
      <3> DEFINE q == a \div rho
      <3> HIDE DEF q
      <3>2. Dose!SeedLr = Dose!Higher(q, 1)
        BY <2>3 DEF Dose!SeedLr, q, a
      <3>3. q \in Nat /\ q <= a
        BY <3>1 DEF q
      <3>4. Dose!SeedLr \in Nat \ {0} /\ Dose!SeedLr <= b
        BY <1>2, <2>2, <3>2, <3>3 DEF Dose!Higher
      <3> QED
        BY <3>4 DEF b
    <2>4. CASE ~(rho > 0)
      <3>1. Dose!SeedLr = lr
        BY <2>4 DEF Dose!SeedLr
      <3>2. Dose!SeedLr \in Nat \ {0} /\ Dose!SeedLr <= b
        BY <1>1, <1>2, <2>2, <3>1
      <3> QED
        BY <3>2 DEF b
    <2> QED
      BY <2>3, <2>4
  <1>5. Dose!SeedLr <= Dose!Pow[MaxBisect]
    <2> DEFINE b == target * ProbeLr
    <2>1. b \in Nat /\ Dose!SeedLr <= b /\ b <= Dose!Pow[MaxBisect]
      BY <1>2, <1>4
    <2> HIDE DEF b
    <2> QED
      BY <1>3, <1>4, <2>1
  <1>6. Dose!Pow[2 * 0] = 1
    BY PowSteps
  <1>7. /\ tries' \in 0 .. MaxBracket /\ lo' \in Nat /\ lo' < x /\ lo' < hi' /\ hi' \in Nat
        /\ Dose!Pow[2 * tries'] <= hi' /\ hi' <= Dose!Pow[MaxBisect]
    BY <1>1, <1>2, <1>4, <1>5, <1>6
  <1>8. rho' = Dose!Rho(hi)'
    <2>1. Dose!Rho(hi)' = Dose!Rho(hi')
      BY DEF Dose!Seed, Dose!Rho
    <2> QED
      BY <1>1, <2>1
  <1> QED
    BY <1>1, <1>7, <1>8 DEF Reaches

\* The bracket stays below the rate until it holds it, and is then no wider than the span.
LEMMA BracketReaches ==
  ASSUME Dose!DoseAssumption, DoseType, NEW x \in 1 .. MaxLr, Dose!Within(Dose!Rho(x)), Reaches(x),
         Dose!Bracket \/ Dose!BracketEnd
  PROVE  Reaches(x)'
  <1>1. /\ tries \in 0 .. MaxBracket /\ rho = Dose!Rho(hi) /\ finite
        /\ lo \in Nat /\ lo < x /\ lo < hi
        /\ hi \in Nat /\ Dose!Pow[2 * tries] <= hi /\ hi <= Dose!Pow[MaxBisect]
    BY DEF Dose!Bracket, Dose!BracketEnd, Reaches
  <1>2. /\ MaxBracket \in Nat /\ MaxLr \in Nat /\ MaxBisect \in Nat /\ x \in Nat /\ x <= MaxLr
        /\ MaxLr <= Dose!Pow[2 * MaxBracket] /\ 4 * MaxLr <= Dose!Pow[MaxBisect]
    BY DoseFacts
  <1>3. Dose!Pow[MaxBisect] \in Nat /\ Dose!Pow[2 * tries] \in Nat /\ Dose!Pow[2 * MaxBracket] \in Nat
    <2>1. 2 * tries \in Nat /\ 2 * MaxBracket \in Nat
      BY <1>1, <1>2
    <2> QED
      BY <1>2, <2>1, PowPositive
  <1>4. ~Dose!Within(rho) => IF Dose!Below(rho) THEN hi < x ELSE x < hi
    BY <1>1, <1>2, Sides
  <1>5. CASE Dose!Bracket
    <2>1. /\ Dose!Below(rho) /\ ~Dose!Within(rho) /\ tries < MaxBracket
          /\ lo' = hi /\ hi' = hi * 4 /\ rho' = Dose!Rho(hi * 4) /\ tries' = tries + 1
          /\ dosePc' = dosePc /\ dosePc = "bracket" /\ finite' = (finite \/ Dose!Rho(hi * 4) # Dose!Inf)
      BY <1>5 DEF Dose!Bracket, Dose!Brackets, Dose!Pass
    <2>2. hi < x
      BY <1>4, <2>1
    <2>3. tries + 1 \in 0 .. MaxBracket /\ Dose!Pow[2 * (tries + 1)] = 4 * Dose!Pow[2 * tries]
      <3> DEFINE k == 2 * tries
      <3>1. k \in Nat /\ 2 * (tries + 1) = k + 2
        BY <1>1
      <3> HIDE DEF k
      <3>2. Dose!Pow[k + 2] = 2 * Dose!Pow[k + 1]
        <4>1. k + 2 \in Nat /\ k + 2 # 0 /\ (k + 2) - 1 = k + 1
          BY <3>1
        <4> QED
          BY <4>1, PowSteps
      <3>3. Dose!Pow[k + 1] = 2 * Dose!Pow[k]
        <4>1. k + 1 \in Nat /\ k + 1 # 0 /\ (k + 1) - 1 = k
          BY <3>1
        <4> QED
          BY <4>1, PowSteps
      <3>4. Dose!Pow[k] \in Nat
        BY <3>1, PowPositive
      <3>5. Dose!Pow[k + 2] = 4 * Dose!Pow[k]
        BY <3>2, <3>3, <3>4
      <3>6. tries + 1 \in 0 .. MaxBracket
        BY <1>1, <1>2, <2>1
      <3> QED
        BY <3>1, <3>5, <3>6 DEF k
    <2>4. 4 * Dose!Pow[2 * tries] <= hi * 4 /\ hi * 4 <= Dose!Pow[MaxBisect] /\ hi * 4 \in Nat /\ hi < hi * 4
      BY <1>1, <1>2, <1>3, <2>2
    <2>5. Dose!Rho(hi)' = Dose!Rho(hi')
      BY <1>5 DEF Dose!Bracket, Dose!Rho
    <2>6. /\ tries' \in 0 .. MaxBracket /\ rho' = Dose!Rho(hi)'
          /\ lo' \in Nat /\ lo' < x /\ lo' < hi' /\ hi' \in Nat
          /\ Dose!Pow[2 * tries'] <= hi' /\ hi' <= Dose!Pow[MaxBisect]
      BY <1>1, <2>1, <2>2, <2>3, <2>4, <2>5
    <2> QED
      BY <1>1, <2>1, <2>6 DEF Reaches
  <1>6. CASE Dose!BracketEnd
    <2>1. /\ dosePc' = "bisect" /\ tries' = 0 /\ lo' = lo /\ hi' = hi /\ rho' = rho /\ finite' = finite
          /\ ~Dose!Below(rho) \/ Dose!Within(rho) \/ ~(tries < MaxBracket)
      BY <1>6 DEF Dose!BracketEnd, Dose!Brackets
    <2>2. ASSUME ~Dose!Within(rho) PROVE x < hi
      <3>1. SUFFICES ASSUME Dose!Below(rho) PROVE FALSE
        BY <1>4, <2>2
      <3>2. tries = MaxBracket /\ hi < x
        BY <1>1, <1>2, <1>4, <2>1, <2>2, <3>1
      <3> QED
        BY <1>1, <1>2, <1>3, <3>2
    <2>3. Dose!Pow[0] = 1 /\ 0 \in 0 .. MaxBisect
      BY <1>2, PowSteps
    <2>4. (hi - lo - 1) * 1 < Dose!Pow[MaxBisect]
      BY <1>1, <1>3
    <2>5. Dose!Within(rho)' = Dose!Within(rho')
      BY <1>6 DEF Dose!BracketEnd, Dose!Within
    <2>6. ~Dose!Within(rho') =>
            /\ tries' \in 0 .. MaxBisect /\ lo' \in Nat /\ hi' \in Nat /\ lo' < x /\ x < hi'
            /\ (hi' - lo' - 1) * Dose!Pow[tries'] < Dose!Pow[MaxBisect]
      BY <1>1, <2>1, <2>2, <2>3, <2>4
    <2> QED
      BY <1>1, <2>1, <2>5, <2>6 DEF Reaches
  <1> QED
    BY <1>5, <1>6

\* Bisection keeps the rate between its ends and halves the rates between them, so that it
\* lands before its budget ends.
LEMMA BisectReaches ==
  ASSUME Dose!DoseAssumption, DoseType, NEW x \in 1 .. MaxLr, Dose!Within(Dose!Rho(x)), Reaches(x),
         Dose!Bisect \/ Dose!BisectEnd
  PROVE  Reaches(x)'
  <1>1. /\ dosePc = "bisect" /\ finite /\ MaxBisect \in Nat /\ x \in Nat
        /\ ~Dose!Within(rho) =>
             /\ tries \in 0 .. MaxBisect /\ lo \in Nat /\ hi \in Nat /\ lo < x /\ x < hi
             /\ (hi - lo - 1) * Dose!Pow[tries] < Dose!Pow[MaxBisect]
    BY DoseFacts DEF Dose!Bisect, Dose!BisectEnd, Reaches
  <1>2. CASE Dose!BisectEnd
    <2>1. Dose!Within(rho)
      <3>1. SUFFICES ASSUME ~Dose!Within(rho) PROVE FALSE
        OBVIOUS
      <3>2. tries = MaxBisect
        BY <1>2, <3>1 DEF Dose!BisectEnd
      <3> DEFINE w == hi - lo - 1
                 p == Dose!Pow[MaxBisect]
      <3>3. p \in Nat \ {0}
        BY <1>1, PowPositive
      <3>4. w \in Nat \ {0} /\ w * p < p
        BY <1>1, <3>1, <3>2
      <3> HIDE DEF w, p
      <3>5. 1 * p <= w * p /\ w * p \in Nat
        BY <3>3, <3>4, TimesMono
      <3> DEFINE q == w * p
      <3> HIDE DEF q
      <3> QED
        BY <3>3, <3>4, <3>5 DEF q
    <2>2. dosePc' = "apply" /\ finite' = finite
      BY <1>1, <1>2, <2>1 DEF Dose!BisectEnd, Dose!Converged
    <2> QED
      BY <1>1, <2>2 DEF Reaches
  <1>3. CASE Dose!Bisect
    <2> DEFINE mid == Dose!Mid
               w == hi - lo - 1
               v == hi' - lo' - 1
    <2>1. /\ ~Dose!Within(rho) /\ tries < MaxBisect /\ tries' = tries + 1 /\ dosePc' = dosePc
          /\ rho' = Dose!Rho(mid) /\ finite' = (finite \/ Dose!Rho(mid) # Dose!Inf)
          /\ IF Dose!Below(Dose!Rho(mid)) THEN lo' = mid /\ hi' = hi ELSE hi' = mid /\ lo' = lo
      BY <1>3 DEF Dose!Bisect, Dose!Pass
    <2>2. /\ tries \in Nat /\ lo \in Nat /\ hi \in Nat /\ lo < x /\ x < hi
          /\ w * Dose!Pow[tries] < Dose!Pow[MaxBisect]
      BY <1>1, <2>1
    <2>3. mid \in Nat /\ lo < mid /\ mid < hi /\ 2 * (hi - mid - 1) <= w /\ 2 * (mid - lo - 1) <= w
      BY <1>1, <2>2 DEF Dose!Mid
    <2> HIDE DEF mid
    <2>4. Dose!Within(rho)' = Dose!Within(rho')
      BY <1>3 DEF Dose!Bisect, Dose!Within
    <2>5. ASSUME ~Dose!Within(rho')
          PROVE  /\ tries' \in 0 .. MaxBisect /\ lo' \in Nat /\ hi' \in Nat /\ lo' < x /\ x < hi'
                 /\ v * Dose!Pow[tries'] < Dose!Pow[MaxBisect]
      <3>1. IF Dose!Below(Dose!Rho(mid)) THEN mid < x ELSE x < mid
        BY <1>1, <2>1, <2>3, <2>5, Sides
      <3>2. /\ lo' \in Nat /\ hi' \in Nat /\ lo' < x /\ x < hi' /\ w \in Nat /\ v \in Nat /\ 2 * v <= w
        BY <1>1, <2>1, <2>2, <2>3, <3>1
      <3>3. Dose!Pow[tries + 1] = 2 * Dose!Pow[tries]
        <4>1. tries + 1 \in Nat /\ tries + 1 # 0 /\ (tries + 1) - 1 = tries
          BY <2>2
        <4> QED
          BY <4>1, PowSteps
      <3>4. Dose!Pow[tries] \in Nat /\ Dose!Pow[MaxBisect] \in Nat
        BY <1>1, <2>2, PowPositive
      <3> DEFINE p == Dose!Pow[tries]
      <3> HIDE DEF w, v, p
      <3>5. v * (2 * p) <= w * p
        BY <3>2, <3>4, HalfTwice DEF p
      <3>6. v * (2 * p) \in Nat /\ w * p \in Nat
        <4>1. 2 * p \in Nat /\ p \in Nat
          BY <3>4 DEF p
        <4> QED
          BY <3>2, <4>1, TimesMono
      <3>7. w * p < Dose!Pow[MaxBisect]
        BY <2>2 DEF p
      <3> DEFINE a == v * (2 * p)
                 b == w * p
      <3> HIDE DEF a, b
      <3>8. a < Dose!Pow[MaxBisect]
        BY <3>4, <3>5, <3>6, <3>7 DEF a, b
      <3>9. v * Dose!Pow[tries'] < Dose!Pow[MaxBisect]
        BY <2>1, <3>3, <3>8 DEF a, p
      <3>10. tries' \in 0 .. MaxBisect
        BY <1>1, <2>1, <2>2
      <3> QED
        BY <3>2, <3>9, <3>10
    <2> QED
      BY <1>1, <2>1, <2>4, <2>5 DEF Reaches
  <1> QED
    BY <1>2, <1>3

LEMMA DoseWayStep ==
  ASSUME Dose!DoseAssumption, DoseWay, DoseInv, [Dose!Next]_(Dose!vars)
  PROVE  DoseWay'
  <1>1. /\ DoseType' /\ MaxLr \in Nat
        /\ \A y : Dose!Rho(y)' = Dose!Rho(y)
        /\ \A r : Dose!Within(r)' = Dose!Within(r)
    BY DoseStays, DoseFacts DEF DoseWay, DoseType
  <1>2. SUFFICES ASSUME NEW x \in 1 .. MaxLr, Dose!Within(Dose!Rho(x)) PROVE Reaches(x)'
    <2>1. \A y : Dose!Within(Dose!Rho(y))' <=> Dose!Within(Dose!Rho(y))
      BY DoseStays DEF Dose!Within, Dose!Rho
    <2> QED
      BY <1>1, <1>2, <2>1 DEF DoseWay
  <1>3. DoseType /\ Reaches(x)
    BY <1>2 DEF DoseWay
  <1>4. CASE Dose!Probe \/ Dose!Backoff
    BY <1>2, <1>3, <1>4, ProbeReaches
  <1>5. CASE Dose!Seed
    BY <1>2, <1>3, <1>5, SeedReaches
  <1>6. CASE Dose!Bracket \/ Dose!BracketEnd
    BY <1>2, <1>3, <1>6, BracketReaches
  <1>7. CASE Dose!Bisect \/ Dose!BisectEnd
    BY <1>2, <1>3, <1>7, BisectReaches
  <1>8. CASE Dose!Apply
    <2>1. Dose!Within(rho) /\ rho = Dose!Rho(lr)
      BY <1>8 DEF DoseInv, Dose!Apply
    <2>2. Dose!Rho(lr) # Dose!Inf
      BY <2>1 DEF Dose!Within
    <2>3. dosePc' = "applied"
      BY <1>8, <2>2 DEF Dose!Apply
    <2> QED
      BY <2>3 DEF Reaches
  <1>9. CASE UNCHANGED Dose!vars
    <2>1. /\ dosePc' = dosePc /\ lr' = lr /\ rho' = rho /\ lo' = lo /\ hi' = hi /\ tries' = tries
          /\ finite' = finite /\ response' = response /\ target' = target
      BY <1>9 DEF Dose!vars
    <2>2. (Dose!Rho(hi))' = Dose!Rho(hi) /\ (Dose!Within(rho))' = Dose!Within(rho)
      BY <2>1 DEF Dose!Rho, Dose!Within
    <2> QED
      BY <1>3, <2>1, <2>2 DEF Reaches
  <1> QED
    BY <1>4, <1>5, <1>6, <1>7, <1>8, <1>9 DEF Dose!Next

\* A dose is found wherever some rate up to MaxLr lands the target, for every cache, target
\* and tolerance, when the budgets are enough (Enough), and nothing else goes into the
\* weights: a pass that was too small, or diverged, leaves the rate between the ends of the
\* search, and the rates between them run out before the budget does ("A diverged pass is
\* NOT fatal. It is an UPPER BOUND").
THEOREM DosesAlwaysFound ==
  ASSUME Dose!DoseAssumption
  PROVE  Dose!Init /\ [][Dose!Next]_(Dose!vars) => []Dose!DoseFound
  <1> DEFINE Inv == DoseInv /\ DoseWay
  <1>1. Dose!Init => Inv
    BY DoseWayInit DEF Dose!Init, DoseInv
  <1>2. Inv /\ [Dose!Next]_(Dose!vars) => Inv'
    BY DoseStep, DoseWayStep
  <1>3. Inv => Dose!DoseFound
    <2>1. SUFFICES ASSUME DoseInv, DoseWay PROVE Dose!AppliesMatched /\ Dose!FindsReachable
      BY DEF Dose!DoseFound
    <2>2. Dose!AppliesMatched
      BY <2>1 DEF DoseInv, Dose!AppliesMatched
    <2>3. Dose!FindsReachable
      BY <2>1 DEF DoseWay, Reaches, Dose!FindsReachable
    <2> QED
      BY <2>2, <2>3
  <1> HIDE DEF Inv
  <1> QED
    BY <1>1, <1>2, <1>3, PTL

-----------------------------------------------------------------------------
(* Side by side.                                                            *)

\* A step of one part leaves the others alone.
LEMMA CorpusBeside == [Next]_vars => [Corpus!Next]_(Corpus!vars)
  BY DEF Next, vars, Corpus!vars, corpusVars, besideVram, besideTuner, besideLayer, besideHealth,
         besideDose, besideJudge, besideHost, besideRound, besideSync, besidePipe

LEMMA VramBeside == [Next]_vars => [Vram!Next]_(Vram!vars)
  BY DEF Next, vars, Vram!vars, vramVars, besideCorpus, besideTuner, besideLayer, besideHealth,
         besideDose, besideJudge, besideHost, besideRound, besideSync, besidePipe

LEMMA TunerBeside == [Next]_vars => [Tuner!Next]_(Tuner!vars)
  BY DEF Next, vars, Tuner!vars, tunerVars, besideCorpus, besideVram, besideLayer, besideHealth,
         besideDose, besideJudge, besideHost, besideRound, besideSync, besidePipe

LEMMA LayerBeside == [Next]_vars => [Layer!Next]_(Layer!vars)
  BY DEF Next, vars, Layer!vars, layerVars, besideCorpus, besideVram, besideTuner, besideHealth,
         besideDose, besideJudge, besideHost, besideRound, besideSync, besidePipe

LEMMA HealthBeside == [Next]_vars => [Health!Next]_(Health!vars)
  BY DEF Next, vars, Health!vars, Health!lane, Health!liveness, Health!records, healthVars,
         besideCorpus, besideVram, besideTuner, besideLayer,
         besideDose, besideJudge, besideHost, besideRound, besideSync, besidePipe

LEMMA DoseBeside == [Next]_vars => [Dose!Next]_(Dose!vars)
  BY DEF Next, vars, Dose!vars, doseVars, besideCorpus, besideVram, besideTuner, besideLayer,
         besideHealth, besideJudge, besideHost, besideRound, besideSync, besidePipe

LEMMA JudgeBeside == [Next]_vars => [Judge!Next]_(Judge!vars)
  BY DEF Next, vars, Judge!vars, Judge!gate, Judge!judge, judgeVars,
         besideCorpus, besideVram, besideTuner, besideLayer,
         besideHealth, besideDose, besideHost, besideRound, besideSync, besidePipe

LEMMA HostBeside == [Next]_vars => [Host!Next]_(Host!vars)
  BY DEF Next, vars, Host!vars, hostVars, besideCorpus, besideVram, besideTuner, besideLayer,
         besideHealth, besideDose, besideJudge, besideRound, besideSync, besidePipe

LEMMA RoundBeside == [Next]_vars => [Round!Next]_(Round!vars)
  BY DEF Next, vars, Round!vars, roundVars, besideCorpus, besideVram, besideTuner, besideLayer,
         besideHealth, besideDose, besideJudge, besideHost, besideSync, besidePipe

LEMMA SyncBeside == [Next]_vars => [Sync!Next]_(Sync!vars)
  BY DEF Next, vars, Sync!vars, Sync!coordinator, Sync!process, Sync!seen, Sync!records, syncVars,
         besideCorpus, besideVram, besideTuner, besideLayer,
         besideHealth, besideDose, besideJudge, besideHost, besideRound, besidePipe

LEMMA PipeBeside == [Next]_vars => [Pipe!Next]_(Pipe!vars)
  BY DEF Next, vars, Pipe!vars, Pipe!store, Pipe!driver, Pipe!stage, Pipe!faults, pipeVars, besideCorpus, besideVram, besideTuner, besideLayer,
         besideHealth, besideDose, besideJudge, besideHost, besideRound, besideSync

\* A miner has a whole, verified corpus whenever it trains, for every corpus and every way a
\* record and the polls of the box follow each other: the theorem of the corpus, beside
\* the other parts (glm_data_autosync, rotate_corpus_part).
THEOREM CorpusKeptBeside == Spec => []CorpusKept
  <1>1. Init => Corpus!Init
    BY DEF Init
  <1>2. [Next]_vars => [Corpus!Next]_(Corpus!vars)
    BY CorpusBeside
  <1>3. Corpus!CorpusAssumption
    BY PartsAssumption
  <1>4. Corpus!Init /\ [][Corpus!Next]_(Corpus!vars) => []Corpus!CorpusKept
    BY <1>3, CorpusAlwaysKept
  <1> QED
    BY <1>1, <1>2, <1>4, PTL DEF Spec, CorpusKept

\* A verdict is about the weights it moves, for every number of coordinates and weights
\* (JudgeGate, ProductJudge).
THEOREM VerdictsHoldBeside == Spec => []VerdictsHold
  <1>1. Init => Judge!Init
    BY DEF Init
  <1>2. [Next]_vars => [Judge!Next]_(Judge!vars)
    BY JudgeBeside
  <1> QED
    BY <1>1, <1>2, VerdictsAlwaysHold, PTL DEF Spec, VerdictsHold

\* The store of an expert host is exactly the accepted deltas, each measured alone, for
\* every number of experts and deltas (the canonical list and its repair).
THEOREM StoreExactBeside == Spec => []StoreExact
  <1>1. Init => Host!Init
    BY DEF Init
  <1>2. [Next]_vars => [Host!Next]_(Host!vars)
    BY HostBeside
  <1> QED
    BY <1>1, <1>2, StoreAlwaysExact, PTL DEF Spec, StoreExact

\* A round starts on the advertised base and leaves the model plain, with its best measured
\* state published, for every number of miners, rounds, layers and losses (the replay of
\* the synchronous lane, and the attach and detach of a layer's factors).
THEOREM RoundsCleanBeside == Spec => []RoundsClean
  <1>1. Init => Sync!Init /\ Round!Init
    BY DEF Init
  <1>2. [Next]_vars => [Sync!Next]_(Sync!vars) /\ [Round!Next]_(Round!vars)
    BY SyncBeside, RoundBeside
  <1>3. Sync!SyncAssumption /\ Round!RoundAssumption
    BY PartsAssumption
  <1>4. Sync!Init /\ [][Sync!Next]_(Sync!vars) => []Sync!BasesAgree
    BY <1>3, BasesAlwaysAgree
  <1>5. Round!Init /\ [][Round!Next]_(Round!vars) => []Round!RoundsClean
    BY <1>3, RoundsAlwaysClean
  <1> QED
    BY <1>1, <1>2, <1>4, <1>5, PTL DEF Spec, RoundsClean

\* What stands under a name is what its reader takes it for: publication names and pipeline.
THEOREM NamesKeptBeside ==
  ASSUME PipeRun
  PROVE  Spec => []NamesKept
  <1>1. Init => Health!Init /\ Pipe!Init
    BY DEF Init
  <1>2. [Next]_vars => [Health!Next]_(Health!vars) /\ [Pipe!Next]_(Pipe!vars)
    BY HealthBeside, PipeBeside
  <1>3. Pipe!Init /\ [][Pipe!Next]_(Pipe!vars) => []Pipe!Sound
    BY PipesAlwaysSound
  <1> QED
    BY <1>1, <1>2, <1>3, OwnRecordsAlwaysKept, PTL DEF Spec, NamesKept

\* CardShared, for every number of miners of a card, started one after the other, and every
\* load of the other processes: none keeps the others out by what it holds, and the report
\* of the other manager stays under its ceiling (apply_vram_guard and VramManager).
THEOREM CardSharedBeside ==
  ASSUME ~Overlap
  PROVE  Spec => []CardShared
  <1>1. Init => Vram!Init /\ Tuner!Init
    BY DEF Init
  <1>2. [Next]_vars => [Vram!Next]_(Vram!vars) /\ [Tuner!Next]_(Tuner!vars)
    BY VramBeside, TunerBeside
  <1>3. Vram!VramAssumption /\ Tuner!TunerAssumption
    BY PartsAssumption
  <1>4. Vram!Init /\ [][Vram!Next]_(Vram!vars) => []Vram!CardShared
    BY <1>3, CardAlwaysShared
  <1>5. Tuner!Init /\ [][Tuner!Next]_(Tuner!vars) => []Tuner!ReportCovered
    BY <1>3, ReportAlwaysCovered
  <1> QED
    BY <1>1, <1>2, <1>4, <1>5, PTL DEF Spec, CardShared

\* CardYielded, for every number of miners, started in any order: a miner stops only for the
\* other processes of its card, and the other manager grows only into memory that stayed
\* free (_pause_on_low_free_vram and the streak of VramManager).
THEOREM CardYieldedBeside == Spec => CardYielded
  <1>1. Init => Vram!Init /\ Tuner!Init
    BY DEF Init
  <1>2. [Next]_vars => [Vram!Next]_(Vram!vars) /\ [Tuner!Next]_(Tuner!vars)
    BY VramBeside, TunerBeside
  <1>3. Vram!VramAssumption /\ Tuner!TunerAssumption
    BY PartsAssumption
  <1>4. Vram!Init /\ [][Vram!Next]_(Vram!vars) => [][Vram!PausesForOthers]_(Vram!vars)
    BY <1>3, PausesOnlyForOthers
  <1>5. Tuner!Init /\ [][Tuner!Next]_(Tuner!vars) => [][Tuner!GrowsWhenHeld]_(Tuner!vars)
    BY <1>3, GrowthIsHeld
  <1>6. UNCHANGED Vram!vars => Vram!PausesForOthers
    BY DEF Vram!vars, Vram!PausesForOthers
  <1>7. Tuner!Init => TunerInv
    BY <1>3, TunerInit
  <1>8. TunerInv /\ [Tuner!Next]_(Tuner!vars) => TunerInv'
    BY <1>3, TunerStep
  <1>9. TunerInv /\ UNCHANGED Tuner!vars => Tuner!GrowsWhenHeld
    BY DEF Tuner!vars, Tuner!GrowsWhenHeld, TunerInv, TunerType
  <1>10. [Vram!PausesForOthers]_(Vram!vars) /\ [Tuner!GrowsWhenHeld]_(Tuner!vars) /\ TunerInv
           => [Vram!PausesForOthers /\ Tuner!GrowsWhenHeld]_vars
    BY <1>6, <1>9
  <1> QED
    BY <1>1, <1>2, <1>4, <1>5, <1>7, <1>8, <1>10, PTL DEF Spec, CardYielded

\* DosesTrue, for every cache, target and number of chunks: the search for the dose lands on
\* the target wherever some rate does, and the gradients it is taken from are one whole
\* cache's (solve_drift_or_refuse, and the fetch of the layer cache).
THEOREM DosesTrueBeside == Spec => []DosesTrue
  <1>1. Init => Dose!Init /\ Layer!Init
    BY DEF Init
  <1>2. [Next]_vars => [Dose!Next]_(Dose!vars) /\ [Layer!Next]_(Layer!vars)
    BY DoseBeside, LayerBeside
  <1>3. Dose!DoseAssumption /\ Layer!LayerAssumption
    BY PartsAssumption
  <1>4. Dose!Init /\ [][Dose!Next]_(Dose!vars) => []Dose!DoseFound
    BY <1>3, DosesAlwaysFound
  <1>5. Layer!Init /\ [][Layer!Next]_(Layer!vars) => []Layer!WholeCaches
    BY <1>3, CachesAlwaysWhole
  <1> QED
    BY <1>1, <1>2, <1>4, <1>5, PTL DEF Spec, DosesTrue
=============================================================================
