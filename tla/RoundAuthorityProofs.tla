------------------------ MODULE RoundAuthorityProofs ------------------------
(***************************************************************************)
(* Proofs about RoundAuthority for any number of candidates, strangers,    *)
(* rounds, retries and proposals, of which fewer than timeout_m candidates *)
(* are mistaken and at least one is not: no candidate is passed over that  *)
(* produced, the replicas of the candidates that keep to the drive are     *)
(* prefixes of one log, and every replica replays to what it holds.        *)
(***************************************************************************)
EXTENDS RoundAuthority, FiniteSetTheorems, WellFoundedInduction, TLAPS

\* What the proofs suppose of the deployment: some candidate keeps to the
\* drive, and those that do not are too few to sign a view change alone.
FewMistaken == Honest # {} /\ Cardinality(Mistaken) < TimeoutM

\* The validators of a round authority are a list of addresses without stakes.
BareValidators == StakeOf = NoStakes

-----------------------------------------------------------------------------
(* The inductive invariant.                                                 *)

HeightsOf(ch) == {ch.blocks[i].hdr.height : i \in DOMAIN ch.blocks}
Heights(c) == HeightsOf(chain[c])

Increasing(blocks) ==
  \A i, j \in DOMAIN blocks : i < j => blocks[i].hdr.height < blocks[j].hdr.height

IsChain(ch) ==
  /\ ch \in [blocks : {ch.blocks}, head : {ch.head}, bal : {ch.bal}, minted : {ch.minted}]
  /\ ch.blocks \in Seq(Range(ch.blocks))
  /\ ch.head = PrevOf(ch.blocks, Len(ch.blocks) + 1)

\* A replica is a chain of rounds begun; one that keeps to the drive has each once.
Replicas ==
  /\ round \in Rounds /\ pending \in BOOLEAN /\ stopped \in BOOLEAN
  /\ chain = [c \in Members |-> chain[c]]
  /\ \A c \in Members : IsChain(chain[c]) /\ Heights(c) \subseteq 1 .. round
  /\ \A c \in Honest : Increasing(chain[c].blocks)

\* Whoever signed a timeout saw that candidate down, and in a round begun.
Attested ==
  /\ DOMAIN downIn = Rounds /\ DOMAIN accepted = Rounds
  /\ \A t \in timeouts : t.round \in 1 .. round /\ t.failed \in downIn[t.round]

\* The bus of a round: none yet, one nonce of each candidate, or a retry, in
\* which every candidate has committed twice and none is in the order.
Bus ==
  /\ \/ commits = {} /\ ~pending /\ timeouts = {} /\ order = <<>>
        /\ \A c \in Members : Heights(c) = {}
     \/ /\ \A com \in commits : com.digest.n \in {0, 1}
        /\ \A s \in Members : Commit(round, s, 1) \in commits
     \/ \A s \in Members : Equivocates(s, commits)
  /\ order \in Seq(Range(order)) /\ \A s \in Range(order) : ~Equivocates(s, commits)

\* While a round that can elect a candidate is pending, nothing of it is
\* settled by a candidate that keeps to the drive, and nobody has signed a timeout.
Unsettled ==
  pending /\ Range(order) \cap Members # {} =>
    /\ \A c \in Honest : round \notin Heights(c)
    /\ \A t \in timeouts : t.round # round

\* The peers the envelope has yet to reach.
Waiting == IF sent = NoEnvelope THEN {} ELSE Range(sent.to)

InFlight ==
  sent # NoEnvelope =>
    /\ ~stopped
    /\ sent \in [env : {sent.env}, driven : BOOLEAN, round : {sent.round}, to : Seq(Members)]
    /\ sent.to # <<>>
    /\ \A i, j \in DOMAIN sent.to : sent.to[i] = sent.to[j] => i = j
    /\ sent.env.by \in Members \cap Range(order) /\ sent.env.by \notin Range(sent.to)
    /\ sent.env.by \in Honest => sent.driven
    /\ sent.env.round = round /\ sent.env.block.hdr.height = round /\ sent.env.view \in Nat
    /\ IF sent.env.agreed
         THEN \A t \in sent.env.quorums : t \in timeouts \/ t.by \in Mistaken
         ELSE sent.env.down \subseteq downIn[round]
    /\ pending => sent.env.agreed /\ sent.env.view > 0
    /\ \A c \in Honest \cap Waiting : Acceptable(c, sent.env) => round \notin Heights(c)

\* The candidates that keep to the drive hold the same chain; while an envelope
\* is handed round, those it has reached have its block and the others have not.
Together ==
  ~stopped =>
    /\ \A c, d \in Honest : (c \in Waiting <=> d \in Waiting) => chain[c] = chain[d]
    /\ \A c \in Honest \cap Waiting, d \in Honest \ Waiting :
         IF sent.env.by \in Honest \/ Acceptable(c, sent.env)
           THEN chain[d] = Extended(chain[c], sent.env.block)
           ELSE chain[d] = chain[c]

AuthorityInv ==
  Replicas /\ Attested /\ Bus /\ Unsettled /\ InFlight /\ Together /\ PrimaryKept

-----------------------------------------------------------------------------
(* About the operators: the first candidate up, the peers, a chain.         *)

\* Every set of naturals that has an element has a least one.
LEMMA LeastNatural ==
  ASSUME NEW S, S \subseteq Nat, S # {}
  PROVE  \E x \in S : \A y \in S : x <= y
  <1> DEFINE R == {p \in Nat \X Nat : p[1] < p[2]}
  <1>1. IsWellFoundedOn(R, Nat)
    BY NatLessThanWellFounded DEF OpToRel
  <1>2. PICK x \in S : \A y \in S : ~(<<y, x>> \in R)
    BY <1>1, WFMin
  <1>3. \A y \in S : ~(y < x)
    BY <1>2
  <1> QED
    BY <1>3

\* Everyone before the first candidate up is down.
LEMMA FirstUpIsFirst ==
  ASSUME NEW ord, ord \in Seq(Range(ord)), NEW down, UpAt(ord, down) # {}
  PROVE  /\ FirstUp(ord, down) \in UpAt(ord, down)
         /\ \A i \in DOMAIN ord : i < FirstUp(ord, down) => ord[i] \in down
  <1>1. UpAt(ord, down) \subseteq Nat
    BY DEF UpAt
  <1>2. \E i \in UpAt(ord, down) : \A j \in UpAt(ord, down) : i <= j
    BY <1>1, LeastNatural
  <1>3. /\ FirstUp(ord, down) \in UpAt(ord, down)
        /\ \A j \in UpAt(ord, down) : FirstUp(ord, down) <= j
    BY <1>2 DEF FirstUp
  <1>4. ASSUME NEW i \in DOMAIN ord, i < FirstUp(ord, down) PROVE ord[i] \in down
    <2>1. i \notin UpAt(ord, down)
      BY <1>1, <1>3, <1>4
    <2> QED
      BY <2>1 DEF UpAt
  <1> QED
    BY <1>3, <1>4

\* The other candidates are all the others, each of them once.
LEMMA OthersAreOthers ==
  ASSUME NEW c \in Members
  PROVE  /\ Others(c) \in Seq(Members) /\ Others(c) # <<>>
         /\ \A i, j \in DOMAIN Others(c) : Others(c)[i] = Others(c)[j] => i = j
         /\ Range(Others(c)) = Members \ {c}
  <1> DEFINE k == CHOOSE i \in DOMAIN Candidates : Candidates[i] = c
             n == Len(Candidates)
  <1>1. n \in Nat /\ n >= 2 /\ DOMAIN Candidates = 1 .. n
    BY AuthorityConstants
  <1>2. \A i, j \in 1 .. n : Candidates[i] = Candidates[j] => i = j
    BY <1>1, AuthorityConstants
  <1>3. \A i \in 1 .. n : Candidates[i] \in Members
    BY <1>1 DEF Members, Range
  <1>4. k \in 1 .. n /\ Candidates[k] = c
    BY <1>1 DEF Members, Range
  <1>5. Others(c) = [i \in 1 .. n - 1 |-> Candidates[IF i < k THEN i ELSE i + 1]]
    BY DEF Others
  <1> HIDE DEF k, n
  <1>6. \A i \in 1 .. n - 1 : (IF i < k THEN i ELSE i + 1) \in (1 .. n) \ {k}
    BY <1>1, <1>4
  <1>7. Others(c) \in Seq(Members) /\ Len(Others(c)) = n - 1 /\ DOMAIN Others(c) = 1 .. n - 1
    BY <1>1, <1>3, <1>5, <1>6
  <1>8. \A i, j \in 1 .. n - 1 : Others(c)[i] = Others(c)[j] => i = j
    BY <1>1, <1>2, <1>4, <1>5, <1>6
  <1>9. c \notin Range(Others(c))
    BY <1>2, <1>4, <1>5, <1>6, <1>7 DEF Range
  <1>10. ASSUME NEW d \in Members \ {c} PROVE d \in Range(Others(c))
    <2>1. PICK j \in 1 .. n : Candidates[j] = d
      BY <1>1 DEF Members, Range
    <2>2. j # k
      BY <1>4, <2>1
    <2>3. CASE j < k
      <3>1. j \in 1 .. n - 1 /\ Others(c)[j] = d
        BY <1>1, <1>4, <1>5, <2>1, <2>3
      <3> QED
        BY <1>7, <3>1 DEF Range
    <2>4. CASE j > k
      <3>1. j - 1 \in 1 .. n - 1 /\ ~(j - 1 < k) /\ (j - 1) + 1 = j
        BY <1>1, <1>4, <2>4
      <3>2. Others(c)[j - 1] = d
        BY <1>5, <2>1, <3>1
      <3> QED
        BY <1>7, <3>1, <3>2 DEF Range
    <2> QED
      BY <1>4, <2>2, <2>3, <2>4
  <1>11. Range(Others(c)) \subseteq Members
    BY <1>7 DEF Range
  <1> QED
    BY <1>1, <1>7, <1>8, <1>9, <1>10, <1>11

\* What a block adds to a chain.
LEMMA ExtendedFields ==
  ASSUME NEW ch, IsChain(ch), NEW rec
  PROVE  /\ IsChain(Extended(ch, rec))
         /\ Extended(ch, rec).blocks = Append(ch.blocks, rec)
         /\ Extended(ch, rec).head = Hash(rec.hdr)
         /\ DOMAIN Extended(ch, rec).blocks = 1 .. Len(ch.blocks) + 1
         /\ \A i \in 1 .. Len(ch.blocks) : Extended(ch, rec).blocks[i] = ch.blocks[i]
         /\ Extended(ch, rec).blocks[Len(ch.blocks) + 1] = rec
  <1> DEFINE x == Extended(ch, rec)
  <1>1. x \in [blocks : {x.blocks}, head : {x.head}, bal : {x.bal}, minted : {x.minted}]
        /\ x.blocks = Append(ch.blocks, rec) /\ x.head = Hash(rec.hdr)
    BY DEF IsChain, Extended, ApplyBlock
  <1> HIDE DEF x
  <1>2. ch.blocks \in Seq(Range(ch.blocks)) /\ Len(ch.blocks) \in Nat
        /\ DOMAIN ch.blocks = 1 .. Len(ch.blocks)
    BY DEF IsChain
  <1>3. x.blocks \in Seq(Range(ch.blocks) \cup {rec}) /\ Len(x.blocks) = Len(ch.blocks) + 1
    BY <1>1, <1>2
  <1>4. \A i \in 1 .. Len(ch.blocks) : x.blocks[i] = ch.blocks[i]
    BY <1>1, <1>2
  <1>5. x.blocks[Len(ch.blocks) + 1] = rec
    BY <1>1, <1>2
  <1>6. x.blocks \in Seq(Range(x.blocks))
    BY <1>3 DEF Range
  <1>7. x.head = PrevOf(x.blocks, Len(x.blocks) + 1)
    BY <1>1, <1>2, <1>3, <1>5 DEF PrevOf
  <1> QED
    BY <1>1, <1>2, <1>3, <1>4, <1>5, <1>6, <1>7 DEF IsChain, x

\* Chains with one head end with one header, and a chain that has a head has a block.
LEMMA SameHead ==
  ASSUME NEW a, NEW b, IsChain(a), IsChain(b), a.head = b.head, a.blocks # <<>>
  PROVE  /\ b.blocks # <<>>
         /\ a.blocks[Len(a.blocks)].hdr = b.blocks[Len(b.blocks)].hdr
  <1>1. Len(a.blocks) \in Nat /\ Len(a.blocks) # 0 /\ Len(b.blocks) \in Nat
    BY DEF IsChain
  <1> DEFINE last(ch) == ch.blocks[Len(ch.blocks)].hdr
  <1>2. a.head = Hash(last(a))
    BY <1>1 DEF IsChain, PrevOf
  <1>3. b.blocks # <<>>
    <2>1. SUFFICES ASSUME b.blocks = <<>> PROVE FALSE
      OBVIOUS
    <2>2. b.head = <<>>
      BY <2>1 DEF IsChain, PrevOf, GENESIS_PREV_HASH
    <2>3. Len(b.head) = 0 /\ Len(Hash(last(a))) = 1
      BY <2>2 DEF Hash
    <2> QED
      BY <1>2, <2>3
  <1>4. Len(b.blocks) # 0
    BY <1>3 DEF IsChain
  <1>5. b.head = Hash(last(b))
    BY <1>1, <1>4 DEF IsChain, PrevOf
  <1>6. Hash(last(a))[1] = last(a) /\ Hash(last(b))[1] = last(b)
    BY DEF Hash
  <1> QED
    BY <1>2, <1>3, <1>5, <1>6

-----------------------------------------------------------------------------
(* What a view change proves.                                               *)

LEMMA MembersFinite == IsFiniteSet(Members) /\ IsFiniteSet(Mistaken)
  <1>1. Candidates \in Surjection(1 .. Len(Candidates), Members)
    BY AuthorityConstants DEF Surjection, Members, Range
  <1>2. IsFiniteSet(1 .. Len(Candidates))
    BY FS_Interval, AuthorityConstants
  <1>3. IsFiniteSet(Members)
    BY <1>1, <1>2, FS_Surjection
  <1> QED
    BY <1>3, FS_Subset, AuthorityConstants

\* One of its signers is not mistaken.
LEMMA HonestSigner ==
  ASSUME FewMistaken, NEW atts, NEW ord, NEW r, NEW view,
         VerifyTimeoutQuorum(atts, ord, r, view)
  PROVE  \E s : s \notin Mistaken /\ Timeout(s, r, ord[view + 1], view) \in atts
  <1> DEFINE signers == {s \in Range(ord) : Timeout(s, r, ord[view + 1], view) \in atts}
  <1>1. Cardinality(signers) >= TimeoutM
    BY DEF VerifyTimeoutQuorum
  <1>2. SUFFICES ASSUME signers \subseteq Mistaken PROVE FALSE
    OBVIOUS
  <1>3. Cardinality(signers) <= Cardinality(Mistaken)
    BY <1>2, MembersFinite, FS_Subset
  <1>4. Cardinality(signers) \in Nat /\ Cardinality(Mistaken) \in Nat
    BY <1>2, MembersFinite, FS_Subset, FS_CardinalityType
  <1> QED
    BY <1>1, <1>3, <1>4, AuthorityConstants DEF FewMistaken

\* What the drive's observers sign is about candidates they saw down, in this round.
LEMMA SignedOfTheDown ==
  ASSUME NEW r, NEW ord, ord \in Seq(Range(ord)), NEW down,
         NEW t \in SignedWhileDown(r, ord, down)
  PROVE  t.round = r /\ t.failed \in down
  <1> DEFINE views == IF ViewChangeHolds(r, ord, down) THEN 1 ELSE FirstUp(ord, down) - 1
  <1>1. ord # <<>> /\ ord[1] \in down /\ t \in Observed(r, ord, down, views)
    BY DEF SignedWhileDown
  <1>2. PICK v \in 0 .. (views - 1) : t.round = r /\ t.failed = ord[v + 1]
    BY <1>1 DEF Observed, Timeout
  <1>3. CASE ViewChangeHolds(r, ord, down)
    BY <1>1, <1>2, <1>3
  <1>4. CASE ~ViewChangeHolds(r, ord, down)
    <2>1. UpAt(ord, down) # {}
      BY <1>4 DEF ViewChangeHolds
    <2>2. FirstUp(ord, down) \in UpAt(ord, down)
          /\ \A i \in DOMAIN ord : i < FirstUp(ord, down) => ord[i] \in down
      BY <2>1, FirstUpIsFirst
    <2>3. FirstUp(ord, down) \in 1 .. Len(ord) /\ Len(ord) \in Nat /\ DOMAIN ord = 1 .. Len(ord)
      BY <2>2 DEF UpAt
    <2>4. v + 1 < FirstUp(ord, down) /\ v + 1 \in DOMAIN ord
      BY <1>2, <1>4, <2>3
    <2> QED
      BY <1>2, <2>2, <2>4
  <1> QED
    BY <1>3, <1>4

-----------------------------------------------------------------------------
(* Each step keeps the invariant.                                           *)

\* The order a round comes to is a sequence of signers that did not equivocate.
LEMMA OrderOfBus ==
  ASSUME NEW coms, NEW revs, NEW ord \in Orders(ValidSigners(coms, revs))
  PROVE  /\ ord \in Seq(Range(ord))
         /\ \A s \in Range(ord) : ~Equivocates(s, coms)
  <1> DEFINE V == ValidSigners(coms, revs)
  <1>1. IsFiniteSet(Ids)
    BY MembersFinite, FS_Union, AuthorityConstants DEF Ids
  <1>2. V \subseteq Ids
    BY DEF ValidSigners
  <1>3. Cardinality(V) \in Nat
    BY <1>1, <1>2, FS_Subset, FS_CardinalityType
  <1>4. ord \in [1 .. Cardinality(V) -> V]
    BY DEF Orders
  <1>5. \A s \in V : ~Equivocates(s, coms)
    BY DEF ValidSigners
  <1> HIDE DEF V
  <1>6. Range(ord) \subseteq V
    BY <1>4 DEF Range
  <1>7. ord \in Seq(Range(ord))
    BY <1>3, <1>4 DEF Range
  <1> QED
    BY <1>5, <1>6, <1>7

\* A candidate that commits again in a round equivocates; the first commit does not.
LEMMA BusGrows ==
  ASSUME AuthorityInv, NEW r \in Rounds, BeginRound(r)
  PROVE  /\ \/ /\ \A com \in commits' : com.digest.n \in {0, 1}
               /\ \A s \in Members : Commit(r, s, 1) \in commits'
            \/ \A s \in Members : Equivocates(s, commits')
         /\ r = round => \/ \A s \in Members : Equivocates(s, commits')
                         \/ timeouts = {} /\ \A c \in Members : Heights(c) = {}
  <1> DEFINE coms == IF r = round THEN commits ELSE {}
             new(n) == {Commit(r, s, n) : s \in Members}
  <1>1. PICK extra \in Injected(r) : commits' = coms \cup extra.coms \cup new(Fresh(coms))
    BY DEF BeginRound
  <1>2. \A com \in extra.coms : com.digest.n = 0
    BY <1>1 DEF Injected, Commit
  <1>3. \A n : \A com \in new(n) : com.digest.n = n
    BY DEF Commit
  <1>4. \A n : \A s \in Members : Commit(r, s, n) \in new(n)
    OBVIOUS
  <1>5. \A n, m, s : n # m => Commit(r, s, n).digest # Commit(r, s, m).digest
    BY DEF Commit
  <1> HIDE DEF new
  <1>6. CASE coms = {}
    <2>1. Fresh({}) = 1
      <3>1. {com.digest.n : com \in {}} \ {0} = {}
        OBVIOUS
      <3> QED
        BY <3>1, FS_EmptySet DEF Fresh
    <2>2. \A com \in commits' : com.digest.n \in {0, 1}
      BY <1>1, <1>2, <1>3, <1>6, <2>1
    <2>3. \A s \in Members : Commit(r, s, 1) \in commits'
      BY <1>1, <1>4, <1>6, <2>1
    <2>4. r = round => timeouts = {} /\ \A c \in Members : Heights(c) = {}
      <3>1. PICK s0 : s0 \in Members
        BY AuthorityConstants DEF Members, Range
      <3>2. SUFFICES ASSUME commits = {} PROVE timeouts = {} /\ \A c \in Members : Heights(c) = {}
        BY <1>6
      <3>3. ~Equivocates(s0, commits) /\ Commit(round, s0, 1) \notin commits
        BY <3>2 DEF Equivocates
      <3>4. Bus
        BY DEF AuthorityInv
      <3> QED
        BY <3>1, <3>3, <3>4 DEF Bus
    <2> QED
      BY <2>2, <2>3, <2>4
  <1>7. CASE coms # {}
    <2>1. r = round /\ coms = commits
      BY <1>7
    <2>2. SUFFICES \A s \in Members : Equivocates(s, commits')
      BY <2>1
    <2>3. CASE \A s \in Members : Equivocates(s, commits)
      BY <1>1, <2>1, <2>3 DEF Equivocates
    <2>4. CASE /\ \A com \in commits : com.digest.n \in {0, 1}
               /\ \A s \in Members : Commit(round, s, 1) \in commits
      <3>1. PICK s0 : s0 \in Members
        BY AuthorityConstants DEF Members, Range
      <3>2. Commit(round, s0, 1).digest.n = 1
        BY DEF Commit
      <3>3. {com.digest.n : com \in commits} \ {0} = {1}
        BY <2>4, <3>1, <3>2
      <3>4. Fresh(coms) = 2
        <4>1. Cardinality({1}) = 1
          BY FS_Singleton
        <4> HIDE DEF coms
        <4> QED
          BY <2>1, <3>3, <4>1 DEF Fresh
      <3>5. ASSUME NEW s \in Members PROVE Equivocates(s, commits')
        <4>1. Commit(r, s, 1) \in commits' /\ Commit(r, s, 2) \in commits'
          BY <1>1, <1>4, <2>1, <2>4, <3>4
        <4>2. Commit(r, s, 1).signer = s /\ Commit(r, s, 2).signer = s
          BY DEF Commit
        <4>3. Commit(r, s, 1).digest # Commit(r, s, 2).digest
          BY <1>5
        <4> QED
          BY <4>1, <4>2, <4>3 DEF Equivocates
      <3> QED
        BY <3>5
    <2>5. CASE commits = {}
      BY <1>7, <2>1, <2>5
    <2> QED
      BY <2>3, <2>4, <2>5 DEF AuthorityInv, Bus
  <1> QED
    BY <1>6, <1>7

LEMMA BeginRoundKeeps ==
  ASSUME AuthorityInv, NEW r \in Rounds, BeginRound(r)
  PROVE  AuthorityInv'
  <1>1. /\ r \in {round, round + 1} /\ round' = r /\ pending' = TRUE /\ sent = NoEnvelope
        /\ UNCHANGED <<chain, timeouts, sent, minerSeq, stopped, downIn, accepted>>
    BY DEF BeginRound, history
  <1>2. round \in Nat /\ r \in Nat
    BY DEF AuthorityInv, Replicas, Rounds
  <1>3. \A c : Heights(c)' = Heights(c)
    BY <1>1 DEF Heights
  <1>4. Replicas'
    BY <1>1, <1>2, <1>3 DEF AuthorityInv, Replicas
  <1>5. Attested'
    BY <1>1, <1>2 DEF AuthorityInv, Attested
  <1>6. order' \in Orders(ValidSigners(commits', reveals'))
    BY DEF BeginRound
  <1>7. order' \in Seq(Range(order')) /\ \A s \in Range(order') : ~Equivocates(s, commits')
    BY <1>6, OrderOfBus
  <1>8. Bus'
    BY <1>1, <1>7, BusGrows DEF Bus
  <1>9. Unsettled'
    <2>1. CASE r = round
      <3>1. \/ Range(order') \cap Members = {}
            \/ timeouts = {} /\ \A c \in Members : Heights(c) = {}
        BY <1>7, <2>1, BusGrows
      <3> QED
        BY <1>1, <1>3, <3>1 DEF Unsettled, Honest
    <2>2. CASE r = round + 1
      <3>1. \A c \in Members : r \notin Heights(c)
        BY <1>2, <2>2 DEF AuthorityInv, Replicas
      <3>2. \A t \in timeouts : t.round # r
        BY <1>2, <2>2 DEF AuthorityInv, Attested
      <3> QED
        BY <1>1, <1>3, <3>1, <3>2 DEF Unsettled, Honest
    <2> QED
      BY <1>1, <2>1, <2>2
  <1>10. InFlight' /\ PrimaryKept'
    BY <1>1 DEF AuthorityInv, InFlight, PrimaryKept
  <1>11. Together'
    BY <1>1 DEF AuthorityInv, Together, Waiting
  <1> QED
    BY <1>4, <1>5, <1>8, <1>9, <1>10, <1>11 DEF AuthorityInv

LEMMA HeightsExtended ==
  ASSUME NEW ch, IsChain(ch), NEW rec
  PROVE  /\ HeightsOf(Extended(ch, rec)) = HeightsOf(ch) \cup {rec.hdr.height}
         /\ (\A h \in HeightsOf(ch) : h < rec.hdr.height) /\ Increasing(ch.blocks)
              => Increasing(Extended(ch, rec).blocks)
  <1> DEFINE x == Extended(ch, rec)
             n == Len(ch.blocks)
  <1>1. /\ DOMAIN x.blocks = 1 .. n + 1 /\ DOMAIN ch.blocks = 1 .. n /\ n \in Nat
        /\ \A i \in 1 .. n : x.blocks[i] = ch.blocks[i]
        /\ x.blocks[n + 1] = rec
    <2>1. n \in Nat /\ DOMAIN ch.blocks = 1 .. n
      BY DEF IsChain
    <2>2. /\ DOMAIN Extended(ch, rec).blocks = 1 .. Len(ch.blocks) + 1
          /\ \A i \in 1 .. Len(ch.blocks) : Extended(ch, rec).blocks[i] = ch.blocks[i]
          /\ Extended(ch, rec).blocks[Len(ch.blocks) + 1] = rec
      BY ONLY IsChain(ch), ExtendedFields, ZenonT(60)
    <2> QED
      BY ONLY <2>1, <2>2 DEF x, n
  <1> HIDE DEF x, n
  <1>2. HeightsOf(x) = HeightsOf(ch) \cup {rec.hdr.height}
    <2>1. ASSUME NEW h \in HeightsOf(x) PROVE h \in HeightsOf(ch) \cup {rec.hdr.height}
      <3>1. PICK i \in 1 .. n + 1 : h = x.blocks[i].hdr.height
        BY <1>1, <2>1 DEF HeightsOf
      <3>2. i \in 1 .. n \/ i = n + 1
        BY <1>1
      <3> QED
        BY <1>1, <3>1, <3>2 DEF HeightsOf
    <2>2. ASSUME NEW h \in HeightsOf(ch) PROVE h \in HeightsOf(x)
      <3>1. PICK i \in 1 .. n : h = ch.blocks[i].hdr.height
        BY <1>1, <2>2 DEF HeightsOf
      <3>2. i \in 1 .. n + 1 /\ h = x.blocks[i].hdr.height
        BY <1>1, <3>1
      <3> QED
        BY <1>1, <3>2 DEF HeightsOf
    <2>3. rec.hdr.height \in HeightsOf(x)
      <3>1. n + 1 \in 1 .. n + 1
        BY <1>1
      <3> QED
        BY <1>1, <3>1 DEF HeightsOf
    <2> QED
      BY <2>1, <2>2, <2>3
  <1>3. ASSUME \A h \in HeightsOf(ch) : h < rec.hdr.height, Increasing(ch.blocks)
        PROVE  Increasing(x.blocks)
    <2>1. \A i \in 1 .. n : ch.blocks[i].hdr.height < rec.hdr.height
      BY <1>1, <1>3 DEF HeightsOf
    <2>2. \A i \in 1 .. n + 1 : i \in 1 .. n \/ i = n + 1
      BY <1>1
    <2> QED
      BY <1>1, <1>3, <2>1, <2>2 DEF Increasing
  <1> QED
    BY <1>2, <1>3 DEF x

\* A block of the round settled on the proposer's own replica.
LEMMA ProposedReplicas ==
  ASSUME AuthorityInv, NEW p \in Members, chain' = Propose(p, round),
         round' = round, pending' \in BOOLEAN, stopped' = stopped,
         p \in Honest => round \notin Heights(p)
  PROVE  /\ Replicas'
         /\ \A c \in Members : c # p => chain'[c] = chain[c]
         /\ chain'[p] = Extended(chain[p], Proposal(p, round))
         /\ Proposal(p, round).hdr.height = round
         /\ Proposal(p, round).hdr.prev = chain[p].head
  <1> DEFINE b == Proposal(p, round)
  <1>1. b.hdr.height = round /\ b.hdr.prev = chain[p].head
    BY DEF Proposal, SettledBlock
  <1>2. /\ chain' = [c \in Members |-> chain'[c]]
        /\ \A c \in Members : c # p => chain'[c] = chain[c]
        /\ chain'[p] = Extended(chain[p], b)
    BY DEF AuthorityInv, Replicas, Propose
  <1> HIDE DEF b
  <1>3. IsChain(chain[p]) /\ Heights(p) \subseteq 1 .. round /\ round \in Nat /\ round \in 1 .. round
    BY DEF AuthorityInv, Replicas, Rounds
  <1>4. IsChain(chain'[p]) /\ HeightsOf(chain'[p]) \subseteq 1 .. round
    <2>1. IsChain(Extended(chain[p], b))
      BY <1>3, ExtendedFields
    <2>2. HeightsOf(Extended(chain[p], b)) = HeightsOf(chain[p]) \cup {round}
      BY <1>1, <1>3, HeightsExtended
    <2> QED
      BY <1>2, <1>3, <2>1, <2>2 DEF Heights
  <1>5. ASSUME p \in Honest PROVE Increasing(chain'[p].blocks)
    <2>1. \A h \in HeightsOf(chain[p]) : h < round
      BY <1>3, <1>5 DEF Heights
    <2>2. Increasing(chain[p].blocks)
      BY <1>5 DEF AuthorityInv, Replicas
    <2> QED
      BY <1>1, <1>2, <1>3, <2>1, <2>2, HeightsExtended
  <1>6. Replicas'
    BY <1>2, <1>4, <1>5 DEF AuthorityInv, Replicas, Heights, Honest
  <1> QED
    BY <1>1, <1>2, <1>6 DEF b

LEMMA FinishRoundKeeps ==
  ASSUME AuthorityInv, NEW down, NEW agreed \in BOOLEAN, FinishRound(down, agreed)
  PROVE  AuthorityInv'
  <1> DEFINE atts == IF agreed THEN SignedWhileDown(round, order, down) ELSE {}
             held == IF agreed THEN ViewChangeHolds(round, order, down) ELSE UpAt(order, down) = {}
             elected == IF held THEN {} ELSE {order[FirstUp(order, down)]} \cap Members
  <1>1. /\ pending /\ pending' = FALSE /\ sent = NoEnvelope /\ ~stopped
        /\ timeouts' = timeouts \cup atts
        /\ downIn' = [downIn EXCEPT ![round] = @ \cup down]
        /\ UNCHANGED <<round, commits, reveals, order, stopped, accepted>>
    BY DEF FinishRound
  <1>2. round \in Rounds /\ round \in 1 .. round /\ order \in Seq(Range(order))
    BY DEF AuthorityInv, Replicas, Bus, Rounds
  <1>3. \A t \in atts : t.round = round /\ t.failed \in down
    BY <1>2, SignedOfTheDown
  <1> HIDE DEF atts
  <1>4. Attested' /\ PrimaryKept' /\ down \subseteq downIn'[round]
    <2>1. DOMAIN downIn' = Rounds /\ \A r \in Rounds : downIn[r] \subseteq downIn'[r]
      BY <1>1, <1>2 DEF AuthorityInv, Attested
    <2>2. down \subseteq downIn'[round]
      BY <1>1, <1>2 DEF AuthorityInv, Attested
    <2>3. \A t \in timeouts : t.round \in Rounds
      BY <1>2, AuthorityConstants DEF AuthorityInv, Attested, Rounds
    <2>4. \A t \in timeouts' : t.round \in 1 .. round /\ t.failed \in downIn'[t.round]
      BY <1>1, <1>2, <1>3, <2>1, <2>2, <2>3 DEF AuthorityInv, Attested
    <2> QED
      BY <1>1, <2>1, <2>2, <2>4 DEF AuthorityInv, Attested, PrimaryKept
  <1>5. Bus' /\ Unsettled'
    BY <1>1 DEF AuthorityInv, Bus, Unsettled
  <1>6. Waiting = {} /\ \A c, d \in Honest : chain[c] = chain[d]
    BY <1>1 DEF AuthorityInv, Together, Waiting
  <1>7. CASE UNCHANGED <<chain, minerSeq, sent>>
    <2>1. Replicas' /\ InFlight' /\ Together'
      BY <1>1, <1>7 DEF AuthorityInv, Replicas, InFlight, Together, Waiting, Heights
    <2> QED
      BY <1>4, <1>5, <2>1 DEF AuthorityInv
  <1>8. CASE \E c \in elected :
               /\ chain' = Propose(c, round)
               /\ sent' = Broadcast(Envelope(round, FirstUp(order, down) - 1, c, agreed, atts,
                                             Proposal(c, round), down), TRUE)
    <2>1. PICK c \in elected :
            /\ chain' = Propose(c, round)
            /\ sent' = Broadcast(Envelope(round, FirstUp(order, down) - 1, c, agreed, atts,
                                          Proposal(c, round), down), TRUE)
      BY <1>8
    <2>2. ~held /\ c \in Members /\ c = order[FirstUp(order, down)]
      BY <2>1
    <2>3. UpAt(order, down) # {}
      BY <2>2 DEF ViewChangeHolds
    <2>4. FirstUp(order, down) \in DOMAIN order /\ FirstUp(order, down) - 1 \in Nat
      <3>1. FirstUp(order, down) \in UpAt(order, down)
        BY <1>2, <2>3, FirstUpIsFirst
      <3> QED
        BY <1>2, <3>1 DEF UpAt
    <2>5. c \in Range(order) \cap Members
      BY <2>2, <2>4 DEF Range
    <2>6. \A d \in Honest : round \notin Heights(d)
      BY <1>1, <2>5 DEF AuthorityInv, Unsettled
    <2> DEFINE b == Proposal(c, round)
    <2>7. /\ Replicas'
          /\ \A d \in Members : d # c => chain'[d] = chain[d]
          /\ chain'[c] = Extended(chain[c], b) /\ b.hdr.height = round
      BY <1>1, <2>1, <2>5, <2>6, ProposedReplicas
    <2>8. /\ sent' # NoEnvelope /\ sent'.driven = TRUE /\ sent'.round = round /\ sent'.to = Others(c)
          /\ sent' \in [env : {sent'.env}, driven : BOOLEAN, round : {sent'.round}, to : {Others(c)}]
          /\ sent'.env.by = c /\ sent'.env.round = round /\ sent'.env.block = b
          /\ sent'.env.view = FirstUp(order, down) - 1 /\ sent'.env.agreed = agreed
          /\ sent'.env.quorums = atts /\ sent'.env.down = down
      BY <2>1 DEF Broadcast, Envelope, NoEnvelope
    <2> HIDE DEF b
    <2>9. Waiting' = Members \ {c}
      BY <2>5, <2>8, OthersAreOthers DEF Waiting
    <2>10. InFlight'
      <3>1. /\ sent' \in [env : {sent'.env}, driven : BOOLEAN, round : {sent'.round}, to : Seq(Members)]
            /\ sent'.to # <<>>
            /\ \A i, j \in DOMAIN sent'.to : sent'.to[i] = sent'.to[j] => i = j
            /\ c \notin Range(sent'.to)
        BY <2>5, <2>8, OthersAreOthers
      <3>2. \A d \in Honest \cap Waiting' : round \notin Heights(d)'
        BY <2>6, <2>7, <2>9 DEF Heights, Honest
      <3> QED
        BY <1>1, <1>4, <2>4, <2>5, <2>7, <2>8, <3>1, <3>2 DEF InFlight
    <2>11. Together'
      <3>1. \A d \in Honest : d # c => chain'[d] = chain[d] /\ d \in Waiting'
        BY <2>7, <2>9 DEF Honest
      <3>2. c \notin Waiting'
        BY <2>9
      <3> QED
        BY <1>6, <2>7, <2>8, <3>1, <3>2 DEF Together
    <2> QED
      BY <1>4, <1>5, <2>7, <2>10, <2>11 DEF AuthorityInv
  <1> QED
    BY <1>7, <1>8 DEF FinishRound, atts

\* A mistaken candidate's block comes after the chains it can be appended to.
LEMMA SeizeKeeps ==
  ASSUME AuthorityInv, NEW s \in Mistaken, NEW view \in 1 .. Len(Candidates), Seize(s, view)
  PROVE  AuthorityInv'
  <1> DEFINE atts == timeouts \cup {Timeout(s, round, order[v + 1], v) : v \in 0 .. (view - 1)}
             b == Proposal(s, round)
  <1>1. /\ sent = NoEnvelope /\ ~stopped /\ view \in 1 .. (Len(order) - 1) /\ order[view + 1] = s
        /\ ~HasBlock(s, round)
        /\ chain' = Propose(s, round)
        /\ sent' = Broadcast(Envelope(round, view, s, TRUE, atts, b, {}), FALSE)
        /\ UNCHANGED <<clock, timeouts, stopped, history>>
    BY DEF Seize
  <1>2. s \in Members /\ s \notin Honest /\ round \in Nat
    BY AuthorityConstants DEF Honest, AuthorityInv, Replicas, Rounds
  <1>3. UNCHANGED <<round, commits, reveals, order, pending, timeouts, stopped, downIn, accepted>>
    BY <1>1 DEF clock, history
  <1>4. /\ Replicas'
        /\ \A c \in Members : c # s => chain'[c] = chain[c]
        /\ chain'[s] = Extended(chain[s], b) /\ b.hdr.height = round /\ b.hdr.prev = chain[s].head
    BY <1>1, <1>2, <1>3, ProposedReplicas DEF AuthorityInv, Replicas
  <1>5. s \in Range(order)
    <2>1. order \in Seq(Range(order))
      BY DEF AuthorityInv, Bus
    <2>2. view + 1 \in DOMAIN order
      BY <1>1, <2>1
    <2> QED
      BY <1>1, <2>2 DEF Range
  <1>6. /\ sent' # NoEnvelope /\ sent'.driven = FALSE /\ sent'.round = round /\ sent'.to = Others(s)
        /\ sent' \in [env : {sent'.env}, driven : BOOLEAN, round : {sent'.round}, to : {Others(s)}]
        /\ sent'.env.by = s /\ sent'.env.round = round /\ sent'.env.block = b
        /\ sent'.env.view = view /\ sent'.env.agreed = TRUE /\ sent'.env.quorums = atts
    BY <1>1 DEF Broadcast, Envelope, NoEnvelope
  <1>7. \A t \in atts : t \in timeouts \/ t.by \in Mistaken
    BY DEF Timeout
  <1> HIDE DEF b, atts
  <1>8. Waiting' = Members \ {s}
    BY <1>2, <1>6, OthersAreOthers DEF Waiting
  <1>9. Honest \subseteq Waiting' /\ \A c \in Honest : chain'[c] = chain[c]
    BY <1>2, <1>4, <1>8 DEF Honest
  <1>10. Attested' /\ PrimaryKept'
    BY <1>3 DEF AuthorityInv, Attested, PrimaryKept
  <1>11. Unsettled'
    BY <1>3, <1>9 DEF AuthorityInv, Unsettled, Heights
  <1>12. Bus'
    <2>1. order # <<>>
      BY <1>5 DEF Range
    <2> QED
      BY <1>3, <2>1 DEF AuthorityInv, Bus
  <1>13. InFlight'
    <2>1. /\ sent' \in [env : {sent'.env}, driven : BOOLEAN, round : {sent'.round}, to : Seq(Members)]
          /\ sent'.to # <<>>
          /\ \A i, j \in DOMAIN sent'.to : sent'.to[i] = sent'.to[j] => i = j
          /\ s \notin Range(sent'.to)
      BY <1>2, <1>6, OthersAreOthers
    <2>2. ASSUME NEW c \in Honest, Acceptable(c, sent.env)', round \in Heights(c)'
          PROVE  FALSE
      <3>1. chain[c].head = chain[s].head
        <4>1. ExtendsHead(c, sent.env)'
          BY <2>2 DEF Acceptable
        <4>2. sent'.env.block.hdr.prev = chain'[c].head
          BY <4>1 DEF ExtendsHead
        <4> QED
          BY <1>4, <1>6, <1>9, <4>2
      <3>2. IsChain(chain[c]) /\ IsChain(chain[s]) /\ c \in Members
        BY <1>2 DEF AuthorityInv, Replicas, Honest
      <3>3. round \in HeightsOf(chain[c])
        BY <1>9, <2>2 DEF Heights
      <3>4. PICK i \in DOMAIN chain[c].blocks : chain[c].blocks[i].hdr.height = round
        BY <3>3 DEF HeightsOf
      <3> DEFINE n == Len(chain[c].blocks)
                 m == Len(chain[s].blocks)
      <3>5. n \in Nat /\ DOMAIN chain[c].blocks = 1 .. n /\ m \in Nat /\ DOMAIN chain[s].blocks = 1 .. m
        BY <3>2 DEF IsChain
      <3>6. chain[c].blocks # <<>> /\ n \in DOMAIN chain[c].blocks
        BY <3>4, <3>5
      <3>7. chain[s].blocks # <<>> /\ chain[c].blocks[n].hdr = chain[s].blocks[m].hdr
        BY <3>1, <3>2, <3>6, SameHead
      <3>8. m \in DOMAIN chain[s].blocks
        BY <3>2, <3>5, <3>7 DEF IsChain
      <3>9. chain[s].blocks[m].hdr.height # round
        BY <1>1, <3>8 DEF HasBlock
      <3> HIDE DEF n, m
      <3>10. i < n
        BY <3>4, <3>5, <3>7, <3>9
      <3>11. Increasing(chain[c].blocks) /\ Heights(c) \subseteq 1 .. round
        BY <3>2 DEF AuthorityInv, Replicas
      <3>12. round < chain[c].blocks[n].hdr.height
        BY <3>4, <3>6, <3>10, <3>11 DEF Increasing
      <3>13. chain[c].blocks[n].hdr.height \in Heights(c)
        BY <3>6 DEF Heights, HeightsOf
      <3> QED
        BY <1>2, <3>11, <3>12, <3>13
    <2>3. view \in Nat /\ view > 0
      OBVIOUS
    <2>4. \A c \in Honest \cap Waiting' : Acceptable(c, sent.env)' => round' \notin Heights(c)'
      BY <1>3, <2>2
    <2>5. sent'.env.by \in Members \cap Range(order') /\ sent'.env.by \notin Range(sent'.to)
          /\ sent'.env.by \notin Honest
      BY <1>2, <1>3, <1>5, <1>6, <2>1
    <2>6. \A t \in sent'.env.quorums : t \in timeouts' \/ t.by \in Mistaken
      BY <1>3, <1>6, <1>7
    <2>7. ~stopped' /\ sent'.env.round = round' /\ sent'.env.block.hdr.height = round'
          /\ sent'.env.view \in Nat /\ sent'.env.agreed /\ sent'.env.view > 0
      <3>1. ~stopped'
        BY <1>1, <1>3
      <3> QED
        BY <1>3, <1>4, <1>6, <2>3, <3>1
    <2> QED
      BY <2>1, <2>4, <2>5, <2>6, <2>7 DEF InFlight
  <1>14. Together'
    <2>1. \A c, d \in Honest : chain[c] = chain[d]
      BY <1>1 DEF AuthorityInv, Together, Waiting
    <2> QED
      BY <1>9, <2>1 DEF Together
  <1> QED
    BY <1>4, <1>10, <1>11, <1>12, <1>13, <1>14 DEF AuthorityInv

\* Handing the envelope on to the next peer.
LEMMA RestOfPeers ==
  ASSUME NEW S, NEW to, to \in Seq(S), to # <<>>,
         \A i, j \in DOMAIN to : to[i] = to[j] => i = j
  PROVE  /\ Head(to) \in Range(to) /\ Range(to) \subseteq S
         /\ Len(to) = 1 => Range(to) = {Head(to)}
         /\ Len(to) # 1 => /\ Tail(to) \in Seq(S) /\ Tail(to) # <<>>
                           /\ \A i, j \in DOMAIN Tail(to) : Tail(to)[i] = Tail(to)[j] => i = j
                           /\ Range(Tail(to)) = Range(to) \ {Head(to)}
  <1> DEFINE n == Len(to)
  <1>1. n \in Nat /\ n >= 1 /\ DOMAIN to = 1 .. n /\ Head(to) = to[1]
    OBVIOUS
  <1>2. Head(to) \in Range(to) /\ Range(to) \subseteq S
    BY <1>1 DEF Range
  <1>3. ASSUME n = 1 PROVE Range(to) = {Head(to)}
    <2>1. \A i \in 1 .. n : i = 1
      BY <1>3
    <2> QED
      BY <1>1, <2>1 DEF Range
  <1>4. ASSUME n # 1
        PROVE  /\ Tail(to) \in Seq(S) /\ Tail(to) # <<>>
               /\ \A i, j \in DOMAIN Tail(to) : Tail(to)[i] = Tail(to)[j] => i = j
               /\ Range(Tail(to)) = Range(to) \ {Head(to)}
    <2>1. Tail(to) \in Seq(S) /\ Len(Tail(to)) = n - 1 /\ DOMAIN Tail(to) = 1 .. n - 1
      BY <1>1
    <2>2. \A i \in 1 .. n - 1 : Tail(to)[i] = to[i + 1]
      BY <1>1
    <2> HIDE DEF n
    <2>3. Tail(to) # <<>>
      BY <1>1, <1>4, <2>1
    <2>4. \A i \in 1 .. n - 1 : i + 1 \in 1 .. n /\ i + 1 # 1
      BY <1>1
    <2>5. \A i, j \in 1 .. n - 1 : Tail(to)[i] = Tail(to)[j] => i = j
      BY <1>1, <2>2, <2>4
    <2>6. ASSUME NEW x \in Range(Tail(to)) PROVE x \in Range(to) \ {Head(to)}
      BY <1>1, <2>1, <2>2, <2>4 DEF Range
    <2>7. ASSUME NEW x \in Range(to) \ {Head(to)} PROVE x \in Range(Tail(to))
      <3>1. PICK i \in 1 .. n : x = to[i]
        BY <1>1 DEF Range
      <3>2. i - 1 \in 1 .. n - 1 /\ (i - 1) + 1 = i
        BY <1>1, <3>1
      <3> QED
        BY <2>1, <2>2, <3>1, <3>2 DEF Range
    <2> QED
      BY <2>1, <2>3, <2>5, <2>6, <2>7
  <1> QED
    BY <1>2, <1>3, <1>4

\* Every candidate an envelope passes over when a peer accepts it was down.
LEMMA PassedOverWasDown ==
  ASSUME FewMistaken, AuthorityInv, sent # NoEnvelope, Elected(sent.env, order)
  PROVE  /\ ~pending
         /\ DOMAIN PassedOver(sent.env) = Rounds
         /\ \A r \in Rounds : PassedOver(sent.env)[r] \subseteq downIn[r]
  <1> DEFINE env == sent.env
  <1>1. /\ env.round = round /\ round \in Rounds /\ order \in Seq(Range(order))
        /\ env.by \in Members \cap Range(order) /\ env.view \in Nat
        /\ pending => env.agreed /\ env.view > 0
    BY DEF AuthorityInv, InFlight, Replicas, Bus
  <1>2. ASSUME env.agreed, NEW i \in 1 .. env.view
        PROVE  \E t \in timeouts : t.round = round /\ t.failed = order[i]
    <2>1. i - 1 \in PriorViews(env) /\ (i - 1) + 1 = i
      BY <1>1 DEF PriorViews
    <2>2. VerifyTimeoutQuorum(env.quorums, order, round, i - 1)
      BY <1>1, <1>2, <2>1 DEF Elected
    <2>3. PICK s : s \notin Mistaken /\ Timeout(s, round, order[(i - 1) + 1], i - 1) \in env.quorums
      BY <2>2, HonestSigner
    <2> DEFINE t == Timeout(s, round, order[(i - 1) + 1], i - 1)
    <2>4. t.by = s /\ t.round = round /\ t.failed = order[i]
      BY <2>1 DEF Timeout
    <2> HIDE DEF t
    <2>5. t \in timeouts
      BY <1>2, <2>3, <2>4 DEF AuthorityInv, InFlight, t
    <2> QED
      BY <2>4, <2>5
  <1>3. ~pending
    <2>1. SUFFICES ASSUME pending PROVE FALSE
      OBVIOUS
    <2>2. env.agreed /\ 1 \in 1 .. env.view
      BY <1>1, <2>1
    <2>3. \E t \in timeouts : t.round = round
      BY <1>2, <2>2
    <2> QED
      BY <1>1, <2>1, <2>3 DEF AuthorityInv, Unsettled
  <1> DEFINE at == IF env.agreed THEN env.view ELSE FirstUp(order, env.down) - 1
  <1>4. ASSUME NEW i \in 1 .. at PROVE order[i] \in downIn[round]
    <2>1. CASE env.agreed
      <3>1. PICK t \in timeouts : t.round = round /\ t.failed = order[i]
        BY <1>2, <1>4, <2>1
      <3> QED
        BY <3>1 DEF AuthorityInv, Attested
    <2>2. CASE ~env.agreed
      <3>1. UpAt(order, env.down) # {} /\ env.down \subseteq downIn[round]
        BY <2>2 DEF Elected, AuthorityInv, InFlight
      <3>2. FirstUp(order, env.down) \in UpAt(order, env.down)
            /\ \A j \in DOMAIN order : j < FirstUp(order, env.down) => order[j] \in env.down
        BY <1>1, <3>1, FirstUpIsFirst
      <3>3. DOMAIN order = 1 .. Len(order) /\ Len(order) \in Nat
        BY <1>1
      <3>4. FirstUp(order, env.down) \in 1 .. Len(order)
        BY <3>2, <3>3 DEF UpAt
      <3>5. i \in DOMAIN order /\ i < FirstUp(order, env.down)
        BY <1>4, <2>2, <3>3, <3>4
      <3> QED
        BY <3>1, <3>2, <3>5
    <2> QED
      BY <2>1, <2>2
  <1>5. PassedOver(env) = [accepted EXCEPT ![round] = @ \cup {order[i] : i \in 1 .. at}]
    BY <1>1 DEF PassedOver
  <1> HIDE DEF at
  <1>6. /\ DOMAIN PassedOver(env) = Rounds
        /\ \A r \in Rounds : PassedOver(env)[r] \subseteq downIn[r]
    BY <1>1, <1>4, <1>5 DEF AuthorityInv, Attested, PrimaryKept
  <1> QED
    BY <1>3, <1>6

\* What handing on does to the envelope.
Rest == IF Len(sent.to) = 1 THEN NoEnvelope ELSE [sent EXCEPT !.to = Tail(@)]

LEMMA RestKeeps ==
  ASSUME AuthorityInv, sent # NoEnvelope, sent' = Rest
  PROVE  /\ Head(sent.to) \in Members \cap Waiting
         /\ Waiting' = Waiting \ {Head(sent.to)}
         /\ sent' # NoEnvelope =>
              /\ sent' \in [env : {sent.env}, driven : {sent.driven}, round : {sent.round},
                            to : Seq(Members)]
              /\ sent'.to # <<>>
              /\ \A i, j \in DOMAIN sent'.to : sent'.to[i] = sent'.to[j] => i = j
              /\ Range(sent'.to) \subseteq Range(sent.to)
  <1>1. /\ sent \in [env : {sent.env}, driven : BOOLEAN, round : {sent.round}, to : Seq(Members)]
        /\ sent.to \in Seq(Members) /\ sent.to # <<>>
        /\ \A i, j \in DOMAIN sent.to : sent.to[i] = sent.to[j] => i = j
    BY DEF AuthorityInv, InFlight
  <1>2. Waiting = Range(sent.to)
    BY DEF Waiting
  <1>3. Head(sent.to) \in Range(sent.to) /\ Range(sent.to) \subseteq Members
    BY <1>1, RestOfPeers
  <1>4. CASE Len(sent.to) = 1
    <2>1. Range(sent.to) = {Head(sent.to)}
      BY <1>1, <1>4, RestOfPeers
    <2>2. sent' = NoEnvelope /\ Waiting' = {}
      BY <1>4 DEF Rest, Waiting
    <2> QED
      BY <1>2, <1>3, <2>1, <2>2
  <1>5. CASE Len(sent.to) # 1
    <2>1. /\ Tail(sent.to) \in Seq(Members) /\ Tail(sent.to) # <<>>
          /\ \A i, j \in DOMAIN Tail(sent.to) : Tail(sent.to)[i] = Tail(sent.to)[j] => i = j
          /\ Range(Tail(sent.to)) = Range(sent.to) \ {Head(sent.to)}
      BY <1>1, <1>5, RestOfPeers
    <2>2. /\ sent'.to = Tail(sent.to)
          /\ sent' \in [env : {sent.env}, driven : {sent.driven}, round : {sent.round},
                        to : {Tail(sent.to)}]
      BY <1>1, <1>5 DEF Rest
    <2>3. sent' # NoEnvelope
      BY <2>2 DEF NoEnvelope
    <2>4. Waiting' = Range(Tail(sent.to))
      BY <2>2, <2>3 DEF Waiting
    <2> HIDE DEF Rest
    <2> QED
      BY <1>2, <1>3, <2>1, <2>2, <2>3, <2>4, ZenonT(40)
  <1> QED
    BY <1>4, <1>5

\* Who would accept an envelope is a matter of the head it has.
LEMMA AcceptableByHead ==
  ASSUME NEW c, NEW d, NEW env, chain[c].head = chain[d].head
  PROVE  Acceptable(c, env) <=> Acceptable(d, env)
  BY DEF Acceptable, ExtendsHead

LEMMA AcceptKeeps ==
  ASSUME FewMistaken, AuthorityInv, Deliver, Acceptable(Head(sent.to), sent.env)
  PROVE  AuthorityInv'
  <1> DEFINE p == Head(sent.to)
             b == sent.env.block
  <1>1. /\ sent # NoEnvelope /\ sent' = Rest
        /\ chain' = [chain EXCEPT ![p] = Extended(@, b)]
        /\ accepted' = PassedOver(sent.env)
        /\ UNCHANGED <<round, commits, reveals, order, pending, stopped, timeouts, downIn>>
    BY DEF Deliver, Accept, Rest, clock
  <1>2. /\ p \in Members \cap Waiting /\ Waiting' = Waiting \ {p}
        /\ sent' # NoEnvelope =>
             /\ sent' \in [env : {sent.env}, driven : {sent.driven}, round : {sent.round},
                           to : Seq(Members)]
             /\ sent'.to # <<>>
             /\ \A i, j \in DOMAIN sent'.to : sent'.to[i] = sent'.to[j] => i = j
             /\ Range(sent'.to) \subseteq Range(sent.to)
    BY <1>1, RestKeeps
  <1>3. /\ ~pending /\ DOMAIN PassedOver(sent.env) = Rounds
        /\ \A r \in Rounds : PassedOver(sent.env)[r] \subseteq downIn[r]
    <2>1. Elected(sent.env, order)
      BY DEF Acceptable
    <2> QED
      BY <1>1, <2>1, PassedOverWasDown
  <1>4. /\ ~stopped /\ sent.env.by \in Members \cap Range(order) /\ b.hdr.height = round
        /\ round \in Nat /\ round \in 1 .. round
    BY <1>1 DEF AuthorityInv, InFlight, Replicas, Rounds
  <1>5. /\ chain' = [c \in Members |-> chain'[c]]
        /\ \A c \in Members : c # p => chain'[c] = chain[c]
        /\ chain'[p] = Extended(chain[p], b)
    BY <1>1, <1>2 DEF AuthorityInv, Replicas
  <1>6. p \in Honest => round \notin Heights(p)
    BY <1>1, <1>2 DEF AuthorityInv, InFlight
  <1> HIDE DEF p, b
  <1>7. Replicas'
    <2>1. IsChain(chain[p]) /\ Heights(p) \subseteq 1 .. round
      BY <1>2 DEF AuthorityInv, Replicas
    <2>2. IsChain(Extended(chain[p], b))
      BY <2>1, ExtendedFields
    <2>3. HeightsOf(Extended(chain[p], b)) = HeightsOf(chain[p]) \cup {round}
      BY <1>4, <2>1, HeightsExtended
    <2>4. ASSUME p \in Honest PROVE Increasing(chain'[p].blocks)
      <3>1. \A h \in HeightsOf(chain[p]) : h < round
        BY <1>4, <1>6, <2>1, <2>4 DEF Heights
      <3>2. Increasing(chain[p].blocks)
        BY <2>4 DEF AuthorityInv, Replicas
      <3> QED
        BY <1>4, <1>5, <2>1, <3>1, <3>2, HeightsExtended
    <2>5. \A c \in Members : IsChain(chain'[c]) /\ HeightsOf(chain'[c]) \subseteq 1 .. round
      BY <1>4, <1>5, <2>1, <2>2, <2>3 DEF AuthorityInv, Replicas, Heights
    <2>6. \A c \in Honest : Increasing(chain'[c].blocks)
      BY <1>5, <2>4 DEF AuthorityInv, Replicas, Honest
    <2> QED
      BY <1>1, <1>5, <2>5, <2>6 DEF AuthorityInv, Replicas, Heights
  <1>8. Attested' /\ PrimaryKept'
    BY <1>1, <1>3 DEF AuthorityInv, Attested, PrimaryKept
  <1>9. Bus'
    <2>1. order # <<>>
      BY <1>4 DEF Range
    <2> QED
      BY <1>1, <2>1 DEF AuthorityInv, Bus
  <1>10. Unsettled'
    BY <1>1, <1>3 DEF Unsettled
  <1>11. \A c \in Honest : c # p => chain'[c] = chain[c]
                                    /\ (Acceptable(c, sent.env)' <=> Acceptable(c, sent'.env))
    BY <1>1, <1>5 DEF Honest, Acceptable, ExtendsHead
  <1>12. InFlight'
    <2>1. SUFFICES ASSUME sent' # NoEnvelope PROVE InFlight'
      BY DEF InFlight
    <2>2. ASSUME NEW c \in Honest \cap Waiting', Acceptable(c, sent.env)'
          PROVE  round \notin Heights(c)'
      <3>1. c # p /\ c \in Waiting /\ sent'.env = sent.env
        BY <1>2, <2>1, <2>2
      <3>2. Acceptable(c, sent.env) /\ Heights(c)' = Heights(c)
        BY <1>11, <2>2, <3>1 DEF Heights
      <3> QED
        BY <1>1, <2>2, <3>1, <3>2 DEF AuthorityInv, InFlight
    <2>3. sent'.env = sent.env /\ sent'.driven = sent.driven
      BY <1>2, <2>1
    <2>4. sent' \in [env : {sent'.env}, driven : BOOLEAN, round : {sent'.round}, to : Seq(Members)]
      BY <1>1, <1>2, <2>1 DEF AuthorityInv, InFlight
    <2>5. \A c \in Honest \cap Waiting' : Acceptable(c, sent.env)' => round' \notin Heights(c)'
      BY <1>1, <2>2
    <2>6. sent.env.by \notin Range(sent'.to)
      BY <1>1, <1>2, <2>1 DEF AuthorityInv, InFlight
    <2> QED
      BY <1>1, <1>2, <1>3, <2>1, <2>3, <2>4, <2>5, <2>6 DEF AuthorityInv, InFlight
  <1>13. Together'
    <2>1. \A c, d \in Honest : (c \in Waiting <=> d \in Waiting) => chain[c] = chain[d]
      BY <1>4 DEF AuthorityInv, Together
    <2>2. \A c \in Honest \cap Waiting, d \in Honest \ Waiting :
            IF sent.env.by \in Honest \/ Acceptable(c, sent.env)
              THEN chain[d] = Extended(chain[c], b)
              ELSE chain[d] = chain[c]
      BY <1>4 DEF AuthorityInv, Together, b
    <2>3. CASE p \notin Honest
      <3>1. \A c \in Honest : c # p /\ chain'[c] = chain[c] /\ (c \in Waiting' <=> c \in Waiting)
        BY <1>2, <1>11, <2>3
      <3>2. ASSUME NEW c \in Honest \cap Waiting', NEW d \in Honest \ Waiting'
            PROVE  IF sent'.env.by \in Honest \/ Acceptable(c, sent.env)'
                     THEN chain'[d] = Extended(chain'[c], sent'.env.block)
                     ELSE chain'[d] = chain'[c]
        <4>1. sent'.env = sent.env
          BY <1>2 DEF Waiting
        <4> QED
          BY <1>11, <2>2, <3>1, <4>1 DEF b
      <3> QED
        BY <1>1, <2>1, <3>1, <3>2 DEF Together
    <2>4. CASE p \in Honest
      <3>1. Acceptable(p, sent.env) /\ p \in Honest \cap Waiting /\ p \notin Waiting'
        BY <1>2, <2>4 DEF p
      <3>2. \A d \in Honest \ Waiting : chain[d] = Extended(chain[p], b)
        BY <2>2, <3>1
      <3>3. \A d \in Honest \ Waiting' : chain'[d] = Extended(chain[p], b)
        BY <1>2, <1>5, <1>11, <3>2
      <3>4. \A c \in Honest \cap Waiting' : chain'[c] = chain[p]
        BY <1>2, <1>11, <2>1, <3>1
      <3>5. ASSUME NEW c \in Honest \cap Waiting', NEW d \in Honest \ Waiting'
            PROVE  IF sent'.env.by \in Honest \/ Acceptable(c, sent.env)'
                     THEN chain'[d] = Extended(chain'[c], sent'.env.block)
                     ELSE chain'[d] = chain'[c]
        <4>1. sent'.env = sent.env
          BY <1>2 DEF Waiting
        <4>2. c # p /\ chain[c] = chain[p]
          BY <1>2, <1>11, <3>4
        <4>3. Acceptable(c, sent.env)'
          BY <1>11, <3>1, <4>1, <4>2, AcceptableByHead
        <4> QED
          BY <3>3, <3>4, <4>1, <4>3 DEF b
      <3> QED
        BY <1>1, <3>3, <3>4, <3>5 DEF Together
    <2> QED
      BY <2>3, <2>4
  <1> QED
    BY <1>7, <1>8, <1>9, <1>10, <1>12, <1>13 DEF AuthorityInv

LEMMA RejectKeeps ==
  ASSUME AuthorityInv, Deliver, ~Acceptable(Head(sent.to), sent.env)
  PROVE  AuthorityInv'
  <1> DEFINE p == Head(sent.to)
  <1>1. /\ sent # NoEnvelope
        /\ stopped' = sent.driven /\ sent' = IF sent.driven THEN NoEnvelope ELSE Rest
        /\ UNCHANGED <<chain, accepted>>
        /\ UNCHANGED <<round, commits, reveals, order, pending, timeouts, downIn>>
    BY DEF Deliver, Rest, clock
  <1>2. sent.driven \in BOOLEAN /\ ~stopped
    BY <1>1 DEF AuthorityInv, InFlight
  <1>3. \A c : Heights(c)' = Heights(c)
    BY <1>1 DEF Heights
  <1>4. /\ Replicas' /\ Attested' /\ Bus' /\ Unsettled' /\ PrimaryKept'
    BY <1>1, <1>2, <1>3
       DEF AuthorityInv, Replicas, Attested, Bus, Unsettled, PrimaryKept
  <1>5. CASE sent.driven
    <2>1. InFlight' /\ Together'
      BY <1>1, <1>5 DEF InFlight, Together
    <2> QED
      BY <1>4, <2>1 DEF AuthorityInv
  <1>6. CASE ~sent.driven
    <2>1. /\ p \in Members \cap Waiting /\ Waiting' = Waiting \ {p}
          /\ sent' # NoEnvelope =>
               /\ sent' \in [env : {sent.env}, driven : {sent.driven}, round : {sent.round},
                             to : Seq(Members)]
               /\ sent'.to # <<>>
               /\ \A i, j \in DOMAIN sent'.to : sent'.to[i] = sent'.to[j] => i = j
               /\ Range(sent'.to) \subseteq Range(sent.to)
      BY <1>1, <1>6, RestKeeps
    <2>2. ~Acceptable(p, sent.env)
      OBVIOUS
    <2> HIDE DEF p
    <2>3. \A c \in Honest : Acceptable(c, sent.env)' <=> Acceptable(c, sent'.env)
      BY <1>1 DEF Acceptable, ExtendsHead
    <2>4. InFlight'
      <3>1. SUFFICES ASSUME sent' # NoEnvelope PROVE InFlight'
        BY DEF InFlight
      <3>2. sent'.env = sent.env /\ sent'.driven = sent.driven /\ Waiting' \subseteq Waiting
        BY <2>1, <3>1
      <3>3. sent' \in [env : {sent'.env}, driven : BOOLEAN, round : {sent'.round}, to : Seq(Members)]
        BY <1>2, <2>1, <3>1
      <3>4. \A c \in Honest \cap Waiting' : Acceptable(c, sent.env)' => round' \notin Heights(c)'
        BY <1>1, <1>3, <2>3, <3>2 DEF AuthorityInv, InFlight
      <3>5. sent.env.by \notin Range(sent'.to)
        BY <1>1, <2>1, <3>1 DEF AuthorityInv, InFlight
      <3>6. ~stopped'
        BY <1>1, <1>6
      <3> QED
        BY <1>1, <2>1, <3>1, <3>2, <3>3, <3>4, <3>5, <3>6 DEF AuthorityInv, InFlight
    <2>5. Together'
      <3>1. \A c, d \in Honest : (c \in Waiting <=> d \in Waiting) => chain[c] = chain[d]
        BY <1>2 DEF AuthorityInv, Together
      <3>2. \A c \in Honest \cap Waiting, d \in Honest \ Waiting :
              IF Acceptable(c, sent.env)
                THEN chain[d] = Extended(chain[c], sent.env.block)
                ELSE chain[d] = chain[c]
        <4>1. sent.env.by \notin Honest
          BY <1>1, <1>6 DEF AuthorityInv, InFlight
        <4> QED
          BY <1>2, <4>1 DEF AuthorityInv, Together
      <3>3. ASSUME p \in Honest
            PROVE  /\ \A d \in Honest \ Waiting : chain[d] = chain[p]
                   /\ \A c \in Honest \cap Waiting : chain[c] = chain[p] /\ ~Acceptable(c, sent.env)
        <4>1. p \in Honest \cap Waiting
          BY <2>1, <3>3
        <4> QED
          BY <2>2, <3>1, <3>2, <4>1, AcceptableByHead
      <3>4. \A c, d \in Honest : (c \in Waiting' <=> d \in Waiting') => chain[c] = chain[d]
        BY <2>1, <3>1, <3>3
      <3>5. ASSUME NEW c \in Honest \cap Waiting', NEW d \in Honest \ Waiting'
            PROVE  IF sent'.env.by \in Honest \/ Acceptable(c, sent.env)'
                     THEN chain'[d] = Extended(chain'[c], sent'.env.block)
                     ELSE chain'[d] = chain'[c]
        <4>1. sent'.env = sent.env /\ sent.env.by \notin Honest
          BY <1>1, <1>6, <2>1 DEF Waiting, AuthorityInv, InFlight
        <4>2. c \in Waiting /\ (d = p \/ d \notin Waiting)
          BY <2>1
        <4>3. Acceptable(c, sent.env)' <=> Acceptable(c, sent.env)
          BY <2>3, <4>1
        <4> QED
          BY <1>1, <3>2, <3>3, <4>1, <4>2, <4>3
      <3> QED
        BY <1>1, <3>4, <3>5 DEF Together
    <2> QED
      BY <1>4, <2>4, <2>5 DEF AuthorityInv
  <1> QED
    BY <1>2, <1>5, <1>6

LEMMA NextKeeps ==
  ASSUME FewMistaken, AuthorityInv, [Next]_vars
  PROVE  AuthorityInv'
  <1>1. CASE \E r \in Rounds : BeginRound(r)
    BY <1>1, BeginRoundKeeps
  <1>2. CASE \E down \in SUBSET Range(order), agreed \in AgreedFailover : FinishRound(down, agreed)
    <2>1. AgreedFailover \subseteq BOOLEAN
      BY AuthorityConstants
    <2> QED
      BY <1>2, <2>1, FinishRoundKeeps
  <1>3. CASE Deliver
    BY <1>3, AcceptKeeps, RejectKeeps
  <1>4. CASE \E s \in Mistaken, view \in 1 .. Len(Candidates) : Seize(s, view)
    BY <1>4, SeizeKeeps
  <1>5. CASE UNCHANGED vars
    <2>1. UNCHANGED <<round, commits, reveals, order, pending, chain, timeouts, sent, stopped,
                      downIn, accepted>>
      BY <1>5 DEF vars, clock, history
    <2>2. \A c : Heights(c)' = Heights(c)
      BY <2>1 DEF Heights
    <2>3. Waiting' = Waiting
      BY <2>1 DEF Waiting
    <2>4. \A c : Acceptable(c, sent.env)' <=> Acceptable(c, sent.env)
      BY <2>1 DEF Acceptable, ExtendsHead
    <2> QED
      BY <2>1, <2>2, <2>3, <2>4 DEF AuthorityInv, Replicas, Attested, Bus, Unsettled, InFlight,
                                    Together, PrimaryKept
  <1> QED
    BY <1>1, <1>2, <1>3, <1>4, <1>5 DEF Next

LEMMA InitKeeps ==
  ASSUME Init
  PROVE  AuthorityInv
  <1>1. EmptyChain.blocks = <<>> /\ EmptyChain.head = <<>>
        /\ EmptyChain \in [blocks : {EmptyChain.blocks}, head : {EmptyChain.head},
                           bal : {EmptyChain.bal}, minted : {EmptyChain.minted}]
    BY DEF EmptyChain, GENESIS_PREV_HASH
  <1>2. IsChain(EmptyChain) /\ HeightsOf(EmptyChain) = {} /\ Increasing(EmptyChain.blocks)
    <2>1. <<>> \in Seq(Range(<<>>)) /\ Len(<<>>) = 0 /\ DOMAIN <<>> = {}
      BY DEF Range
    <2> QED
      BY <1>1, <2>1 DEF IsChain, HeightsOf, Increasing, PrevOf, GENESIS_PREV_HASH
  <1>3. \A c \in Members : chain[c] = EmptyChain
    BY DEF Init
  <1>4. Replicas
    <2>1. round \in Rounds
      BY AuthorityConstants DEF Init, Rounds
    <2> QED
      BY <1>2, <1>3, <2>1 DEF Init, Replicas, Heights, Honest
  <1>5. Attested /\ Unsettled /\ PrimaryKept
    BY DEF Init, Attested, Unsettled, PrimaryKept
  <1>6. Bus
    <2>1. \A c \in Members : Heights(c) = {}
      BY <1>2, <1>3 DEF Heights
    <2>2. Range(order) = {}
      BY DEF Init, Range
    <2>3. order \in Seq(Range(order))
      BY DEF Init
    <2> QED
      BY <2>1, <2>2, <2>3 DEF Init, Bus
  <1>7. InFlight /\ Together
    <2>1. Waiting = {} /\ \A c, d \in Honest : chain[c] = chain[d]
      BY <1>3 DEF Init, Waiting, Honest
    <2> QED
      BY <2>1 DEF Init, InFlight, Together
  <1> QED
    BY <1>4, <1>5, <1>6, <1>7 DEF AuthorityInv

-----------------------------------------------------------------------------
(* What follows.                                                            *)

LEMMA AuthorityHolds ==
  ASSUME FewMistaken
  PROVE  Spec => []AuthorityInv
  <1>1. Init => AuthorityInv
    BY InitKeeps
  <1>2. AuthorityInv /\ [Next]_vars => AuthorityInv'
    BY NextKeeps
  <1> QED
    BY <1>1, <1>2, PTL DEF Spec

\* Candidate.accept (diloco_round_authority.py): with fewer mistaken
\* candidates than the signatures a view change needs, no accepted block ever
\* passes over a candidate that produced, agreed or observed, retried or not.
THEOREM PrimaryAlwaysKept ==
  ASSUME FewMistaken
  PROVE  Spec => []PrimaryKept
  <1>1. AuthorityInv => PrimaryKept
    BY DEF AuthorityInv
  <1> QED
    BY <1>1, AuthorityHolds, PTL

-----------------------------------------------------------------------------
(* One log.                                                                 *)

LogNow == chain[Longest].blocks
KnownNow == [c \in Honest |-> Len(chain[c].blocks)]

\* The log is what a candidate holds that the envelope has reached, or, when
\* it has reached none that keeps to the drive, what any of them holds.
LogHeld ==
  \A d \in Honest : d \notin Waiting \/ Honest \subseteq Waiting => LogNow = chain[d].blocks

LEMMA LogIs == AuthorityInv /\ ~stopped => LogHeld
  <1> SUFFICES ASSUME AuthorityInv, ~stopped, NEW d \in Honest,
                      d \notin Waiting \/ Honest \subseteq Waiting
               PROVE  LogNow = chain[d].blocks
    BY DEF LogHeld
  <1> DEFINE n(c) == Len(chain[c].blocks)
  <1>1. \A c \in Honest : IsChain(chain[c]) /\ n(c) \in Nat
    BY DEF AuthorityInv, Replicas, IsChain, Honest
  <1>2. ASSUME NEW c \in Honest
        PROVE  chain[c] = chain[d] \/ n(d) = n(c) + 1
    <2>1. CASE c \in Waiting <=> d \in Waiting
      BY <2>1 DEF AuthorityInv, Together
    <2>2. CASE ~(c \in Waiting <=> d \in Waiting)
      <3>1. c \in Honest \cap Waiting /\ d \in Honest \ Waiting
        BY <2>2
      <3>2. chain[d] = chain[c] \/ chain[d] = Extended(chain[c], sent.env.block)
        BY <3>1 DEF AuthorityInv, Together
      <3>3. DOMAIN Extended(chain[c], sent.env.block).blocks = 1 .. n(c) + 1
            /\ IsChain(Extended(chain[c], sent.env.block))
        BY <1>1, ExtendedFields
      <3>4. Len(Extended(chain[c], sent.env.block).blocks) = n(c) + 1
        <4> DEFINE bs == Extended(chain[c], sent.env.block).blocks
        <4>1. bs \in Seq(Range(bs))
          BY <3>3 DEF IsChain
        <4>2. DOMAIN bs = 1 .. n(c) + 1
          BY <3>3
        <4>3. n(c) \in Nat
          BY <1>1
        <4> HIDE DEF bs, n
        <4>4. Len(bs) = n(c) + 1
          BY <4>1, <4>2, <4>3
        <4> QED
          BY <4>4 DEF bs, n
      <3> QED
        BY <3>2, <3>4
    <2> QED
      BY <2>1, <2>2
  <1>3. \A c \in Honest : n(c) <= n(d)
    <2> SUFFICES ASSUME NEW c \in Honest PROVE n(c) <= n(d)
      OBVIOUS
    <2>1. n(c) \in Nat /\ n(d) \in Nat /\ (chain[c] = chain[d] \/ n(d) = n(c) + 1)
      BY <1>1, <1>2
    <2>2. chain[c] = chain[d] => n(c) = n(d)
      OBVIOUS
    <2> HIDE DEF n
    <2> QED
      BY <2>1, <2>2
  <1>4. Longest \in Honest /\ n(d) <= n(Longest)
    BY <1>3 DEF Longest
  <1>5. n(Longest) # n(d) => n(d) = n(Longest) + 1
    BY <1>2, <1>4
  <1>6. n(Longest) \in Nat /\ n(d) \in Nat
    BY <1>1, <1>4
  <1>7. chain[Longest] = chain[d] \/ n(d) = n(Longest) + 1
    BY <1>2, <1>4
  <1> HIDE DEF n
  <1>8. chain[Longest] = chain[d]
    BY <1>4, <1>6, <1>7
  <1> QED
    BY <1>8 DEF LogNow

LEMMA LogIsNext == AuthorityInv' /\ ~stopped' => LogHeld'
  BY LogIs, PTL

\* A step that leaves every candidate that keeps to the drive what it holds,
\* and one of them holding the whole log.
LEMMA LogStays ==
  ASSUME AuthorityInv, AuthorityInv', ~stopped, ~stopped',
         \A c \in Honest : chain'[c] = chain[c],
         NEW d \in Honest,
         d \notin Waiting \/ Honest \subseteq Waiting,
         d \notin Waiting' \/ Honest \subseteq Waiting'
  PROVE  UNCHANGED <<LogNow, KnownNow>>
  <1>2. LogNow = chain[d].blocks
    BY LogIs DEF LogHeld
  <1>4. LogNow' = chain'[d].blocks
    BY LogIsNext DEF LogHeld
  <1>5. KnownNow' = KnownNow
    BY DEF KnownNow
  <1> QED
    BY <1>2, <1>4, <1>5

\* A block appended by a holder of the whole log extends it.
LEMMA LogExtends ==
  ASSUME AuthorityInv, AuthorityInv', ~stopped, ~stopped', NEW p \in Honest, NEW b,
         \A c \in Honest : c # p => chain'[c] = chain[c],
         chain'[p] = Extended(chain[p], b),
         p \notin Waiting \/ Honest \subseteq Waiting, p \notin Waiting',
         b.hdr.height = round, round \notin Heights(p), b.hdr.prev = chain[p].head
  PROVE  Log!Next
  <1>1. LogNow = chain[p].blocks
    BY LogIs DEF LogHeld
  <1>3. LogNow' = chain'[p].blocks
    BY LogIsNext DEF LogHeld
  <1>4. IsChain(chain[p]) /\ Heights(p) \subseteq 1 .. round /\ round \in Nat
    BY DEF AuthorityInv, Replicas, Honest, Rounds
  <1> DEFINE n == Len(chain[p].blocks)
  <1>5. n \in Nat /\ DOMAIN chain[p].blocks = 1 .. n /\ b.hdr.prev = PrevOf(chain[p].blocks, n + 1)
    BY <1>4 DEF IsChain
  <1>6. IsChain(chain'[p]) /\ chain'[p].blocks = Append(chain[p].blocks, b)
        /\ DOMAIN chain'[p].blocks = 1 .. n + 1 /\ chain'[p].blocks[n + 1] = b
    <2>1. /\ IsChain(Extended(chain[p], b))
          /\ Extended(chain[p], b).blocks = Append(chain[p].blocks, b)
          /\ DOMAIN Extended(chain[p], b).blocks = 1 .. n + 1
          /\ Extended(chain[p], b).blocks[n + 1] = b
      BY <1>4, ExtendedFields, ZenonT(40)
    <2> QED
      BY <2>1
  <1> DEFINE bs == chain'[p].blocks
  <1>7. bs \in Seq(Range(bs)) /\ DOMAIN bs = 1 .. n + 1 /\ bs[n + 1] = b
    BY <1>6 DEF IsChain
  <1> HIDE DEF n, bs
  <1>8. Len(bs) = n + 1 /\ bs # <<>> /\ bs[Len(bs)] = b
    BY <1>5, <1>7
  <1>9. \A i \in DOMAIN chain[p].blocks : chain[p].blocks[i].hdr.height < b.hdr.height
    <2>1. \A h \in Heights(p) : h < round
      BY <1>4
    <2> QED
      BY <2>1 DEF Heights, HeightsOf
  <1>10. KnownNow[p] = n /\ KnownNow' = [KnownNow EXCEPT ![p] = @ + 1]
    BY <1>8 DEF KnownNow, n, bs
  <1>11. /\ KnownNow[p] = Len(LogNow)
         /\ \A i \in DOMAIN LogNow : LogNow[i].hdr.height < b.hdr.height
         /\ LinkedTo(LogNow, b)
         /\ LogNow' = Append(LogNow, b) /\ LogNow' # <<>> /\ LogNow'[Len(LogNow')] = b
    BY <1>1, <1>3, <1>5, <1>6, <1>8, <1>9, <1>10 DEF n, bs, LinkedTo
  <1>12. Log!Extend(p, LogNow'[Len(LogNow')])
    BY <1>10, <1>11 DEF Log!Extend, Log!Above, LogNow, KnownNow
  <1> QED
    BY <1>11, <1>12 DEF Log!Next, LogNow

\* A block appended by a candidate that the log is ahead of is the log's next.
LEMMA LogLearns ==
  ASSUME AuthorityInv, AuthorityInv', ~stopped, ~stopped',
         NEW p \in Honest, NEW d \in Honest \ Waiting, p # d, p \notin Waiting', d \notin Waiting',
         \A c \in Honest : c # p => chain'[c] = chain[c],
         chain[d] = Extended(chain[p], sent.env.block),
         chain'[p] = Extended(chain[p], sent.env.block)
  PROVE  Log!Next
  <1> DEFINE b == sent.env.block
             n == Len(chain[p].blocks)
             bs == Extended(chain[p], b).blocks
  <1>1. LogNow = bs
    BY LogIs DEF LogHeld
  <1>2. LogNow' = bs
    BY LogIsNext DEF LogHeld
  <1>3. n \in Nat /\ bs \in Seq(Range(bs)) /\ DOMAIN bs = 1 .. n + 1
    <2>1. IsChain(chain[p])
      BY DEF AuthorityInv, Replicas, Honest
    <2>2. IsChain(Extended(chain[p], b)) /\ DOMAIN bs = 1 .. n + 1
      BY <2>1, ExtendedFields
    <2> QED
      BY <2>1, <2>2 DEF IsChain
  <1>4. chain'[p].blocks = bs
    OBVIOUS
  <1> HIDE DEF bs, n
  <1>5. Len(bs) = n + 1
    BY <1>3
  <1>6. KnownNow[p] = n /\ KnownNow' = [KnownNow EXCEPT ![p] = @ + 1]
    BY <1>4, <1>5 DEF KnownNow, n
  <1>7. KnownNow[p] < Len(LogNow) /\ LogNow' = LogNow
    BY <1>1, <1>2, <1>3, <1>5, <1>6
  <1>8. Log!Learn(p)
    BY <1>6, <1>7 DEF Log!Learn, LogNow, KnownNow
  <1> QED
    BY <1>8 DEF Log!Next

\* finish_round adds the elected proposer's block to the log, when the
\* proposer keeps to the drive, and nothing otherwise.
LEMMA FinishRoundLogs ==
  ASSUME FewMistaken, AuthorityInv, AuthorityInv', NEW down, NEW agreed \in BOOLEAN,
         FinishRound(down, agreed)
  PROVE  Log!Next \/ UNCHANGED <<LogNow, KnownNow>>
  <1>1. /\ pending /\ sent = NoEnvelope /\ ~stopped /\ ~stopped'
        /\ UNCHANGED <<round, order, stopped>>
    BY DEF FinishRound
  <1>2. Waiting = {}
    BY <1>1 DEF Waiting
  <1>3. CASE UNCHANGED <<chain, minerSeq, sent>>
    <2>1. Waiting' = {}
      BY <1>2, <1>3 DEF Waiting
    <2>2. PICK d \in Honest : d \notin Waiting /\ d \notin Waiting'
      BY <1>2, <2>1 DEF FewMistaken
    <2>3. \A c \in Honest : chain'[c] = chain[c]
      BY <1>3
    <2> QED
      BY <1>1, <2>2, <2>3, LogStays
  <1>4. CASE \E c \in Members : \E env, driven :
               chain' = Propose(c, round) /\ sent' = Broadcast(env, driven) /\ env.by = c
    <2>1. PICK c \in Members : \E env, driven :
                 chain' = Propose(c, round) /\ sent' = Broadcast(env, driven) /\ env.by = c
      BY <1>4
    <2>2. sent' # NoEnvelope /\ sent'.to = Others(c) /\ sent'.env.by = c
      BY <2>1 DEF Broadcast, NoEnvelope
    <2>3. Waiting' = Members \ {c}
      BY <2>2, OthersAreOthers DEF Waiting
    <2>4. c \in Range(order)
      BY <1>1, <2>2 DEF AuthorityInv, InFlight
    <2>5. \A d \in Honest : round \notin Heights(d)
      BY <1>1, <2>4 DEF AuthorityInv, Unsettled
    <2>6. /\ \A d \in Members : d # c => chain'[d] = chain[d]
          /\ chain'[c] = Extended(chain[c], Proposal(c, round))
          /\ Proposal(c, round).hdr.height = round /\ Proposal(c, round).hdr.prev = chain[c].head
      <3>1. pending' \in BOOLEAN
        BY DEF AuthorityInv, Replicas
      <3>2. chain' = Propose(c, round)
        BY <2>1
      <3> QED
        BY <1>1, <2>5, <3>1, <3>2, ProposedReplicas
    <2>7. CASE c \in Honest
      <3>1. c \notin Waiting /\ c \notin Waiting'
        BY <1>2, <2>3
      <3>2. \A d \in Honest : d # c => chain'[d] = chain[d]
        BY <2>6 DEF Honest
      <3> QED
        BY <1>1, <2>5, <2>6, <2>7, <3>1, <3>2, LogExtends
    <2>8. CASE c \notin Honest
      <3>1. Honest \subseteq Waiting' /\ \A d \in Honest : chain'[d] = chain[d]
        BY <2>3, <2>6, <2>8 DEF Honest
      <3>2. PICK d \in Honest : d \notin Waiting
        BY <1>2 DEF FewMistaken
      <3> QED
        BY <1>1, <3>1, <3>2, LogStays
    <2> QED
      BY <2>7, <2>8
  <1>5. ASSUME NEW c \in Members, chain' = Propose(c, round),
               NEW view, NEW atts,
               sent' = Broadcast(Envelope(round, view, c, agreed, atts, Proposal(c, round), down),
                                 TRUE)
        PROVE  \E env, driven :
                 chain' = Propose(c, round) /\ sent' = Broadcast(env, driven) /\ env.by = c
    <2>1. Envelope(round, view, c, agreed, atts, Proposal(c, round), down).by = c
      BY DEF Envelope
    <2> QED
      BY <1>5, <2>1
  <1> QED
    BY <1>3, <1>4, <1>5 DEF FinishRound

\* A peer that accepts learns the log's next block or is the first to hold it.
LEMMA AcceptLogs ==
  ASSUME FewMistaken, AuthorityInv, AuthorityInv', Deliver,
         Acceptable(Head(sent.to), sent.env)
  PROVE  Log!Next \/ UNCHANGED <<LogNow, KnownNow>>
  <1> DEFINE p == Head(sent.to)
             b == sent.env.block
  <1>1. /\ sent # NoEnvelope /\ sent' = Rest
        /\ chain' = [chain EXCEPT ![p] = Extended(@, b)]
        /\ UNCHANGED <<round, stopped>>
    BY DEF Deliver, Accept, Rest, clock
  <1>2. p \in Members \cap Waiting /\ Waiting' = Waiting \ {p}
    BY <1>1, RestKeeps
  <1>3. ~stopped /\ ~stopped' /\ b.hdr.height = round
    BY <1>1 DEF AuthorityInv, InFlight
  <1>4. Acceptable(p, sent.env) /\ b.hdr.prev = chain[p].head
    BY DEF Acceptable, ExtendsHead
  <1> HIDE DEF p
  <1>5. /\ \A c \in Honest : c # p => chain'[c] = chain[c]
        /\ chain'[p] = Extended(chain[p], b)
    BY <1>1, <1>2 DEF AuthorityInv, Replicas, Honest
  <1>6. CASE p \notin Honest
    <2>1. \A c \in Honest : chain'[c] = chain[c]
      BY <1>5, <1>6
    <2>2. PICK d \in Honest : d \notin Waiting \/ Honest \subseteq Waiting
      BY DEF FewMistaken
    <2>3. d \notin Waiting' \/ Honest \subseteq Waiting'
      BY <1>2, <1>6, <2>2
    <2> QED
      BY <1>3, <2>1, <2>2, <2>3, LogStays
  <1>7. CASE p \in Honest
    <2>1. p \notin Waiting' /\ round \notin Heights(p)
      BY <1>1, <1>2, <1>4, <1>7 DEF AuthorityInv, InFlight
    <2>2. CASE Honest \subseteq Waiting
      BY <1>3, <1>4, <1>5, <1>7, <2>1, <2>2, LogExtends
    <2>3. CASE ~(Honest \subseteq Waiting)
      <3>1. PICK d \in Honest \ Waiting : TRUE
        BY <2>3
      <3>2. d # p /\ d \notin Waiting' /\ p \in Honest \cap Waiting
        BY <1>2, <1>7, <3>1
      <3>3. chain[d] = Extended(chain[p], b)
        BY <1>3, <1>4, <3>1, <3>2 DEF AuthorityInv, Together
      <3> QED
        BY <1>3, <1>5, <1>7, <2>1, <3>1, <3>2, <3>3, LogLearns
    <2> QED
      BY <2>2, <2>3
  <1> QED
    BY <1>6, <1>7

\* Every step of the round authority is a step of the log or leaves it alone.
LEMMA NextLogs ==
  ASSUME FewMistaken, AuthorityInv, AuthorityInv', [Next]_vars
  PROVE  Log!Next \/ UNCHANGED <<LogNow, KnownNow>>
  <1>1. CASE chain' = chain /\ stopped' = stopped /\ sent' = sent
    <2>1. LogNow' = LogNow /\ KnownNow' = KnownNow
      BY <1>1 DEF LogNow, KnownNow, Longest
    <2> QED
      BY <2>1
  <1>2. CASE \E r \in Rounds : BeginRound(r)
    BY <1>1, <1>2 DEF BeginRound
  <1>3. CASE \E down \in SUBSET Range(order), agreed \in AgreedFailover : FinishRound(down, agreed)
    <2>1. AgreedFailover \subseteq BOOLEAN
      BY AuthorityConstants
    <2> QED
      BY <1>3, <2>1, FinishRoundLogs
  <1>4. CASE Deliver
    <2>1. CASE Acceptable(Head(sent.to), sent.env)
      BY <1>4, <2>1, AcceptLogs
    <2>2. CASE ~Acceptable(Head(sent.to), sent.env)
      <3>1. chain' = chain
        BY <1>4, <2>2 DEF Deliver
      <3>2. LogNow' = LogNow /\ KnownNow' = KnownNow
        BY <3>1 DEF LogNow, KnownNow, Longest
      <3> QED
        BY <3>2
    <2> QED
      BY <2>1, <2>2
  <1>5. CASE \E s \in Mistaken, view \in 1 .. Len(Candidates) : Seize(s, view)
    <2>1. PICK s \in Mistaken, view \in 1 .. Len(Candidates) : Seize(s, view)
      BY <1>5
    <2>2. /\ s \in Members /\ s \notin Honest
          /\ sent = NoEnvelope /\ ~stopped /\ ~stopped'
          /\ chain' = [chain EXCEPT ![s] = Extended(@, Proposal(s, round))]
          /\ sent' # NoEnvelope /\ sent'.to = Others(s)
      <3>1. s \in Members /\ s \notin Honest
        BY AuthorityConstants DEF Honest
      <3>2. PICK env, driven : sent' = Broadcast(env, driven) /\ env.by = s
        <4> DEFINE atts == timeouts \cup {Timeout(s, round, order[v + 1], v) : v \in 0 .. (view - 1)}
                   env == Envelope(round, view, s, TRUE, atts, Proposal(s, round), {})
        <4>1. sent' = Broadcast(env, FALSE)
          BY <2>1 DEF Seize
        <4>2. env.by = s
          BY DEF Envelope
        <4> QED
          BY <4>1, <4>2
      <3>3. sent' # NoEnvelope /\ sent'.to = Others(s)
        BY <3>2 DEF Broadcast, NoEnvelope
      <3>4. sent = NoEnvelope /\ ~stopped /\ ~stopped' /\ chain' = Propose(s, round)
        BY <2>1 DEF Seize
      <3> QED
        BY <3>1, <3>3, <3>4 DEF Propose
    <2>3. Waiting = {} /\ Waiting' = Members \ {s}
      BY <2>2, OthersAreOthers DEF Waiting
    <2>4. Honest \subseteq Waiting' /\ \A c \in Honest : chain'[c] = chain[c]
      BY <2>2, <2>3 DEF AuthorityInv, Replicas, Honest
    <2>5. PICK d \in Honest : d \notin Waiting
      BY <2>3 DEF FewMistaken
    <2>6. ~stopped /\ ~stopped' /\ Honest \subseteq Waiting'
      BY <2>2, <2>4
    <2>7. \A c \in Honest : chain'[c] = chain[c]
      BY <2>4
    <2> QED
      BY <2>5, <2>6, <2>7, LogStays
  <1>6. CASE UNCHANGED vars
    BY <1>1, <1>6 DEF vars
  <1> QED
    BY <1>2, <1>3, <1>4, <1>5, <1>6 DEF Next

\* finish_round and Candidate.accept implement ElectedLog: the replicas of the
\* candidates that keep to the drive are prefixes of one hash-linked log of
\* growing heights, which only a holder of all of it extends.
THEOREM LogIsOne ==
  ASSUME FewMistaken
  PROVE  Spec => OneLog
  <1>1. Init => Log!Init
    <2> SUFFICES ASSUME Init PROVE Log!Init
      OBVIOUS
    <2>1. AuthorityInv /\ ~stopped /\ Waiting = {}
      BY InitKeeps DEF Init, Waiting
    <2>2. PICK d \in Honest : TRUE
      BY DEF FewMistaken
    <2>3. LogNow = chain[d].blocks
      BY <2>1, LogIs DEF LogHeld
    <2>4. \A c \in Honest : chain[c].blocks = <<>>
      BY DEF Init, Honest, EmptyChain
    <2>5. KnownNow = [c \in Honest |-> 0]
      BY <2>4 DEF KnownNow
    <2> QED
      BY <2>3, <2>4, <2>5 DEF Log!Init, LogNow, KnownNow
  <1>2. AuthorityInv /\ AuthorityInv' /\ [Next]_vars => [Log!Next]_<<LogNow, KnownNow>>
    BY NextLogs
  <1>3. [Log!Next]_<<LogNow, KnownNow>>
          => [Log!Next]_<<chain[Longest].blocks, [c \in Honest |-> Len(chain[c].blocks)]>>
    BY DEF LogNow, KnownNow
  <1> QED
    BY <1>1, <1>2, <1>3, AuthorityHolds, PTL DEF Spec, OneLog, Log!Spec

-----------------------------------------------------------------------------
(* Replay: by the least number of blocks at which a claim would fail.       *)

ReplaysTo(f, blocks, n) ==
  f = [i \in 0 .. n |-> IF i = 0 THEN EmptyChain ELSE Extended(f[i - 1], blocks[i])]

\* Every sequence of blocks has a replay.
LEMMA ReplayExists ==
  ASSUME NEW blocks, NEW n \in Nat
  PROVE  \E f : ReplaysTo(f, blocks, n)
  <1> DEFINE bad == {k \in Nat : ~\E f : ReplaysTo(f, blocks, k)}
  <1>1. SUFFICES ASSUME bad # {} PROVE FALSE
    OBVIOUS
  <1>2. PICK k \in bad : \A j \in bad : k <= j
    BY <1>1, LeastNatural
  <1>3. k # 0
    <2> DEFINE f == [i \in 0 .. 0 |-> EmptyChain]
    <2>1. f = [i \in 0 .. 0 |-> IF i = 0 THEN EmptyChain ELSE Extended(f[i - 1], blocks[i])]
      OBVIOUS
    <2>2. 0 \notin bad
      BY <2>1 DEF ReplaysTo
    <2> QED
      BY <2>2
  <1>4. k \in Nat /\ k - 1 \in Nat /\ k - 1 \notin bad
    BY <1>2, <1>3
  <1>5. PICK g : ReplaysTo(g, blocks, k - 1)
    BY <1>4
  <1> DEFINE f == [i \in 0 .. k |-> IF i = k THEN Extended(g[k - 1], blocks[k]) ELSE g[i]]
  <1>6. \A i \in 0 .. k : f[i] = IF i = k THEN Extended(g[k - 1], blocks[k]) ELSE g[i]
    OBVIOUS
  <1>7. \A i \in 0 .. k - 1 :
          g[i] = IF i = 0 THEN EmptyChain ELSE Extended(g[i - 1], blocks[i])
    BY <1>5 DEF ReplaysTo
  <1>8. \A i \in 0 .. k :
          f[i] = IF i = 0 THEN EmptyChain ELSE Extended(f[i - 1], blocks[i])
    <2> HIDE DEF f
    <2> TAKE i \in 0 .. k
    <2>1. CASE i = k
      <3>1. k - 1 \in 0 .. k /\ k - 1 # k /\ k \in 0 .. k
        BY <1>3, <1>4
      <3>2. f[k - 1] = g[k - 1]
        BY <1>6, <3>1
      <3> QED
        BY <1>3, <1>6, <2>1, <3>1, <3>2
    <2>2. CASE i # k /\ i # 0
      <3>1. i \in 0 .. k - 1 /\ i - 1 \in 0 .. k /\ i - 1 # k
        BY <1>4, <2>2
      <3>2. f[i] = g[i] /\ f[i - 1] = g[i - 1]
        BY <1>6, <2>2, <3>1
      <3> QED
        BY <1>7, <2>2, <3>1, <3>2
    <2>3. CASE i = 0
      <3>1. 0 \in 0 .. k - 1 /\ i # k
        BY <1>3, <1>4, <2>3
      <3> QED
        BY <1>6, <1>7, <2>3, <3>1
    <2> QED
      BY <2>1, <2>2, <2>3
  <1>9. f = [i \in 0 .. k |-> f[i]]
    OBVIOUS
  <1> HIDE DEF f
  <1>10. ReplaysTo(f, blocks, k)
    BY <1>8, <1>9 DEF ReplaysTo
  <1> QED
    BY <1>2, <1>10

\* Replays of sequences that agree so far agree so far.
LEMMA ReplayUnique ==
  ASSUME NEW bs, NEW cs, NEW n \in Nat, NEW m \in Nat, n <= m,
         \A i \in 1 .. n : bs[i] = cs[i],
         NEW f, ReplaysTo(f, bs, n), NEW g, ReplaysTo(g, cs, m)
  PROVE  \A i \in 0 .. n : f[i] = g[i]
  <1> DEFINE bad == {k \in 0 .. n : f[k] # g[k]}
  <1>1. SUFFICES ASSUME bad # {} PROVE FALSE
    OBVIOUS
  <1>2. PICK k \in bad : \A j \in bad : k <= j
    <2>1. bad \subseteq Nat
      OBVIOUS
    <2> HIDE DEF bad
    <2> QED
      BY <1>1, <2>1, LeastNatural
  <1>3. k \in 0 .. n /\ k \in 0 .. m
    BY <1>2
  <1>4. /\ f[k] = IF k = 0 THEN EmptyChain ELSE Extended(f[k - 1], bs[k])
        /\ g[k] = IF k = 0 THEN EmptyChain ELSE Extended(g[k - 1], cs[k])
    BY <1>3 DEF ReplaysTo
  <1>5. k # 0 => k - 1 \in 0 .. n /\ k - 1 \notin bad /\ k \in 1 .. n
    BY <1>2, <1>3
  <1> QED
    BY <1>2, <1>4, <1>5

\* One block more is replayed on what the replay had reached.
LEMMA ReplayedOneMore ==
  ASSUME NEW bs, bs \in Seq(Range(bs)), NEW rec
  PROVE  Replayed(Append(bs, rec)) = Extended(Replayed(bs), rec)
  <1> DEFINE n == Len(bs)
             cs == Append(bs, rec)
             fun(b) == CHOOSE f : ReplaysTo(f, b, Len(b))
  <1>1. /\ n \in Nat /\ cs \in Seq(Range(bs) \cup {rec}) /\ Len(cs) = n + 1 /\ cs[n + 1] = rec
        /\ \A i \in 1 .. n : bs[i] = cs[i]
    OBVIOUS
  <1>2. \A b : Replayed(b) = fun(b)[Len(b)]
    BY DEF Replayed, ReplaysTo
  <1> HIDE DEF n, cs
  <1>3. ReplaysTo(fun(bs), bs, n)
    BY <1>1, ReplayExists DEF n
  <1>4. ReplaysTo(fun(cs), cs, n + 1)
    BY <1>1, ReplayExists
  <1>5. fun(bs)[n] = fun(cs)[n]
    <2>1. \A i \in 0 .. n : fun(bs)[i] = fun(cs)[i]
      <3> HIDE DEF fun
      <3> QED
        BY <1>1, <1>3, <1>4, ReplayUnique, SMTT(30)
    <2> QED
      BY <1>1, <2>1
  <1>6. fun(cs)[n + 1] = Extended(fun(cs)[n], rec)
    <2> HIDE DEF fun
    <2>1. n + 1 \in 0 .. n + 1 /\ n + 1 # 0 /\ (n + 1) - 1 = n
      BY <1>1
    <2> QED
      BY <1>1, <1>4, <2>1 DEF ReplaysTo
  <1> QED
    BY <1>1, <1>2, <1>5, <1>6 DEF n, cs

-----------------------------------------------------------------------------
(* Every replica replays.                                                   *)

\* A quorum can be had of the first validators.
LEMMA FirstValidatorsSign ==
  FirstValidators \subseteq Validators /\ Cardinality(FirstValidators) = QuorumM
  <1> DEFINE n == Cardinality(Validators)
  <1>1. n \in Nat /\ QuorumM \in 1 .. n
    BY SettlementConstants, AuthorityConstants, FS_CardinalityType DEF StrictMajority
  <1>2. PICK f : f \in Bijection(1 .. n, Validators)
    BY SettlementConstants, FS_CardinalityType DEF ExistsBijection
  <1> HIDE DEF n
  <1> DEFINE S == {f[i] : i \in 1 .. QuorumM}
             g == [i \in 1 .. QuorumM |-> f[i]]
  <1>3. \A i \in 1 .. QuorumM : i \in 1 .. n
    BY <1>1
  <1>4. S \subseteq Validators
    BY <1>2, <1>3 DEF Bijection, Injection
  <1>5. g \in Bijection(1 .. QuorumM, S)
    <2>1. g \in [1 .. QuorumM -> S] /\ \A t \in S : \E i \in 1 .. QuorumM : g[i] = t
      OBVIOUS
    <2>2. \A i, j \in 1 .. QuorumM : g[i] = g[j] => i = j
      BY <1>2, <1>3 DEF Bijection, Injection, IsInjective
    <2> HIDE DEF g, S
    <2> QED
      BY <2>1, <2>2 DEF Bijection, Injection, Surjection, IsInjective
  <1>6. IsFiniteSet(1 .. QuorumM) /\ Cardinality(1 .. QuorumM) = QuorumM
    <2>1. QuorumM \in Int /\ 1 \in Int /\ ~(1 > QuorumM) /\ QuorumM - 1 + 1 = QuorumM
      BY <1>1
    <2> QED
      BY <2>1, FS_Interval
  <1>7. Cardinality(S) = QuorumM
    BY <1>5, <1>6, FS_Bijection DEF ExistsBijection
  <1> HIDE DEF S
  <1>8. \E T \in SUBSET Validators : Cardinality(T) = QuorumM
    BY <1>4, <1>7
  <1> QED
    BY <1>8 DEF FirstValidators

\* What a peer needs of a block to replay it, but for its place in the chain.
Authorised(rec) ==
  /\ rec.sig = [by |-> CoordKey, over |-> Hash(rec.hdr)]
  /\ VerifyBlockQuorum(rec)

\* The proposer's block carries the validators' quorum on its own mint.
LEMMA ProposalAuthorised ==
  ASSUME BareValidators, NEW ch, NEW r \in Rounds, NEW m \in Miners
  PROVE  Authorised(SettledBlock(ch, r, Reward, m, BuildQuorum(m, r)))
  <1> DEFINE rec == SettledBlock(ch, r, Reward, m, BuildQuorum(m, r))
             payload == SettlementPayload(m, Reward, r, r)
             sigs == {SignSettlement(v, payload) : v \in FirstValidators}
  <1>1. BuildQuorum(m, r) # NoQuorum
    BY QuorumsAreSome
  <1>2. /\ rec.quorum = BuildQuorum(m, r) /\ rec.to = m
        /\ rec.hdr.reward = Reward /\ rec.hdr.height = r
        /\ rec.sig = [by |-> CoordKey, over |-> Hash(rec.hdr)]
        /\ rec.hdr.bound = QuorumHash(rec.quorum)
    BY <1>1 DEF SettledBlock
  <1>3. BuildQuorum(m, r).payload.cid = r /\ BuildQuorum(m, r).sigs = sigs
    BY DEF BuildQuorum, SettlementBlockProof, SettlementPayload
  <1>4. FirstValidators \subseteq Signers(sigs, payload) /\ Signers(sigs, payload) \subseteq Validators
    BY FirstValidatorsSign DEF Signers
  <1>5. Cardinality(Signers(sigs, payload)) >= QuorumM
    <2>1. IsFiniteSet(Signers(sigs, payload))
      BY <1>4, FS_Subset, SettlementConstants
    <2>2. Cardinality(FirstValidators) <= Cardinality(Signers(sigs, payload))
      BY <1>4, <2>1, FS_Subset
    <2> QED
      BY <2>2, FirstValidatorsSign
  <1>6. CollectSettlementSignatures(sigs, payload)
    BY <1>5, AuthorityConstants DEF CollectSettlementSignatures, BareValidators
  <1> HIDE DEF rec, payload, sigs
  <1>7. VerifyBlockQuorum(rec)
    BY <1>1, <1>2, <1>3, <1>6 DEF VerifyBlockQuorum, payload
  <1> QED
    BY <1>2, <1>7 DEF Authorised, rec

\* A chain whose blocks are authorised and that is what its blocks replay to.
Sound(ch) ==
  /\ IsChain(ch)
  /\ ch = Replayed(ch.blocks)
  /\ \A i \in DOMAIN ch.blocks : BlockReplays(ch.blocks, i, TRUE)

LEMMA SoundExtended ==
  ASSUME NEW ch, Sound(ch), NEW rec, Authorised(rec), rec.hdr.prev = ch.head
  PROVE  Sound(Extended(ch, rec))
  <1> DEFINE x == Extended(ch, rec)
             n == Len(ch.blocks)
  <1>1. /\ n \in Nat /\ DOMAIN ch.blocks = 1 .. n /\ ch.blocks \in Seq(Range(ch.blocks))
        /\ ch.head = PrevOf(ch.blocks, n + 1)
    BY DEF Sound, IsChain
  <1>2. /\ IsChain(x) /\ x.blocks = Append(ch.blocks, rec)
        /\ DOMAIN x.blocks = 1 .. n + 1 /\ x.blocks[n + 1] = rec
        /\ \A i \in 1 .. n : x.blocks[i] = ch.blocks[i]
    <2>1. IsChain(ch)
      BY DEF Sound
    <2> HIDE DEF n
    <2>2. IsChain(x) /\ x.blocks = Append(ch.blocks, rec)
      BY <2>1, ExtendedFields
    <2>3. DOMAIN x.blocks = 1 .. n + 1 /\ x.blocks[n + 1] = rec
      BY <2>1, ExtendedFields DEF n
    <2>4. \A i \in 1 .. n : x.blocks[i] = ch.blocks[i]
      <3> HIDE DEF x
      <3> QED
        BY <1>1, <2>2
    <2> HIDE DEF x
    <2> QED
      BY <2>2, <2>3, <2>4
  <1>3. x = Replayed(x.blocks)
    BY <1>1, <1>2, ReplayedOneMore DEF Sound
  <1> HIDE DEF x, n
  <1>4. \A i \in 1 .. n + 1 : PrevOf(x.blocks, i) = PrevOf(ch.blocks, i)
    <2> TAKE i \in 1 .. n + 1
    <2>1. i # 1 => i - 1 \in 1 .. n
      BY <1>1
    <2> QED
      BY <1>2, <2>1 DEF PrevOf
  <1>5. ASSUME NEW i \in 1 .. n + 1 PROVE BlockReplays(x.blocks, i, TRUE)
    <2>1. CASE i \in 1 .. n
      BY <1>1, <1>2, <1>4, <2>1 DEF Sound, BlockReplays
    <2>2. CASE i = n + 1
      <3>1. rec.hdr.prev = PrevOf(x.blocks, n + 1) /\ x.blocks[n + 1] = rec
        BY <1>1, <1>2, <1>4, <2>2
      <3> QED
        BY <2>2, <3>1 DEF Authorised, BlockReplays
    <2>3. i \in 1 .. n \/ i = n + 1
      BY <1>1
    <2> QED
      BY <2>1, <2>2, <2>3
  <1> QED
    BY <1>2, <1>3, <1>5 DEF Sound, x

\* Every replica is sound, and what is handed round is authorised.
ExportInv ==
  /\ round \in Rounds /\ minerSeq \in Nat
  /\ chain = [c \in Members |-> chain[c]]
  /\ \A c \in Members : Sound(chain[c])
  /\ sent # NoEnvelope =>
       /\ sent \in [env : {sent.env}, driven : {sent.driven}, round : {sent.round}, to : {sent.to}]
       /\ Authorised(sent.env.block)

\* A member's own proposal, appended to its replica and sent.
LEMMA ProposedExports ==
  ASSUME BareValidators, ExportInv, NEW p \in Members, minerSeq < MaxProposals,
         minerSeq' = minerSeq + 1, chain' = Propose(p, round), round' = round,
         NEW env, NEW driven, sent' = Broadcast(env, driven), env.block = Proposal(p, round)
  PROVE  ExportInv'
  <1> DEFINE b == Proposal(p, round)
  <1>1. minerSeq \in Nat /\ minerSeq + 1 \in Nat /\ minerSeq + 1 \in Miners
    BY AuthorityConstants DEF ExportInv
  <1>2. Authorised(b)
    BY <1>1, ProposalAuthorised DEF Proposal, ExportInv
  <1>3. b.hdr.prev = chain[p].head
    BY DEF Proposal, SettledBlock
  <1> HIDE DEF b
  <1>4. chain' = [chain EXCEPT ![p] = Extended(@, b)]
    BY DEF Propose, b
  <1>5. Sound(Extended(chain[p], b))
    BY <1>2, <1>3, SoundExtended DEF ExportInv
  <1>6. chain' = [c \in Members |-> chain'[c]] /\ \A c \in Members : Sound(chain'[c])
    BY <1>4, <1>5 DEF ExportInv
  <1>7. /\ sent' \in [env : {sent'.env}, driven : {sent'.driven}, round : {sent'.round},
                      to : {sent'.to}]
        /\ Authorised(sent'.env.block)
    <2>1. sent'.env = env
      BY DEF Broadcast
    <2>2. sent' \in [env : {sent'.env}, driven : {sent'.driven}, round : {sent'.round},
                     to : {sent'.to}]
      BY DEF Broadcast
    <2> QED
      BY <1>2, <2>1, <2>2 DEF b
  <1> QED
    BY <1>1, <1>6, <1>7 DEF ExportInv

LEMMA NextExports ==
  ASSUME BareValidators, ExportInv, [Next]_vars
  PROVE  ExportInv'
  <1>1. ASSUME NEW r \in Rounds, BeginRound(r) PROVE ExportInv'
    BY <1>1 DEF BeginRound, ExportInv
  <1>2. ASSUME NEW down, NEW agreed, FinishRound(down, agreed) PROVE ExportInv'
    <2>1. CASE UNCHANGED <<chain, minerSeq, sent>>
      BY <1>2, <2>1 DEF FinishRound, ExportInv
    <2>2. ASSUME NEW c \in Members, NEW view, NEW atts,
                 minerSeq < MaxProposals, minerSeq' = minerSeq + 1, chain' = Propose(c, round),
                 sent' = Broadcast(Envelope(round, view, c, agreed, atts, Proposal(c, round), down),
                                   TRUE)
          PROVE  ExportInv'
      <3>1. Envelope(round, view, c, agreed, atts, Proposal(c, round), down).block
              = Proposal(c, round)
        BY DEF Envelope
      <3>2. round' = round
        BY <1>2 DEF FinishRound
      <3> QED
        BY <2>2, <3>1, <3>2, ProposedExports
    <2> QED
      BY <1>2, <2>1, <2>2 DEF FinishRound
  <1>3. CASE Deliver
    <2> DEFINE p == Head(sent.to)
               b == sent.env.block
    <2>1. /\ sent # NoEnvelope /\ UNCHANGED <<round, minerSeq>>
          /\ \/ sent' = NoEnvelope
             \/ /\ sent'.env = sent.env
                /\ sent' \in [env : {sent'.env}, driven : {sent'.driven}, round : {sent'.round},
                              to : {sent'.to}]
      <3>1. sent # NoEnvelope /\ UNCHANGED <<round, minerSeq>>
        BY <1>3 DEF Deliver, clock
      <3>2. sent' = NoEnvelope \/ sent' = [sent EXCEPT !.to = Tail(@)]
        BY <1>3 DEF Deliver
      <3>3. sent \in [env : {sent.env}, driven : {sent.driven}, round : {sent.round},
                      to : {sent.to}]
        BY <3>1 DEF ExportInv
      <3> QED
        BY <3>1, <3>2, <3>3
    <2>2. Authorised(b)
      BY <2>1 DEF ExportInv
    <2>3. CASE chain' = chain
      BY <2>1, <2>2, <2>3 DEF ExportInv
    <2>4. CASE Acceptable(p, sent.env)
      <3>1. chain' = [chain EXCEPT ![p] = Extended(@, b)] /\ b.hdr.prev = chain[p].head
        BY <1>3, <2>4 DEF Deliver, Accept, Acceptable, ExtendsHead
      <3> HIDE DEF p, b
      <3>2. p \in Members => Sound(Extended(chain[p], b))
        BY <2>2, <3>1, SoundExtended DEF ExportInv
      <3>3. chain' = [c \in Members |-> chain'[c]] /\ \A c \in Members : Sound(chain'[c])
        BY <3>1, <3>2 DEF ExportInv
      <3> QED
        BY <2>1, <2>2, <3>3 DEF ExportInv, b
    <2> QED
      BY <1>3, <2>3, <2>4 DEF Deliver
  <1>4. ASSUME NEW s \in Mistaken, NEW view, Seize(s, view) PROVE ExportInv'
    <2> DEFINE atts == timeouts \cup {Timeout(s, round, order[v + 1], v) : v \in 0 .. (view - 1)}
    <2>1. /\ minerSeq < MaxProposals /\ minerSeq' = minerSeq + 1 /\ chain' = Propose(s, round)
          /\ sent' = Broadcast(Envelope(round, view, s, TRUE, atts, Proposal(s, round), {}), FALSE)
      BY <1>4 DEF Seize
    <2>2. round' = round
      BY <1>4 DEF Seize, clock
    <2>3. Envelope(round, view, s, TRUE, atts, Proposal(s, round), {}).block = Proposal(s, round)
      BY DEF Envelope
    <2>4. s \in Members
      BY AuthorityConstants
    <2> HIDE DEF atts
    <2> QED
      BY <2>1, <2>2, <2>3, <2>4, ProposedExports
  <1>5. CASE UNCHANGED vars
    BY <1>5 DEF vars, clock, ExportInv
  <1> QED
    BY <1>1, <1>2, <1>3, <1>4, <1>5 DEF Next

LEMMA EmptyChainSound == Sound(EmptyChain)
  <1>1. EmptyChain.blocks = <<>> /\ EmptyChain.head = <<>>
        /\ EmptyChain \in [blocks : {EmptyChain.blocks}, head : {EmptyChain.head},
                           bal : {EmptyChain.bal}, minted : {EmptyChain.minted}]
    BY DEF EmptyChain, GENESIS_PREV_HASH
  <1>2. <<>> \in Seq(Range(<<>>)) /\ Len(<<>>) = 0 /\ DOMAIN <<>> = {}
    BY DEF Range
  <1>3. IsChain(EmptyChain)
    BY <1>1, <1>2 DEF IsChain, PrevOf, GENESIS_PREV_HASH
  <1>4. Replayed(<<>>) = EmptyChain
    <2> DEFINE fun(b) == CHOOSE f : ReplaysTo(f, b, Len(b))
    <2>1. Replayed(<<>>) = fun(<<>>)[Len(<<>>)]
      BY DEF Replayed, ReplaysTo
    <2>2. ReplaysTo(fun(<<>>), <<>>, 0)
      BY <1>2, ReplayExists
    <2> HIDE DEF fun
    <2>3. fun(<<>>)[0] = EmptyChain
      BY <2>2 DEF ReplaysTo
    <2> QED
      BY <1>2, <2>1, <2>3
  <1> QED
    BY <1>1, <1>2, <1>3, <1>4 DEF Sound

\* ChainSettlement.verify and verify_public_chain: whatever the mistaken
\* candidates do and however many blocks there are, the replica of every other
\* candidate replays, quorums required, from genesis to the balances it holds.
THEOREM ExportAlwaysVerifies ==
  ASSUME BareValidators
  PROVE  Spec => []ExportVerifies
  <1>1. Init => ExportInv
    <2>1. Init => round \in Rounds
      BY AuthorityConstants DEF Init, Rounds
    <2> QED
      BY <2>1, EmptyChainSound DEF Init, ExportInv
  <1>2. ExportInv /\ [Next]_vars => ExportInv'
    BY NextExports
  <1>3. ExportInv => ExportVerifies
    <2> SUFFICES ASSUME ExportInv, NEW c \in Honest
                 PROVE  VerifyPublicChain(chain[c].blocks, TRUE) /\ Verify(chain[c])
      BY DEF ExportVerifies
    <2>1. Sound(chain[c])
      BY DEF ExportInv, Honest
    <2> QED
      BY <2>1 DEF Sound, VerifyPublicChain, Verify, BlockReplays
  <1> QED
    BY <1>1, <1>2, <1>3, PTL DEF Spec

=============================================================================
