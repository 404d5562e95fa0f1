--------------------------- MODULE PoolCoordinator ---------------------------
(***************************************************************************)
(* The merge lane of a coordinator: contribution records polled from       *)
(* replicated stores, gathered into batches, put to a committee of staked  *)
(* verifiers, merged by held-out gain, paid through a settlement chain,    *)
(* checkpointed and restored (neurahash/diloco_merge.py,                   *)
(* diloco_committee.py, diloco_settlement.py, chain_settlement.py).  The   *)
(* round loop that calls them is not in the repository; it is taken from   *)
(* what those modules say of their caller: a poller that queues each cid   *)
(* once per process, one merge at a time, settle and mark_paid for each    *)
(* accepted delta whose record is signed, a checkpoint between rounds.     *)
(*                                                                         *)
(* The held-out loss is the eval callback's: the drop it measures for a    *)
(* candidate is chosen from a small set, in units so small that the shares *)
(* of a batch are whole.  Time is the age of what is queued, and a round   *)
(* of the loop takes less than a tick.                                     *)
(***************************************************************************)
EXTENDS ChainSettlement

CONSTANTS
  Records,        \* what may be published: [name, cid, declared, signer, corpus]
  Author,         \* the author of each cid
  Primary, Replicas,
  RegistryPosture, RequireSig, CorpusEnforce,
  GraceS, GraceMaxS, BatchMax,
  CommitteeMode, Strict, MinCohort, Liars,
  Cohorts,        \* what must_audit may select among the connected verifiers
  SettleMode,
  Gains,          \* drops of the held-out loss
  MaxRound, MaxRestarts

Stores == {Primary} \union Replicas
Cids   == {r.cid : r \in Records}
Names  == {r.name : r \in Records}

ASSUME PoolConstants ==
  /\ IsFiniteSet(Records) /\ Gains \subseteq Int
  /\ Records \subseteq [name : Names, cid : Cids, declared : Miners,
                        signer : Miners \union {NoMiner},
                        corpus : {"ours", "other", "absent"}]
  /\ Author \in [Cids -> Miners] /\ Liars \subseteq Validators
  /\ Cohorts \subseteq SUBSET Validators
  /\ {GraceS, GraceMaxS, BatchMax, MinCohort} \subseteq Nat
  /\ RegistryPosture \in {"off", "audit", "enforce"}
  /\ {CommitteeMode, SettleMode} \subseteq {"off", "audit", "enforce"}

VARIABLES
  store,      \* per store, the record in each contributor's slot
  seen,       \* the poller's memory of this process
  queue,      \* pending candidates, oldest first: [rec, age]
  batch,      \* the candidates of the merge under way: [rec, gain, vote]
  round,      \* merge rounds of this lineage
  drop,       \* how far the held-out loss has come down, with the trunk
  merged,     \* what the trunk holds: [cid, round, gain]
  chain, paid_cids,
  mints,      \* the cid of each block of the chain
  signed,     \* every acceptance an honest verifier has signed
  ckpt,       \* the checkpoint on disk
  restarts

vars == <<store, seen, queue, batch, round, drop, merged, chain, paid_cids,
          mints, signed, ckpt, restarts>>
disk == <<round, drop, merged, chain, paid_cids, mints>>

(***************************************************************************)
(* The registry.                                                           *)
(***************************************************************************)
\* Mutant: the address a record declares is believed.
SigOkDeclared(rec) == rec.declared # NoMiner

SigOk(rec) == rec.signer # NoMiner /\ rec.signer = rec.declared

\* The address settlement pays: the one recovered from the signature.
Payee(rec) == rec.signer

PollOneStore(s) ==
  {rec \in Records : store[s][rec.name] = {rec} /\ (RequireSig => SigOk(rec))}

RegistryStores == {Primary} \union IF RegistryPosture = "off" THEN {} ELSE Replicas

\* Mutant: the first one seen.
DedupFirstSeen(recs) ==
  {win \in SUBSET recs :
     /\ {r.cid : r \in win} = {r.cid : r \in recs}
     /\ \A r, q \in win : r.cid = q.cid => r = q}

\* One record per cid: a signed one whenever there is one; which of several
\* is a matter of manifest order.
DedupPreferSigned(recs) ==
  {win \in SUBSET recs :
     /\ {r.cid : r \in win} = {r.cid : r \in recs}
     /\ \A r, q \in win : r.cid = q.cid => r = q
     /\ \A r \in win : ~SigOk(r) => \A q \in recs : q.cid = r.cid => ~SigOk(q)}

\* poll_contrib_records with the stores of `up` reachable.
PollContribRecords(up) ==
  LET merged_view == UNION {PollOneStore(s) : s \in up \intersect RegistryStores}
  IN  IF RegistryPosture = "enforce" THEN DedupPreferSigned(merged_view)
      ELSE DedupPreferSigned(IF Primary \in up THEN PollOneStore(Primary) ELSE {})

CorpusShaOk(rec) ==
  /\ rec.corpus # "other"
  /\ rec.corpus = "absent" => ~CorpusEnforce

(***************************************************************************)
(* The grace window.                                                       *)
(***************************************************************************)
Ages == {queue[i].age : i \in DOMAIN queue}

\* Mutant: no cap on how long a drip of arrivals holds the window open.
DefersUncapped == queue # <<>> /\ GraceS > 0 /\ \E a \in Ages : a < GraceS

Defers ==
  /\ queue # <<>> /\ GraceS > 0
  /\ \E a \in Ages : a < GraceS
  /\ \A a \in Ages : a < GraceMaxS

BatchSize == IF BatchMax > 0 /\ BatchMax < Len(queue) THEN BatchMax ELSE Len(queue)

(***************************************************************************)
(* The committee.                                                          *)
(***************************************************************************)
\* A beacon binds the round, the trunk of that round and the candidate.
Beacon(cid) == [round |-> round, trunk |-> merged, cid |-> cid]

Attestation(v, beacon, ok) == [by |-> v, beacon |-> beacon, accepted |-> ok]

\* The answers a request brings: the verdict `ok` of the honest verifiers that
\* are in time, whatever the liars say, and at most one late answer to an
\* earlier request.
Answers(beacon, inTime, ok, lie, late) ==
  {Attestation(v, beacon, IF v \in Liars THEN lie ELSE ok) : v \in inTime} \union late

\* Mutant: any attestation counts.
BoundToAny(beacon, atts) == atts

\* Only answers to this very request are counted.
BoundTo(beacon, atts) == {a \in atts : a.beacon = beacon}

Aggregate(atts, selected) ==
  LET m     == Cardinality(selected) \div 2 + 1
      valid == {a.by : a \in atts} \intersect selected
      yes   == {a.by : a \in {b \in atts : b.accepted}} \intersect selected
  IN  [quorum_met |-> Cardinality(valid) >= m, accepted |-> Cardinality(yes) >= m,
       selected_n |-> Cardinality(selected)]

GatedAccept(single_ok, v) ==
  IF CommitteeMode # "enforce" THEN single_ok
  ELSE IF v.selected_n < MinCohort \/ ~v.quorum_met THEN single_ok /\ ~Strict
  ELSE single_ok /\ v.accepted

(***************************************************************************)
(* The merge.                                                              *)
(***************************************************************************)
Total(f) == MapThenSumSet(LAMBDA x : f[x], DOMAIN f)
GainSum(S) == Total([c \in S |-> c.gain])
Positive(cands) == {c \in cands : c.gain > 0}

\* Results of apply_deltas_weighted_gated on these candidates: how far the
\* loss comes down and what each candidate is credited with.
\* One candidate, or the weighted sum of those that help on their own.
Combined(cands, total) ==
  LET pos == Positive(cands)
  IN  [drop |-> total,
       gains |-> {[cid |-> c.rec.cid, gain |-> (total * c.gain) \div GainSum(pos)] : c \in pos}]

\* Mutant: every step is credited with its probe.
SerialFallbackProbed(cands, then) ==
  LET pos  == Positive(cands)
      best == CHOOSE c \in pos : \A d \in pos : d.gain <= c.gain
  IN  [drop |-> best.gain + Total([c \in pos \ {best} |-> then[c.rec.cid]]),
       gains |-> {[cid |-> c.rec.cid, gain |-> c.gain] : c \in pos}]

\* The combined merge made things worse: the best goes in first, for the drop
\* it was probed with, the others for what they still bring on top of it.
SerialFallback(cands, then) ==
  LET pos  == Positive(cands)
      best == CHOOSE c \in pos : \A d \in pos : d.gain <= c.gain
  IN  [drop |-> best.gain + Total([c \in pos \ {best} |-> then[c.rec.cid]]),
       gains |-> {[cid |-> best.rec.cid, gain |-> best.gain]} \union
                 {[cid |-> c.rec.cid, gain |-> then[c.rec.cid]] :
                    c \in {d \in pos \ {best} : then[d.rec.cid] > 0}}]

MergeResults(cands) ==
  LET pos == Positive(cands)
  IN  IF pos = {} THEN {[drop |-> 0, gains |-> {}]}
      ELSE IF Cardinality(cands) = 1 THEN {Combined(cands, GainSum(cands))}
      ELSE {Combined(cands, t) : t \in {g \in Gains : g >= 0}}
           \union {SerialFallback(cands, then) :
                     then \in [{c.rec.cid : c \in pos} -> {g \in Gains : g >= 0}]}

(***************************************************************************)
(* Payment.  A cid that was paid is not paid again; under enforce the      *)
(* roster's signatures over this very mint must reach the quorum.          *)
(***************************************************************************)
SettleAllowed(approved) == SettleMode = "enforce" => approved

\* What pays the credit g of this batch when the validators of `answer` sign.
Pay(acc, g, rec, answer) ==
  LET payload == SettlementPayload(Payee(rec), g.gain, round + 1, g.cid)
      sigs    == {SignSettlement(v, payload) : v \in answer}
  IN  IF SigOk(rec) /\ g.cid \notin acc.paid
         /\ SettleAllowed(CollectSettlementSignatures(sigs, payload))
      THEN [chain |-> Settle(acc.chain, round + 1, g.gain, Payee(rec), NoQuorum),
            paid |-> acc.paid \union {g.cid}, mints |-> Append(acc.mints, g.cid)]
      ELSE acc

\* Mutant: the paid index is not part of the checkpoint.
SnapshotUnpaid ==
  [round |-> round, drop |-> drop, merged |-> merged, blocks |-> chain.blocks,
   paid_cids |-> {}, mints |-> mints]

-----------------------------------------------------------------------------
Snapshot ==
  [round |-> round, drop |-> drop, merged |-> merged, blocks |-> chain.blocks,
   paid_cids |-> paid_cids, mints |-> mints]

Init ==
  /\ store = [s \in Stores |-> [n \in Names |-> {}]]
  /\ seen = {} /\ queue = <<>> /\ batch = {} /\ signed = {}
  /\ round = 0 /\ drop = 0 /\ merged = {} /\ mints = <<>>
  /\ chain = EmptyChain /\ paid_cids = {} /\ restarts = 0
  /\ ckpt = Snapshot

\* A contributor PUTs its record to every store, once; some PUTs may fail.
\* Its slot holds one record, the last.
Publish(rec, to) ==
  /\ to \subseteq RegistryStores /\ to # {} /\ \A s \in Stores : store[s][rec.name] # {rec}
  /\ store' = [s \in Stores |-> IF s \in to THEN [store[s] EXCEPT ![rec.name] = {rec}]
                                ELSE store[s]]
  /\ UNCHANGED <<seen, queue, batch, signed, ckpt, restarts, disk>>

\* The poller: what is new, declares this corpus and can be fetched by its cid
\* from some gateway is queued.
Poll(up, fetched) ==
  /\ \E view \in PollContribRecords(up) :
       \E new \in SetToSeqs({r \in view : r.cid \in fetched \ seen /\ CorpusShaOk(r)}) :
         /\ new # <<>>
         /\ seen' = seen \union {new[i].cid : i \in DOMAIN new}
         /\ queue' = queue \o [i \in DOMAIN new |-> [rec |-> new[i], age |-> 0]]
  /\ UNCHANGED <<store, batch, signed, ckpt, restarts, disk>>

\* A second passes while the loop has nothing that is due.
Tick ==
  /\ Defers
  /\ batch = {}
  /\ queue' = [i \in DOMAIN queue |-> [queue[i] EXCEPT !.age = @ + 1]]
  /\ UNCHANGED <<store, seen, batch, signed, ckpt, restarts, disk>>

\* gather_batch: the merge of a round begins.
Gather ==
  /\ batch = {} /\ queue # <<>> /\ ~Defers /\ round < MaxRound
  /\ batch' = {[rec |-> queue[i].rec, gain |-> 0, vote |-> "none"] : i \in 1 .. BatchSize}
  /\ queue' = SubSeq(queue, BatchSize + 1, Len(queue))
  /\ UNCHANGED <<store, seen, signed, ckpt, restarts, disk>>

\* One candidate is probed, for `gain`, and put to the verifiers the beacon
\* selects among those that are connected (verify_candidate_live).  Each of
\* them runs the gate on the same trunk and signs what it finds; the
\* coordinator's own measure is not theirs.
Vote(c, gain, selected, inTime, ok, lie, late) ==
  LET beacon == Beacon(c.rec.cid)
      v == Aggregate(BoundTo(beacon, Answers(beacon, inTime, ok, lie, late)), selected)
  IN
  /\ c.vote = "none"
  /\ batch' = (batch \ {c}) \union
       {[c EXCEPT !.gain = gain, !.vote = IF GatedAccept(TRUE, v) THEN "stays" ELSE "vetoed"]}
  /\ signed' = IF ok THEN signed \union {Attestation(w, beacon, TRUE) : w \in selected \ Liars}
               ELSE signed
  /\ UNCHANGED <<store, seen, queue, ckpt, restarts, disk>>

\* All candidates have been voted on: merge, settle and mark_paid.
MergeAndPay(answer) ==
  LET cands == {c \in batch : c.vote = "stays"}
      recOf(cid) == (CHOOSE c \in batch : c.rec.cid = cid).rec
  IN
  /\ batch # {} /\ \A c \in batch : c.vote # "none"
  /\ \E res \in MergeResults(cands) :
       LET after == FoldSet(LAMBDA g, acc : Pay(acc, g, recOf(g.cid), answer),
                            [chain |-> chain, paid |-> paid_cids, mints |-> mints], res.gains)
       IN  /\ drop' = drop + res.drop
           /\ merged' = merged \union
                {[cid |-> g.cid, round |-> round + 1, gain |-> g.gain] : g \in res.gains}
           /\ chain' = after.chain /\ paid_cids' = after.paid /\ mints' = after.mints
  /\ round' = round + 1
  /\ batch' = {}
  /\ UNCHANGED <<store, seen, queue, signed, ckpt, restarts>>

\* Only the checkpoints a later restart can start from are told apart.
Checkpoint ==
  /\ batch = {} /\ ckpt # Snapshot /\ restarts < MaxRestarts
  /\ ckpt' = Snapshot
  /\ UNCHANGED <<store, seen, queue, batch, signed, restarts, disk>>

\* Mutant: the queue outlives the memory of what was queued.
RestartQueued ==
  /\ restarts < MaxRestarts
  /\ restarts' = restarts + 1
  /\ round' = ckpt.round /\ drop' = ckpt.drop /\ merged' = ckpt.merged
  /\ chain' = Restored(ckpt.blocks) /\ paid_cids' = ckpt.paid_cids /\ mints' = ckpt.mints
  /\ seen' = {} /\ batch' = {}
  /\ UNCHANGED <<store, signed, ckpt, queue>>

\* The process dies at any point and the next one starts from the checkpoint:
\* the chain is replayed, the poller remembers nothing.
Restart ==
  /\ restarts < MaxRestarts
  /\ restarts' = restarts + 1
  /\ round' = ckpt.round /\ drop' = ckpt.drop /\ merged' = ckpt.merged
  /\ chain' = Restored(ckpt.blocks) /\ paid_cids' = ckpt.paid_cids /\ mints' = ckpt.mints
  /\ seen' = {} /\ queue' = <<>> /\ batch' = {}
  /\ UNCHANGED <<store, signed, ckpt>>

Next ==
  \/ \E rec \in Records, to \in SUBSET Stores : Publish(rec, to)
  \/ \E up \in SUBSET Stores, fetched \in SUBSET Cids : Poll(up, fetched)
  \/ Tick \/ Gather
  \/ \E c \in batch, gain \in Gains, selected \in Cohorts, ok, lie \in BOOLEAN :
       \E inTime \in SUBSET selected :
         \E late \in {{}} \union {{a} : a \in {s \in signed : s.by \in selected \ inTime}} :
           Vote(c, gain, selected, inTime, ok, lie, late)
  \/ \E answer \in SUBSET Validators : MergeAndPay(answer)
  \/ Checkpoint \/ Restart

Spec == Init /\ [][Next]_vars

-----------------------------------------------------------------------------
(***************************************************************************)
(* What the theorems of PoolProofs assume of the constants, each where it  *)
(* is needed.                                                              *)
(***************************************************************************)
\* In no cohort that is large enough are the liars a majority.
FewLiars ==
  \A S \in Cohorts : Cardinality(S) >= MinCohort =>
    Cardinality(S \intersect Liars) < Cardinality(S) \div 2 + 1

\* A delta is signed for by its author only.
OwnSigned == \A rec \in Records : SigOk(rec) => rec.signer = Author[rec.cid]

\* The shares of any candidates with distinct cids are whole numbers of units.
SharesWhole ==
  \A S \in SUBSET [rec : Records, gain : Gains, vote : {"stays"}] :
    (\A c, d \in S : c.rec.cid = d.rec.cid => c = d) =>
      \A t \in Gains, c \in Positive(S) :
        t >= 0 => (t * c.gain) % GainSum(Positive(S)) = 0

-----------------------------------------------------------------------------
\* PROPERTIES

\* No delta is paid twice on one chain, whatever a restart makes the poller
\* queue again (ChainSettlement.already_paid, mark_paid, to_state).
PaidOnce == \A i, j \in DOMAIN mints : mints[i] = mints[j] => i = j

\* Who is paid for a delta is its author, though others may publish records of
\* the same cid (_poll_one_store's recovered address).
AuthorPaid == \A i \in DOMAIN mints : chain.blocks[i].to = Author[mints[i]]

\* The loss the trunk has come down by is what its merges were credited with,
\* batch by batch and over restarts (apply_deltas_weighted_gated).
GainsConserved == drop = GainSum(merged)

\* With a strict committee nothing is merged that no honest verifier accepted
\* on that trunk in that round: late answers to other requests do not count,
\* and too few answers are not a consent (gated_accept).
HonestVouched ==
  (CommitteeMode = "enforce" /\ Strict) =>
    \A m \in merged : \E s \in signed :
      /\ s.accepted /\ s.beacon.cid = m.cid /\ s.beacon.round + 1 = m.round

\* No candidate waits for company longer than GraceMaxS (gather_batch).
WaitBounded == \A i \in DOMAIN queue : queue[i].age <= GraceMaxS

\* The live chain replays, from the blocks alone, to the balances it has, also
\* after a restart (ChainSettlement.verify, from_state).
ChainVerifies == Verify(chain)

\* Who is paid, how much of the drop, and what a verifier of the chain sees of it agree.
PaidRight == PaidOnce /\ AuthorPaid /\ GainsConserved /\ ChainVerifies

\* An unsigned record is queued for a cid only if some store of the registry
\* has no signed one: a squatter does not keep the author from being paid
\* (_dedup_prefer_signed).
SignedFor(cid, s) == \E rec \in Records : rec.cid = cid /\ SigOk(rec) /\ store[s][rec.name] = {rec}
SquatterYields ==
  [][\A i \in DOMAIN queue' :
       (Len(queue') > Len(queue) /\ i > Len(queue) /\ ~SigOk(queue'[i].rec)) =>
         \E s \in IF RegistryPosture = "enforce" THEN RegistryStores ELSE {Primary} :
           ~SignedFor(queue'[i].rec.cid, s)]_vars
=============================================================================
