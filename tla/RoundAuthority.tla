--------------------------- MODULE RoundAuthority ---------------------------
(***************************************************************************)
(* neurahash/diloco_round_authority.py over the commit-reveal beacon of    *)
(* neurahash/diloco_clock.py: candidate coordinators agree an order for a  *)
(* round, the first of them that is up settles the round's block on its    *)
(* replica, and every other candidate verifies it and appends it, one      *)
(* after the other.                                                        *)
(*                                                                         *)
(* The seed is a hash of the revealed nonces and the order sorts hashes of *)
(* it, so any permutation of the valid signers may come out, the same one  *)
(* on every node that reads the same bus.  Nonces are fresh numbers, a     *)
(* digest is the commit it hides.  The caller, which the repository leaves *)
(* open, names the rounds, retries one that held or goes on to the next,   *)
(* and stops once a peer has rejected an elected proposer's block.         *)
(***************************************************************************)
EXTENDS ChainSettlement

CONSTANTS
  Candidates,     \* candidate coordinators, in the order they are driven
  Strangers,      \* identities on the bus that are no candidates
  Mistaken,       \* candidates that act on their own view of who is down
  TimeoutM,       \* timeout_m: signatures a view change needs
  Reward,         \* the reward of a round
  AgreedFailover, \* the values of agreed_failover the caller may pass
  MaxRound, MaxProposals   \* bounds: rounds, blocks proposed

Members == Range(Candidates)
Ids == Members \union Strangers
Rounds == 1 .. MaxRound

ASSUME AuthorityConstants ==
  /\ Candidates \in Seq(Members) /\ Len(Candidates) >= 2
  /\ \A i, j \in DOMAIN Candidates : Candidates[i] = Candidates[j] => i = j
  /\ Mistaken \subseteq Members /\ Strangers \cap Members = {} /\ IsFiniteSet(Strangers)
  /\ TimeoutM \in Nat /\ Reward \in Nat /\ MaxRound \in Nat \ {0} /\ MaxProposals \in Nat
  /\ AgreedFailover \subseteq BOOLEAN /\ StrictMajority(QuorumM)
  /\ Miners = 1 .. MaxProposals

VARIABLES
  round,      \* the round the caller is at
  commits, reveals,   \* the bus: the envelopes published for this round
  order,      \* the order every node agreed for it (last_agreement)
  pending,    \* _pending: is this round between begin_round and finish_round?
  chain,      \* candidate -> its replica of the settlement chain
  timeouts,   \* the timeout attestations signed so far
  sent,       \* the envelope that is being handed to the peers, or NoEnvelope
  minerSeq,   \* _miner_seq
  stopped,    \* a peer rejected an elected proposer's block
  downIn,     \* history: round -> the identities that did not produce in it
  accepted    \* history: round -> the identities passed over by a block a peer accepted

clock == <<round, commits, reveals, order, pending>>
history == <<downIn, accepted>>
vars == <<clock, chain, timeouts, sent, minerSeq, stopped, history>>

NoEnvelope == [round |-> 0]

Init ==
  /\ round = 1
  /\ commits = {} /\ reveals = {} /\ order = <<>> /\ pending = FALSE
  /\ chain = [c \in Members |-> EmptyChain]
  /\ timeouts = {}
  /\ sent = NoEnvelope
  /\ minerSeq = 0
  /\ stopped = FALSE
  /\ downIn = [r \in Rounds |-> {}]
  /\ accepted = [r \in Rounds |-> {}]

(***************************************************************************)
(* Commit, reveal, agree.                                                  *)
(***************************************************************************)
Commit(r, s, nonce) == [round |-> r, signer |-> s, digest |-> [r |-> r, s |-> s, n |-> nonce]]
Reveal(r, s, nonce) == [round |-> r, signer |-> s, nonce |-> nonce]

VerifyReveal(com, rev) ==
  /\ com.round = rev.round /\ com.signer = rev.signer
  /\ com.digest = Commit(rev.round, rev.signer, rev.nonce).digest

Equivocates(s, coms) ==
  \E a, b \in coms : a.signer = s /\ b.signer = s /\ a.digest # b.digest

\* agree_round: whose commit stands and is opened by a reveal.
ValidSigners(coms, revs) ==
  {s \in Ids : /\ ~Equivocates(s, coms)
               /\ \E com \in coms, rev \in revs : com.signer = s /\ VerifyReveal(com, rev)}

Orders(signers) ==
  {o \in [1 .. Cardinality(signers) -> signers] : \A s \in signers : \E i \in DOMAIN o : o[i] = s}

\* What else may be on the bus: nothing, a second commit of a candidate, or
\* a commit and a reveal of a stranger.
Injected(r) ==
  {[coms |-> {}, revs |-> {}]}
  \union {[coms |-> {Commit(r, s, 0)}, revs |-> {}] : s \in Members}
  \union {[coms |-> {Commit(r, s, 0)}, revs |-> {Reveal(r, s, 0)}] : s \in Strangers}

\* A nonce nobody committed in this round yet.
Fresh(coms) == Cardinality({com.digest.n : com \in coms} \ {0}) + 1

HasBlock(c, r) == \E i \in DOMAIN chain[c].blocks : chain[c].blocks[i].hdr.height = r

\* begin_round, of the next round or of one that held.  The bus of an earlier round is never read again.
BeginRound(r) ==
  LET coms == IF r = round THEN commits ELSE {}
      revs == IF r = round THEN reveals ELSE {}
  IN
  /\ ~stopped /\ sent = NoEnvelope
  /\ ~pending
  /\ \/ r = round /\ \A c \in Members : ~HasBlock(c, r)
     \/ r = round + 1 /\ r \in Rounds
  /\ Fresh(coms) <= 2
  /\ round' = r
  /\ \E extra \in Injected(r) :
       /\ commits' = coms \union extra.coms \union {Commit(r, s, Fresh(coms)) : s \in Members}
       /\ reveals' = revs \union extra.revs \union {Reveal(r, s, Fresh(coms)) : s \in Members}
  /\ order' \in Orders(ValidSigners(commits', reveals'))
  /\ pending' = TRUE
  /\ UNCHANGED <<chain, timeouts, sent, minerSeq, stopped, history>>

(***************************************************************************)
(* View changes.                                                           *)
(***************************************************************************)
Timeout(s, r, failed, view) == [by |-> s, round |-> r, failed |-> failed, view |-> view]

\* verify_timeout_quorum: distinct members of the agreed order, a strict majority of it.
VerifyTimeoutQuorum(atts, ord, r, view) ==
  LET N == Len(ord) IN
  /\ TimeoutM \in 1 .. N /\ TimeoutM * 2 > N
  /\ Cardinality({s \in Range(ord) : Timeout(s, r, ord[view + 1], view) \in atts}) >= TimeoutM

UpAt(ord, down) == {i \in DOMAIN ord : ord[i] \notin down}
FirstUp(ord, down) == CHOOSE i \in UpAt(ord, down) : \A j \in UpAt(ord, down) : i <= j

\* The attestations the drive collects while the proposers of the first
\* views are down: every candidate of the order that is up signs.
Observed(r, ord, down, views) ==
  {Timeout(s, r, ord[v + 1], v) :
     s \in (Members \cap Range(ord)) \ down, v \in 0 .. (views - 1)}

\* The same candidates observe every view, so the drive holds at the first
\* view that is down or at none.
FirstViewHolds(r, ord, down) == ~VerifyTimeoutQuorum(Observed(r, ord, down, 1), ord, r, 0)

ViewChangeHolds(r, ord, down) ==
  \/ UpAt(ord, down) = {}
  \/ ord[1] \in down /\ FirstViewHolds(r, ord, down)

SignedWhileDown(r, ord, down) ==
  IF ord = <<>> \/ ord[1] \notin down THEN {}
  ELSE Observed(r, ord, down,
         IF ViewChangeHolds(r, ord, down) THEN 1 ELSE FirstUp(ord, down) - 1)

Envelope(r, view, by, agreed, atts, rec, down) ==
  [round |-> r, view |-> view, by |-> by, agreed |-> agreed, quorums |-> atts,
   block |-> rec, claim |-> [by |-> by, round |-> r, over |-> Hash(rec.hdr)], down |-> down]

\* The other candidates, in the order they are driven.
Others(c) ==
  LET k == CHOOSE i \in DOMAIN Candidates : Candidates[i] = c
  IN  [i \in 1 .. Len(Candidates) - 1 |-> Candidates[IF i < k THEN i ELSE i + 1]]

Broadcast(env, driven) ==
  [env |-> env, driven |-> driven, round |-> env.round, to |-> Others(env.by)]

FirstValidators == CHOOSE S \in SUBSET Validators : Cardinality(S) = QuorumM

\* Mutant: the validators sign for the height before.
BuildQuorumOfLast(recipient, height) ==
  LET payload == SettlementPayload(recipient, Reward, height - 1, height)
  IN  SettlementBlockProof({SignSettlement(v, payload) : v \in FirstValidators}, payload)

\* _build_quorum: the first m validators sign this very mint.
BuildQuorum(recipient, height) ==
  LET payload == SettlementPayload(recipient, Reward, height, height)
  IN  SettlementBlockProof({SignSettlement(v, payload) : v \in FirstValidators}, payload)

\* No quorum is the absence of one.
ASSUME QuorumsAreSome == \A m \in Miners, r \in Rounds : BuildQuorum(m, r) # NoQuorum

\* Candidate.propose: the block is settled on the proposer's own replica.
Proposal(c, r) ==
  SettledBlock(chain[c], r, Reward, minerSeq + 1, BuildQuorum(minerSeq + 1, r))

Propose(c, r) == [chain EXCEPT ![c] = Extended(@, Proposal(c, r))]

\* finish_round up to the broadcast.  Nobody up, no timeout quorum, or an
\* elected stranger raise: the round is no longer pending and nothing else
\* changes, bar the attestations the observers signed.
FinishRound(down, agreed) ==
  LET r == round
      ord == order
      atts == IF agreed THEN SignedWhileDown(r, ord, down) ELSE {}
      held == IF agreed THEN ViewChangeHolds(r, ord, down) ELSE UpAt(ord, down) = {}
      elected == IF held THEN {} ELSE {ord[FirstUp(ord, down)]} \cap Members
  IN
  /\ pending /\ sent = NoEnvelope /\ ~stopped
  /\ pending' = FALSE
  /\ timeouts' = timeouts \union atts
  /\ downIn' = [downIn EXCEPT ![r] = @ \union down]
  /\ \/ \E c \in elected :
          /\ minerSeq < MaxProposals /\ minerSeq' = minerSeq + 1
          /\ chain' = Propose(c, r)
          /\ sent' = Broadcast(Envelope(r, FirstUp(ord, down) - 1, c, agreed, atts,
                                         Proposal(c, r), down), TRUE)
     \/ elected = {} /\ UNCHANGED <<chain, minerSeq, sent>>
  /\ UNCHANGED <<round, commits, reveals, order, stopped, accepted>>

(***************************************************************************)
(* Acceptance.                                                             *)
(***************************************************************************)
\* Mutant: the view just before need not be proved.
PriorViewsShort(env) == 0 .. (env.view - 2)

\* A takeover at a view must prove that every view before it timed out.
PriorViews(env) == 0 .. (env.view - 1)

\* The proposer is the one this envelope's rule elects.
Elected(env, ord) ==
  IF env.agreed
    THEN /\ env.view < Len(ord) /\ env.claim.by = ord[env.view + 1]
         /\ \A v \in PriorViews(env) : VerifyTimeoutQuorum(env.quorums, ord, env.round, v)
    ELSE UpAt(ord, env.down) # {} /\ env.claim.by = ord[FirstUp(ord, env.down)]

\* Mutant: the head is not compared.
ExtendsHeadUnchecked(c, env) == TRUE

\* No gap, no fork.
ExtendsHead(c, env) == env.block.hdr.prev = chain[c].head

Acceptable(c, env) ==
  /\ Elected(env, order)
  /\ env.claim.over = Hash(env.block.hdr)
  /\ env.round = env.block.hdr.height /\ env.round = env.claim.round
  /\ ExtendsHead(c, env)
  /\ env.block.sig = [by |-> CoordKey, over |-> Hash(env.block.hdr)]

PassedOver(env) ==
  LET at == IF env.agreed THEN env.view ELSE FirstUp(order, env.down) - 1
  IN  [accepted EXCEPT ![env.round] = @ \union {order[i] : i \in 1 .. at}]

Accept(c, env) ==
  /\ chain' = [chain EXCEPT ![c] = Extended(@, env.block)]
  /\ accepted' = PassedOver(env)

\* The envelope goes to the peers one after the other.  The drive raises at
\* the first one that rejects; a candidate that proposed by itself does not.
Deliver ==
  /\ sent # NoEnvelope
  /\ LET peer == Head(sent.to)
         rest == IF Len(sent.to) = 1 THEN NoEnvelope ELSE [sent EXCEPT !.to = Tail(@)]
     IN  IF Acceptable(peer, sent.env)
           THEN Accept(peer, sent.env) /\ sent' = rest /\ UNCHANGED stopped
           ELSE /\ stopped' = sent.driven
                /\ sent' = IF sent.driven THEN NoEnvelope ELSE rest
                /\ UNCHANGED <<chain, accepted>>
  /\ UNCHANGED <<clock, timeouts, minerSeq, downIn>>

(***************************************************************************)
(* A mistaken candidate.                                                   *)
(***************************************************************************)
\* It proposes at its own place in the order of a round it has no block of,
\* with every attestation there is and its own for all the views before.
Seize(s, view) ==
  LET atts == timeouts \union {Timeout(s, round, order[v + 1], v) : v \in 0 .. (view - 1)} IN
  /\ s \in Mistaken
  /\ sent = NoEnvelope /\ ~stopped
  /\ view \in 1 .. (Len(order) - 1) /\ order[view + 1] = s
  /\ ~HasBlock(s, round)
  /\ minerSeq < MaxProposals /\ minerSeq' = minerSeq + 1
  /\ chain' = Propose(s, round)
  /\ sent' = Broadcast(Envelope(round, view, s, TRUE, atts, Proposal(s, round), {}), FALSE)
  /\ UNCHANGED <<clock, timeouts, stopped, history>>

Next ==
  \/ \E r \in Rounds : BeginRound(r)
  \/ \E down \in SUBSET Range(order), agreed \in AgreedFailover : FinishRound(down, agreed)
  \/ Deliver
  \/ \E s \in Mistaken, view \in 1 .. Len(Candidates) : Seize(s, view)

Spec == Init /\ [][Next]_vars

(***************************************************************************)
(* Properties.                                                             *)
(***************************************************************************)
Honest == Members \ Mistaken

\* Candidate.accept: a block that passes over a candidate of the agreed
\* order is only ever accepted for a round in which that candidate did not
\* produce, whatever a mistaken candidate signs and sends.
PrimaryKept == \A r \in Rounds : accepted[r] \subseteq downIn[r]

\* The replica of every candidate that keeps to the drive replays, quorums
\* required, from genesis to the balances it holds (verify_public_chain,
\* ChainSettlement.verify).
ExportVerifies ==
  \A c \in Honest : VerifyPublicChain(chain[c].blocks, TRUE) /\ Verify(chain[c])

LinkedTo(l, b) == b.hdr.prev = PrevOf(l, Len(l) + 1)
Longest == CHOOSE c \in Honest : \A d \in Honest : Len(chain[d].blocks) <= Len(chain[c].blocks)

Log == INSTANCE ElectedLog WITH
  Nodes <- Honest, Linked <- LinkedTo,
  log <- chain[Longest].blocks,
  known <- [c \in Honest |-> Len(chain[c].blocks)]

\* The replicas of the candidates that keep to the drive are prefixes of one
\* hash-linked log that gains at most one block a round: finish_round and
\* Candidate.accept implement ElectedLog.
OneLog == Log!Spec
=============================================================================
