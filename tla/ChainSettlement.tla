-------------------------- MODULE ChainSettlement --------------------------
(***************************************************************************)
(* The settlement chain of neurahash/chain_settlement.py and the validator *)
(* quorum that authorises each of its mints (neurahash/diloco_settlement.  *)
(* py), as operators on the value of one chain.  The modules that keep     *)
(* chains in their state (RoundAuthority, PoolCoordinator) extend it.      *)
(*                                                                         *)
(* A hash is an injective constructor: Hash(h) stands for the header it is *)
(* of and, through prev, for every header before it.  A signature is the   *)
(* pair of its signer and what it signs.  A block has one recipient, or    *)
(* none when no contributor has a positive weight; amounts are whole.      *)
(***************************************************************************)
EXTENDS Naturals, FiniteSets, Sequences, SequencesExt

CONSTANTS
  Validators,     \* the pinned roster of staked validators
  StakeOf,        \* their bonded stake; NoStakes for a roster of bare addresses
  QuorumM,        \* the threshold m of a count-weighted quorum
  Miners,         \* the recipients of rewards
  MaxSupply,      \* MAX_SUPPLY of this chain
  CoordKey,       \* the coordinator role key
  NoMiner, NoQuorum, NoStakes

ASSUME SettlementConstants ==
  /\ QuorumM \in Nat /\ MaxSupply \in Nat
  /\ NoMiner \notin Miners
  /\ IsFiniteSet(Validators)

Hash(hdr) == <<hdr>>
GENESIS_PREV_HASH == <<>>
QuorumHash(quorum) == [of |-> quorum]

(***************************************************************************)
(* Quorums.                                                                *)
(***************************************************************************)
SettlementPayload(recipient, amount, height, cid) ==
  [recipient |-> recipient, amount |-> amount, height |-> height, cid |-> cid]

SignSettlement(v, payload) == [by |-> v, over |-> payload]

Weight(members) == FoldSet(LAMBDA v, w : StakeOf[v] + w, 0, members)

\* GuardianSet.distinct_signers: members whose signature is over this payload.
Signers(sigs, payload) == {v \in Validators : SignSettlement(v, payload) \in sigs}

StrictMajority(m) == m \in 1 .. Cardinality(Validators) /\ m * 2 > Cardinality(Validators)

\* A threshold that is no strict majority raises: nothing is approved.
CollectSettlementSignatures(sigs, payload) ==
  /\ StrictMajority(QuorumM)
  /\ IF StakeOf = NoStakes
       THEN Cardinality(Signers(sigs, payload)) >= QuorumM
       ELSE /\ Weight(Validators) > 0
            /\ 2 * Weight(Signers(sigs, payload)) > Weight(Validators)

SettlementBlockProof(sigs, payload) == [payload |-> payload, sigs |-> sigs]

(***************************************************************************)
(* Blocks.                                                                 *)
(***************************************************************************)
EmptyChain ==
  [blocks |-> <<>>, head |-> GENESIS_PREV_HASH,
   bal |-> [a \in Miners |-> 0], minted |-> 0]

\* Mutant: the cap is left to the caller.
ApplyBlockUncapped(chain, hdr, to) ==
  LET grant == IF to = NoMiner THEN 0 ELSE hdr.reward
  IN  [chain EXCEPT !.minted = @ + grant,
                    !.bal = [a \in Miners |-> @[a] + IF a = to THEN grant ELSE 0]]

\* State.apply_block of a block without transactions: the reward, cut to the
\* supply that is left, goes to the recipient.
ApplyBlock(chain, hdr, to) ==
  LET left  == MaxSupply - chain.minted
      grant == IF to = NoMiner THEN 0
               ELSE IF hdr.reward <= left THEN hdr.reward ELSE left
  IN  [chain EXCEPT !.minted = @ + grant,
                    !.bal = [a \in Miners |-> @[a] + IF a = to THEN grant ELSE 0]]

\* The block record settle makes on a chain: the quorum is bound into the
\* header before the coordinator signs its hash.
SettledBlock(chain, height, reward, to, quorum) ==
  LET hdr == [height |-> height, prev |-> chain.head, reward |-> reward,
              bound |-> IF quorum = NoQuorum THEN NoQuorum ELSE QuorumHash(quorum)]
  IN  [hdr |-> hdr, to |-> to, quorum |-> quorum,
       sig |-> [by |-> CoordKey, over |-> Hash(hdr)]]

Extended(chain, rec) ==
  [ApplyBlock(chain, rec.hdr, rec.to) EXCEPT
     !.blocks = Append(@, rec), !.head = Hash(rec.hdr)]

Settle(chain, height, reward, to, quorum) ==
  Extended(chain, SettledBlock(chain, height, reward, to, quorum))

(***************************************************************************)
(* Replay.                                                                 *)
(***************************************************************************)
\* The quorum must be there, be the one the header binds, and authorise this
\* block's own recipient, amount and height.
VerifyBlockQuorum(rec) ==
  /\ rec.quorum # NoQuorum
  /\ rec.hdr.bound # NoQuorum => rec.hdr.bound = QuorumHash(rec.quorum)
  /\ CollectSettlementSignatures(rec.quorum.sigs,
       SettlementPayload(rec.to, rec.hdr.reward, rec.hdr.height, rec.quorum.payload.cid))

PrevOf(blocks, i) == IF i = 1 THEN GENESIS_PREV_HASH ELSE Hash(blocks[i - 1].hdr)

BlockReplays(blocks, i, requireQuorum) ==
  /\ blocks[i].hdr.prev = PrevOf(blocks, i)
  /\ blocks[i].sig = [by |-> CoordKey, over |-> Hash(blocks[i].hdr)]
  /\ requireQuorum => VerifyBlockQuorum(blocks[i])

\* The state a replay from genesis reaches (_replay_blocks).
Replayed(blocks) ==
  LET upTo[i \in 0 .. Len(blocks)] ==
        IF i = 0 THEN EmptyChain ELSE Extended(upTo[i - 1], blocks[i])
  IN  upTo[Len(blocks)]

VerifyPublicChain(blocks, requireQuorum) ==
  \A i \in DOMAIN blocks : BlockReplays(blocks, i, requireQuorum)

\* ChainSettlement.verify: the chain replays to the balances that are live.
Verify(chain) ==
  /\ VerifyPublicChain(chain.blocks, FALSE)
  /\ Replayed(chain.blocks).bal = chain.bal
  /\ Replayed(chain.blocks).minted = chain.minted

\* Mutant: the restored chain goes on from genesis.
RestoredHeadless(blocks) == [Replayed(blocks) EXCEPT !.head = GENESIS_PREV_HASH]

\* ChainSettlement.from_state.
Restored(blocks) ==
  [Replayed(blocks) EXCEPT !.head = PrevOf(blocks, Len(blocks) + 1)]
=============================================================================
