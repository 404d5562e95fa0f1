---------------------------- MODULE NativeLedger ----------------------------
(***************************************************************************)
(* The native ledger of neura_l1/block_state.py: State.apply_block, one    *)
(* block after the other on one chain.  A block is a start (unbonding      *)
(* stake matures), some transactions, and an end (upgrade bookkeeping and  *)
(* the reward).  A transaction that does not apply makes the whole block   *)
(* raise and leaves the parent state as it was, so only blocks whose       *)
(* transactions all apply are steps of the chain.                          *)
(*                                                                         *)
(* Amounts are whole units: a pro-rata split of a reward is any split that *)
(* adds up to it, a bounty any fixed fraction of the bond.  Every          *)
(* transaction is a fresh one (it carries the expected nonce and the       *)
(* sender's signature).  consensus.validate_block and finality, which are  *)
(* not in the repository, give a block the one valid version of its height *)
(* (child_version), and say which evidence proves a fault.                 *)
(***************************************************************************)
EXTENDS Naturals, FiniteSets, FiniteSetsExt

CONSTANTS
  Accounts,
  MaxSupply,         \* MAX_SUPPLY
  UnbondingPeriod,   \* UNBONDING_PERIOD
  UpgradeWindow,     \* UPGRADE_WINDOW
  UpgradeDelay,      \* UPGRADE_ACTIVATION_DELAY
  ThresholdNum,      \* UPGRADE_THRESHOLD_NUM
  ThresholdDen,      \* UPGRADE_THRESHOLD_DEN
  BountyDen,         \* one in BountyDen of a seized bond goes to the reporter
  Amounts,           \* the amounts transactions move
  Pots,              \* the header rewards of blocks
  VotePairs,         \* the conflicting pairs of votes a validator can sign
  CanEquivocate,     \* do proposers equivocate?
  CanSignal,         \* do validators signal for an upgrade?
  MaxHeight, MaxTxs  \* bounds: blocks, transactions of a block

ASSUME LedgerConstants ==
  /\ IsFiniteSet(Accounts)
  /\ Amounts \subseteq Nat /\ Pots \subseteq Nat
  /\ MaxSupply \in Nat /\ BountyDen \in Nat \ {0}
  /\ UnbondingPeriod \in Nat \ {0}
  /\ UpgradeWindow \in Nat \ {0} /\ UpgradeDelay \in Nat \ {0}
  /\ MaxHeight \in Nat /\ MaxTxs \in Nat
  /\ CanEquivocate \in BOOLEAN /\ CanSignal \in BOOLEAN

VARIABLES
  height,       \* the height of the block being applied, or of the last one
  inBlock,      \* between the start and the end of a block
  txs,          \* the transactions of this block so far
  bal, staked,  \* liquid and bonded balances
  unbonding,    \* account -> release height -> amount withdrawing
  treasury, minted,
  slashed,      \* slashed_faults
  version,      \* protocol_version
  signals,      \* upgrade_signals
  streak,       \* upgrade_streak
  pending,      \* pending_activation, NoHeight when there is none
  evidence,     \* the faults validators committed, with the bond they had then
  good,         \* history: consecutive blocks that ended in a supermajority
  lapsed,       \* history: signalers whose bond was gone at some time since
  signedFor     \* history: the version an account last signalled for

history == <<good, lapsed, signedFor>>
money == <<bal, staked, unbonding, treasury, minted, slashed>>
upgrade == <<version, signals, streak, pending>>
vars == <<height, inBlock, txs, money, upgrade, evidence, history>>

NoHeight == 0
Releases == 1 .. (MaxHeight + UnbondingPeriod)
GenesisVersion == 1

Init ==
  /\ height = 0 /\ inBlock = FALSE /\ txs = 0
  /\ bal = [a \in Accounts |-> 0]
  /\ staked = [a \in Accounts |-> 0]
  /\ unbonding = [a \in Accounts |-> [r \in Releases |-> 0]]
  /\ treasury = 0 /\ minted = 0
  /\ slashed = {}
  /\ version = GenesisVersion /\ signals = {} /\ streak = 0 /\ pending = NoHeight
  /\ evidence = {}
  /\ good = 0 /\ lapsed = {} /\ signedFor = [a \in Accounts |-> 0]

Total(f) == MapThenSumSet(LAMBDA a : f[a], DOMAIN f)
UnbondingOf(a) == Total(unbonding[a])
AtRisk(a) == staked[a] + UnbondingOf(a)

-----------------------------------------------------------------------------
(* Faults, outside the ledger: a proposer signs two blocks at the next     *)
(* height; a validator signs votes of which every pair conflicts.          *)
Fault(kind, v, of) ==
  [id |-> [kind |-> kind, who |-> v, of |-> of], at |-> height + 1, owed |-> staked[v]]

Equivocate(v) ==
  /\ CanEquivocate /\ ~inBlock /\ staked[v] > 0
  /\ evidence' = evidence \cup {Fault("equivocation", v, {height + 1})}
  /\ UNCHANGED <<height, inBlock, txs, money, upgrade, history>>

DoubleVote(v) ==
  /\ VotePairs # {} /\ ~inBlock /\ staked[v] > 0
  /\ \A e \in evidence : e.id.who = v => e.id.kind # "ffg"
  /\ evidence' = evidence \cup {Fault("ffg", v, p) : p \in VotePairs}
  /\ UNCHANGED <<height, inBlock, txs, money, upgrade, history>>

-----------------------------------------------------------------------------
(* _mature_unbonding, at the start of a block.                             *)
(* Mutant: an entry is released one block early.                           *)
MaturedEarly(h) == {r \in Releases : r <= h + 1}

Matured(h) == {r \in Releases : r <= h}

MaturedSum(a, h) == MapThenSumSet(LAMBDA r : unbonding[a][r], Matured(h))

BeginBlock ==
  /\ ~inBlock /\ height < MaxHeight
  /\ height' = height + 1
  /\ bal' = [a \in Accounts |-> bal[a] + MaturedSum(a, height + 1)]
  /\ unbonding' = [a \in Accounts |-> [r \in Releases |->
                     IF r \in Matured(height + 1) THEN 0 ELSE unbonding[a][r]]]
  /\ inBlock' = TRUE /\ txs' = 0
  /\ UNCHANGED <<staked, treasury, minted, slashed, upgrade, evidence, history>>

InTx ==
  /\ inBlock /\ txs < MaxTxs
  /\ txs' = txs + 1
  /\ UNCHANGED <<height, inBlock, version, streak, pending, good>>

(* Mutant: a transfer that does not look at the balance.                   *)
TransferUnchecked(a, b, n) ==
  /\ InTx
  /\ bal' = [[bal EXCEPT ![a] = @ - n] EXCEPT ![b] = @ + n]
  /\ UNCHANGED <<staked, unbonding, treasury, minted, slashed, signals, evidence, lapsed, signedFor>>

Transfer(a, b, n) ==
  /\ InTx /\ bal[a] >= n
  /\ bal' = [[bal EXCEPT ![a] = @ - n] EXCEPT ![b] = @ + n]
  /\ UNCHANGED <<staked, unbonding, treasury, minted, slashed, signals, evidence, lapsed, signedFor>>

Stake(a, n) ==
  /\ InTx /\ bal[a] >= n
  /\ bal' = [bal EXCEPT ![a] = @ - n]
  /\ staked' = [staked EXCEPT ![a] = @ + n]
  /\ UNCHANGED <<unbonding, treasury, minted, slashed, signals, evidence, lapsed, signedFor>>

(* The signalers left without a bond by a change of the staked balances.   *)
Lapse == lapsed' = lapsed \cup {a \in signals : staked'[a] = 0}

(* Mutant: the withdrawal is released one block before the period ended.   *)
ReleaseShort == height + UnbondingPeriod - 1

Release == height + UnbondingPeriod

Unstake(a, n) ==
  /\ InTx /\ staked[a] >= n
  /\ staked' = [staked EXCEPT ![a] = @ - n]
  /\ unbonding' = [unbonding EXCEPT ![a][Release] = @ + n]
  /\ Lapse
  /\ UNCHANGED <<bal, treasury, minted, slashed, signals, evidence, signedFor>>

UpgradeSignal(a) ==
  /\ CanSignal
  /\ InTx /\ staked[a] > 0
  /\ signals' = signals \cup {a}
  /\ lapsed' = lapsed \ {a}
  /\ signedFor' = [signedFor EXCEPT ![a] = version + 1]
  /\ UNCHANGED <<bal, staked, unbonding, treasury, minted, slashed, evidence>>

(* _seize of everything, and where it goes: the bounty of an authenticated *)
(* reporter, the rest to the treasury.  A fault is slashed at most once;   *)
(* a second proof of it applies and changes nothing.                       *)
(* Mutant: funds that are withdrawing are out of its reach.                *)
SeizedActive(v) == staked[v]

Seized(v) == AtRisk(v)

Bounty(bond, authenticated) == IF authenticated THEN bond \div BountyDen ELSE 0

Slash(e, reporter, authenticated) ==
  /\ InTx /\ e.id \notin slashed
  /\ LET v == e.id.who
         bounty == Bounty(Seized(v), authenticated)
     IN  /\ bal' = [bal EXCEPT ![reporter] = @ + bounty]
         /\ treasury' = treasury + (Seized(v) - bounty)
         /\ staked' = [staked EXCEPT ![v] = 0]
         /\ unbonding' = [unbonding EXCEPT ![v] = [r \in Releases |-> 0]]
         /\ evidence' = {IF x.id.who = v THEN [x EXCEPT !.owed = 0] ELSE x : x \in evidence}
  /\ slashed' = slashed \cup {e.id}
  /\ Lapse
  /\ UNCHANGED <<minted, signals, signedFor>>

-----------------------------------------------------------------------------
(* The end of a block.                                                     *)
ChildVersion == IF pending # NoHeight /\ height >= pending THEN version + 1 ELSE version

SignaledStake == MapThenSumSet(LAMBDA a : staked[a], signals)

Supermajority ==
  /\ Total(staked) > 0
  /\ SignaledStake * ThresholdDen >= Total(staked) * ThresholdNum

(* Mutant: a block without the supermajority does not end the streak.      *)
StreakKept == IF Supermajority THEN streak + 1 ELSE streak

Streak == IF Supermajority THEN streak + 1 ELSE 0

(* Mutant: the signals of the campaign that won stay for the next one.      *)
ActivateKeepsSignals ==
  /\ ChildVersion > version
  /\ version' = ChildVersion
  /\ streak' = 0 /\ pending' = NoHeight
  /\ good' = 0
  /\ UNCHANGED <<signals, lapsed>>

Activate ==
  /\ ChildVersion > version
  /\ version' = ChildVersion
  /\ signals' = {} /\ lapsed' = {}
  /\ streak' = 0 /\ pending' = NoHeight
  /\ good' = 0

Tally ==
  /\ ChildVersion = version
  /\ good' = IF Supermajority THEN good + 1 ELSE 0
  /\ IF pending = NoHeight /\ signals # {}
     THEN /\ streak' = Streak
          /\ pending' = IF Streak >= UpgradeWindow THEN height + UpgradeDelay ELSE NoHeight
     ELSE UNCHANGED <<streak, pending>>
  /\ UNCHANGED <<version, signals, lapsed>>

Least(m, n) == IF m <= n THEN m ELSE n

(* Mutant: the header's reward is minted as it stands.                     *)
RewardUnclamped(pot) == pot

Reward(pot) == Least(pot, MaxSupply - minted)

Splits(n, S) == {f \in [S -> 0..n] : Total(f) = n}

Pay(pot, S) ==
  IF S # {} /\ Reward(pot) > 0
  THEN \E share \in Splits(Reward(pot), S) :
         /\ bal' = [a \in Accounts |-> bal[a] + (IF a \in S THEN share[a] ELSE 0)]
         /\ minted' = minted + Reward(pot)
  ELSE UNCHANGED <<bal, minted>>

EndBlock(pot, S) ==
  /\ inBlock
  /\ Activate \/ Tally
  /\ Pay(pot, S)
  /\ inBlock' = FALSE
  /\ UNCHANGED <<height, txs, staked, unbonding, treasury, slashed, evidence,
                 signedFor>>

Next ==
  \/ \E v \in Accounts : Equivocate(v) \/ DoubleVote(v)
  \/ BeginBlock
  \/ \E a \in Accounts, n \in Amounts :
       \/ Stake(a, n) \/ Unstake(a, n)
       \/ \E b \in Accounts : Transfer(a, b, n)
  \/ \E a \in Accounts : UpgradeSignal(a)
  \/ \E e \in evidence, reporter \in Accounts, authenticated \in BOOLEAN :
       Slash(e, reporter, authenticated)
  \/ \E pot \in Pots, S \in SUBSET Accounts : EndBlock(pot, S)

Spec == Init /\ [][Next]_vars

-----------------------------------------------------------------------------
(* PROPERTIES *)

Amount == [Accounts -> Nat]

(* Every variable keeps its type; no balance is ever negative.             *)
TypeOK ==
  /\ height \in Nat /\ inBlock \in BOOLEAN /\ txs \in Nat
  /\ bal \in Amount /\ staked \in Amount
  /\ unbonding \in [Accounts -> [Releases -> Nat]]
  /\ treasury \in Nat /\ minted \in Nat
  /\ version \in Nat /\ streak \in Nat /\ pending \in Nat /\ good \in Nat
  /\ signals \subseteq Accounts /\ lapsed \subseteq signals
  /\ signedFor \in Amount
  /\ slashed \subseteq {e.id : e \in evidence}

(* Whatever is moved, bonded, withdrawn, seized or paid as a bounty, every *)
(* unit that exists was minted, and never more than the cap               *)
(* (apply_tx, _seize, _mature_unbonding, credit_reward).                   *)
Conserved ==
  /\ Total(bal) + Total(staked) + treasury
       + Total([a \in Accounts |-> UnbondingOf(a)]) = minted
  /\ minted <= MaxSupply

(* "a proposer cannot unstake out from under a fraud proof": the bond a    *)
(* validator had when it committed a fault is still there to be seized     *)
(* through the last block of the unbonding period, whatever it unstaked,   *)
(* in the block of the fault or later, unless it was seized before.        *)
BondStaysAtRisk ==
  \A e \in evidence : height < e.at + UnbondingPeriod => AtRisk(e.id.who) >= e.owed

(* "a momentary spike can't trigger a fork": an upgrade locks in only at   *)
(* the end of UpgradeWindow consecutive blocks that each ended with a      *)
(* supermajority of the live bonds signalling for it.                      *)
LockInHeld ==
  [][pending = NoHeight /\ pending' # NoHeight => good' >= UpgradeWindow]_vars

(* "Sequential upgrades only": a signal counts for one campaign.  Every     *)
(* signal that is tallied was given for the version after this one, also   *)
(* when it was given in the very block that activates an upgrade.          *)
OneCampaign == \A a \in signals : signedFor[a] = version + 1

(* apply_tx's comment: "unbonding silently withdraws the signal"; the      *)
(* weight of a signal "cannot outlive the bond behind it".  A signaler     *)
(* whose bond went to nothing does not count before it signals again.      *)
SignalWithdrawn == \A a \in lapsed : staked[a] = 0

(* _apply_vote_fault_slash's comment: another conflicting pair of the same *)
(* votes "is a distinct fault but seizes a now-empty bond".                *)
SecondPairIsEmpty ==
  [][\A e \in evidence :
       /\ e.id.kind = "ffg" /\ e.id \notin slashed /\ e.id \in slashed'
       /\ \E x \in evidence : x.id.kind = "ffg" /\ x.id.who = e.id.who /\ x.id \in slashed
       => treasury' = treasury]_vars
=============================================================================
