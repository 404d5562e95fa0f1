------------------------- MODULE NativeLedgerProofs -------------------------
(***************************************************************************)
(* Proofs about NativeLedger for every finite set of accounts, every       *)
(* amount and every window, delay and threshold: an upgrade locks in only  *)
(* after a full window of consecutive supermajority blocks, a signal       *)
(* counts for one campaign only, no unit is made or lost, and a bond stays *)
(* within the reach of a slash for the unbonding period.                   *)
(*                                                                         *)
(* The campaign.  The code has one counter, upgrade_streak, that it        *)
(* updates only while there are signals and nothing is pending; the        *)
(* history variable `good` counts every block.  The invariant says the     *)
(* counter never runs ahead of the history, for which one must know that   *)
(* the counter is 0 whenever the branch that would reset it is skipped     *)
(* because nobody signals.  What Supermajority computes is not expanded.   *)
(*                                                                         *)
(* The books.  The sums are folds; the lemmas about them (one summand      *)
(* changes, term by term, without the zeros) are each proved by a least    *)
(* set of summands for which they fail.                                    *)
(*                                                                         *)
(* The bond.  AtRisk itself is not inductive: what was already withdrawing *)
(* at the fault is released before the period ends.  What is: the stake,   *)
(* and what is released no sooner than a period after the fault.           *)
(***************************************************************************)
EXTENDS NativeLedger, TLAPS, FiniteSetTheorems, WellFoundedInduction

UpgradeType ==
  /\ height \in Nat /\ version \in Nat
  /\ streak \in Nat /\ good \in Nat
  /\ signals \subseteq Accounts
  /\ signedFor \in [Accounts -> Nat]

StreakIsBacked ==
  /\ pending = NoHeight => streak <= good
  /\ signals = {} => streak = 0

UpgradeInv == UpgradeType /\ StreakIsBacked /\ OneCampaign

LEMMA InitUpgrade == Init => UpgradeInv
  BY DEF Init, UpgradeInv, UpgradeType, StreakIsBacked, OneCampaign, NoHeight, GenesisVersion

(* The steps that leave the campaign alone.                                *)
LEMMA CampaignUntouched ==
  ASSUME UpgradeInv, UNCHANGED <<upgrade, good, signedFor>>, height' \in Nat
  PROVE  UpgradeInv' /\ ~(pending = NoHeight /\ pending' # NoHeight)
  BY DEF UpgradeInv, UpgradeType, StreakIsBacked, OneCampaign, upgrade

(* An upgrade_signal transaction.                                          *)
LEMMA SignalKeeps ==
  ASSUME UpgradeInv, NEW a \in Accounts, UpgradeSignal(a)
  PROVE  UpgradeInv' /\ ~(pending = NoHeight /\ pending' # NoHeight)
  <1>1. /\ signals' = signals \cup {a}
        /\ signedFor' = [signedFor EXCEPT ![a] = version + 1]
        /\ UNCHANGED <<height, version, streak, pending, good>>
    BY DEF UpgradeSignal, InTx
  <1>2. UpgradeType'
    BY <1>1 DEF UpgradeInv, UpgradeType
  <1>3. StreakIsBacked'
    BY <1>1 DEF UpgradeInv, StreakIsBacked
  <1>4. OneCampaign'
    <2> SUFFICES ASSUME NEW b \in signals' PROVE signedFor'[b] = version' + 1
      BY DEF OneCampaign
    <2>1. b \in Accounts
      BY <1>1 DEF UpgradeInv, UpgradeType
    <2>2. CASE b = a
      BY <1>1, <2>2 DEF UpgradeInv, UpgradeType
    <2>3. CASE b # a
      <3>1. b \in signals /\ signedFor'[b] = signedFor[b]
        BY <1>1, <2>1, <2>3 DEF UpgradeInv, UpgradeType
      <3> QED
        BY <1>1, <3>1 DEF UpgradeInv, OneCampaign
    <2> QED
      BY <2>2, <2>3
  <1> QED
    BY <1>1, <1>2, <1>3, <1>4 DEF UpgradeInv

(* The end of a block: an activation starts the next campaign from         *)
(* nothing, a tally moves the counter and the history together.            *)
LEMMA ActivateKeeps ==
  ASSUME UpgradeInv, Activate, UNCHANGED <<height, signedFor>>
  PROVE  UpgradeInv' /\ ~(pending = NoHeight /\ pending' # NoHeight)
  <1>1. version' \in Nat
    BY DEF UpgradeInv, UpgradeType, Activate, ChildVersion
  <1> QED
    BY <1>1 DEF UpgradeInv, UpgradeType, StreakIsBacked, OneCampaign, Activate

LEMMA TallyKeeps ==
  ASSUME UpgradeInv, Tally, UNCHANGED <<height, signedFor>>
  PROVE  UpgradeInv' /\ (pending = NoHeight /\ pending' # NoHeight => good' >= UpgradeWindow)
  <1> USE LedgerConstants
  <1>1. UNCHANGED <<version, signals>> /\ good' = IF Supermajority THEN good + 1 ELSE 0
    BY DEF Tally
  <1>2. good' \in Nat
    BY <1>1 DEF UpgradeInv, UpgradeType
  <1>3. CASE pending = NoHeight /\ signals # {}
    <2>1. /\ streak' = Streak
          /\ pending' = IF Streak >= UpgradeWindow THEN height + UpgradeDelay ELSE NoHeight
      BY <1>3 DEF Tally
    <2>2. Streak \in Nat /\ Streak <= good'
      BY <1>1, <1>3 DEF Streak, UpgradeInv, UpgradeType, StreakIsBacked
    <2>3. UpgradeType' /\ OneCampaign'
      BY <1>1, <1>2, <2>1, <2>2 DEF UpgradeInv, UpgradeType, OneCampaign
    <2>4. StreakIsBacked'
      BY <1>1, <1>3, <2>1, <2>2 DEF StreakIsBacked
    <2>5. pending' # NoHeight => Streak >= UpgradeWindow
      BY <2>1
    <2>6. pending' # NoHeight => good' >= UpgradeWindow
      BY <1>2, <2>2, <2>5
    <2> QED
      BY <2>3, <2>4, <2>6 DEF UpgradeInv
  <1>4. CASE ~(pending = NoHeight /\ signals # {})
    <2>1. UNCHANGED <<streak, pending>>
      BY <1>4 DEF Tally
    <2>2. UpgradeType' /\ OneCampaign'
      BY <1>1, <1>2, <2>1 DEF UpgradeInv, UpgradeType, OneCampaign
    <2>3. StreakIsBacked'
      BY <1>1, <1>2, <1>4, <2>1 DEF UpgradeInv, StreakIsBacked
    <2> QED
      BY <2>1, <2>2, <2>3 DEF UpgradeInv
  <1> QED
    BY <1>3, <1>4

(* Every step: one case for each action of the ledger.                     *)
LEMMA StepKeeps ==
  ASSUME UpgradeInv, [Next]_vars
  PROVE  UpgradeInv' /\ (pending = NoHeight /\ pending' # NoHeight => good' >= UpgradeWindow)
  <1>1. CASE UNCHANGED vars
    <2>1. UNCHANGED <<upgrade, good, signedFor>> /\ height' \in Nat
      BY <1>1 DEF vars, history, UpgradeInv, UpgradeType
    <2> QED
      BY <2>1, CampaignUntouched
  <1>2. ASSUME NEW v \in Accounts, Equivocate(v) \/ DoubleVote(v)
        PROVE  UNCHANGED <<upgrade, good, signedFor>> /\ height' \in Nat
    BY <1>2 DEF Equivocate, DoubleVote, history, UpgradeInv, UpgradeType
  <1>3. ASSUME BeginBlock
        PROVE  UNCHANGED <<upgrade, good, signedFor>> /\ height' \in Nat
    <2>1. UNCHANGED <<upgrade, history>> /\ height' = height + 1
      BY <1>3 DEF BeginBlock
    <2> QED
      BY <2>1 DEF history, UpgradeInv, UpgradeType
  <1>4. ASSUME NEW a \in Accounts, NEW n \in Amounts, Stake(a, n)
        PROVE  UNCHANGED <<upgrade, good, signedFor>> /\ height' \in Nat
    BY <1>4 DEF Stake, InTx, upgrade, UpgradeInv, UpgradeType
  <1>5. ASSUME NEW a \in Accounts, NEW n \in Amounts, Unstake(a, n)
        PROVE  UNCHANGED <<upgrade, good, signedFor>> /\ height' \in Nat
    BY <1>5 DEF Unstake, InTx, upgrade, UpgradeInv, UpgradeType
  <1>6. ASSUME NEW a \in Accounts, NEW b \in Accounts, NEW n \in Amounts, Transfer(a, b, n)
        PROVE  UNCHANGED <<upgrade, good, signedFor>> /\ height' \in Nat
    BY <1>6 DEF Transfer, InTx, upgrade, UpgradeInv, UpgradeType
  <1>7. ASSUME NEW e \in evidence, NEW reporter \in Accounts, NEW authenticated \in BOOLEAN,
               Slash(e, reporter, authenticated)
        PROVE  UNCHANGED <<upgrade, good, signedFor>> /\ height' \in Nat
    <2>1. InTx /\ UNCHANGED <<minted, signals, signedFor>>
      BY <1>7 DEF Slash
    <2> QED
      BY <2>1 DEF InTx, upgrade, UpgradeInv, UpgradeType
  <1>8. ASSUME NEW pot \in Pots, NEW S \in SUBSET Accounts, EndBlock(pot, S)
        PROVE  UpgradeInv' /\ (pending = NoHeight /\ pending' # NoHeight => good' >= UpgradeWindow)
    <2>1. (Activate \/ Tally) /\ UNCHANGED <<height, signedFor>>
      BY <1>8 DEF EndBlock
    <2> QED
      BY <2>1, ActivateKeeps, TallyKeeps
  <1> QED
    BY <1>1, <1>2, <1>3, <1>4, <1>5, <1>6, <1>7, <1>8, CampaignUntouched, SignalKeeps DEF Next

LEMMA UpgradeInvariant == Spec => []UpgradeInv
  <1>1. UpgradeInv /\ [Next]_vars => UpgradeInv'
    BY StepKeeps
  <1> QED
    BY InitUpgrade, <1>1, PTL DEF Spec

(* No upgrade locks in on fewer than UpgradeWindow consecutive blocks that *)
(* ended in a supermajority (apply_block's lock-in), whatever is staked,   *)
(* withdrawn, slashed or signalled in between.                             *)
THEOREM LockIn == Spec => LockInHeld
  <1>1. UpgradeInv /\ [Next]_vars =>
          [pending = NoHeight /\ pending' # NoHeight => good' >= UpgradeWindow]_vars
    BY StepKeeps
  <1> QED
    BY <1>1, UpgradeInvariant, PTL DEF Spec, LockInHeld

(* Every signal that is tallied was given for the version after the        *)
(* current one (apply_tx's upgrade_signal, apply_block's activation).      *)
THEOREM SignalsOfOneCampaign == Spec => []OneCampaign
  <1>1. UpgradeInv => OneCampaign
    BY DEF UpgradeInv
  <1> QED
    BY <1>1, UpgradeInvariant, PTL

-----------------------------------------------------------------------------
(* Sums.  Total and the other sums of the model are folds over a finite      *)
(* set; what is needed of them is proved by a least set that has it not.     *)

SumOn(f, S) == MapThenSumSet(LAMBDA x : f[x], S)

Any(S) == CHOOSE x \in S : TRUE

IterOn(g, f, S) ==
  g = [T \in SUBSET S |-> IF T = {} THEN 0 ELSE f[Any(T)] + g[T \ {Any(T)}]]

LEMMA SumIsIter ==
  ASSUME NEW f, NEW S
  PROVE  SumOn(f, S) = (CHOOSE g : IterOn(g, f, S))[S]
  BY DEF SumOn, MapThenSumSet, MapThenFoldSet, IterOn, Any

\* A family of subsets of a finite set that is not empty has a least one.
LEMMA LeastSet ==
  ASSUME NEW S, IsFiniteSet(S), NEW F, F \subseteq SUBSET S, F # {}
  PROVE  \E T \in F : \A U \in F : U \subseteq T => U = T
  <1> DEFINE R == StrictSubsetOrdering(S)
  <1>1. IsWellFoundedOn(R, SUBSET S)
    BY FS_StrictSubsetOrderingWellFounded, FS_FiniteSubsetsOfFinite
  <1>2. PICK T \in F : \A U \in F : ~(<<U, T>> \in R)
    BY <1>1, WFMin
  <1>3. ASSUME NEW U \in F, U \subseteq T, U # T PROVE FALSE
    BY <1>2, <1>3 DEF StrictSubsetOrdering
  <1> QED
    BY <1>2, <1>3

LEMMA AnyOf == ASSUME NEW S, S # {} PROVE Any(S) \in S
  BY DEF Any

LEMMA IterUnique ==
  ASSUME NEW R, NEW S, NEW T, T \subseteq R, T \subseteq S, IsFiniteSet(T),
         NEW e, NEW f, \A x \in T : e[x] = f[x],
         NEW g, IterOn(g, e, R), NEW h, IterOn(h, f, S)
  PROVE  g[T] = h[T]
  <1> DEFINE bad == {U \in SUBSET T : g[U] # h[U]}
  <1>1. SUFFICES ASSUME bad # {} PROVE FALSE
    OBVIOUS
  <1>2. PICK U \in bad : \A W \in bad : W \subseteq U => W = U
    <2>1. bad \subseteq SUBSET T
      OBVIOUS
    <2> HIDE DEF bad
    <2> QED
      BY <1>1, <2>1, LeastSet
  <1>3. /\ g[U] = IF U = {} THEN 0 ELSE e[Any(U)] + g[U \ {Any(U)}]
        /\ h[U] = IF U = {} THEN 0 ELSE f[Any(U)] + h[U \ {Any(U)}]
    BY <1>2 DEF IterOn
  <1>4. U # {}
    BY <1>2, <1>3
  <1>5. Any(U) \in U /\ e[Any(U)] = f[Any(U)] /\ U \ {Any(U)} \notin bad
    BY <1>2, <1>4, AnyOf
  <1>6. g[U \ {Any(U)}] = h[U \ {Any(U)}]
    BY <1>2, <1>5
  <1> QED
    BY <1>2, <1>3, <1>5, <1>6

LEMMA IterExists ==
  ASSUME NEW S, IsFiniteSet(S), NEW f
  PROVE  \E g : IterOn(g, f, S)
  <1> DEFINE bad == {T \in SUBSET S : ~\E g : IterOn(g, f, T)}
             h(W) == CHOOSE g : IterOn(g, f, W)
             less(W) == W \ {Any(W)}
  <1>1. SUFFICES ASSUME bad # {} PROVE FALSE
    OBVIOUS
  <1>2. PICK T \in bad : \A W \in bad : W \subseteq T => W = T
    <2>1. bad \subseteq SUBSET S
      OBVIOUS
    <2> HIDE DEF bad
    <2> QED
      BY <1>1, <2>1, LeastSet
  <1>3. ASSUME NEW W \in SUBSET T, W # T
        PROVE  IterOn(h(W), f, W)
    BY <1>2, <1>3
  <1> DEFINE val(W) == IF W = {} THEN 0 ELSE f[Any(W)] + h(less(W))[less(W)]
             g == [W \in SUBSET T |-> val(W)]
  <1>4. ASSUME NEW U \in SUBSET T, U # T
        PROVE  h(U)[U] = val(U)
    <2>1. IterOn(h(U), f, U)
      BY <1>3, <1>4
    <2>2. h(U)[U] = IF U = {} THEN 0 ELSE f[Any(U)] + h(U)[less(U)]
      <3> DEFINE k == h(U)
      <3>1. k = [W \in SUBSET U |-> IF W = {} THEN 0 ELSE f[Any(W)] + k[W \ {Any(W)}]]
        BY <2>1 DEF IterOn
      <3> HIDE DEF k
      <3>2. k[U] = IF U = {} THEN 0 ELSE f[Any(U)] + k[U \ {Any(U)}]
        BY <3>1
      <3> QED
        BY <3>2 DEF k
    <2>3. ASSUME U # {} PROVE h(U)[less(U)] = h(less(U))[less(U)]
      <3>1. less(U) \in SUBSET T /\ less(U) # T /\ less(U) \subseteq U /\ IsFiniteSet(less(U))
        <4>1. Any(U) \in U
          BY <2>3, AnyOf
        <4>2. IsFiniteSet(U \ {Any(U)})
          BY <1>2, FS_Subset
        <4> QED
          BY <1>2, <4>1, <4>2
      <3>2. IterOn(h(less(U)), f, less(U))
        BY <1>3, <3>1
      <3> HIDE DEF h, less
      <3> QED
        BY <2>1, <3>1, <3>2, IterUnique
    <2> HIDE DEF h, less
    <2> QED
      BY <2>2, <2>3
  <1>5. ASSUME NEW W \in SUBSET T, W # {} PROVE g[less(W)] = h(less(W))[less(W)]
    <2>1. less(W) \in SUBSET T /\ less(W) # T
      BY <1>5, AnyOf
    <2>2. h(less(W))[less(W)] = val(less(W))
      BY <1>4, <2>1
    <2> HIDE DEF h, less, val
    <2> QED
      BY <2>1, <2>2
  <1>6. \A W \in SUBSET T : g[W] = IF W = {} THEN 0 ELSE f[Any(W)] + g[less(W)]
    <2> TAKE W \in SUBSET T
    <2>1. g[W] = val(W)
      OBVIOUS
    <2> HIDE DEF g, h, less
    <2> QED
      BY <1>5, <2>1
  <1>7. g = [W \in SUBSET T |-> g[W]]
    OBVIOUS
  <1> HIDE DEF g
  <1>8. IterOn(g, f, T)
    BY <1>6, <1>7 DEF IterOn
  <1> QED
    BY <1>2, <1>8

\* The sum of no summands, and of the chosen one and the others.
LEMMA SumSteps ==
  ASSUME NEW S, IsFiniteSet(S), NEW f
  PROVE  SumOn(f, S) = IF S = {} THEN 0 ELSE f[Any(S)] + SumOn(f, S \ {Any(S)})
  <1> DEFINE h(W) == CHOOSE g : IterOn(g, f, W)
             U == S \ {Any(S)}
  <1>1. IsFiniteSet(U) /\ U \subseteq S
    BY FS_Subset
  <1>2. IterOn(h(S), f, S) /\ IterOn(h(U), f, U)
    BY <1>1, IterExists
  <1>3. SumOn(f, S) = h(S)[S] /\ SumOn(f, U) = h(U)[U]
    BY SumIsIter
  <1> HIDE DEF h
  <1>4. h(S)[U] = h(U)[U]
    BY <1>1, <1>2, IterUnique
  <1>5. h(S)[S] = IF S = {} THEN 0 ELSE f[Any(S)] + h(S)[U]
    BY <1>2 DEF IterOn
  <1> QED
    BY <1>3, <1>4, <1>5

\* The sum over a part of a function is that part's alone.
LEMMA SumSame ==
  ASSUME NEW S, IsFiniteSet(S), NEW e, NEW f, \A x \in S : e[x] = f[x]
  PROVE  SumOn(e, S) = SumOn(f, S)
  <1> DEFINE h(f_) == CHOOSE g : IterOn(g, f_, S)
  <1>1. IterOn(h(e), e, S) /\ IterOn(h(f), f, S)
    BY IterExists
  <1>2. SumOn(e, S) = h(e)[S] /\ SumOn(f, S) = h(f)[S]
    BY SumIsIter
  <1> HIDE DEF h
  <1>3. \A g, k : IterOn(g, e, S) /\ IterOn(k, f, S) => g[S] = k[S]
    BY IterUnique
  <1> QED
    BY <1>1, <1>2, <1>3

\* A least set for which a statement about its sums fails is not empty, and
\* the statement holds of it without the chosen element.
LEMMA SumNat ==
  ASSUME NEW S, IsFiniteSet(S), NEW f, \A x \in S : f[x] \in Nat
  PROVE  SumOn(f, S) \in Nat
  <1> DEFINE bad == {T \in SUBSET S : SumOn(f, T) \notin Nat}
  <1>1. SUFFICES ASSUME bad # {} PROVE FALSE
    OBVIOUS
  <1>2. PICK T \in bad : \A W \in bad : W \subseteq T => W = T
    <2>1. bad \subseteq SUBSET S
      OBVIOUS
    <2> HIDE DEF bad
    <2> QED
      BY <1>1, <2>1, LeastSet
  <1>3. IsFiniteSet(T)
    BY <1>2, FS_Subset
  <1>4. SumOn(f, T) = IF T = {} THEN 0 ELSE f[Any(T)] + SumOn(f, T \ {Any(T)})
    BY <1>3, SumSteps
  <1>5. T # {} /\ Any(T) \in T /\ f[Any(T)] \in Nat
    BY <1>2, <1>4, AnyOf
  <1>6. SumOn(f, T \ {Any(T)}) \in Nat
    BY <1>2, <1>5
  <1> QED
    BY <1>2, <1>4, <1>5, <1>6

\* Any summand can be taken out.
LEMMA SumWithout ==
  ASSUME NEW S, IsFiniteSet(S), NEW f, \A x \in S : f[x] \in Nat, NEW a \in S
  PROVE  SumOn(f, S) = f[a] + SumOn(f, S \ {a})
  <1> DEFINE Fails(T) == \E x \in T : SumOn(f, T) # f[x] + SumOn(f, T \ {x})
             bad == {T \in SUBSET S : Fails(T)}
  <1>1. SUFFICES ASSUME bad # {} PROVE FALSE
    BY <1>1
  <1>2. PICK T \in bad : \A W \in bad : W \subseteq T => W = T
    <2>1. bad \subseteq SUBSET S
      OBVIOUS
    <2> HIDE DEF bad
    <2> QED
      BY <1>1, <2>1, LeastSet
  <1>3. PICK b \in T : SumOn(f, T) # f[b] + SumOn(f, T \ {b})
    BY <1>2
  <1> DEFINE c == Any(T)
             U == T \ {b, c}
  <1>4. T \in SUBSET S /\ b \in T /\ c \in T
    BY <1>2, <1>3, AnyOf
  <1>5. IsFiniteSet(T) /\ IsFiniteSet(U)
    BY <1>4, FS_Subset
  <1>6. SumOn(f, T) = f[c] + SumOn(f, T \ {c})
    BY <1>4, <1>5, SumSteps
  <1>7. b # c
    BY <1>3, <1>6
  <1>8. ASSUME NEW x \in T, NEW y \in T, x # y, {x, y} = {b, c}
        PROVE  SumOn(f, T \ {x}) = f[y] + SumOn(f, U)
    <2>1. T \ {x} \notin bad /\ (T \ {x}) \ {y} = U /\ y \in T \ {x} /\ T \ {x} \in SUBSET S
      BY <1>2, <1>4, <1>8
    <2> HIDE DEF U, c
    <2> QED
      BY <2>1
  <1>9. /\ SumOn(f, T \ {c}) = f[b] + SumOn(f, U)
        /\ SumOn(f, T \ {b}) = f[c] + SumOn(f, U)
    BY <1>4, <1>7, <1>8
  <1>10. SumOn(f, U) \in Nat /\ f[b] \in Nat /\ f[c] \in Nat
    BY <1>4, <1>5, SumNat
  <1> HIDE DEF c, U
  <1> QED
    BY <1>3, <1>6, <1>9, <1>10

\* One summand changes.
LEMMA SumChange ==
  ASSUME NEW S, IsFiniteSet(S), NEW e, NEW f, NEW a \in S,
         \A x \in S : e[x] \in Nat /\ f[x] \in Nat,
         \A x \in S : x # a => e[x] = f[x]
  PROVE  SumOn(f, S) + e[a] = SumOn(e, S) + f[a]
  <1> DEFINE T == S \ {a}
  <1>1. IsFiniteSet(T) /\ \A x \in T : e[x] = f[x]
    BY FS_Subset
  <1>2. SumOn(e, T) = SumOn(f, T) /\ SumOn(e, T) \in Nat
    BY <1>1, SumSame, SumNat
  <1>3. SumOn(e, S) = e[a] + SumOn(e, T) /\ SumOn(f, S) = f[a] + SumOn(f, T)
    BY SumWithout
  <1> HIDE DEF T
  <1> QED
    BY <1>2, <1>3

\* Adding term by term.
LEMMA SumPlus ==
  ASSUME NEW S, IsFiniteSet(S), NEW d, NEW e, NEW f,
         \A x \in S : d[x] \in Nat /\ e[x] \in Nat /\ f[x] = d[x] + e[x]
  PROVE  SumOn(f, S) = SumOn(d, S) + SumOn(e, S)
  <1> DEFINE bad == {T \in SUBSET S : SumOn(f, T) # SumOn(d, T) + SumOn(e, T)}
  <1>1. SUFFICES ASSUME bad # {} PROVE FALSE
    OBVIOUS
  <1>2. PICK T \in bad : \A W \in bad : W \subseteq T => W = T
    <2>1. bad \subseteq SUBSET S
      OBVIOUS
    <2> HIDE DEF bad
    <2> QED
      BY <1>1, <2>1, LeastSet
  <1> DEFINE c == Any(T)
             U == T \ {c}
  <1>3. IsFiniteSet(T) /\ T \subseteq S /\ IsFiniteSet(U)
    BY <1>2, FS_Subset
  <1>4. \A g : SumOn(g, T) = IF T = {} THEN 0 ELSE g[c] + SumOn(g, U)
    BY <1>3, SumSteps
  <1>5. T # {}
    BY <1>2, <1>4
  <1>6. c \in T /\ SumOn(f, U) = SumOn(d, U) + SumOn(e, U)
    BY <1>2, <1>5, AnyOf
  <1>7. SumOn(d, U) \in Nat /\ SumOn(e, U) \in Nat
    BY <1>3, SumNat
  <1>8. SumOn(f, T) # SumOn(d, T) + SumOn(e, T)
    BY <1>2
  <1> HIDE DEF c, U, bad
  <1>9. d[c] \in Nat /\ e[c] \in Nat /\ f[c] = d[c] + e[c]
    BY <1>3, <1>6
  <1>10. /\ SumOn(f, T) = f[c] + SumOn(f, U)
         /\ SumOn(d, T) = d[c] + SumOn(d, U)
         /\ SumOn(e, T) = e[c] + SumOn(e, U)
    BY <1>4, <1>5
  <1> QED
    BY ONLY <1>6, <1>7, <1>8, <1>9, <1>10

\* Summands that are zero can be left out.
LEMMA SumWithoutZeros ==
  ASSUME NEW S, IsFiniteSet(S), NEW f, \A x \in S : f[x] \in Nat,
         NEW R, R \subseteq S, \A x \in S : x \notin R => f[x] = 0
  PROVE  SumOn(f, S) = SumOn(f, R)
  <1> DEFINE bad == {T \in SUBSET S : SumOn(f, T) # SumOn(f, T \cap R)}
  <1>1. SUFFICES ASSUME bad # {} PROVE FALSE
    <2>1. S \cap R = R /\ S \in SUBSET S
      OBVIOUS
    <2> QED
      BY <1>1, <2>1
  <1>2. PICK T \in bad : \A W \in bad : W \subseteq T => W = T
    <2>1. bad \subseteq SUBSET S
      OBVIOUS
    <2> HIDE DEF bad
    <2> QED
      BY <1>1, <2>1, LeastSet
  <1> DEFINE c == Any(T)
             U == T \ {c}
  <1>3. IsFiniteSet(T) /\ T \subseteq S /\ IsFiniteSet(U) /\ IsFiniteSet(T \cap R)
    BY <1>2, FS_Subset
  <1>4. SumOn(f, T) # SumOn(f, T \cap R)
    BY <1>2
  <1>5. T # {}
    <2>1. CASE T = {}
      <3>1. T \cap R = T
        BY <2>1
      <3> QED
        BY <1>4, <3>1
    <2> QED
      BY <2>1
  <1>6. SumOn(f, T) = f[c] + SumOn(f, U)
    BY <1>3, <1>5, SumSteps
  <1>7. c \in T /\ SumOn(f, U) = SumOn(f, U \cap R)
    BY <1>2, <1>5, AnyOf
  <1>8. SumOn(f, U) \in Nat
    BY <1>3, SumNat
  <1>9. CASE c \in R
    <2>1. (T \cap R) \ {c} = U \cap R /\ c \in T \cap R
      BY <1>7, <1>9
    <2>2. SumOn(f, T \cap R) = f[c] + SumOn(f, (T \cap R) \ {c})
      BY <1>3, <2>1, SumWithout
    <2> QED
      BY <1>4, <1>6, <1>7, <2>1, <2>2
  <1>10. CASE c \notin R
    <2>1. T \cap R = U \cap R /\ f[c] = 0
      BY <1>3, <1>7, <1>10
    <2> HIDE DEF c, U, bad
    <2> QED
      BY ONLY <1>4, <1>6, <1>7, <1>8, <2>1
  <1> QED
    BY <1>9, <1>10

LEMMA SumOfZeros ==
  ASSUME NEW S, IsFiniteSet(S), NEW f, \A x \in S : f[x] = 0
  PROVE  SumOn(f, S) = 0
  <1>1. SumOn(f, S) = SumOn(f, {})
    BY SumWithoutZeros
  <1>2. SumOn(f, {}) = 0
    BY SumSteps, FS_EmptySet
  <1> QED
    BY <1>1, <1>2

-----------------------------------------------------------------------------
(* The books.                                                                *)

Sum(f) == SumOn(f, Accounts)
Owing(u) == [a \in Accounts |-> SumOn(u[a], Releases)]

LEMMA TotalIsSum == ASSUME NEW f \in Amount PROVE Total(f) = Sum(f)
  <1>1. DOMAIN f = Accounts
    BY DEF Amount
  <1> QED
    BY <1>1 DEF Total, Sum, SumOn

LEMMA Sizes == IsFiniteSet(Accounts) /\ IsFiniteSet(Releases) /\ Releases \subseteq Nat
  <1>1. MaxHeight + UnbondingPeriod \in Int /\ 1 \in Int
    BY LedgerConstants
  <1>2. IsFiniteSet(Releases) /\ Releases \subseteq Nat
    BY <1>1, FS_Interval DEF Releases
  <1> QED
    BY <1>2, LedgerConstants

LEMMA OwingIsAmount ==
  ASSUME NEW u \in [Accounts -> [Releases -> Nat]]
  PROVE  Owing(u) \in Amount
  <1>1. ASSUME NEW a \in Accounts PROVE SumOn(u[a], Releases) \in Nat
    <2>1. \A r \in Releases : u[a][r] \in Nat
      OBVIOUS
    <2> QED
      BY <2>1, Sizes, SumNat
  <1> QED
    BY <1>1 DEF Owing, Amount

LEMMA SumIsNat == ASSUME NEW f \in Amount PROVE Sum(f) \in Nat
  <1>1. \A a \in Accounts : f[a] \in Nat
    BY DEF Amount
  <1> QED
    BY <1>1, Sizes, SumNat DEF Sum

Put(f, a, n) == [f EXCEPT ![a] = n]
Credit(f, a, n) == [f EXCEPT ![a] = @ + n]
Debit(f, a, n) == [f EXCEPT ![a] = @ - n]

\* One entry changes.
LEMMA SumPut ==
  ASSUME NEW S, IsFiniteSet(S), NEW f \in [S -> Nat], NEW a \in S, NEW n \in Nat
  PROVE  /\ Put(f, a, n) \in [S -> Nat]
         /\ SumOn(Put(f, a, n), S) + f[a] = SumOn(f, S) + n
  <1> DEFINE g == Put(f, a, n)
  <1>1. /\ g \in [S -> Nat] /\ g[a] = n
        /\ \A x \in S : f[x] \in Nat /\ g[x] \in Nat
        /\ \A x \in S : x # a => f[x] = g[x]
    BY DEF Put
  <1> HIDE DEF g
  <1>2. \A d, e : (/\ \A x \in S : d[x] \in Nat /\ e[x] \in Nat
                  /\ \A x \in S : x # a => d[x] = e[x])
                 => SumOn(e, S) + d[a] = SumOn(d, S) + e[a]
    BY SumChange
  <1>3. SumOn(g, S) + f[a] = SumOn(f, S) + g[a]
    BY <1>1, <1>2
  <1> QED
    BY <1>1, <1>3 DEF g

LEMMA SumCredit ==
  ASSUME NEW S, IsFiniteSet(S), NEW f \in [S -> Nat], NEW a \in S, NEW n \in Nat
  PROVE  /\ Credit(f, a, n) \in [S -> Nat]
         /\ SumOn(Credit(f, a, n), S) = SumOn(f, S) + n
  <1> DEFINE m == f[a] + n
             g == Put(f, a, m)
  <1>1. f[a] \in Nat /\ m \in Nat /\ \A x \in S : f[x] \in Nat
    OBVIOUS
  <1>2. Credit(f, a, n) = g
    BY DEF Credit, Put
  <1>3. g \in [S -> Nat] /\ SumOn(g, S) + f[a] = SumOn(f, S) + m
    <2> HIDE DEF m
    <2> QED
      BY <1>1, SumPut
  <1> HIDE DEF g
  <1>4. SumOn(f, S) \in Nat /\ SumOn(g, S) \in Nat
    <2>1. \A x \in S : g[x] \in Nat
      BY <1>3
    <2> QED
      BY <1>1, <2>1, SumNat
  <1> QED
    BY <1>1, <1>2, <1>3, <1>4

LEMMA SumDebit ==
  ASSUME NEW S, IsFiniteSet(S), NEW f \in [S -> Nat], NEW a \in S, NEW n \in Nat, f[a] >= n
  PROVE  /\ Debit(f, a, n) \in [S -> Nat]
         /\ SumOn(Debit(f, a, n), S) + n = SumOn(f, S)
  <1> DEFINE m == f[a] - n
             g == Put(f, a, m)
  <1>1. f[a] \in Nat /\ m \in Nat /\ \A x \in S : f[x] \in Nat
    OBVIOUS
  <1>2. Debit(f, a, n) = g
    BY DEF Debit, Put
  <1>3. g \in [S -> Nat] /\ SumOn(g, S) + f[a] = SumOn(f, S) + m
    <2> HIDE DEF m
    <2> QED
      BY <1>1, SumPut
  <1> HIDE DEF g
  <1>4. SumOn(f, S) \in Nat /\ SumOn(g, S) \in Nat
    <2>1. \A x \in S : g[x] \in Nat
      BY <1>3
    <2> QED
      BY <1>1, <2>1, SumNat
  <1> QED
    BY <1>1, <1>2, <1>3, <1>4

\* The same of the accounts.
LEMMA Booked ==
  ASSUME NEW f \in Amount, NEW a \in Accounts, NEW n \in Nat
  PROVE  /\ Put(f, a, n) \in Amount
         /\ Sum(Put(f, a, n)) + f[a] = Sum(f) + n
  BY SumPut, Sizes DEF Amount, Sum

LEMMA Credited ==
  ASSUME NEW f \in Amount, NEW a \in Accounts, NEW n \in Nat
  PROVE  Credit(f, a, n) \in Amount /\ Sum(Credit(f, a, n)) = Sum(f) + n
  BY SumCredit, Sizes DEF Amount, Sum

LEMMA Debited ==
  ASSUME NEW f \in Amount, NEW a \in Accounts, NEW n \in Nat, f[a] >= n
  PROVE  Debit(f, a, n) \in Amount /\ Sum(Debit(f, a, n)) + n = Sum(f)
  BY SumDebit, Sizes DEF Amount, Sum

MoneyType ==
  /\ bal \in Amount /\ staked \in Amount
  /\ unbonding \in [Accounts -> [Releases -> Nat]]
  /\ treasury \in Nat /\ minted \in Nat /\ minted <= MaxSupply
  /\ height \in 0 .. MaxHeight
  /\ \A e \in evidence : e.id.who \in Accounts /\ e \in [id : {e.id}, at : Nat, owed : Nat]

Books == Sum(bal) + Sum(staked) + treasury + Sum(Owing(unbonding)) = minted

MoneyInv == MoneyType /\ Books

LEMMA MoneyIsConserved == MoneyInv => Conserved
  <1> SUFFICES ASSUME MoneyInv PROVE Conserved
    OBVIOUS
  <1>1. [a \in Accounts |-> UnbondingOf(a)] = Owing(unbonding)
    <2>1. ASSUME NEW a \in Accounts PROVE UnbondingOf(a) = SumOn(unbonding[a], Releases)
      <3>1. DOMAIN unbonding[a] = Releases
        BY DEF MoneyInv, MoneyType
      <3> QED
        BY <3>1 DEF UnbondingOf, Total, SumOn
    <2> QED
      BY <2>1 DEF Owing
  <1>2. /\ Total(bal) = Sum(bal) /\ Total(staked) = Sum(staked)
        /\ Total(Owing(unbonding)) = Sum(Owing(unbonding))
    BY TotalIsSum, OwingIsAmount DEF MoneyInv, MoneyType
  <1> QED
    BY <1>1, <1>2 DEF Conserved, MoneyInv, MoneyType, Books

LEMMA MoneyInit == Init => MoneyInv
  <1> SUFFICES ASSUME Init PROVE MoneyInv
    OBVIOUS
  <1>1. MoneyType
    BY LedgerConstants DEF Init, MoneyType, Amount
  <1>2. Sum(bal) = 0 /\ Sum(staked) = 0
    <2>1. \A a \in Accounts : bal[a] = 0 /\ staked[a] = 0
      BY DEF Init
    <2> QED
      BY <2>1, Sizes, SumOfZeros DEF Sum
  <1>3. Sum(Owing(unbonding)) = 0
    <2>1. ASSUME NEW a \in Accounts PROVE Owing(unbonding)[a] = 0
      <3>1. \A r \in Releases : unbonding[a][r] = 0
        BY DEF Init
      <3> QED
        BY <3>1, Sizes, SumOfZeros DEF Owing
    <2> QED
      BY <2>1, Sizes, SumOfZeros DEF Sum
  <1>4. treasury = 0 /\ minted = 0
    BY DEF Init
  <1> QED
    BY <1>1, <1>2, <1>3, <1>4 DEF MoneyInv, Books

\* What one account is owed changes.
LEMMA Owed ==
  ASSUME NEW u \in [Accounts -> [Releases -> Nat]], NEW a \in Accounts,
         NEW w \in [Releases -> Nat]
  PROVE  /\ Put(u, a, w) \in [Accounts -> [Releases -> Nat]]
         /\ Sum(Owing(Put(u, a, w))) + SumOn(u[a], Releases)
              = Sum(Owing(u)) + SumOn(w, Releases)
  <1> DEFINE v == Put(u, a, w)
             n == SumOn(w, Releases)
  <1>1. v \in [Accounts -> [Releases -> Nat]] /\ v[a] = w
        /\ \A x \in Accounts : x # a => v[x] = u[x]
    BY DEF Put
  <1>2. n \in Nat
    <2>1. \A r \in Releases : w[r] \in Nat
      OBVIOUS
    <2> QED
      BY <2>1, Sizes, SumNat
  <1>3. Owing(v) = Put(Owing(u), a, n)
    <2> HIDE DEF v
    <2> QED
      BY <1>1 DEF Owing, Put
  <1>4. Owing(u) \in Amount /\ Owing(u)[a] = SumOn(u[a], Releases)
    BY OwingIsAmount DEF Owing
  <1> HIDE DEF v, n
  <1>5. Sum(Owing(v)) + Owing(u)[a] = Sum(Owing(u)) + n
    BY <1>2, <1>3, <1>4, Booked
  <1> QED
    BY <1>1, <1>4, <1>5 DEF v, n

\* What the sums are before a step.
LEMMA MoneySums ==
  ASSUME MoneyInv
  PROVE  /\ Sum(bal) \in Nat /\ Sum(staked) \in Nat /\ treasury \in Nat
         /\ Owing(unbonding) \in Amount /\ Sum(Owing(unbonding)) \in Nat
         /\ Sum(bal) + Sum(staked) + treasury + Sum(Owing(unbonding)) = minted
  BY SumIsNat, OwingIsAmount DEF MoneyInv, MoneyType, Books

LEMMA TransferBooks ==
  ASSUME MoneyInv, NEW a \in Accounts, NEW b \in Accounts, NEW n \in Amounts, Transfer(a, b, n)
  PROVE  MoneyInv'
  <1> DEFINE d == Debit(bal, a, n)
  <1>1. /\ bal' = Credit(d, b, n) /\ bal[a] >= n
        /\ UNCHANGED <<height, staked, unbonding, treasury, minted, evidence>>
    BY DEF Transfer, InTx, Credit, Debit
  <1>2. n \in Nat /\ bal \in Amount
    BY LedgerConstants DEF MoneyInv, MoneyType
  <1>3. d \in Amount /\ Sum(d) + n = Sum(bal)
    BY <1>1, <1>2, Debited
  <1> HIDE DEF d
  <1>4. bal' \in Amount /\ Sum(bal') = Sum(bal)
    BY <1>1, <1>2, <1>3, Credited
  <1> QED
    BY <1>1, <1>4 DEF MoneyInv, MoneyType, Books

LEMMA StakeBooks ==
  ASSUME MoneyInv, NEW a \in Accounts, NEW n \in Amounts, Stake(a, n)
  PROVE  MoneyInv'
  <1>1. /\ bal' = Debit(bal, a, n) /\ bal[a] >= n
        /\ staked' = Credit(staked, a, n)
        /\ UNCHANGED <<height, unbonding, treasury, minted, evidence>>
    BY DEF Stake, InTx, Credit, Debit
  <1>2. n \in Nat /\ bal \in Amount /\ staked \in Amount
    BY LedgerConstants DEF MoneyInv, MoneyType
  <1>3. bal' \in Amount /\ Sum(bal') + n = Sum(bal)
    BY <1>1, <1>2, Debited
  <1>4. staked' \in Amount /\ Sum(staked') = Sum(staked) + n
    BY <1>1, <1>2, Credited
  <1>5. MoneyType'
    BY <1>1, <1>3, <1>4 DEF MoneyInv, MoneyType
  <1>6. Sum(bal') + Sum(staked') + treasury + Sum(Owing(unbonding)) = minted
    BY <1>2, <1>3, <1>4, MoneySums, SumIsNat
  <1>7. Books'
    BY <1>1, <1>6 DEF Books
  <1> QED
    BY <1>5, <1>7 DEF MoneyInv

LEMMA UnstakeBooks ==
  ASSUME MoneyInv, NEW a \in Accounts, NEW n \in Amounts, Unstake(a, n)
  PROVE  MoneyInv'
  <1> DEFINE w == Credit(unbonding[a], Release, n)
             u == Put(unbonding, a, w)
  <1>1. /\ staked' = Debit(staked, a, n) /\ staked[a] >= n
        /\ unbonding' = u
        /\ UNCHANGED <<height, bal, treasury, minted, evidence>>
    BY DEF Unstake, InTx, Put, Credit, Debit, MoneyInv, MoneyType
  <1>2. /\ n \in Nat /\ staked \in Amount
        /\ unbonding \in [Accounts -> [Releases -> Nat]]
        /\ unbonding[a] \in [Releases -> Nat]
    BY LedgerConstants DEF MoneyInv, MoneyType
  <1>3. Release \in Releases
    BY LedgerConstants DEF Release, Releases, MoneyInv, MoneyType
  <1>4. w \in [Releases -> Nat] /\ SumOn(w, Releases) = SumOn(unbonding[a], Releases) + n
    BY <1>2, <1>3, SumCredit, Sizes
  <1>5. staked' \in Amount /\ Sum(staked') + n = Sum(staked)
    BY <1>1, <1>2, Debited
  <1> HIDE DEF w
  <1>6. /\ u \in [Accounts -> [Releases -> Nat]]
        /\ Sum(Owing(u)) + SumOn(unbonding[a], Releases)
             = Sum(Owing(unbonding)) + SumOn(w, Releases)
    BY <1>2, <1>4, Owed
  <1> HIDE DEF u
  <1>7. SumOn(unbonding[a], Releases) \in Nat /\ Sum(Owing(u)) \in Nat /\ Sum(staked') \in Nat
    <2>1. \A r \in Releases : unbonding[a][r] \in Nat
      BY <1>2
    <2>2. SumOn(unbonding[a], Releases) \in Nat
      BY <2>1, Sizes, SumNat
    <2> QED
      BY <1>5, <1>6, <2>2, SumIsNat, OwingIsAmount
  <1>8. Sum(Owing(u)) = Sum(Owing(unbonding)) + n
    <2>1. Sum(Owing(unbonding)) \in Nat
      BY MoneySums
    <2>2. Sum(Owing(u)) + SumOn(unbonding[a], Releases)
            = Sum(Owing(unbonding)) + (SumOn(unbonding[a], Releases) + n)
      BY <1>4, <1>6
    <2>3. n \in Nat
      BY <1>2
    <2> QED
      BY ONLY <1>7, <2>1, <2>2, <2>3
  <1>9. Sum(bal) + Sum(staked') + treasury + Sum(Owing(u)) = minted
    BY <1>2, <1>5, <1>7, <1>8, MoneySums
  <1>10. MoneyType'
    BY <1>1, <1>5, <1>6 DEF MoneyInv, MoneyType
  <1>11. Books'
    BY <1>1, <1>9 DEF Books
  <1> QED
    BY <1>10, <1>11 DEF MoneyInv

\* A bounty is a part of the bond.
LEMMA BountyIsPart ==
  ASSUME NEW bond \in Nat, NEW authenticated
  PROVE  Bounty(bond, authenticated) \in Nat /\ Bounty(bond, authenticated) <= bond
  <1> DEFINE q == bond \div BountyDen
             r == bond % BountyDen
  <1>1. BountyDen \in Nat /\ BountyDen > 0
    BY LedgerConstants
  <1>2. q \in Int /\ r \in Int /\ bond = BountyDen * q + r /\ r >= 0 /\ r < BountyDen
    BY <1>1
  <1> HIDE DEF q, r
  <1>3. q >= 0
    BY <1>1, <1>2
  <1>4. q <= BountyDen * q
    BY <1>1, <1>2, <1>3
  <1>5. q \in Nat /\ q <= bond
    BY <1>1, <1>2, <1>3, <1>4
  <1> QED
    BY <1>5 DEF Bounty, q

LEMMA SlashBooks ==
  ASSUME MoneyInv, NEW e \in evidence, NEW reporter \in Accounts, NEW authenticated \in BOOLEAN,
         Slash(e, reporter, authenticated)
  PROVE  MoneyInv'
  <1> DEFINE v == e.id.who
             zero == [r \in Releases |-> 0]
             bond == Seized(v)
             bounty == Bounty(bond, authenticated)
             u == Put(unbonding, v, zero)
  <1>1. /\ bal' = Credit(bal, reporter, bounty)
        /\ treasury' = treasury + (bond - bounty)
        /\ staked' = Put(staked, v, 0)
        /\ unbonding' = u
        /\ evidence' = {IF x.id.who = v THEN [x EXCEPT !.owed = 0] ELSE x : x \in evidence}
        /\ UNCHANGED <<height, minted>>
    BY DEF Slash, InTx, Put, Credit
  <1>2. /\ v \in Accounts /\ bal \in Amount /\ staked \in Amount
        /\ unbonding \in [Accounts -> [Releases -> Nat]]
    BY DEF MoneyInv, MoneyType
  <1>3. staked[v] \in Nat /\ unbonding[v] \in [Releases -> Nat]
    BY <1>2 DEF Amount
  <1>4. bond = staked[v] + SumOn(unbonding[v], Releases) /\ SumOn(unbonding[v], Releases) \in Nat
    <2>1. DOMAIN unbonding[v] = Releases /\ \A r \in Releases : unbonding[v][r] \in Nat
      BY <1>3
    <2>2. UnbondingOf(v) = SumOn(unbonding[v], Releases)
      BY <2>1 DEF UnbondingOf, Total, SumOn
    <2>3. SumOn(unbonding[v], Releases) \in Nat
      BY <2>1, Sizes, SumNat
    <2> QED
      BY <2>2, <2>3 DEF Seized, AtRisk
  <1> HIDE DEF v
  <1>5. bond \in Nat /\ bounty \in Nat /\ bounty <= bond
    <2>1. bond \in Nat
      BY <1>3, <1>4
    <2> HIDE DEF bond
    <2> QED
      BY <2>1, BountyIsPart
  <1>6. zero \in [Releases -> Nat] /\ SumOn(zero, Releases) = 0
    <2>1. \A r \in Releases : zero[r] = 0
      OBVIOUS
    <2> QED
      BY <2>1, Sizes, SumOfZeros
  <1> HIDE DEF zero, bond, bounty
  <1>7. bal' \in Amount /\ Sum(bal') = Sum(bal) + bounty
    BY <1>1, <1>2, <1>5, Credited
  <1>8. staked' \in Amount /\ Sum(staked') + staked[v] = Sum(staked)
    <2>1. Put(staked, v, 0) \in Amount /\ Sum(Put(staked, v, 0)) + staked[v] = Sum(staked) + 0
      BY <1>2, Booked
    <2>2. Sum(staked) \in Nat
      BY MoneySums
    <2> QED
      BY <1>1, <2>1, <2>2
  <1>9. /\ u \in [Accounts -> [Releases -> Nat]]
        /\ Sum(Owing(u)) + SumOn(unbonding[v], Releases)
             = Sum(Owing(unbonding)) + SumOn(zero, Releases)
    BY <1>2, <1>6, Owed
  <1> HIDE DEF u
  <1>10. Sum(Owing(u)) \in Nat /\ Sum(staked') \in Nat
    BY <1>8, <1>9, SumIsNat, OwingIsAmount
  <1>11. \A d \in evidence' : d.id.who \in Accounts /\ d \in [id : {d.id}, at : Nat, owed : Nat]
    <2> SUFFICES ASSUME NEW x \in evidence,
                        NEW d, d = IF x.id.who = v THEN [x EXCEPT !.owed = 0] ELSE x
                 PROVE  d.id.who \in Accounts /\ d \in [id : {d.id}, at : Nat, owed : Nat]
      BY <1>1
    <2>1. x.id.who \in Accounts /\ x \in [id : {x.id}, at : Nat, owed : Nat]
      BY DEF MoneyInv, MoneyType
    <2> QED
      BY <2>1
  <1>12. treasury' \in Nat
    BY <1>1, <1>5, MoneySums
  <1>13. MoneyType'
    BY <1>1, <1>7, <1>8, <1>9, <1>11, <1>12 DEF MoneyInv, MoneyType
  <1>14. Sum(bal') + Sum(staked') + treasury' + Sum(Owing(u)) = minted
    <2>1. treasury' = treasury + (bond - bounty)
      BY <1>1
    <2>2. Sum(bal) + Sum(staked) + treasury + Sum(Owing(unbonding)) = minted
      BY MoneySums
    <2>3. /\ Sum(bal) \in Nat /\ Sum(staked) \in Nat /\ treasury \in Nat
          /\ Sum(Owing(unbonding)) \in Nat
      BY MoneySums
    <2>4. Sum(bal') = Sum(bal) + bounty
      BY <1>7
    <2>5. Sum(staked') + staked[v] = Sum(staked)
      BY <1>8
    <2> QED
      BY ONLY <2>1, <2>2, <2>3, <2>4, <2>5, <1>3, <1>4, <1>5, <1>6, <1>9, <1>10
  <1>15. Books'
    BY <1>1, <1>14 DEF Books
  <1> QED
    BY <1>13, <1>15 DEF MoneyInv

LEMMA BeginBooks == ASSUME MoneyInv, BeginBlock PROVE MoneyInv'
  <1> DEFINE M == Matured(height + 1)
             u == [a \in Accounts |-> [r \in Releases |-> IF r \in M THEN 0 ELSE unbonding[a][r]]]
             paid == [a \in Accounts |-> MaturedSum(a, height + 1)]
  <1>1. /\ height < MaxHeight /\ height' = height + 1
        /\ bal' = [a \in Accounts |-> bal[a] + MaturedSum(a, height + 1)]
        /\ unbonding' = u
        /\ UNCHANGED <<staked, treasury, minted, evidence>>
    BY DEF BeginBlock
  <1>2. bal \in Amount /\ unbonding \in [Accounts -> [Releases -> Nat]]
    BY DEF MoneyInv, MoneyType
  <1>3. M \subseteq Releases /\ IsFiniteSet(M)
    <2>1. M \subseteq Releases
      BY DEF Matured
    <2> QED
      BY <2>1, Sizes, FS_Subset
  <1>4. u \in [Accounts -> [Releases -> Nat]]
    <2> HIDE DEF M
    <2> QED
      BY <1>2
  <1>5. ASSUME NEW a \in Accounts
        PROVE  /\ paid[a] \in Nat
               /\ SumOn(u[a], Releases) \in Nat
               /\ SumOn(unbonding[a], Releases) = SumOn(u[a], Releases) + paid[a]
    <2> DEFINE full == unbonding[a]
               stays == u[a]
               goes == [r \in Releases |-> IF r \in M THEN full[r] ELSE 0]
    <2>1. paid[a] = SumOn(full, M)
      BY DEF MaturedSum, SumOn
    <2> HIDE DEF M, paid
    <2>2. \A r \in Releases : stays[r] = IF r \in M THEN 0 ELSE full[r]
      OBVIOUS
    <2>3. \A r \in Releases : full[r] \in Nat
      BY <1>2
    <2>4. /\ \A r \in Releases : /\ stays[r] \in Nat /\ goes[r] \in Nat
                                 /\ full[r] = stays[r] + goes[r]
          /\ \A r \in M : goes[r] = full[r]
          /\ \A r \in Releases : r \notin M => goes[r] = 0
      <3> HIDE DEF full, stays
      <3> QED
        BY <1>3, <2>2, <2>3
    <2> HIDE DEF full, stays, goes
    <2>5. SumOn(full, Releases) = SumOn(stays, Releases) + SumOn(goes, Releases)
      BY <2>4, Sizes, SumPlus
    <2>6. SumOn(goes, Releases) = SumOn(goes, M)
      BY <1>3, <2>4, Sizes, SumWithoutZeros
    <2>7. SumOn(goes, M) = SumOn(full, M)
      BY <1>3, <2>4, SumSame
    <2>8. SumOn(goes, Releases) \in Nat /\ SumOn(stays, Releases) \in Nat
      BY <2>4, Sizes, SumNat
    <2> QED
      BY <2>1, <2>5, <2>6, <2>7, <2>8 DEF full, stays
  <1> HIDE DEF u, M
  <1>6. paid \in Amount
    <2>1. paid = [a \in Accounts |-> paid[a]]
      OBVIOUS
    <2> HIDE DEF paid
    <2> QED
      BY <1>5, <2>1 DEF Amount
  <1>7. bal' \in Amount /\ \A a \in Accounts : bal'[a] = bal[a] + paid[a]
    <2>1. \A a \in Accounts : bal'[a] = bal[a] + paid[a]
      BY <1>1
    <2>2. bal' = [a \in Accounts |-> bal'[a]]
      BY <1>1
    <2> HIDE DEF paid
    <2>3. \A a \in Accounts : bal[a] \in Nat /\ paid[a] \in Nat
      BY <1>2, <1>6 DEF Amount
    <2> QED
      BY <2>1, <2>2, <2>3 DEF Amount
  <1> HIDE DEF paid
  <1>8. \A d, e, f : (\A x \in Accounts : d[x] \in Nat /\ e[x] \in Nat /\ f[x] = d[x] + e[x])
                     => Sum(f) = Sum(d) + Sum(e)
    BY Sizes, SumPlus DEF Sum
  <1>9. Sum(bal') = Sum(bal) + Sum(paid)
    <2>1. \A a \in Accounts : bal[a] \in Nat /\ paid[a] \in Nat
      BY <1>2, <1>6 DEF Amount
    <2> QED
      BY <1>7, <1>8, <2>1
  <1>10. Sum(Owing(unbonding)) = Sum(Owing(u)) + Sum(paid)
    <2>1. \A a \in Accounts : /\ Owing(u)[a] \in Nat /\ paid[a] \in Nat
                              /\ Owing(unbonding)[a] = Owing(u)[a] + paid[a]
      BY <1>5 DEF Owing
    <2> QED
      BY <1>8, <2>1
  <1>11. Sum(paid) \in Nat /\ Sum(Owing(u)) \in Nat /\ Sum(bal') \in Nat
    BY <1>4, <1>6, <1>7, SumIsNat, OwingIsAmount
  <1>12. Sum(bal') + Sum(staked) + treasury + Sum(Owing(u)) = minted
    <2>1. /\ Sum(bal) \in Nat /\ Sum(staked) \in Nat /\ treasury \in Nat
          /\ Sum(bal) + Sum(staked) + treasury + Sum(Owing(unbonding)) = minted
      BY MoneySums
    <2> QED
      BY ONLY <1>9, <1>10, <1>11, <2>1
  <1>13. height' \in 0 .. MaxHeight
    BY <1>1, LedgerConstants DEF MoneyInv, MoneyType
  <1>14. MoneyType'
    BY <1>1, <1>4, <1>7, <1>13 DEF MoneyInv, MoneyType
  <1>15. Books'
    BY <1>1, <1>12 DEF Books
  <1> QED
    BY <1>14, <1>15 DEF MoneyInv

LEMMA PayBooks ==
  ASSUME MoneyInv, NEW pot \in Pots, NEW S \in SUBSET Accounts, Pay(pot, S),
         UNCHANGED <<height, staked, unbonding, treasury, evidence>>
  PROVE  MoneyInv'
  <1>1. CASE UNCHANGED <<bal, minted>>
    BY <1>1 DEF MoneyInv, MoneyType, Books
  <1>2. CASE ~UNCHANGED <<bal, minted>>
    <2> DEFINE n == Reward(pot)
    <2>1. PICK share \in Splits(n, S) :
            /\ bal' = [a \in Accounts |-> bal[a] + (IF a \in S THEN share[a] ELSE 0)]
            /\ minted' = minted + n
      BY <1>2 DEF Pay
    <2>2. n \in Nat /\ minted + n <= MaxSupply
      BY LedgerConstants DEF Reward, Least, MoneyInv, MoneyType
    <2> DEFINE more == [a \in Accounts |-> IF a \in S THEN share[a] ELSE 0]
    <2>3. share \in [S -> 0 .. n] /\ Total(share) = n
      BY <2>1 DEF Splits
    <2>4. SumOn(share, S) = n
      <3>1. DOMAIN share = S
        BY <2>3
      <3> QED
        BY <2>3, <3>1 DEF Total, SumOn
    <2>5. /\ \A a \in Accounts : more[a] \in Nat
          /\ \A a \in S : more[a] = share[a]
          /\ \A a \in Accounts : a \notin S => more[a] = 0
      <3> HIDE DEF n
      <3> QED
        BY <2>2, <2>3
    <2>6. bal \in Amount /\ \A a \in Accounts : bal[a] \in Nat
      BY DEF MoneyInv, MoneyType, Amount
    <2>7. bal' \in Amount /\ \A a \in Accounts : bal'[a] = bal[a] + more[a]
      <3>1. \A a \in Accounts : bal'[a] = bal[a] + more[a]
        BY <2>1
      <3>2. bal' = [a \in Accounts |-> bal'[a]]
        BY <2>1
      <3> HIDE DEF more
      <3> QED
        BY <2>5, <2>6, <3>1, <3>2 DEF Amount
    <2> HIDE DEF more, n
    <2>8. \A d, e, f : (\A x \in Accounts : d[x] \in Nat /\ e[x] \in Nat /\ f[x] = d[x] + e[x])
                       => Sum(f) = Sum(d) + Sum(e)
      BY Sizes, SumPlus DEF Sum
    <2>9. Sum(bal') = Sum(bal) + Sum(more)
      BY <2>5, <2>6, <2>7, <2>8
    <2>10. Sum(more) = n
      <3>1. SumOn(more, Accounts) = SumOn(more, S)
        BY <2>5, Sizes, SumWithoutZeros
      <3>2. IsFiniteSet(S)
        BY Sizes, FS_Subset
      <3>3. SumOn(more, S) = SumOn(share, S)
        BY <2>5, <3>2, SumSame
      <3> QED
        BY <2>4, <3>1, <3>3 DEF Sum
    <2>11. minted' \in Nat /\ minted' <= MaxSupply
      BY <2>1, <2>2 DEF MoneyInv, MoneyType
    <2>12. MoneyType'
      BY <2>7, <2>11 DEF MoneyInv, MoneyType
    <2>13. Sum(bal') + Sum(staked) + treasury + Sum(Owing(unbonding)) = minted'
      <3>1. /\ Sum(bal) \in Nat /\ Sum(staked) \in Nat /\ treasury \in Nat
            /\ Sum(Owing(unbonding)) \in Nat
            /\ Sum(bal) + Sum(staked) + treasury + Sum(Owing(unbonding)) = minted
        BY MoneySums
      <3>2. minted' = minted + n
        BY <2>1
      <3> QED
        BY ONLY <2>2, <2>9, <2>10, <3>1, <3>2
    <2> QED
      BY <2>12, <2>13 DEF MoneyInv, Books
  <1> QED
    BY <1>1, <1>2

LEMMA FaultBooks ==
  ASSUME MoneyInv, NEW v \in Accounts, Equivocate(v) \/ DoubleVote(v)
  PROVE  MoneyInv'
  <1>1. UNCHANGED <<height, bal, staked, unbonding, treasury, minted>>
    BY DEF Equivocate, DoubleVote, money
  <1>2. \A kind, of : LET f == Fault(kind, v, of)
                      IN  f.id.who \in Accounts /\ f \in [id : {f.id}, at : Nat, owed : Nat]
    <2>1. height + 1 \in Nat /\ staked[v] \in Nat
      BY LedgerConstants DEF MoneyInv, MoneyType, Amount
    <2> QED
      BY <2>1 DEF Fault
  <1>3. \A e \in evidence' : e \in evidence \/ \E kind, of : e = Fault(kind, v, of)
    BY DEF Equivocate, DoubleVote
  <1>4. \A e \in evidence' : e.id.who \in Accounts /\ e \in [id : {e.id}, at : Nat, owed : Nat]
    BY <1>2, <1>3 DEF MoneyInv, MoneyType
  <1> QED
    BY <1>1, <1>4 DEF MoneyInv, MoneyType, Books

LEMMA MoneyStep == ASSUME MoneyInv, [Next]_vars PROVE MoneyInv'
  <1>1. CASE UNCHANGED vars
    BY <1>1 DEF vars, money, MoneyInv, MoneyType, Books
  <1>2. ASSUME NEW a \in Accounts, UpgradeSignal(a) PROVE MoneyInv'
    BY <1>2 DEF UpgradeSignal, InTx, MoneyInv, MoneyType, Books
  <1>3. ASSUME NEW pot \in Pots, NEW S \in SUBSET Accounts, EndBlock(pot, S) PROVE MoneyInv'
    BY <1>3, PayBooks DEF EndBlock
  <1> QED
    BY <1>1, <1>2, <1>3, FaultBooks, BeginBooks, StakeBooks, UnstakeBooks, TransferBooks, SlashBooks
       DEF Next

LEMMA MoneyInvariant == Spec => []MoneyInv
  <1>1. MoneyInv /\ [Next]_vars => MoneyInv'
    BY MoneyStep
  <1> QED
    BY MoneyInit, <1>1, PTL DEF Spec

(* Every unit that exists was minted and never more than the cap, however    *)
(* it is moved, bonded, withdrawn, seized, paid as a bounty or split as a    *)
(* reward (apply_tx, _seize, _mature_unbonding, credit_reward), for every    *)
(* set of accounts, amount and period.                                       *)
THEOREM MoneyConserved == Spec => []Conserved
  BY MoneyInvariant, MoneyIsConserved, PTL

-----------------------------------------------------------------------------
(* The bond behind a fault: what is still staked, with what was withdrawn    *)
(* since, none of which is released before the unbonding period has passed.  *)

Late(t) == {r \in Releases : r >= t + UnbondingPeriod}
Bonded(v, t) == staked[v] + SumOn(unbonding[v], Late(t))

FaultsAreDated ==
  \A e \in evidence : e.at <= height + 1 /\ (inBlock => e.at <= height)

BondIsLate ==
  \A e \in evidence :
    height < e.at + UnbondingPeriod => Bonded(e.id.who, e.at) >= e.owed

RiskInv == MoneyInv /\ FaultsAreDated /\ BondIsLate

LEMMA LateSums ==
  ASSUME MoneyInv, NEW v \in Accounts, NEW t
  PROVE  /\ staked[v] \in Nat /\ unbonding[v] \in [Releases -> Nat]
         /\ Late(t) \subseteq Releases /\ IsFiniteSet(Late(t))
         /\ SumOn(unbonding[v], Late(t)) \in Nat
  <1>1. staked[v] \in Nat /\ unbonding[v] \in [Releases -> Nat]
    BY DEF MoneyInv, MoneyType, Amount
  <1>2. Late(t) \subseteq Releases
    BY DEF Late
  <1>3. IsFiniteSet(Late(t))
    BY <1>2, Sizes, FS_Subset
  <1>4. \A r \in Late(t) : unbonding[v][r] \in Nat
    BY <1>1, <1>2
  <1> QED
    BY <1>1, <1>2, <1>3, <1>4, SumNat

LEMMA BondsAreNat == MoneyInv => \A v \in Accounts, t \in Nat : Bonded(v, t) \in Nat
  BY LateSums DEF Bonded

LEMMA BondsAreNatNext == MoneyInv' => (\A v \in Accounts, t \in Nat : Bonded(v, t) \in Nat)'
  BY BondsAreNat, PTL

\* What is late is at risk.
LEMMA LateIsAtRisk ==
  ASSUME MoneyInv, NEW v \in Accounts, NEW t
  PROVE  AtRisk(v) \in Nat /\ AtRisk(v) >= Bonded(v, t)
  <1> DEFINE full == unbonding[v]
             late == [r \in Releases |-> IF r \in Late(t) THEN full[r] ELSE 0]
             rest == [r \in Releases |-> IF r \in Late(t) THEN 0 ELSE full[r]]
  <1>1. \A r \in Releases : full[r] \in Nat
    BY LateSums
  <1>2. Late(t) \subseteq Releases /\ IsFiniteSet(Late(t))
    BY LateSums
  <1>3. UnbondingOf(v) = SumOn(full, Releases)
    <2>1. DOMAIN full = Releases
      BY LateSums
    <2> QED
      BY <2>1 DEF UnbondingOf, Total, SumOn
  <1> HIDE DEF full
  <1>4. /\ \A r \in Releases : late[r] \in Nat /\ rest[r] \in Nat /\ full[r] = late[r] + rest[r]
        /\ \A r \in Late(t) : late[r] = full[r]
        /\ \A r \in Releases : r \notin Late(t) => late[r] = 0
    BY <1>1, <1>2
  <1> HIDE DEF late, rest
  <1>5. SumOn(full, Releases) = SumOn(late, Releases) + SumOn(rest, Releases)
    BY <1>4, Sizes, SumPlus
  <1>6. SumOn(late, Releases) = SumOn(late, Late(t))
    BY <1>2, <1>4, Sizes, SumWithoutZeros
  <1>7. SumOn(late, Late(t)) = SumOn(full, Late(t))
    BY <1>2, <1>4, SumSame
  <1>8. SumOn(rest, Releases) \in Nat /\ SumOn(late, Releases) \in Nat
    BY <1>4, Sizes, SumNat
  <1>9. staked[v] \in Nat
    BY LateSums
  <1> QED
    BY <1>3, <1>5, <1>6, <1>7, <1>8, <1>9 DEF AtRisk, Bonded, full

LEMMA BondIsAtRisk == RiskInv => BondStaysAtRisk
  <1> SUFFICES ASSUME RiskInv, NEW e \in evidence, height < e.at + UnbondingPeriod
               PROVE  AtRisk(e.id.who) >= e.owed
    BY DEF BondStaysAtRisk
  <1>1. e.id.who \in Accounts /\ e.owed \in Nat
    BY DEF RiskInv, MoneyInv, MoneyType
  <1>2. AtRisk(e.id.who) \in Nat /\ AtRisk(e.id.who) >= Bonded(e.id.who, e.at)
    BY <1>1, LateIsAtRisk DEF RiskInv
  <1>3. Bonded(e.id.who, e.at) \in Nat
    BY <1>1, LateSums DEF RiskInv, Bonded
  <1> QED
    BY <1>1, <1>2, <1>3 DEF RiskInv, BondIsLate

\* Steps after which every bond that is late is still at least what it was.
LEMMA RiskStays ==
  ASSUME RiskInv, MoneyInv', evidence' = evidence, height' >= height,
         \/ height' = height /\ (inBlock' => inBlock)
         \/ height' = height + 1,
         \A e \in evidence :
           height' < e.at + UnbondingPeriod =>
             Bonded(e.id.who, e.at)' >= Bonded(e.id.who, e.at)
  PROVE  RiskInv'
  <1>1. height \in Nat /\ height' \in Nat
    BY LedgerConstants DEF RiskInv, MoneyInv, MoneyType
  <1>2. \A e \in evidence : e.at \in Nat /\ e.owed \in Nat /\ e.id.who \in Accounts
    BY DEF RiskInv, MoneyInv, MoneyType
  <1>3. FaultsAreDated'
    BY <1>1, <1>2 DEF RiskInv, FaultsAreDated
  <1>4. BondIsLate'
    <2> SUFFICES ASSUME NEW e \in evidence, height' < e.at + UnbondingPeriod
                 PROVE  Bonded(e.id.who, e.at)' >= e.owed
      BY DEF BondIsLate
    <2>1. Bonded(e.id.who, e.at) >= e.owed
      BY <1>1, <1>2, LedgerConstants DEF RiskInv, BondIsLate
    <2>2. Bonded(e.id.who, e.at) \in Nat
      BY <1>2, LateSums DEF RiskInv, Bonded
    <2>3. Bonded(e.id.who, e.at)' \in Nat
      BY <1>2, BondsAreNatNext
    <2> QED
      BY <1>2, <2>1, <2>2, <2>3
  <1> QED
    BY <1>3, <1>4 DEF RiskInv

LEMMA UnstakeRisk ==
  ASSUME RiskInv, NEW a \in Accounts, NEW n \in Amounts, Unstake(a, n)
  PROVE  RiskInv'
  <1> DEFINE w == Credit(unbonding[a], Release, n)
  <1>1. /\ staked' = Debit(staked, a, n) /\ staked[a] >= n
        /\ unbonding' = Put(unbonding, a, w)
        /\ UNCHANGED <<height, inBlock, evidence>> /\ inBlock
    BY DEF Unstake, InTx, Put, Credit, Debit, RiskInv, MoneyInv, MoneyType
  <1>2. /\ n \in Nat /\ staked \in Amount /\ height \in Nat
        /\ unbonding \in [Accounts -> [Releases -> Nat]]
        /\ unbonding[a] \in [Releases -> Nat]
    BY LedgerConstants DEF RiskInv, MoneyInv, MoneyType
  <1>3. Release \in Releases
    BY LedgerConstants DEF Release, Releases, RiskInv, MoneyInv, MoneyType
  <1>4. MoneyInv'
    BY UnstakeBooks DEF RiskInv
  <1>5. ASSUME NEW e \in evidence
        PROVE  Bonded(e.id.who, e.at)' >= Bonded(e.id.who, e.at)
    <2> DEFINE v == e.id.who
               L == Late(e.at)
    <2>1. v \in Accounts /\ e.at \in Nat /\ e.at <= height
      BY <1>1 DEF RiskInv, MoneyInv, MoneyType, FaultsAreDated
    <2>2. Release \in L
      BY <1>2, <1>3, <2>1, LedgerConstants DEF Release, Late
    <2>3. /\ L \subseteq Releases /\ IsFiniteSet(L) /\ staked[v] \in Nat
          /\ SumOn(unbonding[v], L) \in Nat
      BY <2>1, LateSums DEF RiskInv
    <2> HIDE DEF L
    <2>4. CASE v = a
      <3> DEFINE f == [r \in L |-> unbonding[a][r]]
                 g == Credit(f, Release, n)
      <3>1. f \in [L -> Nat]
        BY <1>2, <2>3
      <3>2. SumOn(g, L) = SumOn(f, L) + n
        <4>1. n \in Nat /\ IsFiniteSet(L)
          BY <1>2, <2>3
        <4> HIDE DEF f
        <4> QED
          BY ONLY <2>2, <3>1, <4>1, SumCredit
      <3>3. /\ \A r \in L : f[r] = unbonding[a][r]
            /\ \A r \in L : g[r] = w[r]
        BY <1>2, <2>2, <2>3 DEF Credit
      <3> HIDE DEF f, g, w
      <3>4. SumOn(f, L) = SumOn(unbonding[a], L) /\ SumOn(g, L) = SumOn(w, L)
        <4>1. \A d, c : (\A r \in L : d[r] = c[r]) => SumOn(d, L) = SumOn(c, L)
          BY <2>3, SumSame
        <4> QED
          BY <3>3, <4>1
      <3>5. unbonding'[v] = w /\ staked'[v] = staked[v] - n
        BY <1>1, <1>2, <2>4 DEF Put, Debit, Amount
      <3>6. Bonded(v, e.at)' = (staked[v] - n) + (SumOn(unbonding[v], L) + n)
        BY <2>4, <3>2, <3>4, <3>5 DEF Bonded, L
      <3>7. Bonded(v, e.at) = staked[v] + SumOn(unbonding[v], L)
        BY DEF Bonded, L
      <3>8. n \in Nat
        BY <1>2
      <3> QED
        BY ONLY <2>3, <3>6, <3>7, <3>8
    <2>5. CASE v # a
      <3>1. unbonding'[v] = unbonding[v] /\ staked'[v] = staked[v]
        BY <1>1, <1>2, <2>1, <2>5 DEF Put, Debit, Amount
      <3> QED
        BY <2>1, <2>3, <3>1 DEF Bonded, L
    <2> QED
      BY <2>4, <2>5
  <1> QED
    BY <1>1, <1>2, <1>4, <1>5, RiskStays

LEMMA BeginRisk == ASSUME RiskInv, BeginBlock PROVE RiskInv'
  <1>1. /\ height' = height + 1 /\ UNCHANGED <<staked, evidence>>
        /\ unbonding' = [a \in Accounts |-> [r \in Releases |->
                           IF r \in Matured(height + 1) THEN 0 ELSE unbonding[a][r]]]
    BY DEF BeginBlock
  <1>2. MoneyInv' /\ height \in Nat
    BY BeginBooks, LedgerConstants DEF RiskInv, MoneyInv, MoneyType
  <1>3. ASSUME NEW e \in evidence, height' < e.at + UnbondingPeriod
        PROVE  Bonded(e.id.who, e.at)' >= Bonded(e.id.who, e.at)
    <2> DEFINE v == e.id.who
               L == Late(e.at)
    <2>1. v \in Accounts /\ e.at \in Nat
      BY DEF RiskInv, MoneyInv, MoneyType
    <2>2. L \subseteq Releases /\ IsFiniteSet(L) /\ Bonded(v, e.at) \in Nat
      BY <2>1, LateSums, BondsAreNat DEF RiskInv
    <2>3. \A r \in L : unbonding'[v][r] = unbonding[v][r]
      <3>1. \A r \in L : r \in Releases /\ r \in Nat /\ ~(r <= height + 1)
        BY <1>1, <1>2, <1>3, <2>1, Sizes, LedgerConstants DEF Late
      <3> QED
        BY <1>1, <2>1, <3>1 DEF Matured
    <2>4. SumOn(unbonding'[v], L) = SumOn(unbonding[v], L)
      <3>1. \A d, c : (\A r \in L : d[r] = c[r]) => SumOn(d, L) = SumOn(c, L)
        BY <2>2, SumSame
      <3> HIDE DEF L
      <3> QED
        BY <2>3, <3>1
    <2>5. Bonded(v, e.at)' = Bonded(v, e.at)
      BY <1>1, <2>4 DEF Bonded
    <2> QED
      BY <2>2, <2>5
  <1> QED
    BY <1>1, <1>2, <1>3, RiskStays

LEMMA StakeRisk ==
  ASSUME RiskInv, NEW a \in Accounts, NEW n \in Amounts, Stake(a, n)
  PROVE  RiskInv'
  <1>1. /\ staked' = [staked EXCEPT ![a] = @ + n]
        /\ UNCHANGED <<height, inBlock, unbonding, evidence>>
    BY DEF Stake, InTx
  <1>2. MoneyInv' /\ height \in Nat /\ n \in Nat /\ staked \in Amount
    BY StakeBooks, LedgerConstants DEF RiskInv, MoneyInv, MoneyType
  <1>3. ASSUME NEW e \in evidence
        PROVE  Bonded(e.id.who, e.at)' >= Bonded(e.id.who, e.at)
    <2>1. e.id.who \in Accounts /\ e.at \in Nat
      BY DEF RiskInv, MoneyInv, MoneyType
    <2>2. /\ SumOn(unbonding[e.id.who], Late(e.at)) \in Nat
          /\ staked[e.id.who] \in Nat /\ staked'[e.id.who] \in Nat
          /\ staked'[e.id.who] >= staked[e.id.who]
      BY <1>1, <1>2, <2>1, LateSums DEF RiskInv, Amount
    <2>3. Bonded(e.id.who, e.at)' = staked'[e.id.who] + SumOn(unbonding[e.id.who], Late(e.at))
      BY <1>1 DEF Bonded
    <2> QED
      BY <2>2, <2>3 DEF Bonded
  <1> QED
    BY <1>1, <1>2, <1>3, RiskStays

LEMMA FaultRisk ==
  ASSUME RiskInv, NEW v \in Accounts, Equivocate(v) \/ DoubleVote(v)
  PROVE  RiskInv'
  <1>1. /\ UNCHANGED <<height, inBlock, staked, unbonding>> /\ ~inBlock
        /\ \A e \in evidence' :
             e \in evidence \/ \E kind, of : e = Fault(kind, v, of)
    BY DEF Equivocate, DoubleVote, money
  <1>2. MoneyInv' /\ height \in Nat
    BY FaultBooks, LedgerConstants DEF RiskInv, MoneyInv, MoneyType
  <1>3. FaultsAreDated'
    BY <1>1, <1>2 DEF RiskInv, FaultsAreDated, Fault
  <1>4. \A d, t : Bonded(d, t)' = Bonded(d, t)
    BY <1>1 DEF Bonded
  <1>5. ASSUME NEW e \in evidence', height < e.at + UnbondingPeriod
        PROVE  Bonded(e.id.who, e.at) >= e.owed
    <2>1. CASE e \in evidence
      BY <1>5, <2>1 DEF RiskInv, BondIsLate
    <2>2. CASE \E kind, of : e = Fault(kind, v, of)
      <3>1. e.id.who = v /\ e.owed = staked[v]
        BY <2>2 DEF Fault
      <3>2. staked[v] \in Nat /\ SumOn(unbonding[v], Late(e.at)) \in Nat
        BY LateSums DEF RiskInv
      <3> QED
        BY <3>1, <3>2 DEF Bonded
    <2> QED
      BY <1>1, <2>1, <2>2
  <1>6. BondIsLate'
    BY <1>1, <1>4, <1>5 DEF BondIsLate
  <1> QED
    BY <1>2, <1>3, <1>6 DEF RiskInv

LEMMA SlashRisk ==
  ASSUME RiskInv, NEW s \in evidence, NEW reporter \in Accounts, NEW authenticated \in BOOLEAN,
         Slash(s, reporter, authenticated)
  PROVE  RiskInv'
  <1> DEFINE v == s.id.who
             spared(x) == IF x.id.who = v THEN [x EXCEPT !.owed = 0] ELSE x
  <1>1. /\ UNCHANGED <<height, inBlock>>
        /\ staked' = [staked EXCEPT ![v] = 0]
        /\ unbonding' = [unbonding EXCEPT ![v] = [r \in Releases |-> 0]]
        /\ evidence' = {spared(x) : x \in evidence}
    BY DEF Slash, InTx
  <1>2. MoneyInv' /\ height \in Nat
    BY SlashBooks, LedgerConstants DEF RiskInv, MoneyInv, MoneyType
  <1>3. ASSUME NEW x \in evidence
        PROVE  /\ x \in [id : {x.id}, at : Nat, owed : Nat] /\ x.id.who \in Accounts
               /\ spared(x).id = x.id /\ spared(x).at = x.at
               /\ spared(x).owed = IF x.id.who = v THEN 0 ELSE x.owed
    <2>1. x \in [id : {x.id}, at : Nat, owed : Nat] /\ x.id.who \in Accounts
      BY DEF RiskInv, MoneyInv, MoneyType
    <2> QED
      BY <2>1
  <1> HIDE DEF spared
  <1>4. FaultsAreDated'
    BY <1>1, <1>3 DEF RiskInv, FaultsAreDated
  <1>5. ASSUME NEW x \in evidence, height < x.at + UnbondingPeriod
        PROVE  Bonded(spared(x).id.who, spared(x).at)' >= spared(x).owed
    <2>1. Bonded(x.id.who, x.at)' \in Nat
      BY <1>2, <1>3, BondsAreNatNext
    <2>2. CASE x.id.who = v
      BY <1>3, <2>1, <2>2
    <2>3. CASE x.id.who # v
      <3>1. unbonding'[x.id.who] = unbonding[x.id.who] /\ staked'[x.id.who] = staked[x.id.who]
        BY <1>1, <1>3, <2>3 DEF RiskInv, MoneyInv, MoneyType, Amount
      <3>2. Bonded(x.id.who, x.at)' = Bonded(x.id.who, x.at)
        BY <3>1 DEF Bonded
      <3>3. Bonded(x.id.who, x.at) >= x.owed
        BY <1>5 DEF RiskInv, BondIsLate
      <3> QED
        BY <1>3, <2>3, <3>2, <3>3
    <2> QED
      BY <2>2, <2>3
  <1>6. BondIsLate'
    BY <1>1, <1>3, <1>5 DEF BondIsLate
  <1> QED
    BY <1>2, <1>4, <1>6 DEF RiskInv

LEMMA RiskStep == ASSUME RiskInv, [Next]_vars PROVE RiskInv'
  <1>1. MoneyInv'
    BY MoneyStep DEF RiskInv
  <1>2. ASSUME UNCHANGED <<height, staked, unbonding, evidence>>, inBlock' => inBlock
        PROVE  RiskInv'
    BY <1>1, <1>2 DEF RiskInv, FaultsAreDated, BondIsLate, Bonded
  <1>3. CASE UNCHANGED vars
    BY <1>2, <1>3 DEF vars, money
  <1>4. ASSUME NEW a \in Accounts, NEW b \in Accounts, NEW n \in Amounts, Transfer(a, b, n)
        PROVE  RiskInv'
    BY <1>2, <1>4 DEF Transfer, InTx
  <1>5. ASSUME NEW a \in Accounts, UpgradeSignal(a) PROVE RiskInv'
    BY <1>2, <1>5 DEF UpgradeSignal, InTx
  <1>6. ASSUME NEW pot \in Pots, NEW S \in SUBSET Accounts, EndBlock(pot, S) PROVE RiskInv'
    BY <1>2, <1>6 DEF EndBlock
  <1> QED
    BY <1>3, <1>4, <1>5, <1>6, FaultRisk, BeginRisk, StakeRisk, UnstakeRisk, SlashRisk DEF Next

(* The bond a validator had when it committed a fault is there to be seized  *)
(* through the last block of the unbonding period, whatever it stakes,       *)
(* unstakes or earns in between and in whatever order blocks carry it        *)
(* (apply_tx's unstake, _mature_unbonding, _seize).                          *)
THEOREM BondAtRisk == Spec => []BondStaysAtRisk
  <1>1. Init => RiskInv
    BY MoneyInit DEF Init, RiskInv, FaultsAreDated, BondIsLate
  <1>2. RiskInv /\ [Next]_vars => RiskInv'
    BY RiskStep
  <1> QED
    BY <1>1, <1>2, BondIsAtRisk, PTL DEF Spec
=============================================================================
