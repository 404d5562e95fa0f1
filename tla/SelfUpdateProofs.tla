-------------------------- MODULE SelfUpdateProofs --------------------------
(***************************************************************************)
(* Proofs about SelfUpdate for every repository, signing history, set of   *)
(* mirrors, edit of the operator and crash: what is checked out and run is *)
(* a signed commit and nothing of it is missing; no process runs an older  *)
(* version than the one before it; the publish gate is the newest saved    *)
(* one and is applied; and no file of the operator's is replaced or        *)
(* removed.                                                                *)
(***************************************************************************)
EXTENDS SelfUpdate, FiniteSetTheorems, WellFoundedInduction, TLAPS

-----------------------------------------------------------------------------
(* The inductive invariant.  Five parts, each of them about what is between *)
(* two steps of an update.                                                  *)

\* Where a process holds a manifest it works on.
Holding == {"fetch", "checkout", "verify", "plan", "unlink", "pip", "exec", "save"}

Envs == {Unset} \cup {o.config : o \in Offers}

\* The processes whose manifest is one of ms, or none.
Procs(ms) ==
  [prog : {"none", "updater", "contributor", "launcher"},
   at : Holding \cup {"down", "boot", "mine"}, code : Commits, m : ms \cup {NoManifest},
   todo : SUBSET Paths, dropped : SUBSET Paths, env : Envs,
   synced : BOOLEAN, blocked : BOOLEAN]

Shapes ==
  /\ disk = [p \in Paths |-> disk[p]]
  /\ {head, before} \subseteq Commits /\ edits \in Nat
  /\ state \in [floor : Nat, min : Nat, ledger : {state.ledger}]
  /\ proc \in Procs(signed)

\* A signed manifest names its commit's version and lists its tree, or nothing.
Releases ==
  /\ IsFiniteSet(signed)
  /\ \A m \in signed :
       /\ m.commit \in Commits /\ m.version = VersionAt[m.commit]
       /\ m.ts \in Nat /\ m.min \in Nat /\ m.config \in Envs /\ m.genuine
       /\ m.files \in {NoFiles, TreeAt[m.commit]}

SignedCommits == {Base} \cup {m.commit : m \in signed}

\* A process holds a signed manifest; it is ahead of HEAD until the checkout,
\* and HEAD from its verification on.  HEAD is never behind the running code.
Holds ==
  /\ {head, before, proc.code} \subseteq SignedCommits
  /\ proc.at \in Holding => proc.m \in signed
  /\ proc.at \in {"fetch", "checkout"} => VersionAt[proc.m.commit] > VersionAt[head]
  /\ proc.at = "verify" => VersionAt[before] >= VersionAt[proc.code]
  /\ proc.at \in {"plan", "unlink"} => head = proc.m.commit
  /\ proc.at # "down" => proc.prog # "none" /\ VersionAt[head] >= VersionAt[proc.code]

\* What the ledger says was shipped was; what is about to go is none of the tree's.
Ledger ==
  /\ \A p \in DOMAIN state.ledger :
       \E m \in signed : p \in DOMAIN m.files /\ m.files[p] = state.ledger[p]
  /\ proc.at = "unlink" =>
       \A p \in proc.todo : p \in DOMAIN state.ledger /\ p \notin NeverTouch \cup DOMAIN TreeAt[head]

\* A launcher that has not synced yet holds nothing older than its floor, and
\* one that has applies the gate that is saved.
Gate ==
  /\ GateOfFloor
  /\ proc.prog = "launcher" /\ proc.at = "mine" => proc.synced
  /\ proc.at = "save" => ~proc.synced /\ proc.prog = "launcher"
  /\ proc.prog = "launcher" /\ ~proc.synced /\ proc.at \in Holding => proc.m.ts >= state.floor
  /\ proc.synced => (VersionAt[proc.code] < state.min => proc.blocked)

UpdateInv == Shapes /\ Releases /\ Holds /\ Ledger /\ TreeWhole /\ Gate

-----------------------------------------------------------------------------
(* What the mirrors can answer.                                            *)

\* Every set of naturals that has an element has a least one.
LEMMA LeastNatural ==
  ASSUME NEW S, S \subseteq Nat, S # {}
  PROVE  \E x \in S : \A y \in S : x <= y
  <1> DEFINE R == {p \in Nat \X Nat : p[1] < p[2]}
  <1>1. IsWellFoundedOn(R, Nat)
    BY NatLessThanWellFounded DEF OpToRel
  <1>2. PICK x \in S : \A y \in S : ~(<<y, x>> \in R)
    BY <1>1, WFMin
  <1>3. \A y \in S : ~(y < x)
    BY <1>2
  <1> QED
    BY <1>3

\* Among finitely many indices there is one of the highest value.
LEMMA HighestValue ==
  ASSUME NEW n \in Nat, NEW S, S \subseteq 1..n, S # {}, NEW f, \A i \in S : f[i] \in Nat
  PROVE  \E i \in S : \A j \in S : f[j] <= f[i]
  <1> DEFINE Low(k) == S \cap 1..k
             Top(k) == \E i \in Low(k) : \A j \in Low(k) : f[j] <= f[i]
             Bad == {k \in Nat : Low(k) # {} /\ ~Top(k)}
  <1>1. SUFFICES Bad = {}
    <2>1. Low(n) = S
      OBVIOUS
    <2>2. Top(n)
      BY <1>1, <2>1
    <2> QED
      BY <2>1, <2>2
  <1>2. SUFFICES ASSUME Bad # {} PROVE FALSE
    OBVIOUS
  <1>3. PICK k \in Bad : \A l \in Bad : k <= l
    BY <1>2, LeastNatural
  <1>4. k # 0
    BY <1>3
  <1>5. k - 1 \in Nat /\ k - 1 \notin Bad
    BY <1>3, <1>4
  <1>6. Low(k) \subseteq Low(k - 1) \cup {k}
    BY <1>5
  <1>7. k \in S
    <2>1. k \notin S => Low(k) = Low(k - 1)
      BY <1>5, <1>6
    <2> QED
      BY <1>3, <1>5, <2>1
  <1>8. Low(k - 1) # {}
    <2>1. Low(k - 1) = {} => Top(k)
      BY <1>3, <1>6, <1>7
    <2> QED
      BY <1>3, <2>1
  <1>9. PICK i \in Low(k - 1) : \A j \in Low(k - 1) : f[j] <= f[i]
    BY <1>5, <1>8
  <1>10. i \in Low(k) /\ k \in Low(k) /\ f[i] \in Nat /\ f[k] \in Nat
    BY <1>5, <1>7, <1>9
  <1>11. CASE f[k] <= f[i]
    <2>1. \A j \in Low(k) : f[j] <= f[i]
      BY <1>6, <1>9, <1>11
    <2> QED
      BY <1>3, <1>10, <2>1
  <1>12. CASE f[i] <= f[k]
    <2>1. \A j \in Low(k) : f[j] \in Nat
      OBVIOUS
    <2>2. \A j \in Low(k) : f[j] <= f[k]
      BY <1>6, <1>9, <1>10, <1>12, <2>1
    <2> QED
      BY <1>3, <1>10, <2>2
  <1> QED
    BY <1>10, <1>11, <1>12

\* What the mirrors' answers come to is a signed manifest at or over the floor, or none.
LEMMA BestIsSigned ==
  ASSUME Releases, NEW ans \in Answers, NEW floor
  PROVE  \/ Best(ans, floor) = NoManifest
         \/ Best(ans, floor) \in signed /\ OverFloor(Best(ans, floor), floor)
  <1> DEFINE ok == {i \in 1..NMirrors : Verified(ans[i]) /\ OverFloor(ans[i], floor)}
             top == {i \in ok : \A j \in ok : ans[j].version <= ans[i].version}
  <1>1. SUFFICES ASSUME ok # {} PROVE Best(ans, floor) \in signed /\ OverFloor(Best(ans, floor), floor)
    BY DEF Best
  <1>2. NMirrors \in Nat /\ \A c \in Commits : VersionAt[c] \in Nat
    BY UpdateAssumption
  <1>3. \A i \in ok : ans[i] \in signed
    BY DEF Answers, Verified, Forgery
  <1>4. \A i \in ok : ans[i].version \in Nat
    BY <1>2, <1>3 DEF Releases
  <1>5. top # {}
    <2> DEFINE f == [i \in ok |-> ans[i].version]
    <2>1. \A i \in ok : f[i] \in Nat
      BY <1>4
    <2>2. ok \subseteq 1..NMirrors
      OBVIOUS
    <2> HIDE DEF ok
    <2>3. \E i \in ok : \A j \in ok : f[j] <= f[i]
      BY <1>1, <1>2, <2>1, <2>2, HighestValue
    <2> QED
      BY <2>3
  <1>6. top \subseteq Nat
    BY <1>2
  <1>7. \E i \in top : \A j \in top : i <= j
    BY <1>5, <1>6, LeastNatural
  <1> DEFINE first == CHOOSE i \in top : \A j \in top : i <= j
  <1>8. first \in top
    BY <1>7
  <1>9. Best(ans, floor) = ans[first]
    BY <1>1 DEF Best
  <1> QED
    BY <1>3, <1>8, <1>9

-----------------------------------------------------------------------------
(* What a check that re-executes nothing leaves.                            *)

\* A fresh process holds nothing.
LEMMA FreshShape ==
  ASSUME NEW ms, NEW prog \in {"updater", "contributor", "launcher"}, NEW env \in Envs,
         NEW c \in Commits
  PROVE  LET r == Fresh(prog, env, c) IN
         /\ r \in Procs(ms) /\ r.prog = prog /\ r.at = "boot" /\ r.code = c
         /\ ~r.synced /\ r.todo = {}
  BY UpdateAssumption DEF Fresh, OffProc, Procs, Holding

\* The three ways on: the contributor after its updater, the save of a sync, the mine.
LEMMA AfterCheckShape ==
  ASSUME NEW ms, NEW p \in Procs(ms), NEW c \in Commits
  PROVE  LET r == AfterCheck(p, c) IN
         /\ r \in Procs(ms)
         /\ \/ /\ r.at = "boot" /\ r.prog = "contributor" /\ r.code = c /\ ~r.synced
            \/ /\ p.prog = "launcher" /\ ~p.synced
               /\ r.at = "save" /\ r.prog = "launcher" /\ ~r.synced /\ r.code = p.code
               /\ r.m = p.m /\ r.blocked = p.blocked
            \/ /\ p.prog = "launcher" => p.synced
               /\ r.at = "mine" /\ r.prog = p.prog /\ r.synced = p.synced /\ r.code = p.code
               /\ r.blocked = p.blocked
  <1> DEFINE r == AfterCheck(p, c)
  <1>1. CASE p.prog = "updater"
    <2>1. r = Fresh("contributor", Unset, c)
      BY <1>1 DEF AfterCheck
    <2> QED
      BY <2>1, FreshShape DEF Envs
  <1>2. CASE p.prog = "launcher" /\ ~p.synced
    <2>1. r = [p EXCEPT !.at = "save"]
      BY <1>2 DEF AfterCheck
    <2> QED
      BY <1>2, <2>1 DEF Procs, Holding
  <1>3. CASE p.prog # "updater" /\ (p.prog = "launcher" => p.synced)
    <2>1. r = [p EXCEPT !.at = "mine", !.m = NoManifest]
      BY <1>3 DEF AfterCheck
    <2> QED
      BY <1>3, <2>1 DEF Procs, Holding
  <1> QED
    BY <1>1, <1>2, <1>3

\* Such a check, with HEAD where it is or put back, keeps what is between the steps.
LEMMA Returned ==
  ASSUME UpdateInv, proc.at # "down", NEW p \in Procs(signed), proc' = AfterCheck(p, head'),
         p.prog = proc.prog, p.code = proc.code, p.synced = proc.synced,
         p.blocked = proc.blocked,
         p.prog = "launcher" /\ ~p.synced => p.m \in signed /\ p.m.ts >= state.floor,
         head' \in {head, before}, VersionAt[head'] >= VersionAt[proc.code],
         before' \in {head, before}, UNCHANGED <<signed, state>>
  PROVE  proc' \in Procs(signed)' /\ Holds' /\ Ledger' /\ Gate'
  <1>1. head' \in Commits
    BY DEF UpdateInv, Shapes
  <1>2. /\ proc' \in Procs(signed)
        /\ \/ /\ proc'.at = "boot" /\ proc'.prog = "contributor" /\ proc'.code = head' /\ ~proc'.synced
           \/ /\ proc.prog = "launcher" /\ ~proc.synced
              /\ proc'.at = "save" /\ proc'.prog = "launcher" /\ ~proc'.synced
              /\ proc'.code = proc.code /\ proc'.m = p.m /\ proc'.blocked = proc.blocked
           \/ /\ proc.prog = "launcher" => proc.synced
              /\ proc'.at = "mine" /\ proc'.prog = proc.prog /\ proc'.synced = proc.synced
              /\ proc'.code = proc.code /\ proc'.blocked = proc.blocked
    BY <1>1, AfterCheckShape
  <1>3. proc' \in Procs(signed)'
    BY <1>2 DEF Procs
  <1>4. VersionAt[head'] \in Nat /\ {head', before'} \subseteq SignedCommits
    BY <1>1, UpdateAssumption DEF UpdateInv, Holds
  <1>5. Holds'
    BY <1>2, <1>4 DEF UpdateInv, Holds, Holding, SignedCommits
  <1>6. Ledger'
    BY <1>2 DEF UpdateInv, Ledger
  <1>7. Gate'
    BY <1>2 DEF UpdateInv, Gate, GateOfFloor, Holding
  <1> QED
    BY <1>3, <1>5, <1>6, <1>7

-----------------------------------------------------------------------------
(* Each step keeps the invariant.                                           *)

\* Signing only adds a release, of the version its commit carries.
LEMMA SignKeeps ==
  ASSUME UpdateInv, NEW o \in Offers, NEW v \in Claims, Sign(o, v)
  PROVE  UpdateInv'
  <1> DEFINE new == [commit |-> o.commit, version |-> v, ts |-> Cardinality(signed) + 1,
                     min |-> o.min, config |-> o.config, genuine |-> TRUE, files |-> Listed(o)]
  <1>1. signed' = signed \cup {new} /\ v = VersionAt[o.commit]
    BY DEF Sign, VersionMatches
  <1>2. UNCHANGED <<disk, head, before, state, proc, lost, edits>>
    BY DEF Sign, repo, history, bounds
  <1>3. o.commit \in Commits /\ o.min \in Nat /\ o.config \in Envs
    BY UpdateAssumption DEF Envs
  <1>4. IsFiniteSet(signed) /\ Cardinality(signed) \in Nat /\ IsFiniteSet(signed')
    <2>1. IsFiniteSet(signed)
      BY DEF UpdateInv, Releases
    <2>2. IsFiniteSet(signed \cup {new})
      BY <2>1, FS_AddElement
    <2> QED
      BY <1>1, <2>1, <2>2, FS_CardinalityType
  <1>5. Listed(o) \in {NoFiles, TreeAt[o.commit]}
    BY DEF Listed
  <1>6. Releases'
    BY <1>1, <1>3, <1>4, <1>5 DEF UpdateInv, Releases
  <1>7. Shapes'
    BY <1>1, <1>2 DEF UpdateInv, Shapes, Procs
  <1>8. Holds'
    BY <1>1, <1>2 DEF UpdateInv, Holds, SignedCommits
  <1>9. Ledger'
    BY <1>1, <1>2 DEF UpdateInv, Ledger
  <1>10. TreeWhole' /\ Gate'
    BY <1>1, <1>2 DEF UpdateInv, TreeWhole, Gate, GateOfFloor
  <1> QED
    BY <1>6, <1>7, <1>8, <1>9, <1>10 DEF UpdateInv

LEMMA StartKeeps ==
  ASSUME UpdateInv, NEW prog \in {"updater", "launcher"}, Start(prog)
  PROVE  UpdateInv'
  <1>1. head \in Commits /\ head \in SignedCommits /\ VersionAt[head] \in Nat
    BY UpdateAssumption DEF UpdateInv, Shapes, Holds
  <1>2. /\ proc' \in Procs(signed) /\ proc'.prog = prog /\ proc'.at = "boot"
        /\ proc'.code = head /\ ~proc'.synced
    BY <1>1, FreshShape DEF Start, Envs
  <1>3. UNCHANGED <<signed, disk, head, before, state, lost, edits>>
    BY DEF Start, repo, history, bounds
  <1>4. Shapes' /\ Releases' /\ TreeWhole'
    BY <1>2, <1>3 DEF UpdateInv, Shapes, Releases, TreeWhole, Procs
  <1>5. Holds'
    BY <1>1, <1>2, <1>3 DEF UpdateInv, Holds, SignedCommits, Holding
  <1>6. Ledger' /\ Gate'
    BY <1>2, <1>3 DEF UpdateInv, Ledger, Gate, GateOfFloor, Holding
  <1> QED
    BY <1>4, <1>5, <1>6 DEF UpdateInv

\* A check, at a start or between two rounds: it is over, or a newer release is fetched.
LEMMA CheckKeeps ==
  ASSUME UpdateInv, NEW m, m = NoManifest \/ m \in signed, CheckWith(m), proc.at # "down",
         proc.prog = "launcher" /\ ~proc.synced =>
           m # NoManifest /\ m \in signed /\ m.ts >= state.floor
  PROVE  UpdateInv'
  <1>1. UNCHANGED <<signed, disk, head, before, state, lost, edits>>
    BY DEF CheckWith, repo, bounds
  <1>2. Releases' /\ TreeWhole'
    BY <1>1 DEF UpdateInv, Releases, TreeWhole
  <1>3. head \in Commits /\ proc \in Procs(signed) /\ VersionAt[head] \in Nat
    BY UpdateAssumption DEF UpdateInv, Shapes
  <1>4. CASE m # NoManifest /\ IsForward(m)
    <2>1. m \in signed /\ VersionAt[m.commit] > VersionAt[head]
      BY <1>4 DEF UpdateInv, Releases, IsForward
    <2>2. proc' = [proc EXCEPT !.m = m, !.at = "fetch"]
      BY <1>4 DEF CheckWith
    <2>3. /\ proc' \in Procs(signed) /\ proc'.at = "fetch" /\ proc'.m = m
          /\ proc'.prog = proc.prog /\ proc'.code = proc.code
          /\ proc'.synced = proc.synced /\ proc'.blocked = proc.blocked
      BY <1>3, <2>1, <2>2 DEF Procs, Holding
    <2>4. Shapes'
      BY <1>1, <2>3 DEF UpdateInv, Shapes, Procs
    <2>5. Holds'
      BY <1>1, <2>1, <2>3 DEF UpdateInv, Holds, SignedCommits, Holding
    <2>6. Ledger'
      BY <1>1, <2>3 DEF UpdateInv, Ledger
    <2>7. Gate'
      BY <1>1, <2>1, <2>3 DEF UpdateInv, Gate, GateOfFloor, Holding
    <2> QED
      BY <1>2, <2>4, <2>5, <2>6, <2>7 DEF UpdateInv
  <1>5. CASE ~(m # NoManifest /\ IsForward(m))
    <2> DEFINE p == IF m = NoManifest THEN proc ELSE [proc EXCEPT !.m = m]
    <2>1. proc' = AfterCheck(p, head')
      BY <1>1, <1>5 DEF CheckWith, GiveUp
    <2>2. /\ p \in Procs(signed) /\ p.prog = proc.prog /\ p.code = proc.code
          /\ p.synced = proc.synced /\ p.blocked = proc.blocked
          /\ m # NoManifest => p.m = m
      BY <1>3 DEF Procs
    <2>3. proc.prog = "launcher" /\ ~proc.synced => p.m \in signed /\ p.m.ts >= state.floor
      BY <2>2
    <2>4. VersionAt[head'] >= VersionAt[proc.code]
      BY <1>1 DEF UpdateInv, Holds
    <2> HIDE DEF p
    <2>5. proc' \in Procs(signed)' /\ Holds' /\ Ledger' /\ Gate'
      BY <1>1, <2>1, <2>2, <2>3, <2>4, Returned
    <2> QED
      BY <1>1, <1>2, <2>5 DEF UpdateInv, Shapes
  <1> QED
    BY <1>4, <1>5

LEMMA ChecksKeep ==
  ASSUME UpdateInv, NEW ans \in Answers, BootCheck(ans) \/ BootSync(ans) \/ InRunCheck(ans)
  PROVE  UpdateInv'
  <1>1. CASE BootCheck(ans) \/ InRunCheck(ans)
    <2>1. Best(ans, 0) = NoManifest \/ Best(ans, 0) \in signed
      BY BestIsSigned DEF UpdateInv
    <2>2. CheckWith(Best(ans, 0)) /\ proc.at # "down"
      BY <1>1 DEF BootCheck, InRunCheck
    <2>3. proc.prog = "launcher" => proc.synced
      BY <1>1 DEF BootCheck, InRunCheck, UpdateInv, Gate
    <2> QED
      BY <2>1, <2>2, <2>3, CheckKeeps
  <1>2. CASE BootSync(ans)
    <2> DEFINE m == Best(ans, state.floor)
    <2>1. m = NoManifest \/ (m \in signed /\ OverFloor(m, state.floor))
      BY BestIsSigned DEF UpdateInv
    <2>2. CASE m # NoManifest
      <3>1. CheckWith(m) /\ proc.at # "down"
        BY <1>2, <2>2 DEF BootSync
      <3>2. m \in signed /\ m.ts >= state.floor
        BY <2>1, <2>2 DEF OverFloor
      <3> HIDE DEF m
      <3> QED
        BY <2>2, <3>1, <3>2, CheckKeeps
    <2>3. CASE m = NoManifest
      <3>1. /\ proc' = [proc EXCEPT !.at = "mine", !.synced = TRUE,
                                    !.blocked = PublishBlock(state.min, proc.code)]
            /\ UNCHANGED <<signed, disk, head, before, state, lost, edits>>
            /\ proc.at = "boot"
        BY <1>2, <2>3 DEF BootSync, repo, history, bounds
      <3>2. proc \in Procs(signed) /\ PublishBlock(state.min, proc.code) \in BOOLEAN
        BY DEF UpdateInv, Shapes, PublishBlock
      <3>3. /\ proc' \in Procs(signed) /\ proc'.at = "mine" /\ proc'.prog = proc.prog
            /\ proc'.synced /\ proc'.code = proc.code
            /\ proc'.blocked = PublishBlock(state.min, proc.code)
        BY <3>1, <3>2 DEF Procs
      <3>4. Shapes' /\ Releases' /\ TreeWhole'
        BY <3>1, <3>3 DEF UpdateInv, Shapes, Releases, TreeWhole, Procs
      <3>5. Holds' /\ Ledger'
        BY <3>1, <3>3 DEF UpdateInv, Holds, Ledger, SignedCommits, Holding
      <3>6. Gate'
        BY <3>1, <3>3 DEF UpdateInv, Gate, GateOfFloor, Holding, PublishBlock
      <3> QED
        BY <3>4, <3>5, <3>6 DEF UpdateInv
    <2> QED
      BY <2>2, <2>3
  <1> QED
    BY <1>1, <1>2

\* A step that ends the check where HEAD is.
LEMMA GaveUp ==
  ASSUME UpdateInv, GiveUp, proc.at # "down", proc.prog = "launcher" => proc.at \in Holding,
         UNCHANGED <<signed, disk, head, before, state, lost, edits>>
  PROVE  UpdateInv'
  <1>1. proc \in Procs(signed) /\ VersionAt[head] >= VersionAt[proc.code]
    BY DEF UpdateInv, Shapes, Holds
  <1>2. proc.prog = "launcher" /\ ~proc.synced => proc.m \in signed /\ proc.m.ts >= state.floor
    BY DEF UpdateInv, Holds, Gate
  <1>3. proc' \in Procs(signed)' /\ Holds' /\ Ledger' /\ Gate'
    BY <1>1, <1>2, Returned DEF GiveUp
  <1>4. Releases' /\ TreeWhole'
    BY DEF UpdateInv, Releases, TreeWhole
  <1> QED
    BY <1>3, <1>4 DEF UpdateInv, Shapes

LEMMA BootLimitedKeeps ==
  ASSUME UpdateInv, BootLimited
  PROVE  UpdateInv'
  BY GaveUp DEF BootLimited, repo, history, bounds

LEMMA GitFetchKeeps ==
  ASSUME UpdateInv, GitFetch
  PROVE  UpdateInv'
  <1>1. proc.at = "fetch" /\ UNCHANGED <<signed, disk, head, before, state, lost, edits>>
    BY DEF GitFetch, repo, history, bounds
  <1>2. CASE GiveUp
    BY <1>1, <1>2, GaveUp DEF Holding
  <1>3. CASE proc' = [proc EXCEPT !.at = "checkout"]
    <2>1. /\ proc' \in Procs(signed) /\ proc'.at = "checkout" /\ proc'.prog = proc.prog
          /\ proc'.m = proc.m /\ proc'.synced = proc.synced /\ proc'.code = proc.code
          /\ proc'.blocked = proc.blocked
      BY <1>3 DEF UpdateInv, Shapes, Procs, Holding
    <2>2. Shapes' /\ Releases' /\ TreeWhole'
      BY <1>1, <2>1 DEF UpdateInv, Shapes, Releases, TreeWhole, Procs
    <2>3. Holds'
      BY <1>1, <2>1 DEF UpdateInv, Holds, SignedCommits, Holding
    <2>4. Ledger' /\ Gate'
      BY <1>1, <2>1 DEF UpdateInv, Ledger, Gate, GateOfFloor, Holding
    <2> QED
      BY <2>2, <2>3, <2>4 DEF UpdateInv
  <1> QED
    BY <1>2, <1>3 DEF GitFetch

-----------------------------------------------------------------------------
(* The checkout, and its undoing.                                           *)

\* What a release put at a path is neither the operator's nor nothing.
LEMMA ShippedContent ==
  ASSUME NEW c \in Commits, NEW p \in DOMAIN TreeAt[c]
  PROVE  TreeAt[c][p] \notin {Yours, Gone}
  <1>1. TreeAt[c][p] \in Range(TreeAt[c])
    BY DEF Range
  <1>2. TreeAt[c][p] \in Shipped
    BY <1>1 DEF Shipped
  <1> QED
    BY <1>2, UpdateAssumption

\* git moves between two commits without losing a file of the tree it comes to.
LEMMA SwitchWhole ==
  ASSUME Shapes, TreeWhole, NEW c \in Commits, Switch(c), lost' = lost
  PROVE  /\ disk' = [p \in Paths |-> disk'[p]]
         /\ TreeWhole'
  <1>1. disk' = [p \in Paths |-> IF InTree(c, p) = InTree(head, p) THEN disk[p] ELSE InTree(c, p)]
        /\ head' = c
    BY DEF Switch
  <1>2. SUFFICES ASSUME NEW p \in DOMAIN TreeAt[c], disk'[p] = Gone PROVE p \in lost
    BY <1>1 DEF TreeWhole
  <1>3. p \in Paths /\ InTree(c, p) # Gone
    BY ShippedContent, UpdateAssumption DEF InTree
  <1>4. InTree(c, p) = InTree(head, p) /\ disk[p] = Gone
    BY <1>1, <1>2, <1>3
  <1>5. p \in DOMAIN TreeAt[head]
    BY <1>3, <1>4 DEF InTree
  <1> QED
    BY <1>4, <1>5 DEF TreeWhole

LEMMA GitCheckoutKeeps ==
  ASSUME UpdateInv, GitCheckout
  PROVE  UpdateInv'
  <1>1. proc.at = "checkout" /\ UNCHANGED <<signed, state, lost, edits>>
    BY DEF GitCheckout, history, bounds
  <1>2. CASE GiveUp /\ UNCHANGED <<disk, head, before>>
    BY <1>1, <1>2, GaveUp DEF Holding
  <1>3. CASE Switch(proc.m.commit) /\ proc' = [proc EXCEPT !.at = "verify"]
    <2>1. /\ proc.m \in signed /\ proc.m.commit \in Commits
          /\ VersionAt[proc.m.commit] > VersionAt[head]
          /\ VersionAt[head] >= VersionAt[proc.code]
      BY <1>1 DEF UpdateInv, Releases, Holds, Holding
    <2>2. head' = proc.m.commit /\ before' = head
      BY <1>3 DEF Switch
    <2>3. disk' = [p \in Paths |-> disk'[p]] /\ TreeWhole'
      BY <1>1, <1>3, <2>1, SwitchWhole DEF UpdateInv
    <2>4. /\ proc' \in Procs(signed) /\ proc'.at = "verify" /\ proc'.prog = proc.prog
          /\ proc'.m = proc.m /\ proc'.synced = proc.synced /\ proc'.code = proc.code
          /\ proc'.blocked = proc.blocked
      BY <1>3 DEF UpdateInv, Shapes, Procs, Holding
    <2>5. Shapes' /\ Releases'
      BY <1>1, <2>1, <2>2, <2>3, <2>4 DEF UpdateInv, Shapes, Releases, Procs
    <2>6. VersionAt[head'] >= VersionAt[proc.code]
      <3>1. /\ VersionAt[head] \in Nat /\ VersionAt[proc.m.commit] \in Nat
            /\ VersionAt[proc.code] \in Nat
        BY <2>1, UpdateAssumption DEF UpdateInv, Shapes, Procs
      <3> QED
        BY <2>1, <2>2, <3>1
    <2>7. Holds'
      BY <1>1, <2>1, <2>2, <2>4, <2>6 DEF UpdateInv, Holds, SignedCommits, Holding
    <2>8. Ledger' /\ Gate'
      BY <1>1, <2>4 DEF UpdateInv, Ledger, Gate, GateOfFloor, Holding
    <2> QED
      BY <2>3, <2>5, <2>7, <2>8 DEF UpdateInv
  <1> QED
    BY <1>2, <1>3 DEF GitCheckout

LEMMA VerifyHeadKeeps ==
  ASSUME UpdateInv, VerifyHead
  PROVE  UpdateInv'
  <1>1. proc.at = "verify" /\ UNCHANGED <<signed, state, lost, edits>>
    BY DEF VerifyHead, history, bounds
  <1>2. CASE UNCHANGED <<disk, head, before>> /\ GiveUp
    BY <1>1, <1>2, GaveUp DEF Holding
  <1>3. CASE Switch(before) /\ proc' = AfterCheck(proc, before)
    <2>1. head' = before /\ before' = head
      BY <1>3 DEF Switch
    <2>2. before \in Commits /\ proc \in Procs(signed) /\ VersionAt[before] >= VersionAt[proc.code]
      BY <1>1 DEF UpdateInv, Shapes, Holds
    <2>3. disk' = [p \in Paths |-> disk'[p]] /\ TreeWhole'
      BY <1>1, <1>3, <2>2, SwitchWhole DEF UpdateInv
    <2>4. proc.prog = "launcher" /\ ~proc.synced => proc.m \in signed /\ proc.m.ts >= state.floor
      BY <1>1 DEF UpdateInv, Holds, Gate, Holding
    <2>5. proc' \in Procs(signed)' /\ Holds' /\ Ledger' /\ Gate'
      BY <1>1, <1>3, <2>1, <2>2, <2>4, Returned
    <2>6. Shapes' /\ Releases'
      BY <1>1, <2>1, <2>3, <2>5 DEF UpdateInv, Shapes, Releases
    <2> QED
      BY <2>3, <2>5, <2>6 DEF UpdateInv
  <1>4. CASE /\ head = proc.m.commit /\ proc' = [proc EXCEPT !.at = "plan"]
             /\ UNCHANGED <<disk, head, before>>
    <2>1. /\ proc' \in Procs(signed) /\ proc'.at = "plan" /\ proc'.prog = proc.prog
          /\ proc'.m = proc.m /\ proc'.synced = proc.synced /\ proc'.code = proc.code
          /\ proc'.blocked = proc.blocked
      BY <1>4 DEF UpdateInv, Shapes, Procs, Holding
    <2>2. Shapes' /\ Releases' /\ TreeWhole'
      BY <1>1, <1>4, <2>1 DEF UpdateInv, Shapes, Releases, TreeWhole, Procs
    <2>3. Holds'
      BY <1>1, <1>4, <2>1 DEF UpdateInv, Holds, SignedCommits, Holding
    <2>4. Ledger' /\ Gate'
      BY <1>1, <2>1 DEF UpdateInv, Ledger, Gate, GateOfFloor, Holding
    <2> QED
      BY <2>2, <2>3, <2>4 DEF UpdateInv
  <1> QED
    BY <1>2, <1>3, <1>4 DEF VerifyHead

-----------------------------------------------------------------------------
(* The reclaim and the ledger.                                              *)

\* A candidate for removal is none of the tree's, when the tree is the manifest's.
LEMMA CandidatesSpare ==
  ASSUME NEW m, m.files \in {NoFiles, TreeAt[m.commit]}, head = m.commit,
         NEW p \in Candidates(m.files)
  PROVE  p \in DOMAIN state.ledger /\ p \notin NeverTouch \cup DOMAIN TreeAt[head]
  <1>1. p \in Dropped(m.files) \ NeverTouch
    BY DEF Candidates
  <1>2. m.files # NoFiles /\ p \in DOMAIN state.ledger \ DOMAIN m.files
    BY <1>1 DEF Dropped
  <1> QED
    BY <1>1, <1>2

LEMMA PlanReclaimKeeps ==
  ASSUME UpdateInv, PlanReclaim
  PROVE  UpdateInv'
  <1> DEFINE gone == {p \in Candidates(proc.m.files) : disk[p] = state.ledger[p]}
  <1>1. proc.at = "plan" /\ UNCHANGED <<signed, disk, head, before, state, lost, edits>>
    BY DEF PlanReclaim, repo, history, bounds
  <1>2. proc.m \in signed /\ proc.m.files \in {NoFiles, TreeAt[proc.m.commit]} /\ head = proc.m.commit
    BY <1>1 DEF UpdateInv, Releases, Holds, Holding
  <1>3. \A p \in gone : p \in DOMAIN state.ledger /\ p \notin NeverTouch \cup DOMAIN TreeAt[head]
    BY <1>2, CandidatesSpare
  <1>4. \A p \in gone : p \in Paths
    <2>1. \A m \in signed : DOMAIN m.files \subseteq Paths
      BY UpdateAssumption DEF UpdateInv, Releases, NoFiles
    <2> QED
      BY <1>3, <2>1 DEF UpdateInv, Ledger
  <1>5. proc' = [proc EXCEPT !.at = "unlink", !.dropped = {}, !.todo = gone]
    BY DEF PlanReclaim
  <1> HIDE DEF gone
  <1>6. /\ proc' \in Procs(signed) /\ proc'.at = "unlink" /\ proc'.prog = proc.prog
        /\ proc'.m = proc.m /\ proc'.synced = proc.synced /\ proc'.code = proc.code
        /\ proc'.blocked = proc.blocked /\ proc'.todo = gone
    BY <1>4, <1>5 DEF UpdateInv, Shapes, Procs, Holding
  <1>7. Shapes' /\ Releases' /\ TreeWhole'
    BY <1>1, <1>6 DEF UpdateInv, Shapes, Releases, TreeWhole, Procs
  <1>8. Holds'
    BY <1>1, <1>6 DEF UpdateInv, Holds, SignedCommits, Holding
  <1>9. Ledger'
    BY <1>1, <1>3, <1>6 DEF UpdateInv, Ledger
  <1>10. Gate'
    BY <1>1, <1>6 DEF UpdateInv, Gate, GateOfFloor, Holding
  <1> QED
    BY <1>7, <1>8, <1>9, <1>10 DEF UpdateInv

LEMMA UnlinkKeeps ==
  ASSUME UpdateInv, NEW p \in Paths, Unlink(p)
  PROVE  UpdateInv'
  <1>1. /\ proc.at = "unlink" /\ p \in proc.todo
        /\ UNCHANGED <<signed, head, before, state, lost, edits>>
    BY DEF Unlink, history, bounds
  <1>2. p \notin DOMAIN TreeAt[head]
    BY <1>1 DEF UpdateInv, Ledger
  <1>3. /\ disk' = [q \in Paths |-> disk'[q]]
        /\ \A q \in Paths : q # p => disk'[q] = disk[q]
    BY DEF Unlink, UpdateInv, Shapes
  <1>4. /\ proc' \in Procs(signed) /\ proc'.at = "unlink" /\ proc'.prog = proc.prog
        /\ proc'.m = proc.m /\ proc'.synced = proc.synced /\ proc'.code = proc.code
        /\ proc'.blocked = proc.blocked /\ proc'.todo \subseteq proc.todo
    <2>1. CASE proc' = [proc EXCEPT !.todo = @ \ {p}]
      BY <1>1, <2>1 DEF UpdateInv, Shapes, Procs, Holding
    <2>2. CASE proc' = [proc EXCEPT !.todo = @ \ {p}, !.dropped = @ \cup {p}]
      BY <1>1, <2>2 DEF UpdateInv, Shapes, Procs, Holding
    <2> QED
      BY <2>1, <2>2 DEF Unlink
  <1>5. Shapes' /\ Releases'
    BY <1>1, <1>3, <1>4 DEF UpdateInv, Shapes, Releases, Procs
  <1>6. TreeWhole'
    <2>1. \A q \in DOMAIN TreeAt[head] : q \in Paths /\ q # p
      BY <1>2, UpdateAssumption DEF UpdateInv, Shapes
    <2> QED
      BY <1>1, <1>3, <2>1 DEF UpdateInv, TreeWhole
  <1>7. Holds'
    BY <1>1, <1>4 DEF UpdateInv, Holds, SignedCommits, Holding
  <1>8. Ledger' /\ Gate'
    BY <1>1, <1>4 DEF UpdateInv, Ledger, Gate, GateOfFloor, Holding
  <1> QED
    BY <1>5, <1>6, <1>7, <1>8 DEF UpdateInv

\* The ledger takes the contents of the release, and keeps what older ones put.
LEMMA SaveLedgerKeeps ==
  ASSUME UpdateInv, SaveLedger
  PROVE  UpdateInv'
  <1> DEFINE files == proc.m.files
             keep == (DOMAIN state.ledger \cup DOMAIN files) \ proc.dropped
             new == [p \in keep |-> IF p \in DOMAIN files THEN files[p] ELSE state.ledger[p]]
  <1>1. proc.at = "unlink" /\ UNCHANGED <<signed, disk, head, before, lost, edits>>
    BY DEF SaveLedger, repo, history, bounds
  <1>2. state' = [state EXCEPT !.ledger = new] /\ proc' = [proc EXCEPT !.at = "pip"]
    BY DEF SaveLedger
  <1>3. proc.m \in signed
    BY <1>1 DEF UpdateInv, Holds, Holding
  <1>4. \A p \in DOMAIN new : \E m \in signed : p \in DOMAIN m.files /\ m.files[p] = new[p]
    BY <1>3 DEF UpdateInv, Ledger
  <1> HIDE DEF new
  <1>5. /\ state' \in [floor : Nat, min : Nat, ledger : {state'.ledger}]
        /\ state'.floor = state.floor /\ state'.min = state.min /\ state'.ledger = new
    BY <1>2 DEF UpdateInv, Shapes
  <1>6. /\ proc' \in Procs(signed) /\ proc'.at = "pip" /\ proc'.prog = proc.prog
        /\ proc'.m = proc.m /\ proc'.synced = proc.synced /\ proc'.code = proc.code
        /\ proc'.blocked = proc.blocked
    BY <1>2 DEF UpdateInv, Shapes, Procs, Holding
  <1>7. Shapes' /\ Releases' /\ TreeWhole'
    BY <1>1, <1>5, <1>6 DEF UpdateInv, Shapes, Releases, TreeWhole, Procs
  <1>8. Holds'
    BY <1>1, <1>6 DEF UpdateInv, Holds, SignedCommits, Holding
  <1>9. Ledger'
    BY <1>1, <1>4, <1>5, <1>6 DEF UpdateInv, Ledger
  <1>10. Gate'
    BY <1>1, <1>5, <1>6 DEF UpdateInv, Gate, GateOfFloor, Holding
  <1> QED
    BY <1>7, <1>8, <1>9, <1>10 DEF UpdateInv

-----------------------------------------------------------------------------
(* Requirements, the new start, the save of a sync, and what is not the     *)
(* updater's.                                                               *)

LEMMA PipKeeps ==
  ASSUME UpdateInv, Pip
  PROVE  UpdateInv'
  <1>1. /\ proc.at = "pip" /\ UNCHANGED <<signed, disk, head, before, state, lost, edits>>
        /\ proc' = [proc EXCEPT !.at = "exec"]
    BY DEF Pip, history, bounds
  <1>2. /\ proc' \in Procs(signed) /\ proc'.at = "exec" /\ proc'.prog = proc.prog
        /\ proc'.m = proc.m /\ proc'.synced = proc.synced /\ proc'.code = proc.code
        /\ proc'.blocked = proc.blocked
    BY <1>1 DEF UpdateInv, Shapes, Procs, Holding
  <1>3. Shapes' /\ Releases' /\ TreeWhole'
    BY <1>1, <1>2 DEF UpdateInv, Shapes, Releases, TreeWhole, Procs
  <1>4. Holds'
    BY <1>1, <1>2 DEF UpdateInv, Holds, SignedCommits, Holding
  <1>5. Ledger' /\ Gate'
    BY <1>1, <1>2 DEF UpdateInv, Ledger, Gate, GateOfFloor, Holding
  <1> QED
    BY <1>3, <1>4, <1>5 DEF UpdateInv

\* A process that begins again, on HEAD, or is gone.
LEMMA BegunKeeps ==
  ASSUME UpdateInv, proc.at # "down", UNCHANGED <<signed, disk, head, before, lost, edits>>,
         \/ proc' = OffProc
         \/ /\ proc'.at = "boot" /\ proc'.code = head /\ ~proc'.synced
            /\ proc'.prog # "none" /\ proc' \in Procs(signed),
         state' = state \/ state' = EmptyState
  PROVE  UpdateInv'
  <1>1. Base \in Commits /\ VersionAt[head] \in Nat /\ head \in SignedCommits
    BY UpdateAssumption DEF UpdateInv, Shapes, Holds
  <1>2. OffProc \in Procs(signed) /\ OffProc.at = "down" /\ ~OffProc.synced /\ OffProc.code = Base
    BY <1>1 DEF OffProc, Procs, Envs, Holding
  <1>3. /\ EmptyState.floor = 0 /\ EmptyState.min = 0 /\ DOMAIN EmptyState.ledger = {}
        /\ EmptyState \in [floor : Nat, min : Nat, ledger : {EmptyState.ledger}]
    BY DEF EmptyState, NoFiles
  <1> HIDE DEF OffProc, EmptyState
  <1>4. Shapes' /\ Releases' /\ TreeWhole'
    BY <1>2, <1>3 DEF UpdateInv, Shapes, Releases, TreeWhole, Procs
  <1>5. Holds'
    BY <1>1, <1>2 DEF UpdateInv, Holds, SignedCommits, Holding
  <1>6. Ledger' /\ Gate'
    BY <1>2, <1>3 DEF UpdateInv, Ledger, Gate, GateOfFloor, Holding
  <1> QED
    BY <1>4, <1>5, <1>6 DEF UpdateInv

LEMMA ReexecKeeps ==
  ASSUME UpdateInv, Reexec
  PROVE  UpdateInv'
  <1>1. /\ proc.at = "exec" /\ UNCHANGED <<signed, disk, head, before, state, lost, edits>>
        /\ proc' = Fresh(proc.prog, proc.env, head)
    BY DEF Reexec, repo, history, bounds
  <1>2. head \in Commits /\ proc \in Procs(signed)
    BY DEF UpdateInv, Shapes
  <1>3. CASE proc.prog # "none"
    <2>1. proc.prog \in {"updater", "contributor", "launcher"} /\ proc.env \in Envs
      BY <1>2, <1>3 DEF Procs
    <2>2. /\ proc' \in Procs(signed) /\ proc'.at = "boot" /\ proc'.code = head
          /\ ~proc'.synced /\ proc'.prog # "none"
      BY <1>1, <1>2, <2>1, FreshShape
    <2> QED
      BY <1>1, <2>2, BegunKeeps
  <1>4. CASE proc.prog = "none"
    BY <1>1, <1>4 DEF UpdateInv, Holds, Holding
  <1> QED
    BY <1>3, <1>4

LEMMA CrashKeeps ==
  ASSUME UpdateInv, Crash \/ PowerCut
  PROVE  UpdateInv'
  <1>1. proc.at # "down" /\ UNCHANGED <<signed, disk, head, before, lost, edits>>
    BY DEF Crash, PowerCut, repo, history, bounds
  <1>2. state' = state \/ state' = EmptyState
    BY DEF Crash, PowerCut
  <1>3. \/ proc' = OffProc
        \/ /\ proc'.at = "boot" /\ proc'.code = head /\ ~proc'.synced
           /\ proc'.prog # "none" /\ proc' \in Procs(signed)
    <2>1. CASE PowerCut
      BY <2>1 DEF PowerCut
    <2>2. CASE Crash
      <3>1. head \in Commits
        BY DEF UpdateInv, Shapes
      <3>2. proc' = OffProc \/ proc' = Fresh("contributor", Unset, head)
        BY <2>2 DEF Crash, AfterDeath
      <3> QED
        BY <3>1, <3>2, FreshShape DEF Envs
    <2> QED
      BY <2>1, <2>2
  <1> QED
    BY <1>1, <1>2, <1>3, BegunKeeps

LEMMA SaveManifestKeeps ==
  ASSUME UpdateInv, SaveManifest
  PROVE  UpdateInv'
  <1> DEFINE m == proc.m
  <1>1. /\ proc.at = "save" /\ UNCHANGED <<signed, disk, head, before, lost, edits>>
        /\ state' = [state EXCEPT !.floor = IF m.ts > @ THEN m.ts ELSE @, !.min = m.min]
        /\ proc' = [proc EXCEPT !.at = "mine", !.m = NoManifest, !.synced = TRUE,
                                !.env = ConfigDefault(@, m.config),
                                !.blocked = PublishBlock(m.min, proc.code)]
    BY DEF SaveManifest, repo, history, bounds
  <1>2. m \in signed /\ m.ts \in Nat /\ m.min \in Nat /\ m.config \in Envs /\ m.ts >= state.floor
    BY <1>1 DEF UpdateInv, Releases, Holds, Gate, Holding
  <1>3. proc \in Procs(signed) /\ PublishBlock(m.min, proc.code) \in BOOLEAN
        /\ ConfigDefault(proc.env, m.config) \in Envs
    BY <1>2 DEF UpdateInv, Shapes, Procs, ConfigDefault, PublishBlock
  <1> HIDE DEF m
  <1>4. /\ proc' \in Procs(signed) /\ proc'.at = "mine" /\ proc'.prog = proc.prog
        /\ proc'.synced /\ proc'.code = proc.code
        /\ proc'.blocked = PublishBlock(m.min, proc.code)
    BY <1>1, <1>3 DEF Procs
  <1>5. /\ state' \in [floor : Nat, min : Nat, ledger : {state'.ledger}]
        /\ state'.floor = m.ts /\ state'.min = m.min /\ state'.ledger = state.ledger
    <2>1. state \in [floor : Nat, min : Nat, ledger : {state.ledger}]
      BY DEF UpdateInv, Shapes
    <2>2. state' = [state EXCEPT !.floor = m.ts, !.min = m.min]
      <3>1. (IF m.ts > state.floor THEN m.ts ELSE state.floor) = m.ts
        BY <1>2, <2>1
      <3> QED
        BY <1>1, <2>1, <3>1
    <2> QED
      BY <1>2, <2>1, <2>2
  <1>6. Shapes' /\ Releases' /\ TreeWhole'
    BY <1>1, <1>4, <1>5 DEF UpdateInv, Shapes, Releases, TreeWhole, Procs
  <1>7. Holds' /\ Ledger'
    BY <1>1, <1>4, <1>5 DEF UpdateInv, Holds, Ledger, SignedCommits, Holding
  <1>8. Gate'
    BY <1>1, <1>2, <1>4, <1>5 DEF UpdateInv, Gate, GateOfFloor, Holding, PublishBlock
  <1> QED
    BY <1>6, <1>7, <1>8 DEF UpdateInv

LEMMA EditKeeps ==
  ASSUME UpdateInv, NEW p \in Editable, NEW new, Edit(p, new)
  PROVE  UpdateInv'
  <1>1. /\ disk' = [disk EXCEPT ![p] = new] /\ edits' = edits + 1
        /\ lost' = IF new = Gone THEN lost \cup {p} ELSE lost
        /\ UNCHANGED <<signed, head, before, state, proc>>
    BY DEF Edit
  <1>2. Shapes' /\ Releases' /\ Holds' /\ Ledger' /\ Gate'
    BY <1>1 DEF UpdateInv, Shapes, Releases, Holds, Ledger, Gate, GateOfFloor, SignedCommits, Procs
  <1>3. TreeWhole'
    BY <1>1, UpdateAssumption DEF UpdateInv, Shapes, TreeWhole
  <1> QED
    BY <1>2, <1>3 DEF UpdateInv

-----------------------------------------------------------------------------
(* The theorems.                                                            *)

LEMMA InitInv == Init => UpdateInv
  <1> SUFFICES ASSUME Init PROVE UpdateInv
    OBVIOUS
  <1>1. Base \in Commits
    BY UpdateAssumption
  <1>2. OffProc \in Procs(signed) /\ OffProc.at = "down" /\ ~OffProc.synced /\ OffProc.code = Base
    BY <1>1 DEF OffProc, Procs, Envs, Holding
  <1>3. /\ EmptyState.floor = 0 /\ DOMAIN EmptyState.ledger = {}
        /\ EmptyState \in [floor : Nat, min : Nat, ledger : {EmptyState.ledger}]
    BY DEF EmptyState, NoFiles
  <1>4. proc = OffProc /\ state = EmptyState /\ signed = {} /\ head = Base /\ before = Base
    BY DEF Init
  <1> HIDE DEF OffProc, EmptyState
  <1>5. Shapes
    BY <1>1, <1>2, <1>3, <1>4 DEF Init, Shapes
  <1>6. Releases /\ Holds
    BY <1>2, <1>4, FS_EmptySet DEF Releases, Holds, SignedCommits, Holding
  <1>7. Ledger /\ Gate
    BY <1>2, <1>3, <1>4 DEF Ledger, Gate, GateOfFloor, Holding
  <1>8. TreeWhole
    <2>1. \A p \in DOMAIN TreeAt[Base] : p \in Paths /\ TreeAt[Base][p] # Gone
      BY <1>1, ShippedContent, UpdateAssumption
    <2>2. disk = [p \in Paths |-> IF p \in DOMAIN TreeAt[Base] THEN TreeAt[Base][p] ELSE Gone]
      BY DEF Init
    <2> QED
      BY <1>4, <2>1, <2>2 DEF TreeWhole
  <1> QED
    BY <1>5, <1>6, <1>7, <1>8 DEF UpdateInv

LEMMA NextKeeps ==
  ASSUME UpdateInv, [Next]_vars
  PROVE  UpdateInv'
  <1>1. CASE StartAny
    BY <1>1, StartKeeps DEF StartAny
  <1>2. CASE Step
    BY <1>2, ChecksKeep, BootLimitedKeeps, GitFetchKeeps, GitCheckoutKeeps, VerifyHeadKeeps,
       PlanReclaimKeeps, UnlinkKeeps, SaveLedgerKeeps, PipKeeps, ReexecKeeps, SaveManifestKeeps
       DEF Step
  <1>3. CASE \E ans \in Answers : InRunCheck(ans)
    BY <1>3, ChecksKeep
  <1>4. CASE Operator
    BY <1>4, SignKeeps, EditKeeps DEF Operator
  <1>5. CASE Later \/ UNCHANGED vars
    <2>1. UNCHANGED <<signed, disk, head, before, state, proc, lost, edits>>
      BY <1>5 DEF Later, vars, repo, history, bounds
    <2> QED
      BY <2>1 DEF UpdateInv, Shapes, Releases, Holds, Ledger, TreeWhole, Gate, GateOfFloor,
                  SignedCommits, Procs
  <1>6. CASE Crash \/ PowerCut
    BY <1>6, CrashKeeps
  <1> QED
    BY <1>1, <1>2, <1>3, <1>4, <1>5, <1>6 DEF Next

LEMMA AlwaysInv == Spec => []UpdateInv
  BY InitInv, NextKeeps, PTL DEF Spec

\* Nothing unsigned is checked out or run, and no signed release, in whatever order
\* they come and wherever an update stops, leaves a file of its tree missing.
THEOREM SignedAlways == Spec => []SignedTree
  <1>1. UpdateInv => SignedTree
    BY DEF UpdateInv, Holds, SignedCommits, SignedTree, OnlySigned
  <1> QED
    BY <1>1, AlwaysInv, PTL

\* The publish gate is that of the newest manifest a start has saved, and a miner that
\* synced applies it: a withheld or superseded manifest lifts nothing.
THEOREM GateAlways == Spec => []GateKept
  <1>1. UpdateInv => GateKept
    BY DEF UpdateInv, Gate, GateKept, GateHolds
  <1> QED
    BY <1>1, AlwaysInv, PTL

\* What an AfterCheck goes on with runs the code it ran, or HEAD.
LEMMA CodeAfterCheck ==
  ASSUME NEW p \in Procs(signed), NEW c \in Commits
  PROVE  AfterCheck(p, c).code \in {p.code, c}
  BY AfterCheckShape

\* Every step of a running process keeps its code, or takes a HEAD at least as new.
LEMMA CodeMoves ==
  ASSUME UpdateInv, UpdateInv', [Next]_vars, proc.at # "down", proc'.at # "down"
  PROVE  \/ proc'.code = proc.code
         \/ proc'.code = head /\ head' = head
         \/ proc'.code = before /\ proc.at = "verify"
  <1>1. head \in Commits /\ before \in Commits /\ proc \in Procs(signed)
    BY DEF UpdateInv, Shapes
  <1>2. \A p : \A c \in Commits : p \in Procs(signed) => AfterCheck(p, c).code \in {p.code, c}
    BY CodeAfterCheck
  <1>3. ASSUME NEW m, m = NoManifest \/ m \in signed, CheckWith(m)
        PROVE  proc'.code = proc.code \/ (proc'.code = head /\ head' = head)
    <2>1. head' = head
      BY <1>3 DEF CheckWith, repo
    <2>2. CASE proc' = [proc EXCEPT !.m = m, !.at = "fetch"]
      BY <1>1, <2>2 DEF Procs
    <2>3. CASE GiveUp
      BY <1>1, <1>2, <2>1, <2>3 DEF GiveUp
    <2>4. CASE m # NoManifest /\ proc' = AfterCheck([proc EXCEPT !.m = m], head)
      <3>1. [proc EXCEPT !.m = m] \in Procs(signed) /\ [proc EXCEPT !.m = m].code = proc.code
        BY <1>1, <1>3 DEF Procs
      <3> QED
        BY <1>1, <1>2, <2>1, <2>4, <3>1
    <2> QED
      BY <1>3, <2>2, <2>3, <2>4 DEF CheckWith
  <1>4. GiveUp /\ head' = head => proc'.code = proc.code \/ proc'.code = head
    BY <1>1, <1>2 DEF GiveUp
  <1>5. ASSUME NEW ans \in Answers, BootCheck(ans) \/ BootSync(ans) \/ InRunCheck(ans)
        PROVE  proc'.code = proc.code \/ (proc'.code = head /\ head' = head)
    <2>1. ASSUME NEW floor PROVE Best(ans, floor) = NoManifest \/ Best(ans, floor) \in signed
      BY BestIsSigned DEF UpdateInv
    <2>2. CASE BootCheck(ans) \/ InRunCheck(ans)
      BY <1>3, <2>1, <2>2 DEF BootCheck, InRunCheck
    <2>3. CASE BootSync(ans)
      <3>1. CASE CheckWith(Best(ans, state.floor))
        BY <1>3, <2>1, <3>1
      <3>2. CASE proc' = [proc EXCEPT !.at = "mine", !.synced = TRUE,
                                      !.blocked = PublishBlock(state.min, proc.code)]
        BY <1>1, <3>2 DEF Procs
      <3> QED
        BY <2>3, <3>1, <3>2 DEF BootSync
    <2> QED
      BY <1>5, <2>2, <2>3
  <1>6. BootLimited \/ GitFetch => proc'.code = proc.code \/ (proc'.code = head /\ head' = head)
    BY <1>1, <1>4 DEF BootLimited, GitFetch, repo, Procs
  <1>7. GitCheckout => proc'.code = proc.code \/ (proc'.code = head /\ head' = head)
    BY <1>1, <1>4 DEF GitCheckout, Procs
  <1>8. VerifyHead => \/ proc'.code = proc.code
                      \/ proc'.code = head /\ head' = head
                      \/ proc'.code = before /\ proc.at = "verify"
    BY <1>1, <1>2, <1>4 DEF VerifyHead, Procs
  <1>9. ASSUME PlanReclaim \/ (\E p \in Paths : Unlink(p)) \/ SaveLedger \/ Pip \/ SaveManifest
        PROVE  proc'.code = proc.code
    BY <1>1, <1>9 DEF PlanReclaim, Unlink, SaveLedger, Pip, SaveManifest, Procs
  <1>10. Reexec => proc'.code = head /\ head' = head
    BY DEF Reexec, Fresh, OffProc, repo
  <1>11. Crash => proc'.code = head /\ head' = head
    BY DEF Crash, AfterDeath, Fresh, OffProc, repo
  <1>12. ~StartAny /\ ~PowerCut
    BY DEF StartAny, Start, PowerCut, OffProc
  <1>13. Operator \/ Later \/ UNCHANGED vars => proc'.code = proc.code
    BY DEF Operator, Sign, Edit, Later, vars
  <1> QED
    BY <1>5, <1>6, <1>7, <1>8, <1>9, <1>10, <1>11, <1>12, <1>13 DEF Next, Step

\* No process, whatever started it and wherever the update before it stopped, runs an
\* older version than the one before.
THEOREM NoDowngrade == Spec => NeverDowngrades
  <1>1. ASSUME UpdateInv, UpdateInv', [Next]_vars
        PROVE  [proc.at # "down" /\ proc'.at # "down" =>
                  VersionAt[proc'.code] >= VersionAt[proc.code]]_vars
    <2> SUFFICES ASSUME proc.at # "down", proc'.at # "down"
                 PROVE  VersionAt[proc'.code] >= VersionAt[proc.code]
      OBVIOUS
    <2>1. VersionAt[proc.code] \in Nat
      BY <1>1, UpdateAssumption DEF UpdateInv, Shapes, Procs
    <2>2. VersionAt[head] >= VersionAt[proc.code]
          /\ (proc.at = "verify" => VersionAt[before] >= VersionAt[proc.code])
      BY <1>1 DEF UpdateInv, Holds
    <2>3. \/ proc'.code = proc.code \/ proc'.code = head
          \/ proc'.code = before /\ proc.at = "verify"
      BY <1>1, CodeMoves
    <2> QED
      BY <2>1, <2>2, <2>3
  <1> QED
    BY <1>1, AlwaysInv, PTL DEF Spec, NeverDowngrades

-----------------------------------------------------------------------------
(* Whose file it was that changed.                                          *)

\* Only git, the reclaim and the operator write in the install directory.
LEMMA DiskMoves ==
  ASSUME UpdateInv, [Next]_vars
  PROVE  \/ disk' = disk
         \/ edits' # edits
         \/ proc.at # "unlink" /\ \E c \in Commits : Switch(c)
         \/ proc.at = "unlink" /\ \E p \in proc.todo : /\ StillShipped(p)
                                                       /\ disk' = [disk EXCEPT ![p] = Gone]
  <1>1. CASE StartAny \/ Later \/ Crash \/ PowerCut \/ UNCHANGED vars
    BY <1>1 DEF StartAny, Start, Later, Crash, PowerCut, vars, repo
  <1>2. CASE Operator
    BY <1>2 DEF Operator, Sign, Edit, repo, UpdateInv, Shapes
  <1>3. CASE \E ans \in Answers : BootCheck(ans) \/ BootSync(ans) \/ InRunCheck(ans)
    BY <1>3 DEF BootCheck, BootSync, InRunCheck, CheckWith, repo
  <1>4. CASE GitCheckout
    <2>1. proc.at = "checkout" /\ (disk' = disk \/ Switch(proc.m.commit))
      BY <1>4 DEF GitCheckout
    <2>2. proc.m.commit \in Commits
      BY <2>1 DEF UpdateInv, Releases, Holds, Holding
    <2> QED
      BY <2>1, <2>2
  <1>5. CASE VerifyHead
    <2>1. proc.at = "verify" /\ (disk' = disk \/ Switch(before)) /\ before \in Commits
      BY <1>5 DEF VerifyHead, UpdateInv, Shapes
    <2> QED
      BY <2>1
  <1>6. CASE \E p \in Paths : Unlink(p)
    BY <1>6 DEF Unlink
  <1>7. CASE BootLimited \/ GitFetch \/ PlanReclaim \/ SaveLedger \/ Pip \/ Reexec \/ SaveManifest
    BY <1>7 DEF BootLimited, GitFetch, PlanReclaim, SaveLedger, Pip, Reexec, SaveManifest, repo
  <1> QED
    BY <1>1, <1>2, <1>3, <1>4, <1>5, <1>6, <1>7 DEF Next, Step

\* What is about to be removed is what a signed release put there.
LEMMA RemovedWasShipped ==
  ASSUME UpdateInv, proc.at = "unlink", NEW p \in proc.todo, StillShipped(p)
  PROVE  /\ p \in Paths /\ p \notin NeverTouch \cup DOMAIN TreeAt[head]
         /\ \E m \in signed : p \in DOMAIN m.files /\ m.files[p] = disk[p]
         /\ disk[p] \notin {Yours, Gone}
  <1>1. /\ p \in Paths /\ p \in DOMAIN state.ledger
        /\ p \notin NeverTouch \cup DOMAIN TreeAt[head]
    BY DEF UpdateInv, Shapes, Procs, Ledger
  <1>2. PICK m \in signed : p \in DOMAIN m.files /\ m.files[p] = disk[p]
    BY <1>1 DEF UpdateInv, Ledger, StillShipped
  <1>3. m.commit \in Commits /\ m.files \in {NoFiles, TreeAt[m.commit]}
    BY DEF UpdateInv, Releases
  <1>4. m.files = TreeAt[m.commit]
    BY <1>2, <1>3 DEF NoFiles
  <1>5. disk[p] \notin {Yours, Gone}
    BY <1>2, <1>3, <1>4, ShippedContent
  <1> QED
    BY <1>1, <1>2, <1>5

\* Neither a checkout, nor its undoing, nor the reclaim touches a file of the operator's;
\* and what the reclaim removes was shipped, is unedited, and belongs to no tree in use.
THEOREM OperatorFilesKept == Spec => FilesKept
  <1>1. ASSUME UpdateInv, [Next]_vars
        PROVE  [\A p \in Paths : disk[p] = Yours /\ disk'[p] # Yours => edits' # edits]_vars
    <2> SUFFICES ASSUME NEW p \in Paths, disk[p] = Yours, disk'[p] # Yours, edits' = edits
                 PROVE  FALSE
      OBVIOUS
    <2>1. ASSUME NEW c \in Commits, Switch(c) PROVE FALSE
      <3>1. InTree(c, p) # InTree(head, p) /\ ~Refuses(c, p)
        BY <2>1 DEF Switch
      <3>2. Yours \in {InTree(head, p), Gone}
        BY <3>1 DEF Refuses
      <3>3. head \in Commits
        BY <1>1 DEF UpdateInv, Shapes
      <3> QED
        BY <3>2, <3>3, ShippedContent, UpdateAssumption DEF InTree
    <2>2. ASSUME proc.at = "unlink", NEW q \in proc.todo, StillShipped(q),
                 disk' = [disk EXCEPT ![q] = Gone]
          PROVE  FALSE
      <3>1. disk[q] # Yours
        BY <1>1, <2>2, RemovedWasShipped
      <3>2. disk'[p] = disk[p]
        BY <1>1, <2>2, <3>1 DEF UpdateInv, Shapes
      <3> QED
        BY <3>2
    <2> QED
      BY <1>1, <2>1, <2>2, DiskMoves
  <1>2. ASSUME UpdateInv, [Next]_vars
        PROVE  [\A p \in Paths : proc.at = "unlink" /\ edits' = edits /\ disk'[p] # disk[p] =>
                  /\ p \notin NeverTouch \cup DOMAIN TreeAt[head]
                  /\ \E m \in signed : p \in DOMAIN m.files /\ m.files[p] = disk[p]]_vars
    <2> SUFFICES ASSUME NEW p \in Paths, proc.at = "unlink", edits' = edits, disk'[p] # disk[p]
                 PROVE  /\ p \notin NeverTouch \cup DOMAIN TreeAt[head]
                        /\ \E m \in signed : p \in DOMAIN m.files /\ m.files[p] = disk[p]
      OBVIOUS
    <2>1. PICK q \in proc.todo : StillShipped(q) /\ disk' = [disk EXCEPT ![q] = Gone]
      BY <1>2, DiskMoves
    <2>2. q = p
      BY <1>2, <2>1 DEF UpdateInv, Shapes
    <2> QED
      BY <1>2, <2>1, <2>2, RemovedWasShipped
  <1>3. Spec => UserFilesKept
    BY <1>1, AlwaysInv, PTL DEF Spec, UserFilesKept
  <1>4. Spec => ReclaimSparing
    BY <1>2, AlwaysInv, PTL DEF Spec, ReclaimSparing
  <1> QED
    BY <1>3, <1>4 DEF FilesKept

=============================================================================
