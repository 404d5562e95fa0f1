----------------------------- MODULE SelfUpdate -----------------------------
(***************************************************************************)
(* The signed update of a miner: sign_release.py, self_update.py, the      *)
(* start of a miner by run_glm_miner.py (prog "updater", then              *)
(* "contributor") or by a launcher that calls sync_from_manifest (prog     *)
(* "launcher"), and the contributor's check between rounds.                *)
(*                                                                         *)
(* A manifest is a record; only one made by Sign recovers the pinned key   *)
(* (field genuine).  A host may answer any manifest ever signed, a forgery *)
(* or nothing, anew at each fetch.  The repository is TreeAt: what each    *)
(* commit puts at each path.  git and pip are external: git's checkout     *)
(* switches the whole tree or refuses, and never overwrites an edited or   *)
(* an untracked file.  The operator edits files at any moment; the process *)
(* may die between any two steps, and inside a save of the state file,     *)
(* which is written in place.  The knob of the reclaim is armed.           *)
(***************************************************************************)
EXTENDS Integers, FiniteSets, Functions

CONSTANTS
  Commits,       \* the commits of the repository
  Base,          \* the commit the miner was cloned at
  Rogue,         \* a commit nobody signs
  VersionAt,     \* the VERSION file of each commit
  TreeAt,        \* commit -> path -> content, the other tracked files
  DepsAt,        \* the content of requirements.txt at each commit
  Paths,         \* the paths of interest
  NeverTouch,    \* those the never-touch list names
  Editable,      \* those the operator touches in this exploration
  Yours,         \* any content the project never shipped
  Gone,          \* no file at a path
  Offers,        \* what the operator may sign: [commit, min, lists, config]
  Claims,        \* the --version values that may be typed
  NMirrors,      \* how many mirrors are compiled in, in their order
  Down,          \* a mirror that does not answer
  NoManifest,    \* no manifest verified
  Unset,         \* the environment names no endpoint of its own
  MaxSigned, MaxEdits, MaxCrashes     \* bounds of the exploration

Shipped == UNION {Range(TreeAt[c]) : c \in Commits}

ASSUME UpdateAssumption ==
  /\ Base \in Commits /\ Rogue \in Commits
  /\ VersionAt \in [Commits -> Nat \ {0}]
  /\ \A c \in Commits : DOMAIN TreeAt[c] \subseteq Paths
  /\ {Yours, Gone} \cap Shipped = {} /\ Yours # Gone
  /\ NeverTouch \cup Editable \subseteq Paths
  /\ \A o \in Offers : o.commit \in Commits \ {Rogue} /\ o.min \in Nat
  /\ {NMirrors, MaxSigned, MaxEdits, MaxCrashes} \subseteq Nat

VARIABLES
  signed,        \* the manifests signed so far
  disk,          \* what is at each path of the install directory
  head, before,  \* git's HEAD and the place `git checkout -` returns to
  deps,          \* the requirements last installed
  state,         \* the state file: floor, min, ledger
  due,           \* the last check is six hours old or more
  proc,          \* the process: program, step, code it runs, and locals
  heard,         \* the newest manifest a start has accepted (history)
  lost,          \* the paths the operator has removed (history)
  edits, crashes \* counters of the exploration

vars == <<signed, disk, head, before, deps, state, due, proc, heard, lost, edits, crashes>>
repo == <<disk, head, before, deps>>
history == <<heard, lost>>
bounds == <<edits, crashes>>

NoFiles == [p \in {} |-> Gone]
EmptyState == [floor |-> 0, min |-> 0, ledger |-> NoFiles]

\* A manifest nobody holds the key for, offering the rogue commit.
Forgery == [commit |-> Rogue, version |-> VersionAt[Rogue], ts |-> MaxSigned + 1, min |-> 0,
            files |-> NoFiles, config |-> 0, genuine |-> FALSE]

OffProc == [prog |-> "none", at |-> "down", code |-> Base, m |-> NoManifest, todo |-> {},
            dropped |-> {}, env |-> Unset, synced |-> FALSE, blocked |-> FALSE]

Init ==
  /\ signed = {}
  /\ disk = [p \in Paths |-> IF p \in DOMAIN TreeAt[Base] THEN TreeAt[Base][p] ELSE Gone]
  /\ head = Base /\ before = Base /\ deps = DepsAt[Base]
  /\ state = EmptyState /\ due = TRUE /\ proc = OffProc
  /\ heard = 0 /\ lost = {} /\ edits = 0 /\ crashes = 0

-----------------------------------------------------------------------------
\* Signing a release.

\* The VERSION file at the commit is the version typed.
VersionMatches(c, v) == v = VersionAt[c]

\* --files: the whole tree of the commit, or nothing; a partial list is refused.
Listed(o) == IF o.lists THEN TreeAt[o.commit] ELSE NoFiles

\* The operator signs an offer.
Sign(o, v) ==
  /\ Cardinality(signed) < MaxSigned
  /\ VersionMatches(o.commit, v)
  /\ signed' = signed \cup {[commit |-> o.commit, version |-> v, ts |-> Cardinality(signed) + 1,
                             min |-> o.min, config |-> o.config, genuine |-> TRUE,
                             files |-> Listed(o)]}
  /\ UNCHANGED <<repo, state, due, proc, history, bounds>>

-----------------------------------------------------------------------------
\* Fetching: every mirror is asked, in order.

\* mutant: the signature is not looked at
AnyManifest(m) == m # Down
Verified(m) == m # Down /\ m.genuine

Answers == [1..NMirrors -> signed \cup {Down, Forgery}]

\* mutant: a replayed manifest is taken
NoFloor(m, floor) == TRUE
OverFloor(m, floor) == m.ts >= floor

\* The highest version that verifies; among equals the first mirror's.
Best(ans, floor) ==
  LET ok == {i \in 1..NMirrors : Verified(ans[i]) /\ OverFloor(ans[i], floor)}
      top == {i \in ok : \A j \in ok : ans[j].version <= ans[i].version}
  IN IF ok = {} THEN NoManifest ELSE ans[CHOOSE i \in top : \A j \in top : i <= j]

\* mutant: any other version counts as forward
OtherVersion(m) == m.version # VersionAt[head]
\* mutant: the version already here is applied again
NotBackward(m) == m.version >= VersionAt[head]
IsForward(m) == m.version > VersionAt[head]

\* publish_block_reason: the client is older than the network demands.
\* mutant: off by one, the first version below the gate may publish
BlockBelow(min, c) == VersionAt[c] + 1 < min
PublishBlock(min, c) == VersionAt[c] < min

-----------------------------------------------------------------------------
\* The process.

\* A fresh process of a program on the code of commit c.
Fresh(prog, env, c) == [OffProc EXCEPT !.prog = prog, !.at = "boot", !.code = c, !.env = env]

\* What follows a check that re-executes nothing: the supervisor goes on to the
\* contributor, a starting launcher goes on with its sync, a miner mines.
AfterCheck(p, c) ==
  IF p.prog = "updater" THEN Fresh("contributor", Unset, c)
  ELSE IF p.prog = "launcher" /\ ~p.synced THEN [p EXCEPT !.at = "save"]
  ELSE [p EXCEPT !.at = "mine", !.m = NoManifest]

GiveUp == proc' = AfterCheck(proc, head)

\* The operator starts the supervisor (its update check first), or a launcher.
Start(prog) ==
  /\ proc.at = "down"
  /\ proc' = Fresh(prog, Unset, head)
  /\ UNCHANGED <<signed, repo, state, due, history, bounds>>

\* check_and_update up to the forward gate: at the start, or between two rounds
\* when the limit allows; the stamp is written before the attempt.
CheckWith(m) ==
  /\ due' = FALSE
  /\ IF m = NoManifest THEN GiveUp
     ELSE proc' = IF IsForward(m) THEN [proc EXCEPT !.m = m, !.at = "fetch"]
                  ELSE AfterCheck([proc EXCEPT !.m = m], head)
  /\ UNCHANGED <<signed, repo, state, lost, bounds>>

BootCheck(ans) ==
  /\ proc.at = "boot" /\ (proc.prog = "updater" \/ (proc.prog = "contributor" /\ due))
  /\ CheckWith(Best(ans, 0)) /\ UNCHANGED heard

InRunCheck(ans) ==
  /\ proc.at = "mine" /\ due
  /\ CheckWith(Best(ans, 0)) /\ UNCHANGED heard

\* The rate limit: a contributor that starts soon after a check mines at once.
BootLimited ==
  /\ proc.at = "boot" /\ proc.prog = "contributor" /\ ~due
  /\ GiveUp
  /\ UNCHANGED <<signed, repo, state, due, history, bounds>>

\* sync_from_manifest: the floor applies; with nothing verified the gate
\* remembered from an earlier start stands.
BootSync(ans) ==
  /\ proc.at = "boot" /\ proc.prog = "launcher"
  /\ LET m == Best(ans, state.floor) IN
       \/ /\ m = NoManifest
          /\ proc' = [proc EXCEPT !.at = "mine", !.synced = TRUE,
                                  !.blocked = PublishBlock(state.min, proc.code)]
          /\ UNCHANGED <<signed, repo, state, due, history, bounds>>
       \/ /\ m # NoManifest
          /\ heard' = IF m.ts > heard THEN m.ts ELSE heard
          /\ CheckWith(m)

\* git fetch, which may fail.
GitFetch ==
  /\ proc.at = "fetch"
  /\ GiveUp \/ proc' = [proc EXCEPT !.at = "checkout"]
  /\ UNCHANGED <<signed, repo, state, due, history, bounds>>

InTree(c, p) == IF p \in DOMAIN TreeAt[c] THEN TreeAt[c][p] ELSE Gone

\* git refuses a path it would have to overwrite: tracked and edited, or untracked and present.
Refuses(c, p) ==
  /\ InTree(c, p) # InTree(head, p)
  /\ disk[p] \notin {InTree(head, p), Gone}

Switch(c) ==
  /\ \A p \in Paths : ~Refuses(c, p)
  /\ disk' = [p \in Paths |-> IF InTree(c, p) = InTree(head, p) THEN disk[p] ELSE InTree(c, p)]
  /\ head' = c /\ before' = head

\* git checkout of the signed commit: refused, failed, or the whole tree switched.
GitCheckout ==
  /\ proc.at = "checkout"
  /\ \/ Switch(proc.m.commit) /\ proc' = [proc EXCEPT !.at = "verify"]
     \/ GiveUp /\ UNCHANGED <<disk, head, before>>
  /\ UNCHANGED <<signed, deps, state, due, history, bounds>>

\* HEAD must be the signed commit; when it cannot be read the tree is put back, if git can.
VerifyHead ==
  /\ proc.at = "verify"
  /\ \/ head = proc.m.commit /\ proc' = [proc EXCEPT !.at = "plan"] /\ UNCHANGED <<disk, head, before>>
     \/ Switch(before) /\ proc' = AfterCheck(proc, before)
     \/ UNCHANGED <<disk, head, before>> /\ GiveUp
  /\ UNCHANGED <<signed, deps, state, due, history, bounds>>

-----------------------------------------------------------------------------
\* Reclaiming what older releases shipped.

\* mutant: a release that lists no files is taken to ship none
DroppedByAny(files) == DOMAIN state.ledger \ DOMAIN files
\* Shipped before, not shipped now; a release that lists nothing drops nothing.
Dropped(files) == IF files = NoFiles THEN {} ELSE DOMAIN state.ledger \ DOMAIN files

\* A pass that would remove most of what was shipped is refused whole.
MinAbsolute == 5
TooMany(n) == n > MinAbsolute /\ n > Cardinality(DOMAIN state.ledger) \div 4

\* mutant: the never-touch list is not consulted
CandidatesUnguarded(files) == Dropped(files)
Candidates(files) ==
  IF TooMany(Cardinality(Dropped(files))) THEN {} ELSE Dropped(files) \ NeverTouch

\* Every candidate is hashed, and only then is any removed.
PlanReclaim ==
  /\ proc.at = "plan"
  /\ proc' = [proc EXCEPT !.at = "unlink", !.dropped = {},
                          !.todo = {p \in Candidates(proc.m.files) : disk[p] = state.ledger[p]}]
  /\ UNCHANGED <<signed, repo, state, due, history, bounds>>

\* mutant: the first hash is trusted when the file is removed
HashedBefore(p) == disk[p] # Gone
StillShipped(p) == disk[p] = state.ledger[p]

\* One file: hashed again, then removed.
Unlink(p) ==
  /\ proc.at = "unlink" /\ p \in proc.todo
  /\ IF StillShipped(p)
     THEN /\ disk' = [disk EXCEPT ![p] = Gone]
          /\ proc' = [proc EXCEPT !.todo = @ \ {p}, !.dropped = @ \cup {p}]
     ELSE /\ proc' = [proc EXCEPT !.todo = @ \ {p}]
          /\ UNCHANGED disk
  /\ UNCHANGED <<signed, head, before, deps, state, due, history, bounds>>

\* The ledger: everything ever declared, the newest content, less what was removed.
SaveLedger ==
  /\ proc.at = "unlink" /\ proc.todo = {}
  /\ LET files == proc.m.files
         keep == (DOMAIN state.ledger \cup DOMAIN files) \ proc.dropped
     IN state' = [state EXCEPT !.ledger =
                    [p \in keep |-> IF p \in DOMAIN files THEN files[p] ELSE state.ledger[p]]]
  /\ proc' = [proc EXCEPT !.at = "pip"]
  /\ UNCHANGED <<signed, repo, due, history, bounds>>

\* pip, only when requirements.txt changed; a failure is logged and the update goes on.
Pip ==
  /\ proc.at = "pip"
  /\ deps' \in IF DepsAt[head] = DepsAt[before] THEN {deps} ELSE {deps, DepsAt[head]}
  /\ proc' = [proc EXCEPT !.at = "exec"]
  /\ UNCHANGED <<signed, disk, head, before, state, due, history, bounds>>

\* The program starts again on the new code, with the environment it has by now.
Reexec ==
  /\ proc.at = "exec"
  /\ proc' = Fresh(proc.prog, proc.env, head)
  /\ UNCHANGED <<signed, repo, state, due, history, bounds>>

\* The config of a manifest is a default: what is already set wins.
ConfigDefault(env, config) == IF env = Unset /\ config # 0 THEN config ELSE env

\* The end of a sync: floor and gate saved, config applied where nothing is set.
SaveManifest ==
  /\ proc.at = "save"
  /\ LET m == proc.m IN
       /\ state' = [state EXCEPT !.floor = IF m.ts > @ THEN m.ts ELSE @, !.min = m.min]
       /\ proc' = [proc EXCEPT !.at = "mine", !.m = NoManifest, !.synced = TRUE,
                               !.env = ConfigDefault(@, m.config),
                               !.blocked = PublishBlock(m.min, proc.code)]
  /\ UNCHANGED <<signed, repo, due, history, bounds>>

-----------------------------------------------------------------------------
\* Time, the operator's files, and the death of the process.

Later ==
  /\ ~due /\ due' = TRUE
  /\ UNCHANGED <<signed, repo, state, proc, history, bounds>>

\* What a release ever put at a path.
Copies(p) == {InTree(c, p) : c \in Commits \ {Rogue}}

\* The operator writes a file of his own, brings an old copy back, or removes a file.
Edit(p, new) ==
  /\ edits < MaxEdits /\ disk[p] # new
  /\ disk' = [disk EXCEPT ![p] = new] /\ edits' = edits + 1
  /\ lost' = IF new = Gone THEN lost \cup {p} ELSE lost
  /\ UNCHANGED <<signed, head, before, deps, state, due, proc, heard, crashes>>

\* What comes up after a death: the supervisor goes on from its updater (killed
\* after 600 s) and relaunches its contributor; a launcher's death ends it.
AfterDeath ==
  IF proc.prog = "launcher" THEN OffProc ELSE Fresh("contributor", Unset, head)

\* The process dies between two steps, or inside a save of the state file.
Crash ==
  /\ proc.at # "down" /\ crashes < MaxCrashes
  /\ crashes' = crashes + 1 /\ proc' = AfterDeath
  /\ state' \in {state} \cup
       (IF proc.at = "save" \/ (proc.at = "unlink" /\ proc.todo = {}) THEN {EmptyState} ELSE {})
  /\ UNCHANGED <<signed, repo, due, history, edits>>

\* The machine restarts.
PowerCut ==
  /\ proc.at # "down" /\ crashes < MaxCrashes
  /\ crashes' = crashes + 1 /\ proc' = OffProc
  /\ UNCHANGED <<signed, repo, state, due, history, edits>>

StartAny == \E prog \in {"updater", "launcher"} : Start(prog)

Step ==
  \/ \E ans \in Answers : BootCheck(ans) \/ BootSync(ans)
  \/ BootLimited
  \/ GitFetch
  \/ GitCheckout
  \/ VerifyHead
  \/ PlanReclaim
  \/ \E p \in Paths : Unlink(p)
  \/ SaveLedger
  \/ Pip
  \/ Reexec
  \/ SaveManifest

Operator ==
  \/ \E o \in Offers, v \in Claims : Sign(o, v)
  \/ \E p \in Editable : \E new \in Copies(p) \cup {Yours, Gone} : Edit(p, new)

Next ==
  \/ StartAny
  \/ Step
  \/ \E ans \in Answers : InRunCheck(ans)
  \/ Operator
  \/ Later
  \/ Crash
  \/ PowerCut

\* A started miner runs on; a stopped one is started again.
Spec == Init /\ [][Next]_vars /\ WF_vars(Step) /\ WF_vars(StartAny)

-----------------------------------------------------------------------------
\* Properties.

\* "a miner NEVER checks out / runs code unless a manifest signed by the PINNED
\* release key says to": the tree and the code run are the clone's or a signed commit.
OnlySigned == {head, proc.code} \subseteq {Base} \cup {m.commit : m \in signed}

\* "and it never DOWNGRADES": no start of any kind runs an older version than
\* the one that ran before, whatever hosts answer and wherever an update stops.
NeverDowngrades == [][proc.at # "down" /\ proc'.at # "down" =>
                        VersionAt[proc'.code] >= VersionAt[proc.code]]_vars

\* No step but the operator's own replaces or removes a file he wrote or edited:
\* neither a checkout, nor its undoing, nor the reclaim with its two hashes.
UserFilesKept ==
  [][\A p \in Paths : disk[p] = Yours /\ disk'[p] # Yours => edits' # edits]_vars

\* What the reclaim removes is off the never-touch list, is not in the tree now
\* checked out, and holds exactly what a signed release put there.
ReclaimSparing ==
  [][\A p \in Paths : proc.at = "unlink" /\ edits' = edits /\ disk'[p] # disk[p] =>
       /\ p \notin NeverTouch \cup DOMAIN TreeAt[head]
       /\ \E m \in signed : p \in DOMAIN m.files /\ m.files[p] = disk[p]]_vars

\* Every file of the commit checked out is there, unless the operator removed it:
\* no sequence of releases, some of which list their files and some not, empties the install.
TreeWhole == \A p \in DOMAIN TreeAt[head] : disk[p] = Gone => p \in lost

\* The install is the operator's clone moved along signed releases, and nothing of them
\* is missing.
SignedTree == OnlySigned /\ TreeWhole

\* The saved gate is the gate of the newest manifest saved: a superseded one
\* served while the good mirrors are withheld does not roll it back.
GateOfFloor ==
  state.floor > 0 => \E m \in signed : m.ts = state.floor /\ m.min = state.min

\* "A withheld manifest must not silently LIFT a publish gate": a miner that
\* synced at its start publishes only if its version satisfies the saved gate.
GateHolds ==
  proc.at = "mine" /\ proc.synced => (VersionAt[proc.code] < state.min => proc.blocked)

\* The publish gate is that of the newest manifest saved, and it is applied.
GateKept == GateOfFloor /\ GateHolds

\* What an update takes away was shipped and unedited.
FilesKept == UserFilesKept /\ ReclaimSparing

\* Whatever is signed, withheld, forged or fails, the miner always comes back to
\* mining: no release makes it update for ever.
KeepsMining == []<>(proc.at = "mine")

\* "`min_published_ts` rejects a manifest older than the newest one this client
\* has already seen": what a start accepts is never older than what one accepted.
ReplayFloor ==
  [][proc.at = "boot" /\ proc.prog = "launcher" /\ proc'.m # NoManifest => proc'.m.ts >= heard]_vars

\* The code that mines has its requirements installed.
DepsInstalled == proc.at = "mine" => deps = DepsAt[proc.code]

\* After a sync the environment carries the accepted config; nothing else set it here.
ConfigFresh ==
  [][proc.at = "save" /\ proc'.at = "mine" /\ proc.m.config # 0 =>
       proc'.env = proc.m.config]_vars
=============================================================================
