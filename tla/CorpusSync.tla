----------------------------- MODULE CorpusSync -----------------------------
(***************************************************************************)
(* The corpus of a GLM contributor: the fetch at its start, the resync and *)
(* the rotation of parts between two rounds.                               *)
(*                                                                         *)
(* A record r is what the coordinator advertises: a content for each name. *)
(* Records are published in order.  Every read of the lane returns the     *)
(* newest record or nothing, and the code reads the lane anew at each      *)
(* step: a start reads it three times, a resync twice.  Files are fetched  *)
(* and installed one at a time; a seed serves the right bytes, others, or  *)
(* none.  The ids of the running miner are mapped files, and its re-gate   *)
(* holds the validation mapping; both are released before an install.      *)
(***************************************************************************)
EXTENDS Integers, FiniteSets, Functions

CONSTANTS
  Names,         \* the file names a record may hold
  Val, Mono,     \* the validation split and the undivided train split
  PartName,      \* [0..n-1 -> Names], the train parts
  Files,         \* [1..NRecords -> [names -> content]], contents positive
  Home,          \* the part hash(identity) % n of this miner, for each n
  Disallowed,    \* records that name a file no miner may fetch
  Wrong,         \* bytes that match no record
  NoPart, MaxCrashes

NRecords == Cardinality(DOMAIN Files)
PartNames == Range(PartName)
FilesOf(r) == IF r = 0 THEN [n \in {} |-> 0] ELSE Files[r]

CorpusAssumption ==
  /\ NRecords \in Nat \ {0} /\ DOMAIN Files = 1..NRecords
  /\ \A r \in 1..NRecords : DOMAIN Files[r] \subseteq Names /\ \A n \in DOMAIN Files[r] : Files[r][n] \in Nat \ {0}
  /\ {Val, Mono} \cup PartNames \subseteq Names /\ Val \notin PartNames
  /\ IsFiniteSet(PartNames) /\ DOMAIN PartName = 0..Cardinality(PartNames)-1
  /\ \A n \in 1..Cardinality(PartNames) : Home[n] \in 0..n-1
  /\ Wrong \notin Nat /\ NoPart \notin Nat /\ MaxCrashes \in Nat

VARIABLES
  adv,           \* the record advertised, 0 when there is none
  disk,          \* the content of each name on this box, 0 when absent
  base,          \* the record the miner believes it verified
  part, total,   \* the train part in use, and how many there are
  pc, job,       \* where the contributor is, and which job the fetch serves
  cand,          \* the record the job was planned from
  rec, todo,     \* the record the fetch itself read, and the names left
  mapped,        \* the ids are mapped
  regate,        \* the re-gate's mapping is the open one
  crashes

vars == <<adv, disk, base, part, total, pc, job, cand, rec, todo, mapped, regate, crashes>>
plan == <<base, part, total>>
maps == <<mapped, regate>>

Init ==
  /\ adv = 1 /\ disk = [n \in Names |-> 0] /\ base = 0 /\ part = NoPart /\ total = 0
  /\ pc = "off" /\ job = "none" /\ cand = 0 /\ rec = 0 /\ todo = {}
  /\ mapped = FALSE /\ regate = FALSE /\ crashes = 0

\* One read of the lane: the newest record, or nothing.
Reads == {adv, 0}

Declared(r) == DOMAIN FilesOf(r) \cap PartNames

\* wanted_data_names: all but the other parts; everything when ours is not there.
WantedNames(r, p) ==
  IF p = NoPart \/ PartName[p] \notin Declared(r) THEN Names
  ELSE Names \ (PartNames \ {PartName[p]})

\* _ids_path: the part when it is on disk, the undivided file otherwise.
TrainName == IF part # NoPart /\ disk[PartName[part]] # 0 THEN PartName[part] ELSE Mono
Held == disk[TrainName] # 0 /\ disk[Val] # 0

Publish ==
  /\ adv < NRecords /\ adv' = adv + 1
  /\ UNCHANGED <<disk, plan, pc, job, cand, rec, todo, maps, crashes>>

-----------------------------------------------------------------------------
\* The fetch: glm_data_autosync, for any of the three jobs.

Begin(j, r, want) == pc' = "read" /\ job' = j /\ cand' = r /\ todo' = want

\* The start: the part is chosen from the record read now.
Start(r) ==
  /\ pc = "off"
  /\ LET n == Cardinality(Declared(r))
         p == IF n = 0 THEN NoPart ELSE Home[n]
     IN part' = p /\ total' = n /\ Begin("start", r, WantedNames(r, p))
  /\ UNCHANGED <<adv, disk, base, rec, maps, crashes>>

\* The fetch reads the record itself: nothing read, or a disallowed name, and it
\* returns as if all were well.
ReadRecord(r) ==
  /\ pc = "read"
  /\ IF r = 0 \/ r \in Disallowed THEN pc' = "done" /\ todo' = {}
     ELSE pc' = "fetch" /\ todo' = todo \cap DOMAIN FilesOf(r)
  /\ rec' = r
  /\ UNCHANGED <<adv, disk, plan, job, cand, maps, crashes>>

\* What a seed may serve, and what is installed of it: only bytes of the right hash.
Served(n) == {FilesOf(rec)[n], Wrong, 0}
\* mutant: what arrives is installed
InstallsAny(n, got) == got # 0
Installs(n, got) == got = FilesOf(rec)[n]

\* One name: the local copy matches, or a seed's bytes verify and replace it, or all fail.
FetchOne(n) ==
  /\ pc = "fetch" /\ n \in todo
  /\ \/ /\ disk[n] = FilesOf(rec)[n]
        /\ todo' = todo \ {n} /\ UNCHANGED <<disk, pc>>
     \/ /\ disk[n] # FilesOf(rec)[n]
        /\ \E got \in Served(n) : Installs(n, got) /\ disk' = [disk EXCEPT ![n] = got]
        /\ todo' = todo \ {n} /\ UNCHANGED pc
     \/ /\ disk[n] # FilesOf(rec)[n]
        /\ pc' = "failed" /\ UNCHANGED <<disk, todo>>
  /\ UNCHANGED <<adv, plan, job, cand, rec, maps, crashes>>

FetchEnd ==
  /\ pc = "fetch" /\ todo = {} /\ pc' = "done"
  /\ UNCHANGED <<adv, disk, plan, job, cand, rec, todo, maps, crashes>>

-----------------------------------------------------------------------------
\* What each job makes of the fetch.

\* The start: nothing unverified is trained on, and the baseline is read once more.
Started(r) ==
  /\ job = "start" /\ pc \in {"done", "failed"}
  /\ IF pc = "failed" \/ ~Held THEN pc' = "off" /\ UNCHANGED <<base, maps>>
     ELSE pc' = "round" /\ base' = r /\ mapped' = TRUE /\ regate' = TRUE
  /\ job' = "none" /\ UNCHANGED <<adv, disk, part, total, cand, rec, todo, crashes>>

Release == mapped' = FALSE /\ regate' = FALSE

\* A resync between two rounds, planned on the record of this tick's manifest.
Resync(r) ==
  /\ pc = "round" /\ Release
  /\ IF r # 0 /\ r # base THEN Begin("resync", r, WantedNames(r, part))
     ELSE pc' = "reopen" /\ job' = "same" /\ UNCHANGED <<cand, todo>>
  /\ UNCHANGED <<adv, disk, plan, rec, crashes>>

\* A fetch that returned makes the planned record the baseline; one that failed does not.
Resynced ==
  /\ job = "resync" /\ pc \in {"done", "failed"}
  /\ base' = IF pc = "done" THEN cand ELSE base
  /\ job' = IF pc = "done" THEN "fresh" ELSE "same"
  /\ pc' = "reopen"
  /\ UNCHANGED <<adv, disk, part, total, cand, rec, todo, maps, crashes>>

Following == (part + 1) % total

\* mutant: the part in use goes before its successor is there
EvictOld(d) == [n \in Names |-> IF n \in PartNames \ {PartName[Following]} THEN 0 ELSE d[n]]
EvictFirst(d) == d

\* The rotation at a round boundary: fetch the next part first.
Rotate ==
  /\ pc = "round" /\ part # NoPart /\ total >= 2 /\ Release
  /\ Begin("rotate", 0, {PartName[Following], Val})
  /\ disk' = EvictFirst(disk)
  /\ UNCHANGED <<adv, plan, rec, crashes>>

\* Only with the next part on disk are the others evicted.
Rotated ==
  /\ job = "rotate" /\ pc \in {"done", "failed"}
  /\ IF pc = "done" /\ disk[PartName[Following]] # 0
     THEN part' = Following /\ disk' = EvictOld(disk) /\ job' = "fresh"
     ELSE UNCHANGED <<part, disk>> /\ job' = "same"
  /\ pc' = "reopen"
  /\ UNCHANGED <<adv, base, total, cand, rec, todo, maps, crashes>>

\* mutant: the re-gate is rebuilt only when the corpus is new
RebindsFresh == job = "fresh"
Rebinds == TRUE

\* The ids are mapped again, and the re-gate with them; a missing file ends the process.
Reopen ==
  /\ pc = "reopen"
  /\ IF Held THEN mapped' = TRUE /\ regate' = Rebinds /\ pc' = "round"
     ELSE pc' = "off" /\ UNCHANGED maps
  /\ job' = "none" /\ UNCHANGED <<adv, disk, plan, cand, rec, todo, crashes>>

\* The process dies anywhere and is started again; files and lane stay.
Crash ==
  /\ pc # "off" /\ crashes < MaxCrashes /\ crashes' = crashes + 1
  /\ pc' = "off" /\ job' = "none" /\ Release
  /\ UNCHANGED <<adv, disk, plan, cand, rec, todo>>

Next ==
  \/ Publish
  \/ \E r \in Reads : Start(r) \/ ReadRecord(r) \/ Started(r) \/ Resync(r)
  \/ \E n \in todo : FetchOne(n)
  \/ FetchEnd
  \/ Resynced
  \/ Rotate
  \/ Rotated
  \/ Reopen
  \/ Crash

Spec == Init /\ [][Next]_vars

-----------------------------------------------------------------------------
\* Properties.

\* What some record says a name holds.
Contents(n) == {Files[r][n] : r \in {q \in 1..NRecords : n \in DOMAIN Files[q]}}

\* "never train on unverified data": whatever seeds serve and wherever a fetch
\* stops, a file on the box is absent or is what an advertised record declares.
VerifiedOnly == \A n \in Names : disk[n] = 0 \/ disk[n] \in Contents(n)

\* "a miner that rotates into nothing does not": once a miner has its corpus, no
\* resync or rotation, complete or not, leaves it without a train or validation file.
NeverBare == pc \in {"round", "reopen"} \/ job \in {"resync", "rotate"} => Held

\* The mapping under the re-gate is open whenever a round may use it: a tick that
\* releases the ids and changes nothing must rebind it all the same.
RegateLive == pc = "round" => mapped /\ regate

\* "the old verified files on disk are left untouched": the corpus trained on is
\* the one of the baseline.  A resync refused after its first file, or one whose
\* second read of the lane finds nothing, breaks it.
BaselineHeld ==
  pc = "round" /\ base # 0 /\ Val \in DOMAIN Files[base] => disk[Val] = Files[base][Val]

\* The corpus of a miner, whatever the lane advertises and wherever a fetch stops: only
\* verified files, never less than a round needs, and a mapping that is open when used.
CorpusKept == VerifiedOnly /\ NeverBare /\ RegateLive
=============================================================================
