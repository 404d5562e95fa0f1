------------------------------ MODULE LayerClaim ------------------------------
(***************************************************************************)
(* The gradient cache of a layer and the round of a miner that claims it:  *)
(* a producer writes the cache, chunk by chunk and its manifest last; the  *)
(* coordinator advertises what the producer finished; the miner fetches    *)
(* the files, verifies them, trains the whole layer from them and          *)
(* publishes one record per coordinate.                                    *)
(*                                                                         *)
(* A cache is written in generations; the content of file n in generation  *)
(* g is <<n, g>>, and the manifest is the file 0.  A generation has its    *)
(* number of chunks, and a campaign.                                       *)
(***************************************************************************)
EXTENDS Integers, FiniteSets

CONSTANTS
  NChunks,      \* [generation -> number of chunks]
  Foreign,      \* generations of another campaign, layer, corpus or fold
  Coords,       \* the coordinates of the layer this miner holds
  Absent, Wrong, MaxCrashes

Gens == DOMAIN NChunks
FileNames == 0..2                  \* bound: two chunks at most

LayerAssumption ==
  /\ NChunks \in [Gens -> 1..2] /\ Foreign \subseteq Gens
  /\ Absent # Wrong /\ MaxCrashes \in Nat /\ IsFiniteSet(Coords)

VARIABLES
  store,        \* the producer's directory: the content of each file
  writing,      \* the generation being written, 0 when none
  nwritten,     \* its chunks already in place
  adv,          \* the generation the lane advertises, 0 for none
  settled,      \* the producer rests; from now on the lane and the seeds answer
  local,        \* the miner's cache directory
  pc,           \* "off", "fetch", "check", "verify", "train", "publish"
  rec, at,      \* the record the fetch read, and the file it is at
  used,         \* the chunks the dose was trained from
  own,          \* the weights of the layer in this process, told apart from those before the dose
  trainedOn,    \* own, when the dose was trained
  left,         \* coordinates still to publish
  crashes

vars == <<store, writing, nwritten, adv, settled, local, pc, rec, at, used, own, trainedOn,
          left, crashes>>
producer == <<store, writing, nwritten, adv, settled>>
round == <<used, own, trainedOn, left>>
fetch == <<rec, at>>

FilesIn(g) == 0..NChunks[g]
Empty == [n \in FileNames |-> Absent]

Init ==
  /\ store = Empty /\ writing = 0 /\ nwritten = 0 /\ adv = 0 /\ settled = FALSE
  /\ local = Empty /\ pc = "off" /\ rec = 0 /\ at = 0
  /\ used = {} /\ own = 0 /\ trainedOn = 0 /\ left = {} /\ crashes = 0

\* The process ends and its copy of the layer with it; a new one starts over.
Ends == pc' = "off" /\ rec' = 0 /\ at' = 0 /\ own' = 0 /\ trainedOn' = 0 /\ left' = {} /\ used' = {}

Crashes == crashes < MaxCrashes /\ crashes' = crashes + 1

-----------------------------------------------------------------------------
\* The producer: GradCacheWriter.

\* mutant: the manifest of the generation before stays while its chunks are replaced
OpenKeeping == UNCHANGED store
OpenClearing == store' = [store EXCEPT ![0] = Absent]

\* A writer opens the directory and removes the old manifest.
WriterOpen(g) ==
  /\ writing = 0 /\ ~settled /\ OpenClearing
  /\ writing' = g /\ nwritten' = 0
  /\ UNCHANGED <<adv, settled, local, pc, fetch, round, crashes>>

\* _flush: one chunk, written aside and renamed.
WriterFlush ==
  /\ writing # 0 /\ nwritten < NChunks[writing]
  /\ nwritten' = nwritten + 1
  /\ store' = [store EXCEPT ![nwritten + 1] = <<nwritten + 1, writing>>]
  /\ UNCHANGED <<writing, adv, settled, local, pc, fetch, round, crashes>>

\* close: the manifest, last.
WriterClose ==
  /\ writing # 0 /\ nwritten = NChunks[writing]
  /\ store' = [store EXCEPT ![0] = <<0, writing>>] /\ writing' = 0 /\ nwritten' = 0
  /\ UNCHANGED <<adv, settled, local, pc, fetch, round, crashes>>

WriterCrash ==
  /\ writing # 0 /\ Crashes /\ writing' = 0 /\ nwritten' = 0
  /\ UNCHANGED <<store, adv, settled, local, pc, fetch, round>>

\* The coordinator advertises the cache it finds whole; from some point on the
\* producer rests and the seeds serve it.
Advertise ==
  /\ writing = 0 /\ store[0] \notin {Absent, Wrong} /\ adv' = store[0][2]
  /\ settled' \in {settled, TRUE}
  /\ UNCHANGED <<store, writing, nwritten, local, pc, fetch, round, crashes>>

-----------------------------------------------------------------------------
\* The miner: fetch_cache.

\* The record is read, or cannot be read: then what is in the directory has to do.
FetchBegin ==
  /\ pc = "off" /\ rec' \in (IF settled THEN {adv} ELSE {adv, 0})
  /\ pc' = IF rec' = 0 THEN "verify" ELSE "fetch"
  /\ UNCHANGED <<producer, local, at, round, crashes>>

Served(n) == IF settled THEN {store[n]} ELSE {store[n], Wrong}

\* mutant: a file that is there is not fetched again
KeepsAny(n) == local[n] # Absent
Keeps(n) == local[n] = <<n, rec>>

\* The files in the order of their names, the manifest first; bytes of the right hash
\* stay, others are downloaded over them.
FetchFile ==
  /\ pc = "fetch" /\ at \in FilesIn(rec)
  /\ \/ Keeps(at) /\ at' = at + 1 /\ UNCHANGED <<local, pc>>
     \/ /\ ~Keeps(at)
        /\ \E got \in Served(at) : local' = [local EXCEPT ![at] = got]
        /\ pc' = "check" /\ UNCHANGED at
  /\ UNCHANGED <<producer, rec, round, crashes>>

\* The hash of what arrived; a wrong file is removed, and the error ends the process.
CheckFile ==
  /\ pc = "check"
  /\ \/ /\ local[at] = <<at, rec>> /\ pc' = "fetch" /\ at' = at + 1
        /\ UNCHANGED <<local, rec, round>>
     \/ /\ local[at] # <<at, rec>>
        /\ local' = [local EXCEPT ![at] = Absent] /\ Ends
  /\ UNCHANGED <<producer, crashes>>

FetchEnd ==
  /\ pc = "fetch" /\ at \notin FilesIn(rec) /\ pc' = "verify" /\ rec' = 0 /\ at' = 0
  /\ UNCHANGED <<producer, local, round, crashes>>

\* mutant: the chunks are counted but not hashed
VerifiesNames(g) == \A n \in 1..NChunks[g] : local[n] # Absent
\* verify_cache: the manifest, every chunk it lists, and what the miner expects.
VerifiesChunks(g) == \A n \in 1..NChunks[g] : local[n] = <<n, g>>
Verified ==
  /\ local[0] \notin {Absent, Wrong}
  /\ local[0][2] \notin Foreign /\ VerifiesChunks(local[0][2])

\* A cache that does not verify ends the process.
Verify ==
  /\ pc = "verify"
  /\ \/ Verified /\ pc' = "train" /\ UNCHANGED <<fetch, round>>
     \/ ~Verified /\ Ends
  /\ UNCHANGED <<producer, local, crashes>>

\* train_layer: read the cache, find the dose and add it to the layer this process holds.
Train ==
  /\ pc = "train"
  /\ used' = {local[n] : n \in 1..NChunks[local[0][2]]}
  /\ trainedOn' = own /\ own' = 1 - own /\ left' = Coords /\ pc' = "publish"
  /\ UNCHANGED <<producer, local, fetch, crashes>>

\* A dose that cannot be landed ends the process.
Refuse ==
  /\ pc = "train" /\ Ends
  /\ UNCHANGED <<producer, local, crashes>>

\* publish_layer_claim_records: a record for one coordinate, with the root of the
\* coordinate as it is now, own.
Publish(c) ==
  /\ pc = "publish" /\ c \in left /\ left' = left \ {c}
  /\ UNCHANGED <<producer, local, pc, fetch, used, own, trainedOn, crashes>>

\* The next round starts over, with the layer as it is.
RoundEnd ==
  /\ pc = "publish" /\ left = {} /\ pc' = "off" /\ used' = {} /\ trainedOn' = 0
  /\ UNCHANGED <<producer, local, fetch, own, left, crashes>>

MinerCrash ==
  /\ pc # "off" /\ Crashes /\ Ends
  /\ UNCHANGED <<producer, local>>

Miner ==
  \/ FetchBegin \/ FetchFile \/ CheckFile \/ FetchEnd \/ Verify \/ Train \/ Refuse
  \/ \E c \in left : Publish(c)
  \/ RoundEnd

Next ==
  \/ \E g \in Gens : WriterOpen(g)
  \/ WriterFlush
  \/ WriterClose
  \/ WriterCrash
  \/ Advertise
  \/ Miner
  \/ MinerCrash

\* The miner keeps running.
Fairness == WF_vars(Miner)
Spec == Init /\ [][Next]_vars /\ Fairness

-----------------------------------------------------------------------------
\* Properties.

\* "a partial cache can never be mistaken for a whole one": the producer's manifest
\* stands only over the chunks it was written for.
ManifestDescribes ==
  store[0] # Absent => \A n \in FilesIn(store[0][2]) : store[n] = <<n, store[0][2]>>

\* "training on someone else's gradients produces a plausible-looking wrong delta":
\* whatever seeds serve, the producer rewrites and crashes leave half done, a dose is
\* trained from all chunks of one generation of this campaign.
TrainsWhole ==
  used # {} => \E g \in Gens \ Foreign : used = {<<n, g>> : n \in 1..NChunks[g]}

\* A cache that stays advertised is trained from in the end: what failed downloads and
\* crashes left in the miner's directory never keeps it out.
TrainsAtLast ==
  [](settled /\ adv \notin Foreign => <>(pc = "train"))

\* "did this miner train against MY current weights for THIS expert": the root sent
\* with a delta is the root of the weights it was trained on.
RootOfTrained == pc = "publish" => own = trainedOn

\* Between the producer's disk and the miner's dose no generation is mixed with another.
WholeCaches == ManifestDescribes /\ TrainsWhole
=============================================================================
