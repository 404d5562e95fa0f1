----------------------------- MODULE SyncRound ------------------------------
(***************************************************************************)
(* A miner on a synchronous lane: it replays every accepted record before  *)
(* the pointer's round, trains, publishes under the name of the round, and *)
(* keeps the record advertised until the coordinator goes on.  The store's *)
(* names are one file that each PUT reads and writes back whole, so the    *)
(* PUTs of two miners can undo each other's.                               *)
(*                                                                         *)
(* A base is the sequence of the merges it holds, a merge the set of the   *)
(* deltas accepted in it; two bases have the same model_root iff they are  *)
(* equal.  The other named objects of the lane are not subject to the race *)
(* here.                                                                   *)
(***************************************************************************)
EXTENDS Integers, Sequences, FiniteSets

CONSTANTS
  Miners,
  Light,                           \* miners of which only the publishing is modelled
  Absent,
  MaxRound, MaxSent, MaxFaults   \* bounds: merges of a run; records; crashes and restarts

SyncAssumption == MaxRound \in Nat

VARIABLES
  log,                      \* the merges of the coordinator's run
  up, runs,                 \* it has advertised a pointer; its runs
  accepted,                 \* the accepted record under the name of each round, or Absent
  names,                    \* the record under each miner's name of each round, or 0
  pc,                       \* "off", "poll", "replay", "train", "write", "hold"
  base, applied, doneLast,  \* the model, applied and done_last
  rnd, root,                \* of the pointer read last
  rec, sent,                \* the record to publish; records trained so far
  man,                      \* the names a PUT has read
  drifted,                  \* some miner has ended with FATAL DRIFT
  crashes

coordinator == <<log, up, runs, accepted>>
process == <<base, applied, doneLast>>
seen == <<rnd, root>>
records == <<rec, sent, man>>
vars == <<coordinator, names, pc, process, seen, records, drifted, crashes>>

Rounds == 0..MaxRound-1
Start(value) == [m \in Miners |-> value]
NoNames == Start([r \in Rounds |-> 0])

Init ==
  /\ log = <<>> /\ up = FALSE /\ runs = 1
  /\ accepted = [r \in Rounds |-> Absent]
  /\ names = NoNames
  /\ pc = Start("off")
  /\ base = Start(<<>>) /\ applied = Start(-1) /\ doneLast = Start(-1)
  /\ rnd = Start(0) /\ root = Start(<<>>)
  /\ rec = Start(0) /\ sent = 0 /\ man = Start(NoNames)
  /\ drifted = FALSE /\ crashes = 0

-----------------------------------------------------------------------------
\* The coordinator, as the miner's loop meets it.

\* The round of the pointer.
Round == Len(log)
Done == Round = MaxRound
Visible == Round > 0 => accepted[Round - 1] = log[Round]
Submitted == {<<m, names[m][Round]>> : m \in {n \in Miners : names[n][Round] # 0}}

ComeUp ==
  /\ ~up /\ up' = TRUE
  /\ UNCHANGED <<log, runs, accepted, names, pc, process, seen, records, drifted, crashes>>
\* The next pointer; the accepted record of its merge may come after it.
Merge ==
  /\ up /\ ~Done /\ Visible
  /\ \E taken \in SUBSET Submitted : log' = Append(log, taken)
  /\ UNCHANGED <<up, runs, accepted, names, pc, process, seen, records, drifted, crashes>>
PutAccepted ==
  /\ ~Visible /\ accepted' = [accepted EXCEPT ![Round - 1] = log[Round]]
  /\ UNCHANGED <<log, up, runs, names, pc, process, seen, records, drifted, crashes>>
\* A coordinator that starts over has round 0 and no merges; the store deletes nothing.
StartOver ==
  /\ up /\ ~Done /\ crashes + runs <= MaxFaults
  /\ log # <<>> /\ log' = <<>> /\ runs' = runs + 1
  /\ UNCHANGED <<up, accepted, names, pc, process, seen, records, drifted, crashes>>

-----------------------------------------------------------------------------
\* The miner.

At(m, from) == pc[m] = from
Goes(m, to) == pc' = [pc EXCEPT ![m] = to]
\* A tick ends; what it had read goes with it.
Tick(m, to) ==
  /\ Goes(m, to)
  /\ rnd' = [rnd EXCEPT ![m] = 0] /\ root' = [root EXCEPT ![m] = <<>>]
  /\ rec' = [rec EXCEPT ![m] = 0] /\ man' = [man EXCEPT ![m] = NoNames]
\* So does the process, and its model.
Dies(m) ==
  /\ Tick(m, "off")
  /\ base' = [base EXCEPT ![m] = <<>>] /\ applied' = [applied EXCEPT ![m] = -1]
  /\ doneLast' = [doneLast EXCEPT ![m] = -1]

\* A process waits for the first pointer, on the frozen base.
Boot(m) ==
  /\ At(m, "off") /\ up /\ Goes(m, "poll")
  /\ UNCHANGED <<coordinator, names, process, seen, records, drifted, crashes>>

\* A pointer of a round this process has not published for.
ReadPointer(m) ==
  /\ At(m, "poll") /\ ~Done /\ Round > doneLast[m]
  /\ Goes(m, IF m \in Light THEN "train" ELSE "replay")
  /\ rnd' = [rnd EXCEPT ![m] = Round] /\ root' = [root EXCEPT ![m] = log]
  /\ UNCHANGED <<coordinator, names, process, records, drifted, crashes>>
ReadDone(m) ==
  /\ At(m, "poll") /\ Done /\ Dies(m)
  /\ UNCHANGED <<coordinator, names, sent, drifted, crashes>>

\* mutant: the replay begins where the miner published last
ReplayFromDone(m) == IF doneLast[m] > applied[m] THEN doneLast[m] + 1 ELSE applied[m] + 1
ReplayFrom(m) == applied[m] + 1
Behind(m) == ReplayFrom(m) < rnd[m]
Record(m) == accepted[ReplayFrom(m)]
Fold(m) ==
  /\ At(m, "replay") /\ Behind(m) /\ Record(m) # Absent
  /\ base' = [base EXCEPT ![m] = Append(@, Record(m))]
  /\ applied' = [applied EXCEPT ![m] = ReplayFrom(m)]
  /\ UNCHANGED <<coordinator, names, pc, doneLast, seen, records, drifted, crashes>>
\* The re-gate finds the miner's own delta worse on its own text; or the record does not
\* come within round_wait.
Refuse(m) ==
  /\ At(m, "replay") /\ Behind(m)
  /\ Record(m) # Absent => \E d \in Record(m) : d[1] = m
  /\ Dies(m)
  /\ UNCHANGED <<coordinator, names, sent, drifted, crashes>>

\* mutant: the root is not compared
OnAnyBase(m) == TRUE
OnBase(m) == base[m] = root[m]
StartTraining(m) ==
  /\ At(m, "replay") /\ ~Behind(m) /\ OnBase(m) /\ Goes(m, "train")
  /\ UNCHANGED <<coordinator, names, process, seen, records, drifted, crashes>>
Drift(m) ==
  /\ At(m, "replay") /\ ~Behind(m) /\ ~OnBase(m) /\ Dies(m) /\ drifted' = TRUE
  /\ UNCHANGED <<coordinator, names, sent, crashes>>

\* A round that runs out of memory is skipped.
Skip(m) ==
  /\ At(m, "train") /\ Tick(m, "poll")
  /\ UNCHANGED <<coordinator, names, process, sent, drifted, crashes>>
\* put_json_named: the store reads its names, and writes them back with this one.
Publish(m) ==
  /\ At(m, "train") /\ sent < MaxSent /\ Goes(m, "write")
  /\ sent' = sent + 1 /\ rec' = [rec EXCEPT ![m] = sent'] /\ man' = [man EXCEPT ![m] = names]
  /\ UNCHANGED <<coordinator, names, process, seen, drifted, crashes>>
Write(m) ==
  /\ At(m, "write") /\ Goes(m, "hold")
  /\ names' = [man[m] EXCEPT ![m][rnd[m]] = rec[m]]
  /\ man' = [man EXCEPT ![m] = NoNames]
  /\ doneLast' = [doneLast EXCEPT ![m] = rnd[m]]
  /\ UNCHANGED <<coordinator, base, applied, seen, rec, sent, drifted, crashes>>

Advertised(m) == names[m][rnd[m]] = rec[m]
PastRound(m) == Done \/ Round > rnd[m]
Reassert(m) ==
  /\ At(m, "hold") /\ ~PastRound(m) /\ ~Advertised(m) /\ Goes(m, "write")
  /\ man' = [man EXCEPT ![m] = names]
  /\ UNCHANGED <<coordinator, names, process, seen, rec, sent, drifted, crashes>>
\* The coordinator has gone on, or round_wait is over and the record is not looked after
\* any more.
Release(m) ==
  /\ At(m, "hold") /\ Tick(m, "poll")
  /\ UNCHANGED <<coordinator, names, process, sent, drifted, crashes>>
Crash(m) ==
  /\ pc[m] # "off" /\ crashes + runs <= MaxFaults /\ crashes' = crashes + 1 /\ Dies(m)
  /\ UNCHANGED <<coordinator, names, sent, drifted>>

Publishing(m) == Write(m) \/ Reassert(m)
Miner(m) ==
  \/ Boot(m) \/ ReadPointer(m) \/ ReadDone(m) \/ Fold(m) \/ Refuse(m)
  \/ StartTraining(m) \/ Drift(m) \/ Skip(m) \/ Publish(m) \/ Publishing(m)
  \/ Release(m) \/ Crash(m)
Next == ComeUp \/ Merge \/ PutAccepted \/ StartOver \/ \E m \in Miners : Miner(m)

\* A miner that looks after its record goes on doing so.
Fairness == \A m \in Miners : WF_vars(Publishing(m))
Spec == Init /\ [][Next]_vars /\ Fairness

-----------------------------------------------------------------------------
\* Properties.

\* "so our base == coordinator's": what a miner trains on is the merges of the pointer's
\* round, though the coordinator may have started over under the replay.
OnAdvertised == \A m \in Miners \ Light : pc[m] = "train" => base[m] = root[m]

\* "replicas diverged": on a lane of one run they never do, whatever rounds a miner skips
\* and wherever it starts again.
NeverDrifts == runs = 1 => ~drifted

\* "Re-asserting it whenever it falls out of the manifest self-heals that race": the record
\* of a miner that holds it comes back, though PUTs of others take it away or bring back
\* the one of the process before.
SelfHeals(m) ==
  (pc[m] = "hold" /\ names[m][rnd[m]] # rec[m])
    ~> (names[m][rnd[m]] = rec[m] \/ PastRound(m) \/ pc[m] \in {"poll", "off"})

\* The base of a synchronous round is the advertised one.
BasesAgree == OnAdvertised /\ NeverDrifts

\* "Keep the record ADVERTISED until the coordinator advances past this round": nobody
\* does once round_wait is over, and the miner polls for a newer round from then on.
HeldToTheEnd(m) ==
  \A r \in 0..MaxRound-1, s \in 1..MaxSent :
    (pc[m] = "hold" /\ rnd[m] = r /\ rec[m] = s /\ names[m][r] # s)
      ~> (names[m][r] = s \/ Done \/ Round > r \/ pc[m] = "off")
=============================================================================
