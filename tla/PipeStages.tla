----------------------------- MODULE PipeStages -----------------------------
(***************************************************************************)
(* The fleet-hosted pipeline: a driver sends a prompt and then one token   *)
(* after the other into stage 0, every stage forwards what it finds under  *)
(* its own names to the next, and the driver samples from what the last    *)
(* one publishes.  All of it goes through the names of the store, which a  *)
(* stage reads as one listing and then works through.                      *)
(*                                                                         *)
(* Segment 0 of a stream is its prompt (p), segment t+1 its token t (tt).  *)
(* A message is [of, seg], the driver and the segment it was computed for, *)
(* as long as every stage below had exactly the segments before it in its  *)
(* cache, and Wrong otherwise.                                             *)
(***************************************************************************)
EXTENDS Integers, Sequences, Functions, FiniteSetsExt

CONSTANTS
  Drivers,
  Streams, StreamOf,    \* s<second>-<n>: the name of the stream each driver opens
  Depths,               \* n_stages: how many stages a run of the pipeline may have
  MaxTokens,            \* max_new_tokens of each driver
  Wrong,
  InOrder,              \* the store lists names in the order they were first put
  MaxFaults             \* bound: names the store loses, stages that start again

Stages == 0..Max(Depths)-1

VARIABLES
  depth,                \* the stages of this run
  listing, content,     \* the names of the store, and what is under each
  pc, seg, got,         \* of each driver: what it does, its segment, what it has received
  todo,                 \* of each stage: what is left of its listing, each name at its place
  seen, ended, cache,   \* seen, done_seen and caches
  lost, restarts

store == <<listing, content>>
driver == <<pc, seg, got>>
stage == <<todo, seen, ended, cache>>
faults == <<lost, restarts>>
vars == <<depth, store, driver, stage, faults>>

Init ==
  /\ depth \in Depths
  /\ listing = <<>> /\ content = [n \in {} |-> Wrong]
  /\ pc \in [Drivers -> {"send", "off"}] /\ seg = [d \in Drivers |-> 0]
  /\ got = [d \in Drivers |-> <<>>]
  /\ todo = [k \in Stages |-> {}] /\ seen = [k \in Stages |-> {}]
  /\ ended = [k \in Stages |-> {}]
  /\ cache = [k \in Stages |-> [s \in Streams |-> <<>>]]
  /\ lost = 0 /\ restarts = 0

Name(s, i, hop) == [stream |-> s, seg |-> i, hop |-> hop]
\* Hop -1 is the stream's done.
DoneOf(s) == Name(s, 0, -1)
\* A name put again keeps its place.
Put(name, body) ==
  /\ listing' = IF name \in DOMAIN content THEN listing ELSE Append(listing, name)
  /\ content' = [n \in DOMAIN content \cup {name} |-> IF n = name THEN body ELSE content[n]]

-----------------------------------------------------------------------------
\* The driver.

Own(d, i) == [of |-> d, seg |-> i]
InOf(d) == Name(StreamOf[d], seg[d], 0)
OutOf(d) == Name(StreamOf[d], seg[d], depth)

Send(d) ==
  /\ pc[d] = "send" /\ pc' = [pc EXCEPT ![d] = "wait"]
  /\ Put(InOf(d), Own(d, seg[d]))
  /\ UNCHANGED <<seg, got, stage, faults>>
\* The next token, or the end of the text.
Receive(d) ==
  /\ pc[d] = "wait" /\ OutOf(d) \in DOMAIN content
  /\ got' = [got EXCEPT ![d] = Append(@, content[OutOf(d)])]
  /\ \/ /\ seg[d] < MaxTokens[d]
        /\ seg' = [seg EXCEPT ![d] = @ + 1] /\ pc' = [pc EXCEPT ![d] = "send"]
     \/ pc' = [pc EXCEPT ![d] = "finish"] /\ UNCHANGED seg
  /\ UNCHANGED <<store, stage, faults>>
\* The prompt is sent outside of the try: a stream that ends there is not finished.
TimeOut(d) ==
  /\ pc[d] = "wait" /\ pc' = [pc EXCEPT ![d] = IF seg[d] = 0 THEN "off" ELSE "finish"]
  /\ UNCHANGED <<store, seg, got, stage, faults>>
Finish(d) ==
  /\ pc[d] = "finish" /\ pc' = [pc EXCEPT ![d] = "off"]
  /\ Put(DoneOf(StreamOf[d]), Own(d, 0))
  /\ UNCHANGED <<seg, got, stage, faults>>
Driver(d) == Send(d) \/ Receive(d) \/ TimeOut(d) \/ Finish(d)

-----------------------------------------------------------------------------
\* A stage.

Mine(k, n) == n.hop \in {k, -1}
New(k) == {i \in DOMAIN listing : Mine(k, listing[i]) /\ listing[i] \notin seen[k]}
Todo(k) == {[at |-> i, name |-> listing[i], body |-> content[listing[i]]] : i \in New(k)}
List(k) ==
  /\ todo[k] = {} /\ New(k) # {}
  /\ todo' = [todo EXCEPT ![k] = Todo(k)]
  /\ UNCHANGED <<store, driver, seen, ended, cache, faults>>

\* The next of them: in the order of their places, or in any.
First(t, k) == InOrder => \A u \in todo[k] : t.at <= u.at

\* mutant: messages of a finished stream are served
ServesAll(k, s) == TRUE
Live(k, s) == s \notin ended[k]
\* mutant: one cache for whatever comes
CacheOfAny(k, s) == LET full == {r \in Streams : cache[k][r] # <<>>} IN
  IF full = {} THEN s ELSE CHOOSE r \in full : TRUE
CacheOf(k, s) == s
Forward(held, input) ==
  IF input # Wrong /\ held = [i \in 1..input.seg |-> [input EXCEPT !.seg = i - 1]]
  THEN input ELSE Wrong
Handle(k) ==
  /\ \E t \in todo[k] :
       LET s == t.name.stream IN
       /\ First(t, k)
       /\ todo' = [todo EXCEPT ![k] = @ \ {t}]
       /\ seen' = [seen EXCEPT ![k] = @ \cup {t.name}]
       /\ \/ /\ t.name.hop = -1
             /\ ended' = [ended EXCEPT ![k] = @ \cup {s}]
             /\ cache' = [cache EXCEPT ![k][s] = <<>>]
             /\ UNCHANGED store
          \/ /\ t.name.hop = k /\ ~Live(k, s)
             /\ UNCHANGED <<store, ended, cache>>
          \/ /\ t.name.hop = k /\ Live(k, s)
             /\ Put([t.name EXCEPT !.hop = k + 1], Forward(cache[k][CacheOf(k, s)], t.body))
             /\ cache' = [cache EXCEPT ![k][CacheOf(k, s)] = Append(@, t.body)]
             /\ UNCHANGED ended
  /\ UNCHANGED <<driver, faults>>
Serve(k) == List(k) \/ Handle(k)

\* mutant: a stage that starts serves what comes from then on
StartsHere == DOMAIN content
StartsWith == {}
\* Out of a failed read, a failed PUT or an operator's hand: its caches are gone, and it
\* works through all the names again.
Restart(k) ==
  /\ lost + restarts < MaxFaults /\ restarts' = restarts + 1
  /\ seen' = [seen EXCEPT ![k] = StartsWith]
  /\ todo' = [todo EXCEPT ![k] = {}] /\ ended' = [ended EXCEPT ![k] = {}]
  /\ cache' = [cache EXCEPT ![k] = [s \in Streams |-> <<>>]]
  /\ UNCHANGED <<store, driver, lost>>

\* A named PUT of somebody else, which had read the names before, takes one away.
Lose ==
  /\ lost + restarts < MaxFaults /\ lost' = lost + 1
  /\ \E i \in DOMAIN listing :
       /\ listing' = SubSeq(listing, 1, i - 1) \o SubSeq(listing, i + 1, Len(listing))
       /\ content' = [n \in DOMAIN content \ {listing[i]} |-> content[n]]
  /\ UNCHANGED <<driver, stage, restarts>>

Next ==
  /\ \/ \E d \in Drivers : Driver(d)
     \/ \E k \in Stages : k < depth /\ (Serve(k) \/ Restart(k))
     \/ Lose
  /\ UNCHANGED depth

\* Stages go on serving, and a driver goes on polling.
Serves(k) == k < depth /\ Serve(k) /\ UNCHANGED depth
Receives(d) == Receive(d) /\ UNCHANGED depth
Fairness == (\A k \in Stages : WF_vars(Serves(k))) /\ (\A d \in Drivers : WF_vars(Receives(d)))
Spec == Init /\ [][Next]_vars /\ Fairness

-----------------------------------------------------------------------------
\* Properties.

\* What a driver samples from is the activation of its own text at this token.
Faithful == \A d \in Drivers : \A i \in DOMAIN got[d] : got[d][i] = Own(d, i - 1)

\* "evicted on the stream's done-advert": no message of a finished stream that comes late
\* makes a stage hold a cache for it again.
Evicted == \A k \in Stages : \A s \in ended[k] : cache[k][s] = <<>>

\* Both, though stages start again in the middle of a stream or the store loses a name.  It
\* takes both to confuse a driver: a stage that starts again, and meets a name less than
\* before, has a hole in its cache.
Sound == ((lost = 0 \/ restarts = 0) => Faithful) /\ Evicted

\* A driver that waits is answered or gives up, however stages restart; a name that is lost
\* is not put again.
Served(d) == (pc[d] = "wait") ~> (pc[d] # "wait" \/ lost > 0)

\* The caches of a stage are those of streams somebody still drives.  A prompt that timed
\* out is never finished, nor is the stream of a driver whose done was lost.
CachesDriven ==
  \A k \in Stages, s \in Streams :
    cache[k][s] # <<>> =>
      \E d \in Drivers : StreamOf[d] = s /\ (pc[d] # "off" \/ DoneOf(s) \in DOMAIN content)
=============================================================================
