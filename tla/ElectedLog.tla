----------------------------- MODULE ElectedLog -----------------------------
(***************************************************************************)
(* What the round authority promises: one settlement log, at most one      *)
(* block a round, that every node holds a prefix of.  A node that holds    *)
(* the whole log may extend it; any other node learns the next block.      *)
(***************************************************************************)
EXTENDS Naturals, Sequences

CONSTANTS Nodes, Linked(_, _)   \* Linked(log, b): b's header follows log's last

VARIABLES log, known            \* the log; how much of it each node holds

Init == log = <<>> /\ known = [n \in Nodes |-> 0]

Above(b) == \A i \in DOMAIN log : log[i].hdr.height < b.hdr.height

Extend(n, b) ==
  /\ known[n] = Len(log)
  /\ Above(b) /\ Linked(log, b)
  /\ log' = Append(log, b)
  /\ known' = [known EXCEPT ![n] = @ + 1]

Learn(n) ==
  /\ known[n] < Len(log)
  /\ known' = [known EXCEPT ![n] = @ + 1]
  /\ log' = log

\* The block of an Extend step is the last of log': no set of blocks is named.
Next == \E n \in Nodes : Learn(n) \/ (log' # <<>> /\ Extend(n, log'[Len(log')]))

Spec == Init /\ [][Next]_<<log, known>>
=============================================================================
