---------------------------- MODULE MCPeerNetwork ----------------------------
(* Instances of PeerNetwork for TLC.                                       *)
EXTENDS PeerNetwork

CONSTANTS n1, n2, n3, t1

Tell(n, m) == [to |-> n, introduce |-> TRUE, what |-> m]
Send(n, tx) == [to |-> n, introduce |-> FALSE, what |-> tx]

\* n2 joins and is told of n1; then n3 joins and is told of n1 and of n2.  Before n3, or
\* at last, n1 gets a transaction.
Joining == <<Tell(n2, n1), Send(n1, t1), Tell(n3, n1), Tell(n3, n2)>>
JoiningThenSend == <<Tell(n2, n1), Tell(n3, n1), Tell(n3, n2), Send(n1, t1)>>

\* n2 is told of n1, and n3 of n2.
Line == <<Tell(n2, n1), Tell(n3, n2)>>
LineSend == <<Tell(n2, n1), Send(n1, t1), Tell(n3, n2)>>

\* n2 is told of n3 and of n1; then n1 gets a transaction.
Hub == <<Tell(n2, n3), Tell(n2, n1), Send(n1, t1)>>

\* n3 is told of n2, and n1 of n3, twice.
Twice == <<Tell(n3, n2), Tell(n1, n3), Tell(n1, n3)>>
==============================================================================
