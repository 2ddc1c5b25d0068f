-------------------------- MODULE TransactionSystem --------------------------
(***************************************************************************)
(* The distributed transaction system: clients, servers and coordinator    *)
(* joined by their TCP connections, each a FIFO in each direction.  Every  *)
(* step is a step of one goroutine of one process.                         *)
(***************************************************************************)
EXTENDS Naturals, Sequences, FiniteSets, FiniteSetsExt

CONSTANTS Clients, Servers, Keys, Scripts, MaxCrashes,
          NoClient, NoCommand, NoServer, NoValue

VARIABLES
    keyHolder, readHolder, holderDependant, holds, pc, cmd, blockers, alive,
    store, deltas, place, curr, buffered,
    script, typed, taken, inTransaction, transactionId, waitsFor, strays,
    crashed, seen, wrote, commits,
    fromClient,  \* client to server: the socket and messageQueue
    toClient,    \* server to client
    requests,    \* server to coordinator
    replies      \* coordinator to server

\* Every client's bit is scanned; the bound is of the coordinator's own
\* environment, which the servers replace here.
Coord == INSTANCE Coordinator WITH Scanned <- Clients, QueueBound <- 1

\* A written value names the transaction that wrote it.
Values == Clients \X Nat

Srv == INSTANCE Server
User == INSTANCE Client

ASSUME ScriptsAssumption == Scripts \subseteq Seq(User!UserCommands)
ASSUME NullsAssumption ==
    /\ NoClient \notin Clients /\ NoServer \notin Servers
    /\ NoCommand \notin Coord!Commands

coordinator == <<keyHolder, readHolder, holderDependant, holds,
                 pc, cmd, blockers, alive>>
server == <<store, deltas, place, curr, buffered>>
client == <<script, typed, taken, inTransaction, transactionId, waitsFor,
            strays, crashed, seen, wrote, commits>>
vars == <<coordinator, server, client, fromClient, toClient, requests, replies>>

Init ==
    /\ Coord!Init
    /\ Srv!Init
    /\ User!Init
    /\ fromClient = [c \in Clients |-> [s \in Servers |-> <<>>]]
    /\ toClient = [s \in Servers |-> [c \in Clients |-> <<>>]]

CoordinatorStep(s) ==
    /\ Coord!Step(s)
    /\ UNCHANGED <<server, client, fromClient, toClient>>

ServerStep(s, c) ==
    /\ Srv!Step(s, c)
    /\ UNCHANGED <<coordinator, client>>

ClientStep(c) ==
    /\ User!Step(c)
    /\ UNCHANGED <<coordinator, server, requests, replies>>

ClientProceeds(c) ==
    /\ User!Proceed(c)
    /\ UNCHANGED <<coordinator, server, requests, replies>>

Next ==
    \/ \E s \in Servers : CoordinatorStep(s)
    \/ \E s \in Servers, c \in Clients : ServerStep(s, c)
    \/ \E c \in Clients : ClientStep(c)

Spec == Init /\ [][Next]_vars

\* A goroutine that can go on does: the Go scheduler runs every goroutine, the
\* polling loops of server and client never block, a sleep ends.  Nothing is
\* assumed of the user, who may stop typing.
FairSpec ==
    /\ Spec
    /\ \A s \in Servers : WF_vars(CoordinatorStep(s))
    /\ \A s \in Servers, c \in Clients : WF_vars(ServerStep(s, c))
    /\ \A c \in Clients : WF_vars(ClientProceeds(c))

------------------------------------------------------------------------------
(* Properties                                                              *)

Committed == {w.writer : w \in commits}
\* A client numbers its transactions from 0, one for each COMMIT or ABORT.
TransactionIds ==
    LET ends(t) == {i \in DOMAIN t : t[i].op \in {"COMMIT", "ABORT"}}
    IN  0..(Max({Cardinality(ends(t)) : t \in Scripts}) - 1)

Written(o) == store[o[1]][o[2]]

\* The maps, channels and goroutines of the coordinator and of the servers
\* hold what their code can put there.
TypeOK == Coord!TypeOK /\ Srv!TypeOK

\* A server holds only what committed transactions wrote: a write waits in
\* deltas, and BEGIN, ABORT and COMMIT leave none behind for a later
\* transaction of the client to commit.
OnlyCommittedWrites ==
    \A o \in Coord!Objects : Written(o) \in Committed \cup {NoValue}

\* Nothing a transaction reads was written by a transaction that had not
\* committed, other than itself.
NoDirtyReads ==
    \A c \in Clients : \A r \in seen[c] :
        r.value \in Committed \cup {NoValue, User!Transaction(c)}

\* Nothing a client reads was written by another client's transaction that had
\* not committed, whatever late answers it takes for those it waits for.
ReadsCommitted ==
    \A c \in Clients : \A r \in seen[c] :
        r.value \in Committed \cup {NoValue} \/ r.value[1] = c

\* The goroutines of server s that wait for an answer, the lock commands on
\* their way to the coordinator, and the answers read ahead, by whom.
Awaiting(s) == {c \in Clients : place[s][c] = "await"}
Unread(s) == {i \in DOMAIN requests[s] : requests[s][i].op \in {"SET", "GET"}}
ReadAhead(s) == UNION {{c} \X DOMAIN buffered[s][c] : c \in Clients}
Working(s) == IF pc[s] \in {"check", "grant", "marking"} THEN 1 ELSE 0

\* At every server as many goroutines wait for an answer as there are lock
\* commands on their way, at the coordinator, answered, or read ahead by some
\* goroutine: the shared connection loses no answer and invents none.
AnswersAccounted ==
    \A s \in Servers :
        Cardinality(Awaiting(s)) = Cardinality(Unread(s)) + Working(s)
                                    + Len(replies[s]) + Cardinality(ReadAhead(s))

\* Client c has ended its transaction, and every server and the coordinator
\* have handled what it sent them.
Settled(c) ==
    /\ ~inTransaction[c]
    /\ waitsFor[c] = NoServer
    /\ \A s \in Servers :
          /\ fromClient[c][s] = <<>>
          /\ place[s][c] = "idle"
          /\ \A i \in DOMAIN requests[s] : requests[s][i].client # c
          /\ pc[s] # "idle" => cmd[s].client # c

Holding(c) == {o \in Coord!Objects : keyHolder[o] = c \/ c \in readHolder[o]}

\* A transaction leaves no lock behind: a client whose commands have all been
\* handled holds none, whichever server's COMMIT or ABORT released them.
SettledHoldsNothing == \A c \in Clients : Settled(c) => Holding(c) = {}

\* A client that has committed a write of an object does not afterwards read
\* there what one of its earlier transactions wrote, or nothing.
ReadYourCommits ==
    \A c \in Clients, w \in commits : \A r \in seen[c] :
        w.writer[1] = c /\ r.object \in w.objects =>
            /\ r.value # NoValue
            /\ r.value[1] = c => r.value[2] >= w.writer[2]

\* Isolation: a transaction that reads a write of a committed transaction
\* does not read what another of that transaction's writes replaced.
AtomicVisibility ==
    \A c \in Clients, w \in commits : \A r, q \in seen[c] :
        r.value = w.writer /\ q.object \in w.objects => q.value # NoValue

\* Isolation: while its transaction is open a client keeps the write lock of
\* every object whose SET was answered.
WriteLocksKept ==
    \A c \in Clients : inTransaction[c] =>
        \A o \in wrote[c] : keyHolder[o] = c

\* A client does not wait on itself, which only its own ABORT would end: a
\* transaction may read an object and then write it.
NoSelfWait == \A c \in Clients : c \notin holderDependant[c]

\* A client on hold waits for some other client that has yet to end its
\* transaction: the end of the last conflicting transaction lets it go.
HeldForSomeone ==
    \A c \in holds : \E d \in Clients \ {c} : ~Settled(d)

\* Whatever the clients ask for, the coordinator keeps running.
CoordinatorSurvives == alive

\* Atomicity and durability: an object whose SET was answered to transaction n
\* of client c comes to hold what it wrote, unless c never commits it.
CommittedWritesArrive ==
    \A c \in Clients, n \in TransactionIds, o \in Coord!Objects :
        transactionId[c] = n /\ o \in wrote[c]
            ~> \/ Written(o) = <<c, n>>
               \/ [](<<c, n>> \notin Committed)

\* A client that waits for a result gets one.
ResultsArrive ==
    \A c \in Clients : waitsFor[c] # NoServer ~> waitsFor[c] = NoServer

\* A client that waits for a result gets one at the latest when all users have
\* typed everything, and so no transaction is left open.
ResultsArriveInTheEnd ==
    \A c \in Clients :
        waitsFor[c] # NoServer /\ (\A d \in Clients : typed[d] = Len(script[d]))
            ~> waitsFor[c] = NoServer
==============================================================================
