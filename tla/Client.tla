-------------------------------- MODULE Client --------------------------------
(***************************************************************************)
(* The clients of the distributed transaction system                       *)
(* (DistributedTransactionNetwork/client/main.go).  The main loop takes    *)
(* the commands the user types and sends them to the servers; it waits for *)
(* the result of a GET or a SET before it takes the next command.          *)
(*                                                                         *)
(* Each GET starts a getInput goroutine that never ends.  Once its GET is  *)
(* over it still reads the connection, and what it reads is lost: one      *)
(* result in its channel, of capacity one, and one it blocks with.  The    *)
(* model counts the results such goroutines may still swallow.             *)
(*                                                                         *)
(* A broadcast to the servers is one step: a server handles its copy as    *)
(* late as it likes, and a client that stops half way is Crash.            *)
(***************************************************************************)
EXTENDS Naturals, Sequences, FiniteSets

CONSTANTS Clients, Servers, Keys,
          Scripts,      \* the sequences of commands a user may type
          NoServer,     \* the server of a client that waits for none
          MaxCrashes    \* bound: the clients that stop in a broadcast

UserCommands ==
    [op : {"BEGIN", "COMMIT", "ABORT"}]
        \cup [op : {"GET", "SET"}, server : Servers, key : Keys]

VARIABLES
    script,         \* what the user of each client types, in the end
    typed,          \* how much of it is typed: appended to messageQueue
    taken,          \* how much of it the main loop has taken
    inTransaction,
    transactionId,
    waitsFor,       \* the server whose result the main loop waits for
    strays,         \* results stray getInput goroutines may still swallow
    crashed,        \* the clients that stopped in a broadcast
    seen,           \* history: the results of this transaction's GETs
    wrote,          \* history: the objects whose SET was answered in it
    commits,        \* history: what committed transactions wrote
    fromClient,     \* commands on their way, fromClient[c][s]
    toClient        \* results on their way, toClient[s][c]

input == <<script, typed>>
transaction == <<inTransaction, transactionId>>
history == <<seen, wrote, commits>>
private == <<input, taken, transaction, waitsFor, strays, crashed, history>>
vars == <<private, fromClient, toClient>>

Init ==
    /\ script \in [Clients -> Scripts]
    /\ typed = [c \in Clients |-> 0]
    /\ taken = [c \in Clients |-> 0]
    /\ inTransaction = [c \in Clients |-> FALSE]
    /\ transactionId = [c \in Clients |-> 0]
    /\ waitsFor = [c \in Clients |-> NoServer]
    /\ strays = [c \in Clients |-> [s \in Servers |-> 0]]
    /\ crashed = {}
    /\ seen = [c \in Clients |-> {}]
    /\ wrote = [c \in Clients |-> {}]
    /\ commits = {}

------------------------------------------------------------------------------
\* What a transaction writes stands for the transaction: the client and its
\* identifier.  (The program writes what the user typed.)
Transaction(c) == <<c, transactionId[c]>>

\* The command last taken; while the client waits, the one it waits for.
Current(c) == script[c][taken[c]]

\* readStdin: the user types one more command.
Type(c) ==
    /\ typed[c] < Len(script[c])
    /\ typed' = [typed EXCEPT ![c] = @ + 1]
    /\ UNCHANGED <<script, taken, transaction, waitsFor, strays, crashed,
                   history, fromClient, toClient>>

Take(c, op) ==
    /\ c \notin crashed
    /\ waitsFor[c] = NoServer
    /\ taken[c] < typed[c]
    /\ script[c][taken[c] + 1].op = op
    /\ taken' = [taken EXCEPT ![c] = @ + 1]

Broadcast(c, op, to) ==
    fromClient' = [fromClient EXCEPT ![c] = [s \in Servers |->
        IF s \in to THEN Append(@[s], [op |-> op]) ELSE @[s]]]

EndTransaction(c) ==
    /\ inTransaction' = [inTransaction EXCEPT ![c] = FALSE]
    /\ transactionId' = [transactionId EXCEPT ![c] = @ + 1]
    /\ seen' = [seen EXCEPT ![c] = {}]
    /\ wrote' = [wrote EXCEPT ![c] = {}]

RecordCommit(c) ==
    commits' = commits \cup {[writer |-> Transaction(c), objects |-> wrote[c]]}

\* A command refused because of inTransaction.  SET and ABORT are not.
Ignore(c) ==
    /\ \/ Take(c, "BEGIN") /\ inTransaction[c]
       \/ Take(c, "GET") /\ ~inTransaction[c]
       \/ Take(c, "COMMIT") /\ ~inTransaction[c]
    /\ UNCHANGED <<input, transaction, waitsFor, strays, crashed, history,
                   fromClient, toClient>>

Begin(c) ==
    /\ Take(c, "BEGIN")
    /\ ~inTransaction[c]
    /\ Broadcast(c, "BEGIN", Servers)
    /\ inTransaction' = [inTransaction EXCEPT ![c] = TRUE]
    /\ seen' = [seen EXCEPT ![c] = {}]
    /\ wrote' = [wrote EXCEPT ![c] = {}]
    /\ UNCHANGED <<input, transactionId, waitsFor, strays, crashed, commits,
                   toClient>>

Get(c) ==
    LET m == script[c][taken[c] + 1]
    IN  /\ Take(c, "GET")
        /\ inTransaction[c]
        /\ fromClient' = [fromClient EXCEPT ![c][m.server] =
                            Append(@, [op |-> "GET", key |-> m.key])]
        /\ waitsFor' = [waitsFor EXCEPT ![c] = m.server]
        /\ UNCHANGED <<input, transaction, strays, crashed, history, toClient>>

\* SET goes on whether or not a transaction is open.
Set(c) ==
    LET m == script[c][taken[c] + 1]
    IN  /\ Take(c, "SET")
        /\ fromClient' = [fromClient EXCEPT ![c][m.server] =
             Append(@, [op |-> "SET", key |-> m.key, value |-> Transaction(c)])]
        /\ waitsFor' = [waitsFor EXCEPT ![c] = m.server]
        /\ UNCHANGED <<input, transaction, strays, crashed, history, toClient>>

Commit(c) ==
    /\ Take(c, "COMMIT")
    /\ inTransaction[c]
    /\ Broadcast(c, "COMMIT", Servers)
    /\ RecordCommit(c)
    /\ EndTransaction(c)
    /\ UNCHANGED <<input, waitsFor, strays, crashed, toClient>>

Abort(c) ==
    /\ Take(c, "ABORT")
    /\ Broadcast(c, "ABORT", Servers)
    /\ EndTransaction(c)
    /\ UNCHANGED <<input, waitsFor, strays, crashed, commits, toClient>>

\* The client stops after it wrote COMMIT to some servers only.
Crash(c) ==
    /\ Cardinality(crashed) < MaxCrashes
    /\ Take(c, "COMMIT")
    /\ inTransaction[c]
    /\ \E to \in (SUBSET Servers) \ {Servers} : Broadcast(c, "COMMIT", to)
    /\ RecordCommit(c)
    /\ crashed' = crashed \cup {c}
    /\ UNCHANGED <<input, transaction, waitsFor, strays, seen, wrote, toClient>>

TakeResult(c, s) ==
    /\ toClient[s][c] # <<>>
    /\ toClient' = [toClient EXCEPT ![s][c] = Tail(@)]

\* The getInput goroutine of this GET outlives it.
LeaveStray(c) == strays' = [strays EXCEPT ![c][waitsFor[c]] = @ + 2]

\* The main loop takes any line of the server as the result of its command.
Receive(c) ==
    LET s == waitsFor[c]
        m == Head(toClient[s][c])
    IN  /\ s # NoServer
        /\ TakeResult(c, s)
        /\ \/ /\ Current(c).op = "GET"
              /\ LeaveStray(c)
              /\ seen' = IF m.op = "GET" THEN [seen EXCEPT ![c] = @ \cup {m}]
                                         ELSE seen
              /\ UNCHANGED wrote
           \/ /\ Current(c).op = "SET"
              /\ wrote' = [wrote EXCEPT ![c] = @ \cup {<<s, Current(c).key>>}]
              /\ UNCHANGED <<strays, seen>>
        /\ waitsFor' = [waitsFor EXCEPT ![c] = NoServer]
        /\ UNCHANGED <<input, taken, transaction, crashed, commits, fromClient>>

\* A getInput goroutine of an earlier GET reads a result nobody will see.
Swallow(c, s) ==
    /\ strays[c][s] > 0
    /\ TakeResult(c, s)
    /\ strays' = [strays EXCEPT ![c][s] = @ - 1]
    /\ UNCHANGED <<input, taken, transaction, waitsFor, crashed, history,
                   fromClient>>

\* After four seconds without a result a GET looks for an ABORT anywhere in
\* messageQueue, and aborts if there is one; it leaves it in the queue.
AbortGet(c) ==
    /\ waitsFor[c] # NoServer
    /\ Current(c).op = "GET"
    /\ \E i \in (taken[c] + 1)..typed[c] : script[c][i].op = "ABORT"
    /\ Broadcast(c, "ABORT", Servers)
    /\ LeaveStray(c)
    /\ EndTransaction(c)
    /\ waitsFor' = [waitsFor EXCEPT ![c] = NoServer]
    /\ UNCHANGED <<input, taken, crashed, commits, toClient>>

\* What the program does of itself; the user's part is Type and Crash.
Proceed(c) ==
    \/ Ignore(c) \/ Begin(c) \/ Get(c) \/ Set(c) \/ Commit(c) \/ Abort(c)
    \/ Receive(c) \/ AbortGet(c)
    \/ \E s \in Servers : Swallow(c, s)

\* Everything a client does.
Step(c) == Proceed(c) \/ Type(c) \/ Crash(c)
==============================================================================
