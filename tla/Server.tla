-------------------------------- MODULE Server --------------------------------
(***************************************************************************)
(* A server of the distributed transaction system                          *)
(* (DistributedTransactionNetwork/server/main.go): its objects, and one    *)
(* goroutine per client connection running connectionListener.             *)
(*                                                                         *)
(* All goroutines of a server share ONE connection to the coordinator, and *)
(* each reads it through a bufio.Reader of its own: whichever reads first  *)
(* takes the answers that have arrived, its own or not, and keeps those it *)
(* does not use yet in its buffer.                                         *)
(*                                                                         *)
(* The socket, readConn and messageQueue of a client connection are one    *)
(* FIFO, fromClient.  currTransactionId is only printed, and left out.     *)
(***************************************************************************)
EXTENDS Naturals, Sequences

CONSTANTS Clients, Servers, Keys,
          Values,       \* what a client may write
          NoValue,      \* a key absent from a map
          NoCommand     \* the command of an idle goroutine

VARIABLES
    store,       \* objects.internal of each server
    deltas,      \* the writes of each client's transaction at each server
    place,       \* where the goroutine of each client connection is
    curr,        \* the command it works on
    buffered,    \* answers its bufio.Reader has read ahead
    fromClient,  \* commands on their way, fromClient[c][s]
    toClient,    \* results on their way, toClient[s][c]
    requests,    \* the connection to the coordinator
    replies      \* and its answers

private == <<store, deltas, place, curr, buffered>>
vars == <<private, fromClient, toClient, requests, replies>>

Places == {"idle", "await", "sleep", "reading", "applying"}
Messages == [op : {"BEGIN", "COMMIT", "ABORT"}]
                \cup [op : {"GET"}, key : Keys]
                \cup [op : {"SET"}, key : Keys, value : Values]
Results == [op : {"SET"}]
                \cup [op : {"GET"}, object : Servers \X Keys,
                     value : Values \cup {NoValue}]
Empty == [k \in Keys |-> NoValue]

Init ==
    /\ store = [s \in Servers |-> Empty]
    /\ deltas = [s \in Servers |-> [c \in Clients |-> Empty]]
    /\ place = [s \in Servers |-> [c \in Clients |-> "idle"]]
    /\ curr = [s \in Servers |-> [c \in Clients |-> NoCommand]]
    /\ buffered = [s \in Servers |-> [c \in Clients |-> <<>>]]

------------------------------------------------------------------------------
(* The goroutine of server s for client c                                  *)

\* It takes the next command of the client, which is op.
Take(s, c, op) ==
    /\ place[s][c] = "idle"
    /\ fromClient[c][s] # <<>>
    /\ Head(fromClient[c][s]).op = op
    /\ fromClient' = [fromClient EXCEPT ![c][s] = Tail(@)]

Move(s, c, to) == place' = [place EXCEPT ![s][c] = to]

\* The transaction identifier and the value are not passed on.
ToCoordinator(s, c, m) ==
    requests' = [requests EXCEPT ![s] = Append(@,
        IF m.op \in {"SET", "GET"}
        THEN [op |-> m.op, client |-> c, key |-> m.key]
        ELSE [op |-> m.op, client |-> c])]

ToClient(s, c, result) ==
    toClient' = [toClient EXCEPT ![s][c] = Append(@, result)]

\* Mutant: the writes of a transaction stay behind.
ClearNothing(s, c) == UNCHANGED deltas

ClearDeltas(s, c) == deltas' = [deltas EXCEPT ![s][c] = Empty]

\* Mutant: the command is not forgotten.
FinishKeepingCommand(s, c) == Move(s, c, "idle") /\ UNCHANGED curr

Finish(s, c) ==
    /\ Move(s, c, "idle")
    /\ curr' = [curr EXCEPT ![s][c] = NoCommand]

Begin(s, c) ==
    /\ Take(s, c, "BEGIN")
    /\ ClearDeltas(s, c)
    /\ UNCHANGED <<store, place, curr, buffered, toClient, requests, replies>>

\* Mutant: the write goes to the store, without waiting for COMMIT.
SetStore(s, c) ==
    LET m == Head(fromClient[c][s])
    IN  /\ Take(s, c, "SET")
        /\ ToCoordinator(s, c, m)
        /\ store' = [store EXCEPT ![s][m.key] = m.value]
        /\ curr' = [curr EXCEPT ![s][c] = m]
        /\ Move(s, c, "await")
        /\ UNCHANGED <<deltas, buffered, toClient, replies>>

\* The write is recorded before the lock is asked for.
Set(s, c) ==
    LET m == Head(fromClient[c][s])
    IN  /\ Take(s, c, "SET")
        /\ ToCoordinator(s, c, m)
        /\ deltas' = [deltas EXCEPT ![s][c][m.key] = m.value]
        /\ curr' = [curr EXCEPT ![s][c] = m]
        /\ Move(s, c, "await")
        /\ UNCHANGED <<store, buffered, toClient, replies>>

Get(s, c) ==
    LET m == Head(fromClient[c][s])
    IN  /\ Take(s, c, "GET")
        /\ ToCoordinator(s, c, m)
        /\ curr' = [curr EXCEPT ![s][c] = m]
        /\ Move(s, c, "await")
        /\ UNCHANGED <<store, deltas, buffered, toClient, replies>>

\* Mutant: the coordinator is not told.
CommitUntold(s, c) ==
    /\ Take(s, c, "COMMIT")
    /\ Move(s, c, "applying")
    /\ UNCHANGED <<store, deltas, curr, buffered, toClient, requests, replies>>

\* The coordinator is told first, the writes are applied later (Apply).
Commit(s, c) ==
    /\ Take(s, c, "COMMIT")
    /\ ToCoordinator(s, c, Head(fromClient[c][s]))
    /\ Move(s, c, "applying")
    /\ UNCHANGED <<store, deltas, curr, buffered, toClient, replies>>

\* Mutant: the deltas are cleared before they are applied.
ApplyNothing(s, c) ==
    /\ place[s][c] = "applying"
    /\ ClearDeltas(s, c)
    /\ Finish(s, c)
    /\ UNCHANGED <<store, buffered, fromClient, toClient, requests, replies>>

Apply(s, c) ==
    /\ place[s][c] = "applying"
    /\ store' = [store EXCEPT ![s] = [k \in Keys |->
                   IF deltas[s][c][k] # NoValue THEN deltas[s][c][k] ELSE @[k]]]
    /\ ClearDeltas(s, c)
    /\ Finish(s, c)
    /\ UNCHANGED <<buffered, fromClient, toClient, requests, replies>>

\* Mutant: the coordinator is not told.
AbortUntold(s, c) ==
    /\ Take(s, c, "ABORT")
    /\ ClearDeltas(s, c)
    /\ UNCHANGED <<store, place, curr, buffered, toClient, requests, replies>>

Abort(s, c) ==
    /\ Take(s, c, "ABORT")
    /\ ToCoordinator(s, c, Head(fromClient[c][s]))
    /\ ClearDeltas(s, c)
    /\ UNCHANGED <<store, place, curr, buffered, toClient, replies>>

\* One ReadString on the coordinator's connection: from what this reader has
\* buffered, or else from the socket, of which it takes all that has come.
NextAnswer(s, c, a) ==
    \/ /\ buffered[s][c] # <<>>
       /\ a = Head(buffered[s][c])
       /\ buffered' = [buffered EXCEPT ![s][c] = Tail(@)]
       /\ UNCHANGED replies
    \/ /\ buffered[s][c] = <<>>
       /\ replies[s] # <<>>
       /\ a = Head(replies[s])
       /\ \E n \in 1..Len(replies[s]) :
             /\ buffered' = [buffered EXCEPT ![s][c] = SubSeq(replies[s], 2, n)]
             /\ replies' = [replies EXCEPT ![s] = SubSeq(@, n + 1, Len(@))]

\* A GET of a key the transaction has set does not look at the answer.
OwnWrite(s, c) ==
    /\ curr[s][c].op = "GET"
    /\ deltas[s][c][curr[s][c].key] # NoValue

Result(s, c, v) ==
    [op |-> "GET", object |-> <<s, curr[s][c].key>>, value |-> v]

AnswerOwnWrite(s, c) ==
    /\ place[s][c] = "await"
    /\ OwnWrite(s, c)
    /\ \E a \in {"OK", "WAIT"} : NextAnswer(s, c, a)
    /\ ToClient(s, c, Result(s, c, deltas[s][c][curr[s][c].key]))
    /\ Finish(s, c)
    /\ UNCHANGED <<store, deltas, fromClient, requests>>

SetGranted(s, c) ==
    /\ place[s][c] = "await"
    /\ curr[s][c].op = "SET"
    /\ NextAnswer(s, c, "OK")
    /\ ToClient(s, c, [op |-> "SET"])
    /\ Finish(s, c)
    /\ UNCHANGED <<store, deltas, fromClient, requests>>

GetGranted(s, c) ==
    /\ place[s][c] = "await"
    /\ curr[s][c].op = "GET"
    /\ ~OwnWrite(s, c)
    /\ NextAnswer(s, c, "OK")
    /\ Move(s, c, "reading")
    /\ UNCHANGED <<store, deltas, curr, fromClient, toClient, requests>>

\* The value, or NOT FOUND, read under objects.RLock.
AnswerGet(s, c) ==
    /\ place[s][c] = "reading"
    /\ ToClient(s, c, Result(s, c, store[s][curr[s][c].key]))
    /\ Finish(s, c)
    /\ UNCHANGED <<store, deltas, buffered, fromClient, requests, replies>>

Wait(s, c) ==
    /\ place[s][c] = "await"
    /\ ~OwnWrite(s, c)
    /\ NextAnswer(s, c, "WAIT")
    /\ Move(s, c, "sleep")
    /\ UNCHANGED <<store, deltas, curr, fromClient, toClient, requests>>

\* After its second of sleep the goroutine sends the same command again.
Resend(s, c) ==
    /\ place[s][c] = "sleep"
    /\ ToCoordinator(s, c, curr[s][c])
    /\ Move(s, c, "await")
    /\ UNCHANGED <<store, deltas, curr, buffered, fromClient, toClient, replies>>

Step(s, c) ==
    \/ Begin(s, c) \/ Set(s, c) \/ Get(s, c) \/ Abort(s, c)
    \/ Commit(s, c) \/ Apply(s, c)
    \/ AnswerOwnWrite(s, c) \/ SetGranted(s, c)
    \/ GetGranted(s, c) \/ AnswerGet(s, c)
    \/ Wait(s, c) \/ Resend(s, c)

------------------------------------------------------------------------------
\* The maps hold what the code can put there; a goroutine has a command
\* exactly while it is in the middle of a SET or a GET, and reads the store
\* for a GET only.
TypeOK ==
    /\ store \in [Servers -> [Keys -> Values \cup {NoValue}]]
    /\ deltas \in [Servers -> [Clients -> [Keys -> Values \cup {NoValue}]]]
    /\ place \in [Servers -> [Clients -> Places]]
    /\ curr \in [Servers -> [Clients -> Messages \cup {NoCommand}]]
    /\ \A s \in Servers, c \in Clients :
          /\ place[s][c] \in {"await", "sleep"} => curr[s][c].op \in {"SET", "GET"}
          /\ place[s][c] = "reading" => curr[s][c].op = "GET"
          /\ place[s][c] \in {"idle", "applying"} => curr[s][c] = NoCommand
    /\ buffered \in [Servers -> [Clients -> Seq({"OK", "WAIT"})]]
    /\ fromClient \in [Clients -> [Servers -> Seq(Messages)]]
    /\ toClient \in [Servers -> [Clients -> Seq(Results)]]
==============================================================================
