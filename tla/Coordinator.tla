----------------------------- MODULE Coordinator -----------------------------
(***************************************************************************)
(* The lock coordinator of the distributed transaction system              *)
(* (DistributedTransactionNetwork/coordinator/main.go).                    *)
(*                                                                         *)
(* One goroutine per server connection runs connectionListener; they share *)
(* the maps keyHolder, readHolder and holderDependant under one RWMutex    *)
(* (objects) and the set holds under another.  A step of the model is what *)
(* a goroutine does between two lock operations, so a decision taken under *)
(* objects.RLock may be stale when it is acted upon.  A write to the       *)
(* connection is part of the step before it: nobody but the server at the  *)
(* other end sees it, and the server may read it as late as it likes.      *)
(*                                                                         *)
(* The set deadlocks is left out: only traverseDFS adds to it and nothing  *)
(* calls traverseDFS, so the branches that answer ABORT never run.         *)
(***************************************************************************)
EXTENDS Naturals, Sequences

CONSTANTS Clients,      \* the clients, "node1", "node2", ...
          Scanned,      \* those whose bit of a read mask SET looks at (1..10)
          Servers,      \* the servers, one connection each
          Keys,         \* the keys of an object on its server
          NoClient,     \* the writer of an object absent from keyHolder
          NoCommand,    \* the command of an idle goroutine
          QueueBound    \* bound: messages in flight on one connection

Objects == Servers \X Keys
LockCommands == [op : {"SET", "GET"}, client : Clients, key : Keys]
EndCommands == [op : {"COMMIT", "ABORT"}, client : Clients]
Commands == LockCommands \cup EndCommands
Answers == {"OK", "WAIT"}

ASSUME ScannedAssumption == Scanned \subseteq Clients
ASSUME NullAssumption == NoClient \notin Clients /\ NoCommand \notin Commands
ASSUME BoundAssumption == QueueBound \in Nat \ {0}

VARIABLES
    keyHolder,        \* objects.keyHolder: the writer of each object
    readHolder,       \* objects.readHolder: the read mask, as a set of clients
    holderDependant,  \* objects.holderDependant: who waits on each client
    holds,            \* holds.internal: the clients told to wait
    pc,               \* where the goroutine of each connection is
    cmd,              \* the command it is working on
    blockers,         \* the clients it found in the way of the command
    requests,         \* commands sent to the coordinator, per connection
    replies,          \* its answers, per connection
    alive             \* the process runs

locks == <<keyHolder, readHolder>>
waiting == <<holderDependant, holds>>
goroutines == <<pc, cmd, blockers>>
private == <<locks, waiting, goroutines, alive>>
vars == <<private, requests, replies>>

Init ==
    /\ keyHolder = [o \in Objects |-> NoClient]
    /\ readHolder = [o \in Objects |-> {}]
    /\ holderDependant = [c \in Clients |-> {}]
    /\ holds = {}
    /\ pc = [s \in Servers |-> "idle"]
    /\ cmd = [s \in Servers |-> NoCommand]
    /\ blockers = [s \in Servers |-> {}]
    /\ requests = [s \in Servers |-> <<>>]
    /\ replies = [s \in Servers |-> <<>>]
    /\ alive = TRUE

------------------------------------------------------------------------------
(* The goroutine of connection s                                           *)

\* Mutant: the name of an object without its server.
ObjectByKey(s) == <<CHOOSE t \in Servers : TRUE, cmd[s].key>>

Object(s) == <<s, cmd[s].key>>

\* A goroutine is inside the section of GET that updates readHolder under
\* objects.RLock: nobody can take objects.Lock.
ReadLocked == \E s \in Servers : pc[s] = "marking"

Answer(s, a) == replies' = [replies EXCEPT ![s] = Append(@, a)]

\* Mutant: the command is not forgotten.
FinishKeepingCommand(s) ==
    /\ pc' = [pc EXCEPT ![s] = "idle"]
    /\ blockers' = [blockers EXCEPT ![s] = {}]
    /\ UNCHANGED cmd

Finish(s) ==
    /\ pc' = [pc EXCEPT ![s] = "idle"]
    /\ cmd' = [cmd EXCEPT ![s] = NoCommand]
    /\ blockers' = [blockers EXCEPT ![s] = {}]

Move(s, from, to) ==
    /\ alive
    /\ pc[s] = from
    /\ pc' = [pc EXCEPT ![s] = to]

\* The next command of the connection, read by an idle goroutine.
Read(s) ==
    /\ alive
    /\ pc[s] = "idle"
    /\ requests[s] # <<>>
    /\ requests' = [requests EXCEPT ![s] = Tail(@)]
    /\ UNCHANGED alive

\* Mutant: the list of c is deleted, its clients stay on hold.
AbortLeavingHolds(c) ==
    /\ holderDependant' = [holderDependant EXCEPT ![c] = {}]
    /\ keyHolder' = [o \in Objects |->
                       IF keyHolder[o] = c THEN NoClient ELSE keyHolder[o]]
    /\ readHolder' = [o \in Objects |-> readHolder[o] \ {c}]
    /\ UNCHANGED holds

\* Mutant: the read mask keeps the bit of c.
AbortLeavingReads(c) ==
    /\ holds' = holds \ holderDependant[c]
    /\ holderDependant' = [holderDependant EXCEPT ![c] = {}]
    /\ keyHolder' = [o \in Objects |->
                       IF keyHolder[o] = c THEN NoClient ELSE keyHolder[o]]
    /\ UNCHANGED readHolder

\* The clients waiting on c are let go, and c gives up everything it holds.
\* It stays on hold itself, and in the lists of those it waits on.
abortNode(c) ==
    /\ holds' = holds \ holderDependant[c]
    /\ holderDependant' = [holderDependant EXCEPT ![c] = {}]
    /\ keyHolder' = [o \in Objects |->
                       IF keyHolder[o] = c THEN NoClient ELSE keyHolder[o]]
    /\ readHolder' = [o \in Objects |-> readHolder[o] \ {c}]

\* COMMIT and ABORT are the same to the coordinator, and are not answered.
End(s) ==
    /\ Read(s)
    /\ Head(requests[s]) \in EndCommands
    /\ ~ReadLocked
    /\ abortNode(Head(requests[s]).client)
    /\ UNCHANGED <<goroutines, replies>>

\* Mutant: a client on hold is not answered.
StillHeldUnanswered(s) ==
    /\ Read(s)
    /\ Head(requests[s]) \in LockCommands
    /\ Head(requests[s]).client \in holds
    /\ UNCHANGED <<locks, waiting, goroutines, replies>>

\* A client on hold is told to wait without a look at the object.
StillHeld(s) ==
    /\ Read(s)
    /\ Head(requests[s]) \in LockCommands
    /\ Head(requests[s]).client \in holds
    /\ Answer(s, "WAIT")
    /\ UNCHANGED <<locks, waiting, goroutines>>

Begin(s) ==
    /\ Read(s)
    /\ Head(requests[s]) \in LockCommands
    /\ Head(requests[s]).client \notin holds
    /\ pc' = [pc EXCEPT ![s] = "check"]
    /\ cmd' = [cmd EXCEPT ![s] = Head(requests[s])]
    /\ UNCHANGED <<locks, waiting, blockers, replies>>

\* Mutants: SET does not look at the readers; a writer is in its own way.
GrantableWhileRead(s) == keyHolder[Object(s)] \in {NoClient, cmd[s].client}

GrantableToNewcomer(s) ==
    LET o == Object(s)
    IN  /\ keyHolder[o] = NoClient
        /\ cmd[s].op = "SET" => readHolder[o] = {}

\* The condition read under objects.RLock: SET wants the object neither
\* written nor read, GET wants it not written; its own writer passes both.
Grantable(s) ==
    LET o == Object(s)
    IN  \/ keyHolder[o] = cmd[s].client
        \/ /\ keyHolder[o] = NoClient
           /\ cmd[s].op = "SET" => readHolder[o] = {}

Blockers(s) ==
    LET o == Object(s)
    IN  IF keyHolder[o] # NoClient THEN {keyHolder[o]}
                                   ELSE readHolder[o] \cap Scanned

Decide(s) ==
    /\ Move(s, "check", "grant")
    /\ Grantable(s)
    /\ UNCHANGED <<locks, waiting, cmd, blockers, requests, replies, alive>>

\* WAIT is answered before the client is put on hold and registered.
Refuse(s) ==
    /\ Move(s, "check", "hold")
    /\ ~Grantable(s)
    /\ blockers' = [blockers EXCEPT ![s] = Blockers(s)]
    /\ Answer(s, "WAIT")
    /\ UNCHANGED <<locks, waiting, cmd, requests, alive>>

GrantWrite(s) ==
    /\ alive
    /\ pc[s] = "grant"
    /\ cmd[s].op = "SET"
    /\ ~ReadLocked
    /\ keyHolder' = [keyHolder EXCEPT ![Object(s)] = cmd[s].client]
    /\ Answer(s, "OK")
    /\ Finish(s)
    /\ UNCHANGED <<readHolder, waiting, requests, alive>>

EnterRead(s) ==
    /\ Move(s, "grant", "marking")
    /\ cmd[s].op = "GET"
    /\ UNCHANGED <<locks, waiting, cmd, blockers, requests, replies, alive>>

GrantRead(s) ==
    /\ alive
    /\ pc[s] = "marking"
    /\ readHolder' = [readHolder EXCEPT ![Object(s)] = @ \cup {cmd[s].client}]
    /\ Answer(s, "OK")
    /\ Finish(s)
    /\ UNCHANGED <<keyHolder, waiting, requests, alive>>

Hold(s) ==
    /\ Move(s, "hold", "register")
    /\ holds' = holds \cup {cmd[s].client}
    /\ UNCHANGED <<locks, holderDependant, cmd, blockers, requests, replies, alive>>

Register(s) ==
    /\ alive
    /\ pc[s] = "register"
    /\ ~ReadLocked
    /\ holderDependant' = [c \in Clients |->
          IF c \in blockers[s] THEN holderDependant[c] \cup {cmd[s].client}
                               ELSE holderDependant[c]]
    /\ Finish(s)
    /\ UNCHANGED <<locks, holds, requests, replies, alive>>

\* Two goroutines insert into the map readHolder under the read lock: if the
\* runtime does not notice, one insertion may be lost.  The client is told OK.
LoseMark(s, t) ==
    /\ alive
    /\ s # t
    /\ pc[s] = "marking" /\ pc[t] = "marking"
    /\ Answer(s, "OK")
    /\ Finish(s)
    /\ UNCHANGED <<locks, waiting, requests, alive>>

\* s writes the map under the read lock while t writes it or, for a SET, reads
\* it: the runtime may end the process.  The remaining outcome, each access
\* taking effect before or after the other, is the ordinary steps.
MapFault(s, t) ==
    /\ alive
    /\ s # t
    /\ pc[s] = "marking"
    /\ pc[t] = "marking" \/ (pc[t] = "check" /\ cmd[t].op = "SET")
    /\ alive' = FALSE
    /\ UNCHANGED <<locks, waiting, goroutines, requests, replies>>

Step(s) ==
    \/ End(s) \/ StillHeld(s) \/ Begin(s)
    \/ Decide(s) \/ GrantWrite(s) \/ EnterRead(s) \/ GrantRead(s)
    \/ Refuse(s) \/ Hold(s) \/ Register(s)
    \/ \E t \in Servers : LoseMark(s, t) \/ MapFault(s, t)

------------------------------------------------------------------------------
(* The servers, seen from here: any client's command may come on any       *)
(* connection whenever its goroutine can take one (a command sent earlier  *)
(* waits unseen in the connection).                                        *)

ServerSends(s, m) ==
    /\ pc[s] = "idle"
    /\ Len(requests[s]) + Len(replies[s]) < QueueBound
    /\ requests' = [requests EXCEPT ![s] = Append(@, m)]
    /\ UNCHANGED <<locks, waiting, goroutines, replies, alive>>

ServerReads(s) ==
    /\ replies[s] # <<>>
    /\ replies' = [replies EXCEPT ![s] = Tail(@)]
    /\ UNCHANGED <<locks, waiting, goroutines, requests, alive>>

Next ==
    \E s \in Servers :
        \/ Step(s)
        \/ \E m \in Commands : ServerSends(s, m)
        \/ ServerReads(s)

Spec == Init /\ [][Next]_vars

------------------------------------------------------------------------------
(* Properties                                                              *)

Places == {"idle", "check", "grant", "marking", "hold", "register"}

\* The maps and the goroutines hold what the code can put there: in
\* particular a goroutine has a lock command exactly while it works on one.
TypeOK ==
    /\ keyHolder \in [Objects -> Clients \cup {NoClient}]
    /\ readHolder \in [Objects -> SUBSET Clients]
    /\ holderDependant \in [Clients -> SUBSET Clients]
    /\ holds \subseteq Clients
    /\ pc \in [Servers -> Places]
    /\ cmd \in [Servers -> LockCommands \cup {NoCommand}]
    /\ \A s \in Servers : pc[s] = "idle" <=> cmd[s] = NoCommand
    /\ blockers \in [Servers -> SUBSET Clients]
    /\ requests \in [Servers -> Seq(Commands)]
    /\ replies \in [Servers -> Seq(Answers)]
    /\ alive \in BOOLEAN

\* While a client holds the write lock of an object nobody else holds its
\* read lock, although connectionListener decides under one lock and grants
\* under a later one.
LockExclusion ==
    \A o \in Objects :
        keyHolder[o] # NoClient => readHolder[o] \subseteq {keyHolder[o]}

\* The decision to grant taken under objects.RLock still stands when the
\* goroutine takes the lock again to record the grant: only abortNode runs
\* in between on its object, and it takes nothing that blocks.
GrantStillValid ==
    \A s \in Servers : pc[s] \in {"grant", "marking"} => Grantable(s)

\* A client on hold is in the list of a client whose next COMMIT or ABORT
\* takes it off hold, or the goroutine that put it there is about to enter it
\* in one: nobody is held with nobody to release it.
HeldIsRegistered ==
    \A c \in holds :
        \/ \E h \in Clients : c \in holderDependant[h]
        \/ \E s \in Servers : /\ pc[s] = "register"
                              /\ cmd[s].client = c
                              /\ blockers[s] # {}

\* The coordinator is a lock table: every step of it acquires one lock that
\* the table allows, releases all locks of one client, or changes no lock.
Table == INSTANCE LockTable WITH writer <- keyHolder, readers <- readHolder
ImplementsLockTable == Table!Spec
==============================================================================
