--------------------------- MODULE TransactionProofs ---------------------------
(***************************************************************************)
(* What holds of the distributed transaction system for any number of      *)
(* clients, servers and keys, and whatever the users type.                 *)
(***************************************************************************)
EXTENDS TransactionSystem, SequenceTheorems, FiniteSetTheorems, TLAPS

\* A goroutine of a server in the middle of a command has one.
ServerTyped ==
    \A s \in Servers, c \in Clients :
        place[s][c] \in {"await", "sleep", "reading"} => curr[s][c] \in Srv!Messages

\* What a client has taken was typed, and is in its script.
UserTyped ==
    /\ script \in [Clients -> Scripts]
    /\ typed \in [Clients -> Nat] /\ taken \in [Clients -> Nat]
    /\ \A c \in Clients : taken[c] <= typed[c] /\ typed[c] <= Len(script[c])
    /\ inTransaction \in [Clients -> BOOLEAN]
    /\ transactionId \in [Clients -> Nat]
    /\ waitsFor \in [Clients -> Servers \cup {NoServer}]

Types == TypeOK /\ ServerTyped /\ UserTyped

------------------------------------------------------------------------------
(* Type correctness of the coordinator                                     *)

\* The object of a command is one, and commands of different connections are
\* about different objects.
LEMMA ObjectOfCommand ==
    ASSUME Coord!TypeOK, NEW s \in Servers, pc[s] # "idle"
    PROVE  /\ cmd[s] \in Coord!LockCommands
           /\ cmd[s].client \in Clients
           /\ cmd[s].key \in Keys
           /\ cmd[s].op \in {"SET", "GET"}
           /\ Coord!Object(s) \in Coord!Objects
           /\ Coord!Object(s)[1] = s
BY DEF Coord!TypeOK, Coord!LockCommands, Coord!Object, Coord!Objects

\* What an idle goroutine reads is a command, and what is left are commands.
LEMMA CommandRead ==
    ASSUME Coord!TypeOK, NEW s \in Servers, Coord!Read(s)
    PROVE  /\ Head(requests[s]) \in Coord!Commands
           /\ requests' \in [Servers -> Seq(Coord!Commands)]
<1>1. requests[s] \in Seq(Coord!Commands) /\ requests[s] # <<>>
  BY DEF Coord!TypeOK, Coord!Read
<1>2. Head(requests[s]) \in Coord!Commands /\ Tail(requests[s]) \in Seq(Coord!Commands)
  BY <1>1
<1>3. QED
  BY <1>2 DEF Coord!TypeOK, Coord!Read

\* An answer leaves answers on every connection.
LEMMA AnswerTyped ==
    ASSUME Coord!TypeOK, NEW s \in Servers, NEW a \in Coord!Answers, Coord!Answer(s, a)
    PROVE  replies' \in [Servers -> Seq(Coord!Answers)]
<1>1. Append(replies[s], a) \in Seq(Coord!Answers)
  BY DEF Coord!TypeOK
<1>2. QED
  BY <1>1 DEF Coord!TypeOK, Coord!Answer

LEMMA CoordInitTyped == Coord!Init => Coord!TypeOK
<1> SUFFICES ASSUME Coord!Init PROVE Coord!TypeOK
  OBVIOUS
<1>1. <<>> \in Seq(Coord!Commands) /\ <<>> \in Seq(Coord!Answers)
  OBVIOUS
<1>2. QED
  BY <1>1, NullsAssumption DEF Coord!Init, Coord!TypeOK, Coord!Places

\* A step of a goroutine keeps the types.
LEMMA CoordStepTyped ==
    ASSUME Coord!TypeOK, NEW s \in Servers, Coord!Step(s)
    PROVE  Coord!TypeOK'
<1>a. Coord!Commands = Coord!LockCommands \cup Coord!EndCommands /\ NoCommand \notin Coord!Commands
  BY NullsAssumption DEF Coord!Commands
<1>1. CASE Coord!End(s)
  <2>1. Head(requests[s]) \in Coord!Commands /\ requests' \in [Servers -> Seq(Coord!Commands)]
    BY <1>1, CommandRead DEF Coord!End
  <2>2. Head(requests[s]).client \in Clients
    BY <1>1 DEF Coord!End, Coord!EndCommands
  <2>3. QED
    BY <1>1, <2>1, <2>2 DEF Coord!End, Coord!Read, Coord!abortNode, Coord!goroutines, Coord!TypeOK
<1>2. CASE Coord!StillHeld(s)
  <2>1. requests' \in [Servers -> Seq(Coord!Commands)]
    BY <1>2, CommandRead DEF Coord!StillHeld
  <2>2. replies' \in [Servers -> Seq(Coord!Answers)]
    BY <1>2, AnswerTyped DEF Coord!StillHeld, Coord!Answers
  <2>3. QED
    BY <1>2, <2>1, <2>2 DEF Coord!StillHeld, Coord!Read, Coord!locks, Coord!waiting, Coord!goroutines, Coord!TypeOK
<1>3. CASE Coord!Begin(s)
  <2>1. requests' \in [Servers -> Seq(Coord!Commands)]
    BY <1>3, CommandRead DEF Coord!Begin
  <2>2. Head(requests[s]) \in Coord!LockCommands /\ Head(requests[s]) # NoCommand
    BY <1>3, <1>a DEF Coord!Begin
  <2>3. QED
    BY <1>3, <2>1, <2>2 DEF Coord!Begin, Coord!Read, Coord!locks, Coord!waiting, Coord!TypeOK, Coord!Places
<1>4. CASE Coord!Decide(s)
  BY <1>4 DEF Coord!Decide, Coord!Move, Coord!locks, Coord!waiting, Coord!TypeOK, Coord!Places
<1>5. CASE Coord!Refuse(s)
  <2>1. replies' \in [Servers -> Seq(Coord!Answers)]
    BY <1>5, AnswerTyped DEF Coord!Refuse, Coord!Answers
  <2>2. Coord!Blockers(s) \subseteq Clients
    <3>1. Coord!Object(s) \in Coord!Objects
      BY <1>5, ObjectOfCommand DEF Coord!Refuse, Coord!Move
    <3>2. QED
      BY <3>1 DEF Coord!Blockers, Coord!TypeOK
  <2>3. QED
    BY <1>5, <2>1, <2>2 DEF Coord!Refuse, Coord!Move, Coord!locks, Coord!waiting, Coord!TypeOK, Coord!Places
<1>6. CASE Coord!GrantWrite(s)
  <2>1. replies' \in [Servers -> Seq(Coord!Answers)]
    BY <1>6, AnswerTyped DEF Coord!GrantWrite, Coord!Answers
  <2>2. Coord!Object(s) \in Coord!Objects /\ cmd[s].client \in Clients
    BY <1>6, ObjectOfCommand DEF Coord!GrantWrite
  <2>3. QED
    BY <1>6, <2>1, <2>2 DEF Coord!GrantWrite, Coord!Finish, Coord!waiting, Coord!TypeOK, Coord!Places
<1>7. CASE Coord!EnterRead(s)
  BY <1>7 DEF Coord!EnterRead, Coord!Move, Coord!locks, Coord!waiting, Coord!TypeOK, Coord!Places
<1>8. CASE Coord!GrantRead(s)
  <2>1. replies' \in [Servers -> Seq(Coord!Answers)]
    BY <1>8, AnswerTyped DEF Coord!GrantRead, Coord!Answers
  <2>2. Coord!Object(s) \in Coord!Objects /\ cmd[s].client \in Clients
    BY <1>8, ObjectOfCommand DEF Coord!GrantRead
  <2>3. QED
    BY <1>8, <2>1, <2>2 DEF Coord!GrantRead, Coord!Finish, Coord!waiting, Coord!TypeOK, Coord!Places
<1>9. CASE Coord!Hold(s)
  <2>1. cmd[s].client \in Clients
    BY <1>9, ObjectOfCommand DEF Coord!Hold, Coord!Move
  <2>2. QED
    BY <1>9, <2>1 DEF Coord!Hold, Coord!Move, Coord!locks, Coord!TypeOK, Coord!Places
<1>10. CASE Coord!Register(s)
  <2>1. cmd[s].client \in Clients
    BY <1>10, ObjectOfCommand DEF Coord!Register
  <2>2. QED
    BY <1>10, <2>1 DEF Coord!Register, Coord!Finish, Coord!locks, Coord!TypeOK, Coord!Places
<1>11. ASSUME NEW t \in Servers, Coord!LoseMark(s, t)
       PROVE  Coord!TypeOK'
  <2>1. replies' \in [Servers -> Seq(Coord!Answers)]
    BY <1>11, AnswerTyped DEF Coord!LoseMark, Coord!Answers
  <2>2. QED
    BY <1>11, <2>1 DEF Coord!LoseMark, Coord!Finish, Coord!locks, Coord!waiting, Coord!TypeOK, Coord!Places
<1>12. ASSUME NEW t \in Servers, Coord!MapFault(s, t)
       PROVE  Coord!TypeOK'
  BY <1>12 DEF Coord!MapFault, Coord!locks, Coord!waiting, Coord!goroutines, Coord!TypeOK
<1>13. QED
  BY <1>1, <1>2, <1>3, <1>4, <1>5, <1>6, <1>7, <1>8, <1>9, <1>10, <1>11, <1>12
  DEF Coord!Step

------------------------------------------------------------------------------
(* Type correctness of the servers                                         *)

LEMMA MessageFields ==
    ASSUME NEW m \in Srv!Messages
    PROVE  /\ m.op \in {"BEGIN", "COMMIT", "ABORT", "GET", "SET"}
           /\ m.op \in {"GET", "SET"} => m.key \in Keys
           /\ m.op = "SET" => m.value \in Values
BY DEF Srv!Messages

\* The command a server takes, and those it leaves.
LEMMA CommandTaken ==
    ASSUME TypeOK, NEW s \in Servers, NEW c \in Clients, NEW op, Srv!Take(s, c, op)
    PROVE  /\ Head(fromClient[c][s]) \in Srv!Messages
           /\ Head(fromClient[c][s]).op = op
           /\ place[s][c] = "idle"
           /\ fromClient' \in [Clients -> [Servers -> Seq(Srv!Messages)]]
<1>1. fromClient \in [Clients -> [Servers -> Seq(Srv!Messages)]]
  BY DEF TypeOK, Srv!TypeOK
<1>2. fromClient[c][s] \in Seq(Srv!Messages) /\ fromClient[c][s] # <<>>
  BY <1>1 DEF Srv!Take
<1>3. Head(fromClient[c][s]) \in Srv!Messages /\ Tail(fromClient[c][s]) \in Seq(Srv!Messages)
  BY <1>2
<1> QED BY <1>1, <1>3 DEF Srv!Take

LEMMA CommandSent ==
    ASSUME TypeOK, NEW s \in Servers, NEW c \in Clients,
           NEW m \in Srv!Messages, m.op # "BEGIN", Srv!ToCoordinator(s, c, m)
    PROVE  requests' \in [Servers -> Seq(Coord!Commands)]
<1> DEFINE x == IF m.op \in {"SET", "GET"} THEN [op |-> m.op, client |-> c, key |-> m.key]
                                           ELSE [op |-> m.op, client |-> c]
<1>1. x \in Coord!Commands
  BY MessageFields DEF Coord!Commands, Coord!LockCommands, Coord!EndCommands
<1>2. requests' = [requests EXCEPT ![s] = Append(requests[s], x)]
  BY DEF Srv!ToCoordinator
<1>3. requests \in [Servers -> Seq(Coord!Commands)]
  BY DEF TypeOK, Coord!TypeOK
<1> HIDE DEF x
<1>4. Append(requests[s], x) \in Seq(Coord!Commands)
  BY <1>1, <1>3
<1> QED BY <1>2, <1>3, <1>4

LEMMA ResultSent ==
    ASSUME TypeOK, NEW s \in Servers, NEW c \in Clients, NEW m \in Srv!Results,
           Srv!ToClient(s, c, m)
    PROVE  toClient' \in [Servers -> [Clients -> Seq(Srv!Results)]]
<1>1. toClient \in [Servers -> [Clients -> Seq(Srv!Results)]]
  BY DEF TypeOK, Srv!TypeOK
<1>2. Append(toClient[s][c], m) \in Seq(Srv!Results)
  BY <1>1
<1> QED BY <1>1, <1>2 DEF Srv!ToClient

\* The answer a goroutine reads, and those it leaves to the others or to itself.
LEMMA AnswerRead ==
    ASSUME TypeOK, NEW s \in Servers, NEW c \in Clients, NEW a, Srv!NextAnswer(s, c, a)
    PROVE  /\ buffered' \in [Servers -> [Clients -> Seq({"OK", "WAIT"})]]
           /\ replies' \in [Servers -> Seq(Coord!Answers)]
<1>1. buffered \in [Servers -> [Clients -> Seq({"OK", "WAIT"})]]
  BY DEF TypeOK, Srv!TypeOK
<1>2. replies \in [Servers -> Seq({"OK", "WAIT"})] /\ Coord!Answers = {"OK", "WAIT"}
  BY DEF TypeOK, Coord!TypeOK, Coord!Answers
<1>3. CASE /\ buffered[s][c] # <<>>
           /\ buffered' = [buffered EXCEPT ![s][c] = Tail(buffered[s][c])]
           /\ UNCHANGED replies
  <2>1. Tail(buffered[s][c]) \in Seq({"OK", "WAIT"})
    BY <1>1, <1>3
  <2> QED BY <1>1, <1>2, <1>3, <2>1
<1>4. ASSUME NEW n \in 1..Len(replies[s]),
             buffered' = [buffered EXCEPT ![s][c] = SubSeq(replies[s], 2, n)],
             replies' = [replies EXCEPT ![s] = SubSeq(replies[s], n + 1, Len(replies[s]))]
      PROVE  /\ buffered' \in [Servers -> [Clients -> Seq({"OK", "WAIT"})]]
             /\ replies' \in [Servers -> Seq(Coord!Answers)]
  <2>1. replies[s] \in Seq({"OK", "WAIT"}) /\ Len(replies[s]) \in Nat
    BY <1>2
  <2>2. SubSeq(replies[s], 2, n) \in Seq({"OK", "WAIT"})
    BY <2>1, SubSeqProperties
  <2>3. SubSeq(replies[s], n + 1, Len(replies[s])) \in Seq({"OK", "WAIT"})
    BY <2>1, SubSeqProperties
  <2> QED BY <1>1, <1>2, <1>4, <2>2, <2>3
<1> QED BY <1>3, <1>4 DEF Srv!NextAnswer

\* The parts of Srv!TypeOK: the data of a server, its goroutines, its connections.
DataTyped ==
    /\ store \in [Servers -> [Keys -> Values \cup {NoValue}]]
    /\ deltas \in [Servers -> [Clients -> [Keys -> Values \cup {NoValue}]]]

GoroutinesTyped ==
    /\ place \in [Servers -> [Clients -> Srv!Places]]
    /\ curr \in [Servers -> [Clients -> Srv!Messages \cup {NoCommand}]]
    /\ \A s \in Servers, c \in Clients :
          /\ place[s][c] \in {"await", "sleep"} => curr[s][c].op \in {"SET", "GET"}
          /\ place[s][c] = "reading" => curr[s][c].op = "GET"
          /\ place[s][c] \in {"idle", "applying"} => curr[s][c] = NoCommand
    /\ ServerTyped

ConnectionsTyped ==
    /\ buffered \in [Servers -> [Clients -> Seq({"OK", "WAIT"})]]
    /\ fromClient \in [Clients -> [Servers -> Seq(Srv!Messages)]]
    /\ toClient \in [Servers -> [Clients -> Seq(Srv!Results)]]
    /\ requests \in [Servers -> Seq(Coord!Commands)]
    /\ replies \in [Servers -> Seq(Coord!Answers)]

LEMMA TypeParts ==
    /\ Types <=> /\ Coord!TypeOK /\ DataTyped /\ GoroutinesTyped
                 /\ ConnectionsTyped /\ UserTyped
BY DEF Types, TypeOK, Coord!TypeOK, Srv!TypeOK, DataTyped, GoroutinesTyped, ConnectionsTyped

LEMMA NextTypeParts ==
    /\ Types' <=> /\ Coord!TypeOK' /\ DataTyped' /\ GoroutinesTyped'
                  /\ ConnectionsTyped' /\ UserTyped'
BY DEF Types, TypeOK, Coord!TypeOK, Srv!TypeOK, DataTyped, GoroutinesTyped, ConnectionsTyped

\* A goroutine goes to a place, with a command or none.
LEMMA GoroutineMoves ==
    ASSUME GoroutinesTyped, NEW s \in Servers, NEW c \in Clients,
           NEW to \in Srv!Places, NEW m \in Srv!Messages \cup {NoCommand},
           place' = [place EXCEPT ![s][c] = to], curr' = [curr EXCEPT ![s][c] = m],
           to \in {"await", "sleep"} => m \in Srv!Messages /\ m.op \in {"SET", "GET"},
           to = "reading" => m \in Srv!Messages /\ m.op = "GET",
           to \in {"idle", "applying"} => m = NoCommand
    PROVE  GoroutinesTyped'
<1>1. /\ place \in [Servers -> [Clients -> Srv!Places]]
      /\ curr \in [Servers -> [Clients -> Srv!Messages \cup {NoCommand}]]
  BY DEF GoroutinesTyped
<1>2. /\ place' \in [Servers -> [Clients -> Srv!Places]]
      /\ curr' \in [Servers -> [Clients -> Srv!Messages \cup {NoCommand}]]
  BY <1>1
<1>3. ASSUME NEW t \in Servers, NEW d \in Clients
      PROVE  /\ place'[t][d] \in {"await", "sleep"} => curr'[t][d].op \in {"SET", "GET"}
             /\ place'[t][d] = "reading" => curr'[t][d].op = "GET"
             /\ place'[t][d] \in {"idle", "applying"} => curr'[t][d] = NoCommand
             /\ place'[t][d] \in {"await", "sleep", "reading"} => curr'[t][d] \in Srv!Messages
  <2>1. CASE t = s /\ d = c
    <3>1. place'[t][d] = to /\ curr'[t][d] = m
      BY <1>1, <2>1
    <3> QED BY <3>1
  <2>2. CASE t # s \/ d # c
    <3>1. place'[t][d] = place[t][d] /\ curr'[t][d] = curr[t][d]
      BY <1>1, <2>2
    <3> QED BY <3>1 DEF GoroutinesTyped, ServerTyped
  <2> QED BY <2>1, <2>2
<1> QED BY <1>2, <1>3 DEF GoroutinesTyped, ServerTyped

\* The effects of Move and of Finish.
LEMMA GoroutineTurns ==
    ASSUME GoroutinesTyped, NEW s \in Servers, NEW c \in Clients
    PROVE  /\ \A to \in {"await", "sleep"} :
                 Srv!Move(s, c, to) /\ UNCHANGED curr /\ place[s][c] \in {"await", "sleep"}
                     => GoroutinesTyped'
           /\ Srv!Move(s, c, "reading") /\ UNCHANGED curr
                 /\ place[s][c] = "await" /\ curr[s][c].op = "GET" => GoroutinesTyped'
           /\ Srv!Move(s, c, "applying") /\ UNCHANGED curr /\ place[s][c] = "idle"
                 => GoroutinesTyped'
           /\ Srv!Finish(s, c) => GoroutinesTyped'
<1> DEFINE m == curr[s][c]
<1>1. /\ place \in [Servers -> [Clients -> Srv!Places]]
      /\ curr \in [Servers -> [Clients -> Srv!Messages \cup {NoCommand}]]
      /\ m \in Srv!Messages \cup {NoCommand}
      /\ place[s][c] \in {"await", "sleep"} => m \in Srv!Messages /\ m.op \in {"SET", "GET"}
      /\ place[s][c] = "idle" => m = NoCommand
  BY DEF GoroutinesTyped, ServerTyped
<1>2. UNCHANGED curr => curr' = [curr EXCEPT ![s][c] = m]
  BY <1>1
<1> HIDE DEF m
<1>3. ASSUME NEW to \in {"await", "sleep"}, Srv!Move(s, c, to), UNCHANGED curr,
             place[s][c] \in {"await", "sleep"}
      PROVE  GoroutinesTyped'
  BY <1>1, <1>2, <1>3, GoroutineMoves DEF Srv!Move, Srv!Places
<1>4. ASSUME Srv!Move(s, c, "reading"), UNCHANGED curr, place[s][c] = "await", m.op = "GET"
      PROVE  GoroutinesTyped'
  BY <1>1, <1>2, <1>4, GoroutineMoves DEF Srv!Move, Srv!Places
<1>5. ASSUME Srv!Move(s, c, "applying"), UNCHANGED curr, place[s][c] = "idle"
      PROVE  GoroutinesTyped'
  BY <1>1, <1>2, <1>5, GoroutineMoves DEF Srv!Move, Srv!Places
<1>6. ASSUME Srv!Finish(s, c)
      PROVE  GoroutinesTyped'
  BY <1>6, GoroutineMoves DEF Srv!Finish, Srv!Move, Srv!Places
<1> QED BY <1>3, <1>4, <1>5, <1>6 DEF m

\* A step of a server keeps the types of everything it has.
LEMMA ServerStepTyped ==
    ASSUME Types, NEW s \in Servers, NEW c \in Clients, Srv!Step(s, c)
    PROVE  DataTyped' /\ GoroutinesTyped' /\ ConnectionsTyped'
<1>1. Coord!TypeOK /\ DataTyped /\ GoroutinesTyped /\ ConnectionsTyped /\ UserTyped /\ TypeOK
  BY TypeParts DEF Types
<1>2. UNCHANGED <<store, deltas>> => DataTyped'
  BY <1>1 DEF DataTyped
<1>3. UNCHANGED store /\ Srv!ClearDeltas(s, c) => DataTyped'
  BY <1>1 DEF DataTyped, Srv!ClearDeltas, Srv!Empty
<1>4. UNCHANGED <<place, curr>> => GoroutinesTyped'
  BY <1>1 DEF GoroutinesTyped, ServerTyped
<1>5. /\ UNCHANGED buffered => buffered' \in [Servers -> [Clients -> Seq({"OK", "WAIT"})]]
      /\ UNCHANGED fromClient => fromClient' \in [Clients -> [Servers -> Seq(Srv!Messages)]]
      /\ UNCHANGED toClient => toClient' \in [Servers -> [Clients -> Seq(Srv!Results)]]
      /\ UNCHANGED requests => requests' \in [Servers -> Seq(Coord!Commands)]
      /\ UNCHANGED replies => replies' \in [Servers -> Seq(Coord!Answers)]
  BY <1>1 DEF ConnectionsTyped
<1> DEFINE m == Head(fromClient[c][s])
           own == curr[s][c]
<1>6. CASE Srv!Begin(s, c)
  <2>1. fromClient' \in [Clients -> [Servers -> Seq(Srv!Messages)]]
    BY <1>1, <1>6, CommandTaken DEF Srv!Begin
  <2>2. ConnectionsTyped'
    BY <1>5, <1>6, <2>1 DEF Srv!Begin, ConnectionsTyped
  <2> QED BY <1>3, <1>4, <1>6, <2>2 DEF Srv!Begin
<1>7. CASE Srv!Set(s, c)
  <2>1. /\ fromClient' \in [Clients -> [Servers -> Seq(Srv!Messages)]]
        /\ m \in Srv!Messages /\ m.op = "SET"
    BY <1>1, <1>7, CommandTaken DEF Srv!Set
  <2>2. m.key \in Keys /\ m.value \in Values
    BY <2>1, MessageFields
  <2>3. requests' \in [Servers -> Seq(Coord!Commands)]
    BY <1>1, <1>7, <2>1, CommandSent DEF Srv!Set
  <2>4. ConnectionsTyped'
    BY <1>5, <1>7, <2>1, <2>3 DEF Srv!Set, ConnectionsTyped
  <2>5. DataTyped'
    <3>1. UNCHANGED store /\ deltas' = [deltas EXCEPT ![s][c][m.key] = m.value]
      BY <1>7 DEF Srv!Set
    <3> HIDE DEF m
    <3> QED BY <1>1, <2>2, <3>1 DEF DataTyped
  <2>6. GoroutinesTyped'
    <3>1. place' = [place EXCEPT ![s][c] = "await"] /\ curr' = [curr EXCEPT ![s][c] = m]
      BY <1>7 DEF Srv!Set, Srv!Move
    <3> HIDE DEF m
    <3> QED BY <1>1, <2>1, <3>1, GoroutineMoves DEF Srv!Places
  <2> QED BY <2>4, <2>5, <2>6
<1>8. CASE Srv!Get(s, c)
  <2>1. /\ fromClient' \in [Clients -> [Servers -> Seq(Srv!Messages)]]
        /\ m \in Srv!Messages /\ m.op = "GET"
    BY <1>1, <1>8, CommandTaken DEF Srv!Get
  <2>2. requests' \in [Servers -> Seq(Coord!Commands)]
    BY <1>1, <1>8, <2>1, CommandSent DEF Srv!Get
  <2>3. ConnectionsTyped'
    BY <1>5, <1>8, <2>1, <2>2 DEF Srv!Get, ConnectionsTyped
  <2>4. GoroutinesTyped'
    <3>1. place' = [place EXCEPT ![s][c] = "await"] /\ curr' = [curr EXCEPT ![s][c] = m]
      BY <1>8 DEF Srv!Get, Srv!Move
    <3> HIDE DEF m
    <3> QED BY <1>1, <2>1, <3>1, GoroutineMoves DEF Srv!Places
  <2> QED BY <1>2, <1>8, <2>3, <2>4 DEF Srv!Get
<1>9. CASE Srv!Abort(s, c)
  <2>1. /\ fromClient' \in [Clients -> [Servers -> Seq(Srv!Messages)]]
        /\ m \in Srv!Messages /\ m.op = "ABORT"
    BY <1>1, <1>9, CommandTaken DEF Srv!Abort
  <2>2. requests' \in [Servers -> Seq(Coord!Commands)]
    BY <1>1, <1>9, <2>1, CommandSent DEF Srv!Abort
  <2>3. ConnectionsTyped'
    BY <1>5, <1>9, <2>1, <2>2 DEF Srv!Abort, ConnectionsTyped
  <2> QED BY <1>3, <1>4, <1>9, <2>3 DEF Srv!Abort
<1>10. CASE Srv!Commit(s, c)
  <2>1. /\ fromClient' \in [Clients -> [Servers -> Seq(Srv!Messages)]]
        /\ m \in Srv!Messages /\ m.op = "COMMIT" /\ place[s][c] = "idle"
    BY <1>1, <1>10, CommandTaken DEF Srv!Commit
  <2>2. requests' \in [Servers -> Seq(Coord!Commands)]
    BY <1>1, <1>10, <2>1, CommandSent DEF Srv!Commit
  <2>3. ConnectionsTyped'
    BY <1>5, <1>10, <2>1, <2>2 DEF Srv!Commit, ConnectionsTyped
  <2>4. GoroutinesTyped'
    BY <1>1, <1>10, <2>1, GoroutineTurns DEF Srv!Commit
  <2> QED BY <1>2, <1>10, <2>3, <2>4 DEF Srv!Commit
<1>11. CASE Srv!Apply(s, c)
  <2>1. DataTyped'
    BY <1>1, <1>11 DEF Srv!Apply, DataTyped, Srv!ClearDeltas, Srv!Empty
  <2>2. GoroutinesTyped'
    BY <1>1, <1>11, GoroutineTurns DEF Srv!Apply
  <2> QED BY <1>5, <1>11, <2>1, <2>2 DEF Srv!Apply, ConnectionsTyped
\* Of the answer to a GET, the value is one of the server's own.
<1>12. ASSUME NEW v \in Values \cup {NoValue}, place[s][c] \in {"await", "reading"}, own.op = "GET"
       PROVE  Srv!Result(s, c, v) \in Srv!Results
  <2>1. own \in Srv!Messages
    BY <1>1, <1>12 DEF GoroutinesTyped, ServerTyped
  <2>2. own.key \in Keys
    BY <1>12, <2>1, MessageFields
  <2> QED BY <1>12, <2>2 DEF Srv!Result, Srv!Results
<1>13. CASE Srv!AnswerOwnWrite(s, c)
  <2>1. PICK a : Srv!NextAnswer(s, c, a)
    BY <1>13 DEF Srv!AnswerOwnWrite
  <2>2. own.op = "GET" /\ place[s][c] = "await"
    BY <1>13 DEF Srv!AnswerOwnWrite, Srv!OwnWrite
  <2>3. own \in Srv!Messages /\ own.key \in Keys
    <3>1. own \in Srv!Messages
      BY <1>1, <2>2 DEF GoroutinesTyped, ServerTyped
    <3> QED BY <2>2, <3>1, MessageFields
  <2>4. deltas[s][c][own.key] \in Values \cup {NoValue}
    BY <1>1, <2>3 DEF DataTyped
  <2>5. Srv!Result(s, c, deltas[s][c][own.key]) \in Srv!Results
    BY <1>12, <2>2, <2>4
  <2>6. toClient' \in [Servers -> [Clients -> Seq(Srv!Results)]]
    BY <1>1, <1>13, <2>5, ResultSent DEF Srv!AnswerOwnWrite
  <2>7. /\ buffered' \in [Servers -> [Clients -> Seq({"OK", "WAIT"})]]
        /\ replies' \in [Servers -> Seq(Coord!Answers)]
    BY <1>1, <2>1, AnswerRead
  <2>8. ConnectionsTyped'
    BY <1>5, <1>13, <2>6, <2>7 DEF Srv!AnswerOwnWrite, ConnectionsTyped
  <2>9. GoroutinesTyped'
    BY <1>1, <1>13, GoroutineTurns DEF Srv!AnswerOwnWrite
  <2> QED BY <1>2, <1>13, <2>8, <2>9 DEF Srv!AnswerOwnWrite
<1>14. CASE Srv!SetGranted(s, c)
  <2>1. [op |-> "SET"] \in Srv!Results
    BY DEF Srv!Results
  <2>2. toClient' \in [Servers -> [Clients -> Seq(Srv!Results)]]
    BY <1>1, <1>14, <2>1, ResultSent DEF Srv!SetGranted
  <2>3. /\ buffered' \in [Servers -> [Clients -> Seq({"OK", "WAIT"})]]
        /\ replies' \in [Servers -> Seq(Coord!Answers)]
    BY <1>1, <1>14, AnswerRead DEF Srv!SetGranted
  <2>4. ConnectionsTyped'
    BY <1>5, <1>14, <2>2, <2>3 DEF Srv!SetGranted, ConnectionsTyped
  <2>5. GoroutinesTyped'
    BY <1>1, <1>14, GoroutineTurns DEF Srv!SetGranted
  <2> QED BY <1>2, <1>14, <2>4, <2>5 DEF Srv!SetGranted
<1>15. CASE Srv!GetGranted(s, c) \/ Srv!Wait(s, c)
  <2>1. PICK a : Srv!NextAnswer(s, c, a)
    BY <1>15 DEF Srv!GetGranted, Srv!Wait
  <2>2. /\ buffered' \in [Servers -> [Clients -> Seq({"OK", "WAIT"})]]
        /\ replies' \in [Servers -> Seq(Coord!Answers)]
    BY <1>1, <2>1, AnswerRead
  <2>3. ConnectionsTyped'
    BY <1>5, <1>15, <2>2 DEF Srv!GetGranted, Srv!Wait, ConnectionsTyped
  <2>4. GoroutinesTyped'
    BY <1>1, <1>15, GoroutineTurns DEF Srv!GetGranted, Srv!Wait
  <2> QED BY <1>2, <1>15, <2>3, <2>4 DEF Srv!GetGranted, Srv!Wait
<1>16. CASE Srv!AnswerGet(s, c)
  <2>1. own.op = "GET" /\ own \in Srv!Messages /\ place[s][c] = "reading"
    BY <1>1, <1>16 DEF Srv!AnswerGet, GoroutinesTyped, ServerTyped
  <2>2. own.key \in Keys
    BY <2>1, MessageFields
  <2>3. store[s][own.key] \in Values \cup {NoValue}
    BY <1>1, <2>2 DEF DataTyped
  <2>4. Srv!Result(s, c, store[s][own.key]) \in Srv!Results
    BY <1>12, <2>1, <2>3
  <2>5. toClient' \in [Servers -> [Clients -> Seq(Srv!Results)]]
    BY <1>1, <1>16, <2>4, ResultSent DEF Srv!AnswerGet
  <2>6. ConnectionsTyped'
    BY <1>5, <1>16, <2>5 DEF Srv!AnswerGet, ConnectionsTyped
  <2>7. GoroutinesTyped'
    BY <1>1, <1>16, GoroutineTurns DEF Srv!AnswerGet
  <2> QED BY <1>2, <1>16, <2>6, <2>7 DEF Srv!AnswerGet
<1>17. CASE Srv!Resend(s, c)
  <2>1. own \in Srv!Messages /\ own.op \in {"SET", "GET"}
    BY <1>1, <1>17 DEF Srv!Resend, GoroutinesTyped, ServerTyped
  <2>2. requests' \in [Servers -> Seq(Coord!Commands)]
    BY <1>1, <1>17, <2>1, CommandSent DEF Srv!Resend
  <2>3. ConnectionsTyped'
    BY <1>5, <1>17, <2>2 DEF Srv!Resend, ConnectionsTyped
  <2>4. GoroutinesTyped'
    BY <1>1, <1>17, GoroutineTurns DEF Srv!Resend
  <2> QED BY <1>2, <1>17, <2>3, <2>4 DEF Srv!Resend
<1> QED BY <1>6, <1>7, <1>8, <1>9, <1>10, <1>11, <1>13, <1>14, <1>15, <1>16, <1>17 DEF Srv!Step

------------------------------------------------------------------------------
(* Type correctness of the clients                                         *)

\* The next command of a client is one its user may type.
LEMMA NextCommand ==
    ASSUME UserTyped, NEW c \in Clients, NEW op, User!Take(c, op)
    PROVE  LET m == script[c][taken[c] + 1]
           IN  /\ m \in User!UserCommands /\ m.op = op
               /\ op \in {"GET", "SET"} => m.server \in Servers /\ m.key \in Keys
               /\ taken' \in [Clients -> Nat]
               /\ taken'[c] <= typed[c]
               /\ \A d \in Clients : d # c => taken'[d] = taken[d]
<1> DEFINE m == script[c][taken[c] + 1]
<1>1. /\ taken[c] \in Nat /\ typed[c] \in Nat /\ taken[c] < typed[c]
      /\ typed[c] <= Len(script[c]) /\ m.op = op
      /\ taken \in [Clients -> Nat] /\ taken' = [taken EXCEPT ![c] = taken[c] + 1]
  BY DEF UserTyped, User!Take
<1>2. script[c] \in Seq(User!UserCommands)
  BY ScriptsAssumption DEF UserTyped
<1>3. Len(script[c]) \in Nat /\ taken[c] + 1 \in 1..Len(script[c])
  BY <1>1, <1>2
<1>4. m \in User!UserCommands
  BY <1>2, <1>3, ElementOfSeq
<1>5. op \in {"GET", "SET"} => m.server \in Servers /\ m.key \in Keys
  BY <1>1, <1>4 DEF User!UserCommands
<1> QED BY <1>1, <1>4, <1>5

LEMMA Broadcasts ==
    ASSUME ConnectionsTyped, NEW c \in Clients, NEW op \in {"BEGIN", "COMMIT", "ABORT"},
           NEW to, User!Broadcast(c, op, to)
    PROVE  fromClient' \in [Clients -> [Servers -> Seq(Srv!Messages)]]
<1>1. fromClient \in [Clients -> [Servers -> Seq(Srv!Messages)]]
  BY DEF ConnectionsTyped
<1>2. [op |-> op] \in Srv!Messages
  BY DEF Srv!Messages
<1> DEFINE m == [op |-> op]
<1>3. fromClient' = [fromClient EXCEPT ![c] = [s \in Servers |->
          IF s \in to THEN Append(fromClient[c][s], m) ELSE fromClient[c][s]]]
  BY DEF User!Broadcast
<1> HIDE DEF m
<1>4. \A s \in Servers : Append(fromClient[c][s], m) \in Seq(Srv!Messages)
  BY <1>1, <1>2 DEF m
<1> QED BY <1>1, <1>3, <1>4

LEMMA Sends ==
    ASSUME ConnectionsTyped, NEW c \in Clients, NEW s \in Servers, NEW m \in Srv!Messages,
           fromClient' = [fromClient EXCEPT ![c][s] = Append(fromClient[c][s], m)]
    PROVE  fromClient' \in [Clients -> [Servers -> Seq(Srv!Messages)]]
<1>1. fromClient \in [Clients -> [Servers -> Seq(Srv!Messages)]]
  BY DEF ConnectionsTyped
<1>2. Append(fromClient[c][s], m) \in Seq(Srv!Messages)
  BY <1>1
<1> QED BY <1>1, <1>2

LEMMA TakesResult ==
    ASSUME ConnectionsTyped, NEW c \in Clients, NEW s \in Servers, User!TakeResult(c, s)
    PROVE  toClient' \in [Servers -> [Clients -> Seq(Srv!Results)]]
<1>1. toClient \in [Servers -> [Clients -> Seq(Srv!Results)]]
  BY DEF ConnectionsTyped
<1>2. Tail(toClient[s][c]) \in Seq(Srv!Results)
  BY <1>1 DEF User!TakeResult
<1> QED BY <1>1, <1>2 DEF User!TakeResult

\* A step of a client keeps the types of what it has and sends.
LEMMA ClientStepTyped ==
    ASSUME Types, NEW c \in Clients, User!Step(c)
    PROVE  /\ UserTyped'
           /\ fromClient' \in [Clients -> [Servers -> Seq(Srv!Messages)]]
           /\ toClient' \in [Servers -> [Clients -> Seq(Srv!Results)]]
<1>1. UserTyped /\ ConnectionsTyped
  BY TypeParts
<1>2. /\ UNCHANGED fromClient => fromClient' \in [Clients -> [Servers -> Seq(Srv!Messages)]]
      /\ UNCHANGED toClient => toClient' \in [Servers -> [Clients -> Seq(Srv!Results)]]
  BY <1>1 DEF ConnectionsTyped
<1>3. /\ script \in [Clients -> Scripts]
      /\ typed \in [Clients -> Nat] /\ taken \in [Clients -> Nat]
      /\ \A d \in Clients : taken[d] <= typed[d] /\ typed[d] <= Len(script[d])
      /\ inTransaction \in [Clients -> BOOLEAN]
      /\ transactionId \in [Clients -> Nat]
      /\ waitsFor \in [Clients -> Servers \cup {NoServer}]
  BY <1>1 DEF UserTyped
<1> DEFINE m == script[c][taken[c] + 1]
           Counted == /\ taken' \in [Clients -> Nat] /\ taken'[c] <= typed[c]
                      /\ \A d \in Clients : d # c => taken'[d] = taken[d]
\* Having taken a command, what is left is to show the other types.
<1>4. ASSUME Counted, UNCHANGED User!input,
             inTransaction' \in [Clients -> BOOLEAN],
             transactionId' \in [Clients -> Nat],
             waitsFor' \in [Clients -> Servers \cup {NoServer}]
      PROVE  UserTyped'
  BY <1>3, <1>4 DEF UserTyped, User!input
<1>5. UNCHANGED User!transaction => inTransaction' \in [Clients -> BOOLEAN]
                                    /\ transactionId' \in [Clients -> Nat]
  BY <1>3 DEF User!transaction
<1>6. UNCHANGED waitsFor => waitsFor' \in [Clients -> Servers \cup {NoServer}]
  BY <1>3
<1>7. User!EndTransaction(c) => inTransaction' \in [Clients -> BOOLEAN]
                                /\ transactionId' \in [Clients -> Nat]
  BY <1>3 DEF User!EndTransaction
<1>8. CASE User!Ignore(c)
  <2>1. PICK op : User!Take(c, op)
    BY <1>8 DEF User!Ignore
  <2>2. Counted
    BY <1>1, <2>1, NextCommand
  <2> QED BY <1>2, <1>4, <1>5, <1>6, <1>8, <2>2 DEF User!Ignore
<1>9. CASE User!Begin(c)
  <2>1. Counted
    BY <1>1, <1>9, NextCommand DEF User!Begin
  <2>2. fromClient' \in [Clients -> [Servers -> Seq(Srv!Messages)]]
    BY <1>1, <1>9, Broadcasts DEF User!Begin
  <2>3. inTransaction' \in [Clients -> BOOLEAN] /\ transactionId' \in [Clients -> Nat]
    BY <1>3, <1>9 DEF User!Begin
  <2> QED BY <1>2, <1>4, <1>6, <1>9, <2>1, <2>2, <2>3 DEF User!Begin
<1>10. CASE User!Get(c)
  <2>1. Counted /\ m.server \in Servers /\ m.key \in Keys
    BY <1>1, <1>10, NextCommand DEF User!Get
  <2> DEFINE x == [op |-> "GET", key |-> m.key]
             s == m.server
  <2>2. x \in Srv!Messages
    BY <2>1 DEF Srv!Messages
  <2>3. /\ fromClient' = [fromClient EXCEPT ![c][s] = Append(fromClient[c][s], x)]
        /\ waitsFor' = [waitsFor EXCEPT ![c] = s]
    BY <1>10 DEF User!Get
  <2>4. waitsFor' \in [Clients -> Servers \cup {NoServer}]
    BY <1>3, <2>1, <2>3
  <2>5. fromClient' \in [Clients -> [Servers -> Seq(Srv!Messages)]]
    <3> HIDE DEF x, m
    <3> QED BY <1>1, <2>1, <2>2, <2>3, Sends
  <2> QED BY <1>2, <1>4, <1>5, <1>10, <2>1, <2>4, <2>5 DEF User!Get
<1>11. CASE User!Set(c)
  <2>1. Counted /\ m.server \in Servers /\ m.key \in Keys
    BY <1>1, <1>11, NextCommand DEF User!Set
  <2> DEFINE x == [op |-> "SET", key |-> m.key, value |-> User!Transaction(c)]
             s == m.server
  <2>2. x \in Srv!Messages
    <3>1. User!Transaction(c) \in Values
      BY <1>3 DEF User!Transaction, Values
    <3> QED BY <2>1, <3>1 DEF Srv!Messages
  <2>3. /\ fromClient' = [fromClient EXCEPT ![c][s] = Append(fromClient[c][s], x)]
        /\ waitsFor' = [waitsFor EXCEPT ![c] = s]
    BY <1>11 DEF User!Set
  <2>4. waitsFor' \in [Clients -> Servers \cup {NoServer}]
    BY <1>3, <2>1, <2>3
  <2>5. fromClient' \in [Clients -> [Servers -> Seq(Srv!Messages)]]
    <3> HIDE DEF x, m
    <3> QED BY <1>1, <2>1, <2>2, <2>3, Sends
  <2> QED BY <1>2, <1>4, <1>5, <1>11, <2>1, <2>4, <2>5 DEF User!Set
<1>12. CASE User!Commit(c) \/ User!Abort(c)
  <2>1. PICK op \in {"COMMIT", "ABORT"} :
            User!Take(c, op) /\ User!Broadcast(c, op, Servers)
    BY <1>12 DEF User!Commit, User!Abort
  <2>2. Counted
    BY <1>1, <2>1, NextCommand
  <2>3. fromClient' \in [Clients -> [Servers -> Seq(Srv!Messages)]]
    BY <1>1, <2>1, Broadcasts
  <2> QED BY <1>2, <1>4, <1>6, <1>7, <1>12, <2>2, <2>3 DEF User!Commit, User!Abort
<1>13. CASE User!Crash(c)
  <2>1. Counted
    BY <1>1, <1>13, NextCommand DEF User!Crash
  <2>2. fromClient' \in [Clients -> [Servers -> Seq(Srv!Messages)]]
    BY <1>1, <1>13, Broadcasts DEF User!Crash
  <2> QED BY <1>2, <1>4, <1>5, <1>6, <1>13, <2>1, <2>2 DEF User!Crash
<1>14. CASE User!Type(c)
  <2>1. /\ typed[c] < Len(script[c]) /\ typed' = [typed EXCEPT ![c] = typed[c] + 1]
        /\ UNCHANGED <<script, taken, User!transaction, waitsFor, fromClient, toClient>>
    BY <1>14 DEF User!Type
  <2>2. Len(script[c]) \in Nat
    <3>1. script[c] \in Seq(User!UserCommands)
      BY <1>3, ScriptsAssumption
    <3> QED BY <3>1
  <2>3. UserTyped'
    BY <1>3, <1>5, <2>1, <2>2 DEF UserTyped
  <2> QED BY <1>2, <2>1, <2>3
<1>15. ASSUME NEW s \in Servers, User!Swallow(c, s)
       PROVE  /\ UserTyped'
              /\ fromClient' \in [Clients -> [Servers -> Seq(Srv!Messages)]]
              /\ toClient' \in [Servers -> [Clients -> Seq(Srv!Results)]]
  <2>1. toClient' \in [Servers -> [Clients -> Seq(Srv!Results)]]
    BY <1>1, <1>15, TakesResult DEF User!Swallow
  <2>2. UserTyped'
    BY <1>3, <1>5, <1>15 DEF User!Swallow, UserTyped, User!input
  <2> QED BY <1>2, <1>15, <2>1, <2>2 DEF User!Swallow
<1>16. CASE User!Receive(c)
  <2>1. /\ waitsFor[c] \in Servers /\ User!TakeResult(c, waitsFor[c])
        /\ waitsFor' = [waitsFor EXCEPT ![c] = NoServer]
        /\ UNCHANGED <<User!input, taken, User!transaction, fromClient>>
    BY <1>3, <1>16 DEF User!Receive
  <2>2. toClient' \in [Servers -> [Clients -> Seq(Srv!Results)]]
    BY <1>1, <2>1, TakesResult
  <2>3. UserTyped'
    BY <1>3, <1>5, <2>1 DEF UserTyped, User!input
  <2> QED BY <1>2, <2>1, <2>2, <2>3
<1>17. CASE User!AbortGet(c)
  <2>1. fromClient' \in [Clients -> [Servers -> Seq(Srv!Messages)]]
    BY <1>1, <1>17, Broadcasts DEF User!AbortGet
  <2>2. waitsFor' \in [Clients -> Servers \cup {NoServer}]
    BY <1>3, <1>17 DEF User!AbortGet
  <2>3. UserTyped'
    BY <1>3, <1>7, <1>17, <2>2 DEF User!AbortGet, UserTyped, User!input
  <2> QED BY <1>2, <1>17, <2>1, <2>3 DEF User!AbortGet
<1> QED BY <1>8, <1>9, <1>10, <1>11, <1>12, <1>13, <1>14, <1>15, <1>16, <1>17
   DEF User!Step, User!Proceed

------------------------------------------------------------------------------
(* Type correctness of the system                                          *)

LEMMA InitTypes == Init => Types
<1> SUFFICES ASSUME Init PROVE Types
  OBVIOUS
<1>1. Coord!TypeOK
  BY CoordInitTyped DEF Init
<1>2. DataTyped
  BY DEF Init, Srv!Init, Srv!Empty, DataTyped
<1>3. GoroutinesTyped
  BY DEF Init, Srv!Init, GoroutinesTyped, ServerTyped, Srv!Places
<1>4. ConnectionsTyped
  <2>1. /\ <<>> \in Seq({"OK", "WAIT"}) /\ <<>> \in Seq(Srv!Messages)
        /\ <<>> \in Seq(Srv!Results)
    OBVIOUS
  <2>2. requests \in [Servers -> Seq(Coord!Commands)] /\ replies \in [Servers -> Seq(Coord!Answers)]
    BY <1>1 DEF Coord!TypeOK
  <2> QED BY <2>1, <2>2 DEF Init, Srv!Init, ConnectionsTyped
<1>5. UserTyped
  <2>1. script \in [Clients -> Scripts]
    BY DEF Init, User!Init
  <2>2. \A c \in Clients : Len(script[c]) \in Nat
    <3>1. \A c \in Clients : script[c] \in Seq(User!UserCommands)
      BY <2>1, ScriptsAssumption
    <3> QED BY <3>1
  <2> QED BY <2>1, <2>2 DEF Init, User!Init, UserTyped
<1> QED BY <1>1, <1>2, <1>3, <1>4, <1>5, TypeParts

LEMMA StepTypes ==
    ASSUME Types, [Next]_vars
    PROVE  Types'
<1>1. Coord!TypeOK /\ DataTyped /\ GoroutinesTyped /\ ConnectionsTyped /\ UserTyped
  BY TypeParts
<1>2. ASSUME NEW s \in Servers, CoordinatorStep(s)
      PROVE  Types'
  <2>1. Coord!TypeOK'
    BY <1>1, <1>2, CoordStepTyped DEF CoordinatorStep
  <2>2. DataTyped' /\ GoroutinesTyped'
    BY <1>1, <1>2 DEF CoordinatorStep, server, DataTyped, GoroutinesTyped, ServerTyped
  <2>3. ConnectionsTyped'
    BY <1>1, <1>2, <2>1 DEF CoordinatorStep, server, ConnectionsTyped, Coord!TypeOK
  <2>4. UserTyped'
    BY <1>1, <1>2 DEF CoordinatorStep, client, UserTyped
  <2> QED BY <2>1, <2>2, <2>3, <2>4, NextTypeParts
<1>3. ASSUME NEW s \in Servers, NEW c \in Clients, ServerStep(s, c)
      PROVE  Types'
  <2>1. DataTyped' /\ GoroutinesTyped' /\ ConnectionsTyped'
    BY <1>3, ServerStepTyped DEF ServerStep
  <2>2. Coord!TypeOK'
    BY <1>1, <1>3, <2>1 DEF ServerStep, coordinator, ConnectionsTyped, Coord!TypeOK
  <2>3. UserTyped'
    BY <1>1, <1>3 DEF ServerStep, client, UserTyped
  <2> QED BY <2>1, <2>2, <2>3, NextTypeParts
<1>4. ASSUME NEW c \in Clients, ClientStep(c)
      PROVE  Types'
  <2>1. /\ UserTyped'
        /\ fromClient' \in [Clients -> [Servers -> Seq(Srv!Messages)]]
        /\ toClient' \in [Servers -> [Clients -> Seq(Srv!Results)]]
    BY <1>4, ClientStepTyped DEF ClientStep
  <2>2. Coord!TypeOK'
    BY <1>1, <1>4 DEF ClientStep, coordinator, Coord!TypeOK
  <2>3. DataTyped' /\ GoroutinesTyped'
    BY <1>1, <1>4 DEF ClientStep, server, DataTyped, GoroutinesTyped, ServerTyped
  <2>4. ConnectionsTyped'
    BY <1>1, <1>4, <2>1 DEF ClientStep, server, ConnectionsTyped
  <2> QED BY <2>1, <2>2, <2>3, <2>4, NextTypeParts
<1>5. CASE UNCHANGED vars
  <2>1. Coord!TypeOK'
    BY <1>1, <1>5 DEF vars, coordinator, Coord!TypeOK
  <2>2. DataTyped' /\ GoroutinesTyped' /\ ConnectionsTyped'
    BY <1>1, <1>5
    DEF vars, server, DataTyped, GoroutinesTyped, ServerTyped, ConnectionsTyped
  <2>3. UserTyped'
    BY <1>1, <1>5 DEF vars, client, UserTyped
  <2> QED BY <2>1, <2>2, <2>3, NextTypeParts
<1> QED BY <1>2, <1>3, <1>4, <1>5 DEF Next

LEMMA TypesCorrect == Spec => []Types
BY InitTypes, StepTypes, PTL DEF Spec

\* The maps, goroutines and connections of servers and coordinator hold what their
\* code can put there, whatever users type.
THEOREM TypeCorrect == Spec => []TypeOK
BY TypesCorrect, PTL DEF Types
------------------------------------------------------------------------------
(* No answer is lost on the shared connection                              *)

Accounted ==
    \A s \in Servers :
        /\ IsFiniteSet(Awaiting(s)) /\ IsFiniteSet(Unread(s)) /\ IsFiniteSet(ReadAhead(s))
        /\ Cardinality(Awaiting(s)) = Cardinality(Unread(s)) + Working(s)
                                       + Len(replies[s]) + Cardinality(ReadAhead(s))

\* A goroutine begins to wait, or no longer does.
LEMMA WaitingCounted ==
    ASSUME Types, NEW s \in Servers, NEW c \in Clients, NEW to \in Srv!Places,
           Srv!Move(s, c, to), IsFiniteSet(Awaiting(s))
    PROVE  /\ IsFiniteSet(Awaiting(s)')
           /\ place[s][c] # "await" /\ to = "await" =>
                  Cardinality(Awaiting(s)') = Cardinality(Awaiting(s)) + 1
           /\ place[s][c] = "await" /\ to # "await" =>
                  Cardinality(Awaiting(s)') = Cardinality(Awaiting(s)) - 1
           /\ place[s][c] # "await" /\ to # "await" => Awaiting(s)' = Awaiting(s)
           /\ \A t \in Servers : t # s => Awaiting(t)' = Awaiting(t)
<1>1. place \in [Servers -> [Clients -> Srv!Places]]
  BY TypeParts DEF GoroutinesTyped
<1>2. /\ place'[s][c] = to
      /\ \A d \in Clients : d # c => place'[s][d] = place[s][d]
      /\ \A t \in Servers : t # s => place'[t] = place[t]
  BY <1>1 DEF Srv!Move
<1>3. Awaiting(s)' = IF to = "await" THEN Awaiting(s) \cup {c} ELSE Awaiting(s) \ {c}
  BY <1>2 DEF Awaiting
<1>4. c \in Awaiting(s) <=> place[s][c] = "await"
  BY DEF Awaiting
<1>5. \A t \in Servers : t # s => Awaiting(t)' = Awaiting(t)
  BY <1>2 DEF Awaiting
<1>6. place[s][c] # "await" /\ to # "await" => Awaiting(s)' = Awaiting(s)
  BY <1>3, <1>4
<1>7. /\ IsFiniteSet(Awaiting(s) \cup {c}) /\ IsFiniteSet(Awaiting(s) \ {c})
      /\ c \notin Awaiting(s) => Cardinality(Awaiting(s) \cup {c}) = Cardinality(Awaiting(s)) + 1
      /\ c \in Awaiting(s) => Cardinality(Awaiting(s) \ {c}) = Cardinality(Awaiting(s)) - 1
  BY FS_AddElement, FS_RemoveElement
<1> QED BY <1>3, <1>4, <1>5, <1>6, <1>7

\* A server sends to the coordinator: the command waits there, if it is for a lock.
LEMMA SendingCounted ==
    ASSUME Types, NEW s \in Servers, NEW c \in Clients, NEW m \in Srv!Messages,
           m.op # "BEGIN", Srv!ToCoordinator(s, c, m), IsFiniteSet(Unread(s))
    PROVE  /\ IsFiniteSet(Unread(s)')
           /\ m.op \in {"SET", "GET"} => Cardinality(Unread(s)') = Cardinality(Unread(s)) + 1
           /\ m.op \notin {"SET", "GET"} => Cardinality(Unread(s)') = Cardinality(Unread(s))
           /\ \A t \in Servers : t # s => Unread(t)' = Unread(t)
<1> DEFINE x == IF m.op \in {"SET", "GET"} THEN [op |-> m.op, client |-> c, key |-> m.key]
                                           ELSE [op |-> m.op, client |-> c]
           n == Len(requests[s])
<1>1. x \in Coord!Commands
  BY MessageFields DEF Coord!Commands, Coord!LockCommands, Coord!EndCommands
<1>2. requests' = [requests EXCEPT ![s] = Append(requests[s], x)]
  BY DEF Srv!ToCoordinator
<1>3. requests \in [Servers -> Seq(Coord!Commands)]
  BY DEF Types, TypeOK, Coord!TypeOK
<1>4. x.op = m.op
  OBVIOUS
<1> HIDE DEF x
<1>5. requests[s] \in Seq(Coord!Commands) /\ requests'[s] = Append(requests[s], x)
  BY <1>2, <1>3
<1>6. /\ n \in Nat /\ DOMAIN requests[s] = 1..n /\ DOMAIN requests'[s] = 1..(n + 1)
      /\ requests'[s][n + 1] = x
      /\ \A i \in 1..n : requests'[s][i] = requests[s][i]
  BY <1>1, <1>5
<1>7. \A t \in Servers : t # s => Unread(t)' = Unread(t)
  BY <1>2, <1>3 DEF Unread
<1>8. CASE m.op \in {"SET", "GET"}
  <2>1. Unread(s)' = Unread(s) \cup {n + 1}
    <3>1. \A i : i \in Unread(s)' <=> i \in 1..(n + 1) /\ requests'[s][i].op \in {"SET", "GET"}
      BY <1>6 DEF Unread
    <3>2. \A i : i \in Unread(s) <=> i \in 1..n /\ requests[s][i].op \in {"SET", "GET"}
      BY <1>6 DEF Unread
    <3>3. \A i : i \in 1..(n + 1) <=> i \in 1..n \/ i = n + 1
      BY <1>6
    <3> QED BY <1>4, <1>6, <1>8, <3>1, <3>2, <3>3
  <2>2. n + 1 \notin Unread(s)
    BY <1>6 DEF Unread
  <2>3. /\ IsFiniteSet(Unread(s) \cup {n + 1})
        /\ Cardinality(Unread(s) \cup {n + 1}) = Cardinality(Unread(s)) + 1
    BY <2>2, FS_AddElement
  <2> QED BY <1>7, <1>8, <2>1, <2>3
<1>9. CASE m.op \notin {"SET", "GET"}
  <2>1. Unread(s)' = Unread(s)
    <3>1. \A i : i \in Unread(s)' <=> i \in 1..(n + 1) /\ requests'[s][i].op \in {"SET", "GET"}
      BY <1>6 DEF Unread
    <3>2. \A i : i \in Unread(s) <=> i \in 1..n /\ requests[s][i].op \in {"SET", "GET"}
      BY <1>6 DEF Unread
    <3>3. \A i : i \in 1..(n + 1) <=> i \in 1..n \/ i = n + 1
      BY <1>6
    <3> QED BY <1>4, <1>6, <1>9, <3>1, <3>2, <3>3
  <2> QED BY <1>7, <1>9, <2>1
<1> QED BY <1>8, <1>9

\* The coordinator takes the first command of a connection.
LEMMA ReadingCounted ==
    ASSUME Types, NEW s \in Servers, Coord!Read(s), IsFiniteSet(Unread(s))
    PROVE  /\ IsFiniteSet(Unread(s)')
           /\ Head(requests[s]).op \in {"SET", "GET"} =>
                  Cardinality(Unread(s)') = Cardinality(Unread(s)) - 1
           /\ Head(requests[s]).op \notin {"SET", "GET"} =>
                  Cardinality(Unread(s)') = Cardinality(Unread(s))
           /\ \A t \in Servers : t # s => Unread(t)' = Unread(t)
<1> DEFINE n == Len(requests[s])
           later == Unread(s) \ {1}
           shift == [i \in later |-> i - 1]
<1>1. requests \in [Servers -> Seq(Coord!Commands)]
  BY DEF Types, TypeOK, Coord!TypeOK
<1>2. /\ requests[s] \in Seq(Coord!Commands) /\ requests[s] # <<>>
      /\ requests'[s] = Tail(requests[s])
  BY <1>1 DEF Coord!Read
<1>3. /\ n \in Nat \ {0} /\ DOMAIN requests[s] = 1..n /\ DOMAIN requests'[s] = 1..(n - 1)
      /\ \A i \in 1..(n - 1) : requests'[s][i] = requests[s][i + 1]
      /\ requests[s][1] = Head(requests[s])
  BY <1>2
<1>4. \A t \in Servers : t # s => Unread(t)' = Unread(t)
  BY <1>1 DEF Coord!Read, Unread
<1>5. \A i : i \in Unread(s)' <=> i \in 1..(n - 1) /\ requests[s][i + 1].op \in {"SET", "GET"}
  BY <1>3 DEF Unread
<1>6. \A i : i \in later <=> i \in 2..n /\ requests[s][i].op \in {"SET", "GET"}
  <2>1. \A i : i \in Unread(s) <=> i \in 1..n /\ requests[s][i].op \in {"SET", "GET"}
    BY <1>3 DEF Unread
  <2>2. \A i : i \in 2..n <=> i \in 1..n /\ i # 1
    BY <1>3
  <2> QED BY <2>1, <2>2
<1>7. shift \in Bijection(later, Unread(s)')
  <2>1. \A i \in later : i - 1 \in Unread(s)'
    <3> TAKE i \in later
    <3>1. i \in 2..n /\ requests[s][i].op \in {"SET", "GET"}
      BY <1>6
    <3>2. i - 1 \in 1..(n - 1) /\ (i - 1) + 1 = i
      BY <1>3, <3>1
    <3> QED BY <1>5, <3>1, <3>2
  <2>2. \A j \in Unread(s)' : j + 1 \in later /\ (j + 1) - 1 = j
    <3> TAKE j \in Unread(s)'
    <3>1. j \in 1..(n - 1) /\ requests[s][j + 1].op \in {"SET", "GET"}
      BY <1>5
    <3>2. j + 1 \in 2..n /\ (j + 1) - 1 = j
      BY <1>3, <3>1
    <3> QED BY <1>6, <3>1, <3>2
  <2>3. \A i, j \in later : i - 1 = j - 1 => i = j
    <3> TAKE i, j \in later
    <3>1. i \in 2..n /\ j \in 2..n
      BY <1>6
    <3> QED BY <1>3, <3>1
  <2> HIDE DEF later
  <2>4. shift \in [later -> Unread(s)']
    BY <2>1
  <2>5. \A j \in Unread(s)' : \E i \in later : shift[i] = j
    BY <2>2
  <2>6. \A i, j \in later : shift[i] = shift[j] => i = j
    BY <2>3
  <2> HIDE DEF shift
  <2> QED BY <2>4, <2>5, <2>6 DEF Bijection, Injection, Surjection, IsInjective
<1>8. /\ IsFiniteSet(later)
      /\ Cardinality(later) = IF 1 \in Unread(s) THEN Cardinality(Unread(s)) - 1
                                                 ELSE Cardinality(Unread(s))
  BY FS_RemoveElement
<1>9. 1 \in Unread(s) <=> Head(requests[s]).op \in {"SET", "GET"}
  BY <1>3 DEF Unread
<1> HIDE DEF later, shift
<1>10. IsFiniteSet(Unread(s)') /\ Cardinality(Unread(s)') = Cardinality(later)
  BY <1>7, <1>8, FS_Bijection DEF ExistsBijection
<1> QED BY <1>4, <1>8, <1>9, <1>10

\* A goroutine takes one answer, and keeps those that came with it.
LEMMA AnswerCounted ==
    ASSUME Types, NEW s \in Servers, NEW c \in Clients, NEW a, Srv!NextAnswer(s, c, a),
           IsFiniteSet(ReadAhead(s))
    PROVE  /\ IsFiniteSet(ReadAhead(s)')
           /\ Len(replies'[s]) + Cardinality(ReadAhead(s)')
                  = Len(replies[s]) + Cardinality(ReadAhead(s)) - 1
           /\ \A t \in Servers :
                 t # s => ReadAhead(t)' = ReadAhead(t) /\ Len(replies'[t]) = Len(replies[t])
<1> DEFINE b == buffered[s][c]
           l == Len(replies[s])
<1>1. /\ buffered \in [Servers -> [Clients -> Seq({"OK", "WAIT"})]]
      /\ replies \in [Servers -> Seq(Coord!Answers)]
  BY DEF Types, TypeOK, Srv!TypeOK, Coord!TypeOK
<1>2. b \in Seq({"OK", "WAIT"}) /\ replies[s] \in Seq(Coord!Answers) /\ l \in Nat
  BY <1>1
<1>3. Cardinality(ReadAhead(s)) \in Nat
  BY FS_CardinalityType
<1>4. \A d, i : <<d, i>> \in ReadAhead(s) <=> d \in Clients /\ i \in DOMAIN buffered[s][d]
  BY DEF ReadAhead
<1>5. \A d, i : <<d, i>> \in ReadAhead(s)' <=> d \in Clients /\ i \in DOMAIN buffered'[s][d]
  BY DEF ReadAhead
<1>6. /\ \A x \in ReadAhead(s) : x = <<x[1], x[2]>>
      /\ \A x \in ReadAhead(s)' : x = <<x[1], x[2]>>
  BY DEF ReadAhead
<1>7. CASE /\ b # <<>>
           /\ buffered' = [buffered EXCEPT ![s][c] = Tail(buffered[s][c])]
           /\ UNCHANGED replies
  <2>1. /\ Len(b) \in Nat \ {0} /\ DOMAIN b = 1..Len(b) /\ DOMAIN Tail(b) = 1..(Len(b) - 1)
    BY <1>2, <1>7
  <2>2. /\ buffered'[s][c] = Tail(b)
        /\ \A d \in Clients : d # c => buffered'[s][d] = buffered[s][d]
        /\ \A t \in Servers : t # s => buffered'[t] = buffered[t]
    BY <1>1, <1>7
  <2>3. \A i : i \in 1..(Len(b) - 1) <=> i \in 1..Len(b) /\ i # Len(b)
    BY <2>1
  <2>4. \A d, i : <<d, i>> \in ReadAhead(s)' <=>
                     <<d, i>> \in ReadAhead(s) /\ <<d, i>> # <<c, Len(b)>>
    <3> TAKE d, i
    <3>1. CASE d = c
      BY <1>4, <1>5, <2>1, <2>2, <2>3, <3>1
    <3>2. CASE d # c
      BY <1>4, <1>5, <2>2, <3>2
    <3> QED BY <3>1, <3>2
  <2> DEFINE last == <<c, Len(b)>>
  <2>5. ReadAhead(s)' = ReadAhead(s) \ {last}
    BY <1>6, <2>4
  <2>6. last \in ReadAhead(s)
    BY <1>4, <2>1
  <2> HIDE DEF last
  <2>7. IsFiniteSet(ReadAhead(s) \ {last})
        /\ Cardinality(ReadAhead(s) \ {last}) = Cardinality(ReadAhead(s)) - 1
    BY <2>6, FS_RemoveElement
  <2>8. \A t \in Servers : t # s => ReadAhead(t)' = ReadAhead(t)
    BY <2>2 DEF ReadAhead
  <2> QED BY <1>2, <1>3, <1>7, <2>5, <2>7, <2>8
<1>8. ASSUME b = <<>>, NEW n \in 1..l,
             buffered' = [buffered EXCEPT ![s][c] = SubSeq(replies[s], 2, n)],
             replies' = [replies EXCEPT ![s] = SubSeq(replies[s], n + 1, l)]
      PROVE  /\ IsFiniteSet(ReadAhead(s)')
             /\ Len(replies'[s]) + Cardinality(ReadAhead(s)') = l + Cardinality(ReadAhead(s)) - 1
             /\ \A t \in Servers :
                   t # s => ReadAhead(t)' = ReadAhead(t) /\ Len(replies'[t]) = Len(replies[t])
  <2> DEFINE more == {c} \X (1..(n - 1))
             kept == [i \in 1..(n - 1) |-> <<c, i>>]
  <2>1. n \in Nat \ {0} /\ n <= l
    BY <1>2, <1>8
  <2>2. DOMAIN SubSeq(replies[s], 2, n) = 1..(n - 1)
    BY <1>2, <2>1, SubSeqProperties
  <2>3. Len(SubSeq(replies[s], n + 1, l)) = l - n
    BY <1>2, <2>1, SubSeqProperties
  <2>4. /\ buffered'[s][c] = SubSeq(replies[s], 2, n)
        /\ \A d \in Clients : d # c => buffered'[s][d] = buffered[s][d]
        /\ \A t \in Servers : t # s => buffered'[t] = buffered[t] /\ replies'[t] = replies[t]
        /\ replies'[s] = SubSeq(replies[s], n + 1, l)
    BY <1>1, <1>8
  <2>5. DOMAIN b = {}
    BY <1>8
  <2>6. \A d, i : <<d, i>> \in ReadAhead(s)' <=> <<d, i>> \in ReadAhead(s) \cup more
    <3> TAKE d, i
    <3>1. CASE d = c
      BY <1>4, <1>5, <2>2, <2>4, <2>5, <3>1
    <3>2. CASE d # c
      BY <1>4, <1>5, <2>4, <3>2
    <3> QED BY <3>1, <3>2
  <2>7. \A x \in more : x = <<x[1], x[2]>>
    OBVIOUS
  <2>8. ReadAhead(s)' = ReadAhead(s) \cup more
    BY <1>6, <2>6, <2>7
  <2>9. ReadAhead(s) \cap more = {}
    BY <1>4, <1>6, <2>5
  <2>10. IsFiniteSet(1..(n - 1)) /\ Cardinality(1..(n - 1)) = n - 1
    BY <2>1, FS_Interval
  <2>11. kept \in Bijection(1..(n - 1), more)
    <3>1. kept \in [1..(n - 1) -> more]
      OBVIOUS
    <3>2. \A x \in more : \E i \in 1..(n - 1) : kept[i] = x
      BY <2>7
    <3>3. \A i, j \in 1..(n - 1) : kept[i] = kept[j] => i = j
      OBVIOUS
    <3> HIDE DEF kept, more
    <3> QED BY <3>1, <3>2, <3>3 DEF Bijection, Injection, Surjection, IsInjective
  <2> HIDE DEF more, kept
  <2>12. IsFiniteSet(more) /\ Cardinality(more) = n - 1
    BY <2>10, <2>11, FS_Bijection DEF ExistsBijection
  <2>13. /\ IsFiniteSet(ReadAhead(s) \cup more)
         /\ Cardinality(ReadAhead(s) \cup more) = Cardinality(ReadAhead(s)) + (n - 1)
    <3>1. /\ IsFiniteSet(ReadAhead(s) \cup more)
          /\ Cardinality(ReadAhead(s) \cup more)
               = Cardinality(ReadAhead(s)) + Cardinality(more) - Cardinality(ReadAhead(s) \cap more)
      BY <2>12, FS_Union
    <3>2. Cardinality(ReadAhead(s) \cap more) = 0
      BY <2>9, FS_EmptySet
    <3> QED BY <1>3, <2>1, <2>12, <3>1, <3>2
  <2>14. \A t \in Servers : t # s => ReadAhead(t)' = ReadAhead(t)
    BY <2>4 DEF ReadAhead
  <2>15. Len(replies'[s]) = l - n
    BY <2>3, <2>4
  <2>16. /\ IsFiniteSet(ReadAhead(s)')
         /\ Cardinality(ReadAhead(s)') = Cardinality(ReadAhead(s)) + (n - 1)
    BY <2>8, <2>13
  <2>17. l - n + (Cardinality(ReadAhead(s)) + (n - 1)) = l + Cardinality(ReadAhead(s)) - 1
    <3>1. l \in Nat /\ n \in Nat /\ Cardinality(ReadAhead(s)) \in Nat
      BY <1>2, <1>3, <2>1
    <3> HIDE DEF l
    <3> QED BY <3>1
  <2>18. \A t \in Servers : t # s => Len(replies'[t]) = Len(replies[t])
    BY <2>4
  <2> QED BY <2>14, <2>15, <2>16, <2>17, <2>18
<1> QED BY <1>7, <1>8 DEF Srv!NextAnswer

LEMMA InitAccounted == Init => Accounted
<1>1. DOMAIN <<>> = {} /\ Len(<<>>) = 0
  OBVIOUS
<1>2. ASSUME Init, NEW s \in Servers
      PROVE  /\ Awaiting(s) = {} /\ Unread(s) = {} /\ ReadAhead(s) = {}
             /\ Working(s) = 0 /\ Len(replies[s]) = 0
  BY <1>1, <1>2 DEF Init, Coord!Init, Srv!Init, Awaiting, Unread, ReadAhead, Working
<1>3. IsFiniteSet({}) /\ Cardinality({}) = 0
  BY FS_EmptySet
<1>4. 0 + 0 + 0 + 0 = 0
  OBVIOUS
<1>5. ASSUME Init, NEW s \in Servers
      PROVE  /\ IsFiniteSet(Awaiting(s)) /\ IsFiniteSet(Unread(s)) /\ IsFiniteSet(ReadAhead(s))
             /\ Cardinality(Awaiting(s)) = Cardinality(Unread(s)) + Working(s)
                                             + Len(replies[s]) + Cardinality(ReadAhead(s))
  <2>1. /\ Awaiting(s) = {} /\ Unread(s) = {} /\ ReadAhead(s) = {}
        /\ Working(s) = 0 /\ Len(replies[s]) = 0
    BY <1>2, <1>5
  <2> QED BY <1>3, <1>4, <2>1
<1> QED BY <1>5 DEF Accounted

\* A step changes the count of one server only.
LEMMA CountedAt ==
    ASSUME Accounted, NEW s \in Servers,
           IsFiniteSet(Awaiting(s)'), IsFiniteSet(Unread(s)'), IsFiniteSet(ReadAhead(s)'),
           Cardinality(Awaiting(s)') = Cardinality(Unread(s)') + Working(s)'
                                        + Len(replies'[s]) + Cardinality(ReadAhead(s)'),
           \A t \in Servers : t # s =>
               /\ Awaiting(t)' = Awaiting(t) /\ Unread(t)' = Unread(t)
               /\ ReadAhead(t)' = ReadAhead(t) /\ Working(t)' = Working(t)
               /\ Len(replies'[t]) = Len(replies[t])
    PROVE  Accounted'
<1> SUFFICES ASSUME NEW t \in Servers
             PROVE  /\ IsFiniteSet(Awaiting(t)') /\ IsFiniteSet(Unread(t)')
                    /\ IsFiniteSet(ReadAhead(t)')
                    /\ Cardinality(Awaiting(t)')
                         = Cardinality(Unread(t)') + Working(t)'
                             + Len(replies'[t]) + Cardinality(ReadAhead(t)')
  BY DEF Accounted
<1> QED BY DEF Accounted

\* A step of the coordinator: a command of which the client is on hold is answered,
\* another one waits for a decision, which is answered.
LEMMA CoordinatorAccounts ==
    ASSUME Types, Accounted, NEW s \in Servers, CoordinatorStep(s)
    PROVE  Accounted'
<1>1. Coord!TypeOK /\ pc \in [Servers -> Coord!Places] /\ replies \in [Servers -> Seq(Coord!Answers)]
  BY DEF Types, TypeOK, Coord!TypeOK
<1>2. /\ IsFiniteSet(Awaiting(s)) /\ IsFiniteSet(Unread(s)) /\ IsFiniteSet(ReadAhead(s))
      /\ Cardinality(Awaiting(s)) = Cardinality(Unread(s)) + Working(s)
                                     + Len(replies[s]) + Cardinality(ReadAhead(s))
  BY DEF Accounted
<1>3. /\ Cardinality(Unread(s)) \in Nat /\ Cardinality(ReadAhead(s)) \in Nat
      /\ Len(replies[s]) \in Nat
  BY <1>1, <1>2, FS_CardinalityType
<1>4. \A t \in Servers : Awaiting(t)' = Awaiting(t) /\ ReadAhead(t)' = ReadAhead(t)
  BY DEF CoordinatorStep, server, Awaiting, ReadAhead
<1>5. UNCHANGED requests => \A t \in Servers : Unread(t)' = Unread(t)
  BY DEF Unread
<1>6. /\ UNCHANGED pc => \A t \in Servers : Working(t)' = Working(t)
      /\ \A to : pc' = [pc EXCEPT ![s] = to] =>
            /\ \A t \in Servers : t # s => Working(t)' = Working(t)
            /\ Working(s)' = IF to \in {"check", "grant", "marking"} THEN 1 ELSE 0
  BY <1>1 DEF Working
<1>7. /\ UNCHANGED replies => \A t \in Servers : Len(replies'[t]) = Len(replies[t])
      /\ \A a \in Coord!Answers : Coord!Answer(s, a) =>
            /\ \A t \in Servers : t # s => Len(replies'[t]) = Len(replies[t])
            /\ Len(replies'[s]) = Len(replies[s]) + 1
  BY <1>1 DEF Coord!Answer
<1>8. "OK" \in Coord!Answers /\ "WAIT" \in Coord!Answers
  BY DEF Coord!Answers
<1>9. CASE Coord!End(s) \/ Coord!StillHeld(s) \/ Coord!Begin(s)
  <2>1. Coord!Read(s)
    BY <1>9 DEF Coord!End, Coord!StillHeld, Coord!Begin
  <2>2. /\ IsFiniteSet(Unread(s)')
        /\ Head(requests[s]).op \in {"SET", "GET"} =>
               Cardinality(Unread(s)') = Cardinality(Unread(s)) - 1
        /\ Head(requests[s]).op \notin {"SET", "GET"} =>
               Cardinality(Unread(s)') = Cardinality(Unread(s))
        /\ \A t \in Servers : t # s => Unread(t)' = Unread(t)
    BY <1>2, <2>1, ReadingCounted
  <2>3. CASE Coord!End(s)
    <3>1. Head(requests[s]).op \notin {"SET", "GET"} /\ UNCHANGED <<pc, replies>>
      BY <2>3 DEF Coord!End, Coord!EndCommands, Coord!goroutines
    <3>2. Working(s)' = Working(s) /\ Len(replies'[s]) = Len(replies[s])
      BY <1>6, <1>7, <3>1
    <3> QED BY <1>2, <1>4, <1>6, <1>7, <2>2, <3>1, <3>2, CountedAt
  <2>4. CASE Coord!StillHeld(s)
    <3>1. Head(requests[s]).op \in {"SET", "GET"} /\ UNCHANGED pc /\ Coord!Answer(s, "WAIT")
      BY <2>4 DEF Coord!StillHeld, Coord!LockCommands, Coord!goroutines
    <3>2. /\ Working(s)' = Working(s) /\ Len(replies'[s]) = Len(replies[s]) + 1
          /\ \A t \in Servers : t # s => Len(replies'[t]) = Len(replies[t])
      BY <1>6, <1>7, <1>8, <3>1
    <3>3. Working(s) \in Nat
      BY DEF Working
    <3>4. Cardinality(Awaiting(s)') = Cardinality(Unread(s)') + Working(s)'
                                     + Len(replies'[s]) + Cardinality(ReadAhead(s)')
      BY <1>2, <1>3, <1>4, <2>2, <3>1, <3>2, <3>3
    <3> QED BY <1>2, <1>4, <1>6, <2>2, <3>1, <3>2, <3>4, CountedAt
  <2>5. CASE Coord!Begin(s)
    <3>1. /\ Head(requests[s]).op \in {"SET", "GET"} /\ UNCHANGED replies
          /\ pc[s] = "idle" /\ pc' = [pc EXCEPT ![s] = "check"]
      BY <2>5 DEF Coord!Begin, Coord!LockCommands, Coord!Read
    <3>2. /\ Working(s) = 0 /\ Working(s)' = 1 /\ Len(replies'[s]) = Len(replies[s])
          /\ \A t \in Servers : t # s => Working(t)' = Working(t)
      BY <1>6, <1>7, <3>1 DEF Working
    <3>4. Cardinality(Awaiting(s)') = Cardinality(Unread(s)') + Working(s)'
                                     + Len(replies'[s]) + Cardinality(ReadAhead(s)')
      BY <1>2, <1>3, <1>4, <2>2, <3>1, <3>2
    <3> QED BY <1>2, <1>4, <1>7, <2>2, <3>1, <3>2, <3>4, CountedAt
  <2> QED BY <1>9, <2>3, <2>4, <2>5
<1>10. CASE Coord!Decide(s) \/ Coord!EnterRead(s) \/ Coord!Hold(s) \/ Coord!Register(s)
  <2>1. UNCHANGED <<requests, replies>>
    BY <1>10 DEF Coord!Decide, Coord!EnterRead, Coord!Hold, Coord!Register
  <2>2. /\ \E to : pc' = [pc EXCEPT ![s] = to] /\
               (pc[s] \in {"check", "grant", "marking"} <=> to \in {"check", "grant", "marking"})
    BY <1>10 DEF Coord!Decide, Coord!EnterRead, Coord!Hold, Coord!Register, Coord!Move,
                 Coord!Finish
  <2>3. \A t \in Servers : Working(t)' = Working(t)
    BY <1>6, <2>2 DEF Working
  <2> QED BY <1>2, <1>4, <1>5, <1>7, <2>1, <2>3, CountedAt
<1>11. CASE Coord!Refuse(s) \/ Coord!GrantWrite(s) \/ Coord!GrantRead(s)
              \/ \E t \in Servers : Coord!LoseMark(s, t)
  <2>1. \E a \in Coord!Answers : Coord!Answer(s, a)
    BY <1>8, <1>11 DEF Coord!Refuse, Coord!GrantWrite, Coord!GrantRead, Coord!LoseMark
  <2>2. UNCHANGED requests
    BY <1>11 DEF Coord!Refuse, Coord!GrantWrite, Coord!GrantRead, Coord!LoseMark
  <2>3. pc[s] \in {"check", "grant", "marking"}
    BY <1>11 DEF Coord!Refuse, Coord!GrantWrite, Coord!GrantRead, Coord!LoseMark, Coord!Move
  <2>4. \E to \in {"hold", "idle"} : pc' = [pc EXCEPT ![s] = to]
    BY <1>11 DEF Coord!Refuse, Coord!GrantWrite, Coord!GrantRead, Coord!LoseMark, Coord!Move,
                 Coord!Finish
  <2>5. /\ Working(s) = 1 /\ Working(s)' = 0
        /\ \A t \in Servers : t # s => Working(t)' = Working(t)
    BY <1>6, <2>3, <2>4 DEF Working
  <2>6. /\ \A t \in Servers : t # s => Len(replies'[t]) = Len(replies[t])
        /\ Len(replies'[s]) = Len(replies[s]) + 1
    BY <1>7, <2>1
  <2>7. Cardinality(Awaiting(s)') = Cardinality(Unread(s)') + Working(s)'
                                     + Len(replies'[s]) + Cardinality(ReadAhead(s)')
    BY <1>2, <1>3, <1>4, <1>5, <2>2, <2>5, <2>6
  <2> QED BY <1>2, <1>4, <1>5, <2>2, <2>5, <2>6, <2>7, CountedAt
<1>12. CASE \E t \in Servers : Coord!MapFault(s, t)
  <2>1. UNCHANGED <<requests, replies, pc>>
    BY <1>12 DEF Coord!MapFault, Coord!goroutines
  <2> QED BY <1>2, <1>4, <1>5, <1>6, <1>7, <2>1, CountedAt
<1> QED BY <1>9, <1>10, <1>11, <1>12 DEF CoordinatorStep, Coord!Step

\* A step of a server: a goroutine waits once its command is sent, and no longer than
\* until it has an answer.
LEMMA ServerAccounts ==
    ASSUME Types, Accounted, NEW s \in Servers, NEW c \in Clients, ServerStep(s, c)
    PROVE  Accounted'
<1> DEFINE own == curr[s][c]
           m == Head(fromClient[c][s])
<1>1. TypeOK /\ GoroutinesTyped /\ replies \in [Servers -> Seq(Coord!Answers)]
  BY TypeParts DEF Types, TypeOK, Coord!TypeOK
<1>2. /\ IsFiniteSet(Awaiting(s)) /\ IsFiniteSet(Unread(s)) /\ IsFiniteSet(ReadAhead(s))
      /\ Cardinality(Awaiting(s)) = Cardinality(Unread(s)) + Working(s)
                                     + Len(replies[s]) + Cardinality(ReadAhead(s))
  BY DEF Accounted
<1>3. /\ Cardinality(Unread(s)) \in Nat /\ Cardinality(ReadAhead(s)) \in Nat
      /\ Cardinality(Awaiting(s)) \in Nat /\ Len(replies[s]) \in Nat
  BY <1>1, <1>2, FS_CardinalityType
<1>4. \A t \in Servers : Working(t)' = Working(t)
  BY DEF ServerStep, coordinator, Working
<1>5. Working(s) \in Nat
  BY DEF Working
<1>6. /\ UNCHANGED place => \A t \in Servers : Awaiting(t)' = Awaiting(t)
      /\ UNCHANGED requests => \A t \in Servers : Unread(t)' = Unread(t)
      /\ UNCHANGED <<buffered, replies>> => \A t \in Servers :
             ReadAhead(t)' = ReadAhead(t) /\ Len(replies'[t]) = Len(replies[t])
  BY DEF Awaiting, Unread, ReadAhead
<1>7. \A to \in Srv!Places : Srv!Move(s, c, to) =>
           /\ IsFiniteSet(Awaiting(s)')
           /\ place[s][c] # "await" /\ to = "await" =>
                  Cardinality(Awaiting(s)') = Cardinality(Awaiting(s)) + 1
           /\ place[s][c] = "await" /\ to # "await" =>
                  Cardinality(Awaiting(s)') = Cardinality(Awaiting(s)) - 1
           /\ place[s][c] # "await" /\ to # "await" => Awaiting(s)' = Awaiting(s)
           /\ \A t \in Servers : t # s => Awaiting(t)' = Awaiting(t)
  BY <1>2, WaitingCounted
<1>8. {"idle", "await", "sleep", "reading", "applying"} \subseteq Srv!Places
  BY DEF Srv!Places
<1>9. ASSUME NEW n \in Srv!Messages, n.op \in {"SET", "GET"}, Srv!ToCoordinator(s, c, n),
             place[s][c] # "await", Srv!Move(s, c, "await"), UNCHANGED <<buffered, replies>>
      PROVE  Accounted'
  <2>1. /\ IsFiniteSet(Unread(s)') /\ Cardinality(Unread(s)') = Cardinality(Unread(s)) + 1
        /\ \A t \in Servers : t # s => Unread(t)' = Unread(t)
    BY <1>2, <1>9, SendingCounted
  <2>2. /\ IsFiniteSet(Awaiting(s)') /\ Cardinality(Awaiting(s)') = Cardinality(Awaiting(s)) + 1
        /\ \A t \in Servers : t # s => Awaiting(t)' = Awaiting(t)
    BY <1>7, <1>8, <1>9
  <2>3. \A t \in Servers : ReadAhead(t)' = ReadAhead(t) /\ Len(replies'[t]) = Len(replies[t])
    BY <1>6, <1>9
  <2>4. Cardinality(Awaiting(s)') = Cardinality(Unread(s)') + Working(s)'
                                     + Len(replies'[s]) + Cardinality(ReadAhead(s)')
    BY <1>2, <1>3, <1>4, <1>5, <2>1, <2>2, <2>3
  <2> QED BY <1>2, <1>4, <2>1, <2>2, <2>3, <2>4, CountedAt
<1>10. ASSUME NEW n \in Srv!Messages, n.op \in {"COMMIT", "ABORT"}, Srv!ToCoordinator(s, c, n),
              \A t \in Servers : Awaiting(t)' = Awaiting(t), UNCHANGED <<buffered, replies>>
       PROVE  Accounted'
  <2>1. /\ IsFiniteSet(Unread(s)') /\ Cardinality(Unread(s)') = Cardinality(Unread(s))
        /\ \A t \in Servers : t # s => Unread(t)' = Unread(t)
    BY <1>2, <1>10, SendingCounted
  <2>2. \A t \in Servers : ReadAhead(t)' = ReadAhead(t) /\ Len(replies'[t]) = Len(replies[t])
    BY <1>6, <1>10
  <2> QED BY <1>2, <1>4, <1>10, <2>1, <2>2, CountedAt
<1>11. ASSUME NEW a, Srv!NextAnswer(s, c, a), place[s][c] = "await", UNCHANGED requests,
              NEW to \in Srv!Places, to # "await", Srv!Move(s, c, to)
       PROVE  Accounted'
  <2>1. /\ IsFiniteSet(ReadAhead(s)')
        /\ Len(replies'[s]) + Cardinality(ReadAhead(s)')
               = Len(replies[s]) + Cardinality(ReadAhead(s)) - 1
        /\ \A t \in Servers :
              t # s => ReadAhead(t)' = ReadAhead(t) /\ Len(replies'[t]) = Len(replies[t])
    BY <1>2, <1>11, AnswerCounted
  <2>2. /\ IsFiniteSet(Awaiting(s)') /\ Cardinality(Awaiting(s)') = Cardinality(Awaiting(s)) - 1
        /\ \A t \in Servers : t # s => Awaiting(t)' = Awaiting(t)
    BY <1>7, <1>11
  <2>3. \A t \in Servers : Unread(t)' = Unread(t)
    BY <1>6, <1>11
  <2>4. Cardinality(ReadAhead(s)') \in Nat /\ Len(replies'[s]) \in Nat
    <3>1. replies'[s] \in Seq(Coord!Answers)
      BY <1>1, <1>11, AnswerRead
    <3> QED BY <2>1, <3>1, FS_CardinalityType
  <2>5. Cardinality(Awaiting(s)') = Cardinality(Unread(s)') + Working(s)'
                                     + Len(replies'[s]) + Cardinality(ReadAhead(s)')
    <3> DEFINE u == Cardinality(Unread(s))
               k == Cardinality(ReadAhead(s))
               l == Len(replies[s])
               k1 == Cardinality(ReadAhead(s)')
               l1 == Len(replies'[s])
    <3>1. /\ u \in Nat /\ Working(s) \in Nat /\ k \in Nat /\ l \in Nat /\ k1 \in Nat
          /\ l1 \in Nat /\ l1 + k1 = l + k - 1
      BY <1>3, <1>5, <2>1, <2>4
    <3>2. Cardinality(Unread(s)') = u /\ Working(s)' = Working(s)
      BY <1>4, <2>3
    <3>3. Cardinality(Awaiting(s)') = (u + Working(s) + l + k) - 1
      BY <1>2, <2>2
    <3> HIDE DEF u, k, l, k1, l1
    <3>4. (u + Working(s) + l + k) - 1 = u + Working(s) + l1 + k1
      BY <3>1
    <3>5. Cardinality(Awaiting(s)') = u + Working(s) + l1 + k1
      BY <3>3, <3>4
    <3> QED BY <3>2, <3>5 DEF u, l1, k1
  <2> QED BY <1>2, <1>4, <2>1, <2>2, <2>3, <2>5, CountedAt
<1>12. ASSUME \A t \in Servers : Awaiting(t)' = Awaiting(t), UNCHANGED <<requests, buffered, replies>>
       PROVE  Accounted'
  BY <1>2, <1>4, <1>6, <1>12, CountedAt
<1>13. CASE Srv!Begin(s, c)
  BY <1>6, <1>12, <1>13 DEF Srv!Begin
<1>14. CASE Srv!Set(s, c) \/ Srv!Get(s, c)
  <2>1. m \in Srv!Messages /\ m.op \in {"SET", "GET"} /\ place[s][c] # "await"
    BY <1>1, <1>14, CommandTaken DEF Srv!Set, Srv!Get
  <2> QED BY <1>9, <1>14, <2>1 DEF Srv!Set, Srv!Get
<1>15. CASE Srv!Commit(s, c)
  <2>1. m \in Srv!Messages /\ m.op \in {"COMMIT", "ABORT"} /\ place[s][c] = "idle"
    BY <1>1, <1>15, CommandTaken DEF Srv!Commit
  <2>2. \A t \in Servers : Awaiting(t)' = Awaiting(t)
    BY <1>7, <1>8, <1>15, <2>1 DEF Srv!Commit
  <2> HIDE DEF m
  <2> QED BY <1>10, <1>15, <2>1, <2>2 DEF Srv!Commit, m
<1>16. CASE Srv!Abort(s, c)
  <2>1. m \in Srv!Messages /\ m.op \in {"COMMIT", "ABORT"}
    BY <1>1, <1>16, CommandTaken DEF Srv!Abort
  <2> QED BY <1>6, <1>10, <1>16, <2>1 DEF Srv!Abort
<1>17. CASE Srv!Apply(s, c) \/ Srv!AnswerGet(s, c)
  <2>1. Srv!Move(s, c, "idle") /\ place[s][c] # "await" /\ UNCHANGED <<requests, buffered, replies>>
    BY <1>17 DEF Srv!Apply, Srv!AnswerGet, Srv!Finish
  <2>2. \A t \in Servers : Awaiting(t)' = Awaiting(t)
    BY <1>7, <1>8, <2>1
  <2> QED BY <1>12, <2>1, <2>2
<1>18. CASE Srv!AnswerOwnWrite(s, c) \/ Srv!SetGranted(s, c)
  <2>1. /\ Srv!Move(s, c, "idle") /\ place[s][c] = "await" /\ UNCHANGED requests
        /\ \E a : Srv!NextAnswer(s, c, a)
    BY <1>18 DEF Srv!AnswerOwnWrite, Srv!SetGranted, Srv!Finish
  <2> QED BY <1>8, <1>11, <2>1
<1>19. CASE Srv!GetGranted(s, c) \/ Srv!Wait(s, c)
  <2>1. /\ \E to \in {"reading", "sleep"} : Srv!Move(s, c, to)
        /\ place[s][c] = "await" /\ UNCHANGED requests
        /\ \E a : Srv!NextAnswer(s, c, a)
    BY <1>19 DEF Srv!GetGranted, Srv!Wait
  <2> QED BY <1>8, <1>11, <2>1
<1>20. CASE Srv!Resend(s, c)
  <2>1. own \in Srv!Messages /\ own.op \in {"SET", "GET"} /\ place[s][c] # "await"
    BY <1>1, <1>20 DEF GoroutinesTyped, ServerTyped, Srv!Resend
  <2> QED BY <1>9, <1>20, <2>1 DEF Srv!Resend
<1> QED BY <1>13, <1>14, <1>15, <1>16, <1>17, <1>18, <1>19, <1>20 DEF ServerStep, Srv!Step

LEMMA StepAccounted ==
    ASSUME Types, Accounted, [Next]_vars
    PROVE  Accounted'
<1>1. ASSUME UNCHANGED <<coordinator, server, requests, replies>>
      PROVE  Accounted'
  <2>1. \A s \in Servers : /\ Awaiting(s)' = Awaiting(s) /\ Unread(s)' = Unread(s)
                           /\ ReadAhead(s)' = ReadAhead(s) /\ Working(s)' = Working(s)
                           /\ replies'[s] = replies[s]
    BY <1>1 DEF coordinator, server, Awaiting, Unread, ReadAhead, Working
  <2> QED BY <2>1 DEF Accounted
<1>2. CASE UNCHANGED vars
  BY <1>1, <1>2 DEF vars
<1>3. ASSUME NEW c \in Clients, ClientStep(c)
      PROVE  Accounted'
  BY <1>1, <1>3 DEF ClientStep
<1> QED BY <1>2, <1>3, CoordinatorAccounts, ServerAccounts DEF Next

\* The goroutines of a server share one connection to the coordinator and read it through
\* readers of their own (server/main.go:98 and 132): none of the answers is lost, and none
\* is invented, whoever takes them, for any number of clients and servers.
THEOREM AnswersAllAccounted == Spec => []AnswersAccounted
<1>1. Accounted => AnswersAccounted
  BY DEF Accounted, AnswersAccounted
<1> QED BY <1>1, TypesCorrect, InitAccounted, StepAccounted, PTL DEF Spec
==============================================================================
