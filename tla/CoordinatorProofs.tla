-------------------------- MODULE CoordinatorProofs --------------------------
(***************************************************************************)
(* What the coordinator guarantees, for any number of clients, servers and *)
(* keys.  Exclusion cannot be proved by itself: the grant of a lock relies *)
(* on a condition read earlier (GrantStillValid), and that this condition  *)
(* still stands relies on exclusion.  The two are proved together (Safe).  *)
(***************************************************************************)
EXTENDS Coordinator, TLAPS

\* The object of a command is one, and commands of different connections are
\* about different objects.
LEMMA ObjectOfCommand ==
    ASSUME TypeOK, NEW s \in Servers, pc[s] # "idle"
    PROVE  /\ cmd[s] \in LockCommands
           /\ cmd[s].client \in Clients
           /\ cmd[s].key \in Keys
           /\ cmd[s].op \in {"SET", "GET"}
           /\ Object(s) \in Objects
           /\ Object(s)[1] = s
BY DEF TypeOK, LockCommands, Object, Objects

\* What an idle goroutine reads is a command, and what is left are commands.
LEMMA CommandRead ==
    ASSUME TypeOK, NEW s \in Servers, Read(s)
    PROVE  /\ Head(requests[s]) \in Commands
           /\ requests' \in [Servers -> Seq(Commands)]
<1>1. requests[s] \in Seq(Commands) /\ requests[s] # <<>>
  BY DEF TypeOK, Read
<1>2. Head(requests[s]) \in Commands /\ Tail(requests[s]) \in Seq(Commands)
  BY <1>1
<1>3. QED
  BY <1>2 DEF TypeOK, Read

\* An answer leaves answers on every connection.
LEMMA AnswerTyped ==
    ASSUME TypeOK, NEW s \in Servers, NEW a \in Answers, Answer(s, a)
    PROVE  replies' \in [Servers -> Seq(Answers)]
<1>1. Append(replies[s], a) \in Seq(Answers)
  BY DEF TypeOK
<1>2. QED
  BY <1>1 DEF TypeOK, Answer

------------------------------------------------------------------------------
(* Type correctness                                                        *)

LEMMA InitTyped == Init => TypeOK
<1> SUFFICES ASSUME Init PROVE TypeOK
  OBVIOUS
<1>1. <<>> \in Seq(Commands) /\ <<>> \in Seq(Answers)
  OBVIOUS
<1>2. QED
  BY <1>1, NullAssumption DEF Init, TypeOK, Places

\* A step of a goroutine keeps the types.
LEMMA StepTyped ==
    ASSUME TypeOK, NEW s \in Servers, Step(s)
    PROVE  TypeOK'
<1>a. Commands = LockCommands \cup EndCommands /\ NoCommand \notin Commands
  BY NullAssumption DEF Commands
<1>1. CASE End(s)
  <2>1. Head(requests[s]) \in Commands /\ requests' \in [Servers -> Seq(Commands)]
    BY <1>1, CommandRead DEF End
  <2>2. Head(requests[s]).client \in Clients
    BY <1>1 DEF End, EndCommands
  <2>3. QED
    BY <1>1, <2>1, <2>2 DEF End, Read, abortNode, goroutines, TypeOK
<1>2. CASE StillHeld(s)
  <2>1. requests' \in [Servers -> Seq(Commands)]
    BY <1>2, CommandRead DEF StillHeld
  <2>2. replies' \in [Servers -> Seq(Answers)]
    BY <1>2, AnswerTyped DEF StillHeld, Answers
  <2>3. QED
    BY <1>2, <2>1, <2>2 DEF StillHeld, Read, locks, waiting, goroutines, TypeOK
<1>3. CASE Begin(s)
  <2>1. requests' \in [Servers -> Seq(Commands)]
    BY <1>3, CommandRead DEF Begin
  <2>2. Head(requests[s]) \in LockCommands /\ Head(requests[s]) # NoCommand
    BY <1>3, <1>a DEF Begin
  <2>3. QED
    BY <1>3, <2>1, <2>2 DEF Begin, Read, locks, waiting, TypeOK, Places
<1>4. CASE Decide(s)
  BY <1>4 DEF Decide, Move, locks, waiting, TypeOK, Places
<1>5. CASE Refuse(s)
  <2>1. replies' \in [Servers -> Seq(Answers)]
    BY <1>5, AnswerTyped DEF Refuse, Answers
  <2>2. Blockers(s) \subseteq Clients
    <3>1. Object(s) \in Objects
      BY <1>5, ObjectOfCommand DEF Refuse, Move
    <3>2. QED
      BY <3>1 DEF Blockers, TypeOK
  <2>3. QED
    BY <1>5, <2>1, <2>2 DEF Refuse, Move, locks, waiting, TypeOK, Places
<1>6. CASE GrantWrite(s)
  <2>1. replies' \in [Servers -> Seq(Answers)]
    BY <1>6, AnswerTyped DEF GrantWrite, Answers
  <2>2. Object(s) \in Objects /\ cmd[s].client \in Clients
    BY <1>6, ObjectOfCommand DEF GrantWrite
  <2>3. QED
    BY <1>6, <2>1, <2>2 DEF GrantWrite, Finish, waiting, TypeOK, Places
<1>7. CASE EnterRead(s)
  BY <1>7 DEF EnterRead, Move, locks, waiting, TypeOK, Places
<1>8. CASE GrantRead(s)
  <2>1. replies' \in [Servers -> Seq(Answers)]
    BY <1>8, AnswerTyped DEF GrantRead, Answers
  <2>2. Object(s) \in Objects /\ cmd[s].client \in Clients
    BY <1>8, ObjectOfCommand DEF GrantRead
  <2>3. QED
    BY <1>8, <2>1, <2>2 DEF GrantRead, Finish, waiting, TypeOK, Places
<1>9. CASE Hold(s)
  <2>1. cmd[s].client \in Clients
    BY <1>9, ObjectOfCommand DEF Hold, Move
  <2>2. QED
    BY <1>9, <2>1 DEF Hold, Move, locks, TypeOK, Places
<1>10. CASE Register(s)
  <2>1. cmd[s].client \in Clients
    BY <1>10, ObjectOfCommand DEF Register
  <2>2. QED
    BY <1>10, <2>1 DEF Register, Finish, locks, TypeOK, Places
<1>11. ASSUME NEW t \in Servers, LoseMark(s, t)
       PROVE  TypeOK'
  <2>1. replies' \in [Servers -> Seq(Answers)]
    BY <1>11, AnswerTyped DEF LoseMark, Answers
  <2>2. QED
    BY <1>11, <2>1 DEF LoseMark, Finish, locks, waiting, TypeOK, Places
<1>12. ASSUME NEW t \in Servers, MapFault(s, t)
       PROVE  TypeOK'
  BY <1>12 DEF MapFault, locks, waiting, goroutines, TypeOK
<1>13. QED
  BY <1>1, <1>2, <1>3, <1>4, <1>5, <1>6, <1>7, <1>8, <1>9, <1>10, <1>11, <1>12
  DEF Step

\* The maps, goroutines and connections hold what TypeOK says, always.
THEOREM TypeCorrect == Spec => []TypeOK
<1>1. ASSUME TypeOK, [Next]_vars PROVE TypeOK'
  <2>1. ASSUME NEW s \in Servers, Step(s) PROVE TypeOK'
    BY <1>1, <2>1, StepTyped
  <2>2. ASSUME NEW s \in Servers, NEW m \in Commands, ServerSends(s, m)
        PROVE  TypeOK'
    <3>1. Append(requests[s], m) \in Seq(Commands)
      BY <1>1 DEF TypeOK
    <3>2. QED
      BY <1>1, <2>2, <3>1 DEF ServerSends, locks, waiting, goroutines, TypeOK
  <2>3. ASSUME NEW s \in Servers, ServerReads(s) PROVE TypeOK'
    <3>1. Tail(replies[s]) \in Seq(Answers)
      BY <1>1, <2>3 DEF ServerReads, TypeOK
    <3>2. QED
      BY <1>1, <2>3, <3>1 DEF ServerReads, locks, waiting, goroutines, TypeOK
  <2>4. CASE UNCHANGED vars
    BY <1>1, <2>4 DEF vars, private, locks, waiting, goroutines, TypeOK
  <2>5. QED
    BY <1>1, <2>1, <2>2, <2>3, <2>4 DEF Next
<1>2. QED
  BY InitTyped, <1>1, PTL DEF Spec

------------------------------------------------------------------------------
(* Exclusion                                                               *)

Safe == TypeOK /\ LockExclusion /\ GrantStillValid

\* What exclusion reads is left alone by a step that only moves goroutine s
\* to a place where it holds no decision, or nowhere.
LEMMA QuietStep ==
    ASSUME Safe, NEW s \in Servers, UNCHANGED locks,
           \A t \in Servers \ {s} : cmd'[t] = cmd[t] /\ pc'[t] = pc[t],
           \/ pc'[s] \notin {"grant", "marking"}
           \/ cmd'[s] = cmd[s] /\ Grantable(s)
    PROVE  LockExclusion' /\ GrantStillValid'
<1>1. LockExclusion'
  BY DEF Safe, LockExclusion, locks
<1>2. ASSUME NEW t \in Servers, pc'[t] \in {"grant", "marking"}
      PROVE  Grantable(t)'
  <2>1. cmd'[t] = cmd[t] /\ Grantable(t)
    BY <1>2 DEF Safe, GrantStillValid
  <2>2. QED
    BY <2>1 DEF Grantable, Object, locks
<1>3. QED
  BY <1>1, <1>2 DEF GrantStillValid

\* COMMIT and ABORT take away locks of one client only: a decision for another
\* client stands, and one for that client stands because exclusion left no
\* other reader beside its write lock.
LEMMA EndSafe ==
    ASSUME Safe, NEW s \in Servers, End(s)
    PROVE  LockExclusion' /\ GrantStillValid'
<1> DEFINE c == Head(requests[s]).client
<1>1. c \in Clients
  BY DEF End, EndCommands
<1>2. c # NoClient
  BY <1>1, NullAssumption
<1>3. UNCHANGED <<pc, cmd>>
  BY DEF End, goroutines
<1>4. \A o \in Objects :
         /\ keyHolder'[o] = IF keyHolder[o] = c THEN NoClient ELSE keyHolder[o]
         /\ readHolder'[o] = readHolder[o] \ {c}
  BY DEF End, abortNode
<1>5. LockExclusion'
  BY <1>4 DEF Safe, LockExclusion
<1>6. ASSUME NEW t \in Servers, pc[t] \in {"grant", "marking"}
      PROVE  Grantable(t)'
  <2>1. Object(t) \in Objects /\ cmd[t].client # NoClient
    BY <1>6, ObjectOfCommand, NullAssumption DEF Safe
  <2>2. Object(t)' = Object(t)
    BY <1>3 DEF Object
  <2>3. Grantable(t)
    BY <1>6 DEF Safe, GrantStillValid
  <2>4. CASE keyHolder[Object(t)] = c
    <3>1. readHolder'[Object(t)] = {}
      BY <1>2, <1>4, <2>1, <2>4 DEF Safe, LockExclusion
    <3>2. QED
      BY <1>3, <1>4, <2>1, <2>2, <2>4, <3>1 DEF Grantable
  <2>5. CASE keyHolder[Object(t)] # c
    BY <1>3, <1>4, <2>1, <2>2, <2>3, <2>5 DEF Grantable
  <2>6. QED
    BY <2>4, <2>5
<1>7. QED
  BY <1>3, <1>5, <1>6 DEF GrantStillValid

\* A grant keeps exclusion because its condition still stands, and it is of
\* an object that no other goroutine decides about.
LEMMA GrantSafe ==
    ASSUME Safe, NEW s \in Servers, GrantWrite(s) \/ GrantRead(s)
    PROVE  LockExclusion' /\ GrantStillValid'
<1> DEFINE o == Object(s)
           c == cmd[s].client
<1>1. pc[s] \in {"grant", "marking"}
  BY DEF GrantWrite, GrantRead
<1>2. o \in Objects /\ c \in Clients /\ c # NoClient
  BY <1>1, ObjectOfCommand, NullAssumption DEF Safe
<1>3. Grantable(s)
  BY <1>1 DEF Safe, GrantStillValid
<1>4. \A p \in Objects \ {o} :
         keyHolder'[p] = keyHolder[p] /\ readHolder'[p] = readHolder[p]
  BY <1>2 DEF GrantWrite, GrantRead, Safe, TypeOK
<1>5. pc' = [pc EXCEPT ![s] = "idle"] /\ cmd' = [cmd EXCEPT ![s] = NoCommand]
  BY DEF GrantWrite, GrantRead, Finish
<1>6. keyHolder'[o] # NoClient => readHolder'[o] \subseteq {keyHolder'[o]}
  <2>1. CASE GrantWrite(s)
    <3>1. keyHolder'[o] = c /\ readHolder'[o] = readHolder[o]
      BY <1>2, <2>1 DEF GrantWrite, Safe, TypeOK
    <3>2. readHolder[o] \subseteq {c}
      BY <1>2, <1>3, <2>1 DEF GrantWrite, Grantable, Safe, LockExclusion
    <3>3. QED
      BY <3>1, <3>2
  <2>2. CASE GrantRead(s)
    <3>1. keyHolder'[o] = keyHolder[o] /\ readHolder'[o] = readHolder[o] \cup {c}
      BY <1>2, <2>2 DEF GrantRead, Safe, TypeOK
    <3>2. keyHolder[o] \in {c, NoClient}
      BY <1>3 DEF Grantable
    <3>3. QED
      BY <1>2, <3>1, <3>2 DEF Safe, LockExclusion
  <2>3. QED
    BY <2>1, <2>2
<1>7. LockExclusion'
  BY <1>4, <1>6 DEF Safe, LockExclusion
<1>8. ASSUME NEW t \in Servers, pc'[t] \in {"grant", "marking"}
      PROVE  Grantable(t)'
  <2>1. t # s /\ pc[t] \in {"grant", "marking"} /\ cmd'[t] = cmd[t]
    BY <1>5, <1>8 DEF Safe, TypeOK
  <2>2. Object(t) \in Objects /\ Object(t)[1] = t /\ o[1] = s
    BY <1>1, <2>1, ObjectOfCommand DEF Safe
  <2>3. Object(t)' = Object(t) /\ Object(t) \in Objects \ {o}
    BY <2>1, <2>2 DEF Object
  <2>4. Grantable(t)
    BY <2>1 DEF Safe, GrantStillValid
  <2>5. QED
    BY <1>4, <2>1, <2>3, <2>4 DEF Grantable
<1>9. QED
  BY <1>7, <1>8 DEF GrantStillValid

\* Every step of a goroutine keeps both.
LEMMA StepSafe ==
    ASSUME Safe, NEW s \in Servers, Step(s)
    PROVE  LockExclusion' /\ GrantStillValid'
<1>1. CASE End(s)
  BY <1>1, EndSafe
<1>2. CASE StillHeld(s)
  BY <1>2, QuietStep DEF StillHeld, Read, goroutines, locks
<1>3. CASE Begin(s)
  BY <1>3, QuietStep DEF Begin, Read, locks, Safe, TypeOK
<1>4. CASE Decide(s)
  BY <1>4, QuietStep DEF Decide, Move, locks, Safe, TypeOK
<1>5. CASE Refuse(s)
  BY <1>5, QuietStep DEF Refuse, Move, locks, Safe, TypeOK
<1>6. CASE GrantWrite(s) \/ GrantRead(s)
  BY <1>6, GrantSafe
<1>7. CASE EnterRead(s)
  BY <1>7, QuietStep DEF EnterRead, Move, locks, Safe, TypeOK, GrantStillValid
<1>8. CASE Hold(s)
  BY <1>8, QuietStep DEF Hold, Move, locks, Safe, TypeOK
<1>9. CASE Register(s)
  BY <1>9, QuietStep DEF Register, Finish, locks, Safe, TypeOK
<1>10. ASSUME NEW t \in Servers, LoseMark(s, t)
       PROVE  LockExclusion' /\ GrantStillValid'
  BY <1>10, QuietStep DEF LoseMark, Finish, locks, Safe, TypeOK
<1>11. ASSUME NEW t \in Servers, MapFault(s, t)
       PROVE  LockExclusion' /\ GrantStillValid'
  <2>1. UNCHANGED <<locks, pc, cmd>>
    BY <1>11 DEF MapFault, goroutines
  <2>2. QED
    BY <2>1 DEF Safe, LockExclusion, GrantStillValid, Grantable, Object, locks
<1>12. QED
  BY <1>1, <1>2, <1>3, <1>4, <1>5, <1>6, <1>7, <1>8, <1>9, <1>10, <1>11 DEF Step

\* A step of the system is a step of a goroutine or leaves the locks, the
\* places and the commands of the goroutines as they are.
LEMMA NextCases ==
    ASSUME [Next]_vars
    PROVE  \/ \E s \in Servers : Step(s)
           \/ UNCHANGED <<locks, waiting, goroutines>>
BY DEF Next, ServerSends, ServerReads, vars, private

LEMMA AlwaysSafe == Spec => []Safe
<1>1. Init => LockExclusion /\ GrantStillValid
  BY DEF Init, LockExclusion, GrantStillValid
<1>2. ASSUME Safe, [Next]_vars PROVE LockExclusion' /\ GrantStillValid'
  <2>1. ASSUME NEW s \in Servers, Step(s)
        PROVE  LockExclusion' /\ GrantStillValid'
    BY <1>2, <2>1, StepSafe
  <2>2. CASE UNCHANGED <<locks, waiting, goroutines>>
    BY <1>2, <2>2
    DEF Safe, LockExclusion, GrantStillValid, Grantable, Object, locks, goroutines
  <2>3. QED
    BY <1>2, <2>1, <2>2, NextCases
<1>3. QED
  BY <1>1, <1>2, TypeCorrect, PTL DEF Spec, Safe

\* While a client holds the write lock of an object nobody else holds its read
\* lock, for any number of connections deciding and granting concurrently.
THEOREM Exclusion == Spec => []LockExclusion
BY AlwaysSafe, PTL DEF Safe

\* A grant decided under one lock still stands when it is recorded under the
\* next one.
THEOREM GrantStands == Spec => []GrantStillValid
BY AlwaysSafe, PTL DEF Safe

------------------------------------------------------------------------------
(* The coordinator implements the lock table                               *)

\* Every step of a goroutine is a step of the table or changes no lock.
LEMMA StepOfTable ==
    ASSUME Safe, NEW s \in Servers, Step(s)
    PROVE  Table!Next \/ UNCHANGED locks
<1>1. CASE End(s)
  <2>1. Head(requests[s]).client \in Clients
    BY <1>1 DEF End, EndCommands
  <2>2. Table!Release(Head(requests[s]).client)
    BY <1>1 DEF End, abortNode, Table!Release
  <2>3. QED
    BY <2>1, <2>2 DEF Table!Next
<1>2. CASE GrantWrite(s)
  <2>1. pc[s] = "grant" /\ cmd[s].op = "SET"
    BY <1>2 DEF GrantWrite
  <2>2. Object(s) \in Objects /\ cmd[s].client \in Clients /\ cmd[s].client # NoClient
    BY <2>1, ObjectOfCommand, NullAssumption DEF Safe
  <2>3. Grantable(s)
    BY <2>1 DEF Safe, GrantStillValid
  <2>4. /\ keyHolder[Object(s)] \in {NoClient, cmd[s].client}
        /\ readHolder[Object(s)] \subseteq {cmd[s].client}
    BY <2>1, <2>2, <2>3 DEF Grantable, Safe, LockExclusion
  <2>5. Table!AcquireWrite(cmd[s].client, Object(s))
    BY <1>2, <2>4 DEF GrantWrite, Table!AcquireWrite
  <2>6. QED
    BY <2>2, <2>5 DEF Table!Next
<1>3. CASE GrantRead(s)
  <2>1. pc[s] = "marking"
    BY <1>3 DEF GrantRead
  <2>2. Object(s) \in Objects /\ cmd[s].client \in Clients
    BY <2>1, ObjectOfCommand DEF Safe
  <2>3. Grantable(s)
    BY <2>1 DEF Safe, GrantStillValid
  <2>4. keyHolder[Object(s)] \in {NoClient, cmd[s].client}
    BY <2>3 DEF Grantable
  <2>5. Table!AcquireRead(cmd[s].client, Object(s))
    BY <1>3, <2>4 DEF GrantRead, Table!AcquireRead
  <2>6. QED
    BY <2>2, <2>5 DEF Table!Next
<1>4. QED
  BY <1>1, <1>2, <1>3 DEF Step, StillHeld, Begin, Decide, Refuse, EnterRead,
     Hold, Register, LoseMark, MapFault, locks

\* Whatever servers and clients send, and however its goroutines interleave,
\* the coordinator acquires and releases locks as the abstract table does.
THEOREM CoordinatorIsLockTable == Spec => ImplementsLockTable
<1>1. Init => Table!Init
  BY DEF Init, Table!Init
<1>2. ASSUME Safe, [Next]_vars PROVE [Table!Next]_(Table!vars)
  <2>1. Table!vars = locks
    BY DEF Table!vars, locks
  <2>2. ASSUME NEW s \in Servers, Step(s) PROVE [Table!Next]_(Table!vars)
    BY <1>2, <2>2, StepOfTable DEF Table!vars, locks
  <2>3. CASE UNCHANGED <<locks, waiting, goroutines>>
    BY <2>3 DEF Table!vars, locks
  <2>4. QED
    BY <1>2, <2>2, <2>3, NextCases
<1>3. QED
  BY <1>1, <1>2, AlwaysSafe, PTL DEF Spec, ImplementsLockTable, Table!Spec

------------------------------------------------------------------------------
(* Waiting                                                                 *)

\* A goroutine about to put a client on hold knows whom to register it with.
WaiterBlocked ==
    \A s \in Servers : pc[s] \in {"hold", "register"} => blockers[s] # {}

\* If every client's bit is scanned, a command that cannot be granted has a
\* client in its way.
LEMMA RefusedIsBlocked ==
    ASSUME Scanned = Clients, TypeOK, NEW s \in Servers,
           pc[s] # "idle", ~Grantable(s)
    PROVE  Blockers(s) # {}
<1>1. Object(s) \in Objects
  BY ObjectOfCommand
<1>2. CASE keyHolder[Object(s)] # NoClient
  BY <1>2 DEF Blockers
<1>3. CASE keyHolder[Object(s)] = NoClient
  <2>1. readHolder[Object(s)] # {} /\ readHolder[Object(s)] \subseteq Clients
    BY <1>1, <1>3 DEF Grantable, TypeOK
  <2>2. QED
    BY <1>3, <2>1 DEF Blockers
<1>4. QED
  BY <1>2, <1>3

LEMMA StepBlocked ==
    ASSUME Scanned = Clients, TypeOK, WaiterBlocked, NEW s \in Servers, Step(s)
    PROVE  WaiterBlocked'
<1>1. CASE Refuse(s)
  <2>1. Blockers(s) # {}
    BY <1>1, RefusedIsBlocked DEF Refuse, Move
  <2>2. QED
    BY <1>1, <2>1 DEF Refuse, Move, TypeOK, WaiterBlocked
<1>2. CASE Hold(s)
  BY <1>2 DEF Hold, Move, TypeOK, WaiterBlocked
<1>3. CASE Begin(s) \/ Decide(s) \/ EnterRead(s)
  BY <1>3 DEF Begin, Decide, EnterRead, Move, TypeOK, WaiterBlocked
<1>4. CASE GrantWrite(s) \/ GrantRead(s) \/ Register(s)
  BY <1>4 DEF GrantWrite, GrantRead, Register, Finish, TypeOK, WaiterBlocked
<1>5. CASE \E t \in Servers : LoseMark(s, t)
  BY <1>5 DEF LoseMark, Finish, TypeOK, WaiterBlocked
<1>6. CASE End(s) \/ StillHeld(s) \/ \E t \in Servers : MapFault(s, t)
  BY <1>6 DEF End, StillHeld, MapFault, goroutines, WaiterBlocked
<1>7. QED
  BY <1>1, <1>2, <1>3, <1>4, <1>5, <1>6 DEF Step

\* A client on hold stays registered until somebody takes it off hold.
LEMMA StepRegistered ==
    ASSUME TypeOK, WaiterBlocked, HeldIsRegistered, NEW s \in Servers, Step(s)
    PROVE  HeldIsRegistered'
<1> SUFFICES ASSUME NEW c \in holds'
             PROVE  \/ \E h \in Clients : c \in holderDependant'[h]
                    \/ \E t \in Servers : /\ pc'[t] = "register"
                                          /\ cmd'[t].client = c
                                          /\ blockers'[t] # {}
  BY DEF HeldIsRegistered
<1>1. CASE End(s)
  <2> DEFINE d == Head(requests[s]).client
  <2>1. d \in Clients
    BY <1>1 DEF End, EndCommands
  <2>2. /\ holds' = holds \ holderDependant[d]
        /\ holderDependant' = [holderDependant EXCEPT ![d] = {}]
        /\ UNCHANGED <<pc, cmd, blockers>>
    BY <1>1 DEF End, abortNode, goroutines
  <2>3. c \in holds /\ c \notin holderDependant[d]
    BY <2>2
  <2>4. CASE \E h \in Clients : c \in holderDependant[h]
    <3>1. PICK h \in Clients : c \in holderDependant[h]
      BY <2>4
    <3>2. c \in holderDependant'[h]
      BY <2>1, <2>2, <2>3, <3>1 DEF TypeOK
    <3>3. QED
      BY <3>2
  <2>5. QED
    BY <2>2, <2>3, <2>4 DEF HeldIsRegistered
<1>2. CASE Hold(s)
  <2>1. CASE c = cmd[s].client
    <3>1. pc'[s] = "register" /\ cmd'[s].client = c /\ blockers'[s] # {}
      BY <1>2, <2>1 DEF Hold, Move, TypeOK, WaiterBlocked
    <3>2. QED
      BY <3>1
  <2>2. CASE c # cmd[s].client
    <3>1. c \in holds /\ UNCHANGED <<holderDependant, cmd, blockers>>
      BY <1>2, <2>2 DEF Hold
    <3>2. \A t \in Servers : pc[t] = "register" => pc'[t] = "register"
      BY <1>2 DEF Hold, Move, TypeOK
    <3>3. QED
      BY <3>1, <3>2 DEF HeldIsRegistered
  <2>3. QED
    BY <2>1, <2>2
<1>3. CASE Register(s)
  <2>1. c \in holds
    BY <1>3 DEF Register
  <2>2. \A h \in Clients :
           holderDependant'[h] = IF h \in blockers[s]
                                 THEN holderDependant[h] \cup {cmd[s].client}
                                 ELSE holderDependant[h]
    BY <1>3 DEF Register
  <2>3. CASE \E h \in Clients : c \in holderDependant[h]
    BY <2>2, <2>3
  <2>4. CASE c = cmd[s].client
    <3>1. PICK h \in blockers[s] : TRUE
      BY <1>3 DEF Register, WaiterBlocked
    <3>2. h \in Clients /\ c \in holderDependant'[h]
      BY <2>2, <2>4, <3>1 DEF TypeOK
    <3>3. QED
      BY <3>2
  <2>5. CASE \E t \in Servers \ {s} : /\ pc[t] = "register"
                                      /\ cmd[t].client = c
                                      /\ blockers[t] # {}
    BY <1>3, <2>5 DEF Register, Finish, TypeOK
  <2>6. QED
    BY <2>1, <2>3, <2>4, <2>5 DEF HeldIsRegistered
<1>4. CASE \/ StillHeld(s) \/ Begin(s) \/ Decide(s) \/ Refuse(s) \/ EnterRead(s)
           \/ GrantWrite(s) \/ GrantRead(s)
           \/ \E t \in Servers : LoseMark(s, t) \/ MapFault(s, t)
  <2>1. c \in holds /\ UNCHANGED holderDependant
    BY <1>4 DEF StillHeld, Begin, Decide, Refuse, EnterRead, GrantWrite,
       GrantRead, LoseMark, MapFault, waiting
  <2>2. ASSUME NEW t \in Servers, pc[t] = "register"
        PROVE  pc'[t] = pc[t] /\ cmd'[t] = cmd[t] /\ blockers'[t] = blockers[t]
    BY <1>4, <2>2 DEF StillHeld, Begin, Decide, Refuse, EnterRead, GrantWrite,
       GrantRead, LoseMark, MapFault, Read, Move, Finish, goroutines, TypeOK
  <2>3. QED
    BY <2>1, <2>2 DEF HeldIsRegistered
<1>5. QED
  BY <1>1, <1>2, <1>3, <1>4 DEF Step

\* If SET scans the bit of every client, a client on hold is always in the list
\* of a client whose COMMIT or ABORT lets it go, or about to be.
THEOREM HeldAreRegistered ==
    ASSUME Scanned = Clients
    PROVE  Spec => []HeldIsRegistered
<1>1. Init => WaiterBlocked /\ HeldIsRegistered
  BY DEF Init, WaiterBlocked, HeldIsRegistered
<1>2. ASSUME TypeOK, WaiterBlocked, HeldIsRegistered, [Next]_vars
      PROVE  WaiterBlocked' /\ HeldIsRegistered'
  <2>1. ASSUME NEW s \in Servers, Step(s)
        PROVE  WaiterBlocked' /\ HeldIsRegistered'
    BY <1>2, <2>1, StepBlocked, StepRegistered
  <2>2. CASE UNCHANGED <<locks, waiting, goroutines>>
    BY <1>2, <2>2 DEF WaiterBlocked, HeldIsRegistered, waiting, goroutines
  <2>3. QED
    BY <1>2, <2>1, <2>2, NextCases
<1>3. QED
  BY <1>1, <1>2, TypeCorrect, PTL DEF Spec
==============================================================================
