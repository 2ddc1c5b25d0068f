-------------------------- MODULE GroupChatOrderProofs --------------------------
(***************************************************************************)
(* What the group chat promises its users, for any number of nodes and     *)
(* messages, whatever nodes stop: who runs gets what another was shown, in *)
(* the order it was typed, once.                                           *)
(***************************************************************************)
EXTENDS GroupChatProofs

\* The goroutine of p for q is relaying line.
Relaying(p, q, line) == reader[p][q].at = "relay" /\ reader[p][q].line = line

\* The mutex excludes the readers of a node, and what is relayed is the last known
\* message of a peer.
RelayInv ==
    /\ \A p, q, r \in Nodes :
          reader[p][q].at \in {"check", "relay"} /\ reader[p][r].at \in {"check", "relay"}
             => q = r
    /\ \A p, q \in Nodes :
          reader[p][q].at = "relay" =>
             LET line == reader[p][q].line
             IN  /\ line.author # p
                 /\ line \in set[p]
                 /\ \A known \in set[p] :
                       known.author = line.author => known.number <= line.number

\* q knows line, or has it before it on its connection from p.
Reached(p, q, line) ==
    \/ line \in set[q]
    \/ line = reader[q][p].line
    \/ line \in ToSet(channel[p][q])

\* p is writing line to its peers, and has yet to write to q.
Owes(p, q, line) ==
    \/ main[p].at = "send" /\ main[p].line = line /\ q \in ToSet(main[p].to)
    \/ \E r \in Nodes : Relaying(p, r, line) /\ q \in ToSet(reader[p][r].to)

\* What a running node knows has reached its running peers, or is being written.
SetIsRelayed ==
    \A p, q \in alive : p # q =>
        \A line \in set[p] : Reached(p, q, line) \/ Owes(p, q, line)

\* The messages that the author of line typed before it.
Before(line) == {Plain(line.author, n) : n \in 1..(line.number - 1)}

\* A line never comes to a node before an earlier one of the same author.
Gapless ==
    /\ \A p \in Nodes : \A line \in set[p] : Before(line) \subseteq set[p]
    /\ \A p, q \in Nodes : \A line \in InHand(p, q) : Before(line) \subseteq set[p]
    /\ \A p, q \in Nodes : p # q =>
          \A i \in DOMAIN channel[p][q] : \A earlier \in Before(channel[p][q][i]) :
             \/ earlier \in set[q]
             \/ earlier = reader[q][p].line
             \/ \E j \in 1..(i - 1) : channel[p][q][j] = earlier

\* The user is shown once what the node knows from others, when it is relayed.
PrintedInv ==
    \A p \in Nodes :
        /\ \A line \in set[p] : line.author # p =>
              line \in ToSet(printed[p]) \/ \E q \in Nodes : Relaying(p, q, line)
        /\ \A i \in DOMAIN printed[p] :
              /\ printed[p][i] \in set[p]
              /\ printed[p][i].author # p
              /\ \A q \in Nodes : ~Relaying(p, q, printed[p][i])
              /\ \A j \in DOMAIN printed[p] : printed[p][i] = printed[p][j] => i = j

Inv == StartInv /\ LineInv /\ RelayInv /\ SetIsRelayed /\ Gapless /\ PrintedInv

------------------------------------------------------------------------------

(* The mutex                                                               *)

\* A line that is new to a node is of a peer, and the next of its author: an
\* earlier one is known, a later one is not.
LEMMA NewLine ==
    ASSUME TypeOK, LineInv, Gapless, NEW p \in Nodes, NEW q \in Nodes,
           reader[p][q].at \in {"lock", "check", "relay"},
           reader[p][q].line \notin set[p]
    PROVE  /\ reader[p][q].line.author # p
           /\ \A known \in set[p] : known.author = reader[p][q].line.author =>
                 known.number <= reader[p][q].line.number
<1> DEFINE line == reader[p][q].line
<1>1. /\ line \in Lines /\ line.author \in Nodes /\ line.number \in Nat
      /\ line.number \in 1..Issued(line.author)
      /\ line = Plain(line.author, line.number)
  <2>1. line \in Lines /\ Genuine(line)
    BY LineAtWork
  <2>2. line.author \in Nodes /\ line.number \in Nat
    BY <2>1, ChatAssumption DEF Lines
  <2>3. QED
    BY <2>1, <2>2 DEF Genuine
<1>2. line.author # p
  BY <1>1 DEF LineInv
<1>3. ASSUME NEW known \in set[p], known.author = line.author, ~(known.number <= line.number)
      PROVE  FALSE
  <2>1. known.number \in Nat
    BY DEF TypeOK, Lines
  <2>2. line.number \in 1..(known.number - 1)
    BY <1>1, <1>3, <2>1
  <2>3. Plain(known.author, line.number) \in set[p]
    BY <2>2 DEF Gapless, Before
  <2>4. QED
    BY <1>1, <1>3, <2>3
<1>4. QED
  BY <1>2, <1>3

LEMMA RelayInvStep ==
    ASSUME TypeOK, LinesIntact, LineInv, Gapless, RelayInv, Next
    PROVE  RelayInv'
<1> DEFINE Holds(at) == at \in {"check", "relay"}
\* A reader that does not enter the section the mutex guards, or stays in it.
<1>frame. ASSUME UNCHANGED set,
                 \A r, s \in Nodes :
                    \/ ~Holds(reader'[r][s].at)
                    \/ /\ reader'[r][s].at = reader[r][s].at
                       /\ reader'[r][s].line = reader[r][s].line
          PROVE  RelayInv'
  BY <1>frame DEF RelayInv
<1>1. ASSUME NEW p \in Nodes, Start(p) \/ Dial(p) \/ Type(p) \/ Send(p) \/ Stop(p)
      PROVE  RelayInv'
  BY <1>1, <1>frame DEF Start, Dial, Type, Send, Stop
<1>2. ASSUME NEW p \in Nodes, SpawnReaders(p) PROVE RelayInv'
  <2>1. \A r, s \in Nodes : IF r = p THEN reader'[r][s].at = "reading"
                            ELSE reader'[r][s] = reader[r][s]
    BY <1>2, SpawnDoes
  <2>2. set' = set
    BY <1>2, SpawnDoes
  <2>3. QED
    BY <2>1, <2>2, <1>frame
<1>3. ASSUME NEW p \in Nodes, Insert(p) PROVE RelayInv'
  <2>1. Learned(p, main[p].line) /\ reader' = reader /\ main[p].at = "insert"
    BY <1>3, InsertDoes
  <2>2. main[p].line.author = p
    <3>1. main[p].line = Plain(p, Len(past[p]))
      BY <2>1, LineAtWork
    <3>2. QED
      BY <3>1 DEF Plain
  <2>3. ASSUME NEW r \in Nodes, NEW s \in Nodes, reader[r][s].at = "relay"
        PROVE  /\ reader[r][s].line.author # r
               /\ reader[r][s].line \in set'[r]
               /\ \A known \in set'[r] : known.author = reader[r][s].line.author =>
                     known.number <= reader[r][s].line.number
    <3>1. /\ reader[r][s].line.author # r
          /\ reader[r][s].line \in set[r]
          /\ \A known \in set[r] : known.author = reader[r][s].line.author =>
                known.number <= reader[r][s].line.number
      BY <2>3 DEF RelayInv
    <3>2. set'[r] = IF r = p THEN set[r] \cup {main[p].line} ELSE set[r]
      BY <2>1 DEF Learned
    <3>3. QED
      BY <2>2, <3>1, <3>2
  <2>4. QED
    BY <2>1, <2>3 DEF RelayInv
<1>4. ASSUME NEW p \in Nodes, NEW q \in Nodes,
             \/ HearName(p, q) \/ Read(p, q) \/ CheckKnown(p, q)
             \/ Deliver(p, q) \/ Leave(p, q)
      PROVE  RelayInv'
  <2>1. PICK g : ~Holds(g.at) /\ ReaderIs(p, q, g)
    BY <1>4, HearDoes, ReadDoes, RestDoes
  <2>2. set' = set
    BY <1>4, HearDoes, ReadDoes, RestDoes
  <2>3. QED
    BY <2>1, <2>2, <1>frame DEF ReaderIs
<1>5. ASSUME NEW p \in Nodes, NEW q \in Nodes, Lock(p, q) PROVE RelayInv'
  <2>1. PICK g : g.at = "check" /\ g.line = reader[p][q].line /\ ReaderIs(p, q, g)
    BY <1>5, LockDoes
  <2>2. \A r \in Nodes : ~Holds(reader[p][r].at)
    BY <1>5, LockDoes
  <2>3. set' = set
    BY <1>5, LockDoes
  <2>4. QED
    BY <2>1, <2>2, <2>3 DEF RelayInv, ReaderIs
<1>6. ASSUME NEW p \in Nodes, NEW q \in Nodes, CheckNew(p, q) PROVE RelayInv'
  <2>1. PICK g : /\ g.at = "relay" /\ g.line = reader[p][q].line
                 /\ g.to = connections[p] /\ ReaderIs(p, q, g)
    BY <1>6, CheckNewDoes
  <2>2. /\ reader[p][q].at = "check" /\ reader[p][q].line \notin set[p]
        /\ Learned(p, reader[p][q].line)
    BY <1>6, CheckNewDoes
  <2> DEFINE line == reader[p][q].line
  <2>3. /\ line.author # p /\ line.number <= line.number
        /\ \A known \in set[p] : known.author = line.author => known.number <= line.number
    <3>1. line \in Lines
      BY <2>2, LineAtWork
    <3>2. line.number \in Nat
      BY <3>1, ChatAssumption DEF Lines
    <3>3. QED
      BY <2>2, <3>2, NewLine
  <2>4. \A r \in Nodes : Holds(reader[p][r].at) => r = q
    BY <2>2 DEF RelayInv
  <2> HIDE DEF line
  <2>5. \A r, s, u \in Nodes : Holds(reader'[r][s].at) /\ Holds(reader'[r][u].at) => s = u
    BY <2>1, <2>4 DEF RelayInv, ReaderIs
  <2>6. ASSUME NEW r \in Nodes, NEW s \in Nodes, reader'[r][s].at = "relay"
        PROVE  /\ reader'[r][s].line.author # r
               /\ reader'[r][s].line \in set'[r]
               /\ \A known \in set'[r] : known.author = reader'[r][s].line.author =>
                     known.number <= reader'[r][s].line.number
    <3>1. CASE r = p
      <4>1. s = q /\ reader'[r][s].line = line
        BY <2>1, <2>4, <2>6, <3>1 DEF ReaderIs, line
      <4>2. set'[r] = set[p] \cup {line}
        BY <2>2, <3>1 DEF Learned, line
      <4>3. QED
        BY <2>3, <3>1, <4>1, <4>2
    <3>2. CASE r # p
      <4>1. reader'[r][s] = reader[r][s] /\ set'[r] = set[r]
        BY <2>1, <2>2, <3>2 DEF ReaderIs, Learned
      <4>2. QED
        BY <2>6, <4>1 DEF RelayInv
    <3>3. QED
      BY <3>1, <3>2
  <2>7. QED
    BY <2>5, <2>6 DEF RelayInv
<1>7. ASSUME NEW p \in Nodes, NEW q \in Nodes, Relay(p, q) PROVE RelayInv'
  <2>1. reader[p][q].line.verb = FALSE
    BY <1>7, LineAtWork DEF Relay, At
  <2>2. PICK g : /\ g.at = "relay" /\ g.line = reader[p][q].line
                 /\ g.to = Tail(reader[p][q].to) /\ ReaderIs(p, q, g)
    BY <1>7, <2>1, RelayDoes
  <2>3. reader[p][q].at = "relay" /\ set' = set
    BY <1>7 DEF Relay, At
  <2>4. QED
    BY <2>2, <2>3, <1>frame DEF ReaderIs
<1>8. QED
  BY <1>1, <1>2, <1>3, <1>4, <1>5, <1>6, <1>7
  DEF Next, StartStep, MainStep, ReaderStep, Crash, RaceFault

------------------------------------------------------------------------------
(* What is known is relayed                                                *)

LEMMA KnownLine ==
    ASSUME TypeOK, LineInv, NEW p \in Nodes, NEW line \in set[p]
    PROVE  /\ line \in Lines /\ line # NoLine /\ line.number # 0
           /\ Genuine(line) /\ line.author \in Nodes /\ line.number \in Nat
<1>1. line \in Lines /\ Genuine(line)
  BY DEF TypeOK, LineInv
<1>2. line # NoLine
  BY <1>1, LineTypes
<1>3. line.author \in Nodes /\ line.number \in Nat
  BY <1>1, ChatAssumption DEF Lines
<1>4. line.number # 0
  BY <1>1 DEF Genuine
<1>5. QED
  BY <1>1, <1>2, <1>3, <1>4

\* A step that takes nothing from what has reached a node, and after which what was
\* owed is owed still or has come.
LEMMA RelayedFrame ==
    ASSUME SetIsRelayed, alive' \subseteq alive, UNCHANGED set,
           \A r, s \in alive' : r # s => \A line \in set[r] :
              /\ Reached(r, s, line) => Reached(r, s, line)'
              /\ Owes(r, s, line) => Owes(r, s, line)' \/ Reached(r, s, line)'
    PROVE  SetIsRelayed'
BY DEF SetIsRelayed

\* A reader that is not relaying owes nothing.
LEMMA ReaderOwesNot ==
    ASSUME NEW p \in Nodes, NEW q \in Nodes, NEW g, ReaderIs(p, q, g),
           reader[p][q].at # "relay", main' = main,
           NEW r \in Nodes, NEW s \in Nodes, NEW line, Owes(r, s, line)
    PROVE  Owes(r, s, line)'
<1>1. CASE main[r].at = "send" /\ main[r].line = line /\ s \in ToSet(main[r].to)
  BY <1>1 DEF Owes
<1>2. CASE \E u \in Nodes : Relaying(r, u, line) /\ s \in ToSet(reader[r][u].to)
  <2>1. PICK u \in Nodes : Relaying(r, u, line) /\ s \in ToSet(reader[r][u].to)
    BY <1>2
  <2>2. reader'[r][u] = reader[r][u]
    BY <2>1 DEF ReaderIs, Relaying
  <2>3. QED
    BY <2>1, <2>2 DEF Owes, Relaying
<1>3. QED
  BY <1>1, <1>2 DEF Owes

\* The main loop, before it has a line to send.
LEMMA StartKeepsRelayed ==
    ASSUME TypeOK, LinesIntact, StartInv, LineInv, SetIsRelayed, NEW p \in Nodes,
           Start(p) \/ Dial(p) \/ SpawnReaders(p) \/ Type(p)
    PROVE  SetIsRelayed'
<1>1. /\ UNCHANGED <<set, alive>> /\ main[p].at # "send"
      /\ \E g : MainIs(p, g)
  BY StartDoes, DialDoes, SpawnDoes, TypeDoes
<1>2. ASSUME NEW r \in Nodes, NEW s \in Nodes
      PROVE  ToSet(channel[r][s]) \subseteq ToSet(channel'[r][s])
  <2>1. CASE Dial(p)
    <3>1. PICK q \in Nodes \ {p} : Written(p, q, Name(p))
      BY <2>1, DialDoes
    <3>2. PICK written \in Lines : written = Name(p)
      BY LineTypes
    <3>3. ToSet(channel'[r][s]) = IF r = p /\ s = q /\ q \in alive
                                  THEN ToSet(channel[r][s]) \cup {written}
                                  ELSE ToSet(channel[r][s])
      BY <3>1, <3>2, WrittenSets
    <3>4. QED
      BY <3>3
  <2>2. CASE ~Dial(p)
    BY <2>2 DEF Start, SpawnReaders, Type
  <2>3. QED
    BY <2>1, <2>2
<1>3. ASSUME NEW r \in Nodes, NEW s \in Nodes
      PROVE  \/ reader'[r][s] = reader[r][s]
             \/ reader[r][s].at # "relay" /\ reader[r][s].line = NoLine
  <2>1. CASE SpawnReaders(p)
    <3>1. main[p].at = "collect" /\ (r # p => reader'[r][s] = reader[r][s])
      BY <2>1, SpawnDoes
    <3>2. r = p => reader[r][s].at \in {"listening", "named"}
      BY <3>1 DEF StartInv, Started
    <3>3. QED
      BY <3>1, <3>2 DEF TypeOK
  <2>2. CASE ~SpawnReaders(p)
    BY <2>2 DEF Start, Dial, Type
  <2>3. QED
    BY <2>1, <2>2
<1>4. ASSUME NEW r \in alive, NEW s \in alive, r # s, NEW line \in set[r]
      PROVE  /\ Reached(r, s, line) => Reached(r, s, line)'
             /\ Owes(r, s, line) => Owes(r, s, line)'
  <2>1. r \in Nodes /\ s \in Nodes /\ line # NoLine
    BY KnownLine DEF TypeOK
  <2>2. Reached(r, s, line) => Reached(r, s, line)'
    <3>1. line = reader[s][r].line => line = reader'[s][r].line
      BY <1>3, <2>1
    <3>2. line \in ToSet(channel[r][s]) => line \in ToSet(channel'[r][s])
      BY <1>2, <2>1
    <3>3. QED
      BY <1>1, <3>1, <3>2 DEF Reached
  <2>3. ASSUME main[r].at = "send", main[r].line = line, s \in ToSet(main[r].to)
        PROVE  Owes(r, s, line)'
    <3>1. main'[r] = main[r]
      BY <1>1, <2>1, <2>3 DEF MainIs
    <3>2. QED
      BY <2>3, <3>1 DEF Owes
  <2>4. ASSUME NEW u \in Nodes, Relaying(r, u, line), s \in ToSet(reader[r][u].to)
        PROVE  Owes(r, s, line)'
    <3>1. reader'[r][u] = reader[r][u]
      BY <1>3, <2>1, <2>4 DEF Relaying
    <3>2. QED
      BY <2>4, <3>1 DEF Owes, Relaying
  <2>5. QED
    BY <2>2, <2>3, <2>4 DEF Owes
<1>5. QED
  BY <1>1, <1>4, RelayedFrame

\* The typed line enters set when all peers are to be written to.
LEMMA InsertKeepsRelayed ==
    ASSUME TypeOK, LinesIntact, LineInv, SetIsRelayed, NEW p \in Nodes, Insert(p)
    PROVE  SetIsRelayed'
<1>1. PICK g : g.at = "send" /\ g.line = main[p].line /\ g.to = main[p].to /\ MainIs(p, g)
  BY InsertDoes
<1>2. /\ main[p].at = "insert" /\ Learned(p, main[p].line)
      /\ UNCHANGED <<channel, reader, alive>>
  BY InsertDoes
<1>3. Nodes \ {p} \subseteq ToSet(main[p].to)
  BY <1>2 DEF LineInv
<1> SUFFICES ASSUME NEW r \in alive, NEW s \in alive, r # s, NEW line \in set'[r]
             PROVE  Reached(r, s, line)' \/ Owes(r, s, line)'
  BY <1>2 DEF SetIsRelayed
<1>4. r \in Nodes /\ s \in Nodes
  BY DEF TypeOK
<1>5. CASE line \in set[r]
  <2>1. Reached(r, s, line) \/ Owes(r, s, line)
    BY <1>5 DEF SetIsRelayed
  <2>2. Reached(r, s, line) => Reached(r, s, line)'
    BY <1>2, <1>4 DEF Reached, Learned
  <2>3. ASSUME main[r].at = "send", main[r].line = line, s \in ToSet(main[r].to)
        PROVE  Owes(r, s, line)'
    <3>1. main'[r] = main[r]
      BY <1>1, <1>2, <1>4, <2>3 DEF MainIs
    <3>2. QED
      BY <2>3, <3>1 DEF Owes
  <2>4. ASSUME NEW u \in Nodes, Relaying(r, u, line), s \in ToSet(reader[r][u].to)
        PROVE  Owes(r, s, line)'
    BY <1>2, <2>4 DEF Owes, Relaying
  <2>5. QED
    BY <2>1, <2>2, <2>3, <2>4 DEF Owes
<1>6. CASE line \notin set[r]
  <2>1. r = p /\ line = main[p].line
    BY <1>2, <1>4, <1>6 DEF Learned
  <2>2. main'[r] = g /\ s \in ToSet(g.to)
    BY <1>1, <1>3, <1>4, <2>1 DEF MainIs
  <2>3. QED
    BY <1>1, <2>1, <2>2 DEF Owes
<1>7. QED
  BY <1>5, <1>6

\* The first of the peers left is written to; the others are left.
LEMMA WriteKeepsReached ==
    ASSUME TypeOK, NEW p \in Nodes, NEW q, NEW line \in Lines, Written(p, q, line),
           NEW r \in Nodes, NEW s \in Nodes,
           set' = set, reader'[s][r].line = reader[s][r].line
    PROVE  /\ \A known : Reached(r, s, known) => Reached(r, s, known)'
           /\ r = p /\ s = q /\ s \in alive => Reached(r, s, line)'
<1>1. ToSet(channel'[r][s]) = IF r = p /\ s = q /\ q \in alive
                              THEN ToSet(channel[r][s]) \cup {line}
                              ELSE ToSet(channel[r][s])
  <2>1. PICK written \in Lines : written = line
    OBVIOUS
  <2>2. Written(p, q, written)
    BY <2>1
  <2>3. ToSet(channel'[r][s]) = IF r = p /\ s = q /\ q \in alive
                                THEN ToSet(channel[r][s]) \cup {written}
                                ELSE ToSet(channel[r][s])
    BY <2>2, WrittenSets
  <2>4. QED
    BY <2>1, <2>3
<1>2. QED
  BY <1>1 DEF Reached

LEMMA FirstOrLeft ==
    ASSUME NEW to \in Seq(Nodes), NEW s \in ToSet(to)
    PROVE  /\ to # <<>>
           /\ s = Head(to) \/ s \in ToSet(Tail(to))
           /\ Len(to) <= 1 => s = Head(to)
<1>1. to # <<>>
  BY DEF ToSet
<1>2. ToSet(to) = {to[1]} \cup ToSet(Tail(to)) /\ to[1] = Head(to)
  BY <1>1, TakenLine
<1>3. PICK i \in DOMAIN to : s = to[i]
  BY DEF ToSet
<1>4. DOMAIN to = 1..Len(to) /\ Len(to) \in Nat
  BY LenProperties
<1>5. Len(to) <= 1 => s = to[1]
  BY <1>3, <1>4
<1>6. QED
  BY <1>1, <1>2, <1>5

LEMMA SendKeepsRelayed ==
    ASSUME TypeOK, LineInv, SetIsRelayed, NEW p \in Nodes, Send(p)
    PROVE  SetIsRelayed'
<1>1. /\ main[p].at = "send" /\ main[p].line \in Lines /\ main[p].line.verb = FALSE
      /\ main[p].to \in Seq(Nodes)
  BY LineAtWork DEF Send, TypeOK, Goroutines
<1>2. PICK g : /\ g.at \in {"send", "input"}
               /\ g.at = "send" => /\ g.line = main[p].line
                                   /\ main[p].to # <<>> /\ g.to = Tail(main[p].to)
               /\ g.at = "input" => g.line = NoLine /\ Len(main[p].to) <= 1
               /\ MainIs(p, g)
  BY <1>1, SendDoes
<1>3. /\ Written(p, Head(main[p].to), main[p].line)
      /\ UNCHANGED <<set, reader, alive>>
  BY <1>1, SendDoes
<1>4. PICK sent \in Lines, first \in {Head(main[p].to)} : sent = main[p].line
  BY <1>1
<1>5. ASSUME NEW r \in alive, NEW s \in alive, r # s, NEW line \in set[r]
      PROVE  /\ Reached(r, s, line) => Reached(r, s, line)'
             /\ Owes(r, s, line) => Owes(r, s, line)' \/ Reached(r, s, line)'
  <2>1. r \in Nodes /\ s \in Nodes
    BY DEF TypeOK
  <2>2. /\ Reached(r, s, line) => Reached(r, s, line)'
        /\ r = p /\ s = first => Reached(r, s, sent)'
    <3>1. Written(p, first, sent) /\ set' = set /\ reader'[s][r].line = reader[s][r].line
      BY <1>3, <1>4
    <3>2. QED
      BY <2>1, <3>1, WriteKeepsReached
  <2>3. ASSUME main[r].at = "send", main[r].line = line, s \in ToSet(main[r].to)
        PROVE  Owes(r, s, line)' \/ Reached(r, s, line)'
    <3>1. CASE r # p
      <4>1. main'[r] = main[r]
        BY <1>2, <2>1, <3>1 DEF MainIs
      <4>2. QED
        BY <2>3, <4>1 DEF Owes
    <3>2. CASE r = p /\ s = first
      BY <1>4, <2>2, <2>3, <3>2
    <3>3. CASE r = p /\ s # first
      <4>1. s \in ToSet(Tail(main[p].to)) /\ ~(Len(main[p].to) <= 1)
        BY <1>1, <1>4, <2>3, <3>3, FirstOrLeft
      <4>2. g.at = "send" /\ g.line = line /\ s \in ToSet(g.to) /\ main'[r] = g
        BY <1>2, <2>1, <2>3, <3>3, <4>1 DEF MainIs
      <4>3. QED
        BY <4>2 DEF Owes
    <3>4. QED
      BY <3>1, <3>2, <3>3
  <2>4. ASSUME NEW u \in Nodes, Relaying(r, u, line), s \in ToSet(reader[r][u].to)
        PROVE  Owes(r, s, line)'
    BY <1>3, <2>4 DEF Owes, Relaying
  <2>5. QED
    BY <2>2, <2>3, <2>4 DEF Owes
<1>6. QED
  BY <1>3, <1>5, RelayedFrame

LEMMA RelayKeepsRelayed ==
    ASSUME TypeOK, LineInv, SetIsRelayed, NEW p \in Nodes, NEW q \in Nodes, Relay(p, q)
    PROVE  SetIsRelayed'
<1>1. /\ reader[p][q].line \in Lines /\ reader[p][q].line.verb = FALSE
      /\ reader[p][q].to \in Seq(Nodes)
  <2>1. reader[p][q].at = "relay" /\ reader[p][q] \in Goroutines(ReaderPlaces)
    BY DEF Relay, At, TypeOK
  <2>2. reader[p][q].line \in Lines /\ reader[p][q].line.verb = FALSE
    BY <2>1, LineAtWork
  <2>3. QED
    BY <2>1, <2>2 DEF Goroutines
<1>2. PICK g : /\ g.at = "relay" /\ g.line = reader[p][q].line
               /\ g.to = Tail(reader[p][q].to) /\ ReaderIs(p, q, g)
  BY <1>1, RelayDoes
<1>3. /\ Written(p, Head(reader[p][q].to), reader[p][q].line)
      /\ UNCHANGED <<set, main, alive>>
  BY <1>1, RelayDoes
<1>4. PICK sent \in Lines, first \in {Head(reader[p][q].to)} : sent = reader[p][q].line
  BY <1>1
<1>5. ASSUME NEW r \in alive, NEW s \in alive, r # s, NEW line \in set[r]
      PROVE  /\ Reached(r, s, line) => Reached(r, s, line)'
             /\ Owes(r, s, line) => Owes(r, s, line)' \/ Reached(r, s, line)'
  <2>1. r \in Nodes /\ s \in Nodes
    BY DEF TypeOK
  <2>2. /\ Reached(r, s, line) => Reached(r, s, line)'
        /\ r = p /\ s = first => Reached(r, s, sent)'
    <3>1. Written(p, first, sent) /\ set' = set
      BY <1>3, <1>4
    <3>2. reader'[s][r].line = reader[s][r].line
      BY <1>2, <2>1 DEF ReaderIs
    <3>3. QED
      BY <2>1, <3>1, <3>2, WriteKeepsReached
  <2>3. ASSUME main[r].at = "send", main[r].line = line, s \in ToSet(main[r].to)
        PROVE  Owes(r, s, line)'
    BY <1>3, <2>3 DEF Owes
  <2>4. ASSUME NEW u \in Nodes, Relaying(r, u, line), s \in ToSet(reader[r][u].to)
        PROVE  Owes(r, s, line)' \/ Reached(r, s, line)'
    <3>1. CASE ~(r = p /\ u = q)
      <4>1. reader'[r][u] = reader[r][u]
        BY <1>2, <2>1, <3>1 DEF ReaderIs
      <4>2. QED
        BY <2>4, <4>1 DEF Owes, Relaying
    <3>2. CASE r = p /\ u = q /\ s = first
      BY <1>4, <2>2, <2>4, <3>2 DEF Relaying
    <3>3. CASE r = p /\ u = q /\ s # first
      <4>1. s \in ToSet(Tail(reader[p][q].to))
        BY <1>1, <1>4, <2>4, <3>3, FirstOrLeft
      <4>2. reader'[r][u] = g /\ Relaying(r, u, line)' /\ s \in ToSet(reader'[r][u].to)
        BY <1>2, <2>4, <3>3, <4>1 DEF ReaderIs, Relaying
      <4>3. QED
        BY <4>2 DEF Owes
    <3>4. QED
      BY <3>1, <3>2, <3>3
  <2>5. QED
    BY <2>2, <2>3, <2>4 DEF Owes
<1>6. QED
  BY <1>3, <1>5, RelayedFrame

\* A reader that takes a message has it; the name is not a message.
LEMMA TakeKeepsRelayed ==
    ASSUME TypeOK, LinesIntact, StartInv, LineInv, SetIsRelayed,
           NEW p \in Nodes, NEW q \in Nodes, HearName(p, q) \/ Read(p, q)
    PROVE  SetIsRelayed'
<1>1. PICK g : /\ ReaderIs(p, q, g)
               /\ \/ HearName(p, q) /\ g.line = reader[p][q].line
                  \/ Read(p, q) /\ g.line = channel[q][p][1]
  BY HearDoes, ReadDoes
<1>2. /\ p # q /\ UNCHANGED <<set, main, alive>>
      /\ Taken(p, q) \/ (channel' = channel /\ HearName(p, q))
      /\ HearName(p, q) => reader[p][q].at = "listening"
      /\ Read(p, q) => reader[p][q].at = "reading"
  BY HearDoes, ReadDoes
<1>3. reader[p][q].at # "relay" /\ reader[p][q].line = NoLine
  BY <1>2 DEF TypeOK
<1>4. ASSUME NEW r \in alive, NEW s \in alive, r # s, NEW line \in set[r],
             Reached(r, s, line)
      PROVE  Reached(r, s, line)'
  <2>1. r \in Nodes /\ s \in Nodes
    BY DEF TypeOK
  <2>2. CASE line \in set[s]
    BY <1>2, <2>2 DEF Reached
  <2>3. CASE line = reader[s][r].line
    <3>1. line # NoLine
      BY <2>1, KnownLine
    <3>2. reader'[s][r] = reader[s][r]
      BY <1>1, <1>3, <2>1, <2>3, <3>1 DEF ReaderIs
    <3>3. QED
      BY <2>3, <3>2 DEF Reached
  <2>4. CASE line \in ToSet(channel[r][s])
    <3>1. CASE channel'[r][s] = channel[r][s]
      BY <2>4, <3>1 DEF Reached
    <3>2. CASE channel'[r][s] # channel[r][s]
      <4>1. Taken(p, q) /\ s = p /\ r = q
        BY <1>2, <2>1, <3>2, TakenSets
      <4>2. line = channel[q][p][1] \/ line \in ToSet(channel'[r][s])
        BY <2>4, <4>1, TakenSets
      <4>3. CASE line = channel[q][p][1] /\ Read(p, q)
        <5>1. reader'[s][r].line = line
          BY <1>1, <1>2, <2>1, <4>1, <4>3 DEF ReaderIs
        <5>2. QED
          BY <5>1 DEF Reached
      <4>4. ASSUME line = channel[q][p][1], HearName(p, q) PROVE FALSE
        <5>1. channel[q][p] \in Seq(Lines) /\ channel[q][p] # <<>>
          BY <4>1 DEF TypeOK, Taken
        <5>2. 1 \in DOMAIN channel[q][p]
          BY <5>1, TakenLine
        <5>3. channel[q][p][1].number = 0
          BY <1>2, <4>4, <5>2 DEF StartInv
        <5>4. line.number # 0
          BY <2>1, KnownLine
        <5>5. QED
          BY <4>4, <5>3, <5>4
      <4>5. CASE line \in ToSet(channel'[r][s])
        BY <4>5 DEF Reached
      <4>6. QED
        BY <4>2, <4>3, <4>4, <4>5
    <3>3. QED
      BY <3>1, <3>2
  <2>5. QED
    BY <1>4, <2>2, <2>3, <2>4 DEF Reached
<1>5. ASSUME NEW r \in alive, NEW s \in alive, NEW line, Owes(r, s, line)
      PROVE  Owes(r, s, line)'
  <2>1. r \in Nodes /\ s \in Nodes /\ main' = main
    BY <1>2 DEF TypeOK
  <2>2. QED
    BY <1>1, <1>3, <1>5, <2>1, ReaderOwesNot
<1>6. alive' \subseteq alive /\ set' = set
  BY <1>2
<1>7. QED
  BY <1>4, <1>5, <1>6, RelayedFrame

\* What a reader goes on without is in set.
LEMMA RestKeepsRelayed ==
    ASSUME TypeOK, LineInv, RelayInv, SetIsRelayed, NEW p \in Nodes, NEW q \in Nodes,
           Lock(p, q) \/ CheckKnown(p, q) \/ Deliver(p, q) \/ Leave(p, q)
    PROVE  SetIsRelayed'
<1>1. PICK g : ReaderIs(p, q, g) /\ (Lock(p, q) => g.line = reader[p][q].line)
  BY LockDoes, RestDoes
<1>2. UNCHANGED <<channel, set, main, alive>>
  BY LockDoes, RestDoes
<1>3. reader[p][q].line \in set[p] \cup {NoLine} \/ Lock(p, q)
  BY DEF CheckKnown, Deliver, Leave, At, RelayInv, TypeOK
<1>4. reader[p][q].at = "relay" => reader[p][q].to = <<>>
  BY DEF Lock, CheckKnown, Deliver, Leave, At
<1>5. ASSUME NEW r \in alive, NEW s \in alive, r # s, NEW line \in set[r]
      PROVE  /\ Reached(r, s, line) => Reached(r, s, line)'
             /\ Owes(r, s, line) => Owes(r, s, line)'
  <2>1. r \in Nodes /\ s \in Nodes
    BY DEF TypeOK
  <2>2. line # NoLine
    BY <2>1, KnownLine
  <2>3. line = reader[s][r].line => line \in set[s] \/ line = reader'[s][r].line
    BY <1>1, <1>3, <2>1, <2>2 DEF ReaderIs
  <2>4. Reached(r, s, line) => Reached(r, s, line)'
    BY <1>2, <2>3 DEF Reached
  <2>5. ASSUME main[r].at = "send", main[r].line = line, s \in ToSet(main[r].to)
        PROVE  Owes(r, s, line)'
    BY <1>2, <2>5 DEF Owes
  <2>6. ASSUME NEW u \in Nodes, Relaying(r, u, line), s \in ToSet(reader[r][u].to)
        PROVE  Owes(r, s, line)'
    <3>1. reader[r][u].to # <<>> /\ reader[r][u].at = "relay"
      BY <2>6 DEF ToSet, Relaying
    <3>2. reader'[r][u] = reader[r][u]
      BY <1>1, <1>4, <2>1, <3>1 DEF ReaderIs
    <3>3. QED
      BY <2>6, <3>2 DEF Owes, Relaying
  <2>7. QED
    BY <2>4, <2>5, <2>6 DEF Owes
<1>6. alive' \subseteq alive /\ set' = set
  BY <1>2
<1>7. QED
  BY <1>5, <1>6, RelayedFrame

\* A line enters set when all peers are to be written to.
LEMMA NewKeepsRelayed ==
    ASSUME TypeOK, LinesIntact, StartInv, SetIsRelayed,
           NEW p \in Nodes, NEW q \in Nodes, CheckNew(p, q)
    PROVE  SetIsRelayed'
<1>1. PICK g : /\ g.at = "relay" /\ g.line = reader[p][q].line
               /\ g.to = connections[p] /\ ReaderIs(p, q, g)
  BY CheckNewDoes
<1>2. /\ reader[p][q].at = "check" /\ Learned(p, reader[p][q].line)
      /\ UNCHANGED <<channel, main, alive>>
  BY CheckNewDoes
<1>3. Nodes \ {p} \subseteq ToSet(connections[p])
  BY <1>2 DEF StartInv, Started
<1> SUFFICES ASSUME NEW r \in alive, NEW s \in alive, r # s, NEW line \in set'[r]
             PROVE  Reached(r, s, line)' \/ Owes(r, s, line)'
  BY <1>2 DEF SetIsRelayed
<1>4. r \in Nodes /\ s \in Nodes
  BY DEF TypeOK
<1>5. CASE line \in set[r]
  <2>1. Reached(r, s, line) \/ Owes(r, s, line)
    BY <1>5 DEF SetIsRelayed
  <2>2. reader'[s][r].line = reader[s][r].line
    BY <1>1, <1>4 DEF ReaderIs
  <2>3. Reached(r, s, line) => Reached(r, s, line)'
    BY <1>2, <1>4, <2>2 DEF Reached, Learned
  <2>4. Owes(r, s, line) => Owes(r, s, line)'
    <3>1. reader[p][q].at # "relay" /\ main' = main
      BY <1>2
    <3>2. QED
      BY <1>1, <1>4, <3>1, ReaderOwesNot
  <2>5. QED
    BY <2>1, <2>3, <2>4
<1>6. CASE line \notin set[r]
  <2>1. r = p /\ line = reader[p][q].line
    BY <1>2, <1>4, <1>6 DEF Learned
  <2>2. reader'[p][q] = g /\ s \in ToSet(g.to)
    BY <1>1, <1>3, <1>4, <2>1 DEF ReaderIs
  <2>3. Relaying(r, q, line)' /\ s \in ToSet(reader'[r][q].to)
    BY <1>1, <2>1, <2>2 DEF Relaying
  <2>4. QED
    BY <2>3 DEF Owes
<1>7. QED
  BY <1>5, <1>6

LEMMA StopKeepsRelayed ==
    ASSUME TypeOK, SetIsRelayed, NEW p \in Nodes, Stop(p)
    PROVE  SetIsRelayed'
<1>1. /\ alive' = alive \ {p} /\ UNCHANGED <<set, main, reader>>
      /\ \A r, s \in Nodes : r # p => channel'[r][s] = channel[r][s]
  BY StopDoes
<1>2. ASSUME NEW r \in alive', NEW s \in alive', NEW line
      PROVE  /\ Reached(r, s, line) => Reached(r, s, line)'
             /\ Owes(r, s, line) => Owes(r, s, line)'
  <2>1. channel'[r][s] = channel[r][s]
    BY <1>1 DEF TypeOK
  <2>2. QED
    BY <1>1, <2>1 DEF Reached, Owes, Relaying
<1>3. alive' \subseteq alive /\ set' = set
  BY <1>1
<1>4. QED
  BY <1>2, <1>3, RelayedFrame

LEMMA SetIsRelayedStep ==
    ASSUME TypeOK, LinesIntact, StartInv, LineInv, RelayInv, SetIsRelayed, Next
    PROVE  SetIsRelayed'
BY StartKeepsRelayed, InsertKeepsRelayed, SendKeepsRelayed, TakeKeepsRelayed,
   RestKeepsRelayed, NewKeepsRelayed, RelayKeepsRelayed, StopKeepsRelayed
DEF Next, StartStep, MainStep, ReaderStep, Crash, RaceFault

------------------------------------------------------------------------------
(* Order                                                                   *)

LEMMA EarlierLine ==
    ASSUME NEW line \in Lines, NEW earlier \in Before(line)
    PROVE  /\ earlier \in Lines /\ earlier # NoLine
           /\ earlier.author = line.author
           /\ earlier.number # 0 /\ earlier # line
           /\ line.number # 0
<1>1. PICK n \in 1..(line.number - 1) : earlier = Plain(line.author, n)
  BY DEF Before
<1>2. line.author \in Nodes /\ line.number \in 0..MaxMessages /\ MaxMessages \in Nat
  BY ChatAssumption DEF Lines
<1>3. earlier \in Lines
  <2>1. n \in 0..MaxMessages /\ 0 \in 0..MaxHops
    BY <1>1, <1>2, ChatAssumption
  <2>2. QED
    BY <1>1, <1>2, <2>1 DEF Plain, Lines
<1>4. earlier.author = line.author /\ earlier.number = n
  BY <1>1 DEF Plain
<1>5. QED
  BY <1>1, <1>2, <1>3, <1>4, LineTypes

\* What a node learns it typed, or has read.
LEMMA Learns ==
    ASSUME TypeOK, LinesIntact, LineInv, Next, NEW r \in Nodes
    PROVE  /\ set[r] \subseteq set'[r]
           /\ \A line \in set'[r] :
                 \/ line \in set[r]
                 \/ main[r].at = "insert" /\ line = main[r].line
                 \/ \E s \in Nodes : line \in InHand(r, s)
<1>1. ASSUME NEW p \in Nodes, Insert(p)
      PROVE  /\ set[r] \subseteq set'[r]
             /\ \A line \in set'[r] :
                   line \in set[r] \/ (main[r].at = "insert" /\ line = main[r].line)
  BY <1>1, InsertDoes DEF Learned
<1>2. ASSUME NEW p \in Nodes, NEW q \in Nodes, CheckNew(p, q)
      PROVE  /\ set[r] \subseteq set'[r]
             /\ \A line \in set'[r] :
                   line \in set[r] \/ \E s \in Nodes : line \in InHand(r, s)
  <2>1. Learned(p, reader[p][q].line) /\ reader[p][q].at = "check"
    BY <1>2, CheckNewDoes
  <2>2. reader[p][q].line \in InHand(p, q)
    BY <2>1 DEF InHand, TypeOK
  <2>3. set'[r] = IF r = p THEN set[r] \cup {reader[p][q].line} ELSE set[r]
    BY <2>1 DEF Learned
  <2>4. QED
    BY <2>2, <2>3
<1>3. \/ \E p \in Nodes : Insert(p)
      \/ \E p, q \in Nodes : CheckNew(p, q)
      \/ set' = set
  <2>1. ASSUME NEW p \in Nodes, Crash(p) \/ RaceFault(p) PROVE set' = set
    BY <2>1 DEF Stop, Crash, RaceFault
  <2>2. ASSUME NEW p \in Nodes, Start(p) \/ StartStep(p) PROVE set' = set
    BY <2>2 DEF Start, StartStep, Dial, SpawnReaders, HearName
  <2>3. ASSUME NEW p \in Nodes, Type(p) \/ MainStep(p), ~Insert(p) PROVE set' = set
    BY <2>3 DEF Type, MainStep, Send
  <2>4. ASSUME NEW p \in Nodes, NEW q \in Nodes, ReaderStep(p, q), ~CheckNew(p, q)
        PROVE  set' = set
    BY <2>4 DEF ReaderStep, Read, Lock, CheckKnown, Relay, Deliver, Leave
  <2>5. QED
    BY <2>1, <2>2, <2>3, <2>4 DEF Next
<1>4. QED
  BY <1>1, <1>2, <1>3

\* A reader takes the first line there is, and keeps it until it is known.
LEMMA Takes ==
    ASSUME TypeOK, LinesIntact, StartInv, LineInv, RelayInv, Next,
           NEW r \in Nodes, NEW s \in Nodes
    PROVE  /\ \A line \in InHand(r, s)' :
                 line \in InHand(r, s) \/ (Read(r, s) /\ line = channel[s][r][1])
           /\ \A line \in InHand(r, s) : line \in InHand(r, s)' \/ line \in set'[r]
<1> DEFINE Kept == \/ reader'[r][s].line = reader[r][s].line
                   \/ Read(r, s) /\ reader'[r][s].line = channel[s][r][1]
                                 /\ reader[r][s].line = NoLine
                   \/ reader'[r][s].line = NoLine /\ reader[r][s].line \in set'[r] \cup {NoLine}
<1>1. ASSUME NEW p \in Nodes, SpawnReaders(p) PROVE Kept
  <2>1. main[p].at = "collect"
    BY <1>1, SpawnDoes
  <2>2. r # p => reader'[r][s] = reader[r][s]
    BY <1>1, SpawnDoes
  <2>3. r = p => reader'[r][s].line = NoLine
    BY <1>1, SpawnDoes
  <2>4. r = p => reader[r][s].at \in {"listening", "named"}
    BY <2>1 DEF StartInv, Started
  <2>5. r = p => reader[r][s].line = NoLine
    BY <2>4 DEF TypeOK
  <2>6. QED
    BY <2>2, <2>3, <2>5
<1>2. ASSUME NEW p \in Nodes, NEW q \in Nodes, Read(p, q) PROVE Kept
  <2>1. PICK g : g.at = "lock" /\ g.line = channel[q][p][1] /\ ReaderIs(p, q, g)
    BY <1>2, ReadDoes
  <2>2. reader[p][q].line = NoLine
    <3>1. reader[p][q].at = "reading"
      BY <1>2, ReadDoes
    <3>2. QED
      BY <3>1 DEF TypeOK
  <2>3. reader'[r][s] = IF r = p /\ s = q THEN g ELSE reader[r][s]
    BY <2>1 DEF ReaderIs
  <2>4. QED
    BY <1>2, <2>1, <2>2, <2>3
<1>3. ASSUME NEW p \in Nodes, NEW q \in Nodes,
             HearName(p, q) \/ Lock(p, q) \/ CheckNew(p, q) \/ Relay(p, q)
      PROVE  Kept
  <2>1. ASSUME Relay(p, q)
        PROVE  \E g : g.line = reader[p][q].line /\ ReaderIs(p, q, g)
    <3>1. reader[p][q].line.verb = FALSE
      BY <2>1, LineAtWork DEF Relay, At
    <3>2. PICK h : /\ h.at = "relay" /\ h.line = reader[p][q].line
                   /\ h.to = Tail(reader[p][q].to) /\ ReaderIs(p, q, h)
      BY <2>1, <3>1, RelayDoes
    <3>3. QED
      BY <3>2
  <2>2. \E g : g.line = reader[p][q].line /\ ReaderIs(p, q, g)
    BY <1>3, <2>1, HearDoes, LockDoes, CheckNewDoes
  <2>3. QED
    BY <2>2 DEF ReaderIs
<1>4. ASSUME NEW p \in Nodes, NEW q \in Nodes,
             CheckKnown(p, q) \/ Deliver(p, q) \/ Leave(p, q)
      PROVE  Kept
  <2>1. PICK g : g.line = NoLine /\ ReaderIs(p, q, g)
    BY <1>4, RestDoes
  <2>2. reader[p][q].line \in set[p] \cup {NoLine}
    BY <1>4 DEF CheckKnown, Deliver, Leave, At, RelayInv, TypeOK
  <2>3. set' = set
    BY <1>4, RestDoes
  <2>4. QED
    BY <2>1, <2>2, <2>3 DEF ReaderIs
<1>5. \/ \E p \in Nodes : SpawnReaders(p)
      \/ \E p, q \in Nodes : Read(p, q)
      \/ \E p, q \in Nodes : HearName(p, q) \/ Lock(p, q) \/ CheckNew(p, q) \/ Relay(p, q)
      \/ \E p, q \in Nodes : CheckKnown(p, q) \/ Deliver(p, q) \/ Leave(p, q)
      \/ reader' = reader
  BY DEF Next, Start, StartStep, Dial, Type, MainStep, Insert, Send, ReaderStep,
         Crash, RaceFault, Stop
<1>6. Kept
  BY <1>1, <1>2, <1>3, <1>4, <1>5
<1>7. QED
  BY <1>6 DEF InHand

\* A connection keeps what it holds, loses the end of it, gives up its first line,
\* a name or one that is now in hand, or holds one more, a name or one at hand.
LEMMA ChannelMoves ==
    ASSUME TypeOK, LinesIntact, StartInv, LineInv, Next,
           NEW r \in Nodes, NEW s \in Nodes
    PROVE  \/ /\ DOMAIN channel'[r][s] \subseteq DOMAIN channel[r][s]
              /\ \A i \in DOMAIN channel'[r][s] : channel'[r][s][i] = channel[r][s][i]
           \/ /\ channel[r][s] # <<>> /\ channel'[r][s] = Tail(channel[r][s])
              /\ \/ r # s /\ channel[r][s][1].number = 0
                 \/ reader'[s][r].line = channel[r][s][1]
           \/ /\ {r, s} \subseteq alive
              /\ \E line \in Lines :
                    /\ channel'[r][s] = Append(channel[r][s], line)
                    /\ \/ line.number = 0
                       \/ main[r].at = "send" /\ main[r].line = line
                       \/ \E u \in Nodes : Relaying(r, u, line)
<1> DEFINE Shrinks == /\ DOMAIN channel'[r][s] \subseteq DOMAIN channel[r][s]
                      /\ \A i \in DOMAIN channel'[r][s] :
                            channel'[r][s][i] = channel[r][s][i]
           IsTaken == /\ channel[r][s] # <<>> /\ channel'[r][s] = Tail(channel[r][s])
                      /\ \/ r # s /\ channel[r][s][1].number = 0
                         \/ reader'[s][r].line = channel[r][s][1]
           Grows == /\ {r, s} \subseteq alive
                    /\ \E line \in Lines :
                          /\ channel'[r][s] = Append(channel[r][s], line)
                          /\ \/ line.number = 0
                             \/ main[r].at = "send" /\ main[r].line = line
                             \/ \E u \in Nodes : Relaying(r, u, line)
<1>1. channel'[r][s] = channel[r][s] => Shrinks
  OBVIOUS
<1>2. ASSUME NEW p \in Nodes, Dial(p) PROVE Shrinks \/ Grows
  <2>1. PICK q \in Nodes \ {p} : p \in alive /\ Written(p, q, Name(p))
    BY <1>2, DialDoes
  <2>2. Name(p) \in Lines /\ Name(p).number = 0
    BY LineTypes DEF Name
  <2>3. CASE r = p /\ s = q /\ q \in alive
    <3>1. channel'[r][s] = Append(channel[r][s], Name(p)) /\ {r, s} \subseteq alive
      BY <2>1, <2>3 DEF Written
    <3>2. QED
      BY <2>2, <3>1
  <2>4. CASE ~(r = p /\ s = q /\ q \in alive)
    <3>1. channel'[r][s] = channel[r][s]
      BY <2>1, <2>4 DEF Written
    <3>2. QED
      BY <1>1, <3>1
  <2>5. QED
    BY <2>3, <2>4
<1>3. ASSUME NEW p \in Nodes, Send(p) PROVE Shrinks \/ Grows
  <2>1. main[p].at = "send" /\ p \in alive
    BY <1>3 DEF Send
  <2>2. main[p].line \in Lines /\ main[p].line.verb = FALSE
    BY <2>1, LineAtWork
  <2>3. Written(p, Head(main[p].to), main[p].line)
    BY <1>3, <2>2, SendDoes
  <2>4. CASE r = p /\ s = Head(main[p].to) /\ s \in alive
    <3>1. channel'[r][s] = Append(channel[r][s], main[p].line)
      BY <2>3, <2>4 DEF Written
    <3>2. QED
      BY <2>1, <2>2, <2>4, <3>1
  <2>5. CASE ~(r = p /\ s = Head(main[p].to) /\ s \in alive)
    <3>1. channel'[r][s] = channel[r][s]
      BY <2>3, <2>5 DEF Written
    <3>2. QED
      BY <1>1, <3>1
  <2>6. QED
    BY <2>4, <2>5
<1>4. ASSUME NEW p \in Nodes, NEW q \in Nodes, Relay(p, q) PROVE Shrinks \/ Grows
  <2>1. reader[p][q].at = "relay" /\ p \in alive
    BY <1>4 DEF Relay, At
  <2>2. reader[p][q].line \in Lines /\ reader[p][q].line.verb = FALSE
    BY <2>1, LineAtWork
  <2>3. Written(p, Head(reader[p][q].to), reader[p][q].line)
    BY <1>4, <2>2, RelayDoes
  <2>4. CASE r = p /\ s = Head(reader[p][q].to) /\ s \in alive
    <3>1. channel'[r][s] = Append(channel[r][s], reader[p][q].line)
      BY <2>3, <2>4 DEF Written
    <3>2. Relaying(r, q, reader[p][q].line)
      BY <2>1, <2>4 DEF Relaying
    <3>3. QED
      BY <2>1, <2>2, <2>4, <3>1, <3>2
  <2>5. CASE ~(r = p /\ s = Head(reader[p][q].to) /\ s \in alive)
    <3>1. channel'[r][s] = channel[r][s]
      BY <2>3, <2>5 DEF Written
    <3>2. QED
      BY <1>1, <3>1
  <2>6. QED
    BY <2>4, <2>5
<1>5. ASSUME NEW p \in Nodes, NEW q \in Nodes, HearName(p, q) \/ Read(p, q)
      PROVE  Shrinks \/ IsTaken
  <2>1. p # q /\ (Taken(p, q) \/ channel' = channel)
    BY <1>5, HearDoes, ReadDoes
  <2>2. CASE r = q /\ s = p /\ Taken(p, q)
    <3>1. channel[r][s] # <<>> /\ channel'[r][s] = Tail(channel[r][s])
      BY <2>2 DEF Taken
    <3>2. CASE HearName(p, q)
      <4>1. channel[r][s] \in Seq(Lines)
        BY DEF TypeOK
      <4>2. 1 \in DOMAIN channel[q][p] /\ reader[p][q].at = "listening"
        BY <2>2, <3>1, <3>2, <4>1, TakenLine, HearDoes
      <4>3. channel[r][s][1].number = 0
        BY <2>1, <2>2, <4>2 DEF StartInv
      <4>4. QED
        BY <2>1, <2>2, <3>1, <4>3
    <3>3. CASE Read(p, q)
      <4>1. PICK g : g.at = "lock" /\ g.line = channel[q][p][1] /\ ReaderIs(p, q, g)
        BY <3>3, ReadDoes
      <4>2. reader'[s][r].line = channel[r][s][1]
        BY <2>2, <4>1 DEF ReaderIs
      <4>3. QED
        BY <3>1, <4>2
    <3>4. QED
      BY <1>5, <3>2, <3>3
  <2>3. CASE ~(r = q /\ s = p /\ Taken(p, q))
    <3>1. channel'[r][s] = channel[r][s]
      BY <2>1, <2>3 DEF Taken
    <3>2. QED
      BY <1>1, <3>1
  <2>4. QED
    BY <2>2, <2>3
<1>6. ASSUME NEW p \in Nodes, Stop(p) PROVE Shrinks
  <2>1. /\ DOMAIN channel'[r][s] = 1..Len(channel'[r][s])
        /\ Len(channel'[r][s]) \in Nat /\ Len(channel'[r][s]) <= Len(channel[r][s])
        /\ \A i \in 1..Len(channel'[r][s]) : channel'[r][s][i] = channel[r][s][i]
    BY <1>6, StopDoes
  <2>2. DOMAIN channel[r][s] = 1..Len(channel[r][s]) /\ Len(channel[r][s]) \in Nat
    BY LenProperties DEF TypeOK
  <2>3. QED
    BY <2>1, <2>2
<1>7. \/ \E p \in Nodes : Dial(p) \/ Send(p) \/ Stop(p)
      \/ \E p, q \in Nodes : Relay(p, q) \/ HearName(p, q) \/ Read(p, q)
      \/ channel' = channel
  BY DEF Next, Start, StartStep, SpawnReaders, Type, MainStep, Insert, ReaderStep,
         Lock, CheckKnown, CheckNew, Deliver, Leave, Crash, RaceFault
<1>8. Shrinks \/ IsTaken \/ Grows
  <2> HIDE DEF Shrinks, IsTaken, Grows
  <2>1. channel' = channel => Shrinks
    BY <1>1
  <2>2. QED
    BY <1>2, <1>3, <1>4, <1>5, <1>6, <1>7, <2>1
<1>9. QED
  BY <1>8

\* What a node writes comes after the earlier messages of its author.
LEMMA EarlierReached ==
    ASSUME TypeOK, LineInv, RelayInv, SetIsRelayed, Gapless,
           NEW r \in alive, NEW s \in alive, r # s, NEW line \in Lines,
           \/ line.number = 0
           \/ main[r].at = "send" /\ main[r].line = line
           \/ \E u \in Nodes : Relaying(r, u, line),
           NEW earlier \in Before(line)
    PROVE  Reached(r, s, earlier)
<1>1. r \in Nodes /\ s \in Nodes
  BY DEF TypeOK
<1>2. line.number # 0 /\ earlier.author = line.author /\ earlier # line
  BY EarlierLine
<1>3. CASE main[r].at = "send" /\ main[r].line = line
  <2>1. line = Plain(r, Len(past[r])) /\ Len(past[r]) \in Nat /\ Issued(r) = Len(past[r])
    <3>1. line = Plain(r, Len(past[r]))
      BY <1>1, <1>3, LineAtWork
    <3>2. Len(past[r]) \in Nat
      BY <1>1 DEF TypeOK
    <3>3. QED
      BY <1>3, <3>1, <3>2 DEF Issued
  <2>2. line.author = r /\ line.number = Len(past[r])
    BY <2>1 DEF Plain
  <2>3. earlier \in set[r]
    <3>1. PICK n \in 1..(line.number - 1) : earlier = Plain(line.author, n)
      BY DEF Before
    <3>2. n \in 1..Issued(r)
      BY <2>1, <2>2, <3>1
    <3>3. QED
      BY <1>1, <2>2, <3>1, <3>2 DEF LineInv
  <2>4. ~Owes(r, s, earlier)
    BY <1>1, <1>2, <1>3, <2>2 DEF Owes, Relaying, RelayInv
  <2>5. QED
    BY <2>3, <2>4 DEF SetIsRelayed
<1>4. CASE \E u \in Nodes : Relaying(r, u, line)
  <2>1. PICK u \in Nodes : Relaying(r, u, line)
    BY <1>4
  <2>2. line \in set[r] /\ line.author # r
    BY <1>1, <2>1 DEF Relaying, RelayInv
  <2>3. earlier \in set[r]
    BY <1>1, <2>2 DEF Gapless
  <2>4. ASSUME main[r].at = "send", main[r].line = earlier PROVE FALSE
    <3>1. earlier = Plain(r, Len(past[r]))
      BY <1>1, <2>4, LineAtWork
    <3>2. QED
      BY <1>2, <2>2, <3>1 DEF Plain
  <2>5. ASSUME NEW t \in Nodes, Relaying(r, t, earlier) PROVE FALSE
    <3>1. t = u
      BY <1>1, <2>1, <2>5 DEF Relaying, RelayInv
    <3>2. QED
      BY <1>2, <2>1, <2>5, <3>1 DEF Relaying
  <2>6. ~Owes(r, s, earlier)
    BY <2>4, <2>5 DEF Owes
  <2>7. QED
    BY <2>3, <2>6 DEF SetIsRelayed
<1>5. QED
  BY <1>2, <1>3, <1>4

LEMMA ChannelInOrder ==
    ASSUME TypeOK, TypeOK', LinesIntact, StartInv, LineInv, RelayInv, SetIsRelayed, Gapless,
           Next, NEW r \in Nodes, NEW s \in Nodes, r # s,
           NEW i \in DOMAIN channel'[r][s], NEW earlier \in Before(channel'[r][s][i])
    PROVE  \/ earlier \in set'[s]
           \/ earlier = reader'[s][r].line
           \/ \E j \in 1..(i - 1) : channel'[r][s][j] = earlier
<1> DEFINE c == channel[r][s]
           d == channel'[r][s]
<1>1. /\ c \in Seq(Lines) /\ DOMAIN c = 1..Len(c) /\ Len(c) \in Nat
      /\ d \in Seq(Lines) /\ DOMAIN d = 1..Len(d) /\ Len(d) \in Nat
  <2>1. c \in Seq(Lines) /\ d \in Seq(Lines)
    BY DEF TypeOK
  <2>2. QED
    BY <2>1, LenProperties
<1>2. i \in Nat /\ i > 0 /\ d[i] \in Lines
  <2>1. i \in 1..Len(d)
    BY <1>1
  <2>2. QED
    BY <1>1, <2>1
<1>3. earlier \in Lines /\ earlier # NoLine /\ earlier.number # 0 /\ d[i].number # 0
  BY <1>2, EarlierLine
<1>4. ASSUME earlier \in set[s] \/ earlier = reader[s][r].line
      PROVE  earlier \in set'[s] \/ earlier = reader'[s][r].line
  <2>1. CASE earlier \in set[s]
    BY <2>1, Learns
  <2>2. CASE earlier = reader[s][r].line
    <3>1. earlier \in InHand(s, r)
      BY <1>3, <2>2 DEF InHand
    <3>2. earlier \in InHand(s, r)' \/ earlier \in set'[s]
      BY <3>1, Takes
    <3>3. QED
      BY <3>2 DEF InHand
  <2>3. QED
    BY <1>4, <2>1, <2>2
<1>5. ASSUME NEW k \in DOMAIN c, earlier \in Before(c[k])
      PROVE  \/ earlier \in set'[s] \/ earlier = reader'[s][r].line
             \/ \E j \in 1..(k - 1) : c[j] = earlier
  <2>1. \/ earlier \in set[s] \/ earlier = reader[s][r].line
        \/ \E j \in 1..(k - 1) : c[j] = earlier
    BY <1>5 DEF Gapless
  <2>2. QED
    BY <1>4, <2>1
<1>6. CASE DOMAIN d \subseteq DOMAIN c /\ \A k \in DOMAIN d : d[k] = c[k]
  <2>1. \/ earlier \in set'[s] \/ earlier = reader'[s][r].line
        \/ \E j \in 1..(i - 1) : c[j] = earlier
    BY <1>5, <1>6
  <2>2. ASSUME NEW j \in 1..(i - 1) PROVE d[j] = c[j]
    <3>1. j \in DOMAIN d
      BY <1>1
    <3>2. QED
      BY <1>6, <3>1
  <2>3. QED
    BY <2>1, <2>2
<1>7. CASE /\ c # <<>> /\ d = Tail(c)
           /\ \/ r # s /\ c[1].number = 0
              \/ reader'[s][r].line = c[1]
  <2>1. /\ DOMAIN d = 1..(Len(c) - 1) /\ Len(c) > 0
        /\ \A k \in 1..(Len(c) - 1) : d[k] = c[k + 1]
    BY <1>1, <1>7, TakenLine
  <2>2. i + 1 \in DOMAIN c /\ d[i] = c[i + 1]
    <3>1. i \in 1..(Len(c) - 1)
      BY <2>1
    <3>2. Len(c) \in Nat /\ DOMAIN c = 1..Len(c)
      BY <1>1
    <3>3. i + 1 \in 1..Len(c)
      BY <3>1, <3>2
    <3>4. QED
      BY <2>1, <3>1, <3>2, <3>3
  <2>3. \/ earlier \in set'[s] \/ earlier = reader'[s][r].line
        \/ \E j \in 1..((i + 1) - 1) : c[j] = earlier
    BY <1>5, <2>2
  <2>4. ASSUME NEW j \in 1..((i + 1) - 1), c[j] = earlier
        PROVE  earlier = reader'[s][r].line \/ \E k \in 1..(i - 1) : d[k] = earlier
    <3>1. CASE j = 1
      BY <1>3, <1>7, <2>4, <3>1
    <3>2. CASE j # 1
      <4>1. j - 1 \in 1..(i - 1) /\ j - 1 \in 1..(Len(c) - 1) /\ (j - 1) + 1 = j
        BY <1>1, <1>2, <2>1, <3>2
      <4>2. QED
        BY <2>1, <2>4, <4>1
    <3>3. QED
      BY <3>1, <3>2
  <2>5. QED
    BY <2>3, <2>4
<1>8. CASE /\ {r, s} \subseteq alive
           /\ \E line \in Lines :
                 /\ d = Append(c, line)
                 /\ \/ line.number = 0
                    \/ main[r].at = "send" /\ main[r].line = line
                    \/ \E u \in Nodes : Relaying(r, u, line)
  <2>1. PICK line \in Lines :
           /\ d = Append(c, line)
           /\ \/ line.number = 0
              \/ main[r].at = "send" /\ main[r].line = line
              \/ \E u \in Nodes : Relaying(r, u, line)
    BY <1>8
  <2>2. /\ DOMAIN d = 1..(Len(c) + 1)
        /\ \A k \in 1..Len(c) : d[k] = c[k]
        /\ d[Len(c) + 1] = line
    BY <1>1, <2>1, AppendedLine
  <2>3. CASE i = Len(c) + 1
    <3>1. Reached(r, s, earlier)
      BY <1>8, <2>1, <2>2, <2>3, EarlierReached
    <3>2. ASSUME earlier \in ToSet(c) PROVE \E j \in 1..(i - 1) : d[j] = earlier
      <4>1. PICK j \in 1..Len(c) : c[j] = earlier
        BY <1>1, <3>2 DEF ToSet
      <4>2. j \in 1..(i - 1) /\ d[j] = earlier
        BY <1>1, <2>2, <2>3, <4>1
      <4>3. QED
        BY <4>2
    <3>3. QED
      BY <1>4, <3>1, <3>2 DEF Reached
  <2>4. CASE i # Len(c) + 1
    <3>1. i \in DOMAIN c /\ d[i] = c[i]
      BY <1>1, <2>2, <2>4
    <3>2. \/ earlier \in set'[s] \/ earlier = reader'[s][r].line
          \/ \E j \in 1..(i - 1) : c[j] = earlier
      BY <1>5, <3>1
    <3>3. ASSUME NEW j \in 1..(i - 1) PROVE d[j] = c[j]
      BY <1>1, <2>2, <3>1
    <3>4. QED
      BY <3>2, <3>3
  <2>5. QED
    BY <2>3, <2>4
<1>9. QED
  BY <1>6, <1>7, <1>8, ChannelMoves

LEMMA GaplessStep ==
    ASSUME TypeOK, TypeOK', LinesIntact, StartInv, LineInv, RelayInv, SetIsRelayed, Gapless,
           Next
    PROVE  Gapless'
<1>1. ASSUME NEW r \in Nodes, NEW line \in set'[r] PROVE Before(line) \subseteq set'[r]
  <2>1. set[r] \subseteq set'[r]
    BY Learns
  <2>2. CASE line \in set[r] \/ \E s \in Nodes : line \in InHand(r, s)
    BY <2>1, <2>2 DEF Gapless
  <2>3. CASE main[r].at = "insert" /\ line = main[r].line
    <3>1. line = Plain(r, Len(past[r])) /\ Issued(r) = Len(past[r]) - 1
      BY <2>3, LineAtWork DEF Issued
    <3>2. line.author = r /\ line.number = Len(past[r])
      BY <3>1 DEF Plain
    <3>3. \A n \in 1..Issued(r) : Plain(r, n) \in set[r]
      BY DEF LineInv
    <3>4. QED
      BY <2>1, <3>1, <3>2, <3>3 DEF Before
  <2>4. QED
    BY <2>2, <2>3, Learns
<1>2. ASSUME NEW r \in Nodes, NEW s \in Nodes, NEW line \in InHand(r, s)'
      PROVE  Before(line) \subseteq set'[r]
  <2>1. set[r] \subseteq set'[r]
    BY Learns
  <2>2. CASE line \in InHand(r, s)
    BY <2>1, <2>2 DEF Gapless
  <2>3. CASE Read(r, s) /\ line = channel[s][r][1]
    <3>1. r # s /\ reader[r][s].at = "reading" /\ channel[s][r] # <<>>
      BY <2>3, ReadDoes DEF Taken
    <3>2. reader[r][s].line = NoLine
      BY <3>1 DEF TypeOK
    <3>3. channel[s][r] \in Seq(Lines)
      BY DEF TypeOK
    <3>4. 1 \in DOMAIN channel[s][r] /\ line \in Lines
      BY <2>3, <3>1, <3>3, TakenLine
    <3>5. ASSUME NEW earlier \in Before(line) PROVE earlier \in set[r]
      <4>1. earlier # NoLine
        BY <3>4, EarlierLine
      <4>2. \/ earlier \in set[r] \/ earlier = reader[r][s].line
            \/ \E j \in 1..(1 - 1) : channel[s][r][j] = earlier
        BY <2>3, <3>1, <3>4 DEF Gapless
      <4>3. QED
        BY <3>2, <4>1, <4>2
    <3>6. QED
      BY <2>1, <3>5
  <2>4. QED
    BY <2>2, <2>3, Takes
<1>3. QED
  BY <1>1, <1>2, ChannelInOrder DEF Gapless

------------------------------------------------------------------------------
(* What is printed                                                         *)

\* Steps that neither begin nor end a relay.
LEMMA PrintedFrame ==
    ASSUME PrintedInv, UNCHANGED <<set, printed>>,
           \A r, u \in Nodes :
              /\ reader'[r][u].at = "relay" <=> reader[r][u].at = "relay"
              /\ reader[r][u].at = "relay" => reader'[r][u].line = reader[r][u].line
    PROVE  PrintedInv'
<1>1. \A r, u \in Nodes : \A line : Relaying(r, u, line)' <=> Relaying(r, u, line)
  BY DEF Relaying
<1> SUFFICES ASSUME NEW p \in Nodes
             PROVE  /\ \A line \in set'[p] : line.author # p =>
                          line \in ToSet(printed'[p]) \/ \E q \in Nodes : Relaying(p, q, line)'
                    /\ \A i \in DOMAIN printed'[p] :
                          /\ printed'[p][i] \in set'[p]
                          /\ printed'[p][i].author # p
                          /\ \A q \in Nodes :
                                ~(reader'[p][q].at = "relay"
                                  /\ reader'[p][q].line = printed'[p][i])
                          /\ \A j \in DOMAIN printed'[p] :
                                printed'[p][i] = printed'[p][j] => i = j
  BY DEF PrintedInv, Relaying
<1>2. /\ set'[p] = set[p] /\ printed'[p] = printed[p]
      /\ \A line \in set[p] : line.author # p =>
            line \in ToSet(printed[p]) \/ \E q \in Nodes : Relaying(p, q, line)
  BY DEF PrintedInv
<1>3. \A i \in DOMAIN printed[p] :
         /\ printed[p][i] \in set[p]
         /\ printed[p][i].author # p
         /\ \A q \in Nodes : ~(reader[p][q].at = "relay" /\ reader[p][q].line = printed[p][i])
         /\ \A j \in DOMAIN printed[p] : printed[p][i] = printed[p][j] => i = j
  BY DEF PrintedInv, Relaying
<1>4. QED
  BY <1>1, <1>2, <1>3

LEMMA InsertKeepsPrinted ==
    ASSUME TypeOK, LinesIntact, LineInv, PrintedInv, NEW p \in Nodes, Insert(p)
    PROVE  PrintedInv'
<1>1. /\ Learned(p, main[p].line) /\ main[p].at = "insert"
      /\ UNCHANGED <<reader, printed>>
  BY InsertDoes
<1>2. main[p].line.author = p
  <2>1. main[p].line = Plain(p, Len(past[p]))
    BY <1>1, LineAtWork
  <2>2. QED
    BY <2>1 DEF Plain
<1>3. \A r \in Nodes : set[r] \subseteq set'[r]
                       /\ \A line \in set'[r] : line \in set[r] \/ line.author = r
  BY <1>1, <1>2 DEF Learned
<1>4. QED
  BY <1>1, <1>3 DEF PrintedInv, Relaying

\* A line that is relayed from now on was not known, and so not printed.
LEMMA NewKeepsPrinted ==
    ASSUME TypeOK, LinesIntact, PrintedInv, NEW p \in Nodes, NEW q \in Nodes, CheckNew(p, q)
    PROVE  PrintedInv'
<1>1. PICK g : /\ g.at = "relay" /\ g.line = reader[p][q].line
               /\ g.to = connections[p] /\ ReaderIs(p, q, g)
  BY CheckNewDoes
<1>2. /\ reader[p][q].at = "check" /\ reader[p][q].line \notin set[p]
      /\ Learned(p, reader[p][q].line) /\ printed' = printed
  BY CheckNewDoes
<1>3. PICK new : new = reader[p][q].line
  OBVIOUS
<1>4. \A r, u \in Nodes : \A line :
         Relaying(r, u, line)' <=> Relaying(r, u, line) \/ (r = p /\ u = q /\ line = new)
  BY <1>1, <1>2, <1>3 DEF Relaying, ReaderIs
<1>5. \A r \in Nodes : set'[r] = IF r = p THEN set[r] \cup {new} ELSE set[r]
  BY <1>2, <1>3 DEF Learned
<1>6. ASSUME NEW r \in Nodes, NEW line \in set'[r], line.author # r
      PROVE  line \in ToSet(printed'[r]) \/ \E u \in Nodes : Relaying(r, u, line)'
  <2>1. CASE line \in set[r]
    <3>1. line \in ToSet(printed[r]) \/ \E u \in Nodes : Relaying(r, u, line)
      BY <1>6, <2>1 DEF PrintedInv
    <3>2. QED
      BY <1>2, <1>4, <3>1
  <2>2. CASE line \notin set[r]
    <3>1. r = p /\ line = new
      BY <1>5, <1>6, <2>2
    <3>2. Relaying(r, q, line)'
      BY <1>4, <3>1
    <3>3. QED
      BY <3>2
  <2>3. QED
    BY <2>1, <2>2
<1>7. ASSUME NEW r \in Nodes, NEW i \in DOMAIN printed[r]
      PROVE  /\ printed[r][i] \in set'[r]
             /\ printed[r][i].author # r
             /\ \A u \in Nodes : ~(reader'[r][u].at = "relay"
                                   /\ reader'[r][u].line = printed[r][i])
             /\ \A j \in DOMAIN printed[r] : printed[r][i] = printed[r][j] => i = j
  <2>1. PICK line : line = printed[r][i]
    OBVIOUS
  <2>2. /\ line \in set[r] /\ line.author # r
        /\ \A u \in Nodes : ~Relaying(r, u, line)
        /\ \A j \in DOMAIN printed[r] : line = printed[r][j] => i = j
    BY <2>1 DEF PrintedInv, Relaying
  <2>3. \A u \in Nodes : ~Relaying(r, u, line)'
    BY <1>2, <1>3, <1>4, <2>2
  <2>4. QED
    BY <1>5, <2>1, <2>2, <2>3 DEF Relaying
<1>8. QED
  BY <1>2, <1>6, <1>7 DEF PrintedInv, Relaying

\* What a delivery adds to the lines that are printed.
LEMMA DeliverDoes ==
    ASSUME TypeOK, NEW p \in Nodes, NEW q \in Nodes, Deliver(p, q)
    PROVE  /\ p # q /\ reader[p][q].at = "relay" /\ reader[p][q].line \in Lines
           /\ printed' = [printed EXCEPT ![p] = Append(@, reader[p][q].line)]
           /\ \A r, u \in Nodes :
                 reader'[r][u].at = "relay" <=> reader[r][u].at = "relay" /\ ~(r = p /\ u = q)
           /\ \A r, u \in Nodes :
                 reader'[r][u].at = "relay" => reader'[r][u].line = reader[r][u].line
           /\ UNCHANGED <<set, past>>
<1>1. PICK g : g.at \in {"reading", "left"} /\ ReaderIs(p, q, g)
  BY RestDoes
<1>2. p # q /\ reader[p][q].at = "relay"
  BY DEF Deliver, At
<1>3. reader[p][q].line \in Lines
  BY <1>2 DEF TypeOK, Goroutines
<1>4. QED
  BY <1>1, <1>2, <1>3 DEF ReaderIs, Deliver

\* A line that is printed was relayed, and was the only one.
LEMMA DeliverKeepsPrinted ==
    ASSUME TypeOK, RelayInv, PrintedInv, NEW p \in Nodes, NEW q \in Nodes, Deliver(p, q)
    PROVE  PrintedInv'
<1>1. PICK new \in Lines : new = reader[p][q].line
  BY DeliverDoes
<1>2. Relaying(p, q, new) /\ new \in set[p] /\ new.author # p /\ set' = set
  BY <1>1, DeliverDoes DEF Relaying, RelayInv
<1>3. \A r, u \in Nodes : \A line :
         Relaying(r, u, line)' <=> Relaying(r, u, line) /\ ~(r = p /\ u = q)
  BY DeliverDoes DEF Relaying
<1>4. ASSUME NEW u \in Nodes PROVE reader'[p][u].at # "relay"
  <2>1. reader[p][u].at = "relay" => u = q
    BY <1>2 DEF RelayInv, Relaying
  <2>2. QED
    BY <2>1, DeliverDoes
<1> DEFINE c == printed[p]
<1>5. /\ \A r \in Nodes : r # p => printed'[r] = printed[r]
      /\ printed'[p] = Append(c, new)
  <2>1. printed' = [printed EXCEPT ![p] = Append(@, new)]
    BY <1>1, DeliverDoes
  <2>2. QED
    BY <2>1 DEF TypeOK
<1>6. /\ DOMAIN c = 1..Len(c) /\ Len(c) \in Nat
      /\ DOMAIN Append(c, new) = 1..(Len(c) + 1)
      /\ \A i \in 1..Len(c) : Append(c, new)[i] = c[i]
      /\ Append(c, new)[Len(c) + 1] = new
      /\ ToSet(Append(c, new)) = ToSet(c) \cup {new}
  <2>1. c \in Seq(Lines)
    BY DEF TypeOK
  <2>2. QED
    BY <2>1, AppendedLine
<1>7. ASSUME NEW r \in Nodes, NEW line \in set'[r], line.author # r
      PROVE  line \in ToSet(printed'[r]) \/ \E u \in Nodes : Relaying(r, u, line)'
  <2>1. line \in ToSet(printed[r]) \/ \E u \in Nodes : Relaying(r, u, line)
    BY <1>2, <1>7 DEF PrintedInv
  <2>2. CASE r # p
    BY <1>3, <1>5, <2>1, <2>2
  <2>3. CASE r = p
    <3>1. ASSUME NEW u \in Nodes, Relaying(p, u, line) PROVE line = new
      BY <1>2, <3>1 DEF RelayInv, Relaying
    <3>2. QED
      BY <1>5, <1>6, <2>1, <2>3, <3>1
  <2>4. QED
    BY <2>2, <2>3
<1>8. \A i \in 1..Len(c) : c[i] # new
  BY <1>2, <1>6 DEF PrintedInv
<1>9. ASSUME NEW r \in Nodes, NEW i \in DOMAIN printed'[r]
      PROVE  /\ printed'[r][i] \in set'[r]
             /\ printed'[r][i].author # r
             /\ \A u \in Nodes : ~(reader'[r][u].at = "relay"
                                   /\ reader'[r][u].line = printed'[r][i])
             /\ \A j \in DOMAIN printed'[r] : printed'[r][i] = printed'[r][j] => i = j
  <2>1. CASE r # p
    <3>1. PICK line : line = printed[r][i]
      OBVIOUS
    <3>2. /\ line \in set[r] /\ line.author # r
          /\ \A u \in Nodes : ~Relaying(r, u, line)
          /\ \A j \in DOMAIN printed[r] : line = printed[r][j] => i = j
      BY <1>5, <1>9, <2>1, <3>1 DEF PrintedInv, Relaying
    <3>3. \A u \in Nodes : ~Relaying(r, u, line)'
      BY <1>3, <3>2
    <3>4. QED
      BY <1>2, <1>5, <2>1, <3>1, <3>2, <3>3 DEF Relaying
  <2>2. CASE r = p
    <3>1. \A u \in Nodes : reader'[p][u].at # "relay"
      BY <1>4
    <3>2. \A k \in 1..Len(c) : c[k] \in set[p] /\ c[k].author # p
      BY <1>6 DEF PrintedInv
    <3>3. \A k, j \in 1..Len(c) : c[k] = c[j] => k = j
      BY <1>6 DEF PrintedInv
    <3>4. \A k \in 1..(Len(c) + 1) : k \in 1..Len(c) \/ k = Len(c) + 1
      BY <1>6
    <3>5. i \in 1..(Len(c) + 1) /\ DOMAIN printed'[r] = 1..(Len(c) + 1)
      BY <1>5, <1>6, <1>9, <2>2
    <3>6. /\ Append(c, new)[i] \in set[p] /\ Append(c, new)[i].author # p
          /\ \A j \in 1..(Len(c) + 1) : Append(c, new)[i] = Append(c, new)[j] => i = j
      BY <1>2, <1>6, <1>8, <3>2, <3>3, <3>4, <3>5
    <3>7. QED
      BY <1>2, <1>5, <2>2, <3>1, <3>5, <3>6
  <2>3. QED
    BY <2>1, <2>2
<1>10. QED
  BY <1>7, <1>9 DEF PrintedInv, Relaying

LEMMA PrintedInvStep ==
    ASSUME TypeOK, LinesIntact, StartInv, LineInv, RelayInv, PrintedInv, Next
    PROVE  PrintedInv'
<1>1. ASSUME NEW p \in Nodes, Start(p) \/ Dial(p) \/ Type(p) \/ Send(p) \/ Stop(p)
      PROVE  PrintedInv'
  <2>1. UNCHANGED <<set, printed, reader>>
    BY <1>1 DEF Start, Dial, Type, Send, Stop
  <2>2. QED
    BY <2>1, PrintedFrame
<1>2. ASSUME NEW p \in Nodes, SpawnReaders(p) PROVE PrintedInv'
  <2>1. main[p].at = "collect" /\ UNCHANGED <<set, printed>>
    BY <1>2, SpawnDoes
  <2>2. \A r, u \in Nodes : IF r = p THEN reader'[r][u].at = "reading"
                            ELSE reader'[r][u] = reader[r][u]
    BY <1>2, SpawnDoes
  <2>3. \A u \in Nodes : reader[p][u].at \in {"listening", "named"}
    BY <2>1 DEF StartInv, Started
  <2>4. QED
    BY <2>1, <2>2, <2>3, PrintedFrame
<1>3. ASSUME NEW p \in Nodes, NEW q \in Nodes,
             HearName(p, q) \/ Read(p, q) \/ Lock(p, q) \/ CheckKnown(p, q) \/ Leave(p, q)
      PROVE  PrintedInv'
  <2>1. PICK g : g.at # "relay" /\ ReaderIs(p, q, g)
    BY <1>3, HearDoes, ReadDoes, LockDoes, RestDoes
  <2>2. reader[p][q].at # "relay" /\ UNCHANGED <<set, printed>>
    BY <1>3 DEF HearName, Read, Lock, CheckKnown, Leave, At
  <2>3. QED
    BY <2>1, <2>2, PrintedFrame DEF ReaderIs
<1>4. ASSUME NEW p \in Nodes, NEW q \in Nodes, Relay(p, q) PROVE PrintedInv'
  <2>1. reader[p][q].line.verb = FALSE
    BY <1>4, LineAtWork DEF Relay, At
  <2>2. PICK g : /\ g.at = "relay" /\ g.line = reader[p][q].line
                 /\ g.to = Tail(reader[p][q].to) /\ ReaderIs(p, q, g)
    BY <1>4, <2>1, RelayDoes
  <2>3. reader[p][q].at = "relay" /\ UNCHANGED <<set, printed>>
    BY <1>4 DEF Relay, At
  <2>4. QED
    BY <2>2, <2>3, PrintedFrame DEF ReaderIs
<1>5. QED
  BY <1>1, <1>2, <1>3, <1>4, InsertKeepsPrinted, NewKeepsPrinted, DeliverKeepsPrinted
  DEF Next, StartStep, MainStep, ReaderStep, Crash, RaceFault

------------------------------------------------------------------------------
(* What the users are promised                                             *)

LEMMA InitInv == Init => Inv
<1> SUFFICES ASSUME Init PROVE Inv
  OBVIOUS
<1>1. /\ \A p \in Nodes : set[p] = {} /\ printed[p] = <<>>
      /\ \A p, q \in Nodes : channel[p][q] = <<>> /\ InHand(p, q) = {}
                             /\ reader[p][q].at \in {"reading", "listening"}
      /\ alive = Nodes
  BY DEF Init, InHand, Doing
<1>2. RelayInv
  BY <1>1 DEF RelayInv
<1>3. SetIsRelayed
  BY <1>1 DEF SetIsRelayed
<1>4. Gapless
  BY <1>1 DEF Gapless
<1>5. PrintedInv
  BY <1>1 DEF PrintedInv
<1>6. QED
  BY <1>2, <1>3, <1>4, <1>5, StartInvInit, LineInvInit DEF Inv

LEMMA StepInv ==
    ASSUME TypeOK, TypeOK', LinesIntact, Inv, [Next]_vars
    PROVE  Inv'
<1>1. CASE Next
  BY <1>1, StartInvStep, LineInvStep, RelayInvStep, SetIsRelayedStep, GaplessStep,
     PrintedInvStep DEF Inv
<1>2. CASE UNCHANGED vars
  BY <1>2 DEF vars, Inv, StartInv, Started, LineInv, Genuine, Issued, InHand, RelayInv,
              SetIsRelayed, Reached, Owes, Relaying, Gapless, PrintedInv
<1>3. QED
  BY <1>1, <1>2

\* When lines are intact, the invariant holds always.
THEOREM InvCorrect == ASSUME LinesIntact PROVE Spec => []Inv
<1>1. Init => TypeOK /\ Inv
  BY InitTyped, InitInv
<1>2. TypeOK /\ Inv /\ [Next]_vars => (TypeOK /\ Inv)'
  BY StepTyped, StepInv
<1>3. QED
  BY <1>1, <1>2, PTL DEF Spec

\* Agreement: what a running node has printed, every other running node knows, or is
\* reading, or has on its way from this one, when lines are intact.
THEOREM PrintedRelayed == ASSUME LinesIntact PROVE Spec => []PrintedIsRelayed
<1>1. TypeOK /\ Inv => PrintedIsRelayed
  <2> SUFFICES ASSUME TypeOK, Inv, NEW p \in alive, NEW q \in alive, p # q,
                      NEW i \in DOMAIN printed[p]
               PROVE  Reached(p, q, printed[p][i])
    BY DEF PrintedIsRelayed, Reached
  <2>1. p \in Nodes /\ q \in Nodes
    BY DEF TypeOK
  <2> DEFINE line == printed[p][i]
  <2>2. line \in set[p] /\ line.author # p /\ \A r \in Nodes : ~Relaying(p, r, line)
    BY <2>1 DEF Inv, PrintedInv
  <2>3. main[p].at = "send" => main[p].line # line
    <3>1. main[p].at = "send" => main[p].line = Plain(p, Len(past[p]))
      BY <2>1, LineAtWork DEF Inv
    <3>2. QED
      BY <2>2, <3>1 DEF Plain
  <2>4. ~Owes(p, q, line)
    BY <2>2, <2>3 DEF Owes
  <2>5. QED
    BY <2>2, <2>4 DEF Inv, SetIsRelayed
<1>2. QED
  BY <1>1, InvCorrect, TypeCorrect, PTL

\* What a user is shown, as a sequence of messages.
LEMMA ShownIs ==
    ASSUME NEW order \in Seq(Lines)
    PROVE  /\ [i \in DOMAIN order |-> Message(order[i])] \in Seq(Nodes \X Nat)
           /\ Len([i \in DOMAIN order |-> Message(order[i])]) = Len(order)
<1> DEFINE messages == [i \in DOMAIN order |-> Message(order[i])]
<1>1. DOMAIN order = 1..Len(order) /\ Len(order) \in Nat
  BY LenProperties
<1>2. ASSUME NEW i \in 1..Len(order) PROVE Message(order[i]) \in Nodes \X Nat
  <2>1. order[i] \in Lines
    BY <1>1
  <2>2. order[i].author \in Nodes /\ order[i].number \in Nat
    BY <2>1, ChatAssumption DEF Lines
  <2>3. QED
    BY <2>2 DEF Message
<1>3. messages \in [1..Len(order) -> Nodes \X Nat]
  BY <1>1, <1>2
<1>4. messages \in Seq(Nodes \X Nat)
  BY <1>1, <1>3, SeqDef
<1>5. Len(messages) = Len(order)
  BY <1>1, <1>4, LenProperties
<1>6. QED
  BY <1>4, <1>5

\* The user is shown one more message when one more line is printed.
LEMMA ShownAppends ==
    ASSUME NEW order \in Seq(Lines), NEW line \in Lines
    PROVE  [i \in DOMAIN Append(order, line) |-> Message(Append(order, line)[i])]
              = Append([i \in DOMAIN order |-> Message(order[i])], Message(line))
<1> DEFINE longer == Append(order, line)
           before == [i \in DOMAIN order |-> Message(order[i])]
           after == [i \in DOMAIN longer |-> Message(longer[i])]
<1>1. /\ longer \in Seq(Lines) /\ Len(order) \in Nat /\ Len(longer) = Len(order) + 1
      /\ DOMAIN order = 1..Len(order) /\ DOMAIN longer = 1..(Len(order) + 1)
      /\ \A i \in 1..Len(order) : longer[i] = order[i]
      /\ longer[Len(order) + 1] = line
  BY AppendProperties, LenProperties
<1>2. /\ before \in Seq(Nodes \X Nat) /\ Len(before) = Len(order)
      /\ after \in Seq(Nodes \X Nat) /\ Len(after) = Len(order) + 1
  BY <1>1, ShownIs
<1>3. Message(line) \in Nodes \X Nat
  <2>1. line.author \in Nodes /\ line.number \in Nat
    BY ChatAssumption DEF Lines
  <2>2. QED
    BY <2>1 DEF Message
<1>4. /\ Append(before, Message(line)) \in Seq(Nodes \X Nat)
      /\ Len(Append(before, Message(line))) = Len(order) + 1
      /\ \A i \in 1..Len(order) : Append(before, Message(line))[i] = before[i]
      /\ Append(before, Message(line))[Len(order) + 1] = Message(line)
  <2> HIDE DEF before
  <2>1. QED
    BY <1>2, <1>3, AppendProperties
<1>5. ASSUME NEW i \in 1..(Len(order) + 1)
      PROVE  after[i] = Append(before, Message(line))[i]
  <2>1. CASE i \in 1..Len(order)
    BY <1>1, <1>4, <2>1
  <2>2. CASE i = Len(order) + 1
    BY <1>1, <1>4, <2>2
  <2>3. QED
    BY <1>1, <2>1, <2>2
<1>6. QED
  <2> HIDE DEF before, after
  <2>1. after = Append(before, Message(line))
    BY <1>2, <1>4, <1>5, SeqEqual
  <2>2. QED
    BY <2>1 DEF after, before, longer

LEMMA FifoInit == TypeOK /\ Init => Fifo!Init
<1> SUFFICES ASSUME TypeOK, Init, NEW p \in Nodes
             PROVE  Len(past[p]) = 0 /\ Shown(p) = <<>>
  BY DEF Fifo!Init
<1>1. printed[p] = <<>> /\ past[p] = <<>>
  BY DEF Init
<1>2. printed[p] \in Seq(Lines)
  BY DEF TypeOK
<1>3. Shown(p) \in Seq(Nodes \X Nat) /\ Len(Shown(p)) = 0
  BY <1>1, <1>2, ShownIs DEF Shown
<1>4. Shown(p) = <<>>
  BY <1>3, EmptySeq
<1>5. QED
  BY <1>1, <1>4

\* Of the messages of the author of a line that is relayed, the user has been shown
\* those before it.
LEMMA NextOfAuthor ==
    ASSUME TypeOK, Inv, NEW p \in Nodes, NEW q \in Nodes, NEW line \in Lines,
           Relaying(p, q, line)
    PROVE  /\ line.author \in Nodes /\ line.author # p
           /\ line.number \in 1..Len(past[line.author])
           /\ {n \in 1..Len(past[line.author]) :
                  \E i \in DOMAIN printed[p] : printed[p][i].author = line.author
                                               /\ printed[p][i].number = n}
                 = 1..(line.number - 1)
<1> DEFINE a == line.author
           shownOf == {n \in 1..Len(past[a]) :
                          \E i \in DOMAIN printed[p] : printed[p][i].author = a
                                                       /\ printed[p][i].number = n}
<1>1. /\ line \in set[p] /\ a # p
      /\ \A known \in set[p] : known.author = a => known.number <= line.number
      /\ \A t \in Nodes : reader[p][t].at = "relay" => t = q
  BY DEF Inv, RelayInv, Relaying
<1>2. a \in Nodes /\ line.number \in Nat /\ Genuine(line)
  BY <1>1, KnownLine DEF Inv
<1>3. line.number \in 1..Len(past[a]) /\ Len(past[a]) \in Nat
  <2>1. Len(past[a]) \in Nat
    BY <1>2 DEF TypeOK
  <2>2. Issued(a) \in Nat /\ Issued(a) <= Len(past[a])
    BY <1>2, <2>1, IssuedIsNat DEF Issued, Inv
  <2>3. QED
    BY <1>2, <2>1, <2>2 DEF Genuine
<1>4. ASSUME NEW n \in 1..(line.number - 1) PROVE n \in shownOf
  <2>1. n \in 1..Len(past[a]) /\ n # line.number
    BY <1>3
  <2>2. Plain(a, n) \in set[p]
    BY <1>1 DEF Inv, Gapless, Before
  <2>3. Plain(a, n).author = a /\ Plain(a, n).number = n
    BY DEF Plain
  <2>4. ASSUME NEW t \in Nodes, Relaying(p, t, Plain(a, n)) PROVE FALSE
    BY <1>1, <2>1, <2>3, <2>4 DEF Relaying
  <2>5. Plain(a, n) \in ToSet(printed[p])
    BY <1>1, <2>2, <2>3, <2>4 DEF Inv, PrintedInv
  <2>6. PICK i \in DOMAIN printed[p] : printed[p][i] = Plain(a, n)
    BY <2>5 DEF ToSet
  <2>7. QED
    BY <2>1, <2>3, <2>6
<1>5. ASSUME NEW n \in shownOf PROVE n \in 1..(line.number - 1)
  <2>1. PICK i \in DOMAIN printed[p] : printed[p][i].author = a /\ printed[p][i].number = n
    OBVIOUS
  <2>2. printed[p][i] \in set[p] /\ printed[p][i] # line
    BY DEF Inv, PrintedInv
  <2>3. n <= line.number
    BY <1>1, <2>1, <2>2
  <2>4. printed[p][i] = Plain(a, n) /\ line = Plain(a, line.number)
    <3>1. Genuine(printed[p][i])
      BY <2>2, KnownLine DEF Inv
    <3>2. QED
      BY <1>2, <2>1, <3>1 DEF Genuine
  <2>5. n # line.number
    BY <2>2, <2>4
  <2>6. n \in Nat /\ n >= 1
    BY <1>3
  <2>7. QED
    BY <1>2, <2>3, <2>5, <2>6
<1>6. QED
  BY <1>1, <1>2, <1>3, <1>4, <1>5

\* Nobody types and nobody is shown anything in the other steps of a node.
LEMMA Silent ==
    ASSUME NEW p \in Nodes,
           \/ Start(p) \/ StartStep(p) \/ Crash(p) \/ RaceFault(p) \/ MainStep(p)
           \/ \E q \in Nodes : ReaderStep(p, q) /\ ~Deliver(p, q)
    PROVE  UNCHANGED <<past, printed>>
<1>1. CASE Start(p) \/ StartStep(p)
  BY <1>1 DEF Start, StartStep, Dial, SpawnReaders, HearName
<1>2. CASE Crash(p) \/ RaceFault(p)
  BY <1>2 DEF Stop, Crash, RaceFault
<1>3. CASE MainStep(p)
  BY <1>3 DEF MainStep, Insert, Send
<1>4. CASE \E q \in Nodes : ReaderStep(p, q) /\ ~Deliver(p, q)
  BY <1>4 DEF ReaderStep, Read, Lock, CheckKnown, CheckNew, Relay, Leave
<1> QED BY <1>1, <1>2, <1>3, <1>4

LEMMA FifoStep ==
    ASSUME TypeOK, LinesIntact, Inv, [Next]_vars
    PROVE  [Fifo!Next]_(Fifo!vars)
<1>1. ASSUME NEW p \in Nodes, Type(p) PROVE Fifo!Say(p)
  <2>1. \A r \in Nodes : Len(past'[r]) = IF r = p THEN Len(past[r]) + 1 ELSE Len(past[r])
    BY <1>1, TypeDoes
  <2>2. printed' = printed
    BY <1>1 DEF Type
  <2>3. [r \in Nodes |-> Len(past'[r])]
           = [[r \in Nodes |-> Len(past[r])] EXCEPT ![p] = @ + 1]
    BY <2>1
  <2>4. [r \in Nodes |-> Shown(r)'] = [r \in Nodes |-> Shown(r)]
    BY <2>2 DEF Shown
  <2>5. QED
    BY <2>3, <2>4 DEF Fifo!Say
<1>2. ASSUME NEW p \in Nodes, NEW q \in Nodes, Deliver(p, q)
      PROVE  \E author \in Nodes : Fifo!Show(p, author)
  <2>1. PICK line \in Lines : line = reader[p][q].line /\ Relaying(p, q, line)
    BY <1>2, DeliverDoes DEF Relaying
  <2>2. /\ line.author \in Nodes /\ line.author # p
        /\ line.number \in 1..Len(past[line.author])
        /\ {n \in 1..Len(past[line.author]) :
               \E i \in DOMAIN printed[p] : printed[p][i].author = line.author
                                            /\ printed[p][i].number = n}
              = 1..(line.number - 1)
    BY <2>1, NextOfAuthor
  <2>3. \A n : <<line.author, n>> \in Fifo!ShownTo(p) <=>
                  \E i \in DOMAIN printed[p] : printed[p][i].author = line.author
                                               /\ printed[p][i].number = n
    BY DEF Fifo!ShownTo, Shown, Message
  <2>4. {n \in 1..Len(past[line.author]) : <<line.author, n>> \in Fifo!ShownTo(p)}
           = 1..(line.number - 1)
    BY <2>2, <2>3
  <2>5. printed' = [printed EXCEPT ![p] = Append(@, line)] /\ past' = past
    BY <1>2, <2>1, DeliverDoes
  <2>6. \A r \in Nodes : Shown(r)' = IF r = p THEN Append(Shown(p), <<line.author, line.number>>)
                                     ELSE Shown(r)
    <3>1. printed \in [Nodes -> Seq(Lines)]
      BY DEF TypeOK
    <3>2. /\ printed'[p] = Append(printed[p], line)
          /\ \A r \in Nodes : r # p => printed'[r] = printed[r]
      BY <2>5, <3>1
    <3>3. Shown(p)' = Append(Shown(p), Message(line))
      BY <3>1, <3>2, ShownAppends DEF Shown
    <3>4. QED
      BY <3>2, <3>3 DEF Shown, Message
  <2>7. [r \in Nodes |-> Shown(r)']
           = [[r \in Nodes |-> Shown(r)] EXCEPT ![p] =
                 Append(@, <<line.author, line.number>>)]
    BY <2>6
  <2>8. Fifo!Show(p, line.author)
    BY <2>2, <2>4, <2>5, <2>7 DEF Fifo!Show
  <2>9. QED
    BY <2>2, <2>8
<1>3. CASE UNCHANGED <<past, printed>>
  BY <1>3 DEF Fifo!vars, Shown
<1>4. \/ \E p \in Nodes : Type(p)
      \/ \E p, q \in Nodes : Deliver(p, q)
      \/ UNCHANGED <<past, printed>>
  <2>1. UNCHANGED vars => UNCHANGED <<past, printed>>
    BY DEF vars
  <2> QED BY <2>1, Silent DEF Next
<1>5. QED
  BY <1>1, <1>2, <1>3, <1>4 DEF Fifo!Next

\* Each user sees the messages of another in the order they were typed, from the
\* first one on, each once, when lines are intact: the chat implements FifoBroadcast.
THEOREM FifoOrder == ASSUME LinesIntact PROVE Spec => ImplementsFifoBroadcast
<1>1. Init => Fifo!Init
  BY InitTyped, FifoInit
<1>2. TypeOK /\ Inv /\ [Next]_vars => [Fifo!Next]_(Fifo!vars)
  BY FifoStep
<1>3. QED
  BY <1>1, <1>2, InvCorrect, TypeCorrect, PTL DEF Spec, ImplementsFifoBroadcast, Fifo!Spec
==============================================================================
