---------------------------- MODULE GroupChatProofs ----------------------------
(***************************************************************************)
(* For any number of nodes and messages, from scratch or connected,        *)
(* whatever nodes stop: the chat has the types it should, and, when lines  *)
(* are intact, what goes round are the messages that were typed, after the *)
(* names.  GroupChatOrderProofs goes on from there.                        *)
(***************************************************************************)
EXTENDS GroupChat, SequenceTheorems, FiniteSetTheorems, TLAPS

\* What the promises of the chat rest on: no read of a socket takes two lines,
\* no text has a formatting verb, and no race loses an insertion in set.
LinesIntact == MaxChunk = 1 /\ Verbs \subseteq {FALSE} /\ "loses" \notin Races

\* Message n of a, as it was typed.
Plain(a, n) == [author |-> a, number |-> n, verb |-> FALSE, form |-> 0]

\* How many messages of p have left its user's hands and are in set[p].
Issued(p) == IF main[p].at = "insert" THEN Len(past[p]) - 1 ELSE Len(past[p])

Genuine(line) ==
    line.number \in 1..Issued(line.author) /\ line = Plain(line.author, line.number)

\* The line that the goroutine of p for q has, if any.
InHand(p, q) == {reader[p][q].line} \ {NoLine}

Started(p) == main[p].at \in {"input", "insert", "send"}

\* Before the readers of a node are spawned, it and its peers have exchanged names
\* only; the first line on a connection is the name, and is read as the name.
StartInv ==
    \A p, q \in Nodes :
        /\ main[p].at \notin {"off", "dial"} => Nodes \ {p} \subseteq ToSet(connections[p])
        /\ reader[p][q].at \in {"listening", "named"} <=> ~Started(p)
        /\ p # q =>
              /\ p \notin ToSet(connections[q]) =>
                    channel[q][p] = <<>> /\ reader[p][q].at = "listening"
              /\ /\ {p, q} \subseteq alive
                 /\ reader[p][q].at = "listening"
                 /\ p \in ToSet(connections[q])
                 => channel[q][p] # <<>>
              /\ \A i \in DOMAIN channel[q][p] :
                    channel[q][p][i].number = 0 <=> i = 1 /\ reader[p][q].at = "listening"

\* Every line was typed, and its author knows it.
LineInv ==
    /\ \A p \in Nodes :
          /\ \A line \in set[p] : Genuine(line)
          /\ \A n \in 1..Issued(p) : Plain(p, n) \in set[p]
          /\ main[p].at \in {"insert", "send"} =>
                Len(past[p]) > 0 /\ main[p].line = Plain(p, Len(past[p]))
          /\ main[p].at = "insert" => Nodes \ {p} \subseteq ToSet(main[p].to)
    /\ \A p, q \in Nodes :
          /\ \A line \in InHand(p, q) : Genuine(line)
          /\ p # q => \A line \in ToSet(channel[p][q]) :
                line.number # 0 => Genuine(line)

------------------------------------------------------------------------------
(* Type correctness                                                        *)

LEMMA LineTypes ==
    /\ NoLine \notin Lines
    /\ \A p \in Nodes : Name(p) \in Lines
    /\ \A line \in Lines : Formatted(line) \in Lines
    /\ Capacity \in Nat
<1>1. NoLine \notin Lines
  BY DEF NoLine, Lines
<1>2. ASSUME NEW p \in Nodes PROVE Name(p) \in Lines
  BY ChatAssumption DEF Name, Lines
<1>3. ASSUME NEW line \in Lines PROVE Formatted(line) \in Lines
  BY ChatAssumption DEF Formatted, Lines
<1>4. QED
  BY <1>1, <1>2, <1>3, ChatAssumption

\* Dialling in some order lists every peer once.
LEMMA OrderOfPeers ==
    ASSUME NEW p \in Nodes, NEW order \in SetToSeqs(Nodes \ {p})
    PROVE  order \in Seq(Nodes) /\ ToSet(order) = Nodes \ {p}
<1> DEFINE S == Nodes \ {p}
           D == 1..Cardinality(S)
<1>1. IsFiniteSet(S) /\ Cardinality(S) \in Nat
  BY ChatAssumption, FS_RemoveElement, FS_CardinalityType, FS_Subset
<1>2. order \in [D -> S] /\ \A i, j \in D : i # j => order[i] # order[j]
  BY DEF SetToSeqs
<1>3. order \in Injection(D, S)
  BY <1>2 DEF Injection, IsInjective
<1>4. Cardinality(D) = Cardinality(S)
  BY <1>1, FS_Interval
<1>5. order \in Surjection(D, S)
  BY <1>1, <1>3, <1>4, FS_Injection
<1>6. ToSet(order) = S
  <2>1. DOMAIN order = D /\ \A i \in D : order[i] \in S
    BY <1>2
  <2>2. \A q \in S : \E i \in D : order[i] = q
    BY <1>5 DEF Surjection
  <2>3. QED
    BY <2>1, <2>2 DEF ToSet
<1>7. order \in Seq(Nodes)
  <2>1. order \in [D -> Nodes]
    BY <1>2
  <2>2. [D -> Nodes] \subseteq Seq(Nodes)
    BY <1>1, SeqDef
  <2>3. QED
    BY <2>1, <2>2
<1>8. QED
  BY <1>6, <1>7

\* A goroutine that moves, and what it still has to write.
LEMMA GoroutineTypes ==
    ASSUME NEW places
    PROVE  /\ \A place \in places, line \in Lines \cup {NoLine}, to \in Seq(Nodes) :
                 Doing(place, line, to) \in Goroutines(places)
           /\ \A g \in Goroutines(places) :
                 /\ g.at \in places /\ g.line \in Lines \cup {NoLine} /\ g.to \in Seq(Nodes)
                 /\ \A place \in places : [g EXCEPT !.at = place] \in Goroutines(places)
                 /\ \A to \in Seq(Nodes) : [g EXCEPT !.to = to] \in Goroutines(places)
BY DEF Doing, Goroutines

LEMMA InitTyped == Init => TypeOK
<1> SUFFICES ASSUME Init PROVE TypeOK
  OBVIOUS
<1>1. <<>> \in Seq(Lines) /\ <<>> \in Seq(Nodes)
      /\ <<>> \in Seq(SUBSET (Nodes \X (0..MaxMessages)))
      /\ Len(<<>>) = 0
  OBVIOUS
<1>2. connections \in [Nodes -> Seq(Nodes)]
  <2>1. ASSUME NEW p \in Nodes PROVE connections[p] \in Seq(Nodes)
    <3>1. CASE Connected
      BY <3>1, OrderOfPeers DEF Init
    <3>2. CASE ~Connected
      BY <3>2, <1>1 DEF Init
    <3>3. QED
      BY <3>1, <3>2
  <2>2. QED
    BY <2>1 DEF Init
<1>3. MaxMessages \in Nat
  BY ChatAssumption
<1>4. QED
  BY <1>1, <1>2, <1>3 DEF Init, TypeOK, Doing, Goroutines, MainPlaces, ReaderPlaces

\* What a write leaves on the connections.
LEMMA WriteTyped ==
    ASSUME TypeOK, NEW p \in Nodes, NEW q, NEW line \in Lines, Write(p, q, line)
    PROVE  channel' \in [Nodes -> [Nodes -> Seq(Lines)]]
<1>1. CASE q \in alive
  <2>1. q \in Nodes /\ Formatted(line) \in Lines
    BY <1>1, LineTypes DEF TypeOK
  <2>2. Append(channel[p][q], Formatted(line)) \in Seq(Lines)
    BY <2>1 DEF TypeOK
  <2>3. QED
    BY <1>1, <2>1, <2>2 DEF Write, TypeOK
<1>2. CASE q \notin alive
  BY <1>2 DEF Write, TypeOK
<1>3. QED
  BY <1>1, <1>2

\* What a read leaves on a connection.
LEMMA ReadTyped ==
    ASSUME TypeOK, NEW p \in Nodes, NEW q \in Nodes, NEW n \in 1..Len(channel[q][p])
    PROVE  /\ SubSeq(channel[q][p], n + 1, Len(channel[q][p])) \in Seq(Lines)
           /\ Head(channel[q][p]) \in Lines
           /\ Head(channel[q][p]) = channel[q][p][1]
<1> DEFINE c == channel[q][p]
<1>1. c \in Seq(Lines) /\ Len(c) \in Nat /\ c # <<>>
  BY DEF TypeOK
<1>2. \A i \in (n + 1)..Len(c) : c[i] \in Lines
  BY <1>1, ElementOfSeq
<1>3. SubSeq(c, n + 1, Len(c)) \in Seq(Lines)
  BY <1>1, <1>2, SubSeqProperties
<1>4. Head(c) \in Lines /\ Head(c) = c[1]
  BY <1>1, HeadTailProperties
<1>5. QED
  BY <1>3, <1>4

\* The goroutine of one node, and the reader of one connection, at another place.
LEMMA MainMoves ==
    ASSUME TypeOK, NEW p \in Nodes, NEW g \in Goroutines(MainPlaces),
           g.line = NoLine <=> g.at \notin {"insert", "send"},
           main' = [main EXCEPT ![p] = g]
    PROVE  /\ main' \in [Nodes -> Goroutines(MainPlaces)]
           /\ \A q \in Nodes : main'[q].line = NoLine <=> main'[q].at \notin {"insert", "send"}
BY DEF TypeOK

LEMMA ReaderMoves ==
    ASSUME TypeOK, NEW p \in Nodes, NEW q \in Nodes, NEW g \in Goroutines(ReaderPlaces),
           g.line # NoLine <=> g.at \in {"lock", "check", "relay"},
           g.to # <<>> => g.at = "relay",
           reader' = [reader EXCEPT ![p][q] = g]
    PROVE  /\ reader' \in [Nodes -> [Nodes -> Goroutines(ReaderPlaces)]]
           /\ \A r, s \in Nodes :
                 /\ reader'[r][s].line # NoLine <=> reader'[r][s].at \in {"lock", "check", "relay"}
                 /\ reader'[r][s].to # <<>> => reader'[r][s].at = "relay"
<1>1. reader' \in [Nodes -> [Nodes -> Goroutines(ReaderPlaces)]]
  BY DEF TypeOK
<1>2. \A r, s \in Nodes : reader'[r][s] = IF r = p /\ s = q THEN g ELSE reader[r][s]
  BY DEF TypeOK
<1>3. QED
  BY <1>1, <1>2 DEF TypeOK

LEMMA StartTyped ==
    ASSUME TypeOK, NEW p \in Nodes, Start(p) \/ StartStep(p)
    PROVE  TypeOK'
<1>0. main[p] \in Goroutines(MainPlaces)
  BY DEF TypeOK
<1>1. CASE Start(p)
  <2> DEFINE g == [main[p] EXCEPT !.at = "dial"]
  <2>1. g \in Goroutines(MainPlaces)
    BY <1>0, GoroutineTypes DEF MainPlaces
  <2>2. g.at = "dial" /\ g.line = main[p].line
    BY <1>0 DEF Goroutines
  <2>3. g.line = NoLine <=> g.at \notin {"insert", "send"}
    <3>1. main[p].at = "off"
      BY <1>1 DEF Start
    <3>2. main[p].line = NoLine
      BY <3>1 DEF TypeOK
    <3>3. QED
      BY <2>2, <3>2
  <2>4. main' = [main EXCEPT ![p] = g]
    BY <1>1 DEF Start
  <2>5. UNCHANGED <<connections, channel, set, reader, printed, alive, past>>
    BY <1>1 DEF Start
  <2>6. /\ main' \in [Nodes -> Goroutines(MainPlaces)]
        /\ \A r \in Nodes : main'[r].line = NoLine <=> main'[r].at \notin {"insert", "send"}
    BY <2>1, <2>3, <2>4, MainMoves
  <2>7. QED
    BY <2>5, <2>6 DEF TypeOK
<1>2. CASE Dial(p)
  <2>1. PICK q \in ToDial(p) :
           /\ connections' = [connections EXCEPT ![p] = Append(@, q)]
           /\ Write(p, q, Name(p))
           /\ main' = [main EXCEPT ![p].at = IF ToDial(p) = {q} THEN "collect" ELSE @]
    BY <1>2 DEF Dial
  <2> DEFINE g == [main[p] EXCEPT !.at = IF ToDial(p) = {q} THEN "collect" ELSE @]
  <2>2. channel' \in [Nodes -> [Nodes -> Seq(Lines)]]
    BY <2>1, WriteTyped, LineTypes
  <2>3. connections' \in [Nodes -> Seq(Nodes)]
    <3>1. Append(connections[p], q) \in Seq(Nodes)
      BY DEF ToDial, TypeOK
    <3>2. QED
      BY <2>1, <3>1 DEF TypeOK
  <2>4. main[p].at = "dial"
    BY <1>2 DEF Dial
  <2>5. g \in Goroutines(MainPlaces) /\ g.at \in {"collect", "dial"} /\ g.line = main[p].line
    BY <1>0, <2>4 DEF MainPlaces, Goroutines
  <2>6. g.line = NoLine <=> g.at \notin {"insert", "send"}
    BY <2>4, <2>5 DEF TypeOK
  <2>7. main' = [main EXCEPT ![p] = g]
    BY <2>1
  <2>8. /\ main' \in [Nodes -> Goroutines(MainPlaces)]
        /\ \A r \in Nodes : main'[r].line = NoLine <=> main'[r].at \notin {"insert", "send"}
    BY <2>5, <2>6, <2>7, MainMoves
  <2>9. UNCHANGED <<set, reader, printed, alive, past>>
    BY <1>2 DEF Dial
  <2>10. QED
    BY <2>2, <2>3, <2>8, <2>9 DEF TypeOK
<1>3. CASE SpawnReaders(p)
  <2>1. Doing("reading", NoLine, <<>>) \in Goroutines(ReaderPlaces)
    BY DEF Doing, Goroutines, ReaderPlaces
  <2>2. /\ Doing("reading", NoLine, <<>>).at = "reading"
        /\ Doing("reading", NoLine, <<>>).line = NoLine
        /\ Doing("reading", NoLine, <<>>).to = <<>>
    BY DEF Doing
  <2>3. \A r, q \in Nodes : reader'[r][q] = IF r = p THEN Doing("reading", NoLine, <<>>)
                                            ELSE reader[r][q]
    BY <1>3 DEF SpawnReaders, TypeOK
  <2>4. reader' \in [Nodes -> [Nodes -> Goroutines(ReaderPlaces)]]
    BY <1>3, <2>1 DEF SpawnReaders, TypeOK
  <2> DEFINE g == [main[p] EXCEPT !.at = "input"]
  <2>5. g \in Goroutines(MainPlaces) /\ g.at = "input" /\ g.line = main[p].line
    BY <1>0 DEF MainPlaces, Goroutines
  <2>6. g.line = NoLine <=> g.at \notin {"insert", "send"}
    BY <1>3, <2>5 DEF SpawnReaders, TypeOK
  <2>7. main' = [main EXCEPT ![p] = g]
    BY <1>3 DEF SpawnReaders
  <2>8. /\ main' \in [Nodes -> Goroutines(MainPlaces)]
        /\ \A r \in Nodes : main'[r].line = NoLine <=> main'[r].at \notin {"insert", "send"}
    BY <2>5, <2>6, <2>7, MainMoves
  <2>9. \A r, q \in Nodes :
              /\ reader'[r][q].line # NoLine <=> reader'[r][q].at \in {"lock", "check", "relay"}
              /\ reader'[r][q].to # <<>> => reader'[r][q].at = "relay"
    <3> SUFFICES ASSUME NEW r \in Nodes, NEW q \in Nodes
                 PROVE  /\ reader'[r][q].line # NoLine
                              <=> reader'[r][q].at \in {"lock", "check", "relay"}
                        /\ reader'[r][q].to # <<>> => reader'[r][q].at = "relay"
      OBVIOUS
    <3>0. /\ reader[r][q].line # NoLine <=> reader[r][q].at \in {"lock", "check", "relay"}
          /\ reader[r][q].to # <<>> => reader[r][q].at = "relay"
      BY DEF TypeOK
    <3>1. CASE r = p
      BY <2>2, <2>3, <3>1
    <3>2. CASE r # p
      <4>1. reader'[r][q] = reader[r][q]
        BY <2>3, <3>2
      <4>2. QED
        BY <3>0, <4>1
    <3>3. QED
      BY <3>1, <3>2
  <2>10. QED
    BY <1>3, <2>4, <2>8, <2>9 DEF SpawnReaders, TypeOK
<1>4. ASSUME NEW q \in Nodes, HearName(p, q) PROVE TypeOK'
  <2>1. channel' \in [Nodes -> [Nodes -> Seq(Lines)]]
    <3>1. CASE UNCHANGED channel
      BY <3>1 DEF TypeOK
    <3>2. ASSUME NEW n \in 1..Len(channel[q][p]),
                 channel' = [channel EXCEPT ![q][p] = SubSeq(@, n + 1, Len(@))]
          PROVE  channel' \in [Nodes -> [Nodes -> Seq(Lines)]]
      BY <3>2, ReadTyped DEF TypeOK
    <3>3. QED
      BY <1>4, <3>1, <3>2 DEF HearName
  <2> DEFINE g == [reader[p][q] EXCEPT !.at = "named"]
  <2>2. reader[p][q] \in Goroutines(ReaderPlaces)
    BY DEF TypeOK
  <2>3. g \in Goroutines(ReaderPlaces) /\ g.at = "named"
        /\ g.line = reader[p][q].line /\ g.to = reader[p][q].to
    BY <2>2 DEF Goroutines, ReaderPlaces
  <2>4. g.line = NoLine /\ g.to = <<>>
    BY <1>4, <2>3 DEF HearName, At, TypeOK
  <2>5. reader' = [reader EXCEPT ![p][q] = g]
    BY <1>4 DEF HearName
  <2>6. /\ reader' \in [Nodes -> [Nodes -> Goroutines(ReaderPlaces)]]
        /\ \A r, s \in Nodes :
              /\ reader'[r][s].line # NoLine <=> reader'[r][s].at \in {"lock", "check", "relay"}
              /\ reader'[r][s].to # <<>> => reader'[r][s].at = "relay"
    BY <2>3, <2>4, <2>5, ReaderMoves
  <2>7. QED
    BY <1>4, <2>1, <2>6 DEF HearName, TypeOK
<1>5. QED
  BY <1>1, <1>2, <1>3, <1>4 DEF StartStep

\* What the user has seen when a line is typed.
LEMMA SeenTyped ==
    ASSUME TypeOK, NEW p \in Nodes, Len(past[p]) < MaxMessages
    PROVE  /\ past' = [past EXCEPT ![p] = Append(@, ToSet(Shown(p)) \cup Typed(p))]
                 => /\ past' \in [Nodes -> Seq(SUBSET (Nodes \X (0..MaxMessages)))]
                    /\ \A q \in Nodes : Len(past'[q]) = IF q = p THEN Len(past[p]) + 1
                                                        ELSE Len(past[q])
                    /\ \A q \in Nodes : Len(past'[q]) <= MaxMessages
           /\ Len(past[p]) \in Nat
<1> DEFINE M == Nodes \X (0..MaxMessages)
<1>1. past[p] \in Seq(SUBSET M) /\ Len(past[p]) \in Nat /\ MaxMessages \in Nat
  BY ChatAssumption DEF TypeOK
<1>2. ToSet(Shown(p)) \subseteq M
  <2>1. ASSUME NEW i \in DOMAIN printed[p] PROVE Message(printed[p][i]) \in M
    <3>1. printed[p][i] \in Lines
      BY DEF TypeOK
    <3>2. QED
      BY <3>1 DEF Message, Lines
  <2>2. QED
    BY <2>1 DEF Shown, ToSet
<1>3. Typed(p) \subseteq M
  BY <1>1 DEF Typed
<1>4. ToSet(Shown(p)) \cup Typed(p) \in SUBSET M
  BY <1>2, <1>3
<1> HIDE DEF M
<1> DEFINE seen == ToSet(Shown(p)) \cup Typed(p)
<1> HIDE DEF M, seen
<1>5. Append(past[p], seen) \in Seq(SUBSET M)
      /\ Len(Append(past[p], seen)) = Len(past[p]) + 1
  BY <1>1, <1>4, AppendProperties DEF seen
<1>6. past \in [Nodes -> Seq(SUBSET M)] /\ \A q \in Nodes : Len(past[q]) <= MaxMessages
  BY DEF TypeOK, M
<1>7. ASSUME past' = [past EXCEPT ![p] = Append(@, seen)]
      PROVE  /\ past' \in [Nodes -> Seq(SUBSET M)]
             /\ \A q \in Nodes : Len(past'[q]) = IF q = p THEN Len(past[p]) + 1
                                                 ELSE Len(past[q])
             /\ \A q \in Nodes : Len(past'[q]) <= MaxMessages
  BY <1>1, <1>5, <1>6, <1>7
<1>8. QED
  BY <1>1, <1>7 DEF M, seen

LEMMA TypeTyped ==
    ASSUME TypeOK, NEW p \in Nodes, Type(p)
    PROVE  TypeOK'
<1>1. PICK verb \in Verbs :
         main' = [main EXCEPT ![p] = Doing("insert",
              [author |-> p, number |-> Len(past[p]) + 1, verb |-> verb, form |-> 0],
              connections[p])]
  BY DEF Type
<1> DEFINE line == [author |-> p, number |-> Len(past[p]) + 1, verb |-> verb, form |-> 0]
           g == Doing("insert", line, connections[p])
<1>2. /\ past' \in [Nodes -> Seq(SUBSET (Nodes \X (0..MaxMessages)))]
      /\ \A q \in Nodes : Len(past'[q]) <= MaxMessages
      /\ Len(past[p]) \in Nat
  BY SeenTyped DEF Type
<1>3. line \in Lines
  BY <1>1, <1>2, ChatAssumption DEF Lines, Type
<1>4. g \in Goroutines(MainPlaces) /\ g.at = "insert" /\ g.line = line
  BY <1>3 DEF TypeOK, Doing, Goroutines, MainPlaces
<1>5. g.line # NoLine
  BY <1>3, <1>4, LineTypes
<1>6. main' = [main EXCEPT ![p] = g]
  BY <1>1
<1>7. /\ main' \in [Nodes -> Goroutines(MainPlaces)]
      /\ \A q \in Nodes : main'[q].line = NoLine <=> main'[q].at \notin {"insert", "send"}
  BY <1>4, <1>5, <1>6, MainMoves
<1>8. UNCHANGED <<connections, channel, set, reader, printed, alive>>
  BY DEF Type
<1>9. QED
  BY <1>2, <1>7, <1>8 DEF TypeOK

LEMMA MainTyped ==
    ASSUME TypeOK, NEW p \in Nodes, MainStep(p)
    PROVE  TypeOK'
<1>0. main[p] \in Goroutines(MainPlaces)
  BY DEF TypeOK
<1>a. main[p].at \in {"insert", "send"} /\ main[p].line \in Lines /\ main[p].line # NoLine
  BY <1>0, LineTypes DEF MainStep, Insert, Send, TypeOK, Goroutines
<1>1. CASE Insert(p)
  <2> DEFINE g == [main[p] EXCEPT !.at = "send"]
  <2>1. g \in Goroutines(MainPlaces) /\ g.at = "send" /\ g.line = main[p].line
    BY <1>0 DEF Goroutines, MainPlaces
  <2>2. g.line = NoLine <=> g.at \notin {"insert", "send"}
    BY <1>a, <2>1
  <2>3. main' = [main EXCEPT ![p] = g]
    BY <1>1 DEF Insert
  <2>4. /\ main' \in [Nodes -> Goroutines(MainPlaces)]
        /\ \A q \in Nodes : main'[q].line = NoLine <=> main'[q].at \notin {"insert", "send"}
    BY <2>1, <2>2, <2>3, MainMoves
  <2>5. set' \in [Nodes -> SUBSET Lines]
    <3>1. set' = [set EXCEPT ![p] = @ \cup {main[p].line}] \/ UNCHANGED set
      BY <1>1 DEF Insert
    <3>2. set \in [Nodes -> SUBSET Lines] /\ set[p] \cup {main[p].line} \in SUBSET Lines
      BY <1>a DEF TypeOK
    <3>3. QED
      BY <3>1, <3>2
  <2>6. UNCHANGED <<connections, channel, reader, printed, alive, past>>
    BY <1>1 DEF Insert
  <2>7. QED
    BY <2>4, <2>5, <2>6 DEF TypeOK
<1>2. CASE Send(p)
  <2>1. channel' \in [Nodes -> [Nodes -> Seq(Lines)]]
    BY <1>2, <1>a, WriteTyped DEF Send
  <2> DEFINE g == IF Len(main[p].to) > 1 THEN Doing("send", main[p].line, Tail(main[p].to))
                  ELSE Doing("input", NoLine, <<>>)
  <2>2. g \in Goroutines(MainPlaces) /\ (g.line = NoLine <=> g.at \notin {"insert", "send"})
    <3>1. CASE Len(main[p].to) > 1
      <4>1. main[p].to \in Seq(Nodes) /\ main[p].to # <<>>
        BY <1>0, <3>1 DEF Goroutines
      <4>2. Tail(main[p].to) \in Seq(Nodes)
        BY <4>1
      <4>3. QED
        BY <1>a, <3>1, <4>2 DEF Doing, Goroutines, MainPlaces
    <3>2. CASE ~(Len(main[p].to) > 1)
      BY <3>2 DEF Goroutines, Doing, MainPlaces
    <3>3. QED
      BY <3>1, <3>2
  <2>3. main' = [main EXCEPT ![p] = g]
    BY <1>2, Zenon DEF Send
  <2>4. /\ main' \in [Nodes -> Goroutines(MainPlaces)]
        /\ \A q \in Nodes : main'[q].line = NoLine <=> main'[q].at \notin {"insert", "send"}
    BY <2>2, <2>3, MainMoves
  <2>5. UNCHANGED <<connections, set, reader, printed, alive, past>>
    BY <1>2 DEF Send
  <2>6. QED
    BY <2>1, <2>4, <2>5 DEF TypeOK
<1>3. QED
  BY <1>1, <1>2 DEF MainStep

LEMMA ReaderTyped ==
    ASSUME TypeOK, NEW p \in Nodes, NEW q \in Nodes, ReaderStep(p, q)
    PROVE  TypeOK'
<1> DEFINE here == reader[p][q]
           ReaderOK == /\ reader \in [Nodes -> [Nodes -> Goroutines(ReaderPlaces)]]
                       /\ \A r, s \in Nodes :
                             /\ reader[r][s].line # NoLine
                                   <=> reader[r][s].at \in {"lock", "check", "relay"}
                             /\ reader[r][s].to # <<>> => reader[r][s].at = "relay"
<1>0. /\ here \in Goroutines(ReaderPlaces)
      /\ here.line # NoLine <=> here.at \in {"lock", "check", "relay"}
      /\ here.line # NoLine => here.line \in Lines
      /\ here.to # <<>> => here.at = "relay"
  BY DEF TypeOK, Goroutines
<1>idle. /\ Doing("reading", NoLine, <<>>) \in Goroutines(ReaderPlaces)
         /\ Doing("left", NoLine, <<>>) \in Goroutines(ReaderPlaces)
  BY DEF Doing, Goroutines, ReaderPlaces
<1>go. ASSUME NEW g \in Goroutines(ReaderPlaces),
              g.line # NoLine <=> g.at \in {"lock", "check", "relay"},
              g.to # <<>> => g.at = "relay",
              reader' = [reader EXCEPT ![p][q] = g]
       PROVE  ReaderOK'
  BY <1>go, ReaderMoves
<1>1. CASE Read(p, q)
  <2>1. /\ channel' \in [Nodes -> [Nodes -> Seq(Lines)]]
        /\ Head(channel[q][p]) \in Lines
    <3>1. PICK n \in 1..Len(channel[q][p]) :
             channel' = [channel EXCEPT ![q][p] = SubSeq(@, n + 1, Len(@))]
      BY <1>1 DEF Read
    <3>2. /\ SubSeq(channel[q][p], n + 1, Len(channel[q][p])) \in Seq(Lines)
          /\ Head(channel[q][p]) \in Lines
      BY ReadTyped
    <3>3. QED
      BY <3>1, <3>2 DEF TypeOK
  <2> DEFINE g == Doing("lock", Head(channel[q][p]), <<>>)
  <2>2. /\ g \in Goroutines(ReaderPlaces)
        /\ g.at = "lock" /\ g.line = Head(channel[q][p]) /\ g.to = <<>>
    BY <2>1 DEF Doing, Goroutines, ReaderPlaces
  <2>3. reader' = [reader EXCEPT ![p][q] = g] /\ g.line # NoLine
    BY <1>1, <2>1, <2>2, LineTypes DEF Read
  <2>4. ReaderOK'
    BY <1>go, <2>2, <2>3
  <2>5. UNCHANGED <<connections, set, main, printed, alive, past>>
    BY <1>1 DEF Read
  <2>6. QED
    BY <2>1, <2>4, <2>5 DEF TypeOK
<1>2. CASE Lock(p, q)
  <2> DEFINE g == [here EXCEPT !.at = "check"]
  <2>1. /\ g \in Goroutines(ReaderPlaces)
        /\ g.at = "check" /\ g.line = here.line /\ g.to = here.to
    BY <1>0 DEF Goroutines, ReaderPlaces
  <2>2. here.at = "lock" /\ here.to = <<>> /\ reader' = [reader EXCEPT ![p][q] = g]
    BY <1>0, <1>2 DEF Lock, At
  <2>3. ReaderOK'
    BY <1>0, <1>go, <2>1, <2>2
  <2>4. UNCHANGED <<connections, channel, set, main, printed, alive, past>>
    BY <1>2 DEF Lock
  <2>5. QED
    BY <2>3, <2>4 DEF TypeOK
<1>3. CASE CheckKnown(p, q) \/ Leave(p, q)
  <2>1. \E place \in {"reading", "left"} :
           reader' = [reader EXCEPT ![p][q] = Doing(place, NoLine, <<>>)]
    BY <1>3 DEF CheckKnown, Leave
  <2>2. ReaderOK'
    BY <1>idle, <1>go, <2>1 DEF Doing
  <2>3. UNCHANGED <<connections, channel, set, main, printed, alive, past>>
    BY <1>3 DEF CheckKnown, Leave
  <2>4. QED
    BY <2>2, <2>3 DEF TypeOK
<1>4. CASE CheckNew(p, q)
  <2> DEFINE g == Doing("relay", here.line, connections[p])
  <2>1. here.line \in Lines
    BY <1>0, <1>4 DEF CheckNew, At
  <2>2. /\ g \in Goroutines(ReaderPlaces)
        /\ g.at = "relay" /\ g.line # NoLine
    BY <2>1, LineTypes DEF Doing, Goroutines, ReaderPlaces, TypeOK
  <2>3. reader' = [reader EXCEPT ![p][q] = g]
    BY <1>4 DEF CheckNew
  <2>4. ReaderOK'
    BY <1>go, <2>2, <2>3
  <2>5. set' \in [Nodes -> SUBSET Lines]
    <3>1. set' = [set EXCEPT ![p] = @ \cup {here.line}] \/ UNCHANGED set
      BY <1>4 DEF CheckNew
    <3>2. set \in [Nodes -> SUBSET Lines] /\ set[p] \cup {here.line} \in SUBSET Lines
      BY <2>1 DEF TypeOK
    <3>3. QED
      BY <3>1, <3>2
  <2>6. UNCHANGED <<connections, channel, main, printed, alive, past>>
    BY <1>4 DEF CheckNew
  <2>7. QED
    BY <2>4, <2>5, <2>6 DEF TypeOK
<1>5. CASE Relay(p, q)
  <2> DEFINE g == [here EXCEPT !.to = Tail(@)]
  <2>1. here.at = "relay" /\ here.line \in Lines /\ here.line # NoLine /\ here.to # <<>>
    BY <1>0, <1>5 DEF Relay, At
  <2>2. Tail(here.to) \in Seq(Nodes)
    BY <1>0, <2>1 DEF Goroutines
  <2>3. g \in Goroutines(ReaderPlaces) /\ g.at = here.at /\ g.line = here.line
    BY <1>0, <2>2 DEF Goroutines
  <2>4. reader' = [reader EXCEPT ![p][q] = g]
    BY <1>5 DEF Relay
  <2>5. ReaderOK'
    BY <1>go, <2>1, <2>3, <2>4
  <2>6. channel' \in [Nodes -> [Nodes -> Seq(Lines)]]
    BY <1>5, <2>1, WriteTyped DEF Relay
  <2>7. UNCHANGED <<connections, set, main, printed, alive, past>>
    BY <1>5 DEF Relay
  <2>8. QED
    BY <2>5, <2>6, <2>7 DEF TypeOK
<1>6. CASE Deliver(p, q)
  <2>1. here.line \in Lines
    BY <1>0, <1>6 DEF Deliver, At
  <2>2. printed' \in [Nodes -> Seq(Lines)]
    <3>1. Append(printed[p], here.line) \in Seq(Lines)
      BY <2>1 DEF TypeOK
    <3>2. QED
      BY <1>6, <3>1 DEF Deliver, TypeOK
  <2>3. reader' = [reader EXCEPT ![p][q] = Doing("reading", NoLine, <<>>)]
    BY <1>6 DEF Deliver
  <2>4. ReaderOK'
    BY <1>idle, <1>go, <2>3 DEF Doing
  <2>5. UNCHANGED <<connections, channel, set, main, alive, past>>
    BY <1>6 DEF Deliver
  <2>6. QED
    BY <2>2, <2>4, <2>5 DEF TypeOK
<1>7. QED
  BY <1>1, <1>2, <1>3, <1>4, <1>5, <1>6 DEF ReaderStep

LEMMA StopTyped ==
    ASSUME TypeOK, NEW p \in Nodes, Stop(p)
    PROVE  TypeOK'
<1>1. PICK kept \in [Nodes -> 0..Capacity] :
         /\ \A q \in Nodes : kept[q] <= Len(channel[p][q])
         /\ channel' = [channel EXCEPT ![p] = [q \in Nodes |-> SubSeq(@[q], 1, kept[q])]]
  BY DEF Stop
<1>2. ASSUME NEW q \in Nodes PROVE SubSeq(channel[p][q], 1, kept[q]) \in Seq(Lines)
  <2>1. channel[p][q] \in Seq(Lines) /\ kept[q] \in Nat /\ kept[q] <= Len(channel[p][q])
    BY <1>1, ChatAssumption DEF TypeOK
  <2>2. \A i \in 1..kept[q] : channel[p][q][i] \in Lines
    BY <2>1
  <2>3. QED
    BY <2>1, <2>2, SubSeqProperties
<1>3. channel' \in [Nodes -> [Nodes -> Seq(Lines)]]
  BY <1>1, <1>2 DEF TypeOK
<1>4. alive' \subseteq Nodes /\ UNCHANGED <<connections, set, main, reader, printed, past>>
  BY DEF Stop, TypeOK
<1>5. QED
  BY <1>3, <1>4 DEF TypeOK

LEMMA StepTyped == TypeOK /\ [Next]_vars => TypeOK'
<1> SUFFICES ASSUME TypeOK, [Next]_vars PROVE TypeOK'
  OBVIOUS
<1>1. ASSUME NEW p \in Nodes, Start(p) \/ StartStep(p) PROVE TypeOK'
  BY <1>1, StartTyped
<1>2. ASSUME NEW p \in Nodes, Type(p) PROVE TypeOK'
  BY <1>2, TypeTyped
<1>3. ASSUME NEW p \in Nodes, MainStep(p) PROVE TypeOK'
  BY <1>3, MainTyped
<1>4. ASSUME NEW p \in Nodes, Crash(p) \/ RaceFault(p) PROVE TypeOK'
  BY <1>4, StopTyped DEF Crash, RaceFault
<1>5. ASSUME NEW p \in Nodes, NEW q \in Nodes, ReaderStep(p, q) PROVE TypeOK'
  BY <1>5, ReaderTyped
<1>6. CASE UNCHANGED vars
  BY <1>6 DEF vars, TypeOK
<1>7. QED
  BY <1>1, <1>2, <1>3, <1>4, <1>5, <1>6 DEF Next

\* The variables of the chat hold what TypeOK says, always: for every number of
\* nodes, whatever reads take, races lose and nodes stop.
THEOREM TypeCorrect == Spec => []TypeOK
BY InitTyped, StepTyped, PTL DEF Spec

------------------------------------------------------------------------------
(* What each step changes, element by element, when lines are intact       *)

MainIs(p, g) == \A r \in Nodes : main'[r] = IF r = p THEN g ELSE main[r]
ReaderIs(p, q, g) ==
    \A r, s \in Nodes : reader'[r][s] = IF r = p /\ s = q THEN g ELSE reader[r][s]
Written(p, q, line) ==
    \A r, s \in Nodes :
        channel'[r][s] = IF r = p /\ s = q /\ q \in alive
                         THEN Append(channel[r][s], line) ELSE channel[r][s]
Taken(p, q) ==
    /\ channel[q][p] # <<>>
    /\ \A r, s \in Nodes :
          channel'[r][s] = IF r = q /\ s = p THEN Tail(channel[r][s]) ELSE channel[r][s]
Learned(p, line) ==
    \A r \in Nodes : set'[r] = IF r = p THEN set[r] \cup {line} ELSE set[r]

\* A line that is appended, or the first that is taken, leaves the others where
\* they are.
LEMMA AppendedLine ==
    ASSUME NEW c \in Seq(Lines), NEW line \in Lines
    PROVE  /\ Append(c, line) # <<>> /\ Len(c) \in Nat
           /\ DOMAIN c = 1..Len(c) /\ DOMAIN Append(c, line) = 1..(Len(c) + 1)
           /\ \A i \in 1..Len(c) : Append(c, line)[i] = c[i]
           /\ Append(c, line)[Len(c) + 1] = line
           /\ ToSet(Append(c, line)) = ToSet(c) \cup {line}
<1>1. /\ Append(c, line) \in Seq(Lines) /\ Append(c, line) # <<>> /\ Len(c) \in Nat
      /\ DOMAIN c = 1..Len(c) /\ DOMAIN Append(c, line) = 1..(Len(c) + 1)
      /\ \A i \in 1..Len(c) : Append(c, line)[i] = c[i]
      /\ Append(c, line)[Len(c) + 1] = line
  BY AppendProperties, LenProperties
<1>2. ToSet(Append(c, line)) = ToSet(c) \cup {line}
  BY <1>1 DEF ToSet
<1>3. QED
  BY <1>1, <1>2

LEMMA TakenLine ==
    ASSUME NEW S, NEW c \in Seq(S), c # <<>>
    PROVE  /\ c[1] \in S /\ c[1] = Head(c) /\ Len(c) \in Nat /\ Len(c) > 0
           /\ Tail(c) \in Seq(S)
           /\ DOMAIN c = 1..Len(c) /\ DOMAIN Tail(c) = 1..(Len(c) - 1)
           /\ \A i \in 1..(Len(c) - 1) : Tail(c)[i] = c[i + 1]
           /\ ToSet(c) = {c[1]} \cup ToSet(Tail(c))
<1>1. /\ c[1] \in S /\ c[1] = Head(c) /\ Len(c) \in Nat /\ Len(c) > 0
      /\ Tail(c) \in Seq(S)
      /\ DOMAIN c = 1..Len(c) /\ DOMAIN Tail(c) = 1..(Len(c) - 1)
      /\ \A i \in 1..(Len(c) - 1) : Tail(c)[i] = c[i + 1]
  BY HeadTailProperties, LenProperties
<1>2. ToSet(c) = {c[1]} \cup ToSet(Tail(c))
  <2>1. ASSUME NEW i \in 1..Len(c) PROVE c[i] \in {c[1]} \cup ToSet(Tail(c))
    <3>1. CASE i = 1
      BY <3>1
    <3>2. CASE i # 1
      <4>1. i - 1 \in 1..(Len(c) - 1) /\ Tail(c)[i - 1] = c[i]
        BY <1>1, <3>2
      <4>2. QED
        BY <1>1, <4>1 DEF ToSet
    <3>3. QED
      BY <3>1, <3>2
  <2>2. ASSUME NEW i \in 1..(Len(c) - 1) PROVE Tail(c)[i] \in ToSet(c)
    BY <1>1 DEF ToSet
  <2>3. QED
    BY <1>1, <2>1, <2>2 DEF ToSet
<1>3. QED
  BY <1>1, <1>2

LEMMA WriteDoes ==
    ASSUME TypeOK, NEW p \in Nodes, NEW q, NEW line \in Lines, line.verb = FALSE,
           Write(p, q, line)
    PROVE  Written(p, q, line)
<1>1. Formatted(line) = line
  BY DEF Formatted
<1>2. QED
  BY <1>1 DEF Write, Written, TypeOK

\* One line is taken when a read takes no more.
LEMMA TakeDoes ==
    ASSUME TypeOK, LinesIntact, NEW p \in Nodes, NEW q \in Nodes,
           NEW n \in 1..Len(channel[q][p]), n <= MaxChunk,
           channel' = [channel EXCEPT ![q][p] = SubSeq(@, n + 1, Len(@))]
    PROVE  Taken(p, q)
<1>1. channel[q][p] \in Seq(Lines) /\ channel[q][p] # <<>> /\ n = 1
  BY DEF TypeOK, LinesIntact
<1>2. SubSeq(channel[q][p], n + 1, Len(channel[q][p])) = Tail(channel[q][p])
  BY <1>1, TailIsSubSeq
<1>3. QED
  BY <1>1, <1>2 DEF Taken, TypeOK

LEMMA StartDoes ==
    ASSUME TypeOK, NEW p \in Nodes, Start(p)
    PROVE  /\ p \in alive /\ main[p].at = "off"
           /\ \E g : g.at = "dial" /\ g.line = main[p].line /\ MainIs(p, g)
           /\ UNCHANGED <<connections, channel, set, reader, printed, alive, past>>
<1> DEFINE g == [main[p] EXCEPT !.at = "dial"]
<1>1. g.at = "dial" /\ g.line = main[p].line /\ MainIs(p, g)
  BY DEF Start, MainIs, TypeOK, Goroutines
<1>2. QED
  BY <1>1 DEF Start

LEMMA DialDoes ==
    ASSUME TypeOK, NEW p \in Nodes, Dial(p)
    PROVE  \E q \in Nodes \ {p} : \E g :
              /\ p \in alive /\ q \in alive /\ main[p].at = "dial"
              /\ q \notin ToSet(connections[p])
              /\ g.at \in {"dial", "collect"} /\ g.line = main[p].line
              /\ g.at = "collect" => Nodes \ {p} \subseteq ToSet(connections[p]) \cup {q}
              /\ MainIs(p, g)
              /\ Written(p, q, Name(p))
              /\ \A r \in Nodes : ToSet(connections'[r]) = IF r = p
                                    THEN ToSet(connections[r]) \cup {q}
                                    ELSE ToSet(connections[r])
              /\ UNCHANGED <<set, reader, printed, alive, past>>
<1>1. PICK q \in ToDial(p) :
         /\ Answers(q)
         /\ connections' = [connections EXCEPT ![p] = Append(@, q)]
         /\ Write(p, q, Name(p))
         /\ main' = [main EXCEPT ![p].at = IF ToDial(p) = {q} THEN "collect" ELSE @]
  BY DEF Dial
<1> DEFINE g == [main[p] EXCEPT !.at = IF ToDial(p) = {q} THEN "collect" ELSE @]
<1>2. q \in Nodes \ {p} /\ q \in alive /\ q \notin ToSet(connections[p])
  BY <1>1 DEF ToDial, Answers
<1>3. main[p].at = "dial" /\ p \in alive
  BY DEF Dial
<1>4. g.at \in {"dial", "collect"} /\ g.line = main[p].line /\ MainIs(p, g)
  BY <1>1, <1>3 DEF MainIs, TypeOK, Goroutines
<1>5. g.at = "collect" => Nodes \ {p} \subseteq ToSet(connections[p]) \cup {q}
  <2>1. g.at = IF ToDial(p) = {q} THEN "collect" ELSE "dial"
    BY <1>3 DEF TypeOK, Goroutines
  <2>2. QED
    BY <2>1 DEF ToDial
<1>6. Written(p, q, Name(p))
  BY <1>1, WriteDoes, LineTypes DEF Name
<1>7. ASSUME NEW r \in Nodes
      PROVE  ToSet(connections'[r]) = IF r = p THEN ToSet(connections[r]) \cup {q}
                                      ELSE ToSet(connections[r])
  <2>1. connections[p] \in Seq(Nodes) /\ connections \in [Nodes -> Seq(Nodes)]
    BY DEF TypeOK
  <2> DEFINE c == connections[p]
  <2>2. /\ DOMAIN c = 1..Len(c) /\ Len(c) \in Nat
        /\ DOMAIN Append(c, q) = 1..(Len(c) + 1)
        /\ \A i \in 1..Len(c) : Append(c, q)[i] = c[i]
        /\ Append(c, q)[Len(c) + 1] = q
    BY <1>2, <2>1, AppendProperties, LenProperties
  <2>3. ToSet(Append(c, q)) = ToSet(c) \cup {q}
    BY <2>2 DEF ToSet
  <2>4. QED
    BY <1>1, <2>1, <2>3
<1>8. UNCHANGED <<set, reader, printed, alive, past>>
  BY DEF Dial
<1>9. QED
  BY <1>2, <1>3, <1>4, <1>5, <1>6, <1>7, <1>8

LEMMA SpawnDoes ==
    ASSUME TypeOK, NEW p \in Nodes, SpawnReaders(p)
    PROVE  /\ p \in alive /\ main[p].at = "collect"
           /\ \A q \in Nodes \ {p} : reader[p][q].at = "named"
           /\ \E g : g.at = "input" /\ g.line = main[p].line /\ MainIs(p, g)
           /\ \A r, s \in Nodes :
                 IF r = p THEN /\ reader'[r][s].at = "reading"
                               /\ reader'[r][s].line = NoLine
                               /\ reader'[r][s].to = <<>>
                 ELSE reader'[r][s] = reader[r][s]
           /\ UNCHANGED <<connections, channel, set, printed, alive, past>>
<1> DEFINE g == [main[p] EXCEPT !.at = "input"]
<1>1. g.at = "input" /\ g.line = main[p].line /\ MainIs(p, g)
  BY DEF SpawnReaders, MainIs, TypeOK, Goroutines
<1>2. ASSUME NEW r \in Nodes, NEW s \in Nodes
      PROVE  IF r = p THEN /\ reader'[r][s].at = "reading"
                           /\ reader'[r][s].line = NoLine
                           /\ reader'[r][s].to = <<>>
             ELSE reader'[r][s] = reader[r][s]
  <2>1. IF r = p THEN reader'[r][s] = Doing("reading", NoLine, <<>>)
        ELSE reader'[r][s] = reader[r][s]
    BY DEF SpawnReaders, TypeOK
  <2>2. QED
    BY <2>1 DEF Doing
<1>3. /\ p \in alive /\ main[p].at = "collect"
      /\ \A q \in Nodes \ {p} : reader[p][q].at = "named"
      /\ UNCHANGED <<connections, channel, set, printed, alive, past>>
  BY DEF SpawnReaders
<1>4. QED
  BY <1>1, <1>2, <1>3

LEMMA HearDoes ==
    ASSUME TypeOK, LinesIntact, NEW p \in Nodes, NEW q \in Nodes, HearName(p, q)
    PROVE  /\ p \in alive /\ p # q /\ reader[p][q].at = "listening"
           /\ p \in ToSet(connections[q])
           /\ Taken(p, q) \/ (channel' = channel /\ channel[q][p] = <<>> /\ q \notin alive)
           /\ \E g : /\ g.at = "named" /\ g.line = reader[p][q].line
                     /\ ReaderIs(p, q, g)
           /\ UNCHANGED <<connections, set, main, printed, alive, past>>
<1> DEFINE g == [reader[p][q] EXCEPT !.at = "named"]
<1>1. g.at = "named" /\ g.line = reader[p][q].line /\ ReaderIs(p, q, g)
  <2>1. reader[p][q] \in Goroutines(ReaderPlaces)
    BY DEF TypeOK
  <2>2. g.at = "named" /\ g.line = reader[p][q].line
    BY <2>1 DEF Goroutines
  <2>3. reader' = [reader EXCEPT ![p][q] = g]
    BY DEF HearName
  <2>4. ReaderIs(p, q, g)
    BY <2>3 DEF ReaderIs, TypeOK
  <2>5. QED
    BY <2>2, <2>4
<1>2. Taken(p, q) \/ (channel' = channel /\ channel[q][p] = <<>> /\ q \notin alive)
  BY TakeDoes DEF HearName
<1>3. QED
  BY <1>1, <1>2 DEF HearName, At

LEMMA TypeDoes ==
    ASSUME TypeOK, LinesIntact, NEW p \in Nodes, Type(p)
    PROVE  /\ p \in alive /\ main[p].at = "input"
           /\ \E g : /\ g.at = "insert" /\ g.line = Plain(p, Len(past[p]) + 1)
                     /\ g.to = connections[p] /\ MainIs(p, g)
           /\ Len(past[p]) \in Nat
           /\ \A r \in Nodes : Len(past'[r]) = IF r = p THEN Len(past[r]) + 1
                                               ELSE Len(past[r])
           /\ UNCHANGED <<connections, channel, set, reader, printed, alive>>
<1>1. PICK verb \in Verbs :
         main' = [main EXCEPT ![p] = Doing("insert",
              [author |-> p, number |-> Len(past[p]) + 1, verb |-> verb, form |-> 0],
              connections[p])]
  BY DEF Type
<1>2. verb = FALSE
  BY DEF LinesIntact
<1> DEFINE g == Doing("insert", Plain(p, Len(past[p]) + 1), connections[p])
<1>3. MainIs(p, g)
  BY <1>1, <1>2 DEF MainIs, Plain, TypeOK
<1>4. g.at = "insert" /\ g.line = Plain(p, Len(past[p]) + 1) /\ g.to = connections[p]
  BY DEF Doing
<1>5. /\ Len(past[p]) \in Nat
      /\ \A r \in Nodes : Len(past'[r]) = IF r = p THEN Len(past[r]) + 1 ELSE Len(past[r])
  BY SeenTyped DEF Type
<1>6. QED
  BY <1>3, <1>4, <1>5 DEF Type

LEMMA InsertDoes ==
    ASSUME TypeOK, LinesIntact, NEW p \in Nodes, Insert(p)
    PROVE  /\ p \in alive /\ main[p].at = "insert"
           /\ \E g : /\ g.at = "send" /\ g.line = main[p].line /\ g.to = main[p].to
                     /\ MainIs(p, g)
           /\ Learned(p, main[p].line)
           /\ UNCHANGED <<connections, channel, reader, printed, alive, past>>
<1> DEFINE g == [main[p] EXCEPT !.at = "send"]
<1>1. g.at = "send" /\ g.line = main[p].line /\ g.to = main[p].to /\ MainIs(p, g)
  BY DEF Insert, MainIs, TypeOK, Goroutines
<1>2. Learned(p, main[p].line)
  <2>1. set' = [set EXCEPT ![p] = @ \cup {main[p].line}]
    BY DEF Insert, LinesIntact
  <2>2. QED
    BY <2>1 DEF Learned, TypeOK
<1>3. QED
  BY <1>1, <1>2 DEF Insert

LEMMA CheckNewDoes ==
    ASSUME TypeOK, LinesIntact, NEW p \in Nodes, NEW q \in Nodes, CheckNew(p, q)
    PROVE  /\ p \in alive /\ p # q /\ reader[p][q].at = "check"
           /\ reader[p][q].line \notin set[p]
           /\ \E g : /\ g.at = "relay" /\ g.line = reader[p][q].line
                     /\ g.to = connections[p] /\ ReaderIs(p, q, g)
           /\ Learned(p, reader[p][q].line)
           /\ UNCHANGED <<connections, channel, main, printed, alive, past>>
<1> DEFINE g == Doing("relay", reader[p][q].line, connections[p])
<1>1. /\ g.at = "relay" /\ g.line = reader[p][q].line /\ g.to = connections[p]
      /\ ReaderIs(p, q, g)
  BY DEF CheckNew, ReaderIs, Doing, TypeOK
<1>2. Learned(p, reader[p][q].line)
  <2>1. set' = [set EXCEPT ![p] = @ \cup {reader[p][q].line}]
    BY DEF CheckNew, LinesIntact
  <2>2. QED
    BY <2>1 DEF Learned, TypeOK
<1>3. QED
  BY <1>1, <1>2 DEF CheckNew, At

LEMMA ReadDoes ==
    ASSUME TypeOK, LinesIntact, NEW p \in Nodes, NEW q \in Nodes, Read(p, q)
    PROVE  /\ p \in alive /\ p # q /\ reader[p][q].at = "reading"
           /\ Taken(p, q)
           /\ \E g : g.at = "lock" /\ g.line = channel[q][p][1] /\ ReaderIs(p, q, g)
           /\ UNCHANGED <<connections, set, main, printed, alive, past>>
<1> DEFINE g == Doing("lock", Head(channel[q][p]), <<>>)
<1>1. g.at = "lock" /\ g.line = channel[q][p][1] /\ ReaderIs(p, q, g)
  <2>1. Head(channel[q][p]) = channel[q][p][1]
    BY TakenLine DEF Read, TypeOK
  <2>2. QED
    BY <2>1 DEF Read, ReaderIs, Doing, TypeOK
<1>2. Taken(p, q)
  BY TakeDoes DEF Read
<1>3. QED
  BY <1>1, <1>2 DEF Read, At

\* A reader that has dealt with a line, or has none, goes on without one.
LEMMA RestDoes ==
    ASSUME TypeOK, NEW p \in Nodes, NEW q \in Nodes,
           CheckKnown(p, q) \/ Deliver(p, q) \/ Leave(p, q)
    PROVE  /\ p \in alive /\ p # q
           /\ reader[p][q].at \in {"reading", "check", "relay"}
           /\ \E g : /\ g.at \in {"reading", "left"} /\ g.line = NoLine /\ g.to = <<>>
                     /\ ReaderIs(p, q, g)
           /\ UNCHANGED <<connections, channel, set, main, alive, past>>
<1>1. PICK place \in {"reading", "left"} :
         reader' = [reader EXCEPT ![p][q] = Doing(place, NoLine, <<>>)]
  BY DEF CheckKnown, Deliver, Leave
<1> DEFINE g == Doing(place, NoLine, <<>>)
<1>2. /\ g.at \in {"reading", "left"} /\ g.line = NoLine /\ g.to = <<>>
      /\ ReaderIs(p, q, g)
  BY <1>1 DEF ReaderIs, Doing, TypeOK
<1>3. QED
  BY <1>2 DEF CheckKnown, Deliver, Leave, At

LEMMA LockDoes ==
    ASSUME TypeOK, NEW p \in Nodes, NEW q \in Nodes, Lock(p, q)
    PROVE  /\ p \in alive /\ p # q /\ reader[p][q].at = "lock"
           /\ \A r \in Nodes : reader[p][r].at \notin {"check", "relay"}
           /\ \E g : /\ g.at = "check" /\ g.line = reader[p][q].line /\ g.to = reader[p][q].to
                     /\ ReaderIs(p, q, g)
           /\ UNCHANGED <<connections, channel, set, main, printed, alive, past>>
<1> DEFINE g == [reader[p][q] EXCEPT !.at = "check"]
<1>1. /\ g.at = "check" /\ g.line = reader[p][q].line /\ g.to = reader[p][q].to
      /\ ReaderIs(p, q, g)
  <2>1. reader[p][q] \in Goroutines(ReaderPlaces)
    BY DEF TypeOK
  <2>2. g.at = "check" /\ g.line = reader[p][q].line /\ g.to = reader[p][q].to
    BY <2>1 DEF Goroutines
  <2>3. reader' = [reader EXCEPT ![p][q] = g]
    BY DEF Lock
  <2>4. ReaderIs(p, q, g)
    BY <2>3 DEF ReaderIs, TypeOK
  <2>5. QED
    BY <2>2, <2>4
<1>2. QED
  BY <1>1 DEF Lock, At

\* What is sent and what is relayed goes to the first of the peers left to write to.
LEMMA SendDoes ==
    ASSUME TypeOK, NEW p \in Nodes, Send(p), main[p].line.verb = FALSE
    PROVE  /\ p \in alive /\ main[p].at = "send"
           /\ Written(p, Head(main[p].to), main[p].line)
           /\ \E g : /\ g.at \in {"send", "input"}
                     /\ g.at = "send" => /\ g.line = main[p].line
                                         /\ main[p].to # <<>> /\ g.to = Tail(main[p].to)
                     /\ g.at = "input" => g.line = NoLine /\ Len(main[p].to) <= 1
                     /\ MainIs(p, g)
           /\ UNCHANGED <<connections, set, reader, printed, alive, past>>
<1> DEFINE g == IF Len(main[p].to) > 1 THEN Doing("send", main[p].line, Tail(main[p].to))
                ELSE Doing("input", NoLine, <<>>)
<1>0. main[p].to \in Seq(Nodes) /\ main[p].line \in Lines
  BY LineTypes DEF Send, TypeOK, Goroutines
<1>1. MainIs(p, g)
  BY DEF Send, MainIs, TypeOK
<1>2. /\ g.at \in {"send", "input"}
      /\ g.at = "send" => g.line = main[p].line /\ main[p].to # <<>> /\ g.to = Tail(main[p].to)
      /\ g.at = "input" => g.line = NoLine /\ Len(main[p].to) <= 1
  <2>1. CASE Len(main[p].to) > 1
    BY <1>0, <2>1 DEF Doing
  <2>2. CASE ~(Len(main[p].to) > 1)
    BY <1>0, <2>2 DEF Doing
  <2>3. QED
    BY <2>1, <2>2
<1>3. Written(p, Head(main[p].to), main[p].line)
  BY <1>0, WriteDoes DEF Send
<1>4. QED
  BY <1>1, <1>2, <1>3 DEF Send

LEMMA RelayDoes ==
    ASSUME TypeOK, NEW p \in Nodes, NEW q \in Nodes, Relay(p, q),
           reader[p][q].line.verb = FALSE
    PROVE  /\ p \in alive /\ p # q /\ reader[p][q].at = "relay" /\ reader[p][q].to # <<>>
           /\ Written(p, Head(reader[p][q].to), reader[p][q].line)
           /\ \E g : /\ g.at = "relay" /\ g.line = reader[p][q].line
                     /\ g.to = Tail(reader[p][q].to) /\ ReaderIs(p, q, g)
           /\ UNCHANGED <<connections, set, main, printed, alive, past>>
<1> DEFINE g == [reader[p][q] EXCEPT !.to = Tail(@)]
<1>0. reader[p][q].line \in Lines
  BY DEF Relay, At, TypeOK, Goroutines
<1>1. /\ g.at = reader[p][q].at /\ g.line = reader[p][q].line
      /\ g.to = Tail(reader[p][q].to) /\ ReaderIs(p, q, g)
  <2>1. reader[p][q] \in Goroutines(ReaderPlaces)
    BY DEF TypeOK
  <2>2. /\ g.at = reader[p][q].at /\ g.line = reader[p][q].line
        /\ g.to = Tail(reader[p][q].to)
    BY <2>1 DEF Goroutines
  <2>3. reader' = [reader EXCEPT ![p][q] = g]
    BY DEF Relay
  <2>4. ReaderIs(p, q, g)
    BY <2>3 DEF ReaderIs, TypeOK
  <2>5. QED
    BY <2>2, <2>4
<1>2. Written(p, Head(reader[p][q].to), reader[p][q].line)
  BY <1>0, WriteDoes DEF Relay
<1>3. QED
  BY <1>1, <1>2 DEF Relay, At

\* What is left of what a node that stops has written are the first lines.
LEMMA StopDoes ==
    ASSUME TypeOK, NEW p \in Nodes, Stop(p)
    PROVE  /\ p \in alive /\ alive' = alive \ {p}
           /\ \A r, s \in Nodes :
                 /\ r # p => channel'[r][s] = channel[r][s]
                 /\ channel'[r][s] \in Seq(Lines) /\ Len(channel'[r][s]) \in Nat
                 /\ DOMAIN channel'[r][s] = 1..Len(channel'[r][s])
                 /\ Len(channel'[r][s]) <= Len(channel[r][s])
                 /\ \A i \in 1..Len(channel'[r][s]) : channel'[r][s][i] = channel[r][s][i]
           /\ UNCHANGED <<connections, set, main, reader, printed, past>>
<1>1. PICK kept \in [Nodes -> 0..Capacity] :
         /\ \A q \in Nodes : kept[q] <= Len(channel[p][q])
         /\ channel' = [channel EXCEPT ![p] = [q \in Nodes |-> SubSeq(@[q], 1, kept[q])]]
  BY DEF Stop
<1>2. ASSUME NEW r \in Nodes, NEW s \in Nodes
      PROVE  /\ r # p => channel'[r][s] = channel[r][s]
             /\ channel'[r][s] \in Seq(Lines) /\ Len(channel'[r][s]) \in Nat
             /\ DOMAIN channel'[r][s] = 1..Len(channel'[r][s])
             /\ Len(channel'[r][s]) <= Len(channel[r][s])
             /\ \A i \in 1..Len(channel'[r][s]) : channel'[r][s][i] = channel[r][s][i]
  <2>1. channel[r][s] \in Seq(Lines)
    BY DEF TypeOK
  <2>2. CASE r = p
    <3>1. channel'[r][s] = SubSeq(channel[r][s], 1, kept[s])
      BY <1>1, <2>2 DEF TypeOK
    <3>2. kept[s] \in Nat /\ kept[s] <= Len(channel[r][s])
      BY <1>1, <2>2, ChatAssumption
    <3>3. \A i \in 1..kept[s] : channel[r][s][i] \in Lines
      BY <2>1, <3>2
    <3>4. /\ SubSeq(channel[r][s], 1, kept[s]) \in Seq(Lines)
          /\ Len(SubSeq(channel[r][s], 1, kept[s])) = kept[s]
          /\ \A i \in 1..kept[s] : SubSeq(channel[r][s], 1, kept[s])[i] = channel[r][s][i]
      BY <3>2, <3>3, SubSeqProperties
    <3>5. QED
      BY <2>2, <3>1, <3>2, <3>4
  <2>3. CASE r # p
    <3>1. channel'[r][s] = channel[r][s]
      BY <1>1, <2>3 DEF TypeOK
    <3>2. QED
      BY <2>1, <2>3, <3>1, LenProperties
  <2>4. QED
    BY <2>2, <2>3
<1>3. QED
  BY <1>2 DEF Stop

------------------------------------------------------------------------------
(* The start                                                               *)

LEMMA StartInvInit == Init => StartInv
<1> SUFFICES ASSUME Init, NEW p \in Nodes, NEW q \in Nodes
             PROVE  /\ main[p].at \notin {"off", "dial"} =>
                          Nodes \ {p} \subseteq ToSet(connections[p])
                    /\ reader[p][q].at \in {"listening", "named"} <=> ~Started(p)
                    /\ p # q /\ p \notin ToSet(connections[q]) =>
                          reader[p][q].at = "listening"
                    /\ channel[q][p] = <<>>
                    /\ p \in ToSet(connections[q]) /\ p # q => reader[p][q].at # "listening"
  BY DEF StartInv
<1>1. /\ main[p].at = IF Connected THEN "input" ELSE "off"
      /\ reader[p][q].at = IF Connected THEN "reading" ELSE "listening"
      /\ channel[q][p] = <<>>
  BY DEF Init, Doing
<1>2. \A r \in Nodes : Connected => ToSet(connections[r]) = Nodes \ {r}
  BY OrderOfPeers DEF Init
<1>3. ~Connected => ToSet(connections[q]) = {}
  BY DEF Init, ToSet
<1>4. QED
  BY <1>1, <1>2, <1>3, ChatAssumption DEF Started

\* A started node has dialled all others, and they have been sent its name: what it
\* writes then is not taken for a name.
LEMMA WriteKeepsStart ==
    ASSUME TypeOK, StartInv, NEW p \in alive, Started(p), NEW q,
           NEW line \in Lines, line.number # 0, Written(p, q, line),
           UNCHANGED <<connections, alive>>,
           \A r \in Nodes : /\ Started(r)' <=> Started(r)
                            /\ main'[r].at \in {"off", "dial"} <=> main[r].at \in {"off", "dial"},
           \A r, s \in Nodes : reader'[r][s].at = reader[r][s].at
    PROVE  StartInv'
<1> SUFFICES ASSUME NEW r \in Nodes, NEW s \in Nodes, r # s
             PROVE  /\ r \notin ToSet(connections[s]) => channel'[s][r] = <<>>
                    /\ /\ {r, s} \subseteq alive
                       /\ reader[r][s].at = "listening"
                       /\ r \in ToSet(connections[s])
                       => channel'[s][r] # <<>>
                    /\ \A i \in DOMAIN channel'[s][r] :
                          channel'[s][r][i].number = 0
                             <=> i = 1 /\ reader[r][s].at = "listening"
  BY DEF StartInv
<1>1. CASE s = p /\ r = q /\ q \in alive
  <2>1. r \in ToSet(connections[s])
    BY <1>1 DEF StartInv, Started, TypeOK
  <2> DEFINE c == channel[s][r]
  <2>2. c \in Seq(Lines) /\ channel'[s][r] = Append(c, line)
    <3>1. c \in Seq(Lines)
      BY DEF TypeOK
    <3>2. channel'[s][r] = Append(c, line)
      BY <1>1 DEF Written
    <3>3. QED
      BY <3>1, <3>2
  <2>3. reader[r][s].at = "listening" => c # <<>>
    BY <1>1, <2>1 DEF StartInv
  <2>4. /\ Append(c, line) # <<>> /\ Len(c) \in Nat
        /\ DOMAIN c = 1..Len(c) /\ DOMAIN Append(c, line) = 1..(Len(c) + 1)
        /\ \A i \in 1..Len(c) : Append(c, line)[i] = c[i]
        /\ Append(c, line)[Len(c) + 1] = line
        /\ c # <<>> => Len(c) # 0
    BY <2>2, AppendedLine
  <2>5. \A i \in 1..Len(c) : c[i].number = 0 <=> i = 1 /\ reader[r][s].at = "listening"
    BY <2>4 DEF StartInv
  <2>6. \A i \in 1..(Len(c) + 1) :
           Append(c, line)[i].number = 0 <=> i = 1 /\ reader[r][s].at = "listening"
    BY <2>3, <2>4, <2>5
  <2>7. QED
    BY <2>1, <2>2, <2>4, <2>6
<1>2. CASE ~(s = p /\ r = q /\ q \in alive)
  BY <1>2 DEF Written, StartInv
<1>3. QED
  BY <1>1, <1>2

\* After a line is taken, what is left on the connection are messages.
LEMMA TakeKeepsStart ==
    ASSUME TypeOK, StartInv, NEW p \in Nodes, NEW q \in Nodes, p # q,
           p \in ToSet(connections[q]) \/ reader[p][q].at = "reading",
           Taken(p, q), NEW g, ReaderIs(p, q, g),
           \/ reader[p][q].at = "listening" /\ g.at = "named"
           \/ reader[p][q].at = "reading" /\ g.at = "lock",
           UNCHANGED <<connections, main, alive>>
    PROVE  StartInv'
<1> SUFFICES ASSUME NEW r \in Nodes, NEW s \in Nodes
             PROVE  /\ main[r].at \notin {"off", "dial"} =>
                          Nodes \ {r} \subseteq ToSet(connections[r])
                    /\ reader'[r][s].at \in {"listening", "named"} <=> ~Started(r)
                    /\ r # s =>
                          /\ r \notin ToSet(connections[s]) =>
                                channel'[s][r] = <<>> /\ reader'[r][s].at = "listening"
                          /\ /\ {r, s} \subseteq alive
                             /\ reader'[r][s].at = "listening"
                             /\ r \in ToSet(connections[s])
                             => channel'[s][r] # <<>>
                          /\ \A i \in DOMAIN channel'[s][r] :
                                channel'[s][r][i].number = 0
                                   <=> i = 1 /\ reader'[r][s].at = "listening"
  BY DEF StartInv, Started
<1>1. CASE r = p /\ s = q
  <2> DEFINE c == channel[q][p]
  <2>1. c \in Seq(Lines) /\ c # <<>>
    BY DEF TypeOK, Taken
  <2>2. /\ Len(c) \in Nat /\ Len(c) > 0
        /\ DOMAIN c = 1..Len(c) /\ DOMAIN Tail(c) = 1..(Len(c) - 1)
        /\ \A i \in 1..(Len(c) - 1) : Tail(c)[i] = c[i + 1]
    BY <2>1, TakenLine
  <2>3. channel'[s][r] = Tail(c) /\ reader'[r][s] = g
    BY <1>1 DEF Taken, ReaderIs
  <2>4. \A i \in 1..Len(c) : c[i].number = 0 <=> i = 1 /\ reader[p][q].at = "listening"
    BY <2>2 DEF StartInv
  <2>5. \A i \in 1..(Len(c) - 1) : Tail(c)[i].number # 0
    <3> SUFFICES ASSUME NEW i \in 1..(Len(c) - 1) PROVE Tail(c)[i].number # 0
      OBVIOUS
    <3>1. i + 1 \in 1..Len(c) /\ i + 1 # 1
      BY <2>2
    <3>2. QED
      BY <2>2, <2>4, <3>1
  <2>6. p \in ToSet(connections[q])
    BY DEF StartInv
  <2>7. QED
    BY <1>1, <2>2, <2>3, <2>5, <2>6 DEF StartInv
<1>2. CASE ~(r = p /\ s = q)
  <2>1. reader'[r][s] = reader[r][s] /\ channel'[s][r] = channel[s][r]
    BY <1>2 DEF ReaderIs, Taken
  <2>2. QED
    BY <2>1 DEF StartInv
<1>3. QED
  BY <1>1, <1>2

\* A line that is typed, sent, read or relayed is a message as it was typed.
LEMMA LineAtWork ==
    ASSUME TypeOK, LineInv
    PROVE  /\ \A p \in Nodes : main[p].at \in {"insert", "send"} =>
                 /\ main[p].line \in Lines /\ main[p].line.verb = FALSE
                 /\ main[p].line.number # 0
                 /\ main[p].line = Plain(p, Len(past[p]))
           /\ \A p, q \in Nodes : reader[p][q].at \in {"lock", "check", "relay"} =>
                 /\ reader[p][q].line \in Lines /\ reader[p][q].line.verb = FALSE
                 /\ reader[p][q].line.number # 0
                 /\ Genuine(reader[p][q].line)
<1>1. ASSUME NEW p \in Nodes, main[p].at \in {"insert", "send"}
      PROVE  /\ main[p].line \in Lines /\ main[p].line.verb = FALSE
             /\ main[p].line.number # 0
             /\ main[p].line = Plain(p, Len(past[p]))
  <2>1. main[p].line \in Lines
    BY <1>1, LineTypes DEF TypeOK, Goroutines
  <2>2. main[p].line = Plain(p, Len(past[p])) /\ Len(past[p]) > 0
    BY <1>1 DEF LineInv
  <2>3. QED
    BY <2>1, <2>2 DEF Plain
<1>2. ASSUME NEW p \in Nodes, NEW q \in Nodes, reader[p][q].at \in {"lock", "check", "relay"}
      PROVE  /\ reader[p][q].line \in Lines /\ reader[p][q].line.verb = FALSE
             /\ reader[p][q].line.number # 0
             /\ Genuine(reader[p][q].line)
  <2>1. reader[p][q].line \in Lines /\ reader[p][q].line # NoLine
    BY <1>2, LineTypes DEF TypeOK, Goroutines
  <2>2. Genuine(reader[p][q].line)
    BY <2>1 DEF LineInv, InHand
  <2>3. QED
    BY <2>1, <2>2 DEF Genuine, Plain
<1>3. QED
  BY <1>1, <1>2

LEMMA StartInvStep ==
    ASSUME TypeOK, LinesIntact, StartInv, LineInv, Next
    PROVE  StartInv'
<1>1. ASSUME NEW p \in Nodes, Start(p) PROVE StartInv'
  <2>1. PICK g : g.at = "dial" /\ g.line = main[p].line /\ MainIs(p, g)
    BY <1>1, StartDoes
  <2>2. main[p].at = "off" /\ UNCHANGED <<connections, channel, reader, alive>>
    BY <1>1, StartDoes
  <2>3. QED
    BY <2>1, <2>2 DEF StartInv, Started, MainIs
<1>2. ASSUME NEW p \in Nodes, Dial(p) PROVE StartInv'
  <2>0. PICK q \in Nodes \ {p} : \E g :
           /\ p \in alive /\ q \in alive /\ main[p].at = "dial"
           /\ q \notin ToSet(connections[p])
           /\ g.at \in {"dial", "collect"} /\ g.line = main[p].line
           /\ g.at = "collect" => Nodes \ {p} \subseteq ToSet(connections[p]) \cup {q}
           /\ MainIs(p, g)
           /\ Written(p, q, Name(p))
           /\ \A r \in Nodes : ToSet(connections'[r]) = IF r = p
                                 THEN ToSet(connections[r]) \cup {q}
                                 ELSE ToSet(connections[r])
           /\ UNCHANGED <<set, reader, printed, alive, past>>
    BY <1>2, DialDoes
  <2>1. PICK g :
           /\ p \in alive /\ q \in alive /\ main[p].at = "dial"
           /\ q \notin ToSet(connections[p])
           /\ g.at \in {"dial", "collect"} /\ g.line = main[p].line
           /\ g.at = "collect" => Nodes \ {p} \subseteq ToSet(connections[p]) \cup {q}
           /\ MainIs(p, g)
           /\ Written(p, q, Name(p))
           /\ \A r \in Nodes : ToSet(connections'[r]) = IF r = p
                                 THEN ToSet(connections[r]) \cup {q}
                                 ELSE ToSet(connections[r])
           /\ UNCHANGED <<set, reader, printed, alive, past>>
    BY <2>0
  <2>2. channel[p][q] = <<>> /\ reader[q][p].at = "listening"
    BY <2>1 DEF StartInv
  <2>3. /\ channel'[p][q] = <<Name(p)>> /\ channel'[p][q] # <<>>
        /\ DOMAIN channel'[p][q] = {1} /\ channel'[p][q][1] = Name(p)
    <3>1. channel'[p][q] = Append(channel[p][q], Name(p))
      BY <2>1 DEF Written
    <3>2. QED
      BY <2>2, <3>1
  <2>4. Name(p).number = 0
    BY DEF Name
  <2> SUFFICES ASSUME NEW r \in Nodes, NEW s \in Nodes
               PROVE  /\ main'[r].at \notin {"off", "dial"} =>
                            Nodes \ {r} \subseteq ToSet(connections'[r])
                      /\ reader[r][s].at \in {"listening", "named"} <=> ~Started(r)'
                      /\ r # s =>
                            /\ r \notin ToSet(connections'[s]) =>
                                  channel'[s][r] = <<>> /\ reader[r][s].at = "listening"
                            /\ /\ {r, s} \subseteq alive
                               /\ reader[r][s].at = "listening"
                               /\ r \in ToSet(connections'[s])
                               => channel'[s][r] # <<>>
                            /\ \A i \in DOMAIN channel'[s][r] :
                                  channel'[s][r][i].number = 0
                                     <=> i = 1 /\ reader[r][s].at = "listening"
    BY <2>1 DEF StartInv
  <2>5. main'[r].at \notin {"off", "dial"} => Nodes \ {r} \subseteq ToSet(connections'[r])
    <3>1. CASE r = p
      BY <2>1, <3>1 DEF MainIs
    <3>2. CASE r # p
      BY <2>1, <3>2 DEF StartInv, MainIs
    <3>3. QED
      BY <3>1, <3>2
  <2>6. reader[r][s].at \in {"listening", "named"} <=> ~Started(r)'
    BY <2>1 DEF StartInv, Started, MainIs
  <2>7. CASE s = p /\ r = q
    BY <2>1, <2>2, <2>3, <2>4, <2>5, <2>6, <2>7
  <2>8. CASE ~(s = p /\ r = q)
    <3>1. channel'[s][r] = channel[s][r]
      BY <2>1, <2>8 DEF Written
    <3>2. r \in ToSet(connections'[s]) <=> r \in ToSet(connections[s])
      BY <2>1, <2>8
    <3>3. QED
      BY <2>5, <2>6, <3>1, <3>2 DEF StartInv
  <2>9. QED
    BY <2>7, <2>8
<1>3. ASSUME NEW p \in Nodes, SpawnReaders(p) PROVE StartInv'
  <2>1. PICK g : g.at = "input" /\ g.line = main[p].line /\ MainIs(p, g)
    BY <1>3, SpawnDoes
  <2>2. /\ main[p].at = "collect"
        /\ \A q \in Nodes \ {p} : reader[p][q].at = "named"
        /\ \A r, s \in Nodes : IF r = p THEN reader'[r][s].at = "reading"
                               ELSE reader'[r][s] = reader[r][s]
        /\ UNCHANGED <<connections, channel, alive>>
    BY <1>3, SpawnDoes
  <2>3. QED
    BY <2>1, <2>2 DEF StartInv, Started, MainIs
<1>4. ASSUME NEW p \in Nodes, NEW q \in Nodes, HearName(p, q) PROVE StartInv'
  <2>1. PICK g : g.at = "named" /\ g.line = reader[p][q].line /\ ReaderIs(p, q, g)
    BY <1>4, HearDoes
  <2>2. /\ p # q /\ reader[p][q].at = "listening" /\ p \in ToSet(connections[q])
        /\ UNCHANGED <<connections, main, alive>>
        /\ Taken(p, q) \/ (channel' = channel /\ channel[q][p] = <<>> /\ q \notin alive)
    BY <1>4, HearDoes
  <2>3. CASE Taken(p, q)
    BY <2>1, <2>2, <2>3, TakeKeepsStart
  <2>4. CASE channel' = channel /\ channel[q][p] = <<>>
    BY <2>1, <2>2, <2>4 DEF StartInv, Started, ReaderIs
  <2>5. QED
    BY <2>2, <2>3, <2>4
<1>5. ASSUME NEW p \in Nodes, Type(p) \/ Insert(p) PROVE StartInv'
  <2>1. PICK g : g.at \in {"insert", "send"} /\ MainIs(p, g)
    BY <1>5, TypeDoes, InsertDoes
  <2>2. /\ main[p].at \in {"input", "insert"}
        /\ UNCHANGED <<connections, channel, reader, alive>>
    BY <1>5, TypeDoes, InsertDoes
  <2>3. QED
    BY <2>1, <2>2 DEF StartInv, Started, MainIs
<1>6. ASSUME NEW p \in Nodes, Send(p) PROVE StartInv'
  <2>1. /\ main[p].at = "send" /\ main[p].line \in Lines
        /\ main[p].line.number # 0 /\ main[p].line.verb = FALSE
    BY <1>6, LineAtWork DEF Send
  <2>2. PICK g : /\ g.at \in {"send", "input"}
                 /\ g.at = "send" => /\ g.line = main[p].line
                                     /\ main[p].to # <<>> /\ g.to = Tail(main[p].to)
                 /\ g.at = "input" => g.line = NoLine /\ Len(main[p].to) <= 1
                 /\ MainIs(p, g)
    BY <1>6, <2>1, SendDoes
  <2>3. /\ p \in alive /\ Written(p, Head(main[p].to), main[p].line)
        /\ UNCHANGED <<connections, reader, alive>>
    BY <1>6, <2>1, SendDoes
  <2>4. QED
    BY <2>1, <2>2, <2>3, WriteKeepsStart DEF Started, MainIs
<1>7. ASSUME NEW p \in Nodes, NEW q \in Nodes, Relay(p, q) PROVE StartInv'
  <2>1. /\ reader[p][q].at = "relay" /\ reader[p][q].line \in Lines
        /\ reader[p][q].line.number # 0 /\ reader[p][q].line.verb = FALSE
    BY <1>7, LineAtWork DEF Relay, At
  <2>2. PICK g : g.at = "relay" /\ ReaderIs(p, q, g)
    BY <1>7, <2>1, RelayDoes
  <2>3. /\ p \in alive /\ Written(p, Head(reader[p][q].to), reader[p][q].line)
        /\ UNCHANGED <<connections, main, alive>>
    BY <1>7, <2>1, RelayDoes
  <2>4. Started(p)
    BY <2>1 DEF StartInv
  <2>5. QED
    BY <2>1, <2>2, <2>3, <2>4, WriteKeepsStart DEF Started, ReaderIs
<1>8. ASSUME NEW p \in Nodes, NEW q \in Nodes, Read(p, q) PROVE StartInv'
  <2>1. PICK g : g.at = "lock" /\ ReaderIs(p, q, g)
    BY <1>8, ReadDoes
  <2>2. /\ p # q /\ reader[p][q].at = "reading" /\ Taken(p, q)
        /\ UNCHANGED <<connections, main, alive>>
    BY <1>8, ReadDoes
  <2>3. QED
    BY <2>1, <2>2, TakeKeepsStart
<1>9. ASSUME NEW p \in Nodes, NEW q \in Nodes,
             \/ Lock(p, q) \/ CheckKnown(p, q) \/ CheckNew(p, q)
             \/ Deliver(p, q) \/ Leave(p, q)
      PROVE  StartInv'
  <2>1. PICK g : g.at \in {"check", "relay", "reading", "left"} /\ ReaderIs(p, q, g)
    BY <1>9, LockDoes, RestDoes, CheckNewDoes
  <2>2. /\ reader[p][q].at \in {"reading", "lock", "check", "relay"}
        /\ UNCHANGED <<connections, channel, main, alive>>
    BY <1>9, LockDoes, RestDoes, CheckNewDoes
  <2>3. QED
    BY <2>1, <2>2 DEF StartInv, Started, ReaderIs
<1>10. ASSUME NEW p \in Nodes, Stop(p) PROVE StartInv'
  <2>1. /\ alive' = alive \ {p} /\ UNCHANGED <<connections, main, reader>>
        /\ \A r, s \in Nodes :
              /\ r # p => channel'[r][s] = channel[r][s]
              /\ DOMAIN channel'[r][s] = 1..Len(channel'[r][s])
              /\ channel'[r][s] \in Seq(Lines) /\ Len(channel'[r][s]) \in Nat
              /\ Len(channel'[r][s]) <= Len(channel[r][s])
              /\ \A i \in 1..Len(channel'[r][s]) : channel'[r][s][i] = channel[r][s][i]
    BY <1>10, StopDoes
  <2> SUFFICES ASSUME NEW r \in Nodes, NEW s \in Nodes, r # s
               PROVE  /\ r \notin ToSet(connections[s]) => channel'[s][r] = <<>>
                      /\ /\ {r, s} \subseteq alive'
                         /\ reader[r][s].at = "listening"
                         /\ r \in ToSet(connections[s])
                         => channel'[s][r] # <<>>
                      /\ \A i \in DOMAIN channel'[s][r] :
                            channel'[s][r][i].number = 0
                               <=> i = 1 /\ reader[r][s].at = "listening"
    BY <2>1 DEF StartInv, Started
  <2>2. channel[s][r] \in Seq(Lines) /\ DOMAIN channel[s][r] = 1..Len(channel[s][r])
        /\ Len(channel[s][r]) \in Nat
    BY LenProperties DEF TypeOK
  <2>3. r \notin ToSet(connections[s]) => channel'[s][r] = <<>>
    <3>1. ASSUME r \notin ToSet(connections[s]) PROVE channel'[s][r] = <<>>
      <4>1. channel[s][r] = <<>>
        BY <3>1 DEF StartInv
      <4>2. Len(channel'[s][r]) = 0
        BY <2>1, <4>1
      <4>3. QED
        BY <2>1, <4>2
    <3>2. QED
      BY <3>1
  <2>4. /\ {r, s} \subseteq alive'
        /\ reader[r][s].at = "listening"
        /\ r \in ToSet(connections[s])
        => channel'[s][r] # <<>>
    BY <2>1 DEF StartInv
  <2>5. ASSUME NEW i \in DOMAIN channel'[s][r]
        PROVE  channel'[s][r][i].number = 0 <=> i = 1 /\ reader[r][s].at = "listening"
    <3>1. /\ DOMAIN channel'[s][r] = 1..Len(channel'[s][r])
          /\ Len(channel'[s][r]) \in Nat /\ Len(channel'[s][r]) <= Len(channel[s][r])
          /\ \A j \in 1..Len(channel'[s][r]) : channel'[s][r][j] = channel[s][r][j]
      BY <2>1
    <3>2. i \in DOMAIN channel[s][r] /\ channel'[s][r][i] = channel[s][r][i]
      BY <2>2, <3>1
    <3>3. QED
      BY <3>2 DEF StartInv
  <2>6. QED
    BY <2>3, <2>4, <2>5
<1>11. QED
  BY <1>1, <1>2, <1>3, <1>4, <1>5, <1>6, <1>7, <1>8, <1>9, <1>10
  DEF Next, StartStep, MainStep, ReaderStep, Crash, RaceFault

------------------------------------------------------------------------------
(* Lines                                                                   *)

LEMMA WrittenSets ==
    ASSUME TypeOK, NEW p, NEW q, NEW line \in Lines, Written(p, q, line),
           NEW r \in Nodes, NEW s \in Nodes
    PROVE  ToSet(channel'[r][s]) = IF r = p /\ s = q /\ q \in alive
                                   THEN ToSet(channel[r][s]) \cup {line}
                                   ELSE ToSet(channel[r][s])
<1>1. channel[r][s] \in Seq(Lines)
  BY DEF TypeOK
<1>2. ToSet(Append(channel[r][s], line)) = ToSet(channel[r][s]) \cup {line}
  BY <1>1, AppendedLine
<1>3. QED
  BY <1>2 DEF Written

LEMMA TakenSets ==
    ASSUME TypeOK, NEW p \in Nodes, NEW q \in Nodes, Taken(p, q)
    PROVE  /\ ToSet(channel[q][p]) = {channel[q][p][1]} \cup ToSet(channel'[q][p])
           /\ channel[q][p][1] \in Lines
           /\ \A r, s \in Nodes : ~(r = q /\ s = p) => channel'[r][s] = channel[r][s]
<1>1. channel[q][p] \in Seq(Lines) /\ channel[q][p] # <<>>
  BY DEF TypeOK, Taken
<1>2. /\ ToSet(channel[q][p]) = {channel[q][p][1]} \cup ToSet(Tail(channel[q][p]))
      /\ channel[q][p][1] \in Lines
  BY <1>1, TakenLine
<1>3. QED
  BY <1>2 DEF Taken

LEMMA StopSets ==
    ASSUME TypeOK, NEW p \in Nodes, Stop(p), NEW r \in Nodes, NEW s \in Nodes
    PROVE  ToSet(channel'[r][s]) \subseteq ToSet(channel[r][s])
<1>1. /\ DOMAIN channel'[r][s] = 1..Len(channel'[r][s])
      /\ Len(channel'[r][s]) \in Nat /\ Len(channel'[r][s]) <= Len(channel[r][s])
      /\ \A i \in 1..Len(channel'[r][s]) : channel'[r][s][i] = channel[r][s][i]
  BY StopDoes
<1>2. DOMAIN channel[r][s] = 1..Len(channel[r][s]) /\ Len(channel[r][s]) \in Nat
  BY LenProperties DEF TypeOK
<1>3. QED
  BY <1>1, <1>2 DEF ToSet

LEMMA LineInvInit == Init => LineInv
<1> SUFFICES ASSUME Init PROVE LineInv
  OBVIOUS
<1>1. ASSUME NEW p \in Nodes
      PROVE  set[p] = {} /\ main[p].at \in {"input", "off"} /\ past[p] = <<>>
  BY DEF Init, Doing
<1>2. ASSUME NEW p \in Nodes PROVE Issued(p) = 0
  BY <1>1 DEF Issued
<1>3. ASSUME NEW p \in Nodes, NEW q \in Nodes
      PROVE  reader[p][q].line = NoLine /\ ToSet(channel[p][q]) = {}
  BY DEF Init, Doing, ToSet
<1>4. ASSUME NEW p \in Nodes
      PROVE  /\ \A line \in set[p] : Genuine(line)
             /\ \A n \in 1..Issued(p) : Plain(p, n) \in set[p]
             /\ main[p].at \notin {"insert", "send"}
  BY <1>1, <1>2
<1>5. QED
  BY <1>3, <1>4 DEF LineInv, InHand

LEMMA IssuedIsNat ==
    ASSUME TypeOK, LineInv, NEW p \in Nodes
    PROVE  Issued(p) \in Nat
BY DEF TypeOK, LineInv, Issued

\* What was genuine stays so.
LEMMA StaysGenuine ==
    ASSUME TypeOK, LineInv, NEW line \in Lines, Genuine(line),
           \A p \in Nodes : Issued(p)' \in Nat /\ Issued(p)' >= Issued(p)
    PROVE  Genuine(line)'
<1>1. line.author \in Nodes
  BY DEF Lines
<1>2. Issued(line.author) \in Nat
  BY <1>1, IssuedIsNat
<1>3. QED
  BY <1>1, <1>2 DEF Genuine

\* Steps after which the same lines are issued, those a node learns, is at work on
\* or writes were genuine, and the main loop's line is the one last typed.
LEMMA LineInvFrame ==
    ASSUME TypeOK, TypeOK', LineInv,
           \A p \in Nodes : Issued(p)' = Issued(p),
           \A p \in Nodes : \A line \in set'[p] : Genuine(line),
           \A p \in Nodes : set[p] \subseteq set'[p],
           \A p \in Nodes : main'[p].at \in {"insert", "send"} =>
                Len(past'[p]) > 0 /\ main'[p].line = Plain(p, Len(past'[p])),
           \A p \in Nodes : main'[p].at = "insert" =>
                Nodes \ {p} \subseteq ToSet(main'[p].to),
           \A p, q \in Nodes : \A line \in InHand(p, q)' : Genuine(line),
           \A p, q \in Nodes : p # q => \A line \in ToSet(channel'[p][q]) :
                line.number # 0 => Genuine(line)
    PROVE  LineInv'
<1>1. \A p \in Nodes : Issued(p)' \in Nat /\ Issued(p)' >= Issued(p)
  BY IssuedIsNat
<1>2. ASSUME NEW line \in Lines, Genuine(line) PROVE Genuine(line)'
  BY <1>1, <1>2, StaysGenuine
<1>3. ASSUME NEW p \in Nodes
      PROVE  /\ \A line \in set'[p] : Genuine(line)'
             /\ \A n \in 1..Issued(p)' : Plain(p, n) \in set'[p]
  <2>1. set'[p] \subseteq Lines
    BY DEF TypeOK
  <2>2. \A n \in 1..Issued(p) : Plain(p, n) \in set[p]
    BY DEF LineInv
  <2>3. QED
    BY <1>2, <2>1, <2>2
<1>4. ASSUME NEW p \in Nodes, NEW q \in Nodes
      PROVE  /\ \A line \in InHand(p, q)' : Genuine(line)'
             /\ p # q => \A line \in ToSet(channel'[p][q]) :
                   line.number # 0 => Genuine(line)'
  <2>1. InHand(p, q)' \subseteq Lines
    <3>1. reader'[p][q] \in Goroutines(ReaderPlaces)
      BY DEF TypeOK
    <3>2. QED
      BY <3>1 DEF Goroutines, InHand
  <2>2. ToSet(channel'[p][q]) \subseteq Lines
    <3>1. channel'[p][q] \in Seq(Lines)
      BY DEF TypeOK
    <3>2. QED
      BY <3>1 DEF ToSet
  <2>3. QED
    BY <1>2, <2>1, <2>2
<1>5. QED
  BY <1>3, <1>4 DEF LineInv

\* The typed line enters the set of its author before it is written to any peer.
LEMMA InsertKeepsLines ==
    ASSUME TypeOK, TypeOK', LinesIntact, LineInv, NEW p \in Nodes, Insert(p)
    PROVE  LineInv'
<1>1. PICK g : g.at = "send" /\ g.line = main[p].line /\ g.to = main[p].to /\ MainIs(p, g)
  BY InsertDoes
<1>2. /\ main[p].at = "insert" /\ Learned(p, main[p].line)
      /\ UNCHANGED <<connections, channel, reader, printed, alive, past>>
  BY InsertDoes
<1>3. main[p].line = Plain(p, Len(past[p])) /\ Len(past[p]) \in Nat \ {0}
  BY <1>2 DEF LineInv, TypeOK
<1>4. \A r \in Nodes : Issued(r)' = IF r = p THEN Len(past[p]) ELSE Issued(r)
  BY <1>1, <1>2 DEF Issued, MainIs
<1>5. Issued(p) = Len(past[p]) - 1
  BY <1>2 DEF Issued
<1>6. \A r \in Nodes : Issued(r)' \in Nat /\ Issued(r)' >= Issued(r)
  BY <1>3, <1>4, <1>5, IssuedIsNat
<1>7. ASSUME NEW line \in Lines, Genuine(line) PROVE Genuine(line)'
  BY <1>6, <1>7, StaysGenuine
<1>8. ASSUME NEW r \in Nodes
      PROVE  /\ \A line \in set'[r] : Genuine(line)'
             /\ \A n \in 1..Issued(r)' : Plain(r, n) \in set'[r]
  <2>1. /\ set[r] \subseteq Lines /\ \A line \in set[r] : Genuine(line)
        /\ \A n \in 1..Issued(r) : Plain(r, n) \in set[r]
    BY DEF TypeOK, LineInv
  <2>2. CASE r = p
    <3>1. set'[r] = set[r] \cup {Plain(p, Len(past[p]))}
      BY <1>2, <1>3, <2>2 DEF Learned
    <3>2. \A line \in set'[r] : Genuine(line)'
      <4> SUFFICES ASSUME NEW line \in set'[r] PROVE Genuine(line)'
        OBVIOUS
      <4>1. CASE line \in set[r]
        BY <1>7, <2>1, <4>1
      <4>2. CASE line = Plain(p, Len(past[p]))
        BY <1>3, <1>4, <4>2 DEF Genuine, Plain
      <4>3. QED
        BY <3>1, <4>1, <4>2
    <3>3. \A n \in 1..Issued(r)' : Plain(r, n) \in set'[r]
      <4> SUFFICES ASSUME NEW n \in 1..Issued(r)' PROVE Plain(r, n) \in set'[r]
        OBVIOUS
      <4>1. CASE n = Len(past[p])
        BY <2>2, <3>1, <4>1
      <4>2. CASE n # Len(past[p])
        <5>1. n \in 1..Issued(r)
          BY <1>3, <1>4, <1>5, <2>2, <4>2
        <5>2. QED
          BY <2>1, <3>1, <5>1
      <4>3. QED
        BY <4>1, <4>2
    <3>4. QED
      BY <3>2, <3>3
  <2>3. CASE r # p
    <3>1. set'[r] = set[r] /\ Issued(r)' = Issued(r)
      BY <1>2, <1>4, <2>3 DEF Learned
    <3>2. QED
      BY <1>7, <2>1, <3>1
  <2>4. QED
    BY <2>2, <2>3
<1>9. ASSUME NEW r \in Nodes
       PROVE  /\ main'[r].at \in {"insert", "send"} =>
                    Len(past'[r]) > 0 /\ main'[r].line = Plain(r, Len(past'[r]))
              /\ main'[r].at = "insert" => Nodes \ {r} \subseteq ToSet(main'[r].to)
  BY <1>1, <1>2, <1>3 DEF LineInv, MainIs
<1>10. ASSUME NEW r \in Nodes, NEW s \in Nodes
       PROVE  /\ \A line \in InHand(r, s)' : Genuine(line)'
              /\ r # s => \A line \in ToSet(channel'[r][s]) :
                    line.number # 0 => Genuine(line)'
  <2>1. InHand(r, s) \subseteq Lines /\ InHand(r, s)' = InHand(r, s)
    <3>1. reader[r][s] \in Goroutines(ReaderPlaces)
      BY DEF TypeOK
    <3>2. QED
      BY <1>2, <3>1 DEF Goroutines, InHand
  <2>2. ToSet(channel[r][s]) \subseteq Lines /\ channel'[r][s] = channel[r][s]
    <3>1. channel[r][s] \in Seq(Lines)
      BY DEF TypeOK
    <3>2. QED
      BY <1>2, <3>1 DEF ToSet
  <2>3. /\ \A line \in InHand(r, s) : Genuine(line)
        /\ r # s => \A line \in ToSet(channel[r][s]) : line.number # 0 => Genuine(line)
    BY DEF LineInv
  <2>4. QED
    BY <1>7, <2>1, <2>2, <2>3
<1>11. QED
  BY <1>8, <1>9, <1>10 DEF LineInv

\* Steps of the main loop but Insert: nothing is learned or taken.
LEMMA MainKeepsLines ==
    ASSUME TypeOK, TypeOK', LinesIntact, StartInv, LineInv, NEW p \in Nodes,
           Start(p) \/ Dial(p) \/ SpawnReaders(p) \/ Type(p) \/ Send(p)
    PROVE  LineInv'
<1>1. /\ \A r, s \in Nodes : InHand(r, s)' \subseteq InHand(r, s)
      /\ UNCHANGED set
  <2>1. CASE SpawnReaders(p)
    <3>1. /\ \A r, s \in Nodes : IF r = p THEN reader'[r][s].line = NoLine
                                 ELSE reader'[r][s] = reader[r][s]
          /\ UNCHANGED set
      BY <2>1, SpawnDoes
    <3>2. QED
      BY <3>1 DEF InHand
  <2>2. CASE ~SpawnReaders(p)
    BY <2>2 DEF Start, Dial, Type, Send, InHand
  <2>3. QED
    BY <2>1, <2>2
<1>2. ASSUME NEW r \in Nodes, NEW s \in Nodes, r # s,
             NEW line \in ToSet(channel'[r][s]), line.number # 0
      PROVE  Genuine(line)
  <2>0. line \in ToSet(channel[r][s]) => Genuine(line)
    BY <1>2 DEF LineInv
  <2>1. CASE Dial(p)
    <3>1. PICK q \in Nodes \ {p} : Written(p, q, Name(p))
      BY <2>1, DialDoes
    <3>2. Name(p).number = 0 /\ Name(p) \in Lines
      BY LineTypes DEF Name
    <3>3. ToSet(channel'[r][s]) = IF r = p /\ s = q /\ q \in alive
                                  THEN ToSet(channel[r][s]) \cup {Name(p)}
                                  ELSE ToSet(channel[r][s])
      BY <3>1, <3>2, WrittenSets
    <3>4. QED
      BY <1>2, <2>0, <3>2, <3>3
  <2>2. CASE Send(p)
    <3>1. /\ main[p].line \in Lines /\ main[p].line.verb = FALSE
          /\ main[p].at = "send" /\ main[p].line = Plain(p, Len(past[p]))
          /\ Len(past[p]) \in Nat /\ Len(past[p]) > 0
      <4>1. main[p].at = "send"
        BY <2>2 DEF Send
      <4>2. Len(past[p]) \in Nat /\ Len(past[p]) > 0
        <5>1. Len(past[p]) \in Nat
          BY DEF TypeOK
        <5>2. QED
          BY <4>1, <5>1 DEF LineInv
      <4>3. QED
        BY <4>1, <4>2, LineAtWork
    <3>2. PICK q : Written(p, q, main[p].line)
      BY <2>2, <3>1, SendDoes
    <3>3. Genuine(main[p].line)
      BY <3>1 DEF Genuine, Plain, Issued
    <3>4. ToSet(channel'[r][s]) \subseteq ToSet(channel[r][s]) \cup {main[p].line}
      <4>1. PICK written \in Lines : written = main[p].line
        BY <3>1
      <4>2. Written(p, q, written)
        BY <3>2, <4>1
      <4>3. ToSet(channel'[r][s]) = IF r = p /\ s = q /\ q \in alive
                                    THEN ToSet(channel[r][s]) \cup {written}
                                    ELSE ToSet(channel[r][s])
        BY <4>2, WrittenSets
      <4>4. QED
        BY <4>1, <4>3
    <3>5. QED
      BY <2>0, <3>3, <3>4
  <2>3. CASE Start(p) \/ SpawnReaders(p) \/ Type(p)
    BY <2>0, <2>3 DEF Start, SpawnReaders, Type
  <2>4. QED
    BY <2>1, <2>2, <2>3
<1>3. ASSUME NEW r \in Nodes
      PROVE  /\ Issued(r)' = Issued(r)
             /\ main'[r].at \in {"insert", "send"} =>
                   Len(past'[r]) > 0 /\ main'[r].line = Plain(r, Len(past'[r]))
             /\ main'[r].at = "insert" => Nodes \ {r} \subseteq ToSet(main'[r].to)
  <2>0. /\ main[r].at \in {"insert", "send"} =>
              Len(past[r]) > 0 /\ main[r].line = Plain(r, Len(past[r]))
        /\ main[r].at = "insert" => Nodes \ {r} \subseteq ToSet(main[r].to)
    BY DEF LineInv
  <2>1. CASE Start(p)
    <3>1. PICK g : g.at = "dial" /\ g.line = main[p].line /\ MainIs(p, g)
      BY <2>1, StartDoes
    <3>2. main[p].at = "off" /\ UNCHANGED past
      BY <2>1, StartDoes
    <3>3. QED
      BY <2>0, <3>1, <3>2 DEF MainIs, Issued
  <2>2. CASE Dial(p)
    <3>1. PICK g : g.at \in {"dial", "collect"} /\ MainIs(p, g)
      BY <2>2, DialDoes
    <3>2. main[p].at = "dial" /\ UNCHANGED past
      BY <2>2 DEF Dial
    <3>3. QED
      BY <2>0, <3>1, <3>2 DEF MainIs, Issued
  <2>3. CASE SpawnReaders(p)
    <3>1. PICK g : g.at = "input" /\ g.line = main[p].line /\ MainIs(p, g)
      BY <2>3, SpawnDoes
    <3>2. main[p].at = "collect" /\ UNCHANGED past
      BY <2>3, SpawnDoes
    <3>3. QED
      BY <2>0, <3>1, <3>2 DEF MainIs, Issued
  <2>4. CASE Type(p)
    <3>1. PICK g : /\ g.at = "insert" /\ g.line = Plain(p, Len(past[p]) + 1)
                   /\ g.to = connections[p] /\ MainIs(p, g)
      BY <2>4, TypeDoes
    <3>2. /\ main[p].at = "input" /\ Len(past[p]) \in Nat
          /\ \A s \in Nodes : Len(past'[s]) = IF s = p THEN Len(past[s]) + 1 ELSE Len(past[s])
      BY <2>4, TypeDoes
    <3>3. Nodes \ {p} \subseteq ToSet(connections[p])
      BY <3>2 DEF StartInv
    <3>4. CASE r = p
      BY <3>1, <3>2, <3>3, <3>4 DEF MainIs, Issued
    <3>5. CASE r # p
      BY <2>0, <3>1, <3>2, <3>5 DEF MainIs, Issued
    <3>6. QED
      BY <3>4, <3>5
  <2>5. CASE Send(p)
    <3>1. main[p].line.verb = FALSE
      BY <2>5, LineAtWork DEF Send
    <3>2. PICK g : /\ g.at \in {"send", "input"}
                   /\ g.at = "send" => /\ g.line = main[p].line
                                       /\ main[p].to # <<>> /\ g.to = Tail(main[p].to)
                   /\ g.at = "input" => g.line = NoLine /\ Len(main[p].to) <= 1
                   /\ MainIs(p, g)
      BY <2>5, <3>1, SendDoes
    <3>3. main[p].at = "send" /\ UNCHANGED past
      BY <2>5 DEF Send
    <3>4. QED
      BY <2>0, <3>2, <3>3 DEF MainIs, Issued
  <2>6. QED
    BY <2>1, <2>2, <2>3, <2>4, <2>5
<1>4. ASSUME NEW r \in Nodes PROVE \A line \in set[r] : Genuine(line)
  BY DEF LineInv
<1>5. ASSUME NEW r \in Nodes, NEW s \in Nodes PROVE \A line \in InHand(r, s)' : Genuine(line)
  BY <1>1 DEF LineInv
<1>6. QED
  BY <1>1, <1>2, <1>3, <1>4, <1>5, LineInvFrame

\* What a reader learns, reads or relays is a line that it had, or that was written
\* to it after the name.
LEMMA ReaderKeepsLines ==
    ASSUME TypeOK, TypeOK', LinesIntact, StartInv, LineInv,
           NEW p \in Nodes, NEW q \in Nodes, HearName(p, q) \/ ReaderStep(p, q)
    PROVE  LineInv'
<1>1. UNCHANGED <<main, past>>
  BY DEF HearName, ReaderStep, Read, Lock, CheckKnown, CheckNew, Relay, Deliver, Leave
<1>2. ASSUME NEW r \in Nodes
      PROVE  (\A line \in set'[r] : Genuine(line)) /\ set[r] \subseteq set'[r]
  <2>1. \A line \in set[r] : Genuine(line)
    BY DEF LineInv
  <2>2. CASE CheckNew(p, q)
    <3>1. Learned(p, reader[p][q].line) /\ reader[p][q].at = "check"
      BY <2>2, CheckNewDoes
    <3>2. Genuine(reader[p][q].line)
      BY <3>1, LineAtWork
    <3>3. QED
      BY <2>1, <3>1, <3>2 DEF Learned
  <2>3. CASE ~CheckNew(p, q)
    <3>1. set' = set
      BY <2>3 DEF HearName, ReaderStep, Read, Lock, CheckKnown, Relay, Deliver, Leave
    <3>2. QED
      BY <2>1, <3>1
  <2>4. QED
    BY <2>2, <2>3
<1>3. ASSUME NEW r \in Nodes, NEW s \in Nodes, NEW line \in InHand(r, s)'
      PROVE  Genuine(line)
  <2>1. PICK g : /\ ReaderIs(p, q, g)
                 /\ \/ g.line \in {NoLine, reader[p][q].line}
                    \/ Read(p, q) /\ g.line = channel[q][p][1]
    <3>1. CASE HearName(p, q)
      BY <3>1, HearDoes
    <3>2. CASE Read(p, q)
      BY <3>2, ReadDoes
    <3>3. CASE Lock(p, q)
      BY <3>3, LockDoes
    <3>4. CASE CheckKnown(p, q) \/ Deliver(p, q) \/ Leave(p, q)
      BY <3>4, RestDoes
    <3>5. CASE CheckNew(p, q)
      BY <3>5, CheckNewDoes
    <3>6. CASE Relay(p, q)
      <4>1. reader[p][q].line.verb = FALSE
        BY <3>6, LineAtWork DEF Relay, At
      <4>2. PICK h : /\ h.at = "relay" /\ h.line = reader[p][q].line
                     /\ h.to = Tail(reader[p][q].to) /\ ReaderIs(p, q, h)
        BY <3>6, <4>1, RelayDoes
      <4>3. QED
        BY <4>2
    <3>7. QED
      BY <3>1, <3>2, <3>3, <3>4, <3>5, <3>6 DEF ReaderStep
  <2>2. line = reader'[r][s].line /\ line # NoLine
    BY DEF InHand
  <2>3. CASE line = reader[r][s].line
    BY <2>2, <2>3 DEF LineInv, InHand
  <2>4. CASE line # reader[r][s].line
    <3>1. r = p /\ s = q /\ line = g.line /\ Read(p, q) /\ line = channel[q][p][1]
      BY <2>1, <2>2, <2>4 DEF ReaderIs
    <3>2. p # q /\ reader[p][q].at = "reading" /\ Taken(p, q)
      BY <3>1, ReadDoes
    <3>3. channel[q][p] \in Seq(Lines) /\ channel[q][p] # <<>>
      BY <3>2 DEF TypeOK, Taken
    <3>4. 1 \in DOMAIN channel[q][p] /\ line \in ToSet(channel[q][p])
      BY <3>1, <3>3, TakenLine DEF ToSet
    <3>5. line.number # 0
      BY <3>1, <3>2, <3>4 DEF StartInv
    <3>6. QED
      BY <3>2, <3>4, <3>5 DEF LineInv
  <2>5. QED
    BY <2>3, <2>4
<1>4. ASSUME NEW r \in Nodes, NEW s \in Nodes, r # s,
             NEW line \in ToSet(channel'[r][s]), line.number # 0
      PROVE  Genuine(line)
  <2>0. line \in ToSet(channel[r][s]) => Genuine(line)
    BY <1>4 DEF LineInv
  <2>1. CASE Taken(p, q)
    BY <2>0, <2>1, TakenSets
  <2>2. CASE Relay(p, q)
    <3>1. reader[p][q].line \in Lines /\ Genuine(reader[p][q].line)
          /\ reader[p][q].line.verb = FALSE
      BY <2>2, LineAtWork DEF Relay, At
    <3>2. PICK to : Written(p, to, reader[p][q].line)
      BY <2>2, <3>1, RelayDoes
    <3>3. PICK written \in Lines : written = reader[p][q].line
      BY <3>1
    <3>4. ToSet(channel'[r][s]) = IF r = p /\ s = to /\ to \in alive
                                  THEN ToSet(channel[r][s]) \cup {written}
                                  ELSE ToSet(channel[r][s])
      BY <3>2, <3>3, WrittenSets
    <3>5. QED
      BY <2>0, <3>1, <3>3, <3>4
  <2>3. CASE channel' = channel
    BY <2>0, <2>3
  <2>4. Taken(p, q) \/ Relay(p, q) \/ channel' = channel
    BY HearDoes, ReadDoes DEF ReaderStep, Lock, CheckKnown, CheckNew, Deliver, Leave
  <2>5. QED
    BY <2>1, <2>2, <2>3, <2>4
<1>5. ASSUME NEW r \in Nodes
      PROVE  /\ Issued(r)' = Issued(r)
             /\ main'[r].at \in {"insert", "send"} =>
                   Len(past'[r]) > 0 /\ main'[r].line = Plain(r, Len(past'[r]))
             /\ main'[r].at = "insert" => Nodes \ {r} \subseteq ToSet(main'[r].to)
  BY <1>1 DEF LineInv, Issued
<1>6. QED
  BY <1>2, <1>3, <1>4, <1>5, LineInvFrame

LEMMA LineInvStep ==
    ASSUME TypeOK, TypeOK', LinesIntact, StartInv, LineInv, Next
    PROVE  LineInv'
<1>1. ASSUME NEW p \in Nodes, Stop(p) PROVE LineInv'
  <2>1. UNCHANGED <<set, main, reader, past>>
    BY <1>1, StopDoes
  <2>2. \A r, s \in Nodes : ToSet(channel'[r][s]) \subseteq ToSet(channel[r][s])
    BY <1>1, StopSets
  <2>3. /\ \A r \in Nodes : Issued(r)' = Issued(r)
        /\ \A r, s \in Nodes : InHand(r, s)' = InHand(r, s)
    BY <2>1 DEF Issued, InHand
  <2>4. /\ \A r, s \in Nodes : \A line \in InHand(r, s)' : Genuine(line)
        /\ \A r, s \in Nodes : r # s => \A line \in ToSet(channel'[r][s]) :
              line.number # 0 => Genuine(line)
    <3>1. \A r, s \in Nodes : \A line \in InHand(r, s) : Genuine(line)
      BY DEF LineInv
    <3>2. \A r, s \in Nodes : r # s => \A line \in ToSet(channel[r][s]) :
             line.number # 0 => Genuine(line)
      BY DEF LineInv
    <3>3. QED
      BY <2>2, <2>3, <3>1, <3>2
  <2>5. /\ \A r \in Nodes : \A line \in set'[r] : Genuine(line)
        /\ \A r \in Nodes : set[r] \subseteq set'[r]
        /\ \A r \in Nodes : main'[r].at \in {"insert", "send"} =>
              Len(past'[r]) > 0 /\ main'[r].line = Plain(r, Len(past'[r]))
        /\ \A r \in Nodes : main'[r].at = "insert" => Nodes \ {r} \subseteq ToSet(main'[r].to)
    <3>1. /\ \A r \in Nodes : \A line \in set[r] : Genuine(line)
          /\ \A r \in Nodes : main[r].at \in {"insert", "send"} =>
                Len(past[r]) > 0 /\ main[r].line = Plain(r, Len(past[r]))
          /\ \A r \in Nodes : main[r].at = "insert" => Nodes \ {r} \subseteq ToSet(main[r].to)
      BY DEF LineInv
    <3>2. QED
      BY <2>1, <3>1
  <2>6. QED
    BY <2>3, <2>4, <2>5, LineInvFrame
<1>2. QED
  BY <1>1, MainKeepsLines, InsertKeepsLines, ReaderKeepsLines
  DEF Next, StartStep, MainStep, Crash, RaceFault
==============================================================================
