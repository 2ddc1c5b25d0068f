--------------------------- MODULE PeerNetworkProofs ---------------------------
(***************************************************************************)
(* What holds of the network of peers for any number of nodes, whatever    *)
(* the service sends: its types, whatever nodes stop and connections are   *)
(* closed; if none do, that every peer is told every transaction; and, if  *)
(* nodes stop and no connection is closed under them, that only a node     *)
(* that has stopped is said to be gone.                                    *)
(***************************************************************************)
EXTENDS PeerNetwork, SequenceTheorems, FiniteSetTheorems, TLAPS

Introductions ==
    {INTRODUCE(n, n) : n \in Nodes} \cup {INTRODUCE(n, Service) : n \in Nodes}
Lines ==
    Introductions
        \cup {DELETE(n) : n \in Names} \cup {NAME(n) : n \in Names}
        \cup {TRANSACTION(t) : t \in Transactions}

\* A connection with what is on its way.
Carriers == [from : Nodes, to : Addresses, open : BOOLEAN, lines : Seq(Lines)]

\* The node of goroutine g, when w are the connections.
NodeOf(g, w) == IF g[1] = "listener" THEN w[g[2]].to ELSE g[2]

\* What goroutine g may be doing: what it knows or passes on is such a line, and what it
\* introduces its node on is a connection of the node.
WorkTyped(g, d, w) ==
    /\ d = Doing(d.at, d.name, d.line, d.conn)
    /\ d.name \in Names
    /\ d.at \in {"check", "learn", "gossip"} => d.line \in Introductions
    /\ g[1] = "clerk" /\ d.at = "connect" => d.line \in Introductions
    /\ d.at \in {"spread", "enter"} => d.line \in {TRANSACTION(t) : t \in Transactions}
    /\ d.at \in {"introduce", "snapshot"} =>
          d.conn \in DOMAIN w /\ w[d.conn].from = NodeOf(g, w)
    /\ g[1] = "listener" /\ g[2] \notin DOMAIN w => d.at = "backlog"

NodesTyped ==
    /\ DOMAIN nodesMap = Nodes
    /\ \A p \in Nodes : \A n \in Known(p) : n \in Nodes /\ nodesMap[p][n] \in {n, Service}

\* What p may have in connections.
OutTyped(p, out, w) ==
    \A n \in DOMAIN out : n \in Names /\ out[n] \in DOMAIN w /\ w[out[n]].from = p

Types ==
    /\ wire \in Seq(Carriers) /\ Len(wire) <= MaxConnections
    /\ NodesTyped
    /\ DOMAIN connections = Nodes
    /\ \A p \in Nodes : OutTyped(p, connections[p], wire)
    /\ transactions \in [Nodes -> SUBSET Transactions]
    /\ DOMAIN doing = Goroutines
    /\ \A g \in Goroutines : WorkTyped(g, doing[g], wire)
    /\ alive \subseteq Nodes

\* Connections are added, and keep their ends.
Grows(w, v) ==
    /\ DOMAIN w \subseteq DOMAIN v
    /\ \A c \in DOMAIN w : v[c].from = w[c].from /\ v[c].to = w[c].to

------------------------------------------------------------------------------
(* Lines and sequences of them                                             *)

LEMMA LineKinds ==
    ASSUME NEW line \in Lines
    PROVE  /\ line.type \in {"INTRODUCE", "DELETE", "NAME", "TRANSACTION"}
           /\ line.type = "INTRODUCE" => line \in Introductions
           /\ line.type # "TRANSACTION" => line.name \in Names
           /\ line.type = "TRANSACTION" =>
                 line \in {TRANSACTION(t) : t \in Transactions}
           /\ secondWord(line) \in Names
<1>1. CASE line \in Introductions
  BY <1>1 DEF Introductions, INTRODUCE, secondWord, Names
<1>2. CASE \E n \in Names : line = DELETE(n) \/ line = NAME(n)
  BY <1>2 DEF DELETE, NAME, secondWord, Names
<1>3. CASE \E t \in Transactions : line = TRANSACTION(t)
  BY <1>3 DEF TRANSACTION, secondWord, Names
<1>4. QED
  BY <1>1, <1>2, <1>3 DEF Lines

LEMMA IntroductionFields ==
    ASSUME NEW line \in Introductions
    PROVE  /\ line \in Lines /\ line.type = "INTRODUCE"
           /\ line.name \in Nodes /\ line.address \in {line.name, Service}
BY DEF Introductions, INTRODUCE, Lines

LEMMA TransactionFields ==
    ASSUME NEW line \in {TRANSACTION(t) : t \in Transactions}
    PROVE  /\ line \in Lines /\ line.type = "TRANSACTION"
           /\ line.transaction \in Transactions /\ line = TRANSACTION(line.transaction)
BY DEF TRANSACTION, Lines

LEMMA GoroutineKinds ==
    /\ \A p \in Nodes : /\ Clerk(p) \in Goroutines /\ Clerk(p)[1] = "clerk"
                        /\ Clerk(p)[2] = p
                        /\ Manager(p) \in Goroutines /\ Manager(p)[1] = "manager"
                        /\ Manager(p)[2] = p
    /\ \A c \in Ids : /\ Listener(c) \in Goroutines /\ Listener(c)[1] = "listener"
                      /\ Listener(c)[2] = c
    /\ \A g \in Goroutines :
          \/ \E p \in Nodes : g = Clerk(p) \/ g = Manager(p)
          \/ \E c \in Ids : g = Listener(c)
BY DEF Goroutines, Clerk, Manager, Listener

LEMMA Carrier ==
    ASSUME wire \in Seq(Carriers), NEW c \in DOMAIN wire
    PROVE  /\ wire[c] \in Carriers
           /\ wire[c].from \in Nodes /\ wire[c].to \in Addresses
           /\ wire[c].open \in BOOLEAN /\ wire[c].lines \in Seq(Lines)
           /\ wire[c].lines # <<>> => Head(wire[c].lines) \in Lines
           /\ Tail(wire[c].lines) \in Seq(Lines) \/ wire[c].lines = <<>>
<1>1. wire[c] \in Carriers
  BY ElementOfSeq
<1>2. wire[c].lines \in Seq(Lines)
  BY <1>1 DEF Carriers
<1>3. wire[c].lines # <<>> =>
         Head(wire[c].lines) \in Lines /\ Tail(wire[c].lines) \in Seq(Lines)
  BY <1>2, HeadTailProperties
<1>4. QED
  BY <1>1, <1>2, <1>3 DEF Carriers

\* The connections are as before but for what is on them.
LEMMA WireKept ==
    ASSUME wire \in Seq(Carriers), NEW v,
           \E D : v \in [DOMAIN wire -> D],
           \A c \in DOMAIN wire :
               /\ v[c] \in Carriers
               /\ v[c].from = wire[c].from /\ v[c].to = wire[c].to
    PROVE  v \in Seq(Carriers) /\ Len(v) = Len(wire) /\ Grows(wire, v)
<1>1. Len(wire) \in Nat /\ DOMAIN wire = 1..Len(wire)
  BY LenProperties
<1>2. v \in [1..Len(wire) -> Carriers]
  BY <1>1
<1>3. v \in Seq(Carriers) /\ DOMAIN v = 1..Len(wire)
  BY <1>1, <1>2, SeqDef
<1>4. Len(v) = Len(wire)
  BY <1>1, <1>3, LenProperties
<1>5. QED
  BY <1>1, <1>3, <1>4 DEF Grows

LEMMA WriteTyped ==
    ASSUME wire \in Seq(Carriers), NEW lines \in Seq(Lines), NEW d \in DOMAIN wire
    PROVE  /\ Write(lines, d) \in Seq(Carriers) /\ Len(Write(lines, d)) = Len(wire)
           /\ Grows(wire, Write(lines, d))
           /\ \A c \in DOMAIN wire : c # d => Write(lines, d)[c] = wire[c]
           /\ Write(lines, d)[d] \in Carriers
           /\ Write(lines, d)[d].from = wire[d].from
           /\ Write(lines, d)[d].to = wire[d].to
           /\ Write(lines, d)[d].open = wire[d].open
           /\ Write(lines, d)[d].lines =
                 IF wire[d].open /\ wire[d].to # Service
                 THEN wire[d].lines \o lines ELSE wire[d].lines
<1> DEFINE v == Write(lines, d)
           new == IF wire[d].open /\ wire[d].to # Service
                  THEN wire[d].lines \o lines ELSE wire[d].lines
<1>1. v = [wire EXCEPT ![d].lines = new]
  BY DEF Write
<1>2. wire[d] \in Carriers /\ wire[d].lines \in Seq(Lines)
  BY Carrier
<1>3. new \in Seq(Lines)
  BY <1>2, ConcatProperties
<1>4. /\ v[d] = [wire[d] EXCEPT !.lines = new]
      /\ \A c \in DOMAIN wire : c # d => v[c] = wire[c]
      /\ v = [c \in DOMAIN wire |-> v[c]]
  BY <1>1
<1> HIDE DEF v, new
<1>5. /\ v[d] \in Carriers
      /\ v[d].from = wire[d].from /\ v[d].to = wire[d].to /\ v[d].open = wire[d].open
      /\ v[d].lines = new
  BY <1>2, <1>3, <1>4 DEF Carriers
<1>6. \A c \in DOMAIN wire :
         /\ v[c] \in Carriers
         /\ v[c].from = wire[c].from /\ v[c].to = wire[c].to
  BY <1>4, <1>5, Carrier
<1>7. v \in [DOMAIN wire -> Carriers]
  BY <1>4, <1>6
<1>8. v \in Seq(Carriers) /\ Len(v) = Len(wire) /\ Grows(wire, v)
  BY <1>6, <1>7, WireKept
<1>9. QED
  BY <1>4, <1>5, <1>8 DEF v, new

\* A line passed on reaches every connection that p keeps and is not closed.
LEMMA MulticastTyped ==
    ASSUME wire \in Seq(Carriers), NEW p, NEW line \in Lines
    PROVE  /\ Multicast(p, line) \in Seq(Carriers)
           /\ Len(Multicast(p, line)) = Len(wire)
           /\ Grows(wire, Multicast(p, line))
           /\ \A c \in DOMAIN wire :
                 /\ Multicast(p, line)[c].open = wire[c].open
                 /\ Multicast(p, line)[c].lines =
                       IF c \in Kept(p) /\ wire[c].open /\ wire[c].to # Service
                       THEN wire[c].lines \o <<line>> ELSE wire[c].lines
<1> DEFINE v == Multicast(p, line)
<1>1. <<line>> \in Seq(Lines)
  OBVIOUS
<1>2. /\ v = [c \in DOMAIN wire |-> v[c]]
      /\ \A c \in DOMAIN wire :
            v[c] = IF c \in Kept(p) THEN Write(<<line>>, c)[c] ELSE wire[c]
  BY DEF Multicast
<1> HIDE DEF v
<1>3. ASSUME NEW c \in DOMAIN wire
      PROVE  /\ v[c] \in Carriers
             /\ v[c].from = wire[c].from /\ v[c].to = wire[c].to
             /\ v[c].open = wire[c].open
             /\ v[c].lines = IF c \in Kept(p) /\ wire[c].open /\ wire[c].to # Service
                             THEN wire[c].lines \o <<line>> ELSE wire[c].lines
  <2>1. CASE c \in Kept(p)
    <3>1. v[c] = Write(<<line>>, c)[c]
      BY <1>2, <2>1
    <3>2. /\ Write(<<line>>, c)[c] \in Carriers
          /\ Write(<<line>>, c)[c].from = wire[c].from
          /\ Write(<<line>>, c)[c].to = wire[c].to
          /\ Write(<<line>>, c)[c].open = wire[c].open
          /\ Write(<<line>>, c)[c].lines =
                 IF wire[c].open /\ wire[c].to # Service
                 THEN wire[c].lines \o <<line>> ELSE wire[c].lines
      BY <1>1, WriteTyped
    <3>3. QED
      BY <2>1, <3>1, <3>2
  <2>2. CASE c \notin Kept(p)
    BY <1>2, <2>2, Carrier
  <2>3. QED
    BY <2>1, <2>2
<1>4. v \in [DOMAIN wire -> Carriers]
  BY <1>2, <1>3
<1>5. v \in Seq(Carriers) /\ Len(v) = Len(wire) /\ Grows(wire, v)
  BY <1>3, <1>4, WireKept
<1>6. QED
  BY <1>3, <1>5 DEF v

LEMMA Closes ==
    ASSUME NEW x \in Carriers, NEW y, y = [x EXCEPT !.open = FALSE]
    PROVE  /\ y \in Carriers /\ y.from = x.from /\ y.to = x.to
           /\ ~y.open /\ y.lines = x.lines
<1>1. DOMAIN x = {"from", "to", "open", "lines"}
  BY DEF Carriers
<1>2. y = [f \in {"from", "to", "open", "lines"} |-> IF f = "open" THEN FALSE ELSE x[f]]
  BY <1>1, Zenon
<1>3. /\ DOMAIN y = {"from", "to", "open", "lines"}
      /\ y.from = x.from /\ y.to = x.to /\ y.open = FALSE /\ y.lines = x.lines
  BY <1>2
<1>4. y \in Carriers
  BY <1>2, <1>3 DEF Carriers
<1>5. QED
  BY <1>3, <1>4

\* One connection is changed.
LEMMA OneChanged ==
    ASSUME wire \in Seq(Carriers), NEW w \in Seq(Carriers), Len(w) = Len(wire),
           Grows(wire, w), NEW c \in DOMAIN wire, NEW x \in Carriers,
           x.from = w[c].from, x.to = w[c].to, NEW v, v = [w EXCEPT ![c] = x]
    PROVE  v \in Seq(Carriers) /\ Len(v) = Len(wire) /\ Grows(wire, v)
<1>1. DOMAIN w = 1..Len(wire) /\ DOMAIN wire = 1..Len(wire) /\ Len(wire) \in Nat
  BY LenProperties
<1>2. /\ v[c] = x
      /\ \A d \in DOMAIN wire : d # c => v[d] = w[d]
      /\ v = [d \in DOMAIN w |-> v[d]]
  BY <1>1
<1>3. \A d \in DOMAIN wire :
         /\ v[d] \in Carriers
         /\ v[d].from = wire[d].from /\ v[d].to = wire[d].to
  <2>1. \A d \in DOMAIN wire : w[d] \in Carriers
    BY <1>1, ElementOfSeq
  <2>2. QED
    BY <1>2, <2>1 DEF Grows
<1>4. v \in [DOMAIN wire -> Carriers]
  BY <1>1, <1>2, <1>3
<1>5. QED
  BY <1>3, <1>4, WireKept

\* What is left when a line has been taken from a connection.
Taken(w, c) == [w EXCEPT ![c].lines = Tail(@)]

LEMMA RestTyped ==
    ASSUME wire \in Seq(Carriers), NEW w \in Seq(Carriers), Len(w) = Len(wire),
           Grows(wire, w), NEW c \in DOMAIN wire, w[c].lines # <<>>
    PROVE  /\ Taken(w, c) \in Seq(Carriers) /\ Len(Taken(w, c)) = Len(wire)
           /\ Grows(wire, Taken(w, c))
           /\ Taken(w, c)[c].lines = Tail(w[c].lines)
           /\ Taken(w, c)[c].open = w[c].open
           /\ \A d \in DOMAIN wire : d # c => Taken(w, c)[d] = w[d]
<1> DEFINE v == Taken(w, c)
<1>1. DOMAIN w = 1..Len(wire) /\ DOMAIN wire = 1..Len(wire)
  BY LenProperties
<1>2. w[c] \in Carriers
  BY <1>1, ElementOfSeq
<1>3. Tail(w[c].lines) \in Seq(Lines)
  <2>1. w[c].lines \in Seq(Lines)
    BY <1>2 DEF Carriers
  <2>2. QED
    BY <2>1, HeadTailProperties
<1> DEFINE x == [w[c] EXCEPT !.lines = Tail(w[c].lines)]
<1>4. /\ x \in Carriers /\ x.from = w[c].from /\ x.to = w[c].to
      /\ x.lines = Tail(w[c].lines) /\ x.open = w[c].open
  BY <1>2, <1>3 DEF Carriers
<1>5. v = [w EXCEPT ![c] = x]
  BY DEF Taken
<1> HIDE DEF x, v
<1>6. v[c] = x /\ \A d \in DOMAIN wire : d # c => v[d] = w[d]
  BY <1>1, <1>5
<1>7. v \in Seq(Carriers) /\ Len(v) = Len(wire) /\ Grows(wire, v)
  BY <1>4, <1>5, OneChanged
<1>8. QED
  BY <1>4, <1>6, <1>7 DEF v

\* A connection is closed, and what is on it may be lost.
LEMMA ClosedTyped ==
    ASSUME wire \in Seq(Carriers), NEW c \in DOMAIN wire, NEW v,
           \/ v = [wire EXCEPT ![c].open = FALSE]
           \/ v = [wire EXCEPT ![c].open = FALSE, ![c].lines = <<>>]
    PROVE  /\ v \in Seq(Carriers) /\ Len(v) = Len(wire) /\ Grows(wire, v)
           /\ ~v[c].open /\ v[c].lines \in {wire[c].lines, <<>>}
           /\ \A d \in DOMAIN wire : d # c => v[d] = wire[d]
<1>1. wire[c] \in Carriers /\ <<>> \in Seq(Lines)
  BY Carrier
<1> DEFINE x == [wire[c] EXCEPT !.open = FALSE]
           y == [x EXCEPT !.lines = <<>>]
<1>2. /\ x \in Carriers /\ x.from = wire[c].from /\ x.to = wire[c].to
      /\ ~x.open /\ x.lines = wire[c].lines
  BY <1>1, Closes
<1>3. v = [wire EXCEPT ![c] = x] \/ v = [wire EXCEPT ![c] = y]
  OBVIOUS
<1> HIDE DEF x
<1>4. /\ y \in Carriers /\ y.from = x.from /\ y.to = x.to
      /\ y.open = x.open /\ y.lines = <<>>
  BY <1>1, <1>2 DEF Carriers
<1> HIDE DEF y
<1>5. ASSUME NEW z \in Carriers, z.from = wire[c].from, z.to = wire[c].to, ~z.open,
             z.lines \in {wire[c].lines, <<>>}, v = [wire EXCEPT ![c] = z]
      PROVE  /\ v \in Seq(Carriers) /\ Len(v) = Len(wire) /\ Grows(wire, v)
             /\ ~v[c].open /\ v[c].lines \in {wire[c].lines, <<>>}
             /\ \A d \in DOMAIN wire : d # c => v[d] = wire[d]
  <2>1. /\ v[c] = z /\ \A d \in DOMAIN wire : d # c => v[d] = wire[d]
        /\ v = [d \in DOMAIN wire |-> v[d]]
    BY <1>5
  <2>2. \A d \in DOMAIN wire :
           /\ v[d] \in Carriers
           /\ v[d].from = wire[d].from /\ v[d].to = wire[d].to
    BY <1>5, <2>1, Carrier
  <2>3. v \in [DOMAIN wire -> Carriers]
    BY <2>1, <2>2
  <2>4. v \in Seq(Carriers) /\ Len(v) = Len(wire) /\ Grows(wire, v)
    BY <2>2, <2>3, WireKept
  <2>5. QED
    BY <1>5, <2>1, <2>4
<1>6. QED
  BY <1>2, <1>3, <1>4, <1>5

------------------------------------------------------------------------------
(* What each step leaves on the connections                                *)

\* What a connection is introduced with: p is known to know nodes by their addresses.
LEMMA IntroductionsTyped ==
    ASSUME NodesTyped, NEW p \in Nodes, NEW first \in Known(p),
           NEW order, order = <<first>> \o SetToSeq(Known(p) \ {first}),
           NEW lines,
           lines = [i \in DOMAIN order |-> INTRODUCE(order[i], nodesMap[p][order[i]])]
    PROVE  lines \in Seq(Introductions) /\ lines # <<>>
<1> DEFINE S == Known(p) \ {first}
           rest == SetToSeq(S)
<1>1. IsFiniteSet(S)
  <2>1. S \subseteq Nodes
    BY DEF NodesTyped
  <2>2. QED
    BY <2>1, FiniteAssumption, FS_Subset
<1>2. rest \in Seq(S)
  <2>1. Cardinality(S) \in Nat /\ ExistsBijection(1..Cardinality(S), S)
    BY <1>1, FS_CardinalityType
  <2>2. \E f \in [1..Cardinality(S) -> S] : IsInjective(f)
    BY <2>1 DEF ExistsBijection, Bijection, Injection, IsInjective
  <2>3. rest \in [1..Cardinality(S) -> S]
    BY <2>2 DEF SetToSeq
  <2>4. QED
    BY <2>1, <2>3, SeqDef
<1>3. order \in Seq(Known(p)) /\ Len(order) = 1 + Len(rest)
  <2>1. <<first>> \in Seq(Known(p)) /\ Len(<<first>>) = 1
    OBVIOUS
  <2>2. Len(rest) \in Nat /\ rest \in [1..Len(rest) -> S]
    BY <1>2, LenProperties
  <2>3. rest \in [1..Len(rest) -> Known(p)]
    BY <2>2
  <2>4. rest \in Seq(Known(p))
    BY <2>2, <2>3, SeqDef
  <2>5. QED
    BY <2>1, <2>4, ConcatProperties
<1>4. /\ Len(order) \in Nat /\ DOMAIN order = 1..Len(order) /\ Len(rest) \in Nat
      /\ \A i \in DOMAIN order : order[i] \in Known(p)
  BY <1>2, <1>3, LenProperties, ElementOfSeq
<1>5. \A i \in DOMAIN order : lines[i] \in Introductions
  BY <1>4 DEF NodesTyped, Introductions
<1>6. lines \in [1..Len(order) -> Introductions] /\ DOMAIN lines = 1..Len(order)
  BY <1>4, <1>5
<1>7. lines \in Seq(Introductions)
  <2>1. \A n \in Nat : [1..n -> Introductions] \subseteq Seq(Introductions)
    BY SeqDef
  <2>2. lines \in [1..Len(order) -> Introductions] /\ Len(order) \in Nat
    BY <1>4, <1>6
  <2>3. QED
    BY <2>1, <2>2
<1>8. Len(lines) = Len(order)
  BY <1>4, <1>6, <1>7, LenProperties
<1>9. Len(lines) # 0
  BY <1>3, <1>4, <1>8
<1>10. QED
  BY <1>7, <1>9

\* What a new connection gets last.
LEMMA LastLinesTyped ==
    ASSUME NEW p \in Nodes, NEW set, set \subseteq Transactions,
           NEW order \in SetToSeqs(set), NEW proper,
           proper = <<NAME(p), INTRODUCE(p, p)>> \/ proper = <<>>, NEW told,
           told = [i \in DOMAIN order |-> TRANSACTION(order[i])]
    PROVE  /\ told \in Seq(Lines) /\ proper \in Seq(Lines)
           /\ told \o proper \in Seq(Lines)
           /\ DOMAIN told = DOMAIN order
           /\ \A t \in set : \E i \in DOMAIN told : told[i] = TRANSACTION(t)
<1>1. IsFiniteSet(set) /\ Cardinality(set) \in Nat
  BY FiniteAssumption, FS_Subset, FS_CardinalityType
<1> DEFINE D == 1..Cardinality(set)
<1>2. order \in [D -> set] /\ \A i, j \in D : i # j => order[i] # order[j]
  BY DEF SetToSeqs
<1>3. told \in [D -> Lines]
  BY <1>2 DEF Lines
<1>4. told \in Seq(Lines)
  BY <1>1, <1>3, SeqDef
<1>5. proper \in Seq(Lines)
  <2>1. NAME(p) \in Lines /\ INTRODUCE(p, p) \in Lines
    BY DEF Lines, Introductions, Names
  <2>2. <<NAME(p), INTRODUCE(p, p)>> \in Seq(Lines)
    BY <2>1
  <2>3. <<>> \in Seq(Lines)
    OBVIOUS
  <2>4. QED
    BY <2>2, <2>3
<1>6. order \in Surjection(D, set)
  <2>1. order \in Injection(D, set)
    BY <1>2 DEF Injection, IsInjective
  <2>2. Cardinality(D) = Cardinality(set)
    BY <1>1, FS_Interval
  <2>3. QED
    BY <1>1, <2>1, <2>2, FS_Injection
<1>7. \A t \in set : \E i \in D : order[i] = t
  BY <1>6 DEF Surjection
<1>8. QED
  BY <1>2, <1>3, <1>4, <1>5, <1>7, ConcatProperties

LEMMA DialTyped ==
    ASSUME wire \in Seq(Carriers), Len(wire) <= MaxConnections,
           NEW g \in Goroutines, NEW key, NEW address \in Addresses, NEW place,
           Owner(g) \in Nodes, Dial(g, key, address, place)
    PROVE  /\ wire' \in Seq(Carriers) /\ Len(wire') <= MaxConnections
           /\ Grows(wire, wire')
           /\ \A c \in DOMAIN wire : wire'[c] = wire[c]
           /\ Len(wire) + 1 \notin DOMAIN wire
           /\ DOMAIN wire' = DOMAIN wire \cup {Len(wire) + 1}
           /\ wire'[Len(wire) + 1] =
                 [from |-> Owner(g), to |-> address, open |-> TRUE, lines |-> <<>>]
<1> DEFINE new == [from |-> Owner(g), to |-> address, open |-> TRUE, lines |-> <<>>]
<1>1. wire' = Append(wire, new) /\ Len(wire) + 1 <= MaxConnections
  BY DEF Dial
<1>2. new \in Carriers
  BY DEF Carriers
<1> HIDE DEF new
<1>3. /\ wire' \in Seq(Carriers) /\ Len(wire') = Len(wire) + 1
      /\ \A c \in 1..Len(wire) : wire'[c] = wire[c]
      /\ wire'[Len(wire) + 1] = new
  BY <1>1, <1>2, AppendProperties
<1>4. /\ Len(wire) \in Nat /\ DOMAIN wire = 1..Len(wire)
      /\ DOMAIN wire' = 1..(Len(wire) + 1)
  BY <1>3, LenProperties
<1>5. QED
  BY <1>1, <1>3, <1>4 DEF Grows, new

\* What a goroutine that is at a place can rely on.
LEMMA AtPlace ==
    ASSUME Types, NEW g \in Goroutines, NEW place, At(g, place)
    PROVE  /\ WorkTyped(g, doing[g], wire) /\ doing[g].at = place
           /\ Owner(g) \in alive /\ Owner(g) \in Nodes
           /\ Owner(g) = NodeOf(g, wire)
           /\ g[1] = "listener" => g[2] \in DOMAIN wire
BY DEF Types, At, Owner, NodeOf

LEMMA ConnectionIds ==
    ASSUME Types
    PROVE  /\ DOMAIN wire = 1..Len(wire) /\ Len(wire) \in Nat /\ MaxConnections \in Nat
           /\ DOMAIN wire \subseteq Ids
           /\ \A c \in DOMAIN wire : Listener(c) \in Goroutines
           /\ Grows(wire, wire)
<1>1. DOMAIN wire = 1..Len(wire) /\ Len(wire) \in Nat
  BY LenProperties DEF Types
<1>2. MaxConnections \in Nat
  BY NetworkAssumption
<1>3. DOMAIN wire \subseteq Ids
  BY <1>1, <1>2 DEF Types, Ids
<1>4. QED
  BY <1>1, <1>2, <1>3, GoroutineKinds DEF Grows

WireTyped ==
    wire' \in Seq(Carriers) /\ Len(wire') <= MaxConnections /\ Grows(wire, wire')

\* An introduction, and the lines that follow it.
LEMMA IntroduceTyped ==
    ASSUME Types, NEW g \in Goroutines, Introduce(g)
    PROVE  /\ WireTyped /\ doing[g].conn \in DOMAIN wire
           /\ \E lines \in Seq(Introductions) :
                 lines # <<>> /\ lines \in Seq(Lines)
                 /\ wire' = Write(lines, doing[g].conn)
<1> DEFINE p == Owner(g)
<1>1. At(g, "introduce")
  BY DEF Introduce
<1>2. /\ p \in Nodes /\ doing[g].conn \in DOMAIN wire
  BY <1>1, AtPlace DEF WorkTyped
<1>3. PICK first \in Known(p) :
         LET order == <<first>> \o SetToSeq(Known(p) \ {first})
         IN  wire' = Write([i \in DOMAIN order |->
                              INTRODUCE(order[i], nodesMap[p][order[i]])], doing[g].conn)
  BY DEF Introduce
<1> DEFINE order == <<first>> \o SetToSeq(Known(p) \ {first})
           lines == [i \in DOMAIN order |-> INTRODUCE(order[i], nodesMap[p][order[i]])]
<1>4. wire' = Write(lines, doing[g].conn)
  BY <1>3
<1>5. NodesTyped
  BY DEF Types
<1> HIDE DEF p
<1>6. lines \in Seq(Introductions) /\ lines # <<>>
  BY <1>2, <1>5, IntroductionsTyped
<1> HIDE DEF lines
<1>7. lines \in Seq(Lines)
  <2>1. Len(lines) \in Nat /\ lines \in [1..Len(lines) -> Introductions]
    BY <1>6, LenProperties
  <2>2. Introductions \subseteq Lines
    BY DEF Lines
  <2>3. lines \in [1..Len(lines) -> Lines]
    BY <2>1, <2>2
  <2>4. QED
    BY <2>1, <2>3, SeqDef
<1>8. wire \in Seq(Carriers) /\ Len(wire) <= MaxConnections
  BY DEF Types
<1>9. WireTyped
  BY <1>2, <1>4, <1>7, <1>8, WriteTyped DEF WireTyped
<1>10. QED
  BY <1>2, <1>4, <1>6, <1>7, <1>9

LEMMA SendTransactionsTyped ==
    ASSUME Types, NEW g \in Goroutines, SendTransactions(g)
    PROVE  /\ WireTyped /\ doing[g].conn \in DOMAIN wire
           /\ \E lines \in Seq(Lines), told \in Seq(Lines), proper \in Seq(Lines) :
                 /\ lines = told \o proper
                 /\ wire' = Write(lines, doing[g].conn)
                 /\ \A t \in transactions[Owner(g)] :
                       \E i \in DOMAIN told : told[i] = TRANSACTION(t)
<1> DEFINE p == Owner(g)
           proper == IF g = Clerk(p) THEN <<NAME(p), INTRODUCE(p, p)>> ELSE <<>>
<1>1. At(g, "snapshot")
  BY DEF SendTransactions
<1>2. p \in Nodes /\ doing[g].conn \in DOMAIN wire
  BY <1>1, AtPlace DEF WorkTyped
<1>3. transactions[p] \subseteq Transactions
  BY <1>2 DEF Types
<1>4. PICK order \in SetToSeqs(transactions[p]) :
         wire' = Write([i \in DOMAIN order |-> TRANSACTION(order[i])] \o proper,
                       doing[g].conn)
  BY DEF SendTransactions
<1> DEFINE told == [i \in DOMAIN order |-> TRANSACTION(order[i])]
<1>5. proper = <<NAME(p), INTRODUCE(p, p)>> \/ proper = <<>>
  OBVIOUS
<1>6. wire' = Write(told \o proper, doing[g].conn)
  BY <1>4
<1> HIDE DEF p, proper
<1>7. /\ told \in Seq(Lines) /\ proper \in Seq(Lines) /\ told \o proper \in Seq(Lines)
      /\ \A t \in transactions[p] : \E i \in DOMAIN told : told[i] = TRANSACTION(t)
  BY <1>2, <1>3, <1>5, LastLinesTyped
<1> HIDE DEF told
<1>8. wire \in Seq(Carriers) /\ Len(wire) <= MaxConnections
  BY DEF Types
<1>9. WireTyped
  BY <1>2, <1>6, <1>7, <1>8, WriteTyped DEF WireTyped
<1>10. QED
  BY <1>2, <1>6, <1>7, <1>9 DEF p

LEMMA HearsLine ==
    ASSUME Types, NEW c \in DOMAIN wire, NEW type, Hear(c, type)
    PROVE  /\ Heard(c) \in Lines /\ Heard(c).type = type /\ wire[c].lines # <<>>
           /\ Listener(c) \in Goroutines /\ At(Listener(c), "idle")
           /\ wire[c].to \in alive /\ wire[c].to \in Nodes
           /\ Owner(Listener(c)) = wire[c].to
<1>1. wire \in Seq(Carriers) /\ Listener(c) \in Goroutines
  BY ConnectionIds DEF Types
<1>2. At(Listener(c), "idle") /\ wire[c].lines # <<>> /\ Head(wire[c].lines).type = type
  BY DEF Hear
<1>3. Head(wire[c].lines) \in Lines
  BY <1>1, <1>2, Carrier
<1>4. Listener(c)[1] = "listener" /\ Listener(c)[2] = c
  BY DEF Listener
<1>5. Owner(Listener(c)) = wire[c].to
  BY <1>4 DEF Owner
<1>6. QED
  BY <1>1, <1>2, <1>3, <1>5, AtPlace DEF Heard

LEMMA RestKeeps ==
    ASSUME Types, NEW c \in DOMAIN wire, wire[c].lines # <<>>, wire' = Rest(c)
    PROVE  /\ WireTyped
           /\ wire'[c].lines = Tail(wire[c].lines) /\ wire'[c].open = wire[c].open
           /\ \A d \in DOMAIN wire : d # c => wire'[d] = wire[d]
<1>1. wire \in Seq(Carriers) /\ Len(wire) <= MaxConnections /\ Grows(wire, wire)
  BY ConnectionIds DEF Types
<1> DEFINE v == Rest(c)
<1>2. v = [wire EXCEPT ![c].lines = Tail(@)]
  BY DEF Rest
<1>3. v = Taken(wire, c)
  BY <1>2 DEF Taken
<1> HIDE DEF v
<1>4. /\ v \in Seq(Carriers) /\ Len(v) = Len(wire) /\ Grows(wire, v)
      /\ v[c].lines = Tail(wire[c].lines) /\ v[c].open = wire[c].open
      /\ \A d \in DOMAIN wire : d # c => v[d] = wire[d]
  BY <1>1, <1>3, RestTyped
<1>5. wire' = v
  BY DEF v
<1>6. QED
  BY <1>1, <1>4, <1>5 DEF WireTyped

\* What is heard on c is taken from it and passed on.
LEMMA PassedOnTyped ==
    ASSUME Types, NEW c \in DOMAIN wire, NEW type, Hear(c, type), wire' = PassedOn(c)
    PROVE  /\ WireTyped
           /\ LET on == Multicast(wire[c].to, Heard(c))
              IN  /\ wire'[c].lines = Tail(on[c].lines)
                  /\ \A d \in DOMAIN wire : d # c => wire'[d].lines = on[d].lines
           /\ \A d \in DOMAIN wire : wire'[d].open = wire[d].open
<1> DEFINE on == Multicast(wire[c].to, Heard(c))
<1>1. wire \in Seq(Carriers) /\ Len(wire) <= MaxConnections
  BY DEF Types
<1>2. Heard(c) \in Lines /\ wire[c].lines # <<>>
  BY HearsLine
<1>3. /\ on \in Seq(Carriers) /\ Len(on) = Len(wire) /\ Grows(wire, on)
      /\ \A d \in DOMAIN wire :
            /\ on[d].open = wire[d].open
            /\ on[d].lines = IF d \in Kept(wire[c].to) /\ wire[d].open /\ wire[d].to # Service
                             THEN wire[d].lines \o <<Heard(c)>> ELSE wire[d].lines
  BY <1>1, <1>2, MulticastTyped
<1>4. on[c].lines # <<>>
  <2>1. wire[c].lines \in Seq(Lines) /\ <<Heard(c)>> \in Seq(Lines)
    BY <1>1, <1>2, Carrier
  <2>2. wire[c].lines \o <<Heard(c)>> # <<>>
    BY <2>1
  <2>3. QED
    BY <1>2, <1>3, <2>2
<1>5. wire' = Taken(on, c)
  BY DEF PassedOn, Taken
<1> HIDE DEF on
<1>6. /\ wire' \in Seq(Carriers) /\ Len(wire') = Len(wire) /\ Grows(wire, wire')
      /\ wire'[c].lines = Tail(on[c].lines) /\ wire'[c].open = on[c].open
      /\ \A d \in DOMAIN wire : d # c => wire'[d] = on[d]
  BY <1>1, <1>3, <1>4, <1>5, RestTyped
<1>7. WireTyped
  BY <1>1, <1>6 DEF WireTyped
<1>8. QED
  BY <1>3, <1>6, <1>7 DEF on

LEMMA MulticastKeeps ==
    ASSUME Types, NEW p, NEW line \in Lines, wire' = Multicast(p, line)
    PROVE  WireTyped
BY MulticastTyped DEF Types, WireTyped

LEMMA DialKeeps ==
    ASSUME Types, NEW g \in Goroutines, NEW key, NEW address, NEW place, NEW at,
           At(g, at), Reachable(address), Dial(g, key, address, place)
    PROVE  /\ WireTyped
           /\ \A c \in DOMAIN wire : wire'[c] = wire[c]
           /\ Len(wire) + 1 \notin DOMAIN wire
           /\ DOMAIN wire' = DOMAIN wire \cup {Len(wire) + 1}
           /\ wire'[Len(wire) + 1] =
                 [from |-> Owner(g), to |-> address, open |-> TRUE, lines |-> <<>>]
<1>1. Owner(g) \in Nodes
  BY AtPlace
<1>2. address \in Addresses
  BY DEF Types, Reachable, Addresses
<1>3. wire \in Seq(Carriers) /\ Len(wire) <= MaxConnections
  BY DEF Types
<1>4. QED
  BY <1>1, <1>2, <1>3, DialTyped DEF WireTyped

LEMMA CrashTyped ==
    ASSUME Types, NEW p \in Nodes, Crash(p)
    PROVE  WireTyped /\ \A c \in DOMAIN wire : wire'[c].lines \in {wire[c].lines, <<>>}
<1>1. wire \in Seq(Carriers) /\ Len(wire) <= MaxConnections
  BY DEF Types
<1>2. PICK lost : wire' = [c \in DOMAIN wire |->
              IF wire[c].to = p \/ c \in lost
              THEN [wire[c] EXCEPT !.open = FALSE, !.lines = <<>>]
              ELSE [wire[c] EXCEPT !.open = @ /\ wire[c].from # p]]
  BY DEF Crash
<1>3. ASSUME NEW c \in DOMAIN wire
      PROVE  /\ wire'[c] \in Carriers
             /\ wire'[c].from = wire[c].from /\ wire'[c].to = wire[c].to
             /\ wire'[c].lines \in {wire[c].lines, <<>>}
  <2> DEFINE x == wire[c]
             y == [x EXCEPT !.open = FALSE]
             z == [y EXCEPT !.lines = <<>>]
  <2>1. x \in Carriers /\ <<>> \in Seq(Lines) /\ x.open \in BOOLEAN
    BY <1>1, Carrier
  <2>2. wire'[c] = z \/ wire'[c] = [x EXCEPT !.open = x.open /\ x.from # p]
    BY <1>2
  <2>3. /\ y \in Carriers /\ y.from = x.from /\ y.to = x.to
        /\ ~y.open /\ y.lines = x.lines
    BY <2>1, Closes
  <2> HIDE DEF y
  <2>4. z \in Carriers /\ z.from = y.from /\ z.to = y.to /\ z.lines = <<>>
    BY <2>1, <2>3 DEF Carriers
  <2> HIDE DEF z, x
  <2>5. CASE wire'[c] = z
    BY <2>3, <2>4, <2>5 DEF x
  <2>6. CASE wire'[c] = [x EXCEPT !.open = x.open /\ x.from # p]
    <3>1. CASE x.open /\ x.from # p
      <4>1. [x EXCEPT !.open = x.open] = x
        BY <2>1 DEF Carriers
      <4>2. (x.open /\ x.from # p) = x.open
        BY <3>1, <2>1
      <4>3. wire'[c] = x
        BY <2>6, <4>1, <4>2
      <4>4. QED
        BY <2>1, <4>3 DEF x
    <3>2. CASE ~(x.open /\ x.from # p)
      <4>1. (x.open /\ x.from # p) = FALSE
        BY <3>2
      <4>2. wire'[c] = y
        BY <2>6, <4>1 DEF y
      <4>3. QED
        BY <2>3, <4>2 DEF x
    <3>3. QED
      BY <3>1, <3>2
  <2>7. QED
    BY <2>2, <2>5, <2>6
<1>4. wire' \in [DOMAIN wire -> Carriers]
  BY <1>2, <1>3
<1>5. wire' \in Seq(Carriers) /\ Len(wire') = Len(wire) /\ Grows(wire, wire')
  BY <1>1, <1>3, <1>4, WireKept
<1>6. QED
  BY <1>1, <1>3, <1>5 DEF WireTyped

LEMMA AcceptTyped ==
    ASSUME Types, NEW c \in DOMAIN wire, Accept(c)
    PROVE  /\ WireTyped
           /\ \A d \in DOMAIN wire : d # c => wire'[d] = wire[d]
           /\ secondWord(Head(wire[c].lines)) \in Names
           /\ \/ /\ Becomes(Listener(c), Gone) /\ ~wire'[c].open
              \/ /\ Becomes(Listener(c), Idle(secondWord(Head(wire[c].lines))))
                 /\ wire'[c].lines = Tail(wire[c].lines)
                 /\ wire'[c].open = wire[c].open
<1>1. wire \in Seq(Carriers) /\ Len(wire) <= MaxConnections
  BY DEF Types
<1>2. wire[c].lines # <<>> /\ Head(wire[c].lines) \in Lines
  BY <1>1, Carrier DEF Accept
<1>3. secondWord(Head(wire[c].lines)) \in Names
  BY <1>2, LineKinds
<1>4. CASE /\ wire' = [wire EXCEPT ![c].open = FALSE, ![c].lines = <<>>]
           /\ Becomes(Listener(c), Gone)
  <2>1. /\ wire' \in Seq(Carriers) /\ Len(wire') = Len(wire) /\ Grows(wire, wire')
        /\ ~wire'[c].open /\ \A d \in DOMAIN wire : d # c => wire'[d] = wire[d]
    BY <1>1, <1>4, ClosedTyped
  <2>2. QED
    BY <1>1, <1>3, <1>4, <2>1 DEF WireTyped
<1>5. CASE /\ wire' = [wire EXCEPT ![c].lines = Tail(@)]
           /\ Becomes(Listener(c), Idle(secondWord(Head(wire[c].lines))))
  <2>1. wire' = Rest(c)
    BY <1>5 DEF Rest
  <2>2. QED
    BY <1>2, <1>3, <1>5, <2>1, RestKeeps
<1>6. QED
  BY <1>4, <1>5 DEF Accept

LEMMA CollectTyped ==
    ASSUME Types, NEW c \in DOMAIN wire, Collect(c)
    PROVE  WireTyped
<1>1. wire \in Seq(Carriers) /\ Len(wire) <= MaxConnections
  BY DEF Types
<1>2. wire' = [wire EXCEPT ![c].open = FALSE]
  BY DEF Collect
<1>3. wire' \in Seq(Carriers) /\ Len(wire') = Len(wire) /\ Grows(wire, wire')
  BY <1>1, <1>2, ClosedTyped
<1>4. QED
  BY <1>1, <1>3 DEF WireTyped

LEMMA ListenerStepWires ==
    ASSUME Types, NEW c \in DOMAIN wire, ListenerStep(c)
    PROVE  WireTyped
<1> DEFINE g == Listener(c)
           p == wire[c].to
<1>1. g \in Goroutines
  BY ConnectionIds
<1>2. wire' = wire => WireTyped
  BY ConnectionIds DEF Types, WireTyped
<1>3. CASE Ignore(c)
  <2>1. wire[c].lines # <<>> /\ wire' = Rest(c)
    BY <1>3 DEF Ignore, Hear
  <2>2. QED
    BY <2>1, RestKeeps
<1>4. CASE HearIntroduce(c)
  <2>1. wire[c].lines # <<>> /\ wire' = Rest(c)
    BY <1>4 DEF HearIntroduce, Hear
  <2>2. QED
    BY <2>1, RestKeeps
<1>5. CASE LearnNode(g) \/ ListenerCannotConnect(c) \/ EnterTransaction(c) \/ Disconnect(c)
  BY <1>2, <1>5 DEF LearnNode, ListenerCannotConnect, EnterTransaction, Disconnect
<1>6. CASE Gossip(c)
  <2>1. At(g, "gossip") /\ wire' = Multicast(p, doing[g].line)
    BY <1>6 DEF Gossip
  <2>2. doing[g].line \in Lines
    BY <1>1, <2>1, AtPlace, IntroductionFields DEF WorkTyped
  <2>3. QED
    BY <2>1, <2>2, MulticastKeeps
<1>7. CASE ListenerConnects(c)
  <2>1. /\ At(g, "connect") /\ Reachable(nodesMap[p][doing[g].name])
        /\ Dial(g, doing[g].name, nodesMap[p][doing[g].name], "introduce")
    BY <1>7 DEF ListenerConnects, CanReach
  <2>2. QED
    BY <1>1, <2>1, DialKeeps
<1>8. CASE Introduce(g) \/ SendTransactions(g)
  BY <1>1, <1>8, IntroduceTyped, SendTransactionsTyped
<1>9. CASE HearDelete(c)
  BY <1>9, PassedOnTyped DEF HearDelete
<1>10. CASE HearTransaction(c)
  BY <1>10, PassedOnTyped DEF HearTransaction
<1>11. CASE Reconnect(c)
  <2>1. /\ At(g, "redial") /\ Reachable(nodesMap[p][doing[g].name])
        /\ Dial(g, doing[g].name, nodesMap[p][doing[g].name], "gone")
    BY <1>11 DEF Reconnect, CanReach
  <2>2. QED
    BY <1>1, <2>1, DialKeeps
<1>12. CASE GiveUp(c)
  <2>1. At(g, "redial") /\ wire' = Multicast(p, DELETE(doing[g].name))
    BY <1>12 DEF GiveUp
  <2>2. DELETE(doing[g].name) \in Lines
    BY <1>1, <2>1, AtPlace DEF WorkTyped, Lines
  <2>3. QED
    BY <2>1, <2>2, MulticastKeeps
<1>13. QED
  BY <1>3, <1>4, <1>5, <1>6, <1>7, <1>8, <1>9, <1>10, <1>11, <1>12 DEF ListenerStep

LEMMA ClerkStepWires ==
    ASSUME Types, NEW p \in Nodes, ClerkStep(p)
    PROVE  WireTyped
<1> DEFINE g == Clerk(p)
<1>1. g \in Goroutines /\ g[1] = "clerk"
  BY GoroutineKinds
<1>2. wire' = wire => WireTyped
  BY ConnectionIds DEF Types, WireTyped
<1>3. CASE CheckNode(p) \/ LearnNode(g) \/ ClerkCannotConnect(p)
  BY <1>2, <1>3 DEF CheckNode, LearnNode, ClerkCannotConnect
<1>4. CASE ClerkConnects(p)
  <2>1. /\ At(g, "connect") /\ Reachable(doing[g].line.address)
        /\ Dial(g, p, doing[g].line.address, "introduce")
    BY <1>4 DEF ClerkConnects
  <2>2. QED
    BY <1>1, <2>1, DialKeeps
<1>5. CASE Introduce(g) \/ SendTransactions(g)
  BY <1>1, <1>5, IntroduceTyped, SendTransactionsTyped
<1>6. CASE SpreadTransaction(p)
  <2>1. At(g, "spread") /\ wire' = Multicast(p, doing[g].line)
    BY <1>6 DEF SpreadTransaction
  <2>2. doing[g].line \in Lines
    BY <1>1, <2>1, AtPlace, TransactionFields DEF WorkTyped
  <2>3. QED
    BY <2>1, <2>2, MulticastKeeps
<1>7. QED
  BY <1>3, <1>4, <1>5, <1>6 DEF ClerkStep

LEMMA ManagerStepWires ==
    ASSUME Types, NEW p \in Nodes, ManagerStep(p)
    PROVE  WireTyped
<1> DEFINE g == Manager(p)
           n == doing[g].name
<1>1. g \in Goroutines /\ g[1] = "manager"
  BY GoroutineKinds
<1>2. wire' = wire => WireTyped
  BY ConnectionIds DEF Types, WireTyped
<1>3. CASE Count(p) \/ Choose(p) \/ CountNext(p)
  BY <1>2, <1>3 DEF Count, Choose, CountNext
<1>4. CASE ManagerConnects(p)
  <2>1. /\ At(g, "connect") /\ Reachable(nodesMap[p][n])
        /\ Dial(g, n, nodesMap[p][n], "introduce")
    BY <1>4 DEF ManagerConnects
  <2>2. QED
    BY <1>1, <2>1, DialKeeps
<1>5. CASE ManagerCannotConnect(p)
  <2>1. At(g, "connect") /\ wire' = Multicast(p, DELETE(n))
    BY <1>5 DEF ManagerCannotConnect
  <2>2. DELETE(n) \in Lines
    BY <1>1, <2>1, AtPlace DEF WorkTyped, Lines
  <2>3. QED
    BY <2>1, <2>2, MulticastKeeps
<1>6. CASE Introduce(g) \/ SendTransactions(g)
  BY <1>1, <1>6, IntroduceTyped, SendTransactionsTyped
<1>7. QED
  BY <1>3, <1>4, <1>5, <1>6 DEF ManagerStep

\* Every step leaves well-formed connections, and takes none away.
LEMMA StepWires ==
    ASSUME Types, [Next]_vars
    PROVE  WireTyped
<1>1. wire' = wire => WireTyped
  BY ConnectionIds DEF Types, WireTyped
<1>2. ASSUME NEW p \in Nodes, NEW q \in Nodes, ServiceIntroduces(p, q)
      PROVE  WireTyped
  <2>1. wire' = Multicast(p, INTRODUCE(q, q))
    BY <1>2 DEF ServiceIntroduces
  <2>2. INTRODUCE(q, q) \in Lines
    BY DEF Lines, Introductions
  <2>3. QED
    BY <2>1, <2>2, MulticastKeeps
<1>3. ASSUME NEW p \in Nodes, NEW t \in Transactions, ServiceSends(p, t)
      PROVE  WireTyped
  BY <1>1, <1>3 DEF ServiceSends
<1>4. ASSUME NEW p \in Nodes, AcceptorStep(p)
      PROVE  WireTyped
  <2>1. PICK c \in DOMAIN wire : Accept(c) \/ AcceptNothing(c)
    BY <1>4 DEF AcceptorStep
  <2>2. AcceptNothing(c) => WireTyped
    BY <1>1 DEF AcceptNothing
  <2>3. Accept(c) => WireTyped
    BY AcceptTyped
  <2>4. QED
    BY <2>1, <2>2, <2>3
<1>5. ASSUME NEW p \in Nodes, Crash(p)
      PROVE  WireTyped
  BY <1>5, CrashTyped
<1>6. ASSUME NEW c \in DOMAIN wire, Collect(c)
      PROVE  WireTyped
  BY <1>6, CollectTyped
<1>7. UNCHANGED vars => WireTyped
  BY <1>1 DEF vars
<1>8. QED
  BY <1>2, <1>3, <1>4, <1>5, <1>6, <1>7, ClerkStepWires, ManagerStepWires,
     ListenerStepWires DEF Next

------------------------------------------------------------------------------
(* What each step leaves in the goroutines                                 *)

DoingTyped ==
    /\ DOMAIN doing' = Goroutines
    /\ \A g \in Goroutines : WorkTyped(g, doing'[g], wire')

LEMMA WorkKept ==
    ASSUME NEW w, NEW v, Grows(w, v), NEW g \in Goroutines, NEW d, WorkTyped(g, d, w)
    PROVE  WorkTyped(g, d, v)
<1>1. CASE g[1] = "listener" /\ g[2] \notin DOMAIN w
  BY <1>1 DEF WorkTyped
<1>2. CASE ~(g[1] = "listener" /\ g[2] \notin DOMAIN w)
  <2>1. NodeOf(g, v) = NodeOf(g, w)
    BY <1>2 DEF NodeOf, Grows
  <2>2. QED
    BY <1>2, <2>1 DEF WorkTyped, Grows
<1>3. QED
  BY <1>1, <1>2

LEMMA Stays ==
    ASSUME Types, Grows(wire, wire'), doing' = doing
    PROVE  DoingTyped
<1>1. \A g \in Goroutines : WorkTyped(g, doing[g], wire')
  BY WorkKept DEF Types
<1>2. QED
  BY <1>1 DEF DoingTyped, Types

LEMMA Turns ==
    ASSUME Types, Grows(wire, wire'), NEW g \in Goroutines, NEW x,
           WorkTyped(g, x, wire'), doing' = [doing EXCEPT ![g] = x]
    PROVE  DoingTyped
<1>1. DOMAIN doing' = Goroutines /\ doing'[g] = x
      /\ \A h \in Goroutines : h # g => doing'[h] = doing[h]
  BY DEF Types
<1>2. \A h \in Goroutines : WorkTyped(h, doing[h], wire')
  BY WorkKept DEF Types
<1>3. QED
  BY <1>1, <1>2 DEF DoingTyped

\* Places at which nothing is asked of what a goroutine has.
Plain(g, place) ==
    /\ place \notin {"check", "learn", "gossip", "spread", "enter", "introduce", "snapshot"}
    /\ g[1] = "clerk" => place # "connect"

LEMMA PlainWork ==
    ASSUME NEW g, NEW v, NEW place, NEW name \in Names, NEW line, NEW conn,
           Plain(g, place), g[1] = "listener" => g[2] \in DOMAIN v
    PROVE  WorkTyped(g, Doing(place, name, line, conn), v)
BY DEF WorkTyped, Doing, Plain

\* A goroutine that is at a place turns to something else.
LEMMA BecomesTyped ==
    ASSUME Types, Grows(wire, wire'), NEW g \in Goroutines, NEW at, At(g, at),
           NEW place, NEW name \in Names, NEW line, NEW conn,
           Plain(g, place), Becomes(g, Doing(place, name, line, conn))
    PROVE  DoingTyped
<1>1. g[1] = "listener" => g[2] \in DOMAIN wire'
  BY AtPlace DEF Grows
<1>2. WorkTyped(g, Doing(place, name, line, conn), wire')
  BY <1>1, PlainWork
<1>3. doing' = [doing EXCEPT ![g] = Doing(place, name, line, conn)]
  BY DEF Becomes
<1>4. QED
  BY <1>2, <1>3, Turns

LEMMA MovedWork ==
    ASSUME Types, Grows(wire, wire'), NEW g \in Goroutines, NEW at, At(g, at),
           NEW place, Moves(g, place),
           WorkTyped(g, Doing(place, doing[g].name, doing[g].line, doing[g].conn), wire')
    PROVE  DoingTyped
<1> DEFINE d == doing[g]
           x == Doing(place, d.name, d.line, d.conn)
<1>1. d = Doing(d.at, d.name, d.line, d.conn)
  BY DEF Types, WorkTyped
<1>2. [d EXCEPT !.at = place] = x
  BY <1>1 DEF Doing
<1>3. doing' = [doing EXCEPT ![g] = x]
  BY <1>2 DEF Moves
<1>4. QED
  BY <1>3, Turns

LEMMA MovesTyped ==
    ASSUME Types, Grows(wire, wire'), NEW g \in Goroutines, NEW at, At(g, at),
           NEW place, Plain(g, place), Moves(g, place)
    PROVE  DoingTyped
<1>1. doing[g].name \in Names
  BY AtPlace DEF WorkTyped
<1>2. g[1] = "listener" => g[2] \in DOMAIN wire'
  BY AtPlace DEF Grows
<1>3. WorkTyped(g, Doing(place, doing[g].name, doing[g].line, doing[g].conn), wire')
  BY <1>1, <1>2, PlainWork
<1>4. QED
  BY <1>3, MovedWork

\* The line a goroutine has is what it moves on with.
LEMMA MovesWithLine ==
    ASSUME Types, Grows(wire, wire'), NEW g \in Goroutines, NEW at, At(g, at),
           NEW place \in {"connect", "learn", "gossip"}, Moves(g, place),
           doing[g].line \in Introductions
    PROVE  DoingTyped
<1>1. doing[g].name \in Names
  BY AtPlace DEF WorkTyped
<1>2. g[1] = "listener" => g[2] \in DOMAIN wire'
  BY AtPlace DEF Grows
<1>3. WorkTyped(g, Doing(place, doing[g].name, doing[g].line, doing[g].conn), wire')
  BY <1>1, <1>2 DEF WorkTyped, Doing
<1>4. QED
  BY <1>3, MovedWork

LEMMA IntroduceTurns ==
    ASSUME Types, WireTyped, NEW g \in Goroutines, Introduce(g)
    PROVE  DoingTyped
<1> DEFINE d == doing[g]
<1>1. At(g, "introduce") /\ Moves(g, "snapshot")
  BY DEF Introduce
<1>2. WorkTyped(g, d, wire) /\ d.at = "introduce"
  BY <1>1, AtPlace
<1>3. Grows(wire, wire')
  BY DEF WireTyped
<1>4. WorkTyped(g, d, wire')
  BY <1>2, <1>3, WorkKept
<1>5. g[1] = "listener" => g[2] \in DOMAIN wire'
  BY <1>1, <1>3, AtPlace DEF Grows
<1>6. WorkTyped(g, Doing("snapshot", d.name, d.line, d.conn), wire')
  BY <1>2, <1>4, <1>5 DEF WorkTyped, Doing
<1>7. QED
  BY <1>1, <1>3, <1>6, MovedWork

LEMMA SendTransactionsTurns ==
    ASSUME Types, WireTyped, NEW g \in Goroutines, SendTransactions(g)
    PROVE  DoingTyped
<1> DEFINE x == IF g = Manager(Owner(g)) THEN Doing("next", NoName, NoLine, 0)
                                         ELSE Idle(doing[g].name)
<1>1. At(g, "snapshot") /\ Becomes(g, x) /\ Grows(wire, wire')
  BY DEF SendTransactions, WireTyped
<1>2. NoName \in Names /\ doing[g].name \in Names
  BY <1>1, AtPlace DEF WorkTyped, Names
<1>3. CASE x = Doing("next", NoName, NoLine, 0)
  <2>1. Plain(g, "next")
    BY DEF Plain
  <2>2. QED
    BY <1>1, <1>2, <1>3, <2>1, BecomesTyped
<1>4. CASE x = Doing("idle", doing[g].name, NoLine, 0)
  <2>1. Plain(g, "idle")
    BY DEF Plain
  <2>2. QED
    BY <1>1, <1>2, <1>4, <2>1, BecomesTyped
<1>5. QED
  BY <1>3, <1>4 DEF Idle

\* A goroutine that has dialled has a connection of its node.
LEMMA DialTurns ==
    ASSUME Types, NEW g \in Goroutines, NEW key, NEW address,
           NEW place \in {"introduce", "gone"}, NEW at,
           At(g, at), Reachable(address), Dial(g, key, address, place)
    PROVE  DoingTyped
<1> DEFINE d == doing[g]
           c == Len(wire) + 1
           x == Doing(place, d.name, d.line, c)
<1>1. /\ WireTyped /\ Grows(wire, wire') /\ c \in DOMAIN wire'
      /\ wire'[c].from = Owner(g)
  <2>1. /\ WireTyped /\ DOMAIN wire' = DOMAIN wire \cup {Len(wire) + 1}
        /\ wire'[Len(wire) + 1] =
              [from |-> Owner(g), to |-> address, open |-> TRUE, lines |-> <<>>]
    BY DialKeeps
  <2>2. wire'[c].from = Owner(g)
    BY <2>1
  <2>3. QED
    BY <2>1, <2>2 DEF WireTyped
<1>2. d = Doing(d.at, d.name, d.line, d.conn) /\ d.name \in Names
  BY DEF Types, WorkTyped
<1>3. doing' = [doing EXCEPT ![g] = [[d EXCEPT !.at = place] EXCEPT !.conn = c]]
  BY DEF Dial
<1>4. [[d EXCEPT !.at = place] EXCEPT !.conn = c] = x
  <2>1. [d EXCEPT !.at = place] = Doing(place, d.name, d.line, d.conn)
    BY <1>2 DEF Doing
  <2>2. [Doing(place, d.name, d.line, d.conn) EXCEPT !.conn = c] = x
    BY DEF Doing
  <2>3. QED
    BY <2>1, <2>2
<1>5. doing' = [doing EXCEPT ![g] = x]
  BY <1>3, <1>4
<1>6. /\ Owner(g) = NodeOf(g, wire)
      /\ g[1] = "listener" => g[2] \in DOMAIN wire
  BY AtPlace
<1>7. NodeOf(g, wire') = Owner(g) /\ (g[1] = "listener" => g[2] \in DOMAIN wire')
  BY <1>1, <1>6 DEF NodeOf, Grows
<1>8. WorkTyped(g, x, wire')
  BY <1>1, <1>2, <1>7 DEF WorkTyped, Doing
<1>9. QED
  BY <1>1, <1>5, <1>8, Turns

\* What a listener hears is what it goes on with.
LEMMA HeardTurns ==
    ASSUME Types, WireTyped, NEW c \in DOMAIN wire, NEW type, Hear(c, type),
           NEW place,
           \/ place = "learn" /\ type = "INTRODUCE"
           \/ place = "enter" /\ type = "TRANSACTION",
           doing' = [doing EXCEPT ![Listener(c)].at = place,
                                  ![Listener(c)].line = Heard(c)]
    PROVE  DoingTyped
<1> DEFINE g == Listener(c)
           d == doing[g]
           x == Doing(place, d.name, Heard(c), d.conn)
<1>1. g \in Goroutines /\ At(g, "idle") /\ Heard(c) \in Lines /\ Heard(c).type = type
  BY HearsLine
<1>2. d = Doing(d.at, d.name, d.line, d.conn) /\ d.name \in Names
  BY <1>1 DEF Types, WorkTyped
<1>3. [[d EXCEPT !.at = place] EXCEPT !.line = Heard(c)] = x
  <2>1. [d EXCEPT !.at = place] = Doing(place, d.name, d.line, d.conn)
    BY <1>2 DEF Doing
  <2>2. [Doing(place, d.name, d.line, d.conn) EXCEPT !.line = Heard(c)] = x
    BY DEF Doing
  <2>3. QED
    BY <2>1, <2>2
<1>4. doing' = [doing EXCEPT ![g] = [[d EXCEPT !.at = place] EXCEPT !.line = Heard(c)]]
  OBVIOUS
<1>5. doing' = [doing EXCEPT ![g] = x]
  BY <1>3, <1>4
<1>6. Grows(wire, wire') /\ (g[1] = "listener" => g[2] \in DOMAIN wire')
  BY <1>1, AtPlace DEF WireTyped, Grows
<1>7. /\ place = "learn" => Heard(c) \in Introductions
      /\ place = "enter" => Heard(c) \in {TRANSACTION(t) : t \in Transactions}
  BY <1>1, LineKinds
<1>8. WorkTyped(g, x, wire')
  <2>1. g[1] # "clerk"
    BY DEF Listener
  <2>2. QED
    BY <1>2, <1>6, <1>7, <2>1 DEF WorkTyped, Doing
<1>9. QED
  BY <1>1, <1>5, <1>6, <1>8, Turns

LEMMA ListenerStepTurns ==
    ASSUME Types, WireTyped, NEW c \in DOMAIN wire, ListenerStep(c)
    PROVE  DoingTyped
<1> DEFINE g == Listener(c)
           d == doing[g]
           p == wire[c].to
<1>1. /\ g \in Goroutines /\ g[1] = "listener" /\ g[2] = c /\ Grows(wire, wire')
      /\ \A q : g # Clerk(q) /\ g # Manager(q)
  BY ConnectionIds DEF WireTyped, Listener, Clerk, Manager
<1>2. d.name \in Names /\ NoName \in Names
  BY <1>1 DEF Types, WorkTyped, Names
<1>3. Plain(g, "idle") /\ Plain(g, "gone") /\ Plain(g, "redial") /\ Plain(g, "connect")
  BY <1>1 DEF Plain
<1>4. CASE Ignore(c) \/ HearDelete(c)
  BY <1>1, <1>4, Stays DEF Ignore, HearDelete
<1>5. CASE HearIntroduce(c)
  BY <1>5, HeardTurns DEF HearIntroduce
<1>6. CASE HearTransaction(c)
  BY <1>6, HeardTurns DEF HearTransaction
<1>7. CASE LearnNode(g)
  <2>1. At(g, "learn") /\ Moves(g, "gossip")
    BY <1>1, <1>7 DEF LearnNode
  <2>2. d.line \in Introductions
    BY <1>1, <2>1, AtPlace DEF WorkTyped
  <2>3. QED
    BY <1>1, <2>1, <2>2, MovesWithLine
<1>8. CASE Gossip(c)
  <2>1. /\ At(g, "gossip")
        /\ \/ Becomes(g, Doing("connect", d.name, NoLine, 0))
           \/ Becomes(g, Doing("idle", d.name, NoLine, 0))
    BY <1>8 DEF Gossip, Idle
  <2>2. QED
    BY <1>1, <1>2, <1>3, <2>1, BecomesTyped
<1>9. CASE ListenerConnects(c)
  <2>1. /\ At(g, "connect") /\ Reachable(nodesMap[p][d.name])
        /\ Dial(g, d.name, nodesMap[p][d.name], "introduce")
    BY <1>9 DEF ListenerConnects, CanReach
  <2>2. QED
    BY <1>1, <2>1, DialTurns
<1>10. CASE ListenerCannotConnect(c)
  <2>1. At(g, "connect") /\ Becomes(g, Doing("idle", d.name, NoLine, 0))
    BY <1>10 DEF ListenerCannotConnect, Idle
  <2>2. QED
    BY <1>1, <1>2, <1>3, <2>1, BecomesTyped
<1>11. CASE Introduce(g) \/ SendTransactions(g)
  BY <1>1, <1>11, IntroduceTurns, SendTransactionsTurns
<1>12. CASE EnterTransaction(c)
  <2>1. At(g, "enter") /\ Becomes(g, Doing("idle", d.name, NoLine, 0))
    BY <1>12 DEF EnterTransaction, Idle
  <2>2. QED
    BY <1>1, <1>2, <1>3, <2>1, BecomesTyped
<1>13. CASE Disconnect(c)
  <2>1. At(g, "idle") /\ Moves(g, "redial")
    BY <1>13 DEF Disconnect
  <2>2. QED
    BY <1>1, <1>3, <2>1, MovesTyped
<1>14. CASE Reconnect(c)
  <2>1. /\ At(g, "redial") /\ Reachable(nodesMap[p][d.name])
        /\ Dial(g, d.name, nodesMap[p][d.name], "gone")
    BY <1>14 DEF Reconnect, CanReach
  <2>2. QED
    BY <1>1, <2>1, DialTurns
<1>15. CASE GiveUp(c)
  <2>1. At(g, "redial") /\ Becomes(g, Doing("gone", NoName, NoLine, 0))
    BY <1>15 DEF GiveUp, Gone
  <2>2. QED
    BY <1>1, <1>2, <1>3, <2>1, BecomesTyped
<1>16. QED
  BY <1>4, <1>5, <1>6, <1>7, <1>8, <1>9, <1>10, <1>11, <1>12, <1>13, <1>14, <1>15
     DEF ListenerStep

LEMMA ClerkStepTurns ==
    ASSUME Types, WireTyped, NEW p \in Nodes, ClerkStep(p)
    PROVE  DoingTyped
<1> DEFINE g == Clerk(p)
           d == doing[g]
<1>1. g \in Goroutines /\ g[1] = "clerk" /\ Grows(wire, wire')
  BY GoroutineKinds DEF WireTyped
<1>2. NoName \in Names /\ Plain(g, "idle")
  BY DEF Names, Plain
<1>3. CASE CheckNode(p)
  <2>1. At(g, "check") /\ (Moves(g, "connect") \/ Moves(g, "learn"))
    BY <1>3 DEF CheckNode
  <2>2. d.line \in Introductions
    BY <1>1, <2>1, AtPlace DEF WorkTyped
  <2>3. QED
    BY <1>1, <2>1, <2>2, MovesWithLine
<1>4. CASE LearnNode(g)
  <2>1. At(g, "learn") /\ (Moves(g, "connect") \/ Moves(g, "gossip"))
    BY <1>4 DEF LearnNode
  <2>2. d.line \in Introductions
    BY <1>1, <2>1, AtPlace DEF WorkTyped
  <2>3. QED
    BY <1>1, <2>1, <2>2, MovesWithLine
<1>5. CASE ClerkConnects(p)
  <2>1. /\ At(g, "connect") /\ Reachable(d.line.address)
        /\ Dial(g, p, d.line.address, "introduce")
    BY <1>5 DEF ClerkConnects
  <2>2. QED
    BY <1>1, <2>1, DialTurns
<1>6. CASE ClerkCannotConnect(p)
  <2>1. At(g, "connect") /\ Becomes(g, Doing("idle", NoName, NoLine, 0))
    BY <1>6 DEF ClerkCannotConnect, Idle
  <2>2. QED
    BY <1>1, <1>2, <2>1, BecomesTyped
<1>7. CASE SpreadTransaction(p)
  <2>1. At(g, "spread") /\ Becomes(g, Doing("idle", NoName, NoLine, 0))
    BY <1>7 DEF SpreadTransaction, Idle
  <2>2. QED
    BY <1>1, <1>2, <2>1, BecomesTyped
<1>8. CASE Introduce(g) \/ SendTransactions(g)
  BY <1>1, <1>8, IntroduceTurns, SendTransactionsTurns
<1>9. QED
  BY <1>3, <1>4, <1>5, <1>6, <1>7, <1>8 DEF ClerkStep

LEMMA ManagerStepTurns ==
    ASSUME Types, WireTyped, NEW p \in Nodes, ManagerStep(p)
    PROVE  DoingTyped
<1> DEFINE g == Manager(p)
<1>1. g \in Goroutines /\ g[1] = "manager" /\ Grows(wire, wire')
  BY GoroutineKinds DEF WireTyped
<1>2. NoName \in Names /\ Nodes \subseteq Names
  BY DEF Names
<1>3. Plain(g, "idle") /\ Plain(g, "search") /\ Plain(g, "connect")
  BY <1>1 DEF Plain
<1>4. CASE Count(p)
  <2>1. At(g, "idle") /\ Moves(g, "search")
    BY <1>4 DEF Count
  <2>2. QED
    BY <1>1, <1>3, <2>1, MovesTyped
<1>5. CASE Choose(p)
  <2>1. PICK n \in Candidates(p) : At(g, "search") /\ Becomes(g, Doing("connect", n, NoLine, 0))
    BY <1>5 DEF Choose
  <2>2. n \in Names
    BY <1>2, <2>1 DEF Candidates, Types, NodesTyped
  <2>3. QED
    BY <1>1, <1>3, <2>1, <2>2, BecomesTyped
<1>6. CASE ManagerConnects(p)
  <2> DEFINE n == doing[g].name
  <2>1. /\ At(g, "connect") /\ Reachable(nodesMap[p][n])
        /\ Dial(g, n, nodesMap[p][n], "introduce")
    BY <1>6 DEF ManagerConnects
  <2>2. QED
    BY <1>1, <2>1, DialTurns
<1>7. CASE ManagerCannotConnect(p)
  <2>1. At(g, "connect") /\ Becomes(g, Doing("search", NoName, NoLine, 0))
    BY <1>7 DEF ManagerCannotConnect
  <2>2. QED
    BY <1>1, <1>2, <1>3, <2>1, BecomesTyped
<1>8. CASE CountNext(p)
  <2>1. \E at : At(g, at)
    BY <1>8 DEF CountNext, SearchEnded
  <2>2. \/ Becomes(g, Doing("search", NoName, NoLine, 0))
        \/ Becomes(g, Doing("idle", NoName, NoLine, 0))
    BY <1>8 DEF CountNext, Idle
  <2>3. QED
    BY <1>1, <1>2, <1>3, <2>1, <2>2, BecomesTyped
<1>9. CASE Introduce(g) \/ SendTransactions(g)
  BY <1>1, <1>9, IntroduceTurns, SendTransactionsTurns
<1>10. QED
  BY <1>4, <1>5, <1>6, <1>7, <1>8, <1>9 DEF ManagerStep

LEMMA StepTurns ==
    ASSUME Types, WireTyped, [Next]_vars
    PROVE  DoingTyped
<1>1. Grows(wire, wire') /\ NoName \in Names
  BY DEF WireTyped, Names
<1>2. ASSUME NEW p \in Nodes, NEW q \in Nodes, ServiceIntroduces(p, q)
      PROVE  DoingTyped
  <2> DEFINE g == Clerk(p)
             x == Doing("check", NoName, INTRODUCE(q, q), 0)
  <2>1. Becomes(g, x)
    BY <1>2 DEF ServiceIntroduces
  <2>2. INTRODUCE(q, q) \in Introductions
    BY DEF Introductions
  <2>3. g \in Goroutines /\ g[1] = "clerk"
    BY GoroutineKinds
  <2>4. WorkTyped(g, x, wire')
    BY <1>1, <2>2, <2>3 DEF WorkTyped, Doing
  <2>5. QED
    BY <1>1, <2>1, <2>3, <2>4, Turns DEF Becomes
<1>3. ASSUME NEW p \in Nodes, NEW t \in Transactions, ServiceSends(p, t)
      PROVE  DoingTyped
  <2> DEFINE g == Clerk(p)
             x == Doing("spread", NoName, TRANSACTION(t), 0)
  <2>1. Becomes(g, x)
    BY <1>3 DEF ServiceSends
  <2>2. g \in Goroutines /\ g[1] = "clerk"
    BY GoroutineKinds
  <2>3. WorkTyped(g, x, wire')
    BY <1>1, <2>2 DEF WorkTyped, Doing
  <2>4. QED
    BY <1>1, <2>1, <2>2, <2>3, Turns DEF Becomes
<1>4. ASSUME NEW p \in Nodes, AcceptorStep(p)
      PROVE  DoingTyped
  <2>1. PICK c \in DOMAIN wire : Accept(c) \/ AcceptNothing(c)
    BY <1>4 DEF AcceptorStep
  <2> DEFINE g == Listener(c)
  <2>2. g \in Goroutines /\ At(g, "backlog") /\ Plain(g, "idle") /\ Plain(g, "gone")
    BY <2>1, ConnectionIds DEF Accept, AcceptNothing, Plain
  <2>3. \E n \in Names : Becomes(g, Doing("idle", n, NoLine, 0))
                            \/ Becomes(g, Doing("gone", NoName, NoLine, 0))
    <3>1. CASE Accept(c)
      BY <1>1, <3>1, AcceptTyped DEF Gone, Idle
    <3>2. CASE AcceptNothing(c)
      BY <1>1, <3>2 DEF AcceptNothing, Gone
    <3>3. QED
      BY <2>1, <3>1, <3>2
  <2>4. QED
    BY <1>1, <2>2, <2>3, BecomesTyped
<1>5. ASSUME NEW p \in Nodes, Crash(p)
      PROVE  DoingTyped
  BY <1>1, <1>5, Stays DEF Crash
<1>6. ASSUME NEW c \in DOMAIN wire, Collect(c)
      PROVE  DoingTyped
  BY <1>1, <1>6, Stays DEF Collect
<1>7. UNCHANGED vars => DoingTyped
  BY <1>1, Stays DEF vars
<1>8. QED
  BY <1>2, <1>3, <1>4, <1>5, <1>6, <1>7, ClerkStepTurns, ManagerStepTurns,
     ListenerStepTurns DEF Next

------------------------------------------------------------------------------
(* What each step leaves in the maps, and type correctness                 *)

OutsTyped ==
    /\ DOMAIN connections' = Nodes
    /\ \A p \in Nodes : OutTyped(p, connections'[p], wire')

LEMMA OutKept ==
    ASSUME Types, WireTyped, NEW p \in Nodes
    PROVE  OutTyped(p, connections[p], wire')
BY DEF Types, WireTyped, OutTyped, Grows

LEMMA OutsStay ==
    ASSUME Types, WireTyped, connections' = connections
    PROVE  OutsTyped
BY OutKept DEF Types, OutsTyped

\* A new connection is entered under a name.
LEMMA DialOuts ==
    ASSUME Types, NEW g \in Goroutines, NEW key \in Names, NEW address, NEW place, NEW at,
           At(g, at), Reachable(address), Dial(g, key, address, place)
    PROVE  OutsTyped
<1> DEFINE p == Owner(g)
           c == Len(wire) + 1
           out == Put(connections[p], key, c)
<1>1. WireTyped /\ p \in Nodes
  BY DialKeeps, AtPlace
<1>2. c \in DOMAIN wire' /\ wire'[c].from = p
  <2>1. /\ DOMAIN wire' = DOMAIN wire \cup {Len(wire) + 1}
        /\ wire'[Len(wire) + 1] =
              [from |-> Owner(g), to |-> address, open |-> TRUE, lines |-> <<>>]
    BY DialKeeps
  <2>2. wire'[Len(wire) + 1].from = Owner(g)
    BY <2>1
  <2>3. QED
    BY <2>1, <2>2
<1>3. OutTyped(p, connections[p], wire')
  BY <1>1, OutKept
<1>4. connections' = [connections EXCEPT ![p] = out] /\ DOMAIN connections = Nodes
  BY DEF Dial, Types
<1> HIDE DEF p, c
<1>5. OutTyped(p, out, wire')
  BY <1>2, <1>3 DEF OutTyped, Put
<1> HIDE DEF out
<1>6. DOMAIN connections' = Nodes /\ connections'[p] = out
      /\ \A q \in Nodes : q # p => connections'[q] = connections[q]
  BY <1>1, <1>4
<1>7. QED
  BY <1>1, <1>5, <1>6, OutKept DEF OutsTyped

LEMMA StepOuts ==
    ASSUME Types, WireTyped, [Next]_vars
    PROVE  OutsTyped
<1> USE DEF maps
<1>1. Nodes \subseteq Names
  BY DEF Names
<1>2. ASSUME NEW p \in Nodes, ClerkStep(p)
      PROVE  OutsTyped
  <2> DEFINE g == Clerk(p)
  <2>1. CASE ClerkConnects(p)
    <3>1. /\ At(g, "connect") /\ Reachable(doing[g].line.address)
          /\ Dial(g, p, doing[g].line.address, "introduce")
      BY <2>1 DEF ClerkConnects
    <3>2. QED
      BY <1>1, <3>1, DialOuts, GoroutineKinds
  <2>2. CASE ~ClerkConnects(p)
    BY <1>2, <2>2, OutsStay DEF ClerkStep, CheckNode, LearnNode, ClerkCannotConnect,
       Introduce, SendTransactions, SpreadTransaction
  <2>3. QED
    BY <2>1, <2>2
<1>3. ASSUME NEW p \in Nodes, ManagerStep(p)
      PROVE  OutsTyped
  <2> DEFINE g == Manager(p)
             n == doing[g].name
  <2>1. CASE ManagerConnects(p)
    <3>1. /\ At(g, "connect") /\ Reachable(nodesMap[p][n])
          /\ Dial(g, n, nodesMap[p][n], "introduce")
      BY <2>1 DEF ManagerConnects
    <3>2. g \in Goroutines /\ n \in Names
      BY GoroutineKinds DEF Types, WorkTyped
    <3>3. QED
      BY <3>1, <3>2, DialOuts
  <2>2. CASE ~ManagerConnects(p)
    BY <1>3, <2>2, OutsStay DEF ManagerStep, Count, Choose, ManagerCannotConnect,
       CountNext, Introduce, SendTransactions
  <2>3. QED
    BY <2>1, <2>2
<1>4. ASSUME NEW c \in DOMAIN wire, ListenerStep(c)
      PROVE  OutsTyped
  <2> DEFINE g == Listener(c)
             n == doing[g].name
             p == wire[c].to
  <2>1. g \in Goroutines /\ n \in Names
    BY ConnectionIds DEF Types, WorkTyped
  <2>2. CASE ListenerConnects(c)
    <3>1. /\ At(g, "connect") /\ Reachable(nodesMap[p][n])
          /\ Dial(g, n, nodesMap[p][n], "introduce")
      BY <2>2 DEF ListenerConnects, CanReach
    <3>2. QED
      BY <2>1, <3>1, DialOuts
  <2>3. CASE Reconnect(c)
    <3>1. /\ At(g, "redial") /\ Reachable(nodesMap[p][n])
          /\ Dial(g, n, nodesMap[p][n], "gone")
      BY <2>3 DEF Reconnect, CanReach
    <3>2. QED
      BY <2>1, <3>1, DialOuts
  <2>4. CASE Disconnect(c)
    <3>1. connections' = [connections EXCEPT ![p] = Without(@, n)]
      BY <2>4 DEF Disconnect
    <3>2. /\ DOMAIN connections' = Nodes
          /\ \A q \in Nodes : connections'[q] = connections[q]
                                 \/ connections'[q] = Without(connections[q], n)
      BY <3>1 DEF Types
    <3>3. \A q \in Nodes : OutTyped(q, Without(connections[q], n), wire')
      BY OutKept DEF OutTyped, Without
    <3>4. QED
      BY <3>2, <3>3, OutKept DEF OutsTyped
  <2>5. CASE ~(ListenerConnects(c) \/ Reconnect(c) \/ Disconnect(c))
    BY <1>4, <2>5, OutsStay DEF ListenerStep, Ignore, HearIntroduce, LearnNode, Gossip,
       ListenerCannotConnect, Introduce, SendTransactions, HearDelete, HearTransaction,
       EnterTransaction, GiveUp
  <2>6. QED
    BY <2>2, <2>3, <2>4, <2>5
<1>5. ASSUME NEW p \in Nodes, AcceptorStep(p) \/ Crash(p)
      PROVE  OutsTyped
  BY <1>5, OutsStay DEF AcceptorStep, Accept, AcceptNothing, Crash
<1>6. ASSUME NEW p, NEW q, ServiceIntroduces(p, q) \/ ServiceSends(p, q)
      PROVE  OutsTyped
  BY <1>6, OutsStay DEF ServiceIntroduces, ServiceSends
<1>7. ASSUME NEW c, Collect(c)
      PROVE  OutsTyped
  BY <1>7, OutsStay DEF Collect
<1>8. UNCHANGED vars => OutsTyped
  BY OutsStay DEF vars
<1>9. QED
  BY <1>2, <1>3, <1>4, <1>5, <1>6, <1>7, <1>8 DEF Next

\* Only LearnNode and HearDelete change what nodes a node knows.
LEMMA StepNodes ==
    ASSUME Types, [Next]_vars
    PROVE  NodesTyped' /\ alive' \subseteq alive
<1> USE DEF maps
<1>1. NodesTyped
  BY DEF Types
<1>2. nodesMap' = nodesMap => NodesTyped'
  BY <1>1 DEF NodesTyped, Known
<1>3. ASSUME NEW g \in Goroutines, LearnNode(g)
      PROVE  NodesTyped' /\ alive' = alive
  <2> DEFINE p == Owner(g)
             line == doing[g].line
  <2>1. /\ At(g, "learn") /\ alive' = alive
        /\ nodesMap' = [nodesMap EXCEPT ![p] = Put(@, line.name, line.address)]
    BY <1>3 DEF LearnNode
  <2>2. line \in Introductions /\ p \in Nodes
    BY <2>1, AtPlace DEF WorkTyped
  <2>3. line.name \in Nodes /\ line.address \in {line.name, Service}
    BY <2>2, IntroductionFields
  <2> HIDE DEF p, line
  <2>4. /\ DOMAIN nodesMap' = Nodes
        /\ nodesMap'[p] = Put(nodesMap[p], line.name, line.address)
        /\ \A q \in Nodes : q # p => nodesMap'[q] = nodesMap[q]
    BY <1>1, <2>1, <2>2 DEF NodesTyped
  <2>5. \A n \in DOMAIN nodesMap'[p] : n \in Nodes /\ nodesMap'[p][n] \in {n, Service}
    BY <1>1, <2>2, <2>3, <2>4 DEF NodesTyped, Known, Put
  <2>6. \A q \in Nodes : \A n \in DOMAIN nodesMap'[q] :
           n \in Nodes /\ nodesMap'[q][n] \in {n, Service}
    BY <1>1, <2>4, <2>5 DEF NodesTyped, Known
  <2>7. QED
    BY <2>1, <2>4, <2>6 DEF NodesTyped, Known
<1>4. ASSUME NEW c \in DOMAIN wire, HearDelete(c)
      PROVE  NodesTyped' /\ alive' = alive
  <2> DEFINE p == wire[c].to
             n == Heard(c).name
  <2>1. nodesMap' = [nodesMap EXCEPT ![p] = Without(@, n)] /\ alive' = alive
    BY <1>4 DEF HearDelete
  <2>2. /\ DOMAIN nodesMap' = Nodes
        /\ \A q \in Nodes : nodesMap'[q] = nodesMap[q]
                               \/ nodesMap'[q] = Without(nodesMap[q], n)
    BY <1>1, <2>1 DEF NodesTyped
  <2>3. \A q \in Nodes : \A m \in DOMAIN nodesMap'[q] :
           m \in Nodes /\ nodesMap'[q][m] \in {m, Service}
    <3> SUFFICES ASSUME NEW q \in Nodes, NEW m \in DOMAIN nodesMap'[q]
                 PROVE  m \in Nodes /\ nodesMap'[q][m] \in {m, Service}
      OBVIOUS
    <3>1. \A k \in DOMAIN nodesMap[q] : k \in Nodes /\ nodesMap[q][k] \in {k, Service}
      BY <1>1 DEF NodesTyped, Known
    <3>2. CASE nodesMap'[q] = nodesMap[q]
      BY <3>1, <3>2
    <3>3. CASE nodesMap'[q] = Without(nodesMap[q], n)
      <4>1. m \in DOMAIN nodesMap[q] /\ nodesMap'[q][m] = nodesMap[q][m]
        BY <3>3 DEF Without
      <4>2. QED
        BY <3>1, <4>1
    <3>4. QED
      BY <2>2, <3>2, <3>3
  <2>4. QED
    BY <2>1, <2>2, <2>3 DEF NodesTyped, Known
<1>5. ASSUME NEW p \in Nodes, ClerkStep(p)
      PROVE  NodesTyped' /\ alive' = alive
  <2>1. CASE LearnNode(Clerk(p))
    BY <1>3, <2>1, GoroutineKinds
  <2>2. CASE ~LearnNode(Clerk(p))
    BY <1>2, <1>5, <2>2 DEF ClerkStep, CheckNode, ClerkConnects, ClerkCannotConnect,
       Introduce, SendTransactions, SpreadTransaction
  <2>3. QED
    BY <2>1, <2>2
<1>6. ASSUME NEW p \in Nodes, ManagerStep(p)
      PROVE  NodesTyped' /\ alive' = alive
  BY <1>2, <1>6 DEF ManagerStep, Count, Choose, ManagerConnects, ManagerCannotConnect,
     CountNext, Introduce, SendTransactions
<1>7. ASSUME NEW c \in DOMAIN wire, ListenerStep(c)
      PROVE  NodesTyped' /\ alive' = alive
  <2>1. CASE LearnNode(Listener(c))
    BY <1>3, <2>1, ConnectionIds
  <2>2. CASE HearDelete(c)
    BY <1>4, <2>2
  <2>3. CASE ~(LearnNode(Listener(c)) \/ HearDelete(c))
    BY <1>2, <1>7, <2>3 DEF ListenerStep, Ignore, HearIntroduce, Gossip, ListenerConnects,
       ListenerCannotConnect, Introduce, SendTransactions, HearTransaction,
       EnterTransaction, Disconnect, Reconnect, GiveUp
  <2>4. QED
    BY <2>1, <2>2, <2>3
<1>8. ASSUME NEW p \in Nodes, AcceptorStep(p) \/ Crash(p)
      PROVE  NodesTyped' /\ alive' \subseteq alive
  BY <1>2, <1>8 DEF AcceptorStep, Accept, AcceptNothing, Crash
<1>9. ASSUME NEW p, NEW q, ServiceIntroduces(p, q) \/ ServiceSends(p, q)
      PROVE  NodesTyped' /\ alive' = alive
  BY <1>2, <1>9 DEF ServiceIntroduces, ServiceSends
<1>10. ASSUME NEW c, Collect(c)
       PROVE  NodesTyped' /\ alive' = alive
  BY <1>2, <1>10 DEF Collect
<1>11. UNCHANGED vars => NodesTyped' /\ alive' = alive
  BY <1>2 DEF vars
<1>12. QED
  BY <1>5, <1>6, <1>7, <1>8, <1>9, <1>10, <1>11 DEF Next

\* Only ServiceSends and EnterTransaction enter a transaction.
LEMMA TransactionsMove ==
    ASSUME Next
    PROVE  \/ transactions' = transactions
           \/ \E p \in Nodes, t \in Transactions : ServiceSends(p, t)
           \/ \E c \in DOMAIN wire : EnterTransaction(c)
<1> USE DEF maps
<1>1. ASSUME NEW p \in Nodes, ClerkStep(p) \/ ManagerStep(p)
      PROVE  transactions' = transactions
  BY <1>1 DEF ClerkStep, CheckNode, LearnNode, ClerkConnects, ClerkCannotConnect,
     Introduce, SendTransactions, SpreadTransaction, ManagerStep, Count, Choose,
     ManagerConnects, ManagerCannotConnect, CountNext
<1>2. ASSUME NEW c \in DOMAIN wire, ListenerStep(c), ~EnterTransaction(c)
      PROVE  transactions' = transactions
  BY <1>2 DEF ListenerStep, Ignore, HearIntroduce, LearnNode, Gossip, ListenerConnects,
     ListenerCannotConnect, Introduce, SendTransactions, HearDelete, HearTransaction,
     Disconnect, Reconnect, GiveUp
<1>3. ASSUME NEW p \in Nodes, AcceptorStep(p) \/ Crash(p)
      PROVE  transactions' = transactions
  BY <1>3 DEF AcceptorStep, Accept, AcceptNothing, Crash
<1>4. ASSUME NEW p \in Nodes, NEW q \in Nodes, ServiceIntroduces(p, q)
      PROVE  transactions' = transactions
  BY <1>4 DEF ServiceIntroduces
<1>5. ASSUME NEW c, Collect(c)
      PROVE  transactions' = transactions
  BY <1>5 DEF Collect
<1>6. QED
  BY <1>1, <1>2, <1>3, <1>4, <1>5 DEF Next

\* Transactions are entered, and never taken out.
LEMMA StepTransactions ==
    ASSUME Types, [Next]_vars
    PROVE  /\ transactions' \in [Nodes -> SUBSET Transactions]
           /\ \A p \in Nodes : transactions[p] \subseteq transactions'[p]
<1>1. transactions \in [Nodes -> SUBSET Transactions]
  BY DEF Types
<1>2. ASSUME NEW p \in Nodes, NEW t \in Transactions,
             transactions' = [transactions EXCEPT ![p] = @ \cup {t}]
      PROVE  /\ transactions' \in [Nodes -> SUBSET Transactions]
             /\ \A q \in Nodes : transactions[q] \subseteq transactions'[q]
  BY <1>1, <1>2
<1>3. ASSUME NEW c \in DOMAIN wire, EnterTransaction(c)
      PROVE  \E p \in Nodes, t \in Transactions :
                transactions' = [transactions EXCEPT ![p] = @ \cup {t}]
  <2> DEFINE g == Listener(c)
  <2>1. /\ At(g, "enter") /\ g \in Goroutines
        /\ transactions' = [transactions EXCEPT ![wire[c].to] =
                                @ \cup {doing[g].line.transaction}]
    BY <1>3, ConnectionIds DEF EnterTransaction
  <2>2. Owner(g) = wire[c].to /\ Owner(g) \in Nodes
    BY <2>1, AtPlace DEF Owner, Listener
  <2>3. doing[g].line \in {TRANSACTION(t) : t \in Transactions}
    BY <2>1, AtPlace DEF WorkTyped
  <2>4. doing[g].line.transaction \in Transactions
    BY <2>3, TransactionFields
  <2>5. QED
    BY <2>1, <2>2, <2>4
<1>4. ASSUME NEW p \in Nodes, NEW t \in Transactions, ServiceSends(p, t)
      PROVE  transactions' = [transactions EXCEPT ![p] = @ \cup {t}]
  BY <1>4 DEF ServiceSends
<1>5. UNCHANGED vars => transactions' = transactions
  BY DEF vars, maps
<1>6. CASE transactions' = transactions
  BY <1>1, <1>6
<1>7. QED
  BY <1>2, <1>3, <1>4, <1>5, <1>6, TransactionsMove

LEMMA InitTypes == Init => Types
<1> SUFFICES ASSUME Init PROVE Types
  OBVIOUS
<1>1. wire \in Seq(Carriers) /\ Len(wire) <= MaxConnections /\ DOMAIN wire = {}
  BY NetworkAssumption DEF Init
<1>2. NodesTyped
  BY DEF Init, NodesTyped, Known
<1>3. DOMAIN connections = Nodes /\ \A p \in Nodes : DOMAIN connections[p] = {}
  BY DEF Init
<1>4. transactions \in [Nodes -> SUBSET Transactions]
  BY DEF Init
<1>5. DOMAIN doing = Goroutines /\ alive = Nodes
  BY DEF Init
<1>6. ASSUME NEW g \in Goroutines
      PROVE  WorkTyped(g, doing[g], wire)
  <2>1. NoName \in Names
    BY DEF Names
  <2>2. CASE g[1] = "listener"
    <3>1. doing[g] = Doing("backlog", NoName, NoLine, 0)
      BY <2>2 DEF Init, Waiting
    <3>2. QED
      BY <2>1, <2>2, <3>1 DEF WorkTyped, Doing
  <2>3. CASE g[1] # "listener"
    <3>1. doing[g] = Doing("idle", NoName, NoLine, 0)
      BY <2>3 DEF Init, Idle
    <3>2. QED
      BY <2>1, <2>3, <3>1 DEF WorkTyped, Doing
  <2>4. QED
    BY <2>2, <2>3
<1>7. QED
  BY <1>1, <1>2, <1>3, <1>4, <1>5, <1>6 DEF Types, OutTyped

LEMMA StepTypes == Types /\ [Next]_vars => Types'
<1> SUFFICES ASSUME Types, [Next]_vars PROVE Types'
  OBVIOUS
<1>1. WireTyped /\ NodesTyped' /\ alive' \subseteq Nodes
  BY StepWires, StepNodes DEF Types
<1>2. DoingTyped /\ OutsTyped /\ transactions' \in [Nodes -> SUBSET Transactions]
  BY <1>1, StepTurns, StepOuts, StepTransactions
<1>3. QED
  BY <1>1, <1>2 DEF Types, WireTyped, DoingTyped, OutsTyped

LEMMA TypesCorrect == Spec => []Types
BY InitTypes, StepTypes, PTL DEF Spec

\* Whatever nodes join, stop and gossip, what a node writes to is a connection that it
\* has dialled itself (mp2.go:344, 509), under a name that some node has or that was taken
\* from a line that names none, and no goroutine introduces its node on another's
\* connection.
THEOREM TypeCorrect == Spec => []TypeOK
<1>1. ASSUME Types PROVE TypeOK
  <2>1. \A p \in Nodes :
           /\ \A n \in Known(p) : n \in Nodes /\ nodesMap[p][n] \in {n, Service}
           /\ \A n \in Connected(p) : n \in Names /\ wire[connections[p][n]].from = p
           /\ transactions[p] \subseteq Transactions
    BY <1>1 DEF Types, NodesTyped, OutTyped, Connected
  <2>2. \A c \in DOMAIN wire : wire[c].from \in Nodes /\ wire[c].to \in Addresses
    BY <1>1, Carrier DEF Types
  <2>3. ASSUME NEW g \in Goroutines, doing[g].at \in {"introduce", "snapshot"}
        PROVE  wire[doing[g].conn].from = Owner(g)
    BY <1>1, <2>3 DEF Types, WorkTyped, NodeOf, Owner
  <2>4. QED
    BY <2>1, <2>2, <2>3 DEF TypeOK
<1>2. QED
  BY <1>1, TypesCorrect, PTL

------------------------------------------------------------------------------
(* Transactions reach the peers: what is claimed                           *)

\* No node stops, the runtime closes no connection, and one goroutine at a time is in
\* the middle of something.
Undisturbed == Mortal = {} /\ MaxCollected = 0 /\ MaxBusy \in {0, 1}

\* A listener of q is about to enter t; q has t, or will at once.
Entering(q, t) ==
    \E d \in DOMAIN wire :
        /\ wire[d].to = q
        /\ doing[Listener(d)].at = "enter" /\ doing[Listener(d)].line = TRANSACTION(t)
Has(q, t) == t \in transactions[q] \/ Entering(q, t)

\* How many lines of c are read for a name; t is on its way behind them.
ForName(c) == IF doing[Listener(c)].at = "backlog" THEN 1 ELSE 0
OnTheWay(c, t) ==
    \E i \in DOMAIN wire[c].lines : i > ForName(c) /\ wire[c].lines[i] = TRANSACTION(t)
Delivered(c, t) == Has(wire[c].to, t) \/ OnTheWay(c, t)

\* A goroutine has dialled c and is not done with what a new peer gets.
BeingIntroduced(c) ==
    \E g \in Goroutines : doing[g].at \in {"introduce", "snapshot"} /\ doing[g].conn = c
Nameless(c) ==
    \E g \in Goroutines : doing[g].at = "introduce" /\ doing[g].conn = c
Spreading(p, t) == doing[Clerk(p)].at = "spread" /\ doing[Clerk(p)].line = TRANSACTION(t)

Live(c) == wire[c].open /\ wire[c].to \in Nodes

\* Nothing ends but the connections that an acceptor refuses.
Calm ==
    /\ alive = Nodes /\ collected = 0
    /\ \A g \in Goroutines : doing[g].at # "redial"
    /\ \A c \in DOMAIN wire : ~wire[c].open => doing[Listener(c)].at = "gone"
    /\ \A g, h \in Busy : g = h

\* No line but one of the introduction is read for the name.
Named ==
    \A c \in DOMAIN wire :
        Live(c) /\ doing[Listener(c)].at = "backlog" => wire[c].lines # <<>> \/ Nameless(c)

\* What a node has is told, or will be, on every connection it keeps.
Told ==
    \A p \in Nodes : \A c \in Kept(p) :
        Live(c) /\ ~BeingIntroduced(c) =>
            \A t \in Transactions : Has(p, t) => Spreading(p, t) \/ Delivered(c, t)

------------------------------------------------------------------------------
(* Turns of goroutines                                                     *)

Places == {"idle", "gone", "backlog"}

\* One goroutine at most is busy when none else is.
LEMMA OneAtATime == MaxBusy \in {0, 1} /\ MayBegin => Busy = {}
<1>1. IsFiniteSet(Goroutines)
  <2>1. IsFiniteSet(Nodes \cup Ids)
    <3>1. IsFiniteSet(Ids)
      BY NetworkAssumption, FS_Interval DEF Ids
    <3>2. QED
      BY <3>1, FiniteAssumption, FS_Union
  <2>2. IsFiniteSet({"clerk", "manager", "listener"})
    <3>1. IsFiniteSet({"clerk"}) /\ IsFiniteSet({"manager"}) /\ IsFiniteSet({"listener"})
      BY FS_Singleton
    <3>2. IsFiniteSet({"clerk"} \cup {"manager"})
      BY <3>1, FS_Union
    <3>3. IsFiniteSet(({"clerk"} \cup {"manager"}) \cup {"listener"})
      BY <3>1, <3>2, FS_Union
    <3>4. ({"clerk"} \cup {"manager"}) \cup {"listener"} = {"clerk", "manager", "listener"}
      OBVIOUS
    <3>5. QED
      BY <3>3, <3>4
  <2>3. IsFiniteSet({"clerk", "manager", "listener"} \X (Nodes \cup Ids))
    BY <2>1, <2>2, FS_Product
  <2>4. Goroutines \subseteq {"clerk", "manager", "listener"} \X (Nodes \cup Ids)
    BY DEF Goroutines, Clerk, Manager, Listener
  <2>5. QED
    BY <2>3, <2>4, FS_Subset
<1>2. IsFiniteSet(Busy)
  BY <1>1, FS_Subset DEF Busy
<1>3. Cardinality(Busy) \in Nat /\ (Cardinality(Busy) = 0 <=> Busy = {})
  BY <1>2, FS_CardinalityType, FS_EmptySet
<1>4. QED
  BY <1>3 DEF MayBegin

LEMMA NobodyBusy == Undisturbed /\ MayBegin => Busy = {}
BY OneAtATime DEF Undisturbed

\* What a goroutine that turns may do next, and what it did before.
TurnsWell(g) ==
    /\ \A h \in Goroutines : h # g => doing'[h] = doing[h]
    /\ At(g, doing[g].at)
    /\ doing[g].at # "gone" /\ doing'[g].at \notin {"backlog", "redial"}
    /\ doing[g].at = "backlog" => \E c \in DOMAIN wire : g = Listener(c) /\ Accept(c)
    /\ doing[g].at = "enter" => \E c \in DOMAIN wire : g = Listener(c) /\ EnterTransaction(c)
    /\ doing[g].at = "introduce" => Introduce(g)
    /\ doing[g].at = "snapshot" => SendTransactions(g)
    /\ doing[g].at = "spread" => \E p \in Nodes : g = Clerk(p) /\ SpreadTransaction(p)
    /\ doing'[g].at = "enter" => \E c \in DOMAIN wire : g = Listener(c) /\ HearTransaction(c)
    /\ doing'[g].at = "spread" =>
          \E p \in Nodes, t \in Transactions : g = Clerk(p) /\ ServiceSends(p, t)
    /\ doing'[g].at = "introduce" => doing'[g].conn = Len(wire) + 1
    /\ doing'[g].at = "snapshot" => doing[g].at = "introduce" /\ doing'[g].conn = doing[g].conn
    /\ doing[g].at \in Places /\ doing'[g].at \notin Places => MayBegin

LEMMA MovesTo ==
    ASSUME Types, NEW g \in Goroutines, NEW place, Moves(g, place)
    PROVE  /\ \A h \in Goroutines : h # g => doing'[h] = doing[h]
           /\ doing'[g].at = place /\ doing'[g].name = doing[g].name
           /\ doing'[g].line = doing[g].line /\ doing'[g].conn = doing[g].conn
<1>1. DOMAIN doing = Goroutines
      /\ doing[g] = Doing(doing[g].at, doing[g].name, doing[g].line, doing[g].conn)
  BY DEF Types, WorkTyped
<1>2. doing'[g] = [doing[g] EXCEPT !.at = place]
      /\ \A h \in Goroutines : h # g => doing'[h] = doing[h]
  BY <1>1 DEF Moves
<1>3. QED
  BY <1>1, <1>2 DEF Doing

LEMMA BecomesWhat ==
    ASSUME Types, NEW g \in Goroutines, NEW x, Becomes(g, x)
    PROVE  doing'[g] = x /\ \A h \in Goroutines : h # g => doing'[h] = doing[h]
BY DEF Types, Becomes

LEMMA DialsTo ==
    ASSUME Types, NEW g \in Goroutines, NEW key, NEW address, NEW place,
           Dial(g, key, address, place)
    PROVE  /\ \A h \in Goroutines : h # g => doing'[h] = doing[h]
           /\ doing'[g].at = place /\ doing'[g].conn = Len(wire) + 1
           /\ doing'[g].name = doing[g].name
<1> DEFINE c == Len(wire) + 1
<1>1. DOMAIN doing = Goroutines
      /\ doing[g] = Doing(doing[g].at, doing[g].name, doing[g].line, doing[g].conn)
  BY DEF Types, WorkTyped
<1>2. doing' = [doing EXCEPT ![g].at = place, ![g].conn = c]
  BY DEF Dial
<1> HIDE DEF c
<1>3. doing'[g] = [[doing[g] EXCEPT !.at = place] EXCEPT !.conn = c]
      /\ \A h \in Goroutines : h # g => doing'[h] = doing[h]
  BY <1>1, <1>2
<1>4. QED
  BY <1>1, <1>3 DEF Doing, c

LEMMA IntroduceTurnsWell ==
    ASSUME Types, NEW g \in Goroutines, Introduce(g)
    PROVE  TurnsWell(g)
<1>1. At(g, "introduce") /\ Moves(g, "snapshot")
  BY DEF Introduce
<1>2. doing[g].at = "introduce"
  BY <1>1, AtPlace
<1>3. QED
  BY <1>1, <1>2, MovesTo DEF TurnsWell, Places

LEMMA SendTransactionsTurnsWell ==
    ASSUME Types, NEW g \in Goroutines, SendTransactions(g)
    PROVE  TurnsWell(g)
<1>1. At(g, "snapshot") /\ doing[g].at = "snapshot"
  BY AtPlace DEF SendTransactions
<1>2. Becomes(g, IF g = Manager(Owner(g)) THEN Doing("next", NoName, NoLine, 0)
                                          ELSE Idle(doing[g].name))
  BY DEF SendTransactions
<1>3. doing'[g].at \in {"next", "idle"} /\ \A h \in Goroutines : h # g => doing'[h] = doing[h]
  BY <1>2, BecomesWhat DEF Doing, Idle
<1>4. QED
  BY <1>1, <1>3 DEF TurnsWell, Places

\* Whoever dials, learns of a node, or gives an attempt up.
LEMMA DialTurnsWell ==
    ASSUME Types, NEW g \in Goroutines, At(g, "connect"), NEW key, NEW address,
           Dial(g, key, address, "introduce")
    PROVE  TurnsWell(g)
<1>1. doing[g].at = "connect"
  BY AtPlace
<1>2. QED
  BY <1>1, DialsTo DEF TurnsWell, Places

\* A turn between places at which nothing in particular holds.
Common == {"idle", "check", "connect", "learn", "gossip", "search", "next", "gone"}

LEMMA CommonTurns ==
    ASSUME Types, NEW g \in Goroutines, NEW from \in Common \ {"gone"}, At(g, from),
           \A h \in Goroutines : h # g => doing'[h] = doing[h],
           doing'[g].at \in Common,
           from = "idle" /\ doing'[g].at # "idle" => MayBegin
    PROVE  TurnsWell(g)
<1>1. doing[g].at = from
  BY AtPlace
<1>2. QED
  BY <1>1 DEF TurnsWell, Places, Common

LEMMA LearnTurnsWell ==
    ASSUME Types, NEW g \in Goroutines, LearnNode(g)
    PROVE  TurnsWell(g)
<1>1. At(g, "learn") /\ Moves(g, IF g = Clerk(Owner(g)) THEN "connect" ELSE "gossip")
  BY DEF LearnNode
<1>2. /\ doing'[g].at \in {"connect", "gossip"}
      /\ \A h \in Goroutines : h # g => doing'[h] = doing[h]
  BY <1>1, MovesTo
<1>3. QED
  BY <1>1, <1>2, CommonTurns DEF Common

LEMMA ClerkTurns ==
    ASSUME Types, NEW p \in Nodes, ClerkStep(p)
    PROVE  TurnsWell(Clerk(p))
<1> DEFINE g == Clerk(p)
<1>1. g \in Goroutines
  BY GoroutineKinds
<1>2. CASE CheckNode(p)
  <2>1. At(g, "check") /\ Moves(g, IF doing[g].line.name \in Known(p) THEN "connect" ELSE "learn")
    BY <1>2 DEF CheckNode
  <2>2. /\ doing'[g].at \in {"connect", "learn"}
        /\ \A h \in Goroutines : h # g => doing'[h] = doing[h]
    BY <1>1, <2>1, MovesTo
  <2>3. QED
    BY <1>1, <2>1, <2>2, CommonTurns DEF Common
<1>3. CASE ClerkConnects(p)
  <2>1. At(g, "connect") /\ Dial(g, p, doing[g].line.address, "introduce")
    BY <1>3 DEF ClerkConnects
  <2>2. QED
    BY <1>1, <2>1, DialTurnsWell
<1>4. CASE ClerkCannotConnect(p)
  <2>1. At(g, "connect") /\ Becomes(g, Idle(NoName))
    BY <1>4 DEF ClerkCannotConnect
  <2>2. /\ doing'[g].at = "idle"
        /\ \A h \in Goroutines : h # g => doing'[h] = doing[h]
    BY <1>1, <2>1, BecomesWhat DEF Idle, Doing
  <2>3. QED
    BY <1>1, <2>1, <2>2, CommonTurns DEF Common
<1>5. CASE SpreadTransaction(p)
  <2>1. At(g, "spread") /\ Becomes(g, Idle(NoName))
    BY <1>5 DEF SpreadTransaction
  <2>2. /\ doing'[g].at = "idle" /\ doing[g].at = "spread"
        /\ \A h \in Goroutines : h # g => doing'[h] = doing[h]
    BY <1>1, <2>1, BecomesWhat, AtPlace DEF Idle, Doing
  <2>3. QED
    BY <1>5, <2>1, <2>2 DEF TurnsWell, Places
<1>6. CASE LearnNode(g) \/ Introduce(g) \/ SendTransactions(g)
  BY <1>1, <1>6, LearnTurnsWell, IntroduceTurnsWell, SendTransactionsTurnsWell
<1>7. QED
  BY <1>2, <1>3, <1>4, <1>5, <1>6 DEF ClerkStep

LEMMA ManagerTurns ==
    ASSUME Types, NEW p \in Nodes, ManagerStep(p)
    PROVE  TurnsWell(Manager(p))
<1> DEFINE g == Manager(p)
           n == doing[g].name
<1>1. g \in Goroutines
  BY GoroutineKinds
<1>2. CASE Count(p)
  <2>1. At(g, "idle") /\ Moves(g, "search") /\ MayBegin
    BY <1>2 DEF Count
  <2>2. /\ doing'[g].at = "search"
        /\ \A h \in Goroutines : h # g => doing'[h] = doing[h]
    BY <1>1, <2>1, MovesTo
  <2>3. QED
    BY <1>1, <2>1, <2>2, CommonTurns DEF Common
<1>3. CASE Choose(p)
  <2>1. At(g, "search") /\ \E m \in Candidates(p) : Becomes(g, Doing("connect", m, NoLine, 0))
    BY <1>3 DEF Choose
  <2>2. /\ doing'[g].at = "connect"
        /\ \A h \in Goroutines : h # g => doing'[h] = doing[h]
    BY <1>1, <2>1, BecomesWhat DEF Doing
  <2>3. QED
    BY <1>1, <2>1, <2>2, CommonTurns DEF Common
<1>4. CASE ManagerConnects(p)
  <2>1. At(g, "connect") /\ Dial(g, n, nodesMap[p][n], "introduce")
    BY <1>4 DEF ManagerConnects
  <2>2. QED
    BY <1>1, <2>1, DialTurnsWell
<1>5. CASE ManagerCannotConnect(p)
  <2>1. At(g, "connect") /\ Becomes(g, Doing("search", NoName, NoLine, 0))
    BY <1>5 DEF ManagerCannotConnect
  <2>2. /\ doing'[g].at = "search"
        /\ \A h \in Goroutines : h # g => doing'[h] = doing[h]
    BY <1>1, <2>1, BecomesWhat DEF Doing
  <2>3. QED
    BY <1>1, <2>1, <2>2, CommonTurns DEF Common
<1>6. CASE CountNext(p)
  <2>1. At(g, "next") \/ At(g, "search")
    BY <1>6 DEF CountNext, SearchEnded
  <2>2. \/ Becomes(g, Doing("search", NoName, NoLine, 0))
        \/ Becomes(g, Idle(NoName))
    BY <1>6 DEF CountNext
  <2>3. /\ doing'[g].at \in {"search", "idle"}
        /\ \A h \in Goroutines : h # g => doing'[h] = doing[h]
    BY <1>1, <2>2, BecomesWhat DEF Doing, Idle
  <2>4. QED
    BY <1>1, <2>1, <2>3, CommonTurns DEF Common
<1>7. CASE Introduce(g) \/ SendTransactions(g)
  BY <1>1, <1>7, IntroduceTurnsWell, SendTransactionsTurnsWell
<1>8. QED
  BY <1>2, <1>3, <1>4, <1>5, <1>6, <1>7 DEF ManagerStep

LEMMA HeardTurnsTo ==
    ASSUME Types, NEW g \in Goroutines, NEW place, NEW line,
           doing' = [doing EXCEPT ![g].at = place, ![g].line = line]
    PROVE  /\ \A h \in Goroutines : h # g => doing'[h] = doing[h]
           /\ doing'[g].at = place /\ doing'[g].line = line
           /\ doing'[g].name = doing[g].name
<1>1. DOMAIN doing = Goroutines
      /\ doing[g] = Doing(doing[g].at, doing[g].name, doing[g].line, doing[g].conn)
  BY DEF Types, WorkTyped
<1>2. doing'[g] = [[doing[g] EXCEPT !.at = place] EXCEPT !.line = line]
      /\ \A h \in Goroutines : h # g => doing'[h] = doing[h]
  BY <1>1
<1>3. QED
  BY <1>1, <1>2 DEF Doing

\* A listener whose connection has not ended does not dial anew.
LEMMA ListenerTurns ==
    ASSUME Types, Calm, NEW c \in DOMAIN wire, ListenerStep(c)
    PROVE  doing' = doing \/ TurnsWell(Listener(c))
<1> DEFINE g == Listener(c)
           n == doing[g].name
<1>1. g \in Goroutines
  BY ConnectionIds
<1>2. CASE Ignore(c) \/ HearDelete(c)
  BY <1>2 DEF Ignore, HearDelete
<1>3. CASE HearIntroduce(c)
  <2>1. /\ At(g, "idle") /\ MayBegin
        /\ doing' = [doing EXCEPT ![g].at = "learn", ![g].line = Heard(c)]
    BY <1>3 DEF HearIntroduce, Hear
  <2>2. /\ doing'[g].at = "learn"
        /\ \A h \in Goroutines : h # g => doing'[h] = doing[h]
    BY <1>1, <2>1, HeardTurnsTo
  <2>3. QED
    BY <1>1, <2>1, <2>2, CommonTurns DEF Common
<1>4. CASE Gossip(c)
  <2>1. At(g, "gossip")
        /\ (Becomes(g, Doing("connect", n, NoLine, 0)) \/ Becomes(g, Idle(n)))
    BY <1>4 DEF Gossip
  <2>2. /\ doing'[g].at \in {"connect", "idle"}
        /\ \A h \in Goroutines : h # g => doing'[h] = doing[h]
    BY <1>1, <2>1, BecomesWhat DEF Doing, Idle
  <2>3. QED
    BY <1>1, <2>1, <2>2, CommonTurns DEF Common
<1>5. CASE ListenerConnects(c)
  <2>1. At(g, "connect") /\ Dial(g, n, nodesMap[wire[c].to][n], "introduce")
    BY <1>5 DEF ListenerConnects
  <2>2. QED
    BY <1>1, <2>1, DialTurnsWell
<1>6. CASE ListenerCannotConnect(c)
  <2>1. At(g, "connect") /\ Becomes(g, Idle(n))
    BY <1>6 DEF ListenerCannotConnect
  <2>2. /\ doing'[g].at = "idle"
        /\ \A h \in Goroutines : h # g => doing'[h] = doing[h]
    BY <1>1, <2>1, BecomesWhat DEF Doing, Idle
  <2>3. QED
    BY <1>1, <2>1, <2>2, CommonTurns DEF Common
<1>7. CASE HearTransaction(c)
  <2>1. /\ At(g, "idle") /\ MayBegin
        /\ doing' = [doing EXCEPT ![g].at = "enter", ![g].line = Heard(c)]
    BY <1>7 DEF HearTransaction, Hear
  <2>2. /\ doing'[g].at = "enter" /\ doing[g].at = "idle"
        /\ \A h \in Goroutines : h # g => doing'[h] = doing[h]
    BY <1>1, <2>1, HeardTurnsTo, AtPlace
  <2>3. QED
    BY <1>7, <2>1, <2>2 DEF TurnsWell
<1>8. CASE EnterTransaction(c)
  <2>1. At(g, "enter") /\ Becomes(g, Idle(n))
    BY <1>8 DEF EnterTransaction
  <2>2. /\ doing'[g].at = "idle" /\ doing[g].at = "enter"
        /\ \A h \in Goroutines : h # g => doing'[h] = doing[h]
    BY <1>1, <2>1, BecomesWhat, AtPlace DEF Doing, Idle
  <2>3. QED
    BY <1>8, <2>1, <2>2 DEF TurnsWell, Places
<1>9. CASE LearnNode(g) \/ Introduce(g) \/ SendTransactions(g)
  BY <1>1, <1>9, LearnTurnsWell, IntroduceTurnsWell, SendTransactionsTurnsWell
<1>10. ~Disconnect(c)
  <2>1. Disconnect(c) => At(g, "idle") /\ ~wire[c].open
    BY DEF Disconnect
  <2>2. QED
    BY <1>1, <2>1, AtPlace DEF Calm
<1>11. ~Reconnect(c) /\ ~GiveUp(c)
  <2>1. Reconnect(c) \/ GiveUp(c) => At(g, "redial")
    BY DEF Reconnect, GiveUp
  <2>2. QED
    BY <1>1, <2>1, AtPlace DEF Calm
<1>12. QED
  BY <1>2, <1>3, <1>4, <1>5, <1>6, <1>7, <1>8, <1>9, <1>10, <1>11 DEF ListenerStep

\* An acceptor finds a line on the next connection, as none has ended.
LEMMA AcceptorTurns ==
    ASSUME Types, Calm, NEW p \in Nodes, AcceptorStep(p)
    PROVE  \E c \in DOMAIN wire : Accept(c) /\ TurnsWell(Listener(c))
<1>1. PICK c \in DOMAIN wire : Accept(c) \/ AcceptNothing(c)
  BY DEF AcceptorStep
<1> DEFINE g == Listener(c)
<1>2. g \in Goroutines
  BY ConnectionIds
<1>3. ~AcceptNothing(c)
  <2>1. AcceptNothing(c) => At(g, "backlog") /\ ~wire[c].open
    BY DEF AcceptNothing
  <2>2. QED
    BY <1>2, <2>1, AtPlace DEF Calm
<1>4. At(g, "backlog") /\ Accept(c)
  BY <1>1, <1>3 DEF Accept
<1>5. Becomes(g, Gone) \/ Becomes(g, Idle(secondWord(Head(wire[c].lines))))
  BY <1>4 DEF Accept
<1>6. /\ doing'[g].at \in {"gone", "idle"} /\ doing[g].at = "backlog"
      /\ \A h \in Goroutines : h # g => doing'[h] = doing[h]
  BY <1>2, <1>4, <1>5, BecomesWhat, AtPlace DEF Gone, Idle, Doing
<1>7. QED
  BY <1>4, <1>6 DEF TurnsWell, Places

LEMMA ServiceTurns ==
    ASSUME Types, NEW p \in Nodes, NEW q,
           \/ q \in Nodes /\ ServiceIntroduces(p, q)
           \/ q \in Transactions /\ ServiceSends(p, q)
    PROVE  TurnsWell(Clerk(p))
<1> DEFINE g == Clerk(p)
<1>1. g \in Goroutines /\ At(g, "idle") /\ MayBegin
  BY GoroutineKinds DEF ServiceIntroduces, ServiceSends, Reads, ServiceMay
<1>2. CASE q \in Nodes /\ ServiceIntroduces(p, q)
  <2>1. Becomes(g, Doing("check", NoName, INTRODUCE(q, q), 0))
    BY <1>2 DEF ServiceIntroduces
  <2>2. /\ doing'[g].at = "check"
        /\ \A h \in Goroutines : h # g => doing'[h] = doing[h]
    BY <1>1, <2>1, BecomesWhat DEF Doing
  <2>3. QED
    BY <1>1, <2>2, CommonTurns DEF Common
<1>3. CASE q \in Transactions /\ ServiceSends(p, q)
  <2>1. Becomes(g, Doing("spread", NoName, TRANSACTION(q), 0))
    BY <1>3 DEF ServiceSends
  <2>2. /\ doing'[g].at = "spread" /\ doing[g].at = "idle"
        /\ \A h \in Goroutines : h # g => doing'[h] = doing[h]
    BY <1>1, <2>1, BecomesWhat, AtPlace DEF Doing
  <2>3. QED
    BY <1>1, <1>3, <2>2 DEF TurnsWell
<1>4. QED
  BY <1>2, <1>3

\* One goroutine turns at most, and no process ends and no connection is collected.
LEMMA Turning ==
    ASSUME Types, Undisturbed, Calm, Next
    PROVE  /\ doing' = doing \/ \E g \in Goroutines : TurnsWell(g)
           /\ alive' = alive /\ collected' = collected
<1>1. ASSUME NEW p \in Nodes PROVE ~Crash(p)
  BY DEF Crash, Undisturbed
<1>2. ASSUME NEW c PROVE ~Collect(c)
  BY DEF Collect, Undisturbed, Calm
<1>3. ASSUME NEW p \in Nodes, NEW q \in Nodes, ServiceIntroduces(p, q)
      PROVE  TurnsWell(Clerk(p)) /\ alive' = alive /\ collected' = collected
  BY <1>3, ServiceTurns DEF ServiceIntroduces
<1>4. ASSUME NEW p \in Nodes, NEW t \in Transactions, ServiceSends(p, t)
      PROVE  TurnsWell(Clerk(p)) /\ alive' = alive /\ collected' = collected
  BY <1>4, ServiceTurns DEF ServiceSends
<1>5. ASSUME NEW p \in Nodes, ClerkStep(p)
      PROVE  TurnsWell(Clerk(p)) /\ alive' = alive /\ collected' = collected
  <2>1. alive' = alive /\ collected' = collected
    BY <1>5 DEF ClerkStep, CheckNode, LearnNode, ClerkConnects, ClerkCannotConnect,
       Introduce, SendTransactions, SpreadTransaction
  <2>2. QED
    BY <1>5, <2>1, ClerkTurns
<1>6. ASSUME NEW p \in Nodes, ManagerStep(p)
      PROVE  TurnsWell(Manager(p)) /\ alive' = alive /\ collected' = collected
  <2>1. alive' = alive /\ collected' = collected
    BY <1>6 DEF ManagerStep, Count, Choose, ManagerConnects, ManagerCannotConnect,
       CountNext, Introduce, SendTransactions
  <2>2. QED
    BY <1>6, <2>1, ManagerTurns
<1>7. ASSUME NEW p \in Nodes, AcceptorStep(p)
      PROVE  /\ \E c \in DOMAIN wire : TurnsWell(Listener(c))
             /\ alive' = alive /\ collected' = collected
  <2>1. alive' = alive /\ collected' = collected
    BY <1>7 DEF AcceptorStep, Accept, AcceptNothing
  <2>2. QED
    BY <1>7, <2>1, AcceptorTurns
<1>8. ASSUME NEW c \in DOMAIN wire, ListenerStep(c)
      PROVE  /\ doing' = doing \/ TurnsWell(Listener(c))
             /\ alive' = alive /\ collected' = collected
  <2>1. alive' = alive /\ collected' = collected
    BY <1>8 DEF ListenerStep, Ignore, HearIntroduce, LearnNode, Gossip, ListenerConnects,
       ListenerCannotConnect, Introduce, SendTransactions, HearDelete, HearTransaction,
       EnterTransaction, Disconnect, Reconnect, GiveUp
  <2>2. QED
    BY <1>8, <2>1, ListenerTurns
<1>9. \A p \in Nodes : Clerk(p) \in Goroutines /\ Manager(p) \in Goroutines
  BY GoroutineKinds
<1>10. \A c \in DOMAIN wire : Listener(c) \in Goroutines
  BY ConnectionIds
<1>11. QED
  BY <1>1, <1>2, <1>3, <1>4, <1>5, <1>6, <1>7, <1>8, <1>9, <1>10 DEF Next

------------------------------------------------------------------------------
(* Lines on their way                                                      *)

\* Lines are written behind those of c; or its listener takes the first of them, and
\* enters the transaction, if it is one that its node does not have.
Longer(c) ==
    /\ wire'[c].open = wire[c].open
    /\ \E more \in Seq(Lines) : wire'[c].lines = wire[c].lines \o more
Hears(c) ==
    /\ doing[Listener(c)].at = "idle"
    /\ wire[c].lines # <<>> /\ wire'[c].open = wire[c].open
    /\ \E more \in Seq(Lines) : wire'[c].lines = Tail(wire[c].lines \o more)
    /\ \A t \in Transactions : Head(wire[c].lines) = TRANSACTION(t) =>
          \/ t \in transactions[wire[c].to]
          \/ /\ doing'[Listener(c)].at = "enter"
             /\ doing'[Listener(c)].line = TRANSACTION(t)

LEMMA LongerLines ==
    ASSUME NEW s \in Seq(Lines), NEW more \in Seq(Lines)
    PROVE  /\ s \o more \in Seq(Lines) /\ DOMAIN s \subseteq DOMAIN (s \o more)
           /\ \A i \in DOMAIN s : (s \o more)[i] = s[i]
           /\ Len(s \o more) = Len(s) + Len(more)
           /\ \A i \in DOMAIN more :
                 Len(s) + i \in DOMAIN (s \o more) /\ (s \o more)[Len(s) + i] = more[i]
           /\ s # <<>> => s \o more # <<>> /\ Head(s \o more) = Head(s)
           /\ more # <<>> => s \o more # <<>>
<1>1. /\ s \o more \in Seq(Lines) /\ Len(s \o more) = Len(s) + Len(more)
      /\ Len(s) \in Nat /\ Len(more) \in Nat
      /\ DOMAIN s = 1..Len(s) /\ DOMAIN more = 1..Len(more)
      /\ DOMAIN (s \o more) = 1..(Len(s) + Len(more))
  BY ConcatProperties, LenProperties
<1>2. \A i \in 1..(Len(s) + Len(more)) :
         (s \o more)[i] = IF i <= Len(s) THEN s[i] ELSE more[i - Len(s)]
  BY ConcatProperties
<1>3. \A i \in DOMAIN s : i \in DOMAIN (s \o more) /\ (s \o more)[i] = s[i]
  BY <1>1, <1>2
<1>4. \A i \in DOMAIN more :
         Len(s) + i \in DOMAIN (s \o more) /\ (s \o more)[Len(s) + i] = more[i]
  BY <1>1, <1>2
<1>5. s # <<>> => s \o more # <<>> /\ Head(s \o more) = Head(s)
  <2> SUFFICES ASSUME s # <<>> PROVE s \o more # <<>> /\ Head(s \o more) = Head(s)
    OBVIOUS
  <2>1. Len(s) > 0
    BY <1>1
  <2>2. s \o more # <<>>
    BY <1>1, <2>1
  <2>3. Head(s) = s[1] /\ Head(s \o more) = (s \o more)[1]
    BY <1>1, <2>2, HeadTailProperties
  <2>4. QED
    BY <1>1, <1>3, <2>1, <2>2, <2>3
<1>6. more # <<>> => s \o more # <<>>
  BY <1>1
<1>7. QED
  BY <1>1, <1>3, <1>4, <1>5, <1>6

LEMMA ShorterLines ==
    ASSUME NEW s \in Seq(Lines), s # <<>>
    PROVE  /\ Tail(s) \in Seq(Lines) /\ Head(s) = s[1]
           /\ \A i \in DOMAIN s : i > 1 => i - 1 \in DOMAIN Tail(s) /\ Tail(s)[i - 1] = s[i]
<1>1. /\ Tail(s) \in Seq(Lines) /\ Len(Tail(s)) = Len(s) - 1 /\ Head(s) = s[1]
      /\ \A i \in 1..Len(Tail(s)) : Tail(s)[i] = s[i + 1]
      /\ Len(s) \in Nat /\ Len(s) > 0 /\ DOMAIN s = 1..Len(s)
  BY HeadTailProperties, LenProperties
<1>2. DOMAIN Tail(s) = 1..(Len(s) - 1)
  BY <1>1, LenProperties
<1>3. ASSUME NEW i \in DOMAIN s, i > 1
      PROVE  i - 1 \in DOMAIN Tail(s) /\ Tail(s)[i - 1] = s[i]
  <2>1. i \in 1..Len(s) /\ i - 1 \in 1..(Len(s) - 1)
    BY <1>1, <1>3
  <2>2. Tail(s)[i - 1] = s[(i - 1) + 1]
    BY <1>1, <2>1
  <2>3. QED
    BY <1>2, <2>1, <2>2
<1>4. QED
  BY <1>1, <1>3

LEMMA SameIsLonger ==
    ASSUME Types, NEW c \in DOMAIN wire, wire'[c] = wire[c]
    PROVE  Longer(c)
<1>1. wire[c].lines \in Seq(Lines) /\ <<>> \in Seq(Lines)
  BY Carrier DEF Types
<1>2. wire[c].lines \o <<>> = wire[c].lines
  BY <1>1
<1>3. QED
  BY <1>1, <1>2 DEF Longer

LEMMA MulticastIsLonger ==
    ASSUME Types, NEW p, NEW line \in Lines, wire' = Multicast(p, line)
    PROVE  /\ \A c \in DOMAIN wire : Longer(c)
           /\ \A c \in DOMAIN wire : c \in Kept(p) /\ Live(c) =>
                 wire'[c].lines = wire[c].lines \o <<line>>
<1>1. wire \in Seq(Carriers) /\ Service \notin Nodes
  BY NetworkAssumption DEF Types
<1>2. \A c \in DOMAIN wire :
         /\ wire'[c].open = wire[c].open
         /\ wire'[c].lines =
               IF c \in Kept(p) /\ wire[c].open /\ wire[c].to # Service
               THEN wire[c].lines \o <<line>> ELSE wire[c].lines
  BY <1>1, MulticastTyped
<1>3. ASSUME NEW c \in DOMAIN wire PROVE Longer(c)
  <2>1. wire[c].lines \o <<>> = wire[c].lines /\ <<>> \in Seq(Lines) /\ <<line>> \in Seq(Lines)
    BY <1>1, Carrier
  <2>2. QED
    BY <1>2, <2>1 DEF Longer
<1>4. QED
  BY <1>1, <1>2, <1>3 DEF Live

LEMMA WriteIsLonger ==
    ASSUME Types, NEW d \in DOMAIN wire, NEW lines \in Seq(Lines), wire' = Write(lines, d)
    PROVE  /\ \A c \in DOMAIN wire : Longer(c)
           /\ Live(d) => wire'[d].lines = wire[d].lines \o lines
<1>1. wire \in Seq(Carriers) /\ Service \notin Nodes
  BY NetworkAssumption DEF Types
<1>2. /\ \A c \in DOMAIN wire : c # d => wire'[c] = wire[c]
      /\ wire'[d].open = wire[d].open
      /\ wire'[d].lines = IF wire[d].open /\ wire[d].to # Service
                          THEN wire[d].lines \o lines ELSE wire[d].lines
  BY <1>1, WriteTyped
<1>3. Longer(d)
  <2>1. wire[d].lines \o <<>> = wire[d].lines /\ <<>> \in Seq(Lines)
    BY <1>1, Carrier
  <2>2. QED
    BY <1>2, <2>1 DEF Longer
<1>4. QED
  BY <1>1, <1>2, <1>3, SameIsLonger DEF Live

LEMMA DialIsLonger ==
    ASSUME Types, NEW g \in Goroutines, NEW key, NEW address, NEW place, NEW at,
           At(g, at), Reachable(address), Dial(g, key, address, place)
    PROVE  \A c \in DOMAIN wire : Longer(c)
BY DialKeeps, SameIsLonger

LEMMA RestHears ==
    ASSUME Types, NEW c \in DOMAIN wire, At(Listener(c), "idle"), wire[c].lines # <<>>,
           wire' = Rest(c),
           \A t \in Transactions : Head(wire[c].lines) = TRANSACTION(t) =>
              t \in transactions[wire[c].to]
    PROVE  Hears(c) /\ \A d \in DOMAIN wire : d # c => Longer(d)
<1>1. /\ wire'[c].lines = Tail(wire[c].lines) /\ wire'[c].open = wire[c].open
      /\ \A d \in DOMAIN wire : d # c => wire'[d] = wire[d]
  BY RestKeeps
<1>2. wire[c].lines \o <<>> = wire[c].lines /\ <<>> \in Seq(Lines)
  BY Carrier DEF Types
<1>3. doing[Listener(c)].at = "idle"
  BY ConnectionIds, AtPlace
<1>4. Hears(c)
  BY <1>1, <1>2, <1>3 DEF Hears
<1>5. QED
  BY <1>1, <1>4, SameIsLonger

LEMMA PassedOnHears ==
    ASSUME Types, NEW c \in DOMAIN wire, NEW type, Hear(c, type), wire' = PassedOn(c),
           \A t \in Transactions : Head(wire[c].lines) = TRANSACTION(t) =>
              /\ doing'[Listener(c)].at = "enter"
              /\ doing'[Listener(c)].line = TRANSACTION(t)
    PROVE  /\ Hears(c) /\ \A d \in DOMAIN wire : d # c => Longer(d)
           /\ \A d \in DOMAIN wire : d \in Kept(wire[c].to) /\ Live(d) =>
                 wire'[d].lines = IF d = c THEN Tail(wire[d].lines \o <<Heard(c)>>)
                                           ELSE wire[d].lines \o <<Heard(c)>>
<1> DEFINE p == wire[c].to
           on == Multicast(p, Heard(c))
<1>1. wire \in Seq(Carriers) /\ Service \notin Nodes
  BY NetworkAssumption DEF Types
<1>2. /\ Heard(c) \in Lines /\ wire[c].lines # <<>> /\ doing[Listener(c)].at = "idle"
      /\ <<Heard(c)>> \in Seq(Lines)
  BY HearsLine, AtPlace
<1>3. \A d \in DOMAIN wire :
         on[d].lines = IF d \in Kept(p) /\ wire[d].open /\ wire[d].to # Service
                       THEN wire[d].lines \o <<Heard(c)>> ELSE wire[d].lines
  BY <1>1, <1>2, MulticastTyped
<1>4. /\ wire'[c].lines = Tail(on[c].lines)
      /\ \A d \in DOMAIN wire : d # c => wire'[d].lines = on[d].lines
      /\ \A d \in DOMAIN wire : wire'[d].open = wire[d].open
  BY PassedOnTyped
<1> HIDE DEF on
<1>5. \A d \in DOMAIN wire : wire[d].lines \o <<>> = wire[d].lines /\ <<>> \in Seq(Lines)
  BY <1>1, Carrier
<1>6. \A d \in DOMAIN wire : \E more \in Seq(Lines) : on[d].lines = wire[d].lines \o more
  BY <1>2, <1>3, <1>5
<1>7. Hears(c)
  BY <1>2, <1>4, <1>6 DEF Hears
<1>8. \A d \in DOMAIN wire : d # c => Longer(d)
  BY <1>4, <1>6 DEF Longer
<1>9. \A d \in DOMAIN wire : d \in Kept(p) /\ Live(d) =>
         on[d].lines = wire[d].lines \o <<Heard(c)>>
  BY <1>1, <1>3 DEF Live
<1>10. QED
  BY <1>4, <1>7, <1>8, <1>9

LEMMA IntroduceLonger ==
    ASSUME Types, NEW g \in Goroutines, Introduce(g)
    PROVE  \A c \in DOMAIN wire : Longer(c)
<1>1. doing[g].conn \in DOMAIN wire
      /\ \E lines \in Seq(Lines) : wire' = Write(lines, doing[g].conn)
  BY IntroduceTyped
<1>2. QED
  BY <1>1, WriteIsLonger

LEMMA SendTransactionsLonger ==
    ASSUME Types, NEW g \in Goroutines, SendTransactions(g)
    PROVE  \A c \in DOMAIN wire : Longer(c)
<1>1. doing[g].conn \in DOMAIN wire
      /\ \E lines \in Seq(Lines) : wire' = Write(lines, doing[g].conn)
  BY SendTransactionsTyped
<1>2. QED
  BY <1>1, WriteIsLonger

LEMMA ClerkLines ==
    ASSUME Types, NEW p \in Nodes, ClerkStep(p)
    PROVE  \A c \in DOMAIN wire : Longer(c)
<1> DEFINE g == Clerk(p)
<1>1. g \in Goroutines
  BY GoroutineKinds
<1>2. CASE CheckNode(p) \/ LearnNode(g) \/ ClerkCannotConnect(p)
  <2>1. wire' = wire
    BY <1>2 DEF CheckNode, LearnNode, ClerkCannotConnect
  <2>2. QED
    BY <2>1, SameIsLonger
<1>3. CASE ClerkConnects(p)
  <2>1. /\ At(g, "connect") /\ Reachable(doing[g].line.address)
        /\ Dial(g, p, doing[g].line.address, "introduce")
    BY <1>3 DEF ClerkConnects
  <2>2. QED
    BY <1>1, <2>1, DialIsLonger
<1>4. CASE Introduce(g) \/ SendTransactions(g)
  BY <1>1, <1>4, IntroduceLonger, SendTransactionsLonger
<1>5. CASE SpreadTransaction(p)
  <2>1. At(g, "spread") /\ wire' = Multicast(p, doing[g].line)
    BY <1>5 DEF SpreadTransaction
  <2>2. doing[g].line \in {TRANSACTION(t) : t \in Transactions}
    BY <1>1, <2>1, AtPlace DEF WorkTyped
  <2>3. doing[g].line \in Lines
    BY <2>2, TransactionFields
  <2>4. QED
    BY <2>1, <2>3, MulticastIsLonger
<1>6. QED
  BY <1>2, <1>3, <1>4, <1>5 DEF ClerkStep

LEMMA ManagerLines ==
    ASSUME Types, NEW p \in Nodes, ManagerStep(p)
    PROVE  \A c \in DOMAIN wire : Longer(c)
<1> DEFINE g == Manager(p)
           n == doing[g].name
<1>1. g \in Goroutines /\ n \in Names
  BY GoroutineKinds DEF Types, WorkTyped
<1>2. CASE Count(p) \/ Choose(p) \/ CountNext(p)
  <2>1. wire' = wire
    BY <1>2 DEF Count, Choose, CountNext
  <2>2. QED
    BY <2>1, SameIsLonger
<1>3. CASE ManagerConnects(p)
  <2>1. /\ At(g, "connect") /\ Reachable(nodesMap[p][n])
        /\ Dial(g, n, nodesMap[p][n], "introduce")
    BY <1>3 DEF ManagerConnects
  <2>2. QED
    BY <1>1, <2>1, DialIsLonger
<1>4. CASE Introduce(g) \/ SendTransactions(g)
  BY <1>1, <1>4, IntroduceLonger, SendTransactionsLonger
<1>5. CASE ManagerCannotConnect(p)
  <2>1. wire' = Multicast(p, DELETE(n))
    BY <1>5 DEF ManagerCannotConnect
  <2>2. DELETE(n) \in Lines
    BY <1>1 DEF Lines
  <2>3. QED
    BY <2>1, <2>2, MulticastIsLonger
<1>6. QED
  BY <1>2, <1>3, <1>4, <1>5 DEF ManagerStep

\* What is heard is not a transaction, or one that is known or entered next.
LEMMA HeardIsKnown ==
    ASSUME Types, NEW c \in DOMAIN wire, NEW type, Hear(c, type), NEW t \in Transactions,
           Heard(c) = TRANSACTION(t)
    PROVE  type = "TRANSACTION" /\ Heard(c).transaction = t
BY HearsLine DEF TRANSACTION

LEMMA Enters ==
    ASSUME Types, NEW c \in DOMAIN wire, HearTransaction(c)
    PROVE  doing'[Listener(c)].at = "enter" /\ doing'[Listener(c)].line = Heard(c)
<1>1. Listener(c) \in Goroutines
  BY ConnectionIds
<1> DEFINE l == Listener(c)
           d == doing[l]
<1>2. DOMAIN doing = Goroutines /\ d = Doing(d.at, d.name, d.line, d.conn)
  BY <1>1 DEF Types, WorkTyped
<1>3. doing' = [doing EXCEPT ![l].at = "enter", ![l].line = Heard(c)]
  BY DEF HearTransaction
<1> HIDE DEF l
<1>4. doing'[l] = [[d EXCEPT !.at = "enter"] EXCEPT !.line = Heard(c)]
  BY <1>1, <1>2, <1>3 DEF l
<1> HIDE DEF d
<1>5. QED
  BY <1>2, <1>4 DEF Doing, l

LEMMA ListenerLines ==
    ASSUME Types, NEW c \in DOMAIN wire, ListenerStep(c)
    PROVE  \A d \in DOMAIN wire : Longer(d) \/ Hears(d)
<1> DEFINE g == Listener(c)
           n == doing[g].name
           p == wire[c].to
<1>1. g \in Goroutines /\ n \in Names
  BY ConnectionIds DEF Types, WorkTyped
<1>2. CASE \/ LearnNode(g) \/ ListenerCannotConnect(c) \/ EnterTransaction(c) \/ Disconnect(c)
  <2>1. wire' = wire
    BY <1>2 DEF LearnNode, ListenerCannotConnect, EnterTransaction, Disconnect
  <2>2. QED
    BY <2>1, SameIsLonger
<1>3. CASE Ignore(c)
  <2>1. PICK type :
           /\ Hear(c, type)
           /\ type = "TRANSACTION" => Heard(c).transaction \in transactions[p]
    BY <1>3 DEF Ignore
  <2>2. wire' = Rest(c) /\ wire[c].lines # <<>> /\ At(g, "idle")
    BY <1>3, <2>1, HearsLine DEF Ignore
  <2>3. \A t \in Transactions : Head(wire[c].lines) = TRANSACTION(t) => t \in transactions[p]
    BY <2>1, HeardIsKnown DEF Heard
  <2>4. QED
    BY <2>2, <2>3, RestHears
<1>4. CASE HearIntroduce(c)
  <2>1. Hear(c, "INTRODUCE") /\ wire' = Rest(c)
    BY <1>4 DEF HearIntroduce
  <2>2. wire[c].lines # <<>> /\ At(g, "idle")
    BY <2>1, HearsLine
  <2>3. \A t \in Transactions : Head(wire[c].lines) = TRANSACTION(t) => t \in transactions[p]
    BY <2>1, HeardIsKnown DEF Heard
  <2>4. QED
    BY <2>1, <2>2, <2>3, RestHears
<1>5. CASE HearDelete(c)
  <2>1. Hear(c, "DELETE") /\ wire' = PassedOn(c)
    BY <1>5 DEF HearDelete
  <2>2. \A t \in Transactions : Head(wire[c].lines) # TRANSACTION(t)
    BY <2>1, HeardIsKnown DEF Heard
  <2>3. QED
    BY <2>1, <2>2, PassedOnHears
<1>6. CASE HearTransaction(c)
  <2>1. Hear(c, "TRANSACTION") /\ wire' = PassedOn(c)
        /\ doing' = [doing EXCEPT ![g].at = "enter", ![g].line = Heard(c)]
    BY <1>6 DEF HearTransaction
  <2>2. doing'[g].at = "enter" /\ doing'[g].line = Heard(c)
    BY <1>6, Enters
  <2>3. QED
    BY <2>1, <2>2, PassedOnHears DEF Heard
<1>7. CASE Gossip(c)
  <2>1. At(g, "gossip") /\ wire' = Multicast(p, doing[g].line)
    BY <1>7 DEF Gossip
  <2>2. doing[g].line \in Introductions
    BY <1>1, <2>1, AtPlace DEF WorkTyped
  <2>3. doing[g].line \in Lines
    BY <2>2, IntroductionFields
  <2>4. QED
    BY <2>1, <2>3, MulticastIsLonger
<1>8. CASE ListenerConnects(c) \/ Reconnect(c)
  <2>1. /\ At(g, "connect") \/ At(g, "redial")
        /\ Reachable(nodesMap[p][n])
        /\ Dial(g, n, nodesMap[p][n], "introduce") \/ Dial(g, n, nodesMap[p][n], "gone")
    BY <1>8 DEF ListenerConnects, Reconnect, CanReach
  <2>2. QED
    BY <1>1, <2>1, DialIsLonger
<1>9. CASE Introduce(g) \/ SendTransactions(g)
  BY <1>1, <1>9, IntroduceLonger, SendTransactionsLonger
<1>10. CASE GiveUp(c)
  <2>1. wire' = Multicast(p, DELETE(n))
    BY <1>10 DEF GiveUp
  <2>2. DELETE(n) \in Lines
    BY <1>1 DEF Lines
  <2>3. QED
    BY <2>1, <2>2, MulticastIsLonger
<1>11. QED
  BY <1>2, <1>3, <1>4, <1>5, <1>6, <1>7, <1>8, <1>9, <1>10 DEF ListenerStep

\* What happens to the lines of a connection in one step.
LEMMA LinesMove ==
    ASSUME Types, Undisturbed, Calm, Next
    PROVE  \A c \in DOMAIN wire : Accept(c) \/ Longer(c) \/ Hears(c)
<1>1. ASSUME NEW p \in Nodes PROVE ~Crash(p)
  BY DEF Crash, Undisturbed
<1>2. ASSUME NEW c PROVE ~Collect(c)
  BY DEF Collect, Undisturbed, Calm
<1>3. ASSUME NEW p \in Nodes, NEW q \in Nodes, ServiceIntroduces(p, q)
      PROVE  \A c \in DOMAIN wire : Longer(c)
  <2>1. wire' = Multicast(p, INTRODUCE(q, q))
    BY <1>3 DEF ServiceIntroduces
  <2>2. INTRODUCE(q, q) \in Lines
    BY DEF Lines, Introductions
  <2>3. QED
    BY <2>1, <2>2, MulticastIsLonger
<1>4. ASSUME NEW p \in Nodes, NEW t \in Transactions, ServiceSends(p, t)
      PROVE  \A c \in DOMAIN wire : Longer(c)
  BY <1>4, SameIsLonger DEF ServiceSends
<1>5. ASSUME NEW p \in Nodes, AcceptorStep(p)
      PROVE  \A c \in DOMAIN wire : Accept(c) \/ Longer(c)
  <2>1. PICK c \in DOMAIN wire : Accept(c)
    BY <1>5, AcceptorTurns
  <2>2. \A d \in DOMAIN wire : d # c => wire'[d] = wire[d]
    BY <2>1, AcceptTyped
  <2>3. QED
    BY <2>1, <2>2, SameIsLonger
<1>6. QED
  BY <1>1, <1>2, <1>3, <1>4, <1>5, ClerkLines, ManagerLines, ListenerLines DEF Next

------------------------------------------------------------------------------
(* What is kept                                                            *)

\* Only its acceptor takes a connection out of the backlog.
LEMMA Backlogs ==
    ASSUME Types, Undisturbed, Calm, Next, NEW c \in DOMAIN wire
    PROVE  /\ doing'[Listener(c)].at = "backlog" => doing[Listener(c)].at = "backlog"
           /\ doing[Listener(c)].at = "backlog" =>
                 Accept(c) \/ doing'[Listener(c)] = doing[Listener(c)]
           /\ doing[Listener(c)].at = "gone" => doing'[Listener(c)].at = "gone"
<1> DEFINE l == Listener(c)
<1>1. l \in Goroutines
  BY ConnectionIds
<1>2. CASE doing'[l] = doing[l]
  BY <1>2
<1>3. CASE TurnsWell(l)
  <2>1. doing[l].at # "gone" /\ doing'[l].at # "backlog"
    BY <1>3 DEF TurnsWell
  <2>2. doing[l].at = "backlog" => \E d \in DOMAIN wire : l = Listener(d) /\ Accept(d)
    BY <1>3 DEF TurnsWell
  <2>3. \A d : l = Listener(d) => d = c
    BY DEF Listener
  <2>4. QED
    BY <2>1, <2>2, <2>3
<1>4. QED
  <2>1. doing' = doing \/ \E g \in Goroutines : TurnsWell(g)
    BY Turning
  <2>2. \A g \in Goroutines : TurnsWell(g) => g = l \/ doing'[l] = doing[l]
    BY <1>1 DEF TurnsWell
  <2>3. QED
    BY <1>2, <1>3, <2>1, <2>2

\* What is accepted: it is closed, or its first line is taken.
LEMMA Accepted ==
    ASSUME Types, NEW c \in DOMAIN wire, Accept(c)
    PROVE  /\ wire[c].lines # <<>> /\ doing[Listener(c)].at = "backlog"
           /\ \/ doing'[Listener(c)].at = "gone" /\ ~wire'[c].open
              \/ /\ doing'[Listener(c)].at = "idle" /\ wire'[c].open = wire[c].open
                 /\ wire'[c].lines = Tail(wire[c].lines)
<1>1. Listener(c) \in Goroutines
  BY ConnectionIds
<1>2. wire[c].lines # <<>> /\ At(Listener(c), "backlog")
  BY DEF Accept
<1>3. \A x : Becomes(Listener(c), x) => doing'[Listener(c)] = x
  BY <1>1, BecomesWhat
<1>4. doing[Listener(c)].at = "backlog"
  BY <1>1, <1>2, AtPlace
<1>5. \/ doing'[Listener(c)] = Gone /\ ~wire'[c].open
      \/ /\ doing'[Listener(c)] = Idle(secondWord(Head(wire[c].lines)))
         /\ wire'[c].lines = Tail(wire[c].lines) /\ wire'[c].open = wire[c].open
  BY <1>3, AcceptTyped
<1>6. QED
  BY <1>2, <1>4, <1>5 DEF Gone, Idle, Doing

\* Whoever has a transaction keeps it.
LEMMA HasKept ==
    ASSUME Types, Undisturbed, Calm, Next, NEW q \in Nodes, NEW t \in Transactions, Has(q, t)
    PROVE  Has(q, t)'
<1>1. CASE t \in transactions[q]
  BY <1>1, StepTransactions DEF Has
<1>2. CASE Entering(q, t)
  <2>1. PICK d \in DOMAIN wire : /\ wire[d].to = q /\ doing[Listener(d)].at = "enter"
                                 /\ doing[Listener(d)].line = TRANSACTION(t)
    BY <1>2 DEF Entering
  <2> DEFINE l == Listener(d)
  <2>2. l \in Goroutines /\ d \in DOMAIN wire' /\ wire'[d].to = q
    BY <2>1, ConnectionIds, StepWires DEF WireTyped, Grows
  <2>3. CASE doing'[l] = doing[l]
    BY <2>1, <2>2, <2>3 DEF Has, Entering
  <2>4. CASE TurnsWell(l)
    <3>1. \E e \in DOMAIN wire : l = Listener(e) /\ EnterTransaction(e)
      BY <2>1, <2>4 DEF TurnsWell
    <3>2. EnterTransaction(d)
      BY <3>1 DEF Listener
    <3>3. transactions' = [transactions EXCEPT ![q] = @ \cup {doing[l].line.transaction}]
      BY <2>1, <3>2 DEF EnterTransaction
    <3>4. doing[l].line.transaction = t
      BY <2>1 DEF TRANSACTION
    <3>5. t \in transactions'[q]
      BY <3>3, <3>4 DEF Types
    <3>6. QED
      BY <3>5 DEF Has
  <2>5. QED
    <3>1. doing' = doing \/ \E g \in Goroutines : TurnsWell(g)
      BY Turning
    <3>2. \A g \in Goroutines : TurnsWell(g) => g = l \/ doing'[l] = doing[l]
      BY <2>2 DEF TurnsWell
    <3>3. QED
      BY <2>3, <2>4, <3>1, <3>2
<1>3. QED
  BY <1>1, <1>2 DEF Has

\* What is on its way arrives, unless the connection is refused.
LEMMA StillOnItsWay ==
    ASSUME Types, Undisturbed, Calm, Next, NEW c \in DOMAIN wire, NEW t \in Transactions,
           OnTheWay(c, t), wire'[c].open
    PROVE  \/ OnTheWay(c, t)'
           \/ t \in transactions[wire[c].to]
           \/ /\ doing'[Listener(c)].at = "enter"
              /\ doing'[Listener(c)].line = TRANSACTION(t)
<1> DEFINE l == Listener(c)
           s == wire[c].lines
<1>1. s \in Seq(Lines)
  BY Carrier DEF Types
<1>2. PICK i \in DOMAIN s : i > ForName(c) /\ s[i] = TRANSACTION(t)
  BY DEF OnTheWay
<1>3. i \in Nat /\ i >= 1 /\ s # <<>>
  BY <1>1, <1>2, LenProperties
<1>4. doing'[l].at = "backlog" => doing[l].at = "backlog"
  BY Backlogs
<1>5. CASE Accept(c)
  <2>1. doing'[l].at = "idle" /\ wire'[c].lines = Tail(s) /\ doing[l].at = "backlog"
    BY <1>5, Accepted
  <2>2. i > 1
    BY <1>2, <2>1 DEF ForName
  <2>3. i - 1 \in DOMAIN Tail(s) /\ Tail(s)[i - 1] = TRANSACTION(t)
    BY <1>1, <1>2, <1>3, <2>2, ShorterLines
  <2>4. i - 1 > 0
    BY <1>3, <2>2
  <2>5. QED
    BY <2>1, <2>3, <2>4 DEF OnTheWay, ForName
<1>6. CASE Longer(c)
  <2>1. PICK more \in Seq(Lines) : wire'[c].lines = s \o more
    BY <1>6 DEF Longer
  <2>2. i \in DOMAIN wire'[c].lines /\ wire'[c].lines[i] = TRANSACTION(t)
    BY <1>1, <1>2, <2>1, LongerLines
  <2>3. i > (IF doing'[l].at = "backlog" THEN 1 ELSE 0)
    BY <1>2, <1>3, <1>4 DEF ForName
  <2>4. QED
    BY <2>2, <2>3 DEF OnTheWay, ForName
<1>7. CASE Hears(c)
  <2>1. PICK more \in Seq(Lines) : wire'[c].lines = Tail(s \o more)
    BY <1>7 DEF Hears
  <2>2. CASE i = 1
    <3>1. Head(s) = TRANSACTION(t)
      BY <1>1, <1>2, <1>3, <2>2, ShorterLines
    <3>2. QED
      BY <1>7, <3>1 DEF Hears
  <2>3. CASE i # 1
    <3>1. s \o more \in Seq(Lines) /\ s \o more # <<>>
          /\ i \in DOMAIN (s \o more) /\ (s \o more)[i] = TRANSACTION(t)
      BY <1>1, <1>2, <1>3, LongerLines
    <3>2. i > 1 /\ i - 1 > 0
      BY <1>3, <2>3
    <3>3. i - 1 \in DOMAIN wire'[c].lines /\ wire'[c].lines[i - 1] = TRANSACTION(t)
      BY <2>1, <3>1, <3>2, ShorterLines
    <3>4. doing'[l].at # "backlog"
      BY <1>4, <1>7 DEF Hears
    <3>5. QED
      BY <3>2, <3>3, <3>4 DEF OnTheWay, ForName
  <2>4. QED
    BY <2>2, <2>3
<1>8. QED
  BY <1>5, <1>6, <1>7, LinesMove

\* What is told stays told.
LEMMA DeliveredKept ==
    ASSUME Types, Undisturbed, Calm, Next, NEW c \in DOMAIN wire, NEW t \in Transactions,
           Live(c), wire'[c].open, Delivered(c, t)
    PROVE  Delivered(c, t)'
<1> DEFINE q == wire[c].to
<1>1. q \in Nodes /\ wire'[c].to = q /\ c \in DOMAIN wire'
  BY StepWires DEF Live, WireTyped, Grows
<1>2. CASE Has(q, t)
  <2>1. \A p \in Nodes : Has(p, t) => Has(p, t)'
    BY HasKept
  <2>2. \A p \in Nodes : p = q => Has(p, t)'
    BY <1>1, <1>2, <2>1
  <2>3. QED
    BY <1>1, <2>2 DEF Delivered
<1>3. CASE OnTheWay(c, t)
  <2>1. CASE t \in transactions[q]
    BY <1>2, <2>1 DEF Has
  <2>2. CASE doing'[Listener(c)].at = "enter" /\ doing'[Listener(c)].line = TRANSACTION(t)
    <3>1. \A p : p = q => Entering(p, t)'
      BY <1>1, <2>2 DEF Entering
    <3>2. QED
      BY <1>1, <3>1 DEF Delivered, Has
  <2>3. CASE OnTheWay(c, t)'
    BY <2>3 DEF Delivered
  <2>4. QED
    BY <1>3, <2>1, <2>2, <2>3, StillOnItsWay
<1>4. QED
  BY <1>2, <1>3 DEF Delivered

\* What is written behind another line is on its way.
LEMMA Written ==
    ASSUME Types, Undisturbed, Calm, Named, Next, NEW c \in DOMAIN wire, Live(c), ~Nameless(c),
           NEW more \in Seq(Lines), wire'[c].lines = wire[c].lines \o more,
           NEW t \in Transactions, NEW i \in DOMAIN more, more[i] = TRANSACTION(t)
    PROVE  OnTheWay(c, t)'
<1> DEFINE l == Listener(c)
           s == wire[c].lines
<1>1. s \in Seq(Lines)
  BY Carrier DEF Types
<1>2. Len(s) + i \in DOMAIN (s \o more) /\ (s \o more)[Len(s) + i] = TRANSACTION(t)
  BY <1>1, LongerLines
<1>3. i \in Nat /\ i >= 1 /\ Len(s) \in Nat /\ (s # <<>> => Len(s) >= 1)
  BY <1>1, LenProperties, EmptySeq
<1>4. doing'[l].at = "backlog" => s # <<>>
  BY Backlogs DEF Named
<1>5. Len(s) + i > (IF doing'[l].at = "backlog" THEN 1 ELSE 0)
  BY <1>3, <1>4
<1>6. QED
  BY <1>2, <1>5 DEF OnTheWay, ForName

------------------------------------------------------------------------------
(* What is told                                                            *)

\* A goroutine in the middle of an introduction is one of the node that dialled.
LEMMA Introducer ==
    ASSUME Types, Calm, NEW g \in Goroutines, doing[g].at \in {"introduce", "snapshot"}
    PROVE  /\ g \in Busy /\ doing[g].conn \in DOMAIN wire
           /\ Owner(g) = wire[doing[g].conn].from
<1>1. /\ doing[g].conn \in DOMAIN wire /\ wire[doing[g].conn].from = NodeOf(g, wire)
      /\ NodeOf(g, wire) = Owner(g)
  BY DEF Types, WorkTyped, NodeOf, Owner
<1>2. wire[doing[g].conn].from \in Nodes
  BY <1>1, Carrier DEF Types
<1>3. QED
  BY <1>1, <1>2 DEF Busy, Calm

LEMMA EntererIsBusy ==
    ASSUME Types, Calm, NEW q \in Nodes, NEW t, Entering(q, t)
    PROVE  \E g \in Busy : doing[g].at = "enter"
<1>1. PICK d \in DOMAIN wire : wire[d].to = q /\ doing[Listener(d)].at = "enter"
  BY DEF Entering
<1>2. Listener(d) \in Goroutines /\ Owner(Listener(d)) = q
  BY <1>1, ConnectionIds DEF Owner, Listener
<1>3. QED
  BY <1>1, <1>2 DEF Busy, Calm

LEMMA SpreadTells ==
    ASSUME Types, Undisturbed, Calm, Named, Next, NEW p \in Nodes, SpreadTransaction(p),
           NEW c \in Kept(p), c \in DOMAIN wire, Live(c), ~Nameless(c),
           NEW t \in Transactions, Spreading(p, t)
    PROVE  OnTheWay(c, t)'
<1>1. wire' = Multicast(p, TRANSACTION(t)) /\ TRANSACTION(t) \in Lines
  BY DEF SpreadTransaction, Spreading, Lines
<1>2. wire'[c].lines = wire[c].lines \o <<TRANSACTION(t)>>
  BY <1>1, MulticastIsLonger
<1> DEFINE more == <<TRANSACTION(t)>>
<1>3. more \in Seq(Lines) /\ 1 \in DOMAIN more /\ more[1] = TRANSACTION(t)
  BY <1>1
<1> HIDE DEF more
<1>4. wire'[c].lines = wire[c].lines \o more
  BY <1>2 DEF more
<1>5. QED
  BY <1>3, <1>4, Written

LEMMA SendTells ==
    ASSUME Types, Undisturbed, Calm, Named, Next, NEW g \in Goroutines, SendTransactions(g),
           NEW c, c = doing[g].conn, Live(c), NEW t \in Transactions,
           t \in transactions[Owner(g)]
    PROVE  OnTheWay(c, t)'
<1>1. doing[g].at = "snapshot"
  BY AtPlace DEF SendTransactions
<1>2. g \in Busy /\ c \in DOMAIN wire
  BY <1>1, Introducer
<1>3. ~Nameless(c)
  BY <1>1, <1>2, Introducer DEF Nameless, Calm
<1>4. PICK lines \in Seq(Lines), told \in Seq(Lines), proper \in Seq(Lines) :
         /\ lines = told \o proper
         /\ wire' = Write(lines, c)
         /\ \E i \in DOMAIN told : told[i] = TRANSACTION(t)
  BY SendTransactionsTyped
<1>5. PICK i \in DOMAIN lines : lines[i] = TRANSACTION(t)
  BY <1>4, LongerLines
<1>6. wire'[c].lines = wire[c].lines \o lines
  BY <1>2, <1>4, WriteIsLonger
<1>7. QED
  BY <1>2, <1>3, <1>5, <1>6, Written

LEMMA HearTells ==
    ASSUME Types, Undisturbed, Calm, Named, Next, NEW d \in DOMAIN wire, HearTransaction(d),
           NEW c \in Kept(wire[d].to), c \in DOMAIN wire, Live(c),
           NEW t \in Transactions, Heard(d) = TRANSACTION(t)
    PROVE  OnTheWay(c, t)'
<1>1. Hear(d, "TRANSACTION") /\ wire' = PassedOn(d) /\ MayBegin
  BY DEF HearTransaction
<1>2. ~Nameless(c)
  BY <1>1, NobodyBusy, Introducer DEF Nameless
<1>3. doing'[Listener(d)].at = "enter" /\ doing'[Listener(d)].line = TRANSACTION(t)
  BY Enters
<1>4. \A u \in Transactions : Head(wire[d].lines) = TRANSACTION(u) =>
         doing'[Listener(d)].at = "enter" /\ doing'[Listener(d)].line = TRANSACTION(u)
  BY <1>3 DEF Heard
<1>5. wire'[c].lines = IF c = d THEN Tail(wire[c].lines \o <<Heard(d)>>)
                                ELSE wire[c].lines \o <<Heard(d)>>
  BY <1>1, <1>4, PassedOnHears
<1> DEFINE more == <<Heard(d)>>
<1>6. more \in Seq(Lines) /\ 1 \in DOMAIN more /\ more[1] = TRANSACTION(t)
  BY <1>1, HearsLine
<1> HIDE DEF more
<1>7. CASE c # d
  <2>1. wire'[c].lines = wire[c].lines \o more
    BY <1>5, <1>7 DEF more
  <2>2. QED
    BY <1>2, <1>6, <2>1, Written
<1>8. CASE c = d
  <2> DEFINE s == wire[c].lines
  <2>1. wire'[c].lines = Tail(s \o more) /\ s \in Seq(Lines) /\ s # <<>>
    BY <1>1, <1>5, <1>8, Carrier, HearsLine DEF more, Types
  <2>2. Len(s) \in Nat /\ Len(s) >= 1
    BY <2>1, LenProperties, EmptySeq
  <2>3. /\ s \o more \in Seq(Lines) /\ s \o more # <<>>
        /\ Len(s) + 1 \in DOMAIN (s \o more) /\ (s \o more)[Len(s) + 1] = TRANSACTION(t)
    BY <1>6, <2>1, LongerLines
  <2>4. /\ (Len(s) + 1) - 1 \in DOMAIN wire'[c].lines
        /\ wire'[c].lines[(Len(s) + 1) - 1] = TRANSACTION(t)
    BY <2>1, <2>2, <2>3, ShorterLines
  <2>5. doing'[Listener(c)].at # "backlog"
    BY <1>3, <1>8
  <2>6. (Len(s) + 1) - 1 > 0
    BY <2>2
  <2>7. QED
    BY <2>4, <2>5, <2>6 DEF OnTheWay, ForName
<1>9. QED
  BY <1>7, <1>8

\* Whoever has a transaction that it had not is about to pass it on, or just has.
LEMMA NewHas ==
    ASSUME Types, Undisturbed, Calm, Next, NEW q \in Nodes, NEW t \in Transactions,
           Has(q, t)', ~Has(q, t)
    PROVE  \/ Spreading(q, t)'
           \/ \E d \in DOMAIN wire :
                 HearTransaction(d) /\ wire[d].to = q /\ Heard(d) = TRANSACTION(t)
<1>1. CASE t \in transactions'[q]
  <2>1. t \notin transactions[q] /\ transactions' # transactions
    BY <1>1 DEF Has
  <2>2. ASSUME NEW p \in Nodes, NEW u \in Transactions, ServiceSends(p, u)
        PROVE  Spreading(q, t)'
    <3>1. transactions' = [transactions EXCEPT ![p] = @ \cup {u}]
          /\ Becomes(Clerk(p), Doing("spread", NoName, TRANSACTION(u), 0))
      BY <2>2 DEF ServiceSends
    <3>2. p = q /\ t = u
      BY <1>1, <2>1, <3>1 DEF Types
    <3>3. doing'[Clerk(p)] = Doing("spread", NoName, TRANSACTION(u), 0)
      BY <3>1, GoroutineKinds, BecomesWhat
    <3>4. QED
      BY <3>2, <3>3 DEF Spreading, Doing
  <2>3. ASSUME NEW c \in DOMAIN wire, EnterTransaction(c)
        PROVE  FALSE
    <3> DEFINE l == Listener(c)
    <3>1. /\ At(l, "enter") /\ l \in Goroutines
          /\ transactions' = [transactions EXCEPT ![wire[c].to] =
                                 @ \cup {doing[l].line.transaction}]
      BY <2>3, ConnectionIds DEF EnterTransaction
    <3>2. /\ doing[l].at = "enter"
          /\ doing[l].line \in {TRANSACTION(u) : u \in Transactions}
      BY <3>1, AtPlace DEF WorkTyped
    <3>3. doing[l].line = TRANSACTION(doing[l].line.transaction)
      BY <3>2, TransactionFields
    <3>4. wire[c].to = q /\ t = doing[l].line.transaction
      BY <1>1, <2>1, <3>1 DEF Types
    <3>5. Entering(q, t)
      BY <3>2, <3>3, <3>4 DEF Entering
    <3>6. QED
      BY <3>5 DEF Has
  <2>4. QED
    BY <2>1, <2>2, <2>3, TransactionsMove
<1>2. CASE Entering(q, t)'
  <2>1. PICK d \in DOMAIN wire' : /\ wire'[d].to = q /\ doing'[Listener(d)].at = "enter"
                                  /\ doing'[Listener(d)].line = TRANSACTION(t)
    BY <1>2 DEF Entering
  <2> DEFINE l == Listener(d)
  <2>2. WireTyped /\ Types'
    BY StepWires, StepTypes
  <2>3. l \in Goroutines
    <3>1. DOMAIN wire' = 1..Len(wire') /\ Len(wire') \in Nat /\ Len(wire') <= MaxConnections
      BY <2>2, LenProperties DEF WireTyped
    <3>2. d \in Ids
      BY <2>1, <3>1, NetworkAssumption DEF Ids
    <3>3. QED
      BY <3>2, GoroutineKinds
  <2>4. ~(d \in DOMAIN wire /\ doing'[l] = doing[l])
    <3>1. ASSUME d \in DOMAIN wire, doing'[l] = doing[l]
          PROVE  Entering(q, t)
      <4>1. wire[d].to = q
        BY <2>1, <2>2, <3>1 DEF WireTyped, Grows
      <4>2. QED
        BY <2>1, <3>1, <4>1 DEF Entering
    <3>2. QED
      BY <3>1 DEF Has
  <2>5. CASE doing'[l] = doing[l]
    <3>1. d \notin DOMAIN wire
      BY <2>4, <2>5
    <3>2. l[1] = "listener" /\ l[2] = d
      BY DEF Listener
    <3>3. doing[l].at = "backlog"
      BY <2>3, <3>1, <3>2 DEF Types, WorkTyped
    <3>4. QED
      BY <2>1, <2>5, <3>3
  <2>6. CASE TurnsWell(l)
    <3>1. \E e \in DOMAIN wire : l = Listener(e) /\ HearTransaction(e)
      BY <2>1, <2>6 DEF TurnsWell
    <3>2. d \in DOMAIN wire /\ HearTransaction(d)
      BY <3>1 DEF Listener
    <3>3. Heard(d) = TRANSACTION(t) /\ wire[d].to = q
      BY <2>1, <2>2, <3>2, Enters DEF WireTyped, Grows
    <3>4. QED
      BY <3>2, <3>3
  <2>7. QED
    <3>1. doing' = doing \/ \E g \in Goroutines : TurnsWell(g)
      BY Turning
    <3>2. \A g \in Goroutines : TurnsWell(g) => g = l \/ doing'[l] = doing[l]
      BY <2>3 DEF TurnsWell
    <3>3. QED
      BY <2>5, <2>6, <3>1, <3>2
<1>3. QED
  BY <1>1, <1>2 DEF Has

------------------------------------------------------------------------------
(* What is dialled                                                         *)

\* A new connection is one that a goroutine introduces its node on.
LEMMA WhoDials ==
    ASSUME Types, Undisturbed, Calm, Next
    PROVE  \/ connections' = connections /\ DOMAIN wire' = DOMAIN wire
           \/ \E g \in Goroutines : \E key, address :
                 /\ At(g, "connect") /\ Reachable(address)
                 /\ Dial(g, key, address, "introduce")
<1> USE DEF maps
<1> DEFINE Same == connections' = connections /\ DOMAIN wire' = DOMAIN wire
           Dials(g) == \E key, address : /\ At(g, "connect") /\ Reachable(address)
                                         /\ Dial(g, key, address, "introduce")
<1>1. ASSUME NEW g \in Goroutines, Introduce(g) \/ SendTransactions(g)
      PROVE  Same
  <2>1. \E lines : wire' = Write(lines, doing[g].conn)
    BY <1>1 DEF Introduce, SendTransactions
  <2>2. connections' = connections
    BY <1>1 DEF Introduce, SendTransactions
  <2>3. QED
    BY <2>1, <2>2 DEF Write
<1>2. ASSUME NEW p \in Nodes, ClerkStep(p)
      PROVE  Same \/ Dials(Clerk(p))
  <2>1. CASE Introduce(Clerk(p)) \/ SendTransactions(Clerk(p))
    BY <1>1, <2>1, GoroutineKinds
  <2>2. CASE ClerkConnects(p)
    BY <2>2 DEF ClerkConnects
  <2>3. CASE CheckNode(p) \/ LearnNode(Clerk(p)) \/ ClerkCannotConnect(p)
    BY <2>3 DEF CheckNode, LearnNode, ClerkCannotConnect
  <2>4. CASE SpreadTransaction(p)
    BY <2>4 DEF SpreadTransaction, Multicast
  <2>5. QED
    BY <1>2, <2>1, <2>2, <2>3, <2>4 DEF ClerkStep
<1>3. ASSUME NEW p \in Nodes, ManagerStep(p)
      PROVE  Same \/ Dials(Manager(p))
  <2>1. CASE Introduce(Manager(p)) \/ SendTransactions(Manager(p))
    BY <1>1, <2>1, GoroutineKinds
  <2>2. CASE ManagerConnects(p)
    BY <2>2 DEF ManagerConnects
  <2>3. CASE Count(p) \/ Choose(p) \/ CountNext(p)
    BY <2>3 DEF Count, Choose, CountNext
  <2>4. CASE ManagerCannotConnect(p)
    BY <2>4 DEF ManagerCannotConnect, Multicast
  <2>5. QED
    BY <1>3, <2>1, <2>2, <2>3, <2>4 DEF ManagerStep
<1>4. ASSUME NEW c \in DOMAIN wire, ListenerStep(c)
      PROVE  Same \/ Dials(Listener(c))
  <2>1. Listener(c) \in Goroutines
    BY ConnectionIds
  <2>2. CASE Introduce(Listener(c)) \/ SendTransactions(Listener(c))
    BY <1>1, <2>1, <2>2
  <2>3. CASE ListenerConnects(c)
    BY <2>3 DEF ListenerConnects, CanReach
  <2>4. CASE Ignore(c) \/ HearIntroduce(c)
    BY <2>4 DEF Ignore, HearIntroduce, Rest
  <2>5. CASE HearDelete(c) \/ HearTransaction(c)
    BY <2>5 DEF HearDelete, HearTransaction, PassedOn, Multicast
  <2>6. CASE \/ LearnNode(Listener(c)) \/ ListenerCannotConnect(c) \/ EnterTransaction(c)
    BY <2>6 DEF LearnNode, ListenerCannotConnect, EnterTransaction
  <2>7. CASE Gossip(c)
    BY <2>7 DEF Gossip, Multicast
  <2>8. ~Disconnect(c) /\ ~Reconnect(c) /\ ~GiveUp(c)
    <3>1. /\ Disconnect(c) => At(Listener(c), "idle") /\ ~wire[c].open
          /\ Reconnect(c) \/ GiveUp(c) => At(Listener(c), "redial")
      BY DEF Disconnect, Reconnect, GiveUp
    <3>2. QED
      BY <2>1, <3>1, AtPlace DEF Calm
  <2>9. QED
    BY <1>4, <2>2, <2>3, <2>4, <2>5, <2>6, <2>7, <2>8 DEF ListenerStep
<1>5. ASSUME NEW p \in Nodes, AcceptorStep(p)
      PROVE  Same
  BY <1>5 DEF AcceptorStep, Accept, AcceptNothing
<1>6. ASSUME NEW p \in Nodes, NEW q \in Nodes, ServiceIntroduces(p, q)
      PROVE  Same
  BY <1>6 DEF ServiceIntroduces, Multicast
<1>7. ASSUME NEW p \in Nodes, NEW t \in Transactions, ServiceSends(p, t)
      PROVE  Same
  BY <1>7 DEF ServiceSends
<1>8. \A p \in Nodes : ~Crash(p)
  BY DEF Crash, Undisturbed
<1>9. \A c : ~Collect(c)
  BY DEF Collect, Undisturbed, Calm
<1>10. (\A p \in Nodes : Clerk(p) \in Goroutines /\ Manager(p) \in Goroutines)
       /\ \A c \in DOMAIN wire : Listener(c) \in Goroutines
  BY GoroutineKinds, ConnectionIds
<1> HIDE DEF Same, Dials
<1>11. Same \/ \E g \in Goroutines : Dials(g)
  BY <1>2, <1>3, <1>4, <1>5, <1>6, <1>7, <1>8, <1>9, <1>10 DEF Next
<1>12. QED
  BY <1>11 DEF Same, Dials

LEMMA Connects ==
    ASSUME Types, Undisturbed, Calm, Next
    PROVE  /\ \A c \in DOMAIN wire' : c \in DOMAIN wire \/ (wire'[c].open /\ Nameless(c)')
           /\ \A p \in Nodes : \A c \in Kept(p)' : c \in DOMAIN wire => c \in Kept(p)
<1>1. CASE connections' = connections /\ DOMAIN wire' = DOMAIN wire
  BY <1>1 DEF Kept, Connected
<1>2. CASE \E g \in Goroutines : \E key, address :
              /\ At(g, "connect") /\ Reachable(address) /\ Dial(g, key, address, "introduce")
  <2>1. PICK g \in Goroutines : \E key, address :
           /\ At(g, "connect") /\ Reachable(address) /\ Dial(g, key, address, "introduce")
    BY <1>2
  <2>2. PICK key, address :
           /\ At(g, "connect") /\ Reachable(address) /\ Dial(g, key, address, "introduce")
    BY <2>1
  <2> DEFINE n == Len(wire) + 1
  <2>3. /\ n \notin DOMAIN wire /\ DOMAIN wire' = DOMAIN wire \cup {n}
        /\ wire'[n] = [from |-> Owner(g), to |-> address, open |-> TRUE, lines |-> <<>>]
    BY <2>2, DialKeeps
  <2>4. doing'[g].at = "introduce" /\ doing'[g].conn = n
    BY <2>2, DialsTo
  <2>5. Owner(g) \in Nodes
        /\ connections' = [connections EXCEPT ![Owner(g)] = Put(@, key, n)]
    BY <2>2, AtPlace DEF Dial
  <2> HIDE DEF n
  <2>6. \A c \in DOMAIN wire' : c \in DOMAIN wire \/ (wire'[c].open /\ Nameless(c)')
    BY <2>3, <2>4 DEF Nameless
  <2>7. ASSUME NEW p \in Nodes, NEW c \in Kept(p)', c \in DOMAIN wire
        PROVE  c \in Kept(p)
    <3>1. connections'[p] = connections[p] \/ connections'[p] = Put(connections[p], key, n)
      BY <2>5 DEF Types
    <3>2. PICK m \in DOMAIN connections'[p] : c = connections'[p][m]
      BY <2>7 DEF Kept, Connected
    <3>3. c # n
      BY <2>3, <2>7
    <3>4. m \in DOMAIN connections[p] /\ c = connections[p][m]
      BY <3>1, <3>2, <3>3 DEF Put
    <3>5. QED
      BY <3>4 DEF Kept, Connected
  <2>8. QED
    BY <2>6, <2>7
<1>3. QED
  BY <1>1, <1>2, WhoDials

------------------------------------------------------------------------------
(* Every step keeps what is claimed                                        *)

LEMMA NextCalm ==
    ASSUME Types, Undisturbed, Calm, Next
    PROVE  Calm'
<1>1. (doing' = doing \/ \E g \in Goroutines : TurnsWell(g))
      /\ alive' = alive /\ collected' = collected
  BY Turning
<1>2. \A g \in Goroutines : doing'[g].at # "redial"
  BY <1>1 DEF Calm, TurnsWell
<1>3. ASSUME NEW c \in DOMAIN wire', ~wire'[c].open
      PROVE  doing'[Listener(c)].at = "gone"
  <2>1. c \in DOMAIN wire
    BY <1>3, Connects
  <2>2. CASE Accept(c)
    <3>1. doing'[Listener(c)].at = "gone" \/ wire'[c].open = wire[c].open
      BY <2>1, <2>2, Accepted
    <3>2. wire[c].open => doing'[Listener(c)].at = "gone"
      BY <1>3, <3>1
    <3>3. ~wire[c].open => doing[Listener(c)].at = "gone"
      BY <2>1 DEF Calm
    <3>4. QED
      BY <2>1, <3>2, <3>3, Backlogs
  <2>3. CASE Longer(c) \/ Hears(c)
    <3>1. ~wire[c].open
      BY <1>3, <2>3 DEF Longer, Hears
    <3>2. QED
      BY <2>1, <3>1, Backlogs DEF Calm
  <2>4. QED
    BY <2>1, <2>2, <2>3, LinesMove
<1>4. ASSUME NEW g \in Busy', doing'[g] = doing[g]
      PROVE  g \in Busy
  <2>1. g \in Goroutines /\ doing[g].at \notin Places /\ Owner(g)' \in alive
    BY <1>1, <1>4 DEF Busy, Places
  <2>2. g[1] = "listener" => g[2] \in DOMAIN wire
    BY <2>1 DEF Types, WorkTyped, Places
  <2>3. Owner(g)' = Owner(g)
    BY <2>2, StepWires DEF Owner, WireTyped, Grows
  <2>4. QED
    BY <2>1, <2>3 DEF Busy, Places
<1>5. ASSUME NEW k \in Goroutines, TurnsWell(k), NEW g \in Busy', g # k
      PROVE  g \in Busy /\ k \notin Busy'
  <2>1. g \in Goroutines
    BY DEF Busy
  <2>2. doing'[g] = doing[g]
    BY <1>5, <2>1 DEF TurnsWell
  <2>3. g \in Busy
    BY <1>4, <2>2
  <2>4. k \notin Busy'
    <3>1. Owner(k) \in alive
      BY <1>5 DEF TurnsWell, At
    <3>2. CASE doing[k].at \notin Places
      <4>1. k \in Busy
        BY <3>1, <3>2 DEF Busy, Places
      <4>2. QED
        BY <1>5, <2>3, <4>1 DEF Calm
    <3>3. CASE doing[k].at \in Places /\ doing'[k].at \notin Places
      <4>1. MayBegin
        BY <1>5, <3>3 DEF TurnsWell
      <4>2. QED
        BY <2>3, <4>1, NobodyBusy
    <3>4. CASE doing'[k].at \in Places
      BY <3>4 DEF Busy, Places
    <3>5. QED
      BY <3>2, <3>3, <3>4
  <2>5. QED
    BY <2>3, <2>4
<1>6. ASSUME NEW g \in Busy', NEW h \in Busy'
      PROVE  g = h
  <2>1. g \in Goroutines /\ h \in Goroutines
    BY DEF Busy
  <2>2. CASE doing' = doing
    BY <1>4, <2>2 DEF Calm
  <2>3. CASE \E k \in Goroutines : TurnsWell(k)
    <3>1. PICK k \in Goroutines : TurnsWell(k)
      BY <2>3
    <3>2. g # k /\ h # k => g = h
      BY <1>5, <3>1 DEF Calm
    <3>3. g = k \/ h = k => g = h
      BY <1>5, <3>1
    <3>4. QED
      BY <3>2, <3>3
  <2>4. QED
    BY <1>1, <2>2, <2>3
<1>7. QED
  BY <1>1, <1>2, <1>3, <1>6 DEF Calm

\* Who is introducing its node on a connection goes on with it.
LEMMA StaysNameless ==
    ASSUME Types, Undisturbed, Calm, Next, NEW c \in DOMAIN wire, Live(c), Nameless(c)
    PROVE  Nameless(c)' \/ wire'[c].lines # <<>>
<1>1. PICK g \in Goroutines : doing[g].at = "introduce" /\ doing[g].conn = c
  BY DEF Nameless
<1>2. CASE doing'[g] = doing[g]
  BY <1>1, <1>2 DEF Nameless
<1>3. CASE TurnsWell(g)
  <2>1. Introduce(g)
    BY <1>1, <1>3 DEF TurnsWell
  <2>2. PICK lines \in Seq(Introductions) :
           lines # <<>> /\ lines \in Seq(Lines) /\ wire' = Write(lines, c)
    BY <1>1, <2>1, IntroduceTyped
  <2>3. wire'[c].lines = wire[c].lines \o lines
    BY <2>2, WriteIsLonger
  <2>4. wire[c].lines \in Seq(Lines)
    BY Carrier DEF Types
  <2>5. QED
    BY <2>2, <2>3, <2>4, LongerLines
<1>4. QED
  <2>1. doing' = doing \/ \E k \in Goroutines : TurnsWell(k)
    BY Turning
  <2>2. \A k \in Goroutines : TurnsWell(k) => k = g \/ doing'[g] = doing[g]
    BY DEF TurnsWell
  <2>3. QED
    BY <1>2, <1>3, <2>1, <2>2

\* A connection is never opened again.
LEMMA WasLive ==
    ASSUME Types, Undisturbed, Calm, Next, NEW c \in DOMAIN wire, Live(c)'
    PROVE  Live(c)
<1>1. wire'[c].open /\ wire'[c].to \in Nodes /\ wire'[c].to = wire[c].to
  BY StepWires DEF Live, WireTyped, Grows
<1>2. Accept(c) => wire'[c].open = wire[c].open
  BY <1>1, Accepted
<1>3. Longer(c) \/ Hears(c) => wire'[c].open = wire[c].open
  BY DEF Longer, Hears
<1>4. QED
  BY <1>1, <1>2, <1>3, LinesMove DEF Live

LEMMA NextNamed ==
    ASSUME Types, Undisturbed, Calm, Named, Next
    PROVE  Named'
<1>1. SUFFICES ASSUME NEW c \in DOMAIN wire', Live(c)', doing'[Listener(c)].at = "backlog"
               PROVE  wire'[c].lines # <<>> \/ Nameless(c)'
  BY DEF Named
<1>2. CASE c \notin DOMAIN wire
  BY <1>2, Connects
<1>3. CASE c \in DOMAIN wire
  <2>1. doing[Listener(c)].at = "backlog" /\ Live(c)
    BY <1>1, <1>3, Backlogs, WasLive
  <2>2. CASE Nameless(c)
    BY <1>3, <2>1, <2>2, StaysNameless
  <2>3. CASE wire[c].lines # <<>>
    <3>1. ~Accept(c) /\ ~Hears(c)
      BY <1>1, <1>3, <2>1, Accepted DEF Hears
    <3>2. PICK more \in Seq(Lines) : wire'[c].lines = wire[c].lines \o more
      BY <1>3, <3>1, LinesMove DEF Longer
    <3>3. wire[c].lines \in Seq(Lines)
      BY <1>3, Carrier DEF Types
    <3>4. QED
      BY <2>3, <3>2, <3>3, LongerLines
  <2>4. QED
    BY <1>3, <2>1, <2>2, <2>3 DEF Named
<1>4. QED
  BY <1>2, <1>3

\* Who introduces its node on a connection that its node keeps tells it, at the end, all
\* that the node has.
LEMMA IntroducedIsTold ==
    ASSUME Types, Undisturbed, Calm, Named, Next, NEW p \in Nodes, NEW c \in Kept(p),
           c \in DOMAIN wire, wire[c].from = p, Live(c), BeingIntroduced(c),
           ~BeingIntroduced(c)', NEW t \in Transactions, Has(p, t)
    PROVE  OnTheWay(c, t)'
<1>1. PICK g \in Goroutines : doing[g].at \in {"introduce", "snapshot"} /\ doing[g].conn = c
  BY DEF BeingIntroduced
<1>2. g \in Busy /\ Owner(g) = p
  BY <1>1, Introducer
<1>3. doing'[g] # doing[g]
  BY <1>1 DEF BeingIntroduced
<1>4. TurnsWell(g)
  <2>1. doing' = doing \/ \E k \in Goroutines : TurnsWell(k)
    BY Turning
  <2>2. \A k \in Goroutines : TurnsWell(k) => k = g \/ doing'[g] = doing[g]
    BY DEF TurnsWell
  <2>3. QED
    BY <1>3, <2>1, <2>2
<1>5. SendTransactions(g)
  <2>1. ASSUME doing[g].at = "introduce"
        PROVE  FALSE
    <3>1. Introduce(g)
      BY <1>4, <2>1 DEF TurnsWell
    <3>2. Moves(g, "snapshot")
      BY <3>1 DEF Introduce
    <3>3. doing'[g].at = "snapshot" /\ doing'[g].conn = c
      BY <1>1, <3>2, MovesTo
    <3>4. QED
      BY <3>3 DEF BeingIntroduced
  <2>2. QED
    BY <1>1, <1>4, <2>1 DEF TurnsWell
<1>6. ~Entering(p, t)
  BY <1>1, <1>2, EntererIsBusy DEF Calm
<1>7. t \in transactions[Owner(g)]
  BY <1>2, <1>6 DEF Has
<1>8. QED
  BY <1>1, <1>5, <1>7, SendTells

LEMMA NextTold ==
    ASSUME Types, Undisturbed, Calm, Named, Told, Next
    PROVE  Told'
<1>1. SUFFICES ASSUME NEW p \in Nodes, NEW c \in Kept(p)', Live(c)', ~BeingIntroduced(c)',
                      NEW t \in Transactions, Has(p, t)'
               PROVE  Spreading(p, t)' \/ Delivered(c, t)'
  BY DEF Told
<1>2. c \in DOMAIN wire'
  <2>1. Types'
    BY StepTypes
  <2>2. QED
    BY <2>1 DEF Types, OutTyped, Kept, Connected
<1>3. c \in DOMAIN wire /\ c \in Kept(p)
  <2>1. ~Nameless(c)'
    BY <1>1 DEF BeingIntroduced, Nameless
  <2>2. QED
    BY <1>2, <2>1, Connects
<1>4. Live(c) /\ wire'[c].open /\ wire[c].from = p
  BY <1>1, <1>3, WasLive DEF Live, Types, OutTyped, Kept, Connected
<1>5. OnTheWay(c, t)' => Delivered(c, t)'
  BY DEF Delivered
<1>6. CASE ~Has(p, t)
  BY <1>1, <1>3, <1>4, <1>5, <1>6, NewHas, HearTells
<1>7. CASE Has(p, t) /\ BeingIntroduced(c)
  BY <1>1, <1>3, <1>4, <1>5, <1>7, IntroducedIsTold
<1>8. CASE Has(p, t) /\ ~BeingIntroduced(c)
  <2>1. Spreading(p, t) \/ Delivered(c, t)
    BY <1>3, <1>4, <1>8 DEF Told
  <2>2. CASE Delivered(c, t)
    BY <1>3, <1>4, <2>2, DeliveredKept
  <2>3. CASE Spreading(p, t)
    <3> DEFINE g == Clerk(p)
    <3>1. g \in Goroutines
      BY GoroutineKinds
    <3>2. CASE doing'[g] = doing[g]
      BY <2>3, <3>2 DEF Spreading
    <3>3. CASE TurnsWell(g)
      <4>1. \E q \in Nodes : g = Clerk(q) /\ SpreadTransaction(q)
        BY <2>3, <3>3 DEF TurnsWell, Spreading
      <4>2. SpreadTransaction(p)
        BY <4>1 DEF Clerk
      <4>3. ~Nameless(c)
        BY <1>8 DEF BeingIntroduced, Nameless
      <4>4. QED
        BY <1>3, <1>4, <1>5, <2>3, <4>2, <4>3, SpreadTells
    <3>4. QED
      <4>1. doing' = doing \/ \E k \in Goroutines : TurnsWell(k)
        BY Turning
      <4>2. \A k \in Goroutines : TurnsWell(k) => k = g \/ doing'[g] = doing[g]
        BY <3>1 DEF TurnsWell
      <4>3. QED
        BY <3>2, <3>3, <4>1, <4>2
  <2>4. QED
    BY <2>1, <2>2, <2>3
<1>9. QED
  BY <1>6, <1>7, <1>8

Telling == Types /\ Calm /\ Named /\ Told

LEMMA InitTelling == Init => Telling
<1> SUFFICES ASSUME Init PROVE Telling
  OBVIOUS
<1>1. wire = <<>> /\ DOMAIN wire = {} /\ alive = Nodes /\ collected = 0
  BY DEF Init
<1>2. \A g \in Goroutines : doing[g].at \in {"idle", "backlog"}
  BY DEF Init, Waiting, Idle, Doing
<1>3. \A p \in Nodes : Kept(p) = {}
  BY DEF Init, Kept, Connected
<1>4. Calm
  BY <1>1, <1>2 DEF Calm, Busy
<1>5. QED
  BY <1>1, <1>3, <1>4, InitTypes DEF Telling, Named, Told

LEMMA NextTelling == Undisturbed /\ Telling /\ [Next]_vars => Telling'
<1> SUFFICES ASSUME Undisturbed, Telling, [Next]_vars PROVE Telling'
  OBVIOUS
<1>1. Types'
  BY StepTypes DEF Telling
<1>2. CASE Next
  BY <1>1, <1>2, NextCalm, NextNamed, NextTold DEF Telling
<1>3. CASE UNCHANGED vars
  <2>1. Calm'
    BY <1>3 DEF vars, Telling, Calm, Busy, Owner
  <2>2. Named'
    BY <1>3 DEF vars, Telling, Named, Live, Nameless
  <2>3. Told'
    BY <1>3 DEF vars, maps, Telling, Told, Kept, Connected, Live, BeingIntroduced, Has,
       Entering, Spreading, Delivered, OnTheWay, ForName
  <2>4. QED
    BY <1>1, <2>1, <2>2, <2>3 DEF Telling
<1>4. QED
  BY <1>2, <1>3

\* When all is quiet, whatever is told and not yet entered would be on its way.
LEMMA QuietIsTold == Telling => TransactionsReach
<1> SUFFICES ASSUME Telling, Quiet, NEW p \in alive, NEW c \in Kept(p),
                    wire[c].open, wire[c].to \in alive, doing[Listener(c)].at = "idle",
                    NEW t \in transactions[p]
             PROVE  t \in transactions[wire[c].to]
  BY DEF TransactionsReach
<1>1. Types /\ Calm /\ Told /\ alive = Nodes /\ Busy = {} /\ Unread = {}
  BY DEF Telling, Quiet, Calm
<1>2. c \in DOMAIN wire /\ p \in Nodes /\ t \in Transactions
  BY <1>1 DEF Types, OutTyped, Kept, Connected
<1>3. Live(c) /\ Has(p, t)
  BY <1>1 DEF Live, Has
<1>4. ~BeingIntroduced(c)
  BY <1>1, Introducer DEF BeingIntroduced
<1>5. ~Spreading(p, t)
  <2>1. Clerk(p) \in Goroutines /\ Owner(Clerk(p)) = p
    BY <1>2, GoroutineKinds DEF Owner
  <2>2. QED
    BY <1>1, <2>1 DEF Spreading, Busy
<1>6. Delivered(c, t)
  BY <1>1, <1>2, <1>3, <1>4, <1>5 DEF Told
<1>7. ~OnTheWay(c, t)
  <2>1. wire[c].lines = <<>>
    BY <1>1, <1>2 DEF Unread
  <2>2. QED
    BY <2>1 DEF OnTheWay
<1>8. \A q \in Nodes : ~Entering(q, t)
  BY <1>1, EntererIsBusy
<1>9. QED
  BY <1>1, <1>6, <1>7, <1>8 DEF Delivered, Has

\* However the service introduces nodes and sends transactions, in whatever order
\* a map is traversed: as long as no node stops, the runtime closes no connection and
\* goroutines take turns, a node that dials sends all it has entered and passes on what
\* it enters later (mp2.go:355, 382, 559, 631, 677), so that nothing falls between the two.
THEOREM TransactionsReached ==
    ASSUME Undisturbed
    PROVE  Spec => []TransactionsReach
<1>1. Spec => []Telling
  BY InitTelling, NextTelling, PTL DEF Spec
<1>2. QED
  BY <1>1, QuietIsTold, PTL

------------------------------------------------------------------------------
(* Who is said to be gone: what is claimed                                 *)

\* Introductions name their sender first, the runtime closes no connection, and one
\* goroutine at a time is in the middle of something.  Nodes stop when they like.
Orderly == OwnFirst /\ MaxCollected = 0 /\ MaxBusy \in {0, 1}

\* Nobody who runs is taken for another: n is the peer's name, or no running node's.
Rightly(c, n) == n = wire[c].from \/ n \notin alive

\* One goroutine at a time; a running node knows itself, and what its manager dials.
Steady ==
    /\ collected = 0
    /\ \A g, h \in Busy : g = h
    /\ \A p \in alive : p \in Known(p)
    /\ \A p \in Nodes :
          doing[Manager(p)].at = "connect" => doing[Manager(p)].name \in Known(p)

\* Listeners have the name of their peer, or of nobody who runs; so has whoever has lost it.
RightNames ==
    /\ \A c \in Ids : doing[Listener(c)].at = "backlog" => doing[Listener(c)].name = NoName
    /\ \A c \in DOMAIN wire :
          /\ Rightly(c, doing[Listener(c)].name)
          /\ doing[Listener(c)].at = "redial" => doing[Listener(c)].name \notin alive

\* So will whoever is accepted: the first line is the introduction, and it names the sender.
FirstLines ==
    \A c \in DOMAIN wire : doing[Listener(c)].at = "backlog" =>
        /\ wire[c].lines # <<>> => Rightly(c, secondWord(Head(wire[c].lines)))
        /\ wire[c].lines = <<>> /\ Live(c) /\ wire[c].from \in alive => Nameless(c)

\* A connection ends with one of its nodes, or is refused.
Ended ==
    \A c \in DOMAIN wire :
        ~wire[c].open /\ wire[c].to \in alive /\ doing[Listener(c)].at # "gone"
            => wire[c].from \notin alive

Sparing == Types /\ Steady /\ RightNames /\ FirstLines /\ Ended /\ LiveNotDeleted

------------------------------------------------------------------------------
(* Lines that name the gone                                                *)

\* Lines that give up nobody who runs.
Mild(lines) ==
    \A i \in DOMAIN lines : lines[i].type = "DELETE" => lines[i].name \notin alive

\* What may come to be on c: more of these, the first of which names the sender.
Follows(c, new) ==
    \E more \in Seq(Lines) :
        /\ new = wire[c].lines \o more
        /\ Mild(more)
        /\ doing[Listener(c)].at = "backlog" /\ wire[c].lines = <<>> /\ more # <<>>
              => Rightly(c, secondWord(Head(more)))

LEMMA MildTogether ==
    ASSUME NEW s \in Seq(Lines), NEW more \in Seq(Lines), Mild(s), Mild(more)
    PROVE  Mild(s \o more)
<1>1. /\ Len(s \o more) = Len(s) + Len(more)
      /\ Len(s) \in Nat /\ Len(more) \in Nat
      /\ DOMAIN s = 1..Len(s) /\ DOMAIN more = 1..Len(more)
      /\ DOMAIN (s \o more) = 1..(Len(s) + Len(more))
  BY ConcatProperties, LenProperties
<1>2. \A i \in 1..(Len(s) + Len(more)) :
         (s \o more)[i] = IF i <= Len(s) THEN s[i] ELSE more[i - Len(s)]
  BY ConcatProperties
<1>3. ASSUME NEW i \in DOMAIN (s \o more)
      PROVE  \/ i \in DOMAIN s /\ (s \o more)[i] = s[i]
             \/ i - Len(s) \in DOMAIN more /\ (s \o more)[i] = more[i - Len(s)]
  BY <1>1, <1>2
<1>4. QED
  BY <1>3 DEF Mild

LEMMA MildRest ==
    ASSUME NEW s \in Seq(Lines), s # <<>>, Mild(s)
    PROVE  Mild(Tail(s)) /\ Tail(s) \in Seq(Lines)
<1>1. /\ Len(s) \in Nat /\ Len(s) > 0 /\ DOMAIN s = 1..Len(s)
      /\ \A i \in 1..Len(Tail(s)) : Tail(s)[i] = s[i + 1]
      /\ Len(Tail(s)) = Len(s) - 1 /\ Tail(s) \in Seq(Lines)
  BY HeadTailProperties, LenProperties
<1>2. DOMAIN Tail(s) = 1..(Len(s) - 1)
  BY <1>1, LenProperties
<1>3. \A i \in DOMAIN Tail(s) : i + 1 \in DOMAIN s /\ Tail(s)[i] = s[i + 1]
  BY <1>1, <1>2
<1>4. QED
  BY <1>1, <1>3 DEF Mild

LEMMA MildLine ==
    ASSUME NEW line \in Lines, line.type = "DELETE" => line.name \notin alive
    PROVE  /\ <<line>> \in Seq(Lines) /\ Mild(<<line>>)
           /\ <<line>> # <<>> /\ Head(<<line>>) = line
<1>1. DOMAIN <<line>> = {1} /\ <<line>>[1] = line
  OBVIOUS
<1>2. Mild(<<line>>)
  BY <1>1 DEF Mild
<1>3. QED
  BY <1>2

LEMMA MildIntroductions ==
    ASSUME NEW lines \in Seq(Introductions)
    PROVE  Mild(lines)
<1>1. \A i \in DOMAIN lines : lines[i] \in Introductions
  BY ElementOfSeq, LenProperties
<1>2. \A i \in DOMAIN lines : lines[i].type = "INTRODUCE"
  BY <1>1, IntroductionFields
<1>3. QED
  BY <1>2 DEF Mild

\* Nothing is added.
LEMMA SameFollows ==
    ASSUME Types, NEW c \in DOMAIN wire
    PROVE  Follows(c, wire[c].lines)
<1>1. wire[c].lines \in Seq(Lines) /\ <<>> \in Seq(Lines)
  BY Carrier DEF Types
<1>2. wire[c].lines = wire[c].lines \o <<>> /\ Mild(<<>>)
  BY <1>1 DEF Mild
<1>3. QED
  BY <1>1, <1>2 DEF Follows

\* What follows gives up nobody who runs, and begins with the right name.
LEMMA FollowsWell ==
    ASSUME Types, LiveNotDeleted, FirstLines, NEW c \in DOMAIN wire, NEW new, Follows(c, new)
    PROVE  /\ new \in Seq(Lines) /\ Mild(new)
           /\ new = <<>> => wire[c].lines = <<>>
           /\ doing[Listener(c)].at = "backlog" /\ new # <<>>
                 => Rightly(c, secondWord(Head(new)))
<1>1. PICK more \in Seq(Lines) :
         /\ new = wire[c].lines \o more
         /\ Mild(more)
         /\ doing[Listener(c)].at = "backlog" /\ wire[c].lines = <<>> /\ more # <<>>
               => Rightly(c, secondWord(Head(more)))
  BY DEF Follows
<1> DEFINE s == wire[c].lines
<1>2. s \in Seq(Lines) /\ Mild(s)
  BY Carrier DEF Types, LiveNotDeleted, Mild
<1>3. doing[Listener(c)].at = "backlog" /\ s # <<>> => Rightly(c, secondWord(Head(s)))
  BY DEF FirstLines
<1>4. new = s \o more
  BY <1>1
<1> HIDE DEF s
<1>5. new \in Seq(Lines) /\ Mild(new)
  BY <1>1, <1>2, <1>4, MildTogether, LongerLines
<1>6. s # <<>> => new # <<>> /\ Head(new) = Head(s)
  BY <1>1, <1>2, <1>4, LongerLines
<1>7. s = <<>> => new = more
  BY <1>1, <1>4
<1>8. QED
  BY <1>1, <1>3, <1>5, <1>6, <1>7 DEF s

------------------------------------------------------------------------------
(* Who writes what                                                         *)

\* Nobody but who introduces its node writes the first line of a connection.
LEMMA WritesFirst ==
    ASSUME Types, FirstLines, NEW c \in DOMAIN wire, Live(c), wire[c].from \in alive,
           doing[Listener(c)].at = "backlog", wire[c].lines = <<>>
    PROVE  \E g \in Busy : doing[g].at = "introduce" /\ doing[g].conn = c
<1>1. PICK g \in Goroutines : doing[g].at = "introduce" /\ doing[g].conn = c
  BY DEF FirstLines, Nameless
<1>2. wire[c].from = NodeOf(g, wire) /\ NodeOf(g, wire) = Owner(g)
  BY <1>1 DEF Types, WorkTyped, NodeOf, Owner
<1>3. g \in Busy
  BY <1>1, <1>2 DEF Busy
<1>4. QED
  BY <1>1, <1>3

LEMMA KeptIsDialled ==
    ASSUME Types, NEW p \in Nodes, NEW c \in Kept(p)
    PROVE  c \in DOMAIN wire /\ wire[c].from = p
BY DEF Types, OutTyped, Kept, Connected

\* A multicast while nobody introduces its node, or of a line about somebody gone.
LEMMA MulticastFollows ==
    ASSUME Types, Steady, FirstLines, NEW p \in alive, NEW line \in Lines,
           line.type = "DELETE" => line.name \notin alive,
           \/ secondWord(line) \notin alive
           \/ Busy = {}
           \/ \E h \in Busy : doing[h].at # "introduce"
    PROVE  \A c \in DOMAIN wire : /\ Multicast(p, line)[c].open = wire[c].open
                                  /\ Follows(c, Multicast(p, line)[c].lines)
<1> SUFFICES ASSUME NEW c \in DOMAIN wire
             PROVE  /\ Multicast(p, line)[c].open = wire[c].open
                    /\ Follows(c, Multicast(p, line)[c].lines)
  OBVIOUS
<1>1. /\ Multicast(p, line)[c].open = wire[c].open
      /\ Multicast(p, line)[c].lines =
            IF c \in Kept(p) /\ wire[c].open /\ wire[c].to # Service
            THEN wire[c].lines \o <<line>> ELSE wire[c].lines
  BY MulticastTyped DEF Types
<1>2. CASE ~(c \in Kept(p) /\ wire[c].open /\ wire[c].to # Service)
  BY <1>1, <1>2, SameFollows
<1>3. CASE c \in Kept(p) /\ wire[c].open /\ wire[c].to # Service
  <2>1. p \in Nodes /\ wire[c].to \in Addresses
    BY Carrier DEF Types
  <2>2. Live(c) /\ wire[c].from \in alive
    BY <1>3, <2>1, KeptIsDialled DEF Live, Addresses
  <2>3. <<line>> \in Seq(Lines) /\ Mild(<<line>>) /\ Head(<<line>>) = line
    BY MildLine
  <2>4. CASE secondWord(line) \notin alive
    <3>1. Rightly(c, secondWord(Head(<<line>>)))
      BY <2>3, <2>4 DEF Rightly
    <3>2. QED
      BY <1>1, <1>3, <2>3, <3>1 DEF Follows
  <2>5. CASE Busy = {} \/ \E h \in Busy : doing[h].at # "introduce"
    <3>1. ~(doing[Listener(c)].at = "backlog" /\ wire[c].lines = <<>>)
      BY <2>2, <2>5, WritesFirst DEF Steady
    <3>2. QED
      BY <1>1, <1>3, <2>3, <3>1 DEF Follows
  <2>6. QED
    BY <2>4, <2>5
<1>4. QED
  BY <1>2, <1>3

\* What a step leaves on a connection: what was there and more, or, when the listener
\* has heard one line, the rest of that.
Lengthens(c) == wire'[c].open = wire[c].open /\ Follows(c, wire'[c].lines)
Listens(c) ==
    /\ doing[Listener(c)].at = "idle" /\ wire'[c].open = wire[c].open
    /\ \E new \in Seq(Lines) : /\ Follows(c, new) /\ new # <<>>
                               /\ wire'[c].lines = Tail(new)

LEMMA SameLengthens ==
    ASSUME Types, NEW c \in DOMAIN wire, wire'[c] = wire[c]
    PROVE  Lengthens(c)
BY SameFollows DEF Lengthens

LEMMA WriteLengthens ==
    ASSUME Types, NEW d \in DOMAIN wire, NEW lines \in Seq(Lines), Mild(lines),
           wire' = Write(lines, d),
           Live(d) /\ doing[Listener(d)].at = "backlog" /\ wire[d].lines = <<>>
               /\ lines # <<>> => Rightly(d, secondWord(Head(lines)))
    PROVE  \A c \in DOMAIN wire : Lengthens(c)
<1>1. wire \in Seq(Carriers) /\ wire[d].to \in Addresses
  BY Carrier DEF Types
<1>2. /\ \A c \in DOMAIN wire : c # d => wire'[c] = wire[c]
      /\ wire'[d].open = wire[d].open
      /\ wire'[d].lines = IF wire[d].open /\ wire[d].to # Service
                          THEN wire[d].lines \o lines ELSE wire[d].lines
  BY <1>1, WriteTyped
<1>3. CASE wire[d].open /\ wire[d].to # Service
  <2>1. Live(d)
    BY <1>1, <1>3 DEF Live, Addresses
  <2>2. Follows(d, wire'[d].lines)
    BY <1>2, <1>3, <2>1 DEF Follows
  <2>3. QED
    BY <1>2, <2>2, SameLengthens DEF Lengthens
<1>4. CASE ~(wire[d].open /\ wire[d].to # Service)
  <2>1. Follows(d, wire'[d].lines)
    BY <1>2, <1>4, SameFollows
  <2>2. QED
    BY <1>2, <2>1, SameLengthens DEF Lengthens
<1>5. QED
  BY <1>3, <1>4

\* What a node introduces itself with begins with its own name.
OwnFirstOrder(p) == <<p>> \o SetToSeq(Known(p) \ {p})
OwnIntroduction(p) ==
    [i \in DOMAIN OwnFirstOrder(p) |->
        INTRODUCE(OwnFirstOrder(p)[i], nodesMap[p][OwnFirstOrder(p)[i]])]

LEMMA OwnNameFirst ==
    ASSUME Types, NEW p \in Nodes, p \in Known(p)
    PROVE  /\ OwnIntroduction(p) \in Seq(Introductions) /\ OwnIntroduction(p) # <<>>
           /\ Head(OwnIntroduction(p)).name = p
           /\ Head(OwnIntroduction(p)).type = "INTRODUCE"
<1> DEFINE order == OwnFirstOrder(p)
           lines == OwnIntroduction(p)
<1>1. NodesTyped
  BY DEF Types
<1>2. /\ order = <<p>> \o SetToSeq(Known(p) \ {p})
      /\ lines = [i \in DOMAIN order |-> INTRODUCE(order[i], nodesMap[p][order[i]])]
  BY DEF OwnFirstOrder, OwnIntroduction
<1> HIDE DEF order, lines
<1>3. lines \in Seq(Introductions) /\ lines # <<>>
  BY <1>1, <1>2, IntroductionsTyped
<1>4. 1 \in DOMAIN lines /\ Head(lines) = lines[1]
  BY <1>3, HeadTailProperties, LenProperties
<1>5. order[1] = p
  BY <1>2
<1>6. lines[1].name = order[1] /\ lines[1].type = "INTRODUCE"
  BY <1>2, <1>4 DEF INTRODUCE
<1>7. lines[1].name = p
  BY <1>5, <1>6
<1>8. QED
  BY <1>3, <1>4, <1>6, <1>7 DEF lines

\* Whoever introduces its node names it first.
LEMMA IntroduceLengthens ==
    ASSUME Types, Orderly, Steady, NEW g \in Goroutines, Introduce(g)
    PROVE  \A c \in DOMAIN wire : Lengthens(c)
<1> DEFINE p == Owner(g)
           lines == OwnIntroduction(p)
           d == doing[g].conn
<1>1. At(g, "introduce")
  BY DEF Introduce
<1>2. /\ p \in Nodes /\ p \in alive /\ d \in DOMAIN wire /\ wire[d].from = p
  BY <1>1, AtPlace DEF WorkTyped
<1>3. p \in Known(p)
  BY <1>2 DEF Steady
<1>4. wire' = Write(lines, d)
  <2>1. \E first \in Known(p) \cap {p} :
          LET seq == <<first>> \o SetToSeq(Known(p) \ {first})
          IN  wire' = Write([i \in DOMAIN seq |->
                              INTRODUCE(seq[i], nodesMap[p][seq[i]])], d)
    BY DEF Introduce, Orderly
  <2>2. QED
    BY <2>1 DEF OwnIntroduction, OwnFirstOrder
<1> HIDE DEF p
<1>5. /\ lines \in Seq(Introductions) /\ lines # <<>>
      /\ Head(lines).name = p /\ Head(lines).type = "INTRODUCE"
  BY <1>2, <1>3, OwnNameFirst
<1> HIDE DEF lines, d
<1>6. secondWord(Head(lines)) = p
  BY <1>5 DEF secondWord
<1>7. lines \in Seq(Lines) /\ Mild(lines)
  <2>1. Len(lines) \in Nat /\ lines \in [1..Len(lines) -> Introductions]
    BY <1>5, LenProperties
  <2>2. lines \in [1..Len(lines) -> Lines]
    BY <2>1 DEF Lines
  <2>3. QED
    BY <1>5, <2>1, <2>2, SeqDef, MildIntroductions
<1>8. QED
  BY <1>2, <1>4, <1>6, <1>7, WriteLengthens DEF Rightly

\* Its transactions come after that.
LEMMA SendLengthens ==
    ASSUME Types, Steady, FirstLines, NEW g \in Goroutines, SendTransactions(g)
    PROVE  \A c \in DOMAIN wire : Lengthens(c)
<1> DEFINE p == Owner(g)
           proper == IF g = Clerk(p) THEN <<NAME(p), INTRODUCE(p, p)>> ELSE <<>>
           d == doing[g].conn
<1>1. At(g, "snapshot")
  BY DEF SendTransactions
<1>2. /\ p \in Nodes /\ p \in alive /\ d \in DOMAIN wire /\ wire[d].from = p
      /\ doing[g].at = "snapshot"
  BY <1>1, AtPlace DEF WorkTyped
<1>3. transactions[p] \subseteq Transactions
  BY <1>2 DEF Types
<1>4. PICK order \in SetToSeqs(transactions[p]) :
         wire' = Write([i \in DOMAIN order |-> TRANSACTION(order[i])] \o proper, d)
  BY DEF SendTransactions
<1> DEFINE told == [i \in DOMAIN order |-> TRANSACTION(order[i])]
<1>5. proper = <<NAME(p), INTRODUCE(p, p)>> \/ proper = <<>>
  OBVIOUS
<1>6. wire' = Write(told \o proper, d)
  BY <1>4
<1>7. Mild(told)
  BY DEF Mild, TRANSACTION
<1>8. Mild(proper)
  <2>1. Mild(<<>>)
    BY DEF Mild
  <2>2. Mild(<<NAME(p), INTRODUCE(p, p)>>)
    BY DEF Mild, NAME, INTRODUCE
  <2>3. QED
    BY <1>5, <2>1, <2>2
<1>9. g \in Busy
  BY <1>2 DEF Busy
<1> HIDE DEF p, proper
<1>10. told \in Seq(Lines) /\ proper \in Seq(Lines) /\ told \o proper \in Seq(Lines)
  BY <1>2, <1>3, <1>5, LastLinesTyped
<1> HIDE DEF told, d
<1>11. Mild(told \o proper)
  BY <1>7, <1>8, <1>10, MildTogether
<1>12. ~(Live(d) /\ doing[Listener(d)].at = "backlog" /\ wire[d].lines = <<>>)
  <2>1. SUFFICES ASSUME Live(d), doing[Listener(d)].at = "backlog", wire[d].lines = <<>>
                 PROVE  FALSE
    OBVIOUS
  <2>2. PICK h \in Busy : doing[h].at = "introduce"
    BY <1>2, <2>1, WritesFirst
  <2>3. g = h
    BY <1>9 DEF Steady
  <2>4. QED
    BY <1>2, <2>2, <2>3
<1>13. QED
  BY <1>2, <1>6, <1>10, <1>11, <1>12, WriteLengthens

LEMMA BusyAt ==
    ASSUME Types, NEW g \in Goroutines, NEW place, At(g, place), place \notin Places
    PROVE  g \in Busy /\ doing[g].at = place
BY AtPlace DEF Busy, Places

LEMMA MulticastLengthens ==
    ASSUME Types, Steady, FirstLines, NEW p \in alive, NEW line \in Lines,
           line.type = "DELETE" => line.name \notin alive,
           \/ secondWord(line) \notin alive
           \/ Busy = {}
           \/ \E h \in Busy : doing[h].at # "introduce",
           wire' = Multicast(p, line)
    PROVE  \A c \in DOMAIN wire : Lengthens(c)
BY MulticastFollows DEF Lengthens

\* Somebody is said to be gone who is.
LEMMA GoneLengthens ==
    ASSUME Types, Steady, FirstLines, NEW p \in alive, NEW n \in Names, n \notin alive,
           wire' = Multicast(p, DELETE(n))
    PROVE  \A c \in DOMAIN wire : Lengthens(c)
<1>1. DELETE(n) \in Lines /\ DELETE(n).name = n /\ secondWord(DELETE(n)) = n
  BY DEF DELETE, Lines, secondWord
<1> DEFINE line == DELETE(n)
<1>2. line \in Lines /\ line.name \notin alive /\ secondWord(line) \notin alive
      /\ wire' = Multicast(p, line)
  BY <1>1
<1> HIDE DEF line
<1>3. QED
  BY <1>2, MulticastLengthens

LEMMA RestListens ==
    ASSUME Types, NEW c \in DOMAIN wire, NEW type, Hear(c, type), wire' = Rest(c)
    PROVE  Listens(c) /\ \A d \in DOMAIN wire : d # c => Lengthens(d)
<1>1. wire[c].lines # <<>> /\ wire[c].lines \in Seq(Lines)
  BY HearsLine, Carrier DEF Types
<1>2. /\ wire'[c].lines = Tail(wire[c].lines) /\ wire'[c].open = wire[c].open
      /\ \A d \in DOMAIN wire : d # c => wire'[d] = wire[d]
  BY <1>1, RestKeeps
<1>3. doing[Listener(c)].at = "idle"
  BY HearsLine, AtPlace
<1>4. Listens(c)
  BY <1>1, <1>2, <1>3, SameFollows DEF Listens
<1>5. QED
  BY <1>2, <1>4, SameLengthens

LEMMA PassedOnListens ==
    ASSUME Types, Steady, FirstLines, LiveNotDeleted, NEW c \in DOMAIN wire, NEW type,
           Hear(c, type), type = "DELETE" \/ Busy = {}, wire' = PassedOn(c)
    PROVE  Listens(c) /\ \A d \in DOMAIN wire : d # c => Lengthens(d)
<1> DEFINE p == wire[c].to
           line == Heard(c)
           on == Multicast(p, line)
<1>1. /\ line \in Lines /\ line.type = type /\ p \in alive /\ wire[c].lines # <<>>
      /\ wire[c].lines \in Seq(Lines)
  BY HearsLine, Carrier DEF Types
<1>2. line.type = "DELETE" => line.name \notin alive
  <2>1. 1 \in DOMAIN wire[c].lines /\ line = wire[c].lines[1]
    BY <1>1, HeadTailProperties, LenProperties DEF Heard
  <2>2. QED
    BY <2>1 DEF LiveNotDeleted
<1>3. type = "DELETE" => secondWord(line) \notin alive
  BY <1>1, <1>2 DEF secondWord
<1>4. /\ wire'[c].lines = Tail(on[c].lines)
      /\ \A d \in DOMAIN wire : d # c => wire'[d].lines = on[d].lines
      /\ \A d \in DOMAIN wire : wire'[d].open = wire[d].open
  BY PassedOnTyped
<1> HIDE DEF line, p
<1>5. \A d \in DOMAIN wire : on[d].open = wire[d].open /\ Follows(d, on[d].lines)
  BY <1>1, <1>2, <1>3, MulticastFollows
<1> HIDE DEF on
<1>6. doing[Listener(c)].at = "idle"
  BY HearsLine, AtPlace
<1>7. on[c].lines \in Seq(Lines) /\ on[c].lines # <<>>
  BY <1>1, <1>5, FollowsWell
<1>8. Listens(c)
  BY <1>4, <1>5, <1>6, <1>7 DEF Listens
<1>9. QED
  BY <1>4, <1>5, <1>8 DEF Lengthens

\* A node that cannot be dialled under a known name has stopped.
LEMMA Unreachable ==
    ASSUME Types, NEW p \in Nodes, NEW n \in Known(p), ~Reachable(nodesMap[p][n])
    PROVE  n \notin alive
BY DEF Types, NodesTyped, Reachable

LEMMA ClerkLengthens ==
    ASSUME Sparing, Orderly, NEW p \in Nodes, ClerkStep(p)
    PROVE  \A c \in DOMAIN wire : Lengthens(c)
<1> USE DEF Sparing
<1> DEFINE g == Clerk(p)
<1>1. g \in Goroutines /\ Owner(g) = p
  BY GoroutineKinds DEF Owner
<1>2. CASE CheckNode(p) \/ LearnNode(g) \/ ClerkCannotConnect(p)
  <2>1. wire' = wire
    BY <1>2 DEF CheckNode, LearnNode, ClerkCannotConnect
  <2>2. QED
    BY <2>1, SameLengthens
<1>3. CASE ClerkConnects(p)
  <2>1. /\ At(g, "connect") /\ Reachable(doing[g].line.address)
        /\ Dial(g, p, doing[g].line.address, "introduce")
    BY <1>3 DEF ClerkConnects
  <2>2. \A c \in DOMAIN wire : wire'[c] = wire[c]
    BY <1>1, <2>1, DialKeeps
  <2>3. QED
    BY <2>2, SameLengthens
<1>4. CASE Introduce(g) \/ SendTransactions(g)
  BY <1>1, <1>4, IntroduceLengthens, SendLengthens
<1>5. CASE SpreadTransaction(p)
  <2>1. At(g, "spread") /\ wire' = Multicast(p, doing[g].line)
    BY <1>5 DEF SpreadTransaction
  <2>2. doing[g].line \in {TRANSACTION(t) : t \in Transactions} /\ p \in alive
    BY <1>1, <2>1, AtPlace DEF WorkTyped
  <2>3. doing[g].line \in Lines /\ doing[g].line.type = "TRANSACTION"
    BY <2>2, TransactionFields
  <2>4. g \in Busy /\ doing[g].at = "spread"
    BY <1>1, <2>1, BusyAt DEF Places
  <2>5. QED
    BY <2>1, <2>2, <2>3, <2>4, MulticastLengthens
<1>6. QED
  BY <1>2, <1>3, <1>4, <1>5 DEF ClerkStep

LEMMA ManagerLengthens ==
    ASSUME Sparing, Orderly, NEW p \in Nodes, ManagerStep(p)
    PROVE  \A c \in DOMAIN wire : Lengthens(c)
<1> USE DEF Sparing
<1> DEFINE g == Manager(p)
           n == doing[g].name
<1>1. g \in Goroutines /\ n \in Names /\ Owner(g) = p
  BY GoroutineKinds DEF Types, WorkTyped, Owner
<1>2. CASE Count(p) \/ Choose(p) \/ CountNext(p)
  <2>1. wire' = wire
    BY <1>2 DEF Count, Choose, CountNext
  <2>2. QED
    BY <2>1, SameLengthens
<1>3. CASE ManagerConnects(p)
  <2>1. /\ At(g, "connect") /\ Reachable(nodesMap[p][n])
        /\ Dial(g, n, nodesMap[p][n], "introduce")
    BY <1>3 DEF ManagerConnects
  <2>2. \A c \in DOMAIN wire : wire'[c] = wire[c]
    BY <1>1, <2>1, DialKeeps
  <2>3. QED
    BY <2>2, SameLengthens
<1>4. CASE Introduce(g) \/ SendTransactions(g)
  BY <1>1, <1>4, IntroduceLengthens, SendLengthens
<1>5. CASE ManagerCannotConnect(p)
  <2>1. At(g, "connect") /\ ~Reachable(nodesMap[p][n]) /\ wire' = Multicast(p, DELETE(n))
    BY <1>5 DEF ManagerCannotConnect
  <2>2. p \in alive /\ n \in Known(p)
    BY <1>1, <2>1, AtPlace DEF Steady
  <2>3. n \notin alive
    BY <2>1, <2>2, Unreachable
  <2> HIDE DEF n
  <2>4. QED
    BY <1>1, <2>1, <2>2, <2>3, GoneLengthens
<1>6. QED
  BY <1>2, <1>3, <1>4, <1>5 DEF ManagerStep

LEMMA ListenerLengthens ==
    ASSUME Sparing, Orderly, NEW c \in DOMAIN wire, ListenerStep(c)
    PROVE  \A d \in DOMAIN wire : Lengthens(d) \/ Listens(d)
<1> USE DEF Sparing
<1> DEFINE g == Listener(c)
           n == doing[g].name
           p == wire[c].to
<1>1. g \in Goroutines /\ n \in Names /\ Owner(g) = p
  BY ConnectionIds DEF Types, WorkTyped, Owner, Listener
<1>2. CASE \/ LearnNode(g) \/ ListenerCannotConnect(c) \/ EnterTransaction(c) \/ Disconnect(c)
  <2>1. wire' = wire
    BY <1>2 DEF LearnNode, ListenerCannotConnect, EnterTransaction, Disconnect
  <2>2. QED
    BY <2>1, SameLengthens
<1>3. CASE Ignore(c)
  <2>1. wire' = Rest(c) /\ \E type : Hear(c, type)
    BY <1>3 DEF Ignore
  <2>2. QED
    BY <2>1, RestListens
<1>4. CASE HearIntroduce(c)
  BY <1>4, RestListens DEF HearIntroduce
<1>5. CASE HearDelete(c)
  BY <1>5, PassedOnListens DEF HearDelete
<1>6. CASE HearTransaction(c)
  <2>1. MayBegin /\ Hear(c, "TRANSACTION") /\ wire' = PassedOn(c)
    BY <1>6 DEF HearTransaction
  <2>2. Busy = {}
    BY <2>1, OneAtATime DEF Orderly
  <2>3. QED
    BY <2>1, <2>2, PassedOnListens
<1>7. CASE Gossip(c)
  <2>1. At(g, "gossip") /\ wire' = Multicast(p, doing[g].line)
    BY <1>7 DEF Gossip
  <2>2. doing[g].line \in Introductions /\ p \in alive
    BY <1>1, <2>1, AtPlace DEF WorkTyped
  <2>3. doing[g].line \in Lines /\ doing[g].line.type = "INTRODUCE"
    BY <2>2, IntroductionFields
  <2>4. g \in Busy /\ doing[g].at = "gossip"
    BY <1>1, <2>1, BusyAt DEF Places
  <2> HIDE DEF p, g
  <2>5. QED
    BY <2>1, <2>2, <2>3, <2>4, MulticastLengthens
<1>8. CASE ListenerConnects(c) \/ Reconnect(c)
  <2>1. /\ At(g, "connect") \/ At(g, "redial")
        /\ Reachable(nodesMap[p][n])
        /\ Dial(g, n, nodesMap[p][n], "introduce") \/ Dial(g, n, nodesMap[p][n], "gone")
    BY <1>8 DEF ListenerConnects, Reconnect, CanReach
  <2>2. \A d \in DOMAIN wire : wire'[d] = wire[d]
    BY <1>1, <2>1, DialKeeps
  <2>3. QED
    BY <2>2, SameLengthens
<1>9. CASE Introduce(g) \/ SendTransactions(g)
  BY <1>1, <1>9, IntroduceLengthens, SendLengthens
<1>10. CASE GiveUp(c)
  <2>1. At(g, "redial") /\ wire' = Multicast(p, DELETE(n))
    BY <1>10 DEF GiveUp
  <2>2. p \in alive /\ n \notin alive
    BY <1>1, <2>1, AtPlace DEF RightNames
  <2> HIDE DEF p, n
  <2>3. QED
    BY <1>1, <2>1, <2>2, GoneLengthens
<1>11. QED
  BY <1>2, <1>3, <1>4, <1>5, <1>6, <1>7, <1>8, <1>9, <1>10 DEF ListenerStep

\* What happens to the lines of a connection in one step, unless a node stops.
LEMMA LinesFollow ==
    ASSUME Sparing, Orderly, Next, \A p \in Nodes : ~Crash(p)
    PROVE  \A c \in DOMAIN wire : Accept(c) \/ Lengthens(c) \/ Listens(c)
<1> USE DEF Sparing
<1>1. \A c : ~Collect(c)
  BY DEF Collect, Orderly, Steady
<1>2. ASSUME NEW p \in Nodes, NEW q \in Nodes, ServiceIntroduces(p, q)
      PROVE  \A c \in DOMAIN wire : Lengthens(c)
  <2>1. MayBegin /\ At(Clerk(p), "idle") /\ wire' = Multicast(p, INTRODUCE(q, q))
    BY <1>2 DEF ServiceIntroduces, Reads, ServiceMay
  <2>2. Busy = {}
    BY <2>1, OneAtATime DEF Orderly
  <2>3. p \in alive
    BY <2>1, GoroutineKinds DEF At, Owner
  <2>4. INTRODUCE(q, q) \in Lines /\ INTRODUCE(q, q).type = "INTRODUCE"
    BY DEF Lines, Introductions, INTRODUCE
  <2>5. QED
    BY <2>1, <2>2, <2>3, <2>4, MulticastLengthens
<1>3. ASSUME NEW p \in Nodes, NEW t \in Transactions, ServiceSends(p, t)
      PROVE  \A c \in DOMAIN wire : Lengthens(c)
  BY <1>3, SameLengthens DEF ServiceSends
<1>4. ASSUME NEW p \in Nodes, AcceptorStep(p)
      PROVE  \A c \in DOMAIN wire : Accept(c) \/ Lengthens(c)
  <2>1. PICK c \in DOMAIN wire : Accept(c) \/ AcceptNothing(c)
    BY <1>4 DEF AcceptorStep
  <2>2. CASE Accept(c)
    <3>1. \A d \in DOMAIN wire : d # c => wire'[d] = wire[d]
      BY <2>2, AcceptTyped
    <3>2. QED
      BY <2>2, <3>1, SameLengthens
  <2>3. CASE AcceptNothing(c)
    <3>1. wire' = wire
      BY <2>3 DEF AcceptNothing
    <3>2. QED
      BY <3>1, SameLengthens
  <2>4. QED
    BY <2>1, <2>2, <2>3
<1>5. QED
  BY <1>1, <1>2, <1>3, <1>4, ClerkLengthens, ManagerLengthens, ListenerLengthens DEF Next

------------------------------------------------------------------------------
(* Turns, with nodes that stop                                             *)

\* What a goroutine that turns may do, and what it then has for a name.
Turned(g) ==
    /\ \A h \in Goroutines : h # g => doing'[h] = doing[h]
    /\ At(g, doing[g].at)
    /\ doing[g].at # "gone" /\ doing'[g].at # "backlog"
    /\ doing[g].at \in Places /\ doing'[g].at \notin Places => MayBegin
    /\ doing[g].at = "introduce" => Introduce(g)
    /\ \A c \in Ids : g = Listener(c) =>
          /\ doing[g].at = "backlog" => Accept(c) \/ AcceptNothing(c)
          /\ doing'[g].at = "redial" => Disconnect(c)
          /\ doing[g].at # "backlog" => doing'[g].name \in {doing[g].name, NoName}
    /\ \A p \in Nodes : g = Manager(p) /\ doing'[g].at = "connect" =>
          doing'[g].name \in Known(p) /\ Searching(p)

\* Clerks and managers are no listeners.
LEMMA Others ==
    \A p \in Nodes : /\ \A c \in Ids : Clerk(p) # Listener(c) /\ Manager(p) # Listener(c)
                     /\ \A q \in Nodes : /\ Clerk(p) # Manager(q)
                                         /\ Manager(p) = Manager(q) => p = q
BY DEF Clerk, Manager, Listener

LEMMA ClerkTurned ==
    ASSUME Types, NEW p \in Nodes, TurnsWell(Clerk(p))
    PROVE  Turned(Clerk(p))
BY Others DEF TurnsWell, Turned

LEMMA ManagerTurned ==
    ASSUME Types, NEW p \in Nodes, ManagerStep(p)
    PROVE  Turned(Manager(p))
<1> DEFINE g == Manager(p)
<1>1. g \in Goroutines /\ TurnsWell(g)
  BY GoroutineKinds, ManagerTurns
<1>2. doing'[g].at = "connect" => doing'[g].name \in Known(p) /\ doing[g].at # "idle"
  <2>1. CASE Choose(p)
    <3>1. PICK n \in Candidates(p) : Becomes(g, Doing("connect", n, NoLine, 0))
      BY <2>1 DEF Choose
    <3>2. doing'[g] = Doing("connect", n, NoLine, 0) /\ doing[g].at = "search"
      BY <1>1, <2>1, <3>1, BecomesWhat, AtPlace DEF Choose
    <3>3. QED
      BY <3>1, <3>2 DEF Doing, Candidates
  <2>2. CASE ManagerConnects(p)
    <3>1. Dial(g, doing[g].name, nodesMap[p][doing[g].name], "introduce")
      BY <2>2 DEF ManagerConnects
    <3>2. QED
      BY <1>1, <3>1, DialsTo
  <2>3. CASE Count(p)
    BY <1>1, <2>3, MovesTo DEF Count
  <2>4. CASE Introduce(g)
    BY <1>1, <2>4, MovesTo DEF Introduce
  <2>5. CASE ManagerCannotConnect(p) \/ CountNext(p) \/ SendTransactions(g)
    <3>1. \/ Becomes(g, Doing("search", NoName, NoLine, 0))
          \/ Becomes(g, Idle(NoName)) \/ Becomes(g, Idle(doing[g].name))
          \/ Becomes(g, Doing("next", NoName, NoLine, 0))
      BY <2>5 DEF ManagerCannotConnect, CountNext, SendTransactions
    <3>2. QED
      BY <1>1, <3>1, BecomesWhat DEF Doing, Idle
  <2>6. QED
    BY <2>1, <2>2, <2>3, <2>4, <2>5 DEF ManagerStep
<1>3. QED
  BY <1>1, <1>2, Others DEF TurnsWell, Turned, Searching

\* A listener keeps its name, or has none when it has ended.
LEMMA ListenerTurned ==
    ASSUME Types, NEW c \in DOMAIN wire, ListenerStep(c)
    PROVE  doing' = doing \/ Turned(Listener(c))
<1> DEFINE g == Listener(c)
           n == doing[g].name
<1>1. g \in Goroutines /\ c \in Ids /\ \A d : g = Listener(d) => d = c
  BY ConnectionIds DEF Listener
<1>2. \A p \in Nodes : g # Manager(p)
  BY <1>1, Others
<1>3. ASSUME NEW from, At(g, from), from \notin {"gone", "backlog", "introduce"},
             \A h \in Goroutines : h # g => doing'[h] = doing[h],
             doing'[g].at # "backlog",
             doing'[g].at = "redial" => Disconnect(c),
             from = "idle" => MayBegin,
             doing'[g].name \in {n, NoName}
      PROVE  Turned(g)
  <2>1. doing[g].at = from
    BY <1>1, <1>3, AtPlace
  <2> HIDE DEF g
  <2>2. QED
    BY <1>1, <1>2, <1>3, <2>1 DEF Turned, Places
<1>4. CASE Ignore(c) \/ HearDelete(c)
  BY <1>4 DEF Ignore, HearDelete
<1>5. CASE HearIntroduce(c) \/ HearTransaction(c)
  <2>1. /\ At(g, "idle") /\ MayBegin
        /\ \/ doing' = [doing EXCEPT ![g].at = "learn", ![g].line = Heard(c)]
           \/ doing' = [doing EXCEPT ![g].at = "enter", ![g].line = Heard(c)]
    BY <1>5 DEF HearIntroduce, HearTransaction, Hear
  <2>2. /\ doing'[g].at \in {"learn", "enter"} /\ doing'[g].name = doing[g].name
        /\ \A h \in Goroutines : h # g => doing'[h] = doing[h]
    BY <1>1, <2>1, HeardTurnsTo
  <2>3. QED
    BY <1>3, <2>1, <2>2
<1>6. CASE LearnNode(g)
  <2>1. At(g, "learn") /\ Moves(g, IF g = Clerk(Owner(g)) THEN "connect" ELSE "gossip")
    BY <1>6 DEF LearnNode
  <2>2. /\ doing'[g].at \in {"connect", "gossip"} /\ doing'[g].name = n
        /\ \A h \in Goroutines : h # g => doing'[h] = doing[h]
    BY <1>1, <2>1, MovesTo
  <2>3. QED
    BY <1>3, <2>1, <2>2
<1>7. CASE Gossip(c) \/ ListenerCannotConnect(c) \/ EnterTransaction(c) \/ GiveUp(c)
  <2>1. /\ At(g, "gossip") \/ At(g, "connect") \/ At(g, "enter") \/ At(g, "redial")
        /\ \/ Becomes(g, Doing("connect", n, NoLine, 0))
           \/ Becomes(g, Idle(n)) \/ Becomes(g, Gone)
    BY <1>7 DEF Gossip, ListenerCannotConnect, EnterTransaction, GiveUp
  <2>2. /\ doing'[g].at \in {"connect", "idle", "gone"} /\ doing'[g].name \in {n, NoName}
        /\ \A h \in Goroutines : h # g => doing'[h] = doing[h]
    BY <1>1, <2>1, BecomesWhat DEF Doing, Idle, Gone
  <2>3. QED
    BY <1>3, <2>1, <2>2
<1>8. CASE ListenerConnects(c) \/ Reconnect(c)
  <2>1. /\ At(g, "connect") \/ At(g, "redial")
        /\ \/ Dial(g, n, nodesMap[wire[c].to][n], "introduce")
           \/ Dial(g, n, nodesMap[wire[c].to][n], "gone")
    BY <1>8 DEF ListenerConnects, Reconnect
  <2>2. /\ doing'[g].at \in {"introduce", "gone"} /\ doing'[g].name = n
        /\ \A h \in Goroutines : h # g => doing'[h] = doing[h]
    BY <1>1, <2>1, DialsTo
  <2>3. QED
    BY <1>3, <2>1, <2>2
<1>9. CASE Introduce(g)
  <2>1. At(g, "introduce") /\ Moves(g, "snapshot")
    BY <1>9 DEF Introduce
  <2>2. /\ doing'[g].at = "snapshot" /\ doing'[g].name = n /\ doing[g].at = "introduce"
        /\ \A h \in Goroutines : h # g => doing'[h] = doing[h]
    BY <1>1, <2>1, MovesTo, AtPlace
  <2>3. Turned(g)
    <3> HIDE DEF g
    <3>1. QED
      BY <1>1, <1>2, <1>9, <2>1, <2>2 DEF Turned, Places
  <2>4. QED
    BY <2>3
<1>10. CASE SendTransactions(g)
  <2>1. At(g, "snapshot") /\ Becomes(g, Idle(n))
    <3>1. g # Manager(Owner(g))
      <4>1. Owner(g) \in Nodes
        BY <1>1, <1>10, AtPlace DEF SendTransactions
      <4>2. QED
        BY <1>2, <4>1
    <3>2. QED
      BY <1>10, <3>1 DEF SendTransactions
  <2>2. /\ doing'[g].at = "idle" /\ doing'[g].name = n
        /\ \A h \in Goroutines : h # g => doing'[h] = doing[h]
    BY <1>1, <2>1, BecomesWhat DEF Doing, Idle
  <2>3. QED
    BY <1>3, <2>1, <2>2
<1>11. CASE Disconnect(c)
  <2>1. At(g, "idle") /\ MayBegin /\ Moves(g, "redial")
    BY <1>11 DEF Disconnect
  <2>2. /\ doing'[g].at = "redial" /\ doing'[g].name = n
        /\ \A h \in Goroutines : h # g => doing'[h] = doing[h]
    BY <1>1, <2>1, MovesTo
  <2>3. QED
    BY <1>3, <1>11, <2>1, <2>2
<1>12. QED
  BY <1>4, <1>5, <1>6, <1>7, <1>8, <1>9, <1>10, <1>11 DEF ListenerStep

LEMMA AcceptorTurned ==
    ASSUME Types, NEW p \in Nodes, AcceptorStep(p)
    PROVE  \E c \in DOMAIN wire : Turned(Listener(c))
<1>1. PICK c \in DOMAIN wire : Accept(c) \/ AcceptNothing(c)
  BY DEF AcceptorStep
<1> DEFINE g == Listener(c)
<1>2. g \in Goroutines /\ c \in Ids /\ \A d : g = Listener(d) => d = c
  BY ConnectionIds DEF Listener
<1>3. \A q \in Nodes : g # Manager(q)
  BY <1>2, Others
<1>4. At(g, "backlog") /\ doing[g].at = "backlog"
  BY <1>1, <1>2, AtPlace DEF Accept, AcceptNothing
<1>5. Becomes(g, Gone) \/ Becomes(g, Idle(secondWord(Head(wire[c].lines))))
  BY <1>1 DEF Accept, AcceptNothing
<1>6. /\ doing'[g].at \in {"gone", "idle"}
      /\ \A h \in Goroutines : h # g => doing'[h] = doing[h]
  BY <1>2, <1>5, BecomesWhat DEF Gone, Idle, Doing
<1> HIDE DEF g
<1>7. Turned(g)
  BY <1>1, <1>2, <1>3, <1>4, <1>6 DEF Turned, Places
<1>8. QED
  BY <1>7 DEF g

\* One goroutine turns at most, and all processes go on, unless one ends.
LEMMA OneTurns ==
    ASSUME Sparing, Orderly, Next, \A p \in Nodes : ~Crash(p)
    PROVE  /\ doing' = doing \/ \E g \in Goroutines : Turned(g)
           /\ alive' = alive /\ collected' = collected
<1> USE DEF Sparing
<1>1. \A c : ~Collect(c)
  BY DEF Collect, Orderly, Steady
<1>2. ASSUME NEW p \in Nodes, NEW q \in Nodes, ServiceIntroduces(p, q)
      PROVE  Turned(Clerk(p)) /\ alive' = alive /\ collected' = collected
  BY <1>2, ServiceTurns, ClerkTurned DEF ServiceIntroduces
<1>3. ASSUME NEW p \in Nodes, NEW t \in Transactions, ServiceSends(p, t)
      PROVE  Turned(Clerk(p)) /\ alive' = alive /\ collected' = collected
  BY <1>3, ServiceTurns, ClerkTurned DEF ServiceSends
<1>4. ASSUME NEW p \in Nodes, ClerkStep(p)
      PROVE  Turned(Clerk(p)) /\ alive' = alive /\ collected' = collected
  <2>1. alive' = alive /\ collected' = collected
    BY <1>4 DEF ClerkStep, CheckNode, LearnNode, ClerkConnects, ClerkCannotConnect,
       Introduce, SendTransactions, SpreadTransaction
  <2>2. QED
    BY <1>4, <2>1, ClerkTurns, ClerkTurned
<1>5. ASSUME NEW p \in Nodes, ManagerStep(p)
      PROVE  Turned(Manager(p)) /\ alive' = alive /\ collected' = collected
  <2>1. alive' = alive /\ collected' = collected
    BY <1>5 DEF ManagerStep, Count, Choose, ManagerConnects, ManagerCannotConnect,
       CountNext, Introduce, SendTransactions
  <2>2. QED
    BY <1>5, <2>1, ManagerTurned
<1>6. ASSUME NEW p \in Nodes, AcceptorStep(p)
      PROVE  /\ \E c \in DOMAIN wire : Turned(Listener(c))
             /\ alive' = alive /\ collected' = collected
  <2>1. alive' = alive /\ collected' = collected
    BY <1>6 DEF AcceptorStep, Accept, AcceptNothing
  <2>2. QED
    BY <1>6, <2>1, AcceptorTurned
<1>7. ASSUME NEW c \in DOMAIN wire, ListenerStep(c)
      PROVE  /\ doing' = doing \/ Turned(Listener(c))
             /\ alive' = alive /\ collected' = collected
  <2>1. alive' = alive /\ collected' = collected
    BY <1>7 DEF ListenerStep, Ignore, HearIntroduce, LearnNode, Gossip, ListenerConnects,
       ListenerCannotConnect, Introduce, SendTransactions, HearDelete, HearTransaction,
       EnterTransaction, Disconnect, Reconnect, GiveUp
  <2>2. QED
    BY <1>7, <2>1, ListenerTurned
<1>8. /\ \A p \in Nodes : Clerk(p) \in Goroutines /\ Manager(p) \in Goroutines
      /\ \A c \in DOMAIN wire : Listener(c) \in Goroutines
  BY GoroutineKinds, ConnectionIds
<1>9. QED
  BY <1>1, <1>2, <1>3, <1>4, <1>5, <1>6, <1>7, <1>8 DEF Next

------------------------------------------------------------------------------
(* Every step keeps what is claimed of the gone                            *)

\* A node forgets only who is gone, and never while its manager searches.
LEMMA NextKnown ==
    ASSUME Types, LiveNotDeleted, Next, NEW p \in Nodes, NEW n \in Known(p)
    PROVE  n \in Known(p)' \/ (n \notin alive /\ ~Searching(p))
<1> USE DEF maps
<1>1. nodesMap' = nodesMap => n \in Known(p)'
  BY DEF Known
<1>2. DOMAIN nodesMap = Nodes
  BY DEF Types, NodesTyped
<1>3. ASSUME NEW g \in Goroutines, LearnNode(g)
      PROVE  n \in Known(p)'
  <2>1. PICK q, name, address : nodesMap' = [nodesMap EXCEPT ![q] = Put(@, name, address)]
    BY <1>3 DEF LearnNode
  <2>2. nodesMap'[p] = nodesMap[p] \/ nodesMap'[p] = Put(nodesMap[p], name, address)
    BY <1>2, <2>1
  <2>3. QED
    BY <2>2 DEF Known, Put
<1>4. ASSUME NEW c \in DOMAIN wire, HearDelete(c)
      PROVE  n \in Known(p)' \/ (n \notin alive /\ ~Searching(p))
  <2> DEFINE q == wire[c].to
             m == Heard(c).name
  <2>1. /\ nodesMap' = [nodesMap EXCEPT ![q] = Without(@, m)] /\ ~Searching(q)
        /\ Hear(c, "DELETE")
    BY <1>4 DEF HearDelete
  <2>2. m \notin alive
    <3>1. wire[c].lines # <<>> /\ wire[c].lines \in Seq(Lines) /\ Heard(c).type = "DELETE"
      BY <2>1, HearsLine, Carrier DEF Types
    <3>2. 1 \in DOMAIN wire[c].lines /\ Heard(c) = wire[c].lines[1]
      BY <3>1, HeadTailProperties, LenProperties DEF Heard
    <3>3. QED
      BY <3>1, <3>2 DEF LiveNotDeleted
  <2> HIDE DEF q, m
  <2>3. nodesMap'[p] = nodesMap[p] \/ (p = q /\ nodesMap'[p] = Without(nodesMap[p], m))
    BY <1>2, <2>1
  <2>4. n \in Known(p)' \/ (p = q /\ n = m)
    BY <2>3 DEF Known, Without
  <2>5. QED
    BY <2>1, <2>2, <2>4
<1>5. ASSUME NEW q \in Nodes, ClerkStep(q)
      PROVE  n \in Known(p)'
  <2>1. CASE LearnNode(Clerk(q))
    BY <1>3, <2>1, GoroutineKinds
  <2>2. CASE ~LearnNode(Clerk(q))
    BY <1>1, <1>5, <2>2 DEF ClerkStep, CheckNode, ClerkConnects, ClerkCannotConnect,
       Introduce, SendTransactions, SpreadTransaction
  <2>3. QED
    BY <2>1, <2>2
<1>6. ASSUME NEW q \in Nodes, ManagerStep(q)
      PROVE  n \in Known(p)'
  BY <1>1, <1>6 DEF ManagerStep, Count, Choose, ManagerConnects, ManagerCannotConnect,
     CountNext, Introduce, SendTransactions
<1>7. ASSUME NEW c \in DOMAIN wire, ListenerStep(c)
      PROVE  n \in Known(p)' \/ (n \notin alive /\ ~Searching(p))
  <2>1. CASE LearnNode(Listener(c))
    BY <1>3, <2>1, ConnectionIds
  <2>2. CASE HearDelete(c)
    BY <1>4, <2>2
  <2>3. CASE ~(LearnNode(Listener(c)) \/ HearDelete(c))
    BY <1>1, <1>7, <2>3 DEF ListenerStep, Ignore, HearIntroduce, Gossip, ListenerConnects,
       ListenerCannotConnect, Introduce, SendTransactions, HearTransaction,
       EnterTransaction, Disconnect, Reconnect, GiveUp
  <2>4. QED
    BY <2>1, <2>2, <2>3
<1>8. ASSUME NEW q \in Nodes, AcceptorStep(q) \/ Crash(q)
      PROVE  n \in Known(p)'
  BY <1>1, <1>8 DEF AcceptorStep, Accept, AcceptNothing, Crash
<1>9. ASSUME NEW q, NEW r, ServiceIntroduces(q, r) \/ ServiceSends(q, r)
      PROVE  n \in Known(p)'
  BY <1>1, <1>9 DEF ServiceIntroduces, ServiceSends
<1>10. ASSUME NEW c, Collect(c)
       PROVE  n \in Known(p)'
  BY <1>1, <1>10 DEF Collect
<1>11. QED
  BY <1>5, <1>6, <1>7, <1>8, <1>9, <1>10 DEF Next

\* Whoever dials introduces its node, but for a listener whose peer is gone: that one
\* gets no farther than the service.
LEMMA NextDials ==
    ASSUME Sparing, Next, NEW c \in DOMAIN wire', c \notin DOMAIN wire
    PROVE  /\ wire'[c].open /\ wire'[c].lines = <<>>
           /\ Nameless(c)' \/ wire'[c].to = Service
<1> USE DEF Sparing
<1> DEFINE Same == DOMAIN wire' = DOMAIN wire
           Dials == /\ wire'[c].open /\ wire'[c].lines = <<>>
                    /\ Nameless(c)' \/ wire'[c].to = Service
<1>1. ASSUME NEW g \in Goroutines, NEW at, NEW key, NEW address, NEW place,
             At(g, at), Reachable(address), Dial(g, key, address, place),
             place = "introduce" \/ address = Service
      PROVE  Dials
  <2>1. /\ DOMAIN wire' = DOMAIN wire \cup {Len(wire) + 1}
        /\ wire'[Len(wire) + 1] =
              [from |-> Owner(g), to |-> address, open |-> TRUE, lines |-> <<>>]
    BY <1>1, DialKeeps
  <2>2. c = Len(wire) + 1
    BY <2>1
  <2>3. doing'[g].at = place /\ doing'[g].conn = c
    BY <1>1, <2>2, DialsTo
  <2>4. place = "introduce" => Nameless(c)'
    BY <2>3 DEF Nameless
  <2>5. QED
    BY <1>1, <2>1, <2>2, <2>4
<1>2. ASSUME NEW g \in Goroutines, Introduce(g) \/ SendTransactions(g)
      PROVE  Same
  <2>1. \E lines : wire' = Write(lines, doing[g].conn)
    BY <1>2 DEF Introduce, SendTransactions
  <2>2. QED
    BY <2>1 DEF Write
<1>3. ASSUME NEW p \in Nodes, ClerkStep(p)
      PROVE  Same \/ Dials
  <2>1. Clerk(p) \in Goroutines
    BY GoroutineKinds
  <2>2. CASE Introduce(Clerk(p)) \/ SendTransactions(Clerk(p))
    BY <1>2, <2>1, <2>2
  <2>3. CASE ClerkConnects(p)
    BY <1>1, <2>1, <2>3 DEF ClerkConnects
  <2>4. CASE CheckNode(p) \/ LearnNode(Clerk(p)) \/ ClerkCannotConnect(p)
    BY <2>4 DEF CheckNode, LearnNode, ClerkCannotConnect
  <2>5. CASE SpreadTransaction(p)
    BY <2>5 DEF SpreadTransaction, Multicast
  <2> HIDE DEF Same, Dials
  <2>6. QED
    BY <1>3, <2>2, <2>3, <2>4, <2>5 DEF ClerkStep
<1>4. ASSUME NEW p \in Nodes, ManagerStep(p)
      PROVE  Same \/ Dials
  <2>1. Manager(p) \in Goroutines
    BY GoroutineKinds
  <2>2. CASE Introduce(Manager(p)) \/ SendTransactions(Manager(p))
    BY <1>2, <2>1, <2>2
  <2>3. CASE ManagerConnects(p)
    BY <1>1, <2>1, <2>3 DEF ManagerConnects
  <2>4. CASE Count(p) \/ Choose(p) \/ CountNext(p)
    BY <2>4 DEF Count, Choose, CountNext
  <2>5. CASE ManagerCannotConnect(p)
    BY <2>5 DEF ManagerCannotConnect, Multicast
  <2> HIDE DEF Same, Dials
  <2>6. QED
    BY <1>4, <2>2, <2>3, <2>4, <2>5 DEF ManagerStep
<1>5. ASSUME NEW d \in DOMAIN wire, Reconnect(d)
      PROVE  Dials
  <2> DEFINE g == Listener(d)
             p == wire[d].to
             n == doing[g].name
  <2>1. g \in Goroutines /\ Owner(g) = p
    BY ConnectionIds DEF Owner, Listener
  <2>2. /\ At(g, "redial") /\ CanReach(p, n)
        /\ Dial(g, n, nodesMap[p][n], "gone")
    BY <1>5 DEF Reconnect
  <2>3. n \notin alive /\ p \in Nodes
    BY <2>1, <2>2, AtPlace DEF RightNames
  <2>4. nodesMap[p][n] = Service /\ Reachable(nodesMap[p][n])
    BY <2>2, <2>3 DEF CanReach, Reachable, Types, NodesTyped
  <2> HIDE DEF g, p, n, Dials
  <2>5. QED
    BY <1>1, <2>1, <2>2, <2>4
<1>6. ASSUME NEW d \in DOMAIN wire, ListenerStep(d)
      PROVE  Same \/ Dials
  <2>1. Listener(d) \in Goroutines
    BY ConnectionIds
  <2>2. CASE Introduce(Listener(d)) \/ SendTransactions(Listener(d))
    BY <1>2, <2>1, <2>2
  <2>3. CASE ListenerConnects(d)
    BY <1>1, <2>1, <2>3 DEF ListenerConnects, CanReach
  <2>4. CASE Ignore(d) \/ HearIntroduce(d)
    BY <2>4 DEF Ignore, HearIntroduce, Rest
  <2>5. CASE HearDelete(d) \/ HearTransaction(d)
    BY <2>5 DEF HearDelete, HearTransaction, PassedOn, Multicast
  <2>6. CASE \/ LearnNode(Listener(d)) \/ ListenerCannotConnect(d)
             \/ EnterTransaction(d) \/ Disconnect(d)
    BY <2>6 DEF LearnNode, ListenerCannotConnect, EnterTransaction, Disconnect
  <2>7. CASE Gossip(d) \/ GiveUp(d)
    BY <2>7 DEF Gossip, GiveUp, Multicast
  <2> HIDE DEF Same, Dials
  <2>8. QED
    BY <1>5, <1>6, <2>2, <2>3, <2>4, <2>5, <2>6, <2>7 DEF ListenerStep
<1>7. ASSUME NEW p \in Nodes, AcceptorStep(p) \/ Crash(p)
      PROVE  Same
  BY <1>7 DEF AcceptorStep, Accept, AcceptNothing, Crash
<1>8. ASSUME NEW p, NEW q, ServiceIntroduces(p, q) \/ ServiceSends(p, q)
      PROVE  Same
  BY <1>8 DEF ServiceIntroduces, ServiceSends, Multicast
<1>9. ASSUME NEW d, Collect(d)
      PROVE  Same
  BY <1>9 DEF Collect
<1>10. ~Same
  OBVIOUS
<1> HIDE DEF Same, Dials
<1>11. Dials
  BY <1>3, <1>4, <1>6, <1>7, <1>8, <1>9, <1>10 DEF Next
<1>12. QED
  BY <1>11 DEF Dials

\* What a stop leaves: a connection is closed only if one of its nodes has stopped, and
\* loses nothing while it is open.
LEMMA CrashLeaves ==
    ASSUME Types, NEW p \in Nodes, Crash(p), NEW c \in DOMAIN wire
    PROVE  /\ wire'[c].open => wire[c].open /\ wire'[c].lines = wire[c].lines
           /\ wire[c].open /\ ~wire'[c].open =>
                 wire[c].to \notin alive' \/ wire[c].from \notin alive'
           /\ wire'[c].lines \in {wire[c].lines, <<>>}
<1>1. wire \in Seq(Carriers) /\ alive' = alive \ {p}
  BY DEF Types, Crash
<1>2. PICK lost \in SUBSET {d \in DOMAIN wire : wire[d].from = p} :
         wire' = [d \in DOMAIN wire |->
              IF wire[d].to = p \/ d \in lost
              THEN [wire[d] EXCEPT !.open = FALSE, !.lines = <<>>]
              ELSE [wire[d] EXCEPT !.open = @ /\ wire[d].from # p]]
  BY DEF Crash
<1> DEFINE x == wire[c]
<1>3. x \in Carriers /\ x.open \in BOOLEAN
  BY <1>1, Carrier
<1>4. wire'[c].lines \in {wire[c].lines, <<>>}
  BY CrashTyped
<1>5. CASE wire[c].to = p \/ c \in lost
  <2>1. wire'[c] = [x EXCEPT !.open = FALSE, !.lines = <<>>]
    BY <1>2, <1>5
  <2> HIDE DEF x
  <2>2. ~wire'[c].open
    BY <1>3, <2>1 DEF Carriers
  <2>3. wire[c].to = p \/ wire[c].from = p
    BY <1>2, <1>5
  <2>4. QED
    BY <1>1, <1>4, <2>2, <2>3
<1>6. CASE ~(wire[c].to = p \/ c \in lost)
  <2>1. wire'[c] = [x EXCEPT !.open = x.open /\ x.from # p]
    BY <1>2, <1>6
  <2> HIDE DEF x
  <2>2. CASE x.open /\ x.from # p
    <3>1. (x.open /\ x.from # p) = TRUE
      BY <2>2
    <3>2. wire'[c] = [x EXCEPT !.open = TRUE]
      BY <2>1, <3>1
    <3>3. wire'[c].lines = x.lines
      BY <1>3, <3>2 DEF Carriers
    <3>4. wire'[c].open
      BY <1>3, <3>2 DEF Carriers
    <3>5. QED
      BY <2>2, <3>3, <3>4 DEF x
  <2>3. CASE ~(x.open /\ x.from # p)
    <3>1. (x.open /\ x.from # p) = FALSE
      BY <2>3
    <3>2. wire'[c] = [x EXCEPT !.open = FALSE]
      BY <2>1, <3>1
    <3>3. ~wire'[c].open
      BY <1>3, <3>2, Closes
    <3>4. QED
      BY <1>1, <1>4, <2>3, <3>3 DEF x
  <2>4. QED
    BY <2>2, <2>3
<1>7. QED
  BY <1>5, <1>6

LEMMA NextSteady ==
    ASSUME Sparing, Orderly, Next
    PROVE  Steady'
<1> USE DEF Sparing
<1>1. alive' \subseteq alive
  BY StepNodes
<1>2. \A p \in alive' : p \in Known(p)'
  <2>1. ASSUME NEW p \in alive' PROVE p \in Known(p)'
    <3>1. p \in alive /\ p \in Nodes /\ p \in Known(p)
      BY <1>1 DEF Types, Steady
    <3>2. QED
      BY <3>1, NextKnown
  <2>2. QED
    BY <2>1
<1>3. ASSUME NEW g \in Busy', doing'[g] = doing[g]
      PROVE  g \in Busy
  <2>1. g \in Goroutines /\ doing[g].at \notin Places /\ Owner(g)' \in alive
    BY <1>1, <1>3 DEF Busy, Places
  <2>2. g[1] = "listener" => g[2] \in DOMAIN wire
    BY <2>1 DEF Types, WorkTyped, Places
  <2>3. Owner(g)' = Owner(g)
    BY <2>2, StepWires DEF Owner, WireTyped, Grows
  <2>4. QED
    BY <2>1, <2>3 DEF Busy, Places
<1>4. CASE doing' = doing /\ collected' = collected
  <2>1. \A g, h \in Busy' : g = h
    BY <1>3, <1>4 DEF Steady
  <2>2. ASSUME NEW p \in Nodes, doing'[Manager(p)].at = "connect"
        PROVE  doing'[Manager(p)].name \in Known(p)'
    <3>1. doing[Manager(p)].at = "connect" /\ doing[Manager(p)].name \in Known(p)
      BY <1>4, <2>2 DEF Steady
    <3>2. Searching(p)
      BY <3>1 DEF Searching
    <3>3. QED
      BY <1>4, <3>1, <3>2, NextKnown
  <2>3. QED
    BY <1>2, <1>4, <2>1, <2>2 DEF Steady
<1>5. ASSUME NEW k \in Goroutines, Turned(k), collected' = collected
      PROVE  Steady'
  <2>1. ASSUME NEW g \in Busy', g # k
        PROVE  g \in Busy /\ k \notin Busy'
    <3>1. g \in Goroutines
      BY DEF Busy
    <3>2. doing'[g] = doing[g]
      BY <1>5, <2>1, <3>1 DEF Turned
    <3>3. g \in Busy
      BY <1>3, <3>2
    <3>4. Owner(k) \in alive
      BY <1>5 DEF Turned, At
    <3>5. k \notin Busy'
      <4>1. CASE doing[k].at \notin Places
        <5>1. k \in Busy
          BY <3>4, <4>1 DEF Busy, Places
        <5>2. QED
          BY <2>1, <3>3, <5>1 DEF Steady
      <4>2. CASE doing[k].at \in Places /\ doing'[k].at \notin Places
        <5>1. MayBegin
          BY <1>5, <4>2 DEF Turned
        <5>2. QED
          BY <3>3, <5>1, OneAtATime DEF Orderly
      <4>3. CASE doing'[k].at \in Places
        BY <4>3 DEF Busy, Places
      <4>4. QED
        BY <4>1, <4>2, <4>3
    <3>6. QED
      BY <3>3, <3>5
  <2>2. ASSUME NEW g \in Busy', NEW h \in Busy'
        PROVE  g = h
    <3>1. g # k /\ h # k => g = h
      BY <2>1 DEF Steady
    <3>2. g = k \/ h = k => g = h
      BY <2>1
    <3>3. QED
      BY <3>1, <3>2
  <2>3. ASSUME NEW p \in Nodes, doing'[Manager(p)].at = "connect"
        PROVE  doing'[Manager(p)].name \in Known(p)'
    <3>1. CASE k = Manager(p)
      <4>1. doing'[k].name \in Known(p) /\ Searching(p)
        BY <1>5, <2>3, <3>1 DEF Turned
      <4>2. QED
        BY <3>1, <4>1, NextKnown
    <3>2. CASE k # Manager(p)
      <4>1. doing'[Manager(p)] = doing[Manager(p)]
        BY <1>5, <3>2, GoroutineKinds DEF Turned
      <4>2. doing[Manager(p)].at = "connect" /\ doing[Manager(p)].name \in Known(p)
        BY <2>3, <4>1 DEF Steady
      <4>3. Searching(p)
        BY <4>2 DEF Searching
      <4>4. QED
        BY <4>1, <4>2, <4>3, NextKnown
    <3>3. QED
      BY <3>1, <3>2
  <2>4. collected' = 0
    BY <1>5 DEF Steady
  <2>5. QED
    BY <1>2, <2>2, <2>3, <2>4 DEF Steady
<1>6. QED
  <2>1. CASE \E p \in Nodes : Crash(p)
    BY <1>4, <2>1 DEF Crash
  <2>2. CASE \A p \in Nodes : ~Crash(p)
    BY <1>4, <1>5, <2>2, OneTurns
  <2>3. QED
    BY <2>1, <2>2

\* What a listener may be after a step, when no node has stopped, or one has.
LEMMA ListenersMove ==
    ASSUME Sparing, Orderly, Next, NEW c \in Ids
    PROVE  doing'[Listener(c)] = doing[Listener(c)] \/ Turned(Listener(c))
<1>1. Listener(c) \in Goroutines
  BY GoroutineKinds
<1>2. CASE \E p \in Nodes : Crash(p)
  BY <1>2 DEF Crash
<1>3. CASE \A p \in Nodes : ~Crash(p)
  BY <1>1, <1>3, OneTurns DEF Turned
<1>4. QED
  BY <1>2, <1>3

LEMMA NextRightNames ==
    ASSUME Sparing, Orderly, Next
    PROVE  RightNames'
<1> USE DEF Sparing
<1>1. alive' \subseteq alive /\ NoName \notin alive
  BY StepNodes, NetworkAssumption DEF Types
<1>2. ASSUME NEW c \in Ids, doing'[Listener(c)].at = "backlog"
      PROVE  doing'[Listener(c)].name = NoName
  <2>1. ~Turned(Listener(c))
    BY <1>2 DEF Turned
  <2>2. doing'[Listener(c)] = doing[Listener(c)]
    BY <2>1, ListenersMove
  <2>3. QED
    BY <1>2, <2>2 DEF RightNames
<1>3. ASSUME NEW c \in DOMAIN wire', c \notin DOMAIN wire
      PROVE  doing'[Listener(c)].at = "backlog" /\ doing'[Listener(c)].name = NoName
  <2> DEFINE l == Listener(c)
  <2>1. c \in Ids
    <3>1. Types'
      BY StepTypes
    <3>2. \A d \in DOMAIN wire' : d \in Ids
      <4>1. wire' \in Seq(Carriers) /\ Len(wire') <= MaxConnections
        BY StepWires DEF WireTyped
      <4>2. DOMAIN wire' = 1..Len(wire') /\ Len(wire') \in Nat /\ MaxConnections \in Nat
        BY <4>1, LenProperties, NetworkAssumption
      <4>3. QED
        BY <4>1, <4>2 DEF Ids
    <3>3. QED
      BY <3>2
  <2>2. l \in Goroutines /\ l[1] = "listener" /\ l[2] = c
    BY <2>1, GoroutineKinds
  <2>3. doing[l].at = "backlog"
    BY <1>3, <2>2 DEF Types, WorkTyped
  <2>4. ~Turned(l)
    BY <1>3, <2>2 DEF Turned, At
  <2>5. doing'[l] = doing[l]
    BY <2>1, <2>4, ListenersMove
  <2>6. QED
    BY <2>1, <2>3, <2>5 DEF RightNames
<1>4. ASSUME NEW c \in DOMAIN wire
      PROVE  /\ Rightly(c, doing'[Listener(c)].name)
             /\ doing'[Listener(c)].at = "redial" => doing'[Listener(c)].name \notin alive
  <2> DEFINE l == Listener(c)
  <2>1. l \in Goroutines /\ c \in Ids
    BY ConnectionIds
  <2>2. /\ Rightly(c, doing[l].name)
        /\ doing[l].at = "redial" => doing[l].name \notin alive
    BY DEF RightNames
  <2>3. CASE doing'[l] = doing[l]
    BY <2>2, <2>3
  <2>4. CASE Turned(l) /\ doing[l].at = "backlog"
    <3>1. CASE AcceptNothing(c)
      <4>1. doing'[l] = Gone
        BY <2>1, <3>1, BecomesWhat DEF AcceptNothing
      <4>2. QED
        BY <1>1, <4>1 DEF Rightly, Gone, Doing
    <3>2. CASE Accept(c)
      <4>1. wire[c].lines # <<>>
        BY <3>2 DEF Accept
      <4>2. Rightly(c, secondWord(Head(wire[c].lines)))
        BY <2>4, <4>1 DEF FirstLines
      <4>3. doing'[l] = Gone \/ doing'[l] = Idle(secondWord(Head(wire[c].lines)))
        BY <2>1, <3>2, AcceptTyped, BecomesWhat
      <4>4. doing'[l].name \in {NoName, secondWord(Head(wire[c].lines))}
            /\ doing'[l].at # "redial"
        BY <4>3 DEF Gone, Idle, Doing
      <4>5. QED
        BY <1>1, <4>2, <4>4 DEF Rightly
    <3>3. QED
      BY <2>1, <2>4, <3>1, <3>2 DEF Turned
  <2>5. CASE Turned(l) /\ doing[l].at # "backlog"
    <3>1. doing'[l].name \in {doing[l].name, NoName}
      BY <2>1, <2>5 DEF Turned
    <3>2. Rightly(c, doing'[l].name)
      BY <1>1, <2>2, <3>1 DEF Rightly
    <3>3. ASSUME doing'[l].at = "redial"
          PROVE  doing'[l].name \notin alive
      <4>1. Disconnect(c)
        BY <2>1, <2>5, <3>3 DEF Turned
      <4>2. At(l, "idle") /\ ~wire[c].open
        BY <4>1 DEF Disconnect
      <4>3. doing[l].at = "idle" /\ wire[c].to \in alive
        BY <2>1, <4>2, AtPlace DEF Owner, Listener
      <4>4. wire[c].from \notin alive
        BY <4>2, <4>3 DEF Ended
      <4>5. QED
        BY <3>2, <4>4 DEF Rightly
    <3>4. QED
      BY <3>2, <3>3
  <2>6. QED
    BY <2>1, <2>3, <2>4, <2>5, ListenersMove
<1>5. ASSUME NEW c \in DOMAIN wire'
      PROVE  /\ doing'[Listener(c)].name = wire'[c].from
                \/ doing'[Listener(c)].name \notin alive'
             /\ doing'[Listener(c)].at = "redial" => doing'[Listener(c)].name \notin alive'
  <2>1. CASE c \notin DOMAIN wire
    BY <1>1, <1>3, <2>1
  <2>2. CASE c \in DOMAIN wire
    <3>1. wire'[c].from = wire[c].from
      BY <2>2, StepWires DEF WireTyped, Grows
    <3>2. QED
      BY <1>1, <1>4, <2>2, <3>1 DEF Rightly
  <2>3. QED
    BY <2>1, <2>2
<1>6. QED
  BY <1>2, <1>5 DEF RightNames, Rightly

\* Who introduces its node on a connection goes on with it.
LEMMA StillNameless ==
    ASSUME Sparing, Orderly, Next, NEW c \in DOMAIN wire, Live(c), Nameless(c)
    PROVE  Nameless(c)' \/ wire'[c].lines # <<>>
<1> USE DEF Sparing
<1>1. PICK g \in Goroutines : doing[g].at = "introduce" /\ doing[g].conn = c
  BY DEF Nameless
<1>2. CASE doing'[g] = doing[g]
  BY <1>1, <1>2 DEF Nameless
<1>3. CASE Turned(g)
  <2>1. Introduce(g)
    BY <1>1, <1>3 DEF Turned
  <2>2. PICK lines \in Seq(Introductions) :
           lines # <<>> /\ lines \in Seq(Lines) /\ wire' = Write(lines, c)
    BY <1>1, <2>1, IntroduceTyped
  <2>3. wire'[c].lines = wire[c].lines \o lines
    BY <2>2, WriteIsLonger
  <2>4. wire[c].lines \in Seq(Lines)
    BY Carrier DEF Types
  <2>5. QED
    BY <2>2, <2>3, <2>4, LongerLines
<1>4. QED
  <2>1. CASE \E p \in Nodes : Crash(p)
    BY <1>2, <2>1 DEF Crash
  <2>2. CASE \A p \in Nodes : ~Crash(p)
    <3>1. doing' = doing \/ \E k \in Goroutines : Turned(k)
      BY <2>2, OneTurns
    <3>2. \A k \in Goroutines : Turned(k) => k = g \/ doing'[g] = doing[g]
      BY DEF Turned
    <3>3. QED
      BY <1>2, <1>3, <3>1, <3>2
  <2>3. QED
    BY <2>1, <2>2

\* A listener that is not yet there was not there, and one that is gone remains so.
LEMMA BacklogStays ==
    ASSUME Sparing, Orderly, Next, NEW c \in DOMAIN wire
    PROVE  /\ doing'[Listener(c)].at = "backlog" => doing[Listener(c)].at = "backlog"
           /\ doing[Listener(c)].at = "gone" => doing'[Listener(c)].at = "gone"
<1>1. c \in Ids
  BY ConnectionIds DEF Sparing
<1>2. QED
  BY <1>1, ListenersMove DEF Turned

LEMMA NextFirstLines ==
    ASSUME Sparing, Orderly, Next
    PROVE  FirstLines'
<1> USE DEF Sparing
<1>1. alive' \subseteq alive
  BY StepNodes
<1>2. ASSUME NEW c \in DOMAIN wire', c \notin DOMAIN wire
      PROVE  wire'[c].lines = <<>> /\ (Live(c)' => Nameless(c)')
  BY <1>2, NextDials, NetworkAssumption DEF Live
<1>3. ASSUME NEW c \in DOMAIN wire, doing'[Listener(c)].at = "backlog"
      PROVE  /\ wire'[c].lines # <<>> => Rightly(c, secondWord(Head(wire'[c].lines)))
             /\ wire'[c].lines = <<>> /\ wire'[c].open /\ wire[c].to \in Nodes
                   /\ wire[c].from \in alive => Nameless(c)'
  <2>1. doing[Listener(c)].at = "backlog"
    BY <1>3, BacklogStays
  <2>2. /\ wire[c].lines # <<>> => Rightly(c, secondWord(Head(wire[c].lines)))
        /\ wire[c].lines = <<>> /\ Live(c) /\ wire[c].from \in alive => Nameless(c)
    BY <2>1 DEF FirstLines
  <2>3. CASE \E p \in Nodes : Crash(p)
    <3>1. /\ wire'[c].open => wire[c].open /\ wire'[c].lines = wire[c].lines
          /\ wire'[c].lines \in {wire[c].lines, <<>>}
      BY <2>3, CrashLeaves
    <3>2. doing' = doing
      BY <2>3 DEF Crash
    <3>3. QED
      BY <2>2, <3>1, <3>2 DEF Live, Nameless
  <2>4. CASE \A p \in Nodes : ~Crash(p)
    <3>1. ~Accept(c)
      BY <1>3, Accepted
    <3>2. Lengthens(c)
      BY <2>1, <2>4, <3>1, LinesFollow DEF Listens
    <3>3. /\ wire'[c].open = wire[c].open
          /\ wire'[c].lines = <<>> => wire[c].lines = <<>>
          /\ wire'[c].lines # <<>> => Rightly(c, secondWord(Head(wire'[c].lines)))
      BY <2>1, <3>2, FollowsWell DEF Lengthens
    <3>4. QED
      BY <2>2, <3>3, StillNameless DEF Live
  <2>5. QED
    BY <2>3, <2>4
<1>4. ASSUME NEW c \in DOMAIN wire', doing'[Listener(c)].at = "backlog"
      PROVE  /\ wire'[c].lines # <<>> =>
                   \/ secondWord(Head(wire'[c].lines)) = wire'[c].from
                   \/ secondWord(Head(wire'[c].lines)) \notin alive'
             /\ wire'[c].lines = <<>> /\ Live(c)' /\ wire'[c].from \in alive'
                   => Nameless(c)'
  <2>1. CASE c \notin DOMAIN wire
    BY <1>2, <2>1
  <2>2. CASE c \in DOMAIN wire
    <3>1. wire'[c].from = wire[c].from /\ wire'[c].to = wire[c].to
      BY <2>2, StepWires DEF WireTyped, Grows
    <3>2. QED
      BY <1>1, <1>3, <1>4, <2>2, <3>1 DEF Rightly, Live
  <2>3. QED
    BY <2>1, <2>2
<1>5. QED
  BY <1>4 DEF FirstLines, Rightly

LEMMA NextEnded ==
    ASSUME Sparing, Orderly, Next
    PROVE  Ended'
<1> USE DEF Sparing
<1>1. SUFFICES ASSUME NEW c \in DOMAIN wire', ~wire'[c].open, wire'[c].to \in alive',
                      doing'[Listener(c)].at # "gone"
               PROVE  wire'[c].from \notin alive'
  BY DEF Ended
<1>2. c \in DOMAIN wire
  BY <1>1, NextDials
<1>3. /\ wire'[c].from = wire[c].from /\ wire'[c].to = wire[c].to
      /\ alive' \subseteq alive
  BY <1>2, StepWires, StepNodes DEF WireTyped, Grows
<1>4. doing[Listener(c)].at # "gone"
  BY <1>1, <1>2, BacklogStays
<1>5. CASE ~wire[c].open
  BY <1>1, <1>2, <1>3, <1>4, <1>5 DEF Ended
<1>6. CASE wire[c].open
  <2>1. CASE \E p \in Nodes : Crash(p)
    BY <1>1, <1>2, <1>3, <1>6, <2>1, CrashLeaves
  <2>2. CASE \A p \in Nodes : ~Crash(p)
    <3>1. ~Accept(c)
      BY <1>1, <1>2, <1>6, Accepted
    <3>2. QED
      BY <1>1, <1>2, <1>6, <2>2, <3>1, LinesFollow DEF Lengthens, Listens
  <2>3. QED
    BY <2>1, <2>2
<1>7. QED
  BY <1>5, <1>6

LEMMA NextLiveNotDeleted ==
    ASSUME Sparing, Orderly, Next
    PROVE  LiveNotDeleted'
<1> USE DEF Sparing
<1>1. alive' \subseteq alive
  BY StepNodes
<1>2. ASSUME NEW c \in DOMAIN wire'
      PROVE  Mild(wire'[c].lines)
  <2>1. Mild(<<>>)
    BY DEF Mild
  <2>2. CASE c \notin DOMAIN wire
    BY <2>1, <2>2, NextDials
  <2>3. CASE c \in DOMAIN wire
    <3>1. wire[c].lines \in Seq(Lines) /\ Mild(wire[c].lines)
      BY <2>3, Carrier DEF Types, LiveNotDeleted, Mild
    <3>2. CASE \E p \in Nodes : Crash(p)
      BY <2>1, <2>3, <3>1, <3>2, CrashLeaves
    <3>3. CASE Accept(c)
      <4>1. wire[c].lines # <<>>
        BY <3>3 DEF Accept
      <4>2. CASE wire' = [wire EXCEPT ![c].open = FALSE, ![c].lines = <<>>]
        <5>1. wire'[c].lines \in {wire[c].lines, <<>>}
          BY <2>3, <4>2, ClosedTyped DEF Types
        <5>2. QED
          BY <2>1, <3>1, <5>1
      <4>3. CASE wire' = [wire EXCEPT ![c].lines = Tail(@)]
        <5>1. wire' = Rest(c)
          BY <4>3 DEF Rest
        <5>2. wire'[c].lines = Tail(wire[c].lines)
          BY <2>3, <4>1, <5>1, RestKeeps
        <5>3. QED
          BY <3>1, <4>1, <5>2, MildRest
      <4>4. QED
        BY <3>3, <4>2, <4>3 DEF Accept
    <3>4. CASE Lengthens(c)
      BY <2>3, <3>4, FollowsWell DEF Lengthens
    <3>5. CASE Listens(c)
      <4>1. PICK new \in Seq(Lines) :
               Follows(c, new) /\ new # <<>> /\ wire'[c].lines = Tail(new)
        BY <3>5 DEF Listens
      <4>2. Mild(new)
        BY <2>3, <4>1, FollowsWell
      <4>3. QED
        BY <4>1, <4>2, MildRest
    <3>6. QED
      BY <2>3, <3>2, <3>3, <3>4, <3>5, LinesFollow
  <2>4. QED
    BY <2>2, <2>3
<1>3. QED
  BY <1>1, <1>2 DEF LiveNotDeleted, Mild

LEMMA InitSparing == Init => Sparing
<1> SUFFICES ASSUME Init PROVE Sparing
  OBVIOUS
<1>1. wire = <<>> /\ DOMAIN wire = {} /\ alive = Nodes /\ collected = 0
  BY DEF Init
<1>2. \A g \in Goroutines :
         /\ doing[g].at \in {"idle", "backlog"} /\ doing[g].name = NoName
  BY DEF Init, Waiting, Idle, Doing
<1>3. \A p \in Nodes : p \in Known(p)
  BY DEF Init, Known
<1>4. Steady
  BY <1>1, <1>2, <1>3, GoroutineKinds DEF Steady, Busy
<1>5. RightNames
  BY <1>1, <1>2, GoroutineKinds DEF RightNames
<1>6. QED
  BY <1>1, <1>4, <1>5, InitTypes DEF Sparing, FirstLines, Ended, LiveNotDeleted

LEMMA NextSparing == Orderly /\ Sparing /\ [Next]_vars => Sparing'
<1> SUFFICES ASSUME Orderly, Sparing, [Next]_vars PROVE Sparing'
  OBVIOUS
<1>1. Types'
  BY StepTypes DEF Sparing
<1>2. CASE Next
  BY <1>1, <1>2, NextSteady, NextRightNames, NextFirstLines, NextEnded,
     NextLiveNotDeleted DEF Sparing
<1>3. CASE UNCHANGED vars
  <2> USE <1>3 DEF vars, maps, Sparing
  <2>1. Steady'
    BY DEF Steady, Busy, Owner, Known
  <2>2. RightNames' /\ FirstLines'
    BY DEF RightNames, Rightly, FirstLines, Live, Nameless
  <2>3. Ended' /\ LiveNotDeleted'
    BY DEF Ended, LiveNotDeleted
  <2>4. QED
    BY <1>1, <2>1, <2>2, <2>3
<1>4. QED
  BY <1>2, <1>3

\* Whatever nodes stop, and wherever: if an introduction names its sender first
\* (mp2.go:346-351), the runtime closes no connection and goroutines take turns, then
\* a DELETE is only ever sent about a node that has stopped (mp2.go:512-519, 666-671).
\* The name an acceptor reads (mp2.go:453) is then the peer's own, so that it is the
\* peer that is found gone when the connection ends.
THEOREM OnlyGoneDeleted ==
    ASSUME Orderly
    PROVE  Spec => []LiveNotDeleted
<1>1. Spec => []Sparing
  BY InitSparing, NextSparing, PTL DEF Spec
<1>2. QED
  BY <1>1, PTL DEF Sparing
==============================================================================
