------------------------------ MODULE PeerNetwork ------------------------------
(***************************************************************************)
(* The connections of the nodes of the cryptocurrency network              *)
(* (CryptoNodeNetwork/mp2.go): how nodes hear of each other, whom they     *)
(* dial, whom they accept, and what is gossiped over their connections.    *)
(*                                                                         *)
(* Each node runs a clerk (listenToService), a manager (manageConnections),*)
(* an acceptor (listenOnPort), and a listener for every connection it has  *)
(* accepted (connectionListener).  They share nodesMap, connections and    *)
(* transactions, each behind a lock of its own.  A connection is written   *)
(* by the node that dialled it and read by the one that accepted it.       *)
(*                                                                         *)
(* The service is external: it introduces nodes and sends transactions.    *)
(* Blocks are left to Blockchain; here their lines would only be passed on.*)
(***************************************************************************)
EXTENDS Naturals, Sequences, FiniteSets, SequencesExt

CONSTANTS Nodes,
          Service,         \* the address of the service
          Script,          \* what it sends: to whom, whether an introduction, and of what
          NoName,          \* a name that no node has: see secondWord
          MaxConnections,  \* bound: connections dialled in all
          Mortal,          \* bound: the nodes that may stop
          MaxCollected,    \* bound: connections the runtime closes
          MaxBusy,         \* bound: goroutines in the middle of something at once
          Hasty,           \* whether the service speaks before all is quiet
          OwnFirst         \* whether a map of nodes is traversed from its owner on

ASSUME NetworkAssumption ==
    /\ Mortal \subseteq Nodes
    /\ \A i \in DOMAIN Script :
          /\ Script[i].to \in Nodes
          /\ Script[i].introduce => Script[i].what \in Nodes
    /\ Service \notin Nodes /\ NoName \notin Nodes
    /\ {MaxConnections, MaxCollected, MaxBusy} \subseteq Nat
    /\ {Hasty, OwnFirst} \subseteq BOOLEAN

Transactions == {Script[i].what : i \in {j \in DOMAIN Script : ~Script[j].introduce}}
ASSUME FiniteAssumption == IsFiniteSet(Nodes) /\ IsFiniteSet(Transactions)

Ids == 1..MaxConnections
Addresses == Nodes \cup {Service}
Names == Nodes \cup {NoName}

VARIABLES
    nodesMap,     \* nodesMap[p]: the address p knows for each name it knows
    connections,  \* connections[p]: the connection p writes to, by name
    transactions, \* those each node has entered
    wire,         \* every connection dialled so far, with its lines on their way
    doing,        \* what each goroutine is doing
    count,        \* the numbers that the manager compares
    sent,         \* how much of its script the service has sent
    collected,    \* how many connections the runtime has closed
    alive         \* the processes that run

maps == <<nodesMap, connections, transactions>>
vars == <<maps, wire, doing, count, sent, collected, alive>>

Clerk(p) == <<"clerk", p>>
Manager(p) == <<"manager", p>>
\* The listener for connection c; before it, what the acceptor does with c.
Listener(c) == <<"listener", c>>
Goroutines == {Clerk(p) : p \in Nodes} \cup {Manager(p) : p \in Nodes}
                  \cup {Listener(c) : c \in Ids}

\* A goroutine is at a place, handling a line, about the node of that name, and
\* with a connection; a listener has the name it was given for its peer.
Doing(place, name, line, conn) ==
    [at |-> place, name |-> name, line |-> line, conn |-> conn]
NoLine == [type |-> "none"]
Idle(name) == Doing("idle", name, NoLine, 0)
Gone == Doing("gone", NoName, NoLine, 0)
Waiting == Doing("backlog", NoName, NoLine, 0)

INTRODUCE(name, address) == [type |-> "INTRODUCE", name |-> name, address |-> address]
DELETE(name) == [type |-> "DELETE", name |-> name]
NAME(name) == [type |-> "NAME", name |-> name]
TRANSACTION(t) == [type |-> "TRANSACTION", transaction |-> t]

\* A node enters itself with the address of the service.
Init ==
    /\ nodesMap = [p \in Nodes |-> [n \in {p} |-> Service]]
    /\ connections = [p \in Nodes |-> [n \in {} |-> 0]]
    /\ transactions = [p \in Nodes |-> {}]
    /\ wire = <<>>
    /\ doing = [g \in Goroutines |-> IF g[1] = "listener" THEN Waiting ELSE Idle(NoName)]
    /\ count = [p \in Nodes |-> [nodes |-> 0, connections |-> 0, failed |-> {}]]
    /\ sent = 0
    /\ collected = 0
    /\ alive = Nodes

------------------------------------------------------------------------------
(* Maps and lines                                                          *)

Put(map, name, value) ==
    [n \in DOMAIN map \cup {name} |-> IF n = name THEN value ELSE map[n]]
Without(map, name) == [n \in DOMAIN map \ {name} |-> map[n]]

Known(p) == DOMAIN nodesMap[p]
Connected(p) == DOMAIN connections[p]
Kept(p) == {connections[p][n] : n \in Connected(p)}

\* parseName takes the second word of whatever line it is given; that of a
\* transaction is a time.
secondWord(line) == IF line.type = "TRANSACTION" THEN NoName ELSE line.name

\* What is written on a closed connection is lost, and so is what is written to
\* the service, which takes no such lines.
Write(lines, c) ==
    [wire EXCEPT ![c].lines =
        IF wire[c].open /\ wire[c].to # Service THEN @ \o lines ELSE @]

\* One multicast is one step: it holds the lock of the connections.
Multicast(p, line) ==
    [c \in DOMAIN wire |->
        IF c \in Kept(p) THEN Write(<<line>>, c)[c] ELSE wire[c]]

Owner(g) == IF g[1] = "listener" THEN wire[g[2]].to ELSE g[2]

At(g, place) ==
    /\ g[1] = "listener" => g[2] \in DOMAIN wire
    /\ doing[g].at = place
    /\ Owner(g) \in alive

Becomes(g, what) == doing' = [doing EXCEPT ![g] = what]
Moves(g, place) == doing' = [doing EXCEPT ![g].at = place]

\* A goroutine of a running node that is in the middle of something is busy;
\* only MaxBusy are at once.
Busy == {g \in Goroutines :
            /\ doing[g].at \notin {"idle", "gone", "backlog"}
            /\ Owner(g) \in alive}
MayBegin == Cardinality(Busy) < MaxBusy

\* The acceptor takes connections in order: only the first is read from.
IsNext(c) ==
    \A b \in 1..(c - 1) : wire[b].to = wire[c].to => doing[Listener(b)].at # "backlog"

Unread == {c \in DOMAIN wire :
              /\ wire[c].lines # <<>> /\ wire[c].to \in alive
              /\ doing[Listener(c)].at = "backlog" => IsNext(c)}
Quiet == Busy = {} /\ Unread = {}
ServiceMay == MayBegin /\ (Hasty \/ Quiet)

\* findNewConnection holds the lock of nodesMap from beginning to end.
Searching(p) == doing[Manager(p)].at # "idle"

------------------------------------------------------------------------------
(* Dialling, by a clerk, a manager or a listener                           *)

Reachable(address) == address \in alive \cup {Service}

\* The connection is dialled and entered in connections under the name key.
Dial(g, key, address, place) ==
    LET p == Owner(g)
        c == Len(wire) + 1
    IN  /\ c <= MaxConnections
        /\ wire' = Append(wire, [from |-> p, to |-> address, open |-> TRUE, lines |-> <<>>])
        /\ connections' = [connections EXCEPT ![p] = Put(@, key, c)]
        /\ doing' = [doing EXCEPT ![g].at = place, ![g].conn = c]

\* The introduction of every node that p knows, itself with the address of the
\* service among them, in the order a Go map is traversed, which is any.
Introduce(g) ==
    LET p == Owner(g)
    IN  /\ At(g, "introduce")
        /\ g # Manager(p) => ~Searching(p)
        /\ \E first \in IF OwnFirst THEN Known(p) \cap {p} ELSE Known(p) :
              LET order == <<first>> \o SetToSeq(Known(p) \ {first})
              IN  wire' = Write([i \in DOMAIN order |->
                               INTRODUCE(order[i], nodesMap[p][order[i]])], doing[g].conn)
        /\ Moves(g, "snapshot")
        /\ UNCHANGED <<maps, count, sent, collected, alive>>

\* Mutant: the new peer gets no transactions.
SendNoTransactions(g) ==
    LET p == Owner(g)
        proper == IF g = Clerk(p) THEN <<NAME(p), INTRODUCE(p, p)>> ELSE <<>>
    IN  /\ At(g, "snapshot")
        /\ wire' = Write(proper, doing[g].conn)
        /\ Becomes(g, IF g = Manager(p) THEN Doing("next", NoName, NoLine, 0)
                                        ELSE Idle(doing[g].name))
        /\ UNCHANGED <<maps, count, sent, collected, alive>>

\* Then every transaction that p has entered, and from a clerk its proper
\* introduction at last.
SendTransactions(g) ==
    LET p == Owner(g)
        proper == IF g = Clerk(p) THEN <<NAME(p), INTRODUCE(p, p)>> ELSE <<>>
    IN  /\ At(g, "snapshot")
        /\ \E order \in SetToSeqs(transactions[p]) :
              wire' = Write([i \in DOMAIN order |-> TRANSACTION(order[i])] \o proper,
                            doing[g].conn)
        /\ Becomes(g, IF g = Manager(p) THEN Doing("next", NoName, NoLine, 0)
                                        ELSE Idle(doing[g].name))
        /\ UNCHANGED <<maps, count, sent, collected, alive>>

------------------------------------------------------------------------------
(* listenToService                                                         *)

\* The service sends p the next line of its script.
Reads(p, introduce, what) ==
    /\ At(Clerk(p), "idle")
    /\ sent < Len(Script)
    /\ Script[sent + 1] = [to |-> p, introduce |-> introduce, what |-> what]
    /\ ServiceMay
    /\ sent' = sent + 1

\* INTRODUCE: the clerk passes the line on first.
ServiceIntroduces(p, q) ==
    /\ Reads(p, TRUE, q)
    /\ wire' = Multicast(p, INTRODUCE(q, q))
    /\ Becomes(Clerk(p), Doing("check", NoName, INTRODUCE(q, q), 0))
    /\ UNCHANGED <<maps, count, collected, alive>>

\* The clerk's check whether it knows the node.
CheckNode(p) ==
    /\ At(Clerk(p), "check")
    /\ ~Searching(p)
    /\ Moves(Clerk(p), IF doing[Clerk(p)].line.name \in Known(p) THEN "connect" ELSE "learn")
    /\ UNCHANGED <<maps, wire, count, sent, collected, alive>>

\* A clerk or a listener enters a node.
LearnNode(g) ==
    LET p == Owner(g)
        line == doing[g].line
    IN  /\ At(g, "learn")
        /\ ~Searching(p)
        /\ nodesMap' = [nodesMap EXCEPT ![p] = Put(@, line.name, line.address)]
        /\ Moves(g, IF g = Clerk(p) THEN "connect" ELSE "gossip")
        /\ UNCHANGED <<connections, transactions, wire, count, sent, collected, alive>>

\* The connection is entered under the name of p itself.
ClerkConnects(p) ==
    /\ At(Clerk(p), "connect")
    /\ Reachable(doing[Clerk(p)].line.address)
    /\ Dial(Clerk(p), p, doing[Clerk(p)].line.address, "introduce")
    /\ UNCHANGED <<nodesMap, transactions, count, sent, collected, alive>>

ClerkCannotConnect(p) ==
    /\ At(Clerk(p), "connect")
    /\ ~Reachable(doing[Clerk(p)].line.address)
    /\ Becomes(Clerk(p), Idle(NoName))
    /\ UNCHANGED <<maps, wire, count, sent, collected, alive>>

\* TRANSACTION: entered, and then passed on.
ServiceSends(p, t) ==
    /\ Reads(p, FALSE, t)
    /\ transactions' = [transactions EXCEPT ![p] = @ \cup {t}]
    /\ Becomes(Clerk(p), Doing("spread", NoName, TRANSACTION(t), 0))
    /\ UNCHANGED <<nodesMap, connections, wire, count, collected, alive>>

SpreadTransaction(p) ==
    /\ At(Clerk(p), "spread")
    /\ wire' = Multicast(p, doing[Clerk(p)].line)
    /\ Becomes(Clerk(p), Idle(NoName))
    /\ UNCHANGED <<maps, count, sent, collected, alive>>

ClerkStep(p) ==
    \/ CheckNode(p) \/ LearnNode(Clerk(p)) \/ ClerkConnects(p) \/ ClerkCannotConnect(p)
    \/ Introduce(Clerk(p)) \/ SendTransactions(Clerk(p)) \/ SpreadTransaction(p)

------------------------------------------------------------------------------
(* manageConnections and findNewConnection                                 *)

\* Mutant: three nodes are still too few to look for a connection.
FewOfMore(n) == n.connections * n.connections < n.nodes /\ n.nodes > 3

Few(n) == n.connections * n.connections < n.nodes /\ n.nodes > 2

\* Bound: a node has one DELETE unread on a connection at most when it looks for
\* another connection, a second later.
DeletesRead(p) ==
    \A c \in Kept(p) : \A i \in DOMAIN wire[c].lines : wire[c].lines[i].type # "DELETE"

\* Every second, the numbers of nodes and connections are read.
Count(p) ==
    LET n == [nodes |-> Cardinality(Known(p)), connections |-> Cardinality(Connected(p)),
              failed |-> {}]
    IN  /\ At(Manager(p), "idle")
        /\ Few(n)
        /\ MayBegin /\ DeletesRead(p)
        /\ count' = [count EXCEPT ![p] = n]
        /\ Moves(Manager(p), "search")
        /\ UNCHANGED <<maps, wire, sent, collected, alive>>

\* The nodes without a connection under their name whose dial has not failed.
Candidates(p) == (Known(p) \ Connected(p)) \ count[p].failed

Choose(p) ==
    /\ At(Manager(p), "search")
    /\ \E n \in Candidates(p) : Becomes(Manager(p), Doing("connect", n, NoLine, 0))
    /\ UNCHANGED <<maps, wire, count, sent, collected, alive>>

ManagerConnects(p) ==
    LET n == doing[Manager(p)].name
    IN  /\ At(Manager(p), "connect")
        /\ Reachable(nodesMap[p][n])
        /\ Dial(Manager(p), n, nodesMap[p][n], "introduce")
        /\ UNCHANGED <<nodesMap, transactions, count, sent, collected, alive>>

\* The node is said to be gone, but p keeps it in nodesMap.
ManagerCannotConnect(p) ==
    LET n == doing[Manager(p)].name
    IN  /\ At(Manager(p), "connect")
        /\ ~Reachable(nodesMap[p][n])
        /\ wire' = Multicast(p, DELETE(n))
        /\ count' = [count EXCEPT ![p].failed = @ \cup {n}]
        /\ Becomes(Manager(p), Doing("search", NoName, NoLine, 0))
        /\ UNCHANGED <<maps, sent, collected, alive>>

\* A connection is counted whether it was found or not.
SearchEnded(p) ==
    \/ At(Manager(p), "next")
    \/ At(Manager(p), "search") /\ Candidates(p) = {}

CountNext(p) ==
    LET n == [count[p] EXCEPT !.connections = @ + 1, !.failed = {}]
    IN  /\ SearchEnded(p)
        /\ count' = [count EXCEPT ![p] =
              IF Few(n) THEN n ELSE [nodes |-> 0, connections |-> 0, failed |-> {}]]
        /\ Becomes(Manager(p), IF Few(n) THEN Doing("search", NoName, NoLine, 0)
                                         ELSE Idle(NoName))
        /\ UNCHANGED <<maps, wire, sent, collected, alive>>

ManagerStep(p) ==
    \/ Count(p) \/ Choose(p) \/ ManagerConnects(p) \/ ManagerCannotConnect(p)
    \/ CountNext(p)
    \/ Introduce(Manager(p)) \/ SendTransactions(Manager(p))

------------------------------------------------------------------------------
(* listenOnPort                                                            *)

\* Mutant: an accepted connection is added to connections.
AcceptToWrite(c) ==
    LET p == wire[c].to
        name == secondWord(Head(wire[c].lines))
    IN  /\ At(Listener(c), "backlog")
        /\ IsNext(c)
        /\ wire[c].lines # <<>>
        /\ name \notin Connected(p)
        /\ wire' = [wire EXCEPT ![c].lines = Tail(@)]
        /\ connections' = [connections EXCEPT ![p] = Put(@, name, c)]
        /\ Becomes(Listener(c), Idle(name))
        /\ UNCHANGED <<nodesMap, transactions, count, sent, collected, alive>>

\* The first line of the first connection not yet accepted names the peer,
\* whatever line it is.  If it has that name in connections, p closes it.
Accept(c) ==
    LET p == wire[c].to
        name == secondWord(Head(wire[c].lines))
    IN  /\ At(Listener(c), "backlog")
        /\ IsNext(c)
        /\ wire[c].lines # <<>>
        /\ IF name \in Connected(p)
           THEN /\ wire' = [wire EXCEPT ![c].open = FALSE, ![c].lines = <<>>]
                /\ Becomes(Listener(c), Gone)
           ELSE /\ wire' = [wire EXCEPT ![c].lines = Tail(@)]
                /\ Becomes(Listener(c), Idle(name))
        /\ UNCHANGED <<maps, count, sent, collected, alive>>

\* The connection ended before its first line.
AcceptNothing(c) ==
    /\ At(Listener(c), "backlog")
    /\ IsNext(c)
    /\ wire[c].lines = <<>> /\ ~wire[c].open
    /\ Becomes(Listener(c), Gone)
    /\ UNCHANGED <<maps, wire, count, sent, collected, alive>>

AcceptorStep(p) ==
    \E c \in DOMAIN wire : wire[c].to = p /\ (Accept(c) \/ AcceptNothing(c))

------------------------------------------------------------------------------
(* connectionListener and createWriteConnection                            *)

Hear(c, type) ==
    /\ At(Listener(c), "idle")
    /\ wire[c].lines # <<>>
    /\ Head(wire[c].lines).type = type

Heard(c) == Head(wire[c].lines)
Rest(c) == [wire EXCEPT ![c].lines = Tail(@)]
\* The lines on their way when the one heard on c has been passed on.
PassedOn(c) ==
    LET on == Multicast(wire[c].to, Heard(c))
    IN  [on EXCEPT ![c].lines = Tail(@)]

\* NAME is no command; what is known is dropped.
Ignore(c) ==
    LET p == wire[c].to
    IN  /\ \/ Hear(c, "NAME")
           \/ Hear(c, "INTRODUCE") /\ ~Searching(p) /\ Heard(c).name \in Known(p)
           \/ Hear(c, "DELETE") /\ ~Searching(p) /\ Heard(c).name \notin Known(p)
           \/ Hear(c, "TRANSACTION") /\ Heard(c).transaction \in transactions[p]
        /\ wire' = Rest(c)
        /\ UNCHANGED <<maps, doing, count, sent, collected, alive>>

\* A node that p does not know is entered (LearnNode) and then passed on.
HearIntroduce(c) ==
    LET p == wire[c].to
    IN  /\ Hear(c, "INTRODUCE")
        /\ ~Searching(p)
        /\ Heard(c).name \notin Known(p)
        /\ MayBegin
        /\ wire' = Rest(c)
        /\ doing' = [doing EXCEPT ![Listener(c)].at = "learn", ![Listener(c)].line = Heard(c)]
        /\ UNCHANGED <<maps, count, sent, collected, alive>>

\* Only a node that has the name of the listener is connected to.
Gossip(c) ==
    LET l == doing[Listener(c)]
    IN  /\ At(Listener(c), "gossip")
        /\ wire' = Multicast(wire[c].to, l.line)
        /\ Becomes(Listener(c), IF l.line.name = l.name
                                THEN Doing("connect", l.name, NoLine, 0)
                                ELSE Idle(l.name))
        /\ UNCHANGED <<maps, count, sent, collected, alive>>

\* createWriteConnection, and the listener's own dial after a disconnection:
\* the node may have been deleted by then.
CanReach(p, name) == name \in Known(p) /\ Reachable(nodesMap[p][name])

ListenerConnects(c) ==
    LET p == wire[c].to
        name == doing[Listener(c)].name
    IN  /\ At(Listener(c), "connect")
        /\ ~Searching(p)
        /\ CanReach(p, name)
        /\ Dial(Listener(c), name, nodesMap[p][name], "introduce")
        /\ UNCHANGED <<nodesMap, transactions, count, sent, collected, alive>>

ListenerCannotConnect(c) ==
    LET p == wire[c].to
        name == doing[Listener(c)].name
    IN  /\ At(Listener(c), "connect")
        /\ ~Searching(p)
        /\ ~CanReach(p, name)
        /\ Becomes(Listener(c), Idle(name))
        /\ UNCHANGED <<maps, wire, count, sent, collected, alive>>

\* DELETE: the node is forgotten and the line passed on under one lock.
HearDelete(c) ==
    LET p == wire[c].to
    IN  /\ Hear(c, "DELETE")
        /\ ~Searching(p)
        /\ Heard(c).name \in Known(p)
        /\ nodesMap' = [nodesMap EXCEPT ![p] = Without(@, Heard(c).name)]
        /\ wire' = PassedOn(c)
        /\ UNCHANGED <<connections, transactions, doing, count, sent, collected, alive>>

\* TRANSACTION: passed on, and then entered.
HearTransaction(c) ==
    LET p == wire[c].to
    IN  /\ Hear(c, "TRANSACTION")
        /\ Heard(c).transaction \notin transactions[p]
        /\ MayBegin
        /\ wire' = PassedOn(c)
        /\ doing' = [doing EXCEPT ![Listener(c)].at = "enter", ![Listener(c)].line = Heard(c)]
        /\ UNCHANGED <<maps, count, sent, collected, alive>>

EnterTransaction(c) ==
    LET l == doing[Listener(c)]
    IN  /\ At(Listener(c), "enter")
        /\ transactions' = [transactions EXCEPT ![wire[c].to] = @ \cup {l.line.transaction}]
        /\ Becomes(Listener(c), Idle(l.name))
        /\ UNCHANGED <<nodesMap, connections, wire, count, sent, collected, alive>>

\* The connection has ended.  What p writes to under the listener's name for the
\* peer is given up, and the node of that name dialled.
Disconnect(c) ==
    LET p == wire[c].to
    IN  /\ At(Listener(c), "idle")
        /\ wire[c].lines = <<>> /\ ~wire[c].open
        /\ MayBegin
        /\ connections' = [connections EXCEPT ![p] = Without(@, doing[Listener(c)].name)]
        /\ Moves(Listener(c), "redial")
        /\ UNCHANGED <<nodesMap, transactions, wire, count, sent, collected, alive>>

\* Nothing is written on the new connection.
Reconnect(c) ==
    LET p == wire[c].to
        name == doing[Listener(c)].name
    IN  /\ At(Listener(c), "redial")
        /\ ~Searching(p)
        /\ CanReach(p, name)
        /\ Dial(Listener(c), name, nodesMap[p][name], "gone")
        /\ UNCHANGED <<nodesMap, transactions, count, sent, collected, alive>>

\* Mutant: the node is said to be gone without a try to dial it.
GiveUpUntried(c) ==
    LET p == wire[c].to
        name == doing[Listener(c)].name
    IN  /\ At(Listener(c), "redial")
        /\ ~Searching(p)
        /\ wire' = Multicast(p, DELETE(name))
        /\ Becomes(Listener(c), Gone)
        /\ UNCHANGED <<maps, count, sent, collected, alive>>

\* The node is said to be gone, but p keeps it in nodesMap.
GiveUp(c) ==
    LET p == wire[c].to
        name == doing[Listener(c)].name
    IN  /\ At(Listener(c), "redial")
        /\ ~Searching(p)
        /\ ~CanReach(p, name)
        /\ wire' = Multicast(p, DELETE(name))
        /\ Becomes(Listener(c), Gone)
        /\ UNCHANGED <<maps, count, sent, collected, alive>>

ListenerStep(c) ==
    \/ Ignore(c) \/ HearIntroduce(c) \/ LearnNode(Listener(c)) \/ Gossip(c)
    \/ ListenerConnects(c) \/ ListenerCannotConnect(c)
    \/ Introduce(Listener(c)) \/ SendTransactions(Listener(c))
    \/ HearDelete(c) \/ HearTransaction(c) \/ EnterTransaction(c)
    \/ Disconnect(c) \/ Reconnect(c) \/ GiveUp(c)

------------------------------------------------------------------------------
\* The process of p ends.  Of what it has written, the others get what had come
\* before its connections were reset.
Crash(p) ==
    /\ p \in alive \cap Mortal
    /\ Hasty \/ Quiet
    /\ alive' = alive \ {p}
    /\ \E lost \in SUBSET {c \in DOMAIN wire : wire[c].from = p} :
          wire' = [c \in DOMAIN wire |->
              IF wire[c].to = p \/ c \in lost
              THEN [wire[c] EXCEPT !.open = FALSE, !.lines = <<>>]
              ELSE [wire[c] EXCEPT !.open = @ /\ wire[c].from # p]]
    /\ UNCHANGED <<maps, doing, count, sent, collected>>

\* The garbage collector closes a connection that nothing refers to any more:
\* it was replaced in connections, or given up.
Collect(c) ==
    LET p == wire[c].from
    IN  /\ p \in alive /\ wire[c].open
        /\ collected < MaxCollected
        /\ c \notin Kept(p)
        /\ \A g \in Goroutines : doing[g].at \in {"introduce", "snapshot"} => doing[g].conn # c
        /\ collected' = collected + 1
        /\ wire' = [wire EXCEPT ![c].open = FALSE]
        /\ UNCHANGED <<maps, doing, count, sent, alive>>

Next ==
    \/ \E p, q \in Nodes : ServiceIntroduces(p, q)
    \/ \E p \in Nodes, t \in Transactions : ServiceSends(p, t)
    \/ \E p \in Nodes : ClerkStep(p) \/ ManagerStep(p) \/ AcceptorStep(p) \/ Crash(p)
    \/ \E c \in DOMAIN wire : ListenerStep(c) \/ Collect(c)

Spec == Init /\ [][Next]_vars

\* Of the goroutines of a node that can go on, the manager does, and some other.
FairSpec ==
    /\ Spec
    /\ \A p \in Nodes :
          /\ WF_vars(ManagerStep(p))
          /\ WF_vars(\/ ClerkStep(p) \/ AcceptorStep(p)
                     \/ \E c \in DOMAIN wire : wire[c].to = p /\ ListenerStep(c))

------------------------------------------------------------------------------
(* Properties                                                              *)

\* What a node knows has the address of a node or of the service; what it keeps
\* to write to is a connection that it dialled itself, and a goroutine between
\* its dial and its last line has one of these or one that was replaced.
TypeOK ==
    /\ \A p \in Nodes :
          /\ \A n \in Known(p) : n \in Nodes /\ nodesMap[p][n] \in {n, Service}
          /\ \A n \in Connected(p) : n \in Names /\ wire[connections[p][n]].from = p
          /\ transactions[p] \subseteq Transactions
    /\ \A c \in DOMAIN wire : wire[c].from \in Nodes /\ wire[c].to \in Addresses
    /\ \A g \in Goroutines :
          doing[g].at \in {"introduce", "snapshot"} => wire[doing[g].conn].from = Owner(g)

\* A node that runs is never said to be gone: whoever announces a DELETE has just
\* failed to dial the node, whatever connection to it was closed or replaced.
LiveNotDeleted ==
    \A c \in DOMAIN wire : \A i \in DOMAIN wire[c].lines :
        wire[c].lines[i].type = "DELETE" => wire[c].lines[i].name \notin alive

\* When all is quiet, a node has told its transactions to every peer that listens
\* on a connection it keeps: what it had before it dialled comes with the
\* introduction, and what comes later is multicast, with none in between.
TransactionsReach ==
    Quiet => \A p \in alive : \A c \in Kept(p) :
        /\ wire[c].open /\ wire[c].to \in alive
        /\ doing[Listener(c)].at = "idle"
        => transactions[p] \subseteq transactions[wire[c].to]

\* Introductions on their way to a listener, or to the acceptor.
Introducing ==
    \E c \in Unread : \E i \in DOMAIN wire[c].lines : wire[c].lines[i].type = "INTRODUCE"

\* A node with fewer connections than the root of the nodes it knows, one of which
\* it could dial and is not connected to.
Lonely(p) ==
    /\ p \in alive
    /\ Cardinality(Known(p)) > 2
    /\ Cardinality(Connected(p)) * Cardinality(Connected(p)) < Cardinality(Known(p))
    /\ \E n \in Known(p) \ Connected(p) : Reachable(nodesMap[p][n])

\* The network settles: the gossip about a node that joins or leaves ends, though
\* everything is passed on in circles, and in the end every node has as many
\* connections as manageConnections wants.
NetworkSettles == <>[](~Introducing /\ \A p \in Nodes : ~Lonely(p))

\* The gossip ends, whatever nodes leave.
GossipEnds == <>[]~Introducing

\* Every connection on which something was written is accepted in the end, as
\* the comment of listenOnPort has it.
ConnectionsAccepted ==
    <>[](\A c \in DOMAIN wire :
            wire[c].to \in alive /\ wire[c].lines # <<>>
                => doing[Listener(c)].at # "backlog")

\* A connection is refused only if there is another between the two nodes, as the
\* comment of listenOnPort has it.
RefusedIsSecond ==
    [][\A c \in DOMAIN wire :
          doing[Listener(c)].at = "backlog" /\ wire[c].open /\ ~wire'[c].open
          /\ wire[c].from \in alive /\ wire[c].to \in alive'
              => \E d \in DOMAIN wire :
                    d # c /\ {wire[d].from, wire[d].to} = {wire[c].from, wire[c].to}]_vars

\* A node knows every other by the address at which that node listens.
AddressesRight ==
    \A p \in alive : \A n \in Known(p) : n # p => nodesMap[p][n] = n

==============================================================================
