------------------------------- MODULE GroupChat -------------------------------
(***************************************************************************)
(* The group chat (GroupChat/mp1.go), from scratch or from the moment      *)
(* every pair of nodes is connected.  A node writes on the connections it  *)
(* dialled and reads those it accepted; the first line on each is a name.  *)
(* Its main loop multicasts what the user types; one goroutine per peer    *)
(* (readerThread) multicasts a line it has not seen, and then prints it.   *)
(* The readers of a node exclude each other by mutex; the main loop does   *)
(* not take the mutex.                                                     *)
(*                                                                         *)
(* A line is its author, its number, whether its text has a formatting     *)
(* verb, and how often the formatting has changed it.                      *)
(***************************************************************************)
EXTENDS Naturals, Sequences, FiniteSets, SequencesExt

CONSTANTS Nodes,
          Connected,    \* whether it begins when all nodes are connected
          Typists,      \* the nodes whose users type
          Verbs,        \* whether texts have verbs, a subset of BOOLEAN
          Races,        \* what unlocked accesses to set may do: see Racing
          MaxMessages,  \* bound: messages a user types
          MaxHops,      \* bound: times a text is changed
          MaxChunk,     \* bound: lines that one read of a socket returns
          Capacity,     \* bound: lines a connection holds
          MaxCrashes    \* bound: nodes that stop

ASSUME ChatAssumption ==
    /\ IsFiniteSet(Nodes)
    /\ Typists \subseteq Nodes
    /\ Connected \in BOOLEAN
    /\ Verbs \subseteq BOOLEAN
    /\ Races \subseteq {"ends", "loses"}
    /\ MaxMessages \in Nat /\ MaxHops \in Nat /\ MaxCrashes \in Nat
    /\ MaxChunk \in Nat \ {0} /\ Capacity \in Nat \ {0}

Lines == [author : Nodes, number : 0..MaxMessages, verb : BOOLEAN, form : 0..MaxHops]
\* What a node sends first, its name, has number 0.
Name(p) == [author |-> p, number |-> 0, verb |-> FALSE, form |-> 0]
NoLine == [author |-> "none"]

VARIABLES
    connections,  \* connections[p]: the peers in the order p dialled them
    channel,      \* channel[p][q]: lines on their way from p to q
    set,          \* set[p]: the lines p knows
    main,         \* what the main loop of p is doing
    reader,       \* reader[p][q]: what the goroutine of p for q is doing
    printed,      \* printed[p]: the lines shown to the user, in order
    alive,        \* the processes that run
    past          \* history: the messages each message was typed after

vars == <<connections, channel, set, main, reader, printed, alive, past>>

\* A goroutine is at a place, with a line and the peers yet to be written to.
Doing(place, line, to) == [at |-> place, line |-> line, to |-> to]
Goroutines(places) == [at : places, line : Lines \cup {NoLine}, to : Seq(Nodes)]
MainPlaces == {"off", "dial", "collect", "input", "insert", "send"}
ReaderPlaces == {"listening", "named", "reading", "lock", "check", "relay", "left"}

Init ==
    /\ connections \in
          {f \in [Nodes -> UNION {SetToSeqs(Nodes \ {p}) : p \in Nodes} \cup {<<>>}] :
              \A p \in Nodes : f[p] \in IF Connected THEN SetToSeqs(Nodes \ {p}) ELSE {<<>>}}
    /\ channel = [p \in Nodes |-> [q \in Nodes |-> <<>>]]
    /\ set = [p \in Nodes |-> {}]
    /\ main = [p \in Nodes |-> Doing(IF Connected THEN "input" ELSE "off", NoLine, <<>>)]
    /\ reader = [p \in Nodes |-> [q \in Nodes |->
                    Doing(IF Connected THEN "reading" ELSE "listening", NoLine, <<>>)]]
    /\ printed = [p \in Nodes |-> <<>>]
    /\ alive = Nodes
    /\ past = [p \in Nodes |-> <<>>]

------------------------------------------------------------------------------
Message(line) == <<line.author, line.number>>
Shown(p) == [i \in DOMAIN printed[p] |-> Message(printed[p][i])]
Typed(p) == {<<p, n>> : n \in DOMAIN past[p]}

\* fmt.Fprintf takes the line itself for its format.
Formatted(line) ==
    IF line.verb /\ line.form < MaxHops THEN [line EXCEPT !.form = @ + 1] ELSE line

\* One write of a multicast.  An error, when the peer is gone, is ignored.
Write(p, q, line) ==
    /\ Len(channel[p][q]) < Capacity
    /\ channel' = IF q \in alive
                  THEN [channel EXCEPT ![p][q] = Append(@, Formatted(line))]
                  ELSE channel

At(p, q, place) == p \in alive /\ p # q /\ reader[p][q].at = place

------------------------------------------------------------------------------
(* The start of p                                                          *)

\* The user starts the program, which listens before it dials.
Start(p) ==
    /\ p \in alive
    /\ main[p].at = "off"
    /\ main' = [main EXCEPT ![p].at = "dial"]
    /\ UNCHANGED <<connections, channel, set, reader, printed, alive, past>>

ToDial(p) == (Nodes \ {p}) \ ToSet(connections[p])
Answers(q) == q \in alive /\ main[q].at # "off"

\* Mutant: a node that does not answer yet is counted as connected.
DialOnce(p) ==
    /\ p \in alive
    /\ main[p].at = "dial"
    /\ \E q \in ToDial(p) :
          /\ connections' = [connections EXCEPT ![p] = Append(@, q)]
          /\ channel' = [channel EXCEPT ![p][q] = IF Answers(q) THEN <<Name(p)>> ELSE @]
          /\ main' = [main EXCEPT ![p].at = IF ToDial(p) = {q} THEN "collect" ELSE @]
    /\ UNCHANGED <<set, reader, printed, alive, past>>

\* The others are dialled round and round until each has answered, and is told
\* the name of p.
Dial(p) ==
    /\ p \in alive
    /\ main[p].at = "dial"
    /\ \E q \in ToDial(p) :
          /\ Answers(q)
          /\ connections' = [connections EXCEPT ![p] = Append(@, q)]
          /\ Write(p, q, Name(p))
          /\ main' = [main EXCEPT ![p].at = IF ToDial(p) = {q} THEN "collect" ELSE @]
    /\ UNCHANGED <<set, reader, printed, alive, past>>

\* The goroutine that accepts the connection from q (listen) reads the name, and
\* what its bufio.Reader takes with it is lost.  It goes on if there is none.
HearName(p, q) ==
    /\ At(p, q, "listening")
    /\ Answers(p) /\ p \in ToSet(connections[q])
    /\ \/ \E n \in 1..Len(channel[q][p]) :
             /\ n <= MaxChunk
             /\ channel' = [channel EXCEPT ![q][p] = SubSeq(@, n + 1, Len(@))]
       \/ q \notin alive /\ channel[q][p] = <<>> /\ UNCHANGED channel
    /\ reader' = [reader EXCEPT ![p][q].at = "named"]
    /\ UNCHANGED <<connections, set, main, printed, alive, past>>

\* When all names have come, the readers are spawned and input is taken.
SpawnReaders(p) ==
    /\ p \in alive
    /\ main[p].at = "collect"
    /\ \A q \in Nodes \ {p} : reader[p][q].at = "named"
    /\ main' = [main EXCEPT ![p].at = "input"]
    /\ reader' = [reader EXCEPT ![p] = [q \in Nodes |-> Doing("reading", NoLine, <<>>)]]
    /\ UNCHANGED <<connections, channel, set, printed, alive, past>>

StartStep(p) == Dial(p) \/ SpawnReaders(p) \/ \E q \in Nodes : HearName(p, q)

------------------------------------------------------------------------------
(* The main loop of p                                                      *)

\* The user types a line, having seen what is printed.
Type(p) ==
    /\ p \in alive \cap Typists
    /\ main[p].at = "input"
    /\ Len(past[p]) < MaxMessages
    /\ \E verb \in Verbs :
          main' = [main EXCEPT ![p] = Doing("insert",
              [author |-> p, number |-> Len(past[p]) + 1, verb |-> verb, form |-> 0],
              connections[p])]
    /\ past' = [past EXCEPT ![p] = Append(@, ToSet(Shown(p)) \cup Typed(p))]
    /\ UNCHANGED <<connections, channel, set, reader, printed, alive>>

\* The main loop writes the map set without the mutex, while a reader of the
\* same node reads and writes it.
Racing(p) ==
    /\ main[p].at = "insert"
    /\ \E q \in Nodes : reader[p][q].at = "check"

\* If the runtime does not notice, one of two racing insertions may be lost.
Insert(p) ==
    /\ p \in alive
    /\ main[p].at = "insert"
    /\ \/ set' = [set EXCEPT ![p] = @ \cup {main[p].line}]
       \/ "loses" \in Races /\ Racing(p) /\ UNCHANGED set
    /\ main' = [main EXCEPT ![p].at = "send"]
    /\ UNCHANGED <<connections, channel, reader, printed, alive, past>>

\* After its last write it waits for input again.
Send(p) ==
    /\ p \in alive
    /\ main[p].at = "send"
    /\ Write(p, Head(main[p].to), main[p].line)
    /\ main' = [main EXCEPT ![p] = IF Len(@.to) > 1
                                   THEN Doing("send", @.line, Tail(@.to))
                                   ELSE Doing("input", NoLine, <<>>)]
    /\ UNCHANGED <<connections, set, reader, printed, alive, past>>

MainStep(p) == Insert(p) \/ Send(p)

------------------------------------------------------------------------------
(* readerThread of p for its peer q                                        *)

\* Each line is read through a new bufio.Reader, whose one read of the socket
\* may take more lines that have come: all but the first are lost with it.
Read(p, q) ==
    /\ At(p, q, "reading")
    /\ channel[q][p] # <<>>
    /\ \E n \in 1..Len(channel[q][p]) :
          /\ n <= MaxChunk
          /\ channel' = [channel EXCEPT ![q][p] = SubSeq(@, n + 1, Len(@))]
    /\ reader' = [reader EXCEPT ![p][q] = Doing("lock", Head(channel[q][p]), <<>>)]
    /\ UNCHANGED <<connections, set, main, printed, alive, past>>

Lock(p, q) ==
    /\ At(p, q, "lock")
    /\ \A r \in Nodes : reader[p][r].at \notin {"check", "relay"}
    /\ reader' = [reader EXCEPT ![p][q].at = "check"]
    /\ UNCHANGED <<connections, channel, set, main, printed, alive, past>>

\* Mutant: the goroutine never leaves the section that the mutex guards.
CheckKnownHolding(p, q) ==
    /\ At(p, q, "check")
    /\ reader[p][q].line \in set[p]
    /\ UNCHANGED vars

\* A line that is known is dropped and the mutex released.
CheckKnown(p, q) ==
    /\ At(p, q, "check")
    /\ reader[p][q].line \in set[p]
    /\ reader' = [reader EXCEPT ![p][q] = Doing("reading", NoLine, <<>>)]
    /\ UNCHANGED <<connections, channel, set, main, printed, alive, past>>

\* Mutants: a new line is not relayed; it is not entered in set.
CheckNewSilent(p, q) ==
    /\ At(p, q, "check")
    /\ reader[p][q].line \notin set[p]
    /\ set' = [set EXCEPT ![p] = @ \cup {reader[p][q].line}]
    /\ reader' = [reader EXCEPT ![p][q] = Doing("relay", @.line, <<>>)]
    /\ UNCHANGED <<connections, channel, main, printed, alive, past>>

CheckNewForgotten(p, q) ==
    /\ At(p, q, "check")
    /\ reader[p][q].line \notin set[p]
    /\ reader' = [reader EXCEPT ![p][q] = Doing("relay", @.line, connections[p])]
    /\ UNCHANGED <<connections, channel, set, main, printed, alive, past>>

\* multicast enters the line in set a second time, which changes nothing.
CheckNew(p, q) ==
    /\ At(p, q, "check")
    /\ reader[p][q].line \notin set[p]
    /\ \/ set' = [set EXCEPT ![p] = @ \cup {reader[p][q].line}]
       \/ "loses" \in Races /\ Racing(p) /\ UNCHANGED set
    /\ reader' = [reader EXCEPT ![p][q] = Doing("relay", @.line, connections[p])]
    /\ UNCHANGED <<connections, channel, main, printed, alive, past>>

\* The line goes to every peer, the one it came from too, under the mutex.
Relay(p, q) ==
    /\ At(p, q, "relay")
    /\ reader[p][q].to # <<>>
    /\ Write(p, Head(reader[p][q].to), reader[p][q].line)
    /\ reader' = [reader EXCEPT ![p][q].to = Tail(@)]
    /\ UNCHANGED <<connections, set, main, printed, alive, past>>

\* Mutant: the goroutine still has the line when it reads the next.
DeliverKeepingLine(p, q) ==
    /\ At(p, q, "relay")
    /\ reader[p][q].to = <<>>
    /\ printed' = [printed EXCEPT ![p] = Append(@, reader[p][q].line)]
    /\ reader' = [reader EXCEPT ![p][q].at = "reading"]
    /\ UNCHANGED <<connections, channel, set, main, alive, past>>

\* It is printed once it is relayed, and the mutex released.
Deliver(p, q) ==
    /\ At(p, q, "relay")
    /\ reader[p][q].to = <<>>
    /\ printed' = [printed EXCEPT ![p] = Append(@, reader[p][q].line)]
    /\ reader' = [reader EXCEPT ![p][q] = Doing("reading", NoLine, <<>>)]
    /\ UNCHANGED <<connections, channel, set, main, alive, past>>

\* The connection has ended: "has left" is printed.  The goroutine then blocks
\* for good on a channel that nobody reads.
Leave(p, q) ==
    /\ At(p, q, "reading")
    /\ q \notin alive
    /\ channel[q][p] = <<>>
    /\ reader' = [reader EXCEPT ![p][q] = Doing("left", NoLine, <<>>)]
    /\ UNCHANGED <<connections, channel, set, main, printed, alive, past>>

ReaderStep(p, q) ==
    \/ Read(p, q) \/ Lock(p, q) \/ CheckKnown(p, q) \/ CheckNew(p, q)
    \/ Relay(p, q) \/ Deliver(p, q) \/ Leave(p, q)

------------------------------------------------------------------------------
\* The process of p ends.  Of what it has written, its peers get what had come
\* before the connection was reset.
Stop(p) ==
    /\ p \in alive
    /\ alive' = alive \ {p}
    /\ \E kept \in [Nodes -> 0..Capacity] :
          /\ \A q \in Nodes : kept[q] <= Len(channel[p][q])
          /\ channel' = [channel EXCEPT ![p] =
                           [q \in Nodes |-> SubSeq(@[q], 1, kept[q])]]
    /\ UNCHANGED <<connections, set, main, reader, printed, past>>

Crash(p) ==
    /\ Cardinality(Nodes \ alive) < MaxCrashes
    /\ Stop(p)

\* The runtime notices the race on set and ends the process.
RaceFault(p) ==
    /\ "ends" \in Races
    /\ Racing(p)
    /\ Stop(p)

Next ==
    \E p \in Nodes :
        \/ Start(p) \/ StartStep(p)
        \/ Type(p) \/ MainStep(p) \/ Crash(p) \/ RaceFault(p)
        \/ \E q \in Nodes : ReaderStep(p, q)

Spec == Init /\ [][Next]_vars

\* Goroutines that can go on do, and a blocked one gets the mutex in the end.
\* Nothing is assumed of the users, nor that a process stops.
FairSpec ==
    /\ Spec
    /\ \A p \in Nodes : WF_vars(StartStep(p)) /\ WF_vars(MainStep(p))
    /\ \A p, q \in Nodes : WF_vars(ReaderStep(p, q))

------------------------------------------------------------------------------
(* Properties                                                              *)

\* The goroutines and connections hold what the code can put there: a reader
\* at work has a line, and only a goroutine at a multicast has peers to write.
TypeOK ==
    /\ connections \in [Nodes -> Seq(Nodes)]
    /\ channel \in [Nodes -> [Nodes -> Seq(Lines)]]
    /\ set \in [Nodes -> SUBSET Lines]
    /\ main \in [Nodes -> Goroutines(MainPlaces)]
    /\ reader \in [Nodes -> [Nodes -> Goroutines(ReaderPlaces)]]
    /\ printed \in [Nodes -> Seq(Lines)]
    /\ alive \subseteq Nodes
    /\ past \in [Nodes -> Seq(SUBSET (Nodes \X (0..MaxMessages)))]
    /\ \A p \in Nodes : Len(past[p]) <= MaxMessages
    /\ \A p \in Nodes : main[p].line = NoLine <=> main[p].at \notin {"insert", "send"}
    /\ \A p, q \in Nodes :
          /\ reader[p][q].line # NoLine <=> reader[p][q].at \in {"lock", "check", "relay"}
          /\ reader[p][q].to # <<>> => reader[p][q].at = "relay"

\* A user is shown each message once, and none of his own.
ShownOnce ==
    \A p \in Nodes :
        /\ \A i, j \in DOMAIN Shown(p) : Shown(p)[i] = Shown(p)[j] => i = j
        /\ \A i \in DOMAIN Shown(p) : Shown(p)[i][1] # p

\* Agreement, as an invariant: what a running node has printed, every other
\* running node knows, or is reading, or has on its way from this one.
PrintedIsRelayed ==
    \A p, q \in alive : \A i \in DOMAIN printed[p] :
        LET line == printed[p][i]
        IN  p # q => \/ line \in set[q]
                     \/ line = reader[q][p].line
                     \/ line \in ToSet(channel[p][q])

\* Causal order: a message is shown after every message of other users that
\* its author had typed or seen when he typed it.
CausalOrder ==
    \A p \in Nodes : \A i \in DOMAIN Shown(p) :
        LET m == Shown(p)[i]
        IN  \A cause \in past[m[1]][m[2]] :
                cause[1] # p => \E j \in 1..(i - 1) : Shown(p)[j] = cause

\* Each user sees the messages of another in the order they were typed, from
\* the first one on, each once, as FifoBroadcast says.
Fifo == INSTANCE FifoBroadcast WITH
            said <- [p \in Nodes |-> Len(past[p])],
            shown <- [p \in Nodes |-> Shown(p)]
ImplementsFifoBroadcast == Fifo!Spec

\* Reliable delivery: the users of all nodes that run are in the end shown the
\* same messages, their own aside, those of a node that stopped included.
Agreement ==
    <>[](\A p, q \in alive :
            ToSet(Shown(p)) \cup Typed(p) = ToSet(Shown(q)) \cup Typed(q))

\* Failure detection: the user of every node that runs is in the end told of
\* every node that has stopped.
FailureDetected ==
    <>[](\A p \in alive, q \in Nodes \ alive : reader[p][q].at = "left")

\* A multicast under the mutex ends, and the mutex is released.
RelaysEnd ==
    \A p, q \in Nodes :
        reader[p][q].at = "relay" ~> reader[p][q].at # "relay" \/ p \notin alive

\* Start-up ends: once every user has started the program, each of them can type,
\* unless a process has stopped by then.
StartUp ==
    (\A p \in Nodes : main[p].at # "off") ~>
        (alive # Nodes \/ \A p \in Nodes : main[p].at \in {"input", "insert", "send"})
==============================================================================
