------------------------- MODULE TransactionLockProofs -------------------------
(***************************************************************************)
(* The locks of the distributed transaction system: no client that has     *)
(* ended its transaction keeps one, and no client waits for such a client. *)
(***************************************************************************)
EXTENDS TransactionWriteProofs

------------------------------------------------------------------------------
(* What users type                                                         *)

\* The user may give up the GET at n of t while its result does not come.
GivenUp(t, n) ==
    t[n].op = "GET" /\ \E i \in DOMAIN t : n < i /\ t[i].op = "ABORT"

\* A transaction is open when what is at i of t is taken.
Inside(t, i) ==
    \E j \in DOMAIN t :
        /\ j < i /\ t[j].op = "BEGIN"
        /\ \A n \in DOMAIN t :
              j < n /\ n < i => t[n].op \notin {"COMMIT", "ABORT"} /\ ~GivenUp(t, n)

\* Users type SET in a transaction only.  The client does not see to it.
SetsInside ==
    \A t \in Scripts : \A i \in DOMAIN t : t[i].op = "SET" => Inside(t, i)

Opened == \A c \in Clients : Inside(script[c], taken[c] + 1) => inTransaction[c]

------------------------------------------------------------------------------
(* Queues                                                                  *)

\* Something of E is in the queue q after i.
After(q, i, E) == \E j \in DOMAIN q : i < j /\ q[j] \in E

\* What is of L in q has something of E after it.
Guarded(q, L, E) == \A i \in DOMAIN q : q[i] \in L => After(q, i, E)

\* What is of S in q after i has something of E before it, after i.
Fenced(q, i, S, E) ==
    \A j \in DOMAIN q : i < j /\ q[j] \in S =>
        \E n \in DOMAIN q : i < n /\ n < j /\ q[n] \in E

\* Between what is of G and what is of S after it there is something of E.
Apart(q, G, S, E) == \A i \in DOMAIN q : q[i] \in G => Fenced(q, i, S, E)

------------------------------------------------------------------------------
(* Whoever asks for a lock ends the transaction                            *)

Asks == {m \in Srv!Messages : m.op \in {"SET", "GET"}}
Ends == {m \in Srv!Messages : m.op \in {"COMMIT", "ABORT"}}
AsksOf(c) == {m \in Coord!LockCommands : m.client = c}
EndsOf(c) == {m \in Coord!EndCommands : m.client = c}

Waiting(s, c) == place[s][c] \in {"await", "sleep"}
HoldsAt(s, c) == \E k \in Keys : keyHolder[<<s, k>>] = c \/ c \in readHolder[<<s, k>>]

\* The end of the transaction of c is still to come to server s, or from there
\* to the coordinator.
Coming(s, c) == inTransaction[c] \/ After(fromClient[c][s], 0, Ends)
Ending(s, c) == Coming(s, c) \/ After(requests[s], 0, EndsOf(c))

\* Whatever asks for a lock has the end of its transaction behind it, on every leg of
\* the way; and so does who got it.
EndFollows(s, c) ==
    /\ inTransaction[c] \/ Guarded(fromClient[c][s], Asks, Ends)
    /\ Waiting(s, c) => Coming(s, c)
    /\ Coming(s, c) \/ Guarded(requests[s], AsksOf(c), EndsOf(c))
    /\ pc[s] # "idle" /\ cmd[s].client = c => Ending(s, c)
    /\ HoldsAt(s, c) => Ending(s, c)

LockInv == Opened /\ \A s \in Servers, c \in Clients : EndFollows(s, c)

------------------------------------------------------------------------------
(* No transaction writes an object it has read                             *)

\* Users do not type a SET of an object in a transaction that has a GET of it.
NoUpgrades ==
    \A t \in Scripts : \A i, j \in DOMAIN t :
        /\ i < j /\ t[i].op = "GET" /\ t[j].op = "SET"
        /\ t[i].server = t[j].server /\ t[i].key = t[j].key
        => \E n \in DOMAIN t : i < n /\ n < j /\ t[n].op \in {"COMMIT", "ABORT"}

Gets(k) == {m \in Asks : m.op = "GET" /\ m.key = k}
Sets(k) == {m \in Asks : m.op = "SET" /\ m.key = k}
GetsOf(c, k) == {m \in AsksOf(c) : m.op = "GET" /\ m.key = k}
SetsOf(c, k) == {m \in AsksOf(c) : m.op = "SET" /\ m.key = k}

\* c has read k of s, as far as the coordinator knows; as it will know when it has
\* handled its requests; as far as s knows; as s will know when it has handled what
\* is on its way there.
Read0(s, c, k) ==
    \/ c \in readHolder[<<s, k>>]
    \/ pc[s] # "idle" /\ cmd[s] \in GetsOf(c, k)
Read1(s, c, k) ==
    \/ Read0(s, c, k) /\ ~After(requests[s], 0, EndsOf(c))
    \/ ~Guarded(requests[s], GetsOf(c, k), EndsOf(c))
Read2(s, c, k) ==
    \/ Read1(s, c, k)
    \/ Waiting(s, c) /\ curr[s][c] \in Gets(k)
Read3(s, c, k) ==
    \/ Read2(s, c, k) /\ ~After(fromClient[c][s], 0, Ends)
    \/ ~Guarded(fromClient[c][s], Gets(k), Ends)

\* What c has not taken yet of its writes of k of s comes after the end of its
\* transaction.
TypedApart(s, c, k) ==
    \A j \in DOMAIN script[c] :
        /\ taken[c] < j /\ script[c][j].op = "SET"
        /\ script[c][j].server = s /\ script[c][j].key = k
        => \E n \in DOMAIN script[c] :
              taken[c] < n /\ n < j /\ script[c][n].op \in {"COMMIT", "ABORT"}

\* What c has not yet been answered, sent or taken of its writes of k of s comes after
\* the end of a transaction that has read it.
WriteApart(s, c, k) ==
    /\ pc[s] # "idle" /\ cmd[s] \in SetsOf(c, k) => c \notin readHolder[<<s, k>>]
    /\ Read0(s, c, k) => Fenced(requests[s], 0, SetsOf(c, k), EndsOf(c))
    /\ Apart(requests[s], GetsOf(c, k), SetsOf(c, k), EndsOf(c))
    /\ Waiting(s, c) /\ curr[s][c] \in Sets(k) => ~Read1(s, c, k)
    /\ Read2(s, c, k) => Fenced(fromClient[c][s], 0, Sets(k), Ends)
    /\ Apart(fromClient[c][s], Gets(k), Sets(k), Ends)
    /\ c \notin crashed /\ Read3(s, c, k) => TypedApart(s, c, k)

UpgradeInv ==
    /\ \A s \in Servers : pc[s] = "marking" => cmd[s].op = "GET"
    /\ \A s \in Servers, c \in Clients, k \in Keys : WriteApart(s, c, k)

\* Those in the way of a refused command have yet to end their transactions, and the
\* client is not one of them.
Refused(s) ==
    pc[s] \in {"hold", "register"} =>
        /\ blockers[s] # {}
        /\ \A d \in blockers[s] : d # cmd[s].client /\ Ending(s, d)

\* A client on hold is in the list of another client that has yet to end its
\* transaction, or is about to be.
HeldBy(c, s, d) ==
    /\ c # d /\ Ending(s, d)
    /\ \/ c \in holderDependant[d]
       \/ pc[s] = "register" /\ cmd[s].client = c /\ d \in blockers[s]

HoldInv ==
    /\ NoSelfWait
    /\ \A s \in Servers : Refused(s)
    /\ \A c \in holds : \E s \in Servers, d \in Clients : HeldBy(c, s, d)

------------------------------------------------------------------------------
(* Queues that grow and shrink                                             *)

LEMMA AfterAppended ==
    ASSUME NEW M, NEW q \in Seq(M), NEW m \in M, NEW i \in Nat, NEW E
    PROVE  /\ After(q, i, E) => After(Append(q, m), i, E)
           /\ i <= Len(q) /\ m \in E => After(Append(q, m), i, E)
<1> DEFINE p == Append(q, m)
<1>1. /\ Len(q) \in Nat /\ DOMAIN q = 1..Len(q) /\ DOMAIN p = 1..(Len(q) + 1)
      /\ \A n \in 1..Len(q) : p[n] = q[n]
      /\ p[Len(q) + 1] = m
  BY Appended
<1> HIDE DEF p
<1>2. ASSUME After(q, i, E)
      PROVE  After(p, i, E)
  <2>1. PICK j \in DOMAIN q : i < j /\ q[j] \in E
    BY <1>2 DEF After
  <2>2. j \in DOMAIN p /\ p[j] = q[j]
    BY <1>1
  <2> QED BY <2>1, <2>2 DEF After
<1>3. ASSUME i <= Len(q), m \in E
      PROVE  After(p, i, E)
  <2>1. Len(q) + 1 \in DOMAIN p /\ i < Len(q) + 1 /\ p[Len(q) + 1] \in E
    BY <1>1, <1>3
  <2> QED BY <2>1 DEF After
<1> QED BY <1>2, <1>3 DEF p

LEMMA AfterRested ==
    ASSUME NEW M, NEW q \in Seq(M), q # <<>>, NEW i \in Nat, NEW E
    PROVE  /\ After(q, i + 1, E) <=> After(Tail(q), i, E)
           /\ After(q, 0, E) <=> Head(q) \in E \/ After(Tail(q), 0, E)
<1> DEFINE p == Tail(q)
<1>1. /\ Len(q) \in Nat /\ Len(q) >= 1 /\ DOMAIN q = 1..Len(q) /\ Head(q) = q[1]
      /\ DOMAIN p = 1..(Len(q) - 1)
      /\ \A n \in 1..(Len(q) - 1) : p[n] = q[n + 1]
  BY Rested
<1> HIDE DEF p
<1>2. ASSUME NEW k \in Nat, After(q, k + 1, E)
      PROVE  After(p, k, E)
  <2>1. PICK j \in DOMAIN q : k + 1 < j /\ q[j] \in E
    BY <1>2 DEF After
  <2>2. j \in 1..Len(q) /\ j > 1
    BY <1>1, <2>1
  <2>3. j - 1 \in 1..(Len(q) - 1) /\ (j - 1) + 1 = j
    BY <1>1, <2>2
  <2>4. j - 1 \in DOMAIN p /\ k < j - 1 /\ p[j - 1] = q[j]
    BY <1>1, <2>1, <2>2, <2>3
  <2> QED BY <2>1, <2>4 DEF After
<1>3. ASSUME NEW k \in Nat, After(p, k, E)
      PROVE  After(q, k + 1, E)
  <2>1. PICK j \in DOMAIN p : k < j /\ p[j] \in E
    BY <1>3 DEF After
  <2>2. j + 1 \in DOMAIN q /\ k + 1 < j + 1 /\ q[j + 1] = p[j]
    BY <1>1, <2>1
  <2> QED BY <2>1, <2>2 DEF After
<1>4. After(q, 0, E) <=> Head(q) \in E \/ After(q, 0 + 1, E)
  <2>1. ASSUME After(q, 0, E), Head(q) \notin E
        PROVE  After(q, 0 + 1, E)
    <3>1. PICK j \in DOMAIN q : 0 < j /\ q[j] \in E
      BY <2>1 DEF After
    <3>2. 0 + 1 < j
      BY <1>1, <2>1, <3>1
    <3> QED BY <3>1, <3>2 DEF After
  <2>2. ASSUME Head(q) \in E
        PROVE  After(q, 0, E)
    BY <1>1, <2>2 DEF After
  <2>3. ASSUME After(q, 0 + 1, E)
        PROVE  After(q, 0, E)
    <3>1. PICK j \in DOMAIN q : 0 + 1 < j /\ q[j] \in E
      BY <2>3 DEF After
    <3>2. 0 < j
      BY <1>1, <3>1
    <3> QED BY <3>1, <3>2 DEF After
  <2> QED BY <2>1, <2>2, <2>3
<1> QED BY <1>2, <1>3, <1>4 DEF p

LEMMA GuardedAppended ==
    ASSUME NEW M, NEW q \in Seq(M), NEW m \in M, NEW L, NEW E
    PROVE  /\ Guarded(q, L, E) /\ m \notin L => Guarded(Append(q, m), L, E)
           /\ m \in E /\ m \notin L => Guarded(Append(q, m), L, E)
<1> DEFINE p == Append(q, m)
<1>1. /\ Len(q) \in Nat /\ DOMAIN q = 1..Len(q) /\ DOMAIN p = 1..(Len(q) + 1)
      /\ \A n \in 1..Len(q) : p[n] = q[n]
      /\ p[Len(q) + 1] = m
  BY Appended
<1>2. \A i \in 1..Len(q) : i \in Nat /\ i <= Len(q)
  BY <1>1
<1>3. \A i \in 1..Len(q) : (After(q, i, E) \/ m \in E) => After(p, i, E)
  BY <1>2, AfterAppended
<1> HIDE DEF p
<1>4. ASSUME Guarded(q, L, E) \/ m \in E, m \notin L
      PROVE  Guarded(p, L, E)
  <2> SUFFICES ASSUME NEW i \in DOMAIN p, p[i] \in L
               PROVE  After(p, i, E)
    BY DEF Guarded
  <2>1. i \in 1..Len(q) /\ i \in DOMAIN q /\ q[i] \in L
    BY <1>1, <1>4
  <2> QED BY <1>3, <1>4, <2>1 DEF Guarded
<1> QED BY <1>4 DEF p

LEMMA GuardedRested ==
    ASSUME NEW M, NEW q \in Seq(M), q # <<>>, NEW L, NEW E
    PROVE  Guarded(q, L, E) <=> /\ Guarded(Tail(q), L, E)
                                /\ Head(q) \in L => After(Tail(q), 0, E)
<1> DEFINE p == Tail(q)
<1>1. /\ Len(q) \in Nat /\ Len(q) >= 1 /\ DOMAIN q = 1..Len(q) /\ Head(q) = q[1]
      /\ DOMAIN p = 1..(Len(q) - 1)
      /\ \A n \in 1..(Len(q) - 1) : p[n] = q[n + 1]
  BY Rested
<1>2. \A i \in Nat : After(q, i + 1, E) <=> After(p, i, E)
  BY AfterRested
<1> HIDE DEF p
<1>3. ASSUME Guarded(q, L, E)
      PROVE  Guarded(p, L, E)
  <2> SUFFICES ASSUME NEW i \in DOMAIN p, p[i] \in L
               PROVE  After(p, i, E)
    BY DEF Guarded
  <2>1. i \in Nat /\ i + 1 \in DOMAIN q /\ q[i + 1] \in L
    BY <1>1
  <2> QED BY <1>2, <1>3, <2>1 DEF Guarded
<1>4. ASSUME Guarded(q, L, E), Head(q) \in L
      PROVE  After(p, 0, E)
  <2>1. 0 + 1 \in DOMAIN q /\ q[0 + 1] \in L
    BY <1>1, <1>4
  <2> QED BY <1>2, <1>4, <2>1 DEF Guarded
<1>5. ASSUME Guarded(p, L, E), Head(q) \in L => After(p, 0, E)
      PROVE  Guarded(q, L, E)
  <2> SUFFICES ASSUME NEW i \in DOMAIN q, q[i] \in L
               PROVE  After(q, i, E)
    BY DEF Guarded
  <2>1. CASE i = 1
    <3>1. After(p, 0, E) /\ 0 + 1 = i
      BY <1>1, <1>5, <2>1
    <3> QED BY <1>2, <3>1
  <2>2. CASE i # 1
    <3>1. i - 1 \in DOMAIN p /\ i - 1 \in Nat /\ (i - 1) + 1 = i
      BY <1>1, <2>2
    <3>2. p[i - 1] = q[i]
      BY <1>1, <3>1
    <3> QED BY <1>2, <1>5, <3>1, <3>2 DEF Guarded
  <2> QED BY <2>1, <2>2
<1> QED BY <1>3, <1>4, <1>5 DEF p

LEMMA FencedAppended ==
    ASSUME NEW M, NEW q \in Seq(M), NEW m \in M, NEW i \in Nat, NEW S, NEW E,
           Fenced(q, i, S, E), m \in S => After(q, i, E)
    PROVE  Fenced(Append(q, m), i, S, E)
<1> DEFINE p == Append(q, m)
<1>1. /\ Len(q) \in Nat /\ DOMAIN q = 1..Len(q) /\ DOMAIN p = 1..(Len(q) + 1)
      /\ \A n \in 1..Len(q) : p[n] = q[n]
      /\ p[Len(q) + 1] = m
  BY Appended
<1> HIDE DEF p
<1> SUFFICES ASSUME NEW j \in DOMAIN p, i < j, p[j] \in S
             PROVE  \E n \in DOMAIN p : i < n /\ n < j /\ p[n] \in E
  BY DEF Fenced, p
<1>2. CASE j \in 1..Len(q)
  <2>1. PICK n \in DOMAIN q : i < n /\ n < j /\ q[n] \in E
    BY <1>1, <1>2 DEF Fenced
  <2>2. n \in DOMAIN p /\ p[n] = q[n]
    BY <1>1
  <2> QED BY <2>1, <2>2
<1>3. CASE j = Len(q) + 1
  <2>1. PICK n \in DOMAIN q : i < n /\ q[n] \in E
    BY <1>1, <1>3 DEF After
  <2>2. n \in DOMAIN p /\ p[n] = q[n] /\ n < j
    BY <1>1, <1>3
  <2> QED BY <2>1, <2>2
<1> QED BY <1>1, <1>2, <1>3

LEMMA FencedRested ==
    ASSUME NEW M, NEW q \in Seq(M), q # <<>>, NEW i \in Nat, NEW S, NEW E
    PROVE  /\ Fenced(q, i + 1, S, E) => Fenced(Tail(q), i, S, E)
           /\ Fenced(q, 0, S, E) => Head(q) \notin S
           /\ Fenced(q, 0, S, E) /\ Head(q) \notin E => Fenced(Tail(q), 0, S, E)
<1> DEFINE p == Tail(q)
<1>1. /\ Len(q) \in Nat /\ Len(q) >= 1 /\ DOMAIN q = 1..Len(q) /\ Head(q) = q[1]
      /\ DOMAIN p = 1..(Len(q) - 1)
      /\ \A n \in 1..(Len(q) - 1) : p[n] = q[n + 1]
  BY Rested
<1> HIDE DEF p
<1>2. ASSUME NEW k \in Nat, NEW h \in {k, k + 1}, Fenced(q, h, S, E),
             h = k => k = 0 /\ Head(q) \notin E
      PROVE  Fenced(p, k, S, E)
  <2> SUFFICES ASSUME NEW j \in DOMAIN p, k < j, p[j] \in S
               PROVE  \E n \in DOMAIN p : k < n /\ n < j /\ p[n] \in E
    BY DEF Fenced
  <2>1. j + 1 \in DOMAIN q /\ h < j + 1 /\ q[j + 1] = p[j]
    BY <1>1
  <2>2. PICK n \in DOMAIN q : h < n /\ n < j + 1 /\ q[n] \in E
    BY <1>2, <2>1 DEF Fenced
  <2>3. n > 1
    BY <1>1, <1>2, <2>2
  <2>4. n - 1 \in 1..(Len(q) - 1) /\ (n - 1) + 1 = n
    BY <1>1, <2>2, <2>3
  <2>5. n - 1 \in DOMAIN p /\ k < n - 1 /\ n - 1 < j /\ p[n - 1] = q[n]
    BY <1>1, <1>2, <2>1, <2>2, <2>3, <2>4
  <2> QED BY <2>2, <2>5
<1>3. ASSUME Fenced(q, 0, S, E), Head(q) \in S
      PROVE  FALSE
  <2>1. 1 \in DOMAIN q /\ 0 < 1 /\ q[1] \in S
    BY <1>1, <1>3
  <2>2. PICK n \in DOMAIN q : 0 < n /\ n < 1
    BY <1>3, <2>1 DEF Fenced
  <2> QED BY <1>1, <2>2
<1>4. Fenced(q, i + 1, S, E) => Fenced(p, i, S, E)
  BY <1>2
<1>5. Fenced(q, 0, S, E) /\ Head(q) \notin E => Fenced(p, 0, S, E)
  BY <1>2
<1> QED BY <1>3, <1>4, <1>5 DEF p

LEMMA ApartAppended ==
    ASSUME NEW M, NEW q \in Seq(M), NEW m \in M, NEW G, NEW S, NEW E,
           Apart(q, G, S, E), m \in S => Guarded(q, G, E) /\ m \notin G
    PROVE  Apart(Append(q, m), G, S, E)
<1> DEFINE p == Append(q, m)
<1>1. /\ Len(q) \in Nat /\ DOMAIN q = 1..Len(q) /\ DOMAIN p = 1..(Len(q) + 1)
      /\ \A n \in 1..Len(q) : p[n] = q[n]
      /\ p[Len(q) + 1] = m
  BY Appended
<1>2. ASSUME NEW i \in 1..Len(q), q[i] \in G
      PROVE  Fenced(p, i, S, E)
  <2>1. Fenced(q, i, S, E) /\ (m \in S => After(q, i, E)) /\ i \in Nat
    BY <1>1, <1>2 DEF Apart, Guarded
  <2> QED BY <2>1, FencedAppended
<1> HIDE DEF p
<1>3. Fenced(p, Len(q) + 1, S, E)
  BY <1>1 DEF Fenced
<1>4. Apart(p, G, S, E)
  BY <1>1, <1>2, <1>3 DEF Apart
<1> QED BY <1>4 DEF p

LEMMA ApartRested ==
    ASSUME NEW M, NEW q \in Seq(M), q # <<>>, NEW G, NEW S, NEW E, Apart(q, G, S, E)
    PROVE  /\ Apart(Tail(q), G, S, E)
           /\ Head(q) \in G => Fenced(Tail(q), 0, S, E)
<1> DEFINE p == Tail(q)
<1>1. /\ Len(q) \in Nat /\ Len(q) >= 1 /\ DOMAIN q = 1..Len(q) /\ Head(q) = q[1]
      /\ DOMAIN p = 1..(Len(q) - 1)
      /\ \A n \in 1..(Len(q) - 1) : p[n] = q[n + 1]
  BY Rested
<1>2. \A i \in Nat : Fenced(q, i + 1, S, E) => Fenced(p, i, S, E)
  BY FencedRested
<1> HIDE DEF p
<1>3. ASSUME NEW i \in DOMAIN p, p[i] \in G
      PROVE  Fenced(p, i, S, E)
  <2>1. i \in Nat /\ i + 1 \in DOMAIN q /\ q[i + 1] \in G
    BY <1>1, <1>3
  <2> QED BY <1>2, <2>1 DEF Apart
<1>4. ASSUME Head(q) \in G
      PROVE  Fenced(p, 0, S, E)
  <2>1. 0 + 1 \in DOMAIN q /\ q[0 + 1] \in G
    BY <1>1, <1>4
  <2> QED BY <1>2, <2>1 DEF Apart
<1> QED BY <1>3, <1>4 DEF Apart, p

------------------------------------------------------------------------------
(* What a step of a server does with the commands                          *)

\* A command that asks for a lock, as the server passes it on.
Ask(c, m) == [op |-> m.op, client |-> c, key |-> m.key]

LEMMA Asking ==
    ASSUME NEW c \in Clients, NEW m \in Asks
    PROVE  /\ m \notin Ends /\ m \in Srv!Messages
           /\ Ask(c, m) \in AsksOf(c) /\ Ask(c, m) \in Coord!Commands
           /\ \A k \in Keys : /\ m \in Gets(k) => Ask(c, m) \in GetsOf(c, k)
                              /\ Ask(c, m) \in GetsOf(c, k) => m \in Gets(k)
                              /\ m \in Sets(k) => Ask(c, m) \in SetsOf(c, k)
                              /\ Ask(c, m) \in SetsOf(c, k) => m \in Sets(k)
           /\ \E k \in Keys : m \in Gets(k) \/ m \in Sets(k)
<1>1. m \in Srv!Messages /\ m.op \in {"SET", "GET"} /\ m.key \in Keys
  BY MessageFields DEF Asks
<1>2. Ask(c, m) \in Coord!LockCommands
  BY <1>1 DEF Ask, Coord!LockCommands
<1>3. Ask(c, m).op = m.op /\ Ask(c, m).client = c /\ Ask(c, m).key = m.key
  BY DEF Ask
<1> QED BY <1>1, <1>2, <1>3 DEF Asks, Ends, AsksOf, GetsOf, SetsOf, Gets, Sets, Coord!Commands

\* What asks and what ends are different, and of one client each.
LEMMA CommandsDiffer ==
    ASSUME NEW c \in Clients, NEW d \in Clients
    PROVE  /\ AsksOf(c) \cap EndsOf(d) = {}
           /\ c # d => AsksOf(c) \cap AsksOf(d) = {} /\ EndsOf(c) \cap EndsOf(d) = {}
           /\ AsksOf(c) \subseteq Coord!Commands /\ EndsOf(c) \subseteq Coord!Commands
BY DEF AsksOf, EndsOf, Coord!LockCommands, Coord!EndCommands, Coord!Commands

\* The kinds of steps of the goroutine of s for c.
Starts(s, c) ==
    /\ fromClient[c][s] # <<>> /\ Head(fromClient[c][s]).op = "BEGIN"
    /\ fromClient'[c][s] = Tail(fromClient[c][s])
    /\ requests'[s] = requests[s]
    /\ ~Waiting(s, c)'

PassesAsk(s, c) ==
    /\ fromClient[c][s] # <<>> /\ Head(fromClient[c][s]) \in Asks
    /\ fromClient'[c][s] = Tail(fromClient[c][s])
    /\ requests'[s] = Append(requests[s], Ask(c, Head(fromClient[c][s])))
    /\ curr'[s][c] = Head(fromClient[c][s])

PassesEnd(s, c) ==
    /\ fromClient[c][s] # <<>> /\ Head(fromClient[c][s]) \in Ends
    /\ fromClient'[c][s] = Tail(fromClient[c][s])
    /\ \E x \in EndsOf(c) : requests'[s] = Append(requests[s], x)
    /\ ~Waiting(s, c)'

AsksAgain(s, c) ==
    /\ Waiting(s, c) /\ curr[s][c] \in Asks
    /\ fromClient'[c][s] = fromClient[c][s]
    /\ requests'[s] = Append(requests[s], Ask(c, curr[s][c]))
    /\ curr'[s][c] = curr[s][c]

GoesOn(s, c) ==
    /\ fromClient'[c][s] = fromClient[c][s]
    /\ requests'[s] = requests[s]
    /\ Waiting(s, c)' => Waiting(s, c) /\ curr'[s][c] = curr[s][c]

LEMMA ServerKinds ==
    ASSUME Types, NEW s \in Servers, NEW c \in Clients, Srv!Step(s, c)
    PROVE  \/ Starts(s, c) \/ PassesAsk(s, c) \/ PassesEnd(s, c)
           \/ AsksAgain(s, c) \/ GoesOn(s, c)
<1>1. /\ place \in [Servers -> [Clients -> Srv!Places]]
      /\ curr \in [Servers -> [Clients -> Srv!Messages \cup {NoCommand}]]
      /\ fromClient \in [Clients -> [Servers -> Seq(Srv!Messages)]]
      /\ requests \in [Servers -> Seq(Coord!Commands)]
      /\ TypeOK
  BY TypeParts DEF GoroutinesTyped, ConnectionsTyped, Types
<1> DEFINE q == fromClient[c][s]
           m == Head(q)
           own == curr[s][c]
<1>2. \A op : Srv!Take(s, c, op) =>
         /\ q # <<>> /\ fromClient'[c][s] = Tail(q) /\ m.op = op
         /\ m \in Srv!Messages /\ place[s][c] = "idle"
  BY <1>1, CommandTaken DEF Srv!Take
<1>3. \A to : Srv!Move(s, c, to) => place'[s][c] = to
  BY <1>1 DEF Srv!Move
<1>4. Srv!Finish(s, c) => place'[s][c] = "idle"
  BY <1>3 DEF Srv!Finish
<1>5. \A x \in Asks : Srv!ToCoordinator(s, c, x) => requests'[s] = Append(requests[s], Ask(c, x))
  BY <1>1 DEF Srv!ToCoordinator, Asks, Ask
<1>6. \A x \in Ends : Srv!ToCoordinator(s, c, x) =>
         \E y \in EndsOf(c) : requests'[s] = Append(requests[s], y)
  <2> SUFFICES ASSUME NEW x \in Ends, Srv!ToCoordinator(s, c, x)
               PROVE  \E y \in EndsOf(c) : requests'[s] = Append(requests[s], y)
    OBVIOUS
  <2> DEFINE y == [op |-> x.op, client |-> c]
  <2>1. x.op \in {"COMMIT", "ABORT"}
    BY DEF Ends
  <2>2. requests'[s] = Append(requests[s], y)
    BY <1>1, <2>1 DEF Srv!ToCoordinator
  <2>3. y \in EndsOf(c)
    BY <2>1 DEF EndsOf, Coord!EndCommands
  <2> QED BY <2>2, <2>3
<1> HIDE DEF q, m, own
<1>7. CASE Srv!Begin(s, c)
  <2>1. Srv!Take(s, c, "BEGIN") /\ UNCHANGED <<place, requests>>
    BY <1>7 DEF Srv!Begin
  <2>2. Starts(s, c)
    BY <1>2, <2>1 DEF Starts, Waiting, q, m
  <2> QED BY <2>2
<1>8. CASE Srv!Set(s, c) \/ Srv!Get(s, c)
  <2>1. /\ q # <<>> /\ fromClient'[c][s] = Tail(q) /\ m \in Asks
        /\ Srv!ToCoordinator(s, c, m)
        /\ curr' = [curr EXCEPT ![s][c] = m]
    BY <1>2, <1>8 DEF Srv!Set, Srv!Get, Asks, q, m
  <2>2. curr'[s][c] = m
    BY <1>1, <2>1
  <2>3. PassesAsk(s, c)
    BY <1>5, <2>1, <2>2 DEF PassesAsk, q, m
  <2> QED BY <2>3
<1>9. CASE Srv!Commit(s, c) \/ Srv!Abort(s, c)
  <2>1. /\ q # <<>> /\ fromClient'[c][s] = Tail(q) /\ m \in Ends
        /\ Srv!ToCoordinator(s, c, m)
        /\ place'[s][c] \in {"idle", "applying"}
    BY <1>2, <1>3, <1>9 DEF Srv!Commit, Srv!Abort, Ends, q, m
  <2>2. PassesEnd(s, c)
    BY <1>6, <2>1 DEF PassesEnd, Waiting, q, m
  <2> QED BY <2>2
<1>10. CASE Srv!Resend(s, c)
  <2>1. place[s][c] = "sleep" /\ UNCHANGED <<curr, fromClient>> /\ Srv!ToCoordinator(s, c, own)
    BY <1>10 DEF Srv!Resend, own
  <2>2. own \in Asks
    BY <2>1, TypeParts DEF GoroutinesTyped, ServerTyped, Asks, own
  <2>3. AsksAgain(s, c)
    BY <1>5, <2>1, <2>2 DEF AsksAgain, Waiting, own
  <2> QED BY <2>3
<1>11. CASE \/ Srv!Apply(s, c) \/ Srv!AnswerOwnWrite(s, c) \/ Srv!SetGranted(s, c)
            \/ Srv!AnswerGet(s, c)
  <2>1. place'[s][c] = "idle" /\ UNCHANGED <<fromClient, requests>>
    BY <1>4, <1>11 DEF Srv!Apply, Srv!AnswerOwnWrite, Srv!SetGranted, Srv!AnswerGet
  <2> QED BY <2>1 DEF GoesOn, Waiting
<1>12. CASE Srv!GetGranted(s, c) \/ Srv!Wait(s, c)
  <2>1. place[s][c] = "await" /\ UNCHANGED <<curr, fromClient, requests>>
    BY <1>12 DEF Srv!GetGranted, Srv!Wait
  <2> QED BY <2>1 DEF GoesOn, Waiting
<1> QED BY <1>7, <1>8, <1>9, <1>10, <1>11, <1>12 DEF Srv!Step

\* What others sent, and what other servers passed on, is as it was.
LEMMA ServerLeaves ==
    ASSUME Types, NEW s \in Servers, NEW c \in Clients, Srv!Step(s, c),
           NEW t \in Servers
    PROVE  /\ t # s => requests'[t] = requests[t]
           /\ \A d \in Clients : t # s \/ d # c =>
                 /\ curr'[t][d] = curr[t][d] /\ fromClient'[d][t] = fromClient[d][t]
                 /\ Waiting(t, d)' <=> Waiting(t, d)
<1>1. /\ curr \in [Servers -> [Clients -> Srv!Messages \cup {NoCommand}]]
      /\ requests \in [Servers -> Seq(Coord!Commands)]
  BY TypeParts DEF GoroutinesTyped, ConnectionsTyped
<1>2. \A m : Srv!ToCoordinator(s, c, m) => (t # s => requests'[t] = requests[t])
  BY <1>1 DEF Srv!ToCoordinator
<1>3. t # s => requests'[t] = requests[t]
  BY <1>2 DEF Srv!Step, Srv!Begin, Srv!Set, Srv!Get, Srv!Abort, Srv!Commit, Srv!Apply,
       Srv!AnswerOwnWrite, Srv!SetGranted, Srv!GetGranted, Srv!AnswerGet, Srv!Wait,
       Srv!Resend
<1>4. \/ UNCHANGED curr
      \/ \E m : curr' = [curr EXCEPT ![s][c] = m]
  BY DEF Srv!Step, Srv!Begin, Srv!Set, Srv!Get, Srv!Abort, Srv!Commit, Srv!Apply,
       Srv!AnswerOwnWrite, Srv!SetGranted, Srv!GetGranted, Srv!AnswerGet, Srv!Wait,
       Srv!Resend, Srv!Finish
<1>5. ASSUME NEW d \in Clients, t # s \/ d # c
      PROVE  curr'[t][d] = curr[t][d]
  <2>1. CASE UNCHANGED curr
    BY <2>1
  <2>2. CASE \E m : curr' = [curr EXCEPT ![s][c] = m]
    BY <1>1, <1>5, <2>2
  <2> QED BY <1>4, <2>1, <2>2
<1>6. ASSUME NEW d \in Clients, t # s \/ d # c
      PROVE  fromClient'[d][t] = fromClient[d][t] /\ (Waiting(t, d)' <=> Waiting(t, d))
  BY <1>6, OthersUntouched DEF Waiting
<1> QED BY <1>3, <1>5, <1>6

------------------------------------------------------------------------------
(* Whoever asks for a lock ends the transaction: the servers               *)

\* What a server adds to its requests.
LEMMA Forwards ==
    ASSUME Types, NEW s \in Servers, NEW c \in Clients, Srv!Step(s, c)
    PROVE  \/ requests'[s] = requests[s] /\ (Starts(s, c) \/ GoesOn(s, c))
           \/ \E x \in AsksOf(c) :
                 /\ requests'[s] = Append(requests[s], x)
                 /\ PassesAsk(s, c) \/ AsksAgain(s, c)
           \/ \E x \in EndsOf(c) :
                 requests'[s] = Append(requests[s], x) /\ PassesEnd(s, c)
<1>1. CASE PassesAsk(s, c)
  BY <1>1, Asking DEF PassesAsk
<1>2. CASE AsksAgain(s, c)
  BY <1>2, Asking DEF AsksAgain
<1>3. CASE PassesEnd(s, c)
  BY <1>3 DEF PassesEnd
<1>4. CASE Starts(s, c) \/ GoesOn(s, c)
  BY <1>4 DEF Starts, GoesOn
<1> QED BY <1>1, <1>2, <1>3, <1>4, ServerKinds

\* The end of a transaction is not lost on the way.
LEMMA ServerEnds ==
    ASSUME Types, NEW s \in Servers, NEW c \in Clients, Srv!Step(s, c), UNCHANGED inTransaction,
           NEW t \in Servers, NEW d \in Clients
    PROVE  /\ Coming(t, d) /\ (t # s \/ d # c \/ ~PassesEnd(s, c)) => Coming(t, d)'
           /\ Ending(t, d) => Ending(t, d)'
<1>1. /\ fromClient \in [Clients -> [Servers -> Seq(Srv!Messages)]]
      /\ requests \in [Servers -> Seq(Coord!Commands)]
  BY TypeParts DEF ConnectionsTyped
<1>2. CASE t = s /\ d = c /\ PassesEnd(s, c)
  <2>1. PICK x \in EndsOf(c) : requests'[s] = Append(requests[s], x)
    BY <1>2 DEF PassesEnd
  <2>2. x \in Coord!Commands /\ 0 <= Len(requests[s]) /\ requests[s] \in Seq(Coord!Commands)
    BY <1>1, CommandsDiffer
  <2>3. After(requests'[s], 0, EndsOf(c))
    BY <2>1, <2>2, AfterAppended
  <2> QED BY <1>2, <2>3 DEF Ending
<1>3. CASE t # s \/ d # c \/ ~PassesEnd(s, c)
  <2>1. Coming(t, d) => Coming(t, d)'
    <3>1. CASE t # s \/ d # c
      <4>1. fromClient'[d][t] = fromClient[d][t]
        BY <3>1, ServerLeaves
      <4> QED BY <4>1 DEF Coming
    <3>2. CASE t = s /\ d = c /\ (Starts(s, c) \/ PassesAsk(s, c))
      <4> DEFINE q == fromClient[c][s]
      <4>1. q # <<>> /\ fromClient'[c][s] = Tail(q) /\ Head(q) \notin Ends /\ q \in Seq(Srv!Messages)
        BY <1>1, <3>2, Asking DEF Starts, PassesAsk, Ends
      <4>2. After(q, 0, Ends) => After(Tail(q), 0, Ends)
        <5> HIDE DEF q
        <5> QED BY <4>1, AfterRested
      <4> QED BY <3>2, <4>1, <4>2 DEF Coming
    <3>3. CASE t = s /\ d = c /\ (AsksAgain(s, c) \/ GoesOn(s, c))
      <4>1. fromClient'[c][s] = fromClient[c][s]
        BY <3>3 DEF AsksAgain, GoesOn
      <4> QED BY <3>3, <4>1 DEF Coming
    <3> QED BY <1>3, <3>1, <3>2, <3>3, ServerKinds
  <2>2. After(requests[t], 0, EndsOf(d)) => After(requests'[t], 0, EndsOf(d))
    <3>1. \A x \in Coord!Commands : After(requests[t], 0, EndsOf(d))
              => After(Append(requests[t], x), 0, EndsOf(d))
      BY <1>1, AfterAppended
    <3>2. requests'[t] = requests[t] \/ \E x \in Coord!Commands : requests'[t] = Append(requests[t], x)
      BY Forwards, ServerLeaves, CommandsDiffer
    <3> QED BY <3>1, <3>2
  <2> QED BY <2>1, <2>2 DEF Ending
<1> QED BY <1>2, <1>3

LEMMA ServerStepLocks ==
    ASSUME Types, LockInv, NEW s \in Servers, NEW c \in Clients, ServerStep(s, c)
    PROVE  LockInv'
<1>1. /\ Srv!Step(s, c)
      /\ UNCHANGED <<keyHolder, readHolder, pc, cmd, script, taken, inTransaction>>
  BY DEF ServerStep, coordinator, client
<1>2. Opened'
  BY <1>1 DEF LockInv, Opened
<1>3. /\ fromClient \in [Clients -> [Servers -> Seq(Srv!Messages)]]
      /\ requests \in [Servers -> Seq(Coord!Commands)]
  BY TypeParts DEF ConnectionsTyped
<1>4. ASSUME NEW t \in Servers, NEW d \in Clients
      PROVE  EndFollows(t, d)'
  <2> DEFINE q == fromClient[d][t]
             r == requests[t]
  <2>1. q \in Seq(Srv!Messages) /\ r \in Seq(Coord!Commands)
    BY <1>3
  <2>2. /\ inTransaction[d] \/ Guarded(q, Asks, Ends)
        /\ Waiting(t, d) => Coming(t, d)
        /\ Coming(t, d) \/ Guarded(r, AsksOf(d), EndsOf(d))
        /\ pc[t] # "idle" /\ cmd[t].client = d => Ending(t, d)
        /\ HoldsAt(t, d) => Ending(t, d)
    BY DEF LockInv, EndFollows
  <2>3. Ending(t, d) => Ending(t, d)'
    BY <1>1, ServerEnds
  <2>4. HoldsAt(t, d)' = HoldsAt(t, d)
    BY <1>1 DEF HoldsAt
  <2> SUFFICES /\ inTransaction[d] \/ Guarded(fromClient'[d][t], Asks, Ends)
               /\ Waiting(t, d)' => Coming(t, d)'
               /\ Coming(t, d)' \/ Guarded(requests'[t], AsksOf(d), EndsOf(d))
    BY <1>1, <2>2, <2>3, <2>4 DEF EndFollows
  <2> HIDE DEF q, r
  <2>5. CASE t # s
    <3>1. /\ requests'[t] = r /\ fromClient'[d][t] = q /\ (Waiting(t, d)' <=> Waiting(t, d))
          /\ Coming(t, d) => Coming(t, d)'
      BY <1>1, <2>5, ServerLeaves, ServerEnds DEF q, r
    <3> QED BY <2>2, <3>1
  <2>6. CASE t = s /\ d # c
    <3>1. /\ fromClient'[d][t] = q /\ (Waiting(t, d)' <=> Waiting(t, d))
          /\ Coming(t, d) => Coming(t, d)'
      BY <1>1, <2>6, ServerLeaves, ServerEnds DEF q
    <3>2. requests'[t] = r \/ \E x \in Coord!Commands :
                                 requests'[t] = Append(r, x) /\ x \notin AsksOf(d)
      BY <1>1, <2>6, Forwards, CommandsDiffer DEF r
    <3>3. Guarded(r, AsksOf(d), EndsOf(d)) => Guarded(requests'[t], AsksOf(d), EndsOf(d))
      BY <2>1, <3>2, GuardedAppended
    <3> QED BY <2>2, <3>1, <3>3
  <2>7. CASE t = s /\ d = c /\ PassesEnd(s, c)
    <3>1. /\ q # <<>> /\ fromClient'[d][t] = Tail(q) /\ ~Waiting(t, d)'
          /\ \E x \in EndsOf(d) : requests'[t] = Append(r, x)
      BY <2>7 DEF PassesEnd, q, r
    <3>2. PICK x \in EndsOf(d) : requests'[t] = Append(r, x)
      BY <3>1
    <3>3. x \in Coord!Commands /\ x \notin AsksOf(d)
      BY CommandsDiffer
    <3>4. Guarded(requests'[t], AsksOf(d), EndsOf(d))
      BY <2>1, <3>2, <3>3, GuardedAppended
    <3>5. inTransaction[d] \/ Guarded(Tail(q), Asks, Ends)
      BY <2>1, <2>2, <3>1, GuardedRested
    <3> QED BY <3>1, <3>4, <3>5
  <2>8. CASE t = s /\ d = c /\ PassesAsk(s, c)
    <3>1. q # <<>> /\ fromClient'[d][t] = Tail(q) /\ Head(q) \in Asks
      BY <2>8 DEF PassesAsk, q
    <3>2. inTransaction[d] \/ (Guarded(Tail(q), Asks, Ends) /\ After(Tail(q), 0, Ends))
      BY <2>1, <2>2, <3>1, GuardedRested
    <3>3. Coming(t, d)'
      BY <1>1, <3>1, <3>2 DEF Coming
    <3> QED BY <3>1, <3>2, <3>3
  <2>9. CASE t = s /\ d = c /\ AsksAgain(s, c)
    <3>1. fromClient'[d][t] = q /\ Waiting(t, d)
      BY <2>9 DEF AsksAgain, q
    <3>2. ~PassesEnd(s, c) => Coming(t, d)'
      BY <1>1, <2>2, <2>9, <3>1, ServerEnds
    <3> QED BY <2>2, <2>7, <2>9, <3>1, <3>2
  <2>10. CASE t = s /\ d = c /\ (Starts(s, c) \/ GoesOn(s, c))
    <3>1. /\ requests'[t] = r
          /\ fromClient'[d][t] = q \/ (q # <<>> /\ fromClient'[d][t] = Tail(q))
          /\ Waiting(t, d)' => Waiting(t, d)
      BY <2>10 DEF Starts, GoesOn, q, r
    <3>2. inTransaction[d] \/ Guarded(fromClient'[d][t], Asks, Ends)
      <4>1. CASE fromClient'[d][t] = q
        BY <2>2, <4>1
      <4>2. CASE q # <<>> /\ fromClient'[d][t] = Tail(q)
        <5>1. inTransaction[d] \/ Guarded(Tail(q), Asks, Ends)
          BY <2>1, <2>2, <4>2, GuardedRested
        <5> QED BY <4>2, <5>1
      <4> QED BY <3>1, <4>1, <4>2
    <3>3. ~PassesEnd(s, c) /\ Coming(t, d) => Coming(t, d)'
      BY <1>1, <2>10, ServerEnds
    <3> QED BY <2>2, <2>7, <2>10, <3>1, <3>2, <3>3
  <2> QED BY <1>1, <2>5, <2>6, <2>7, <2>8, <2>9, <2>10, ServerKinds
<1> QED BY <1>2, <1>4 DEF LockInv

------------------------------------------------------------------------------
(* What a step of a client does with the commands                          *)

Upcoming(c) == script[c][taken[c] + 1]

Takes(c) == taken'[c] = taken[c] + 1

\* The kinds of steps of client c.
SendsEnd(c) ==
    /\ ~inTransaction'[c]
    /\ \A s \in Servers : \E m \in Ends : fromClient'[c][s] = Append(fromClient[c][s], m)
    /\ \/ Takes(c) /\ Upcoming(c).op \in {"COMMIT", "ABORT"}
       \/ taken'[c] = taken[c] /\ GivenUp(script[c], taken[c])

SendsSomeEnd(c) ==
    /\ inTransaction[c] /\ inTransaction'[c] = inTransaction[c] /\ c \in crashed'
    /\ \A s \in Servers :
          \/ fromClient'[c][s] = fromClient[c][s]
          \/ \E m \in Ends : fromClient'[c][s] = Append(fromClient[c][s], m)
    /\ Takes(c) /\ Upcoming(c).op = "COMMIT"

SendsBegin(c) ==
    /\ inTransaction'[c]
    /\ \A s \in Servers : \E m \in Srv!Messages :
          m.op = "BEGIN" /\ fromClient'[c][s] = Append(fromClient[c][s], m)
    /\ Takes(c) /\ Upcoming(c).op = "BEGIN"

SendsAsk(c) ==
    /\ inTransaction'[c] = inTransaction[c]
    /\ Takes(c) /\ Upcoming(c).op \in {"SET", "GET"}
    /\ Upcoming(c).op = "GET" => inTransaction[c]
    /\ Upcoming(c).server \in Servers /\ Upcoming(c).key \in Keys
    /\ \E m \in Asks :
          /\ m.op = Upcoming(c).op /\ m.key = Upcoming(c).key
          /\ \A s \in Servers : fromClient'[c][s] =
                IF s = Upcoming(c).server THEN Append(fromClient[c][s], m) ELSE fromClient[c][s]

SendsNothing(c) ==
    /\ inTransaction'[c] = inTransaction[c]
    /\ \A s \in Servers : fromClient'[c][s] = fromClient[c][s]
    /\ \/ taken'[c] = taken[c]
       \/ /\ Takes(c) /\ Upcoming(c).op \in {"BEGIN", "GET", "COMMIT"}
          /\ Upcoming(c).op = "BEGIN" => inTransaction[c]
          /\ Upcoming(c).op = "COMMIT" => ~inTransaction[c]

LEMMA ClientKinds ==
    ASSUME Types, NEW c \in Clients, User!Step(c)
    PROVE  /\ \/ SendsEnd(c) \/ SendsSomeEnd(c) \/ SendsBegin(c)
              \/ SendsAsk(c) \/ SendsNothing(c)
           /\ script' = script /\ crashed \subseteq crashed'
           /\ taken'[c] # taken[c] => c \notin crashed
           /\ taken'[c] # taken[c] => taken[c] + 1 \in DOMAIN script[c]
<1>1. /\ fromClient \in [Clients -> [Servers -> Seq(Srv!Messages)]]
      /\ transactionId \in [Clients -> Nat] /\ taken \in [Clients -> Nat]
      /\ inTransaction \in [Clients -> BOOLEAN]
      /\ typed \in [Clients -> Nat] /\ taken[c] <= typed[c] /\ typed[c] <= Len(script[c])
      /\ script[c] \in Seq(User!UserCommands)
      /\ UserTyped
  BY TypeParts, ScriptsAssumption DEF ConnectionsTyped, UserTyped
<1>2. \A op : User!Take(c, op) =>
         /\ Takes(c) /\ Upcoming(c).op = op /\ c \notin crashed
         /\ taken[c] + 1 \in DOMAIN script[c]
  BY <1>1 DEF User!Take, Takes, Upcoming
<1>3. ASSUME NEW op \in {"BEGIN", "COMMIT", "ABORT"}, NEW to, User!Broadcast(c, op, to),
             NEW s \in Servers
      PROVE  /\ s \notin to => fromClient'[c][s] = fromClient[c][s]
             /\ s \in to => \E m \in Srv!Messages :
                   m.op = op /\ fromClient'[c][s] = Append(fromClient[c][s], m)
  <2> DEFINE m == [op |-> op]
  <2>1. m \in Srv!Messages /\ m.op = op
    BY DEF Srv!Messages
  <2>2. fromClient' = [fromClient EXCEPT ![c] = [t \in Servers |->
            IF t \in to THEN Append(fromClient[c][t], m) ELSE fromClient[c][t]]]
    BY <1>3 DEF User!Broadcast
  <2> HIDE DEF m
  <2> QED BY <1>1, <2>1, <2>2
<1>4. \A m \in Srv!Messages : m.op \in {"COMMIT", "ABORT"} => m \in Ends
  BY DEF Ends
<1>5. /\ User!EndTransaction(c) => ~inTransaction'[c]
      /\ UNCHANGED User!transaction => inTransaction'[c] = inTransaction[c]
  BY <1>1 DEF User!EndTransaction, User!transaction
<1>6. CASE User!Commit(c) \/ User!Abort(c)
  <2>1. PICK op \in {"COMMIT", "ABORT"} :
            User!Take(c, op) /\ User!Broadcast(c, op, Servers)
    BY <1>6 DEF User!Commit, User!Abort
  <2>2. User!EndTransaction(c) /\ UNCHANGED <<script, crashed>>
    BY <1>6 DEF User!Commit, User!Abort, User!input
  <2>3. \A s \in Servers : \E m \in Ends : fromClient'[c][s] = Append(fromClient[c][s], m)
    <3> TAKE s \in Servers
    <3>1. PICK m \in Srv!Messages : m.op = op /\ fromClient'[c][s] = Append(fromClient[c][s], m)
      BY <1>3, <2>1
    <3> QED BY <1>4, <2>1, <3>1
  <2> QED BY <1>2, <1>5, <2>1, <2>2, <2>3 DEF SendsEnd
<1>7. CASE User!AbortGet(c)
  <2>1. /\ User!Broadcast(c, "ABORT", Servers) /\ User!EndTransaction(c)
        /\ UNCHANGED <<script, taken, crashed>>
        /\ User!Current(c).op = "GET"
        /\ \E i \in (taken[c] + 1)..typed[c] : script[c][i].op = "ABORT"
    BY <1>7 DEF User!AbortGet, User!input
  <2>2. \A s \in Servers : \E m \in Ends : fromClient'[c][s] = Append(fromClient[c][s], m)
    <3> TAKE s \in Servers
    <3>1. PICK m \in Srv!Messages :
             m.op = "ABORT" /\ fromClient'[c][s] = Append(fromClient[c][s], m)
      BY <1>3, <2>1
    <3> QED BY <1>4, <3>1
  <2>3. GivenUp(script[c], taken[c])
    <3>1. PICK i \in (taken[c] + 1)..typed[c] : script[c][i].op = "ABORT"
      BY <2>1
    <3>2. i \in DOMAIN script[c] /\ taken[c] < i
      BY <1>1, <3>1
    <3> QED BY <2>1, <3>1, <3>2 DEF GivenUp, User!Current
  <2> QED BY <1>5, <2>1, <2>2, <2>3 DEF SendsEnd
<1>8. CASE User!Crash(c)
  <2>1. /\ User!Take(c, "COMMIT") /\ inTransaction[c] /\ UNCHANGED <<User!transaction, script>>
        /\ crashed' = crashed \cup {c}
        /\ \E to : User!Broadcast(c, "COMMIT", to)
    BY <1>8 DEF User!Crash, User!input
  <2>2. PICK to : User!Broadcast(c, "COMMIT", to)
    BY <2>1
  <2>3. ASSUME NEW s \in Servers
        PROVE  \/ fromClient'[c][s] = fromClient[c][s]
               \/ \E m \in Ends : fromClient'[c][s] = Append(fromClient[c][s], m)
    <3>1. \/ fromClient'[c][s] = fromClient[c][s]
          \/ \E m \in Srv!Messages :
                m.op = "COMMIT" /\ fromClient'[c][s] = Append(fromClient[c][s], m)
      BY <1>3, <2>2
    <3> QED BY <1>4, <3>1
  <2> QED BY <1>2, <1>5, <2>1, <2>3 DEF SendsSomeEnd
<1>9. CASE User!Begin(c)
  <2>1. /\ User!Take(c, "BEGIN") /\ User!Broadcast(c, "BEGIN", Servers)
        /\ inTransaction' = [inTransaction EXCEPT ![c] = TRUE] /\ UNCHANGED <<script, crashed>>
    BY <1>9 DEF User!Begin, User!input
  <2>2. \A s \in Servers : \E m \in Srv!Messages :
            m.op = "BEGIN" /\ fromClient'[c][s] = Append(fromClient[c][s], m)
    BY <1>3, <2>1
  <2>3. inTransaction'[c]
    BY <1>1, <2>1
  <2> QED BY <1>2, <2>1, <2>2, <2>3 DEF SendsBegin
<1>10. CASE User!Get(c) \/ User!Set(c)
  <2> DEFINE n == Upcoming(c)
             t == n.server
             get == [op |-> "GET", key |-> n.key]
             set == [op |-> "SET", key |-> n.key, value |-> User!Transaction(c)]
  <2>1. t \in Servers /\ n.key \in Keys
    BY <1>1, <1>10, NextCommand DEF User!Get, User!Set, Upcoming
  <2>2. User!Transaction(c) \in Values
    BY <1>1 DEF User!Transaction, Values
  <2>3. /\ get \in Asks /\ get.op = "GET" /\ get.key = n.key
        /\ set \in Asks /\ set.op = "SET" /\ set.key = n.key
    BY <2>1, <2>2 DEF Srv!Messages, Asks
  <2>4. /\ UNCHANGED <<User!transaction, script, crashed>>
        /\ \/ /\ fromClient' = [fromClient EXCEPT ![c][t] = Append(fromClient[c][t], get)]
              /\ User!Take(c, "GET") /\ inTransaction[c]
           \/ /\ fromClient' = [fromClient EXCEPT ![c][t] = Append(fromClient[c][t], set)]
              /\ User!Take(c, "SET")
    BY <1>10 DEF User!Get, User!Set, User!input, Upcoming
  <2>5. PICK m \in Asks :
           /\ fromClient' = [fromClient EXCEPT ![c][t] = Append(fromClient[c][t], m)]
           /\ User!Take(c, m.op) /\ (m.op = "GET" => inTransaction[c]) /\ m.key = n.key
           /\ m.op \in {"GET", "SET"}
    <3> HIDE DEF n, t, get, set
    <3> QED BY <2>3, <2>4
  <2> HIDE DEF n, t, get, set
  <2>6. \A s \in Servers : fromClient'[c][s] =
            IF s = t THEN Append(fromClient[c][s], m) ELSE fromClient[c][s]
    BY <1>1, <2>1, <2>5
  <2>7. Takes(c) /\ n.op = m.op
    BY <1>2, <2>5 DEF n
  <2>8. inTransaction'[c] = inTransaction[c]
    BY <1>5, <2>4
  <2>9. SendsAsk(c)
    BY <2>1, <2>5, <2>6, <2>7, <2>8 DEF SendsAsk, n, t
  <2> QED BY <1>2, <2>4, <2>5, <2>9
<1>11. CASE User!Ignore(c)
  <2>1. /\ UNCHANGED <<script, User!transaction, crashed, fromClient>>
        /\ \/ User!Take(c, "BEGIN") /\ inTransaction[c]
           \/ User!Take(c, "GET")
           \/ User!Take(c, "COMMIT") /\ ~inTransaction[c]
    BY <1>11 DEF User!Ignore, User!input
  <2> QED BY <1>2, <1>5, <2>1 DEF SendsNothing
<1>12. CASE User!Receive(c) \/ User!Type(c) \/ \E t \in Servers : User!Swallow(c, t)
  <2>1. UNCHANGED <<script, taken, User!transaction, crashed, fromClient>>
    BY <1>12 DEF User!Receive, User!Type, User!Swallow, User!input
  <2> QED BY <1>5, <2>1 DEF SendsNothing
<1> QED BY <1>6, <1>7, <1>8, <1>9, <1>10, <1>11, <1>12 DEF User!Step, User!Proceed

\* What the other clients have is as it was.
LEMMA ClientLeaves ==
    ASSUME Types, NEW c \in Clients, User!Step(c), NEW d \in Clients, d # c
    PROVE  /\ inTransaction'[d] = inTransaction[d] /\ taken'[d] = taken[d]
           /\ \A s \in Servers : fromClient'[d][s] = fromClient[d][s]
           /\ d \in crashed' <=> d \in crashed
<1>1. /\ inTransaction \in [Clients -> BOOLEAN] /\ taken \in [Clients -> Nat]
  BY TypeParts DEF UserTyped
<1>2. \A op : User!Take(c, op) => taken'[d] = taken[d]
  BY <1>1 DEF User!Take
<1>3. taken'[d] = taken[d]
  BY <1>2 DEF User!Step, User!Proceed, User!Ignore, User!Begin, User!Get, User!Set, User!Commit,
       User!Abort, User!Receive, User!AbortGet, User!Swallow, User!Type, User!Crash
<1>4. User!EndTransaction(c) => inTransaction'[d] = inTransaction[d]
  BY <1>1 DEF User!EndTransaction
<1>5. inTransaction'[d] = inTransaction[d]
  BY <1>1, <1>4 DEF User!Step, User!Proceed, User!Ignore, User!Begin, User!Get, User!Set,
       User!Commit, User!Abort, User!Receive, User!AbortGet, User!Swallow, User!Type,
       User!Crash, User!transaction
<1>6. crashed' = crashed \/ crashed' = crashed \cup {c}
  BY DEF User!Step, User!Proceed, User!Ignore, User!Begin, User!Get, User!Set,
       User!Commit, User!Abort, User!Receive, User!AbortGet, User!Swallow, User!Type,
       User!Crash
<1>7. \A s \in Servers : fromClient'[d][s] = fromClient[d][s]
  BY ClientSends
<1> QED BY <1>3, <1>5, <1>6, <1>7

------------------------------------------------------------------------------
(* Whoever asks for a lock ends the transaction: the clients               *)

\* What is next in the script is in a transaction only if one is open.
LEMMA ClientOpens ==
    ASSUME Types, Opened, NEW c \in Clients, User!Step(c)
    PROVE  Opened'
<1> SUFFICES ASSUME NEW d \in Clients, Inside(script'[d], taken'[d] + 1)
             PROVE  inTransaction'[d]
  BY DEF Opened
<1>1. script' = script /\ taken[d] \in Nat /\ taken[c] \in Nat
  BY ClientKinds, TypeParts DEF UserTyped
<1>2. CASE d # c
  <2>1. inTransaction'[d] = inTransaction[d] /\ taken'[d] = taken[d]
    BY <1>2, ClientLeaves
  <2> QED BY <1>1, <2>1 DEF Opened
<1>3. CASE d = c /\ taken'[c] = taken[c]
  <2>1. inTransaction[c]
    BY <1>1, <1>3 DEF Opened
  <2>2. CASE GivenUp(script[c], taken[c])
    <3>1. PICK j \in DOMAIN script[c] :
             /\ j < taken[c] + 1 /\ script[c][j].op = "BEGIN"
             /\ \A n \in DOMAIN script[c] : j < n /\ n < taken[c] + 1 => ~GivenUp(script[c], n)
      BY <1>1, <1>3 DEF Inside
    <3>2. script[c] \in Seq(User!UserCommands)
      BY TypeParts, ScriptsAssumption DEF UserTyped
    <3>3. j \in Nat /\ DOMAIN script[c] = 1..Len(script[c]) /\ Len(script[c]) \in Nat
      BY <3>2
    <3>4. j # taken[c]
      BY <2>2, <3>1 DEF GivenUp
    <3>5. j < taken[c]
      BY <1>1, <3>1, <3>3, <3>4
    <3>6. taken[c] \in DOMAIN script[c]
      <4>1. taken[c] <= Len(script[c])
        <5>1. taken[c] <= typed[c] /\ typed[c] <= Len(script[c]) /\ typed[c] \in Nat
          BY TypeParts DEF UserTyped
        <5> QED BY <1>1, <3>3, <5>1
      <4> QED BY <1>1, <3>3, <3>5, <4>1
    <3> QED BY <1>1, <2>2, <3>1, <3>5, <3>6
  <2>3. CASE ~GivenUp(script[c], taken[c])
    <3>1. ~Takes(c)
      BY <1>1, <1>3 DEF Takes
    <3>2. SendsNothing(c)
      BY <2>3, <3>1, ClientKinds DEF SendsEnd, SendsSomeEnd, SendsBegin, SendsAsk
    <3> QED BY <1>3, <2>1, <3>2 DEF SendsNothing
  <2> QED BY <2>2, <2>3
<1>4. CASE d = c /\ taken'[c] # taken[c]
  <2>1. Takes(c) /\ taken[c] + 1 \in DOMAIN script[c]
    BY <1>4, ClientKinds DEF SendsEnd, SendsSomeEnd, SendsBegin, SendsAsk, SendsNothing
  <2>2. PICK j \in DOMAIN script[c] :
           /\ j < (taken[c] + 1) + 1 /\ script[c][j].op = "BEGIN"
           /\ \A n \in DOMAIN script[c] : j < n /\ n < (taken[c] + 1) + 1 =>
                 script[c][n].op \notin {"COMMIT", "ABORT"} /\ ~GivenUp(script[c], n)
    BY <1>1, <1>4, <2>1 DEF Inside, Takes
  <2>3. j \in Nat /\ \A n \in DOMAIN script[c] : n \in Nat
    <3>1. script[c] \in Seq(User!UserCommands)
      BY TypeParts, ScriptsAssumption DEF UserTyped
    <3> QED BY <3>1
  <2>4. CASE j = taken[c] + 1
    <3>1. Upcoming(c).op = "BEGIN"
      BY <2>2, <2>4 DEF Upcoming
    <3> QED BY <1>4, <3>1, ClientKinds
        DEF SendsEnd, SendsSomeEnd, SendsBegin, SendsAsk, SendsNothing
  <2>5. CASE j < taken[c] + 1
    <3>1. Upcoming(c).op \notin {"COMMIT", "ABORT"}
      BY <1>1, <2>1, <2>2, <2>5 DEF Upcoming
    <3>2. \A n \in DOMAIN script[c] : j < n /\ n < taken[c] + 1 =>
             script[c][n].op \notin {"COMMIT", "ABORT"} /\ ~GivenUp(script[c], n)
      BY <1>1, <2>2, <2>3
    <3>3. Inside(script[c], taken[c] + 1)
      BY <2>2, <2>5, <3>2 DEF Inside
    <3>4. inTransaction[c]
      BY <3>3 DEF Opened
    <3> QED BY <1>4, <3>1, <3>4, ClientKinds
        DEF SendsEnd, SendsSomeEnd, SendsBegin, SendsAsk, SendsNothing
  <2> QED BY <1>1, <2>2, <2>3, <2>4, <2>5
<1> QED BY <1>2, <1>3, <1>4

\* A client that asks for a lock has a transaction open.
LEMMA AsksInside ==
    ASSUME Types, Opened, SetsInside, NEW c \in Clients, User!Step(c), SendsAsk(c)
    PROVE  inTransaction[c]
<1>1. taken'[c] # taken[c] /\ Upcoming(c).op \in {"SET", "GET"}
  BY TypeParts DEF SendsAsk, Takes, UserTyped
<1>2. taken[c] + 1 \in DOMAIN script[c]
  BY <1>1, ClientKinds
<1>3. script[c] \in Scripts
  BY TypeParts DEF UserTyped
<1>4. Upcoming(c).op = "SET" => Inside(script[c], taken[c] + 1)
  BY <1>2, <1>3 DEF SetsInside, Upcoming
<1> QED BY <1>1, <1>4 DEF Opened, SendsAsk

LEMMA ClientEnds ==
    ASSUME Types, NEW c \in Clients, User!Step(c), NEW t \in Servers, NEW d \in Clients,
           UNCHANGED requests
    PROVE  /\ Coming(t, d) => Coming(t, d)'
           /\ Ending(t, d) => Ending(t, d)'
<1>1. fromClient[d][t] \in Seq(Srv!Messages)
  BY TypeParts DEF ConnectionsTyped
<1>2. /\ \A m \in Srv!Messages : After(fromClient[d][t], 0, Ends)
            => After(Append(fromClient[d][t], m), 0, Ends)
      /\ \A m \in Ends : After(Append(fromClient[d][t], m), 0, Ends)
  BY <1>1, AfterAppended DEF Ends
<1>3. Coming(t, d) => Coming(t, d)'
  <2>1. CASE d # c
    BY <2>1, ClientLeaves DEF Coming
  <2>2. CASE d = c /\ SendsEnd(c)
    BY <1>2, <2>2 DEF Coming, SendsEnd
  <2>3. CASE d = c /\ SendsSomeEnd(c)
    BY <2>3 DEF Coming, SendsSomeEnd
  <2>4. CASE d = c /\ SendsBegin(c)
    BY <2>4 DEF Coming, SendsBegin
  <2>5. CASE d = c /\ SendsAsk(c)
    <3>1. inTransaction'[c] = inTransaction[c]
      BY <2>5 DEF SendsAsk
    <3>2. \/ fromClient'[c][t] = fromClient[c][t]
          \/ \E m \in Asks : fromClient'[c][t] = Append(fromClient[c][t], m)
      BY <2>5 DEF SendsAsk
    <3> QED BY <1>2, <2>5, <3>1, <3>2, Asking DEF Coming
  <2>6. CASE d = c /\ SendsNothing(c)
    BY <2>6 DEF Coming, SendsNothing
  <2> QED BY <2>1, <2>2, <2>3, <2>4, <2>5, <2>6, ClientKinds
<1> QED BY <1>3 DEF Ending

LEMMA ClientStepLocks ==
    ASSUME Types, LockInv, SetsInside, NEW c \in Clients, ClientStep(c)
    PROVE  LockInv'
<1>1. User!Step(c) /\ UNCHANGED <<keyHolder, readHolder, pc, cmd, place, requests>>
  BY DEF ClientStep, coordinator, server
<1>2. Opened'
  BY <1>1, ClientOpens DEF LockInv
<1>3. ASSUME NEW t \in Servers, NEW d \in Clients
      PROVE  EndFollows(t, d)'
  <2> DEFINE q == fromClient[d][t]
  <2>1. q \in Seq(Srv!Messages)
    BY TypeParts DEF ConnectionsTyped
  <2>2. /\ inTransaction[d] \/ Guarded(q, Asks, Ends)
        /\ Waiting(t, d) => Coming(t, d)
        /\ Coming(t, d) \/ Guarded(requests[t], AsksOf(d), EndsOf(d))
        /\ pc[t] # "idle" /\ cmd[t].client = d => Ending(t, d)
        /\ HoldsAt(t, d) => Ending(t, d)
    BY DEF LockInv, EndFollows
  <2>3. (Coming(t, d) => Coming(t, d)') /\ (Ending(t, d) => Ending(t, d)')
    BY <1>1, ClientEnds
  <2>4. HoldsAt(t, d)' = HoldsAt(t, d) /\ Waiting(t, d)' = Waiting(t, d)
    BY <1>1 DEF HoldsAt, Waiting
  <2> HIDE DEF q
  <2>5. inTransaction'[d] \/ Guarded(fromClient'[d][t], Asks, Ends)
    <3>1. CASE d # c
      BY <1>1, <2>2, <3>1, ClientLeaves DEF q
    <3>2. CASE d = c /\ SendsEnd(c)
      <4>1. PICK m \in Ends : fromClient'[d][t] = Append(q, m)
        BY <3>2 DEF SendsEnd, q
      <4>2. m \in Srv!Messages /\ m \notin Asks
        BY DEF Ends, Asks
      <4> QED BY <2>1, <4>1, <4>2, GuardedAppended
    <3>3. CASE d = c /\ SendsSomeEnd(c)
      BY <3>3 DEF SendsSomeEnd
    <3>4. CASE d = c /\ SendsBegin(c)
      BY <3>4 DEF SendsBegin
    <3>5. CASE d = c /\ SendsAsk(c)
      BY <1>1, <3>5, AsksInside DEF SendsAsk, LockInv
    <3>6. CASE d = c /\ SendsNothing(c)
      BY <2>2, <3>6 DEF SendsNothing, q
    <3> QED BY <1>1, <3>1, <3>2, <3>3, <3>4, <3>5, <3>6, ClientKinds
  <2> QED BY <1>1, <2>2, <2>3, <2>4, <2>5 DEF EndFollows
<1> QED BY <1>2, <1>3 DEF LockInv

------------------------------------------------------------------------------
(* What a step of the coordinator does with the commands and the locks     *)

\* A goroutine is at work on a command, and may grant it.
Works(s) ==
    /\ pc[s] # "idle" /\ UNCHANGED requests
    /\ pc'[s] = "idle" \/ cmd'[s] = cmd[s]
    /\ \A t \in Servers : t # s => pc'[t] = pc[t] /\ cmd'[t] = cmd[t] /\ blockers'[t] = blockers[t]
    /\ \A t \in Servers, k \in Keys :
          /\ \/ keyHolder'[<<t, k>>] = keyHolder[<<t, k>>]
             \/ /\ t = s /\ k = cmd[s].key /\ cmd[s].op = "SET"
                /\ keyHolder'[<<t, k>>] = cmd[s].client
          /\ \/ readHolder'[<<t, k>>] = readHolder[<<t, k>>]
             \/ /\ t = s /\ k = cmd[s].key /\ pc[s] = "marking"
                /\ readHolder'[<<t, k>>] = readHolder[<<t, k>>] \cup {cmd[s].client}
                /\ pc'[s] = "idle"

LEMMA CoordWorks ==
    ASSUME Coord!TypeOK, NEW s \in Servers, Coord!Step(s)
    PROVE  \/ Coord!End(s) \/ Coord!StillHeld(s) \/ Coord!Begin(s)
           \/ Works(s)
<1>1. /\ pc \in [Servers -> Coord!Places] /\ blockers \in [Servers -> SUBSET Clients]
      /\ cmd \in [Servers -> Coord!LockCommands \cup {NoCommand}]
      /\ keyHolder \in [Coord!Objects -> Clients \cup {NoClient}]
      /\ readHolder \in [Coord!Objects -> SUBSET Clients]
      /\ \A t \in Servers, k \in Keys : <<t, k>> \in Coord!Objects
  BY DEF Coord!TypeOK, Coord!Objects
<1>2. ASSUME UNCHANGED <<keyHolder, readHolder, requests, cmd>>,
             pc[s] # "idle", NEW to, pc' = [pc EXCEPT ![s] = to],
             UNCHANGED blockers \/ \E b : blockers' = [blockers EXCEPT ![s] = b]
      PROVE  Works(s)
  BY <1>1, <1>2 DEF Works
<1>3. CASE Coord!Decide(s) \/ Coord!EnterRead(s) \/ Coord!Hold(s) \/ Coord!Refuse(s)
  <2>1. /\ UNCHANGED <<keyHolder, readHolder, requests, cmd>> /\ pc[s] # "idle"
        /\ \E to : pc' = [pc EXCEPT ![s] = to]
        /\ UNCHANGED blockers \/ \E b : blockers' = [blockers EXCEPT ![s] = b]
    BY <1>3 DEF Coord!Decide, Coord!EnterRead, Coord!Hold, Coord!Refuse, Coord!Move, Coord!locks
  <2> QED BY <1>2, <2>1
<1>4. Coord!Finish(s) =>
         /\ pc'[s] = "idle"
         /\ \A t \in Servers : t # s =>
               pc'[t] = pc[t] /\ cmd'[t] = cmd[t] /\ blockers'[t] = blockers[t]
  BY <1>1 DEF Coord!Finish
<1>5. CASE Coord!Register(s) \/ \E t \in Servers : Coord!LoseMark(s, t)
  <2>1. /\ Coord!Finish(s) /\ UNCHANGED <<keyHolder, readHolder, requests>> /\ pc[s] # "idle"
    BY <1>5 DEF Coord!Register, Coord!LoseMark, Coord!locks
  <2> QED BY <1>4, <2>1 DEF Works
<1>6. CASE Coord!GrantWrite(s)
  <2>1. /\ Coord!Finish(s) /\ UNCHANGED <<readHolder, requests>> /\ pc[s] # "idle"
        /\ cmd[s].op = "SET"
        /\ keyHolder' = [keyHolder EXCEPT ![<<s, cmd[s].key>>] = cmd[s].client]
    BY <1>6 DEF Coord!GrantWrite, Coord!Object
  <2>2. ASSUME NEW t \in Servers, NEW k \in Keys
        PROVE  \/ keyHolder'[<<t, k>>] = keyHolder[<<t, k>>]
               \/ /\ t = s /\ k = cmd[s].key
                  /\ keyHolder'[<<t, k>>] = cmd[s].client
    BY <1>1, <2>1
  <2> QED BY <1>4, <2>1, <2>2 DEF Works
<1>7. CASE Coord!GrantRead(s)
  <2>1. /\ Coord!Finish(s) /\ UNCHANGED <<keyHolder, requests>> /\ pc[s] = "marking"
        /\ readHolder' = [readHolder EXCEPT ![<<s, cmd[s].key>>] =
                             readHolder[<<s, cmd[s].key>>] \cup {cmd[s].client}]
    BY <1>7 DEF Coord!GrantRead, Coord!Object
  <2>2. ASSUME NEW t \in Servers, NEW k \in Keys
        PROVE  \/ readHolder'[<<t, k>>] = readHolder[<<t, k>>]
               \/ /\ t = s /\ k = cmd[s].key
                  /\ readHolder'[<<t, k>>] = readHolder[<<t, k>>] \cup {cmd[s].client}
    BY <1>1, <2>1
  <2> QED BY <1>4, <2>1, <2>2 DEF Works
<1>8. CASE \E t \in Servers : Coord!MapFault(s, t)
  <2>1. UNCHANGED <<keyHolder, readHolder, pc, cmd, blockers, requests>> /\ pc[s] # "idle"
    BY <1>8 DEF Coord!MapFault, Coord!locks, Coord!goroutines
  <2> QED BY <2>1 DEF Works
<1> QED BY <1>3, <1>5, <1>6, <1>7, <1>8 DEF Coord!Step

\* What a goroutine of the coordinator reads.
LEMMA Reads ==
    ASSUME Types, NEW s \in Servers, Coord!Read(s)
    PROVE  /\ requests[s] # <<>> /\ requests'[s] = Tail(requests[s]) /\ pc[s] = "idle"
           /\ Head(requests[s]) \in Coord!Commands
           /\ requests[s] \in Seq(Coord!Commands)
           /\ \A t \in Servers : t # s => requests'[t] = requests[t]
<1>1. requests \in [Servers -> Seq(Coord!Commands)]
  BY TypeParts DEF ConnectionsTyped
<1>2. requests[s] \in Seq(Coord!Commands) /\ requests[s] # <<>>
  BY <1>1 DEF Coord!Read
<1>3. Head(requests[s]) \in Coord!Commands
  BY <1>2
<1> QED BY <1>1, <1>2, <1>3 DEF Coord!Read

\* The end of a transaction is there until the coordinator has handled it.
LEMMA CoordEnds ==
    ASSUME Types, NEW s \in Servers, CoordinatorStep(s), NEW t \in Servers, NEW d \in Clients
    PROVE  /\ Coming(t, d)' = Coming(t, d) /\ Waiting(t, d)' = Waiting(t, d)
           /\ \/ After(requests[t], 0, EndsOf(d)) => After(requests'[t], 0, EndsOf(d))
              \/ t = s /\ Coord!End(s) /\ Head(requests[s]).client = d
           /\ \/ Ending(t, d) => Ending(t, d)'
              \/ t = s /\ Coord!End(s) /\ Head(requests[s]).client = d
<1>1. /\ Coord!Step(s) /\ UNCHANGED <<inTransaction, fromClient, place>>
      /\ Coord!TypeOK
  BY TypeParts DEF CoordinatorStep, client, server
<1>2. Coming(t, d)' = Coming(t, d) /\ Waiting(t, d)' = Waiting(t, d)
  BY <1>1 DEF Coming, Waiting
<1>3. CASE Works(s)
  BY <1>2, <1>3 DEF Works, Ending
<1>4. CASE Coord!Read(s) /\ t # s
  <2>1. requests'[t] = requests[t]
    BY <1>4, Reads
  <2> QED BY <1>2, <2>1 DEF Ending
<1>5. CASE Coord!Read(s) /\ t = s /\ Head(requests[s]) \notin EndsOf(d)
  <2>1. After(requests[s], 0, EndsOf(d)) => After(Tail(requests[s]), 0, EndsOf(d))
    BY <1>5, Reads, AfterRested
  <2>2. requests'[s] = Tail(requests[s])
    BY <1>5, Reads
  <2> QED BY <1>2, <1>5, <2>1, <2>2 DEF Ending
<1>6. CASE Coord!End(s) /\ t = s /\ Head(requests[s]) \in EndsOf(d)
  BY <1>2, <1>6 DEF EndsOf
<1>7. Coord!StillHeld(s) \/ Coord!Begin(s) => Head(requests[s]) \notin EndsOf(d)
  BY DEF Coord!StillHeld, Coord!Begin, EndsOf, Coord!LockCommands, Coord!EndCommands
<1>8. Coord!End(s) \/ Coord!StillHeld(s) \/ Coord!Begin(s) => Coord!Read(s)
  BY DEF Coord!End, Coord!StillHeld, Coord!Begin
<1> QED BY <1>1, <1>3, <1>4, <1>5, <1>6, <1>7, <1>8, CoordWorks

LEMMA CoordStepLocks ==
    ASSUME Types, LockInv, NEW s \in Servers, CoordinatorStep(s)
    PROVE  LockInv'
<1>1. /\ Coord!Step(s) /\ UNCHANGED <<inTransaction, fromClient, place, script, taken>>
      /\ Coord!TypeOK
  BY TypeParts DEF CoordinatorStep, client, server
<1>2. Opened'
  BY <1>1 DEF LockInv, Opened
<1>3. /\ pc \in [Servers -> Coord!Places]
      /\ cmd \in [Servers -> Coord!LockCommands \cup {NoCommand}]
      /\ \A t \in Servers, k \in Keys : <<t, k>> \in Coord!Objects
      /\ NoClient \notin Clients
  BY <1>1, NullsAssumption DEF Coord!TypeOK, Coord!Objects
<1>4. ASSUME NEW t \in Servers, NEW d \in Clients
      PROVE  EndFollows(t, d)'
  <2> DEFINE r == requests[t]
  <2>1. r \in Seq(Coord!Commands)
    BY TypeParts DEF ConnectionsTyped
  <2>2. /\ inTransaction[d] \/ Guarded(fromClient[d][t], Asks, Ends)
        /\ Waiting(t, d) => Coming(t, d)
        /\ Coming(t, d) \/ Guarded(r, AsksOf(d), EndsOf(d))
        /\ pc[t] # "idle" /\ cmd[t].client = d => Ending(t, d)
        /\ HoldsAt(t, d) => Ending(t, d)
    BY DEF LockInv, EndFollows
  <2>3. /\ Coming(t, d)' = Coming(t, d) /\ Waiting(t, d)' = Waiting(t, d)
        /\ \/ Ending(t, d) => Ending(t, d)'
           \/ t = s /\ Coord!End(s) /\ Head(requests[s]).client = d
    BY CoordEnds
  <2>4. Coming(t, d)' \/ Guarded(requests'[t], AsksOf(d), EndsOf(d))
    <3>1. CASE Works(s)
      BY <2>2, <2>3, <3>1 DEF Works
    <3>2. CASE Coord!Read(s) /\ t # s
      BY <2>2, <2>3, <3>2, Reads
    <3>3. CASE Coord!Read(s) /\ t = s
      <4>1. r # <<>> /\ requests'[t] = Tail(r)
        BY <3>3, Reads
      <4> HIDE DEF r
      <4> QED BY <2>1, <2>2, <2>3, <4>1, GuardedRested
    <3> QED BY <1>1, <3>1, <3>2, <3>3, CoordWorks DEF Coord!End, Coord!StillHeld, Coord!Begin
  <2> SUFFICES /\ pc'[t] # "idle" /\ cmd'[t].client = d => Ending(t, d)'
               /\ HoldsAt(t, d)' => Ending(t, d)'
    BY <1>1, <2>2, <2>3, <2>4 DEF EndFollows
  <2>5. CASE Works(s)
    <3>1. Ending(t, d) => Ending(t, d)'
      BY <2>3, <2>5 DEF Works, Coord!End, Coord!Read
    <3>2. pc'[t] # "idle" /\ cmd'[t].client = d => pc[t] # "idle" /\ cmd[t].client = d
      BY <2>5 DEF Works
    <3>3. HoldsAt(t, d)' => HoldsAt(t, d) \/ (pc[t] # "idle" /\ cmd[t].client = d)
      BY <1>3, <2>5 DEF Works, HoldsAt
    <3> QED BY <2>2, <3>1, <3>2, <3>3
  <2>6. CASE Coord!StillHeld(s)
    <3>1. Ending(t, d) => Ending(t, d)'
      BY <2>3, <2>6 DEF Coord!StillHeld, Coord!End, Coord!LockCommands, Coord!EndCommands
    <3>2. UNCHANGED <<pc, cmd, keyHolder, readHolder>>
      BY <2>6 DEF Coord!StillHeld, Coord!locks, Coord!goroutines
    <3> QED BY <2>2, <3>1, <3>2 DEF HoldsAt
  <2>7. CASE Coord!Begin(s)
    <3>1. Ending(t, d) => Ending(t, d)'
      BY <2>3, <2>7 DEF Coord!Begin, Coord!End, Coord!LockCommands, Coord!EndCommands
    <3>2. /\ UNCHANGED <<keyHolder, readHolder>> /\ Coord!Read(s)
          /\ pc' = [pc EXCEPT ![s] = "check"] /\ cmd' = [cmd EXCEPT ![s] = Head(requests[s])]
          /\ Head(requests[s]) \in Coord!LockCommands
      BY <2>7 DEF Coord!Begin, Coord!locks
    <3>3. t # s => pc'[t] = pc[t] /\ cmd'[t] = cmd[t]
      BY <1>3, <3>2
    <3>4. ASSUME t = s, cmd'[t].client = d
          PROVE  Ending(t, d)'
      <4>1. Head(r) \in AsksOf(d) /\ r # <<>> /\ requests'[t] = Tail(r)
        BY <1>3, <3>2, <3>4, Reads DEF AsksOf
      <4>2. Coming(t, d) \/ After(Tail(r), 0, EndsOf(d))
        <5> HIDE DEF r
        <5> QED BY <2>1, <2>2, <4>1, GuardedRested
      <4> QED BY <2>3, <4>1, <4>2 DEF Ending
    <3> QED BY <2>2, <3>1, <3>2, <3>3, <3>4 DEF HoldsAt
  <2>8. CASE Coord!End(s)
    <3> DEFINE e == Head(requests[s]).client
    <3>1. /\ UNCHANGED <<pc, cmd>> /\ pc[s] = "idle" /\ Coord!abortNode(e) /\ e \in Clients
      BY <2>8 DEF Coord!End, Coord!goroutines, Coord!Read, Coord!EndCommands
    <3>2. HoldsAt(t, d)' => HoldsAt(t, d) /\ d # e
      BY <1>3, <3>1 DEF HoldsAt, Coord!abortNode
    <3>3. (Ending(t, d) => Ending(t, d)') \/ (t = s /\ e = d)
      BY <2>3
    <3> QED BY <2>2, <3>1, <3>2, <3>3
  <2> QED BY <1>1, <2>5, <2>6, <2>7, <2>8, CoordWorks
<1> QED BY <1>2, <1>4 DEF LockInv

------------------------------------------------------------------------------
(* A transaction that has ended holds nothing                              *)

LEMMA InitLocks == Init => LockInv
<1> SUFFICES ASSUME Init PROVE LockInv
  OBVIOUS
<1>1. ASSUME NEW s \in Servers, NEW c \in Clients
      PROVE  EndFollows(s, c)
  <2>1. /\ fromClient[c][s] = <<>> /\ requests[s] = <<>> /\ place[s][c] = "idle" /\ pc[s] = "idle"
    BY DEF Init, Srv!Init, Coord!Init
  <2>2. ~HoldsAt(s, c)
    BY NullsAssumption DEF Init, Coord!Init, Coord!Objects, HoldsAt
  <2> QED BY <2>1, <2>2 DEF EndFollows, Guarded, Waiting
<1>2. ASSUME NEW c \in Clients
      PROVE  ~Inside(script[c], taken[c] + 1)
  <2>1. script[c] \in Seq(User!UserCommands) /\ taken[c] = 0
    BY ScriptsAssumption DEF Init, User!Init
  <2>2. \A j \in DOMAIN script[c] : ~(j < taken[c] + 1)
    BY <2>1
  <2> QED BY <2>2 DEF Inside
<1> QED BY <1>1, <1>2 DEF LockInv, Opened

LEMMA StutterLocks ==
    ASSUME LockInv, UNCHANGED vars
    PROVE  LockInv'
<1>1. UNCHANGED <<script, taken, inTransaction, fromClient, requests, place, pc, cmd,
                  keyHolder, readHolder>>
  BY DEF vars, coordinator, server, client
<1>2. \A t, d : /\ Coming(t, d)' = Coming(t, d) /\ Ending(t, d)' = Ending(t, d)
                /\ HoldsAt(t, d)' = HoldsAt(t, d) /\ Waiting(t, d)' = Waiting(t, d)
  BY <1>1 DEF Coming, Ending, HoldsAt, Waiting
<1>3. \A t, d : EndFollows(t, d)' = EndFollows(t, d)
  BY <1>1, <1>2 DEF EndFollows
<1> QED BY <1>1, <1>3 DEF LockInv, Opened

LEMMA LocksCorrect ==
    ASSUME SetsInside
    PROVE  Spec => [](Types /\ LockInv)
<1>1. Init => Types /\ LockInv
  BY InitTypes, InitLocks
<1>2. Types /\ LockInv /\ [Next]_vars => Types' /\ LockInv'
  BY StepTypes, ServerStepLocks, ClientStepLocks, CoordStepLocks, StutterLocks DEF Next
<1> QED BY <1>1, <1>2, PTL DEF Spec

\* Provided users type SET in a transaction only, a client that has ended its
\* transaction, and whose commands all servers and the coordinator have handled, holds
\* no lock: whichever server's COMMIT or ABORT came first, no command that was behind
\* or sent again takes a lock that nothing releases.
THEOREM SettledHolds ==
    ASSUME SetsInside
    PROVE  Spec => []SettledHoldsNothing
<1>1. ASSUME Types, LockInv
      PROVE  SettledHoldsNothing
  <2> SUFFICES ASSUME NEW c \in Clients, Settled(c), NEW o \in Holding(c)
               PROVE  FALSE
    BY DEF SettledHoldsNothing
  <2>1. PICK s \in Servers, k \in Keys : o = <<s, k>>
    BY DEF Holding, Coord!Objects
  <2>2. HoldsAt(s, c)
    BY <2>1 DEF Holding, HoldsAt
  <2>3. Ending(s, c)
    BY <1>1, <2>2 DEF LockInv, EndFollows
  <2>4. /\ ~inTransaction[c] /\ fromClient[c][s] = <<>>
        /\ \A i \in DOMAIN requests[s] : requests[s][i].client # c
    BY DEF Settled
  <2> QED BY <2>3, <2>4 DEF Ending, Coming, After, EndsOf
<1> QED BY <1>1, LocksCorrect, PTL

------------------------------------------------------------------------------
(* Reads and writes kept apart: the legs of the way                        *)

LEMMA KindsDiffer ==
    ASSUME NEW c \in Clients, NEW k \in Keys
    PROVE  /\ GetsOf(c, k) \cap SetsOf(c, k) = {} /\ Gets(k) \cap Sets(k) = {}
           /\ EndsOf(c) \cap GetsOf(c, k) = {} /\ EndsOf(c) \cap SetsOf(c, k) = {}
           /\ Ends \cap Gets(k) = {} /\ Ends \cap Sets(k) = {}
           /\ GetsOf(c, k) \subseteq AsksOf(c) /\ SetsOf(c, k) \subseteq AsksOf(c)
           /\ Gets(k) \subseteq Asks /\ Sets(k) \subseteq Asks
           /\ Asks \subseteq Srv!Messages /\ Ends \subseteq Srv!Messages
BY DEF GetsOf, SetsOf, Gets, Sets, AsksOf, EndsOf, Asks, Ends, Coord!LockCommands,
       Coord!EndCommands

\* A command is added to the requests of a server.
LEMMA RequestAdded ==
    ASSUME Types, NEW s \in Servers, NEW c \in Clients, NEW k \in Keys,
           WriteApart(s, c, k), Read0(s, c, k)' = Read0(s, c, k),
           NEW x \in Coord!Commands, requests'[s] = Append(requests[s], x)
    PROVE  /\ x \notin SetsOf(c, k) \/ ~Read1(s, c, k) =>
                 /\ Read0(s, c, k)' => Fenced(requests'[s], 0, SetsOf(c, k), EndsOf(c))
                 /\ Apart(requests'[s], GetsOf(c, k), SetsOf(c, k), EndsOf(c))
           /\ x \notin GetsOf(c, k) => (Read1(s, c, k)' => Read1(s, c, k))
           /\ x \in EndsOf(c) => ~Read1(s, c, k)'
<1> DEFINE r == requests[s]
           p == Append(r, x)
           G == GetsOf(c, k)
           S == SetsOf(c, k)
           E == EndsOf(c)
<1>1. r \in Seq(Coord!Commands) /\ 0 <= Len(r) /\ requests'[s] = p
  BY TypeParts DEF ConnectionsTyped
<1>2. /\ Read0(s, c, k) => Fenced(r, 0, S, E)
      /\ Apart(r, G, S, E)
      /\ Read1(s, c, k) <=> (Read0(s, c, k) /\ ~After(r, 0, E)) \/ ~Guarded(r, G, E)
      /\ Read1(s, c, k)' <=> (Read0(s, c, k) /\ ~After(p, 0, E)) \/ ~Guarded(p, G, E)
  BY <1>1 DEF WriteApart, Read1
<1>3. G \cap S = {} /\ E \cap G = {}
  BY KindsDiffer
<1> HIDE DEF r, p, G, S, E
<1>4. /\ After(r, 0, E) \/ x \in E => After(p, 0, E)
      /\ Guarded(r, G, E) \/ x \in E => x \in G \/ Guarded(p, G, E)
  BY <1>1, <1>3, AfterAppended, GuardedAppended DEF p
<1>5. ASSUME x \notin S \/ ~Read1(s, c, k)
      PROVE  /\ Read0(s, c, k) => Fenced(p, 0, S, E)
             /\ Apart(p, G, S, E)
  <2>1. Read0(s, c, k) => Fenced(r, 0, S, E) /\ (x \in S => After(r, 0, E))
    BY <1>2, <1>5
  <2>2. x \in S => Guarded(r, G, E) /\ x \notin G
    BY <1>2, <1>3, <1>5
  <2>3. Read0(s, c, k) => Fenced(p, 0, S, E)
    BY <1>1, <2>1, FencedAppended DEF p
  <2>4. Apart(p, G, S, E)
    BY <1>1, <1>2, <2>2, ApartAppended DEF p
  <2> QED BY <2>3, <2>4
<1>6. x \notin G => (Read1(s, c, k)' => Read1(s, c, k))
  BY <1>2, <1>4
<1>7. x \in E => ~Read1(s, c, k)'
  BY <1>2, <1>3, <1>4
<1> QED BY <1>1, <1>5, <1>6, <1>7 DEF G, S, E, p

\* The coordinator reads a command.
LEMMA RequestRead ==
    ASSUME Types, NEW s \in Servers, NEW c \in Clients, NEW k \in Keys,
           WriteApart(s, c, k), requests[s] # <<>>, requests'[s] = Tail(requests[s])
    PROVE  /\ Read0(s, c, k) => Head(requests[s]) \notin SetsOf(c, k)
           /\ /\ Read0(s, c, k)' => Read0(s, c, k) \/ Head(requests[s]) \in GetsOf(c, k)
              /\ Read0(s, c, k)' => Head(requests[s]) \notin EndsOf(c)
              => /\ Read0(s, c, k)' => Fenced(requests'[s], 0, SetsOf(c, k), EndsOf(c))
                 /\ Apart(requests'[s], GetsOf(c, k), SetsOf(c, k), EndsOf(c))
                 /\ Read1(s, c, k)' => Read1(s, c, k)
<1> DEFINE r == requests[s]
           p == Tail(r)
           G == GetsOf(c, k)
           S == SetsOf(c, k)
           E == EndsOf(c)
<1>1. r \in Seq(Coord!Commands) /\ r # <<>> /\ requests'[s] = p
  BY TypeParts DEF ConnectionsTyped
<1>2. /\ Read0(s, c, k) => Fenced(r, 0, S, E)
      /\ Apart(r, G, S, E)
      /\ Read1(s, c, k) <=> (Read0(s, c, k) /\ ~After(r, 0, E)) \/ ~Guarded(r, G, E)
      /\ Read1(s, c, k)' <=> (Read0(s, c, k)' /\ ~After(p, 0, E)) \/ ~Guarded(p, G, E)
  BY <1>1 DEF WriteApart, Read1
<1> HIDE DEF r, p, G, S, E
<1>3. /\ After(r, 0, E) => Head(r) \in E \/ After(p, 0, E)
      /\ Guarded(r, G, E) => Guarded(p, G, E) /\ (Head(r) \in G => After(p, 0, E))
      /\ Fenced(r, 0, S, E) => Head(r) \notin S
      /\ Fenced(r, 0, S, E) /\ Head(r) \notin E => Fenced(p, 0, S, E)
      /\ Apart(p, G, S, E)
      /\ Head(r) \in G => Fenced(p, 0, S, E)
  BY <1>1, <1>2, AfterRested, GuardedRested, FencedRested, ApartRested DEF p
<1>4. ASSUME Read0(s, c, k)' => Read0(s, c, k) \/ Head(r) \in G,
             Read0(s, c, k)' => Head(r) \notin E
      PROVE  /\ Read0(s, c, k)' => Fenced(p, 0, S, E)
             /\ Apart(p, G, S, E)
             /\ Read1(s, c, k)' => Read1(s, c, k)
  BY <1>2, <1>3, <1>4
<1> QED BY <1>1, <1>2, <1>3, <1>4 DEF r, G, S, E

\* A command is added to those on their way to a server.
LEMMA CommandAdded ==
    ASSUME Types, NEW s \in Servers, NEW c \in Clients, NEW k \in Keys,
           WriteApart(s, c, k), Read2(s, c, k)' = Read2(s, c, k),
           NEW x \in Srv!Messages, fromClient'[c][s] = Append(fromClient[c][s], x)
    PROVE  /\ x \notin Sets(k) \/ ~Read3(s, c, k) =>
                 /\ Read2(s, c, k)' => Fenced(fromClient'[c][s], 0, Sets(k), Ends)
                 /\ Apart(fromClient'[c][s], Gets(k), Sets(k), Ends)
           /\ x \notin Gets(k) => (Read3(s, c, k)' => Read3(s, c, k))
           /\ x \in Ends => ~Read3(s, c, k)'
<1> DEFINE r == fromClient[c][s]
           p == Append(r, x)
           G == Gets(k)
           S == Sets(k)
<1>1. r \in Seq(Srv!Messages) /\ 0 <= Len(r) /\ fromClient'[c][s] = p
  BY TypeParts DEF ConnectionsTyped
<1>2. /\ Read2(s, c, k) => Fenced(r, 0, S, Ends)
      /\ Apart(r, G, S, Ends)
      /\ Read3(s, c, k) <=> (Read2(s, c, k) /\ ~After(r, 0, Ends)) \/ ~Guarded(r, G, Ends)
      /\ Read3(s, c, k)' <=> (Read2(s, c, k) /\ ~After(p, 0, Ends)) \/ ~Guarded(p, G, Ends)
  BY <1>1 DEF WriteApart, Read3
<1>3. G \cap S = {} /\ Ends \cap G = {}
  BY KindsDiffer
<1> HIDE DEF r, p, G, S
<1>4. /\ After(r, 0, Ends) \/ x \in Ends => After(p, 0, Ends)
      /\ Guarded(r, G, Ends) \/ x \in Ends => x \in G \/ Guarded(p, G, Ends)
  BY <1>1, <1>3, AfterAppended, GuardedAppended DEF p
<1>5. ASSUME x \notin S \/ ~Read3(s, c, k)
      PROVE  /\ Read2(s, c, k) => Fenced(p, 0, S, Ends)
             /\ Apart(p, G, S, Ends)
  <2>1. Read2(s, c, k) => Fenced(r, 0, S, Ends) /\ (x \in S => After(r, 0, Ends))
    BY <1>2, <1>5
  <2>2. x \in S => Guarded(r, G, Ends) /\ x \notin G
    BY <1>2, <1>3, <1>5
  <2>3. Read2(s, c, k) => Fenced(p, 0, S, Ends)
    BY <1>1, <2>1, FencedAppended DEF p
  <2>4. Apart(p, G, S, Ends)
    BY <1>1, <1>2, <2>2, ApartAppended DEF p
  <2> QED BY <2>3, <2>4
<1>6. x \notin G => (Read3(s, c, k)' => Read3(s, c, k))
  BY <1>2, <1>4
<1>7. x \in Ends => ~Read3(s, c, k)'
  BY <1>2, <1>3, <1>4
<1> QED BY <1>1, <1>5, <1>6, <1>7 DEF G, S, p

\* A server takes a command.
LEMMA CommandLeft ==
    ASSUME Types, NEW s \in Servers, NEW c \in Clients, NEW k \in Keys,
           WriteApart(s, c, k), fromClient[c][s] # <<>>,
           fromClient'[c][s] = Tail(fromClient[c][s])
    PROVE  /\ Read2(s, c, k) => Head(fromClient[c][s]) \notin Sets(k)
           /\ /\ Read2(s, c, k)' => Read2(s, c, k) \/ Head(fromClient[c][s]) \in Gets(k)
              /\ Read2(s, c, k)' => Head(fromClient[c][s]) \notin Ends
              => /\ Read2(s, c, k)' => Fenced(fromClient'[c][s], 0, Sets(k), Ends)
                 /\ Apart(fromClient'[c][s], Gets(k), Sets(k), Ends)
                 /\ Read3(s, c, k)' => Read3(s, c, k)
<1> DEFINE r == fromClient[c][s]
           p == Tail(r)
           G == Gets(k)
           S == Sets(k)
<1>1. r \in Seq(Srv!Messages) /\ r # <<>> /\ fromClient'[c][s] = p
  BY TypeParts DEF ConnectionsTyped
<1>2. /\ Read2(s, c, k) => Fenced(r, 0, S, Ends)
      /\ Apart(r, G, S, Ends)
      /\ Read3(s, c, k) <=> (Read2(s, c, k) /\ ~After(r, 0, Ends)) \/ ~Guarded(r, G, Ends)
      /\ Read3(s, c, k)' <=> (Read2(s, c, k)' /\ ~After(p, 0, Ends)) \/ ~Guarded(p, G, Ends)
  BY <1>1 DEF WriteApart, Read3
<1> HIDE DEF r, p, G, S
<1>3. /\ After(r, 0, Ends) => Head(r) \in Ends \/ After(p, 0, Ends)
      /\ Guarded(r, G, Ends) => Guarded(p, G, Ends) /\ (Head(r) \in G => After(p, 0, Ends))
      /\ Fenced(r, 0, S, Ends) => Head(r) \notin S
      /\ Fenced(r, 0, S, Ends) /\ Head(r) \notin Ends => Fenced(p, 0, S, Ends)
      /\ Apart(p, G, S, Ends)
      /\ Head(r) \in G => Fenced(p, 0, S, Ends)
  BY <1>1, <1>2, AfterRested, GuardedRested, FencedRested, ApartRested DEF p
<1>4. ASSUME Read2(s, c, k)' => Read2(s, c, k) \/ Head(r) \in G,
             Read2(s, c, k)' => Head(r) \notin Ends
      PROVE  /\ Read2(s, c, k)' => Fenced(p, 0, S, Ends)
             /\ Apart(p, G, S, Ends)
             /\ Read3(s, c, k)' => Read3(s, c, k)
  BY <1>2, <1>3, <1>4
<1> QED BY <1>1, <1>2, <1>3, <1>4 DEF r, G, S

------------------------------------------------------------------------------
(* Reads and writes kept apart: the steps                                  *)

\* Less has been read, and nothing else changes.
LEMMA ReadLess ==
    ASSUME NEW s \in Servers, NEW c \in Clients, NEW k \in Keys, WriteApart(s, c, k),
           Read0(s, c, k)' => Read0(s, c, k),
           pc'[s] # "idle" /\ cmd'[s] \in SetsOf(c, k) => c \notin readHolder'[<<s, k>>],
           requests'[s] = requests[s], fromClient'[c][s] = fromClient[c][s],
           Waiting(s, c)' => Waiting(s, c) /\ curr'[s][c] = curr[s][c],
           UNCHANGED <<crashed, script, taken>>
    PROVE  WriteApart(s, c, k)'
<1>1. Read1(s, c, k)' => Read1(s, c, k)
  BY DEF Read1
<1>2. Read2(s, c, k)' => Read2(s, c, k)
  BY <1>1 DEF Read2
<1>3. Read3(s, c, k)' => Read3(s, c, k)
  BY <1>2 DEF Read3
<1>4. TypedApart(s, c, k)' = TypedApart(s, c, k)
  BY DEF TypedApart
<1> QED BY <1>1, <1>2, <1>3, <1>4 DEF WriteApart

LEMMA ServerStepApart ==
    ASSUME Types, UpgradeInv, NEW s \in Servers, NEW c \in Clients, ServerStep(s, c)
    PROVE  UpgradeInv'
<1>1. /\ Srv!Step(s, c)
      /\ UNCHANGED <<readHolder, pc, cmd, script, taken, crashed>>
  BY DEF ServerStep, coordinator, client
<1>2. \A t, d, k : Read0(t, d, k)' = Read0(t, d, k)
  BY <1>1 DEF Read0
<1>3. ASSUME NEW t \in Servers, NEW d \in Clients, NEW k \in Keys
      PROVE  WriteApart(t, d, k)'
  <2>1. /\ WriteApart(t, d, k)
        /\ pc'[t] # "idle" /\ cmd'[t] \in SetsOf(d, k) => d \notin readHolder'[<<t, k>>]
        /\ TypedApart(t, d, k)' = TypedApart(t, d, k)
        /\ crashed' = crashed
    BY <1>1 DEF UpgradeInv, WriteApart, TypedApart
  <2> SUFFICES ASSUME t = s
               PROVE  WriteApart(t, d, k)'
    <3>1. CASE t # s
      <4>1. /\ requests'[t] = requests[t] /\ fromClient'[d][t] = fromClient[d][t]
            /\ curr'[t][d] = curr[t][d] /\ (Waiting(t, d)' <=> Waiting(t, d))
        BY <1>1, <3>1, ServerLeaves
      <4> QED BY <1>1, <1>2, <2>1, <4>1, ReadLess
    <3> QED BY <3>1
  <2>2. CASE d # c
    <3>1. /\ fromClient'[d][t] = fromClient[d][t]
          /\ curr'[t][d] = curr[t][d] /\ (Waiting(t, d)' <=> Waiting(t, d))
      BY <1>1, <2>2, ServerLeaves
    <3>2. CASE requests'[t] = requests[t]
      BY <1>1, <1>2, <2>1, <3>1, <3>2, ReadLess
    <3>3. CASE \E x \in AsksOf(c) \cup EndsOf(c) : requests'[t] = Append(requests[t], x)
      <4>1. PICK x \in AsksOf(c) \cup EndsOf(c) : requests'[t] = Append(requests[t], x)
        BY <3>3
      <4>2. x \in Coord!Commands /\ x \notin GetsOf(d, k) /\ x \notin SetsOf(d, k)
        BY <2>2, CommandsDiffer, KindsDiffer
      <4>3. /\ Read0(t, d, k)' => Fenced(requests'[t], 0, SetsOf(d, k), EndsOf(d))
            /\ Apart(requests'[t], GetsOf(d, k), SetsOf(d, k), EndsOf(d))
            /\ Read1(t, d, k)' => Read1(t, d, k)
        BY <1>2, <2>1, <4>1, <4>2, RequestAdded
      <4>4. Read2(t, d, k)' => Read2(t, d, k)
        BY <3>1, <4>3 DEF Read2
      <4>5. Read3(t, d, k)' => Read3(t, d, k)
        BY <3>1, <4>4 DEF Read3
      <4> QED BY <2>1, <3>1, <4>3, <4>4, <4>5 DEF WriteApart
    <3> QED BY <1>1, <3>2, <3>3, Forwards
  <2>3. CASE d = c /\ GoesOn(s, c)
    <3>1. /\ fromClient'[d][t] = fromClient[d][t] /\ requests'[t] = requests[t]
          /\ Waiting(t, d)' => Waiting(t, d) /\ curr'[t][d] = curr[t][d]
      BY <2>3 DEF GoesOn
    <3> QED BY <1>1, <1>2, <2>1, <3>1, ReadLess
  <2>4. CASE d = c /\ Starts(s, c)
    <3>1. /\ fromClient[d][t] # <<>> /\ fromClient'[d][t] = Tail(fromClient[d][t])
          /\ Head(fromClient[d][t]) \notin Ends /\ requests'[t] = requests[t] /\ ~Waiting(t, d)'
      BY <2>4 DEF Starts, Ends
    <3>2. Read1(t, d, k)' = Read1(t, d, k)
      BY <1>2, <3>1 DEF Read1
    <3>3. Read2(t, d, k)' => Read2(t, d, k)
      BY <3>1, <3>2 DEF Read2
    <3>4. /\ Read2(t, d, k)' => Fenced(fromClient'[d][t], 0, Sets(k), Ends)
          /\ Apart(fromClient'[d][t], Gets(k), Sets(k), Ends)
          /\ Read3(t, d, k)' => Read3(t, d, k)
      BY <2>1, <3>1, <3>3, CommandLeft
    <3> QED BY <1>2, <2>1, <3>1, <3>4 DEF WriteApart
  <2>5. CASE d = c /\ PassesAsk(s, c)
    <3> DEFINE m == Head(fromClient[d][t])
               x == Ask(d, m)
    <3>1. /\ fromClient[d][t] # <<>> /\ fromClient'[d][t] = Tail(fromClient[d][t])
          /\ m \in Asks /\ requests'[t] = Append(requests[t], x) /\ curr'[t][d] = m
      BY <2>5 DEF PassesAsk
    <3>2. /\ x \in Coord!Commands /\ m \notin Ends
          /\ m \in Gets(k) <=> x \in GetsOf(d, k)
          /\ m \in Sets(k) <=> x \in SetsOf(d, k)
          /\ m \in Sets(k) => m \notin Gets(k)
      BY <3>1, Asking, KindsDiffer
    <3> HIDE DEF x, m
    <3>3. m \in Sets(k) => ~Read2(t, d, k)
      BY <2>1, <3>1, CommandLeft DEF m
    <3>4. Read1(t, d, k) => Read2(t, d, k)
      BY DEF Read2
    <3>5. /\ Read0(t, d, k)' => Fenced(requests'[t], 0, SetsOf(d, k), EndsOf(d))
          /\ Apart(requests'[t], GetsOf(d, k), SetsOf(d, k), EndsOf(d))
          /\ m \notin Gets(k) => (Read1(t, d, k)' => Read1(t, d, k))
      BY <1>2, <2>1, <3>1, <3>2, <3>3, <3>4, RequestAdded
    <3>6. Read2(t, d, k)' => Read2(t, d, k) \/ m \in Gets(k)
      BY <3>1, <3>4, <3>5 DEF Read2
    <3>7. /\ Read2(t, d, k)' => Fenced(fromClient'[d][t], 0, Sets(k), Ends)
          /\ Apart(fromClient'[d][t], Gets(k), Sets(k), Ends)
          /\ Read3(t, d, k)' => Read3(t, d, k)
      BY <2>1, <3>1, <3>2, <3>6, CommandLeft DEF m
    <3>8. curr'[t][d] \in Sets(k) => ~Read1(t, d, k)'
      BY <3>1, <3>2, <3>3, <3>4, <3>5
    <3> QED BY <2>1, <3>5, <3>7, <3>8 DEF WriteApart
  <2>6. CASE d = c /\ AsksAgain(s, c)
    <3> DEFINE m == curr[t][d]
               x == Ask(d, m)
    <3>1. /\ Waiting(t, d) /\ m \in Asks /\ fromClient'[d][t] = fromClient[d][t]
          /\ requests'[t] = Append(requests[t], x) /\ curr'[t][d] = m
      BY <2>6 DEF AsksAgain
    <3>2. /\ x \in Coord!Commands
          /\ m \in Gets(k) <=> x \in GetsOf(d, k)
          /\ m \in Sets(k) <=> x \in SetsOf(d, k)
          /\ m \in Sets(k) => m \notin Gets(k)
      BY <3>1, Asking, KindsDiffer
    <3>3. m \in Sets(k) => ~Read1(t, d, k)
      BY <2>1, <3>1 DEF WriteApart
    <3>4. m \in Gets(k) => Read2(t, d, k)
      BY <3>1 DEF Read2
    <3> HIDE DEF x, m
    <3>5. /\ Read0(t, d, k)' => Fenced(requests'[t], 0, SetsOf(d, k), EndsOf(d))
          /\ Apart(requests'[t], GetsOf(d, k), SetsOf(d, k), EndsOf(d))
          /\ m \notin Gets(k) => (Read1(t, d, k)' => Read1(t, d, k))
      BY <1>2, <2>1, <3>1, <3>2, <3>3, RequestAdded
    <3>6. Read2(t, d, k)' => Read2(t, d, k)
      BY <3>1, <3>4, <3>5 DEF Read2
    <3>7. Read3(t, d, k)' => Read3(t, d, k)
      BY <3>1, <3>6 DEF Read3
    <3>8. curr'[t][d] \in Sets(k) => ~Read1(t, d, k)'
      BY <3>1, <3>2, <3>3, <3>5
    <3> QED BY <2>1, <3>1, <3>5, <3>6, <3>7, <3>8 DEF WriteApart
  <2>7. CASE d = c /\ PassesEnd(s, c)
    <3>1. /\ fromClient[d][t] # <<>> /\ fromClient'[d][t] = Tail(fromClient[d][t])
          /\ \E x \in EndsOf(d) : requests'[t] = Append(requests[t], x)
          /\ ~Waiting(t, d)'
      BY <2>7 DEF PassesEnd
    <3>2. PICK x \in EndsOf(d) : requests'[t] = Append(requests[t], x)
      BY <3>1
    <3>3. x \in Coord!Commands /\ x \notin SetsOf(d, k)
      BY CommandsDiffer, KindsDiffer
    <3>4. /\ Read0(t, d, k)' => Fenced(requests'[t], 0, SetsOf(d, k), EndsOf(d))
          /\ Apart(requests'[t], GetsOf(d, k), SetsOf(d, k), EndsOf(d))
          /\ ~Read1(t, d, k)'
      BY <1>2, <2>1, <3>2, <3>3, RequestAdded
    <3>5. ~Read2(t, d, k)'
      BY <3>1, <3>4 DEF Read2
    <3>6. /\ Apart(fromClient'[d][t], Gets(k), Sets(k), Ends)
          /\ Read3(t, d, k)' => Read3(t, d, k)
      BY <2>1, <3>1, <3>5, CommandLeft
    <3> QED BY <2>1, <3>1, <3>4, <3>5, <3>6 DEF WriteApart
  <2> QED BY <1>1, <2>2, <2>3, <2>4, <2>5, <2>6, <2>7, ServerKinds
<1> QED BY <1>1, <1>3 DEF UpgradeInv

\* The coordinator marks reads for GET only.
LEMMA MarksGets ==
    ASSUME Types, NEW s \in Servers, Coord!Step(s),
           \A t \in Servers : pc[t] = "marking" => cmd[t].op = "GET"
    PROVE  \A t \in Servers : pc'[t] = "marking" => cmd'[t].op = "GET"
<1>1. /\ pc \in [Servers -> Coord!Places] /\ Coord!TypeOK
      /\ cmd \in [Servers -> Coord!LockCommands \cup {NoCommand}]
  BY TypeParts DEF Coord!TypeOK
<1>2. CASE Coord!End(s) \/ Coord!StillHeld(s)
  BY <1>2 DEF Coord!End, Coord!StillHeld, Coord!goroutines
<1>3. CASE Coord!Begin(s)
  <2>1. pc' = [pc EXCEPT ![s] = "check"] /\ cmd' = [cmd EXCEPT ![s] = Head(requests[s])]
    BY <1>3 DEF Coord!Begin
  <2> QED BY <1>1, <2>1
<1>4. CASE Works(s)
  <2>1. \A t \in Servers : t # s => pc'[t] = pc[t] /\ cmd'[t] = cmd[t]
    BY <1>4 DEF Works
  <2>2. pc'[s] = "marking" => cmd'[s].op = "GET"
    <3>1. Coord!Finish(s) => pc'[s] = "idle"
      BY <1>1 DEF Coord!Finish
    <3>2. \A from, to : Coord!Move(s, from, to) => pc'[s] = to
      BY <1>1 DEF Coord!Move
    <3>3. CASE Coord!EnterRead(s)
      BY <3>3 DEF Coord!EnterRead
    <3>4. CASE Coord!Decide(s) \/ Coord!Refuse(s) \/ Coord!Hold(s)
      BY <3>2, <3>4 DEF Coord!Decide, Coord!Refuse, Coord!Hold
    <3>5. CASE \/ Coord!GrantWrite(s) \/ Coord!GrantRead(s) \/ Coord!Register(s)
               \/ \E t \in Servers : Coord!LoseMark(s, t)
      BY <3>1, <3>5 DEF Coord!GrantWrite, Coord!GrantRead, Coord!Register, Coord!LoseMark
    <3>6. CASE \E t \in Servers : Coord!MapFault(s, t)
      BY <3>6 DEF Coord!MapFault, Coord!goroutines
    <3> QED BY <1>2, <1>3, <1>4, <3>3, <3>4, <3>5, <3>6 DEF Coord!Step, Works, Coord!End,
                Coord!StillHeld, Coord!Begin, Coord!Read
  <2> QED BY <2>1, <2>2
<1> QED BY <1>1, <1>2, <1>3, <1>4, CoordWorks

LEMMA CoordStepApart ==
    ASSUME Types, UpgradeInv, NEW s \in Servers, CoordinatorStep(s)
    PROVE  UpgradeInv'
<1>1. /\ Coord!Step(s) /\ Coord!TypeOK
      /\ UNCHANGED <<place, curr, fromClient, script, taken, crashed>>
  BY TypeParts DEF CoordinatorStep, client, server
<1>2. \A t \in Servers : pc'[t] = "marking" => cmd'[t].op = "GET"
  BY <1>1, MarksGets DEF UpgradeInv
<1>3. /\ pc \in [Servers -> Coord!Places]
      /\ cmd \in [Servers -> Coord!LockCommands \cup {NoCommand}]
      /\ \A t \in Servers : pc[t] = "idle" <=> cmd[t] = NoCommand
      /\ \A t \in Servers, k \in Keys : <<t, k>> \in Coord!Objects
  BY <1>1 DEF Coord!TypeOK, Coord!Objects
<1>4. ASSUME NEW t \in Servers, NEW d \in Clients, NEW k \in Keys
      PROVE  WriteApart(t, d, k)'
  <2>1. /\ WriteApart(t, d, k)
        /\ TypedApart(t, d, k)' = TypedApart(t, d, k)
        /\ Waiting(t, d)' = Waiting(t, d)
    BY <1>1 DEF UpgradeInv, TypedApart, Waiting
  <2>2. ASSUME t = s, Coord!Read(s),
               Read0(t, d, k)' => Read0(t, d, k) \/ Head(requests[t]) \in GetsOf(d, k),
               Read0(t, d, k)' => Head(requests[t]) \notin EndsOf(d),
               pc'[t] # "idle" /\ cmd'[t] \in SetsOf(d, k) => d \notin readHolder'[<<t, k>>]
        PROVE  WriteApart(t, d, k)'
    <3>1. requests[t] # <<>> /\ requests'[t] = Tail(requests[t])
      BY <2>2, Reads
    <3>2. /\ Read0(t, d, k)' => Fenced(requests'[t], 0, SetsOf(d, k), EndsOf(d))
          /\ Apart(requests'[t], GetsOf(d, k), SetsOf(d, k), EndsOf(d))
          /\ Read1(t, d, k)' => Read1(t, d, k)
      BY <2>1, <2>2, <3>1, RequestRead
    <3>3. Read2(t, d, k)' => Read2(t, d, k)
      BY <1>1, <2>1, <3>2 DEF Read2
    <3>4. Read3(t, d, k)' => Read3(t, d, k)
      BY <1>1, <3>3 DEF Read3
    <3> QED BY <1>1, <2>1, <2>2, <3>2, <3>3, <3>4 DEF WriteApart
  <2>3. ASSUME requests'[t] = requests[t], Read0(t, d, k)' => Read0(t, d, k),
               pc'[t] # "idle" /\ cmd'[t] \in SetsOf(d, k) => d \notin readHolder'[<<t, k>>]
        PROVE  WriteApart(t, d, k)'
    BY <1>1, <2>1, <2>3, ReadLess
  <2>4. CASE Works(s)
    <3>1. requests'[t] = requests[t]
      BY <2>4 DEF Works
    <3>2. /\ t # s => pc'[t] = pc[t] /\ cmd'[t] = cmd[t]
          /\ pc[s] # "idle" /\ (pc'[s] = "idle" \/ cmd'[s] = cmd[s])
          /\ \/ readHolder'[<<t, k>>] = readHolder[<<t, k>>]
             \/ /\ t = s /\ k = cmd[s].key /\ pc[s] = "marking"
                /\ readHolder'[<<t, k>>] = readHolder[<<t, k>>] \cup {cmd[s].client}
                /\ pc'[s] = "idle"
      BY <2>4 DEF Works
    <3>3. pc'[t] # "idle" /\ cmd'[t] \in SetsOf(d, k) => d \notin readHolder'[<<t, k>>]
      BY <2>1, <3>2 DEF WriteApart
    <3>4. ASSUME d \in readHolder'[<<t, k>>], d \notin readHolder[<<t, k>>]
          PROVE  Read0(t, d, k)
      <4>1. t = s /\ k = cmd[s].key /\ pc[s] = "marking" /\ d = cmd[s].client
        BY <3>2, <3>4
      <4>2. cmd[s] \in Coord!LockCommands /\ cmd[s].op = "GET"
        BY <1>3, <4>1 DEF UpgradeInv
      <4> QED BY <4>1, <4>2 DEF Read0, GetsOf, AsksOf
    <3>5. pc'[t] # "idle" /\ cmd'[t] \in GetsOf(d, k) => Read0(t, d, k)
      BY <3>2 DEF Read0
    <3>6. Read0(t, d, k)' => Read0(t, d, k)
      BY <3>4, <3>5 DEF Read0
    <3> QED BY <2>3, <3>1, <3>3, <3>6
  <2>5. CASE Coord!StillHeld(s)
    <3>1. /\ UNCHANGED <<pc, cmd, readHolder>> /\ Coord!Read(s)
          /\ Head(requests[s]) \in Coord!LockCommands
      BY <2>5 DEF Coord!StillHeld, Coord!locks, Coord!goroutines
    <3>2. /\ Read0(t, d, k)' = Read0(t, d, k)
          /\ pc'[t] # "idle" /\ cmd'[t] \in SetsOf(d, k) => d \notin readHolder'[<<t, k>>]
          /\ Head(requests[s]) \notin EndsOf(d)
      BY <2>1, <3>1 DEF Read0, WriteApart, EndsOf, Coord!EndCommands, Coord!LockCommands
    <3>3. t # s => requests'[t] = requests[t]
      BY <3>1, Reads
    <3> QED BY <2>2, <2>3, <3>1, <3>2, <3>3
  <2>6. CASE Coord!Begin(s)
    <3> DEFINE m == Head(requests[s])
    <3>1. /\ readHolder' = readHolder /\ Coord!Read(s) /\ m \in Coord!LockCommands
          /\ pc' = [pc EXCEPT ![s] = "check"] /\ cmd' = [cmd EXCEPT ![s] = m]
      BY <2>6 DEF Coord!Begin, Coord!locks
    <3>2. /\ t # s => pc'[t] = pc[t] /\ cmd'[t] = cmd[t] /\ requests'[t] = requests[t]
          /\ cmd'[s] = m
      BY <1>3, <3>1, Reads
    <3>3. CASE t # s
      <4>1. /\ Read0(t, d, k)' = Read0(t, d, k)
            /\ pc'[t] # "idle" /\ cmd'[t] \in SetsOf(d, k) => d \notin readHolder'[<<t, k>>]
        BY <2>1, <3>1, <3>2, <3>3 DEF Read0, WriteApart
      <4> QED BY <2>3, <3>2, <3>3, <4>1
    <3>4. CASE t = s
      <4>1. requests[t] # <<>> /\ requests'[t] = Tail(requests[t])
        BY <3>1, <3>4, Reads
      <4>2. Read0(t, d, k) => m \notin SetsOf(d, k)
        BY <2>1, <3>4, <4>1, RequestRead
      <4>3. /\ cmd'[t] \in SetsOf(d, k) => d \notin readHolder'[<<t, k>>]
            /\ Read0(t, d, k)' => Read0(t, d, k) \/ m \in GetsOf(d, k)
        BY <3>1, <3>2, <3>4, <4>2 DEF Read0
      <4>4. m \notin EndsOf(d)
        BY <3>1 DEF EndsOf, Coord!EndCommands, Coord!LockCommands
      <4> QED BY <2>2, <3>1, <3>4, <4>3, <4>4
    <3> QED BY <3>3, <3>4
  <2>7. CASE Coord!End(s)
    <3> DEFINE e == Head(requests[s]).client
    <3>1. /\ UNCHANGED <<pc, cmd>> /\ Coord!Read(s) /\ pc[s] = "idle"
          /\ readHolder' = [o \in Coord!Objects |-> readHolder[o] \ {e}]
      BY <2>7 DEF Coord!End, Coord!goroutines, Coord!Read, Coord!abortNode
    <3>2. readHolder'[<<t, k>>] = readHolder[<<t, k>>] \ {e}
      BY <1>3, <3>1
    <3>3. /\ Read0(t, d, k)' => Read0(t, d, k)
          /\ pc'[t] # "idle" /\ cmd'[t] \in SetsOf(d, k) => d \notin readHolder'[<<t, k>>]
          /\ t = s /\ e = d => ~Read0(t, d, k)'
      BY <2>1, <3>1, <3>2 DEF Read0, WriteApart
    <3>4. Head(requests[s]) \in EndsOf(d) => e = d
      BY DEF EndsOf
    <3>5. t # s => requests'[t] = requests[t]
      BY <3>1, Reads
    <3> QED BY <2>2, <2>3, <3>1, <3>3, <3>4, <3>5
  <2> QED BY <1>1, <2>4, <2>5, <2>6, <2>7, CoordWorks
<1> QED BY <1>2, <1>4 DEF UpgradeInv

\* A client without a transaction has read nothing whose end is not on its way.
LEMMA NoneRead ==
    ASSUME LockInv, NEW s \in Servers, NEW c \in Clients, NEW k \in Keys, ~inTransaction[c]
    PROVE  ~Read3(s, c, k)
<1> SUFFICES ASSUME Read3(s, c, k) PROVE FALSE
  OBVIOUS
<1>1. EndFollows(s, c)
  BY DEF LockInv
<1>2. Guarded(fromClient[c][s], Gets(k), Ends)
  BY <1>1, KindsDiffer DEF EndFollows, Guarded
<1>3. Read2(s, c, k) /\ ~Coming(s, c)
  BY <1>2 DEF Read3, Coming
<1>4. Read1(s, c, k)
  BY <1>1, <1>3 DEF Read2, EndFollows
<1>5. Guarded(requests[s], GetsOf(c, k), EndsOf(c))
  BY <1>1, <1>3, KindsDiffer DEF EndFollows, Guarded
<1>6. Read0(s, c, k) /\ ~Ending(s, c)
  BY <1>3, <1>4, <1>5 DEF Read1, Ending
<1>7. HoldsAt(s, c) \/ (pc[s] # "idle" /\ cmd[s].client = c)
  BY <1>6 DEF Read0, HoldsAt, GetsOf, AsksOf
<1> QED BY <1>1, <1>6, <1>7 DEF EndFollows

\* The writes to come stay apart when something else than an end is taken.
LEMMA TakenApart ==
    ASSUME Types, NEW s \in Servers, NEW c \in Clients, NEW k \in Keys,
           script' = script, Takes(c), taken[c] + 1 \in DOMAIN script[c],
           \/ TypedApart(s, c, k) /\ Upcoming(c).op \notin {"COMMIT", "ABORT"}
           \/ /\ NoUpgrades /\ Upcoming(c).op = "GET"
              /\ Upcoming(c).server = s /\ Upcoming(c).key = k
    PROVE  TypedApart(s, c, k)'
<1> DEFINE t == script[c]
           i == taken[c] + 1
<1>1. /\ t \in Seq(User!UserCommands) /\ t \in Scripts /\ taken[c] \in Nat
      /\ \A n \in DOMAIN t : n \in Nat
  <2>1. t \in Scripts /\ taken[c] \in Nat
    BY TypeParts DEF UserTyped
  <2>2. t \in Seq(User!UserCommands)
    BY <2>1, ScriptsAssumption
  <2> QED BY <2>1, <2>2
<1>2. /\ script'[c] = t /\ taken'[c] = i /\ Upcoming(c) = t[i] /\ i \in DOMAIN t
  BY DEF Takes, Upcoming
<1> HIDE DEF t, i
<1>3. ASSUME NEW j \in DOMAIN t, i < j, t[j].op = "SET", t[j].server = s, t[j].key = k
      PROVE  \E n \in DOMAIN t : i < n /\ n < j /\ t[n].op \in {"COMMIT", "ABORT"}
  <2>1. CASE TypedApart(s, c, k) /\ t[i].op \notin {"COMMIT", "ABORT"}
    <3>1. taken[c] < j
      BY <1>1, <1>3 DEF i
    <3>2. PICK n \in DOMAIN t : taken[c] < n /\ n < j /\ t[n].op \in {"COMMIT", "ABORT"}
      BY <1>3, <2>1, <3>1 DEF TypedApart, t
    <3>3. n # i /\ n \in Nat
      BY <1>1, <2>1, <3>2
    <3>4. i < n
      BY <1>1, <3>2, <3>3 DEF i
    <3> QED BY <3>2, <3>4
  <2>2. CASE NoUpgrades /\ t[i].op = "GET" /\ t[i].server = s /\ t[i].key = k
    BY <1>1, <1>2, <1>3, <2>2 DEF NoUpgrades
  <2> QED BY <1>2, <2>1, <2>2
<1> QED BY <1>2, <1>3 DEF TypedApart

LEMMA ClientStepApart ==
    ASSUME Types, LockInv, UpgradeInv, NoUpgrades, NEW c \in Clients, ClientStep(c)
    PROVE  UpgradeInv'
<1>1. User!Step(c) /\ UNCHANGED <<readHolder, pc, cmd, place, curr, requests>>
  BY DEF ClientStep, coordinator, server
<1>2. \A t, d, k : /\ Read0(t, d, k)' = Read0(t, d, k) /\ Read1(t, d, k)' = Read1(t, d, k)
                   /\ Read2(t, d, k)' = Read2(t, d, k) /\ Waiting(t, d)' = Waiting(t, d)
  BY <1>1 DEF Read0, Read1, Read2, Waiting
<1>3. ASSUME NEW t \in Servers, NEW d \in Clients, NEW k \in Keys
      PROVE  WriteApart(t, d, k)'
  <2>1. WriteApart(t, d, k)
    BY DEF UpgradeInv
  <2> SUFFICES /\ Read2(t, d, k) => Fenced(fromClient'[d][t], 0, Sets(k), Ends)
               /\ Apart(fromClient'[d][t], Gets(k), Sets(k), Ends)
               /\ d \notin crashed' /\ Read3(t, d, k)' => TypedApart(t, d, k)'
    BY <1>1, <1>2, <2>1 DEF WriteApart
  <2>2. script' = script /\ crashed \subseteq crashed'
    BY <1>1, ClientKinds
  <2>3. ASSUME fromClient'[d][t] = fromClient[d][t]
        PROVE  /\ Read2(t, d, k) => Fenced(fromClient'[d][t], 0, Sets(k), Ends)
               /\ Apart(fromClient'[d][t], Gets(k), Sets(k), Ends)
               /\ Read3(t, d, k)' = Read3(t, d, k)
    BY <1>2, <2>1, <2>3 DEF WriteApart, Read3
  <2>4. CASE d # c
    <3>1. /\ fromClient'[d][t] = fromClient[d][t] /\ taken'[d] = taken[d]
          /\ d \in crashed' <=> d \in crashed
      BY <1>1, <2>4, ClientLeaves
    <3>2. TypedApart(t, d, k)' = TypedApart(t, d, k)
      BY <2>2, <3>1 DEF TypedApart
    <3> QED BY <2>1, <2>3, <3>1, <3>2 DEF WriteApart
  <2>5. ASSUME d = c, NEW x \in Srv!Messages, fromClient'[d][t] = Append(fromClient[d][t], x)
        PROVE  /\ x \notin Sets(k) \/ ~Read3(t, d, k) =>
                     /\ Read2(t, d, k) => Fenced(fromClient'[d][t], 0, Sets(k), Ends)
                     /\ Apart(fromClient'[d][t], Gets(k), Sets(k), Ends)
               /\ x \notin Gets(k) => (Read3(t, d, k)' => Read3(t, d, k))
               /\ x \in Ends => ~Read3(t, d, k)'
    BY <1>2, <2>1, <2>5, CommandAdded
  <2>6. Takes(c) => c \notin crashed /\ taken[c] + 1 \in DOMAIN script[c]
    <3>1. Takes(c) => taken'[c] # taken[c]
      BY TypeParts DEF UserTyped, Takes
    <3> QED BY <1>1, <3>1, ClientKinds
  <2>7. ASSUME d = c, Takes(c), Upcoming(c).op \notin {"COMMIT", "ABORT"},
               Read3(t, d, k)
        PROVE  TypedApart(t, d, k)'
    <3>1. TypedApart(t, d, k)
      BY <2>1, <2>6, <2>7 DEF WriteApart
    <3> QED BY <2>2, <2>6, <2>7, <3>1, TakenApart
  <2>8. CASE d = c /\ SendsEnd(c)
    <3>1. PICK m \in Ends : fromClient'[d][t] = Append(fromClient[d][t], m)
      BY <2>8 DEF SendsEnd
    <3>2. m \in Srv!Messages /\ m \notin Sets(k)
      BY KindsDiffer
    <3> QED BY <2>5, <2>8, <3>1, <3>2
  <2>9. CASE d = c /\ SendsSomeEnd(c)
    <3>1. d \in crashed'
      BY <2>9 DEF SendsSomeEnd
    <3>2. CASE fromClient'[d][t] = fromClient[d][t]
      BY <2>3, <3>1, <3>2
    <3>3. CASE \E m \in Ends : fromClient'[d][t] = Append(fromClient[d][t], m)
      <4>1. PICK m \in Ends : fromClient'[d][t] = Append(fromClient[d][t], m)
        BY <3>3
      <4>2. m \in Srv!Messages /\ m \notin Sets(k)
        BY KindsDiffer
      <4> QED BY <2>5, <2>9, <3>1, <4>1, <4>2
    <3> QED BY <2>9, <3>2, <3>3 DEF SendsSomeEnd
  <2>10. CASE d = c /\ SendsBegin(c)
    <3>1. /\ Takes(c) /\ Upcoming(c).op \notin {"COMMIT", "ABORT"}
          /\ \E m \in Srv!Messages :
                m.op = "BEGIN" /\ fromClient'[d][t] = Append(fromClient[d][t], m)
      BY <2>10 DEF SendsBegin
    <3>2. PICK m \in Srv!Messages :
                m.op = "BEGIN" /\ fromClient'[d][t] = Append(fromClient[d][t], m)
      BY <3>1
    <3>3. m \notin Sets(k) /\ m \notin Gets(k)
      BY <3>2 DEF Sets, Gets
    <3> QED BY <2>5, <2>7, <2>10, <3>1, <3>2, <3>3
  <2>11. CASE d = c /\ SendsAsk(c)
    <3>1. /\ Takes(c) /\ Upcoming(c).op \in {"SET", "GET"}
          /\ \E m \in Asks :
                /\ m.op = Upcoming(c).op /\ m.key = Upcoming(c).key
                /\ fromClient'[d][t] = IF t = Upcoming(c).server
                                       THEN Append(fromClient[d][t], m) ELSE fromClient[d][t]
      BY <2>11 DEF SendsAsk
    <3>2. PICK m \in Asks :
             /\ m.op = Upcoming(c).op /\ m.key = Upcoming(c).key
             /\ fromClient'[d][t] = IF t = Upcoming(c).server
                                    THEN Append(fromClient[d][t], m) ELSE fromClient[d][t]
      BY <3>1
    <3>3. CASE t # Upcoming(c).server
      <4>1. fromClient'[d][t] = fromClient[d][t]
        BY <3>2, <3>3
      <4> QED BY <2>3, <2>7, <2>11, <3>1, <4>1
    <3>4. CASE t = Upcoming(c).server
      <4>1. m \in Srv!Messages /\ fromClient'[d][t] = Append(fromClient[d][t], m)
        BY <3>2, <3>4, KindsDiffer
      <4>2. CASE m \notin Sets(k) /\ m \notin Gets(k)
        BY <2>5, <2>7, <2>11, <3>1, <4>1, <4>2
      <4>3. CASE m \in Gets(k)
        <5>1. m \notin Sets(k) /\ Upcoming(c).op = "GET" /\ Upcoming(c).key = k
          BY <3>2, <4>3 DEF Gets, Sets
        <5>2. TypedApart(t, d, k)'
          BY <2>2, <2>6, <2>11, <3>1, <3>4, <5>1, TakenApart
        <5> QED BY <2>5, <2>11, <4>1, <5>1, <5>2
      <4>4. CASE m \in Sets(k)
        <5>1. m \notin Gets(k) /\ Upcoming(c).op = "SET" /\ Upcoming(c).key = k
          BY <3>2, <4>4 DEF Gets, Sets
        <5>2. ~TypedApart(t, d, k)
          <6>1. taken[c] \in Nat /\ taken[c] + 1 \in DOMAIN script[c]
                /\ \A n \in DOMAIN script[c] : n \in Nat
            <7>1. script[c] \in Seq(User!UserCommands)
              BY TypeParts, ScriptsAssumption DEF UserTyped
            <7>2. taken[c] \in Nat
              BY TypeParts DEF UserTyped
            <7> QED BY <2>6, <3>1, <7>1, <7>2
          <6> QED BY <2>11, <3>4, <5>1, <6>1 DEF TypedApart, Upcoming
        <5>3. ~Read3(t, d, k)
          BY <2>1, <2>6, <2>11, <3>1, <5>2 DEF WriteApart
        <5> QED BY <2>5, <2>11, <4>1, <5>1, <5>3
      <4> QED BY <4>2, <4>3, <4>4
    <3> QED BY <3>3, <3>4
  <2>12. CASE d = c /\ SendsNothing(c)
    <3>1. fromClient'[d][t] = fromClient[d][t]
      BY <2>12 DEF SendsNothing
    <3>2. CASE taken'[c] = taken[c]
      <4>1. TypedApart(t, d, k)' = TypedApart(t, d, k)
        BY <2>2, <2>12, <3>2 DEF TypedApart
      <4> QED BY <2>1, <2>2, <2>3, <3>1, <4>1 DEF WriteApart
    <3>3. CASE Takes(c) /\ Upcoming(c).op \in {"BEGIN", "GET"}
      BY <2>3, <2>7, <2>12, <3>1, <3>3
    <3>4. CASE Takes(c) /\ Upcoming(c).op = "COMMIT" /\ ~inTransaction[c]
      BY <2>3, <2>12, <3>1, <3>4, NoneRead
    <3> QED BY <2>12, <3>2, <3>3, <3>4 DEF SendsNothing
  <2> QED BY <1>1, <2>4, <2>8, <2>9, <2>10, <2>11, <2>12, ClientKinds
<1> QED BY <1>1, <1>3 DEF UpgradeInv

LEMMA InitApart == Init => UpgradeInv
<1> SUFFICES ASSUME Init PROVE UpgradeInv
  OBVIOUS
<1>1. ASSUME NEW s \in Servers
      PROVE  pc[s] = "idle" /\ requests[s] = <<>>
  BY DEF Init, Coord!Init
<1>2. ASSUME NEW s \in Servers, NEW c \in Clients, NEW k \in Keys
      PROVE  WriteApart(s, c, k)
  <2>1. /\ fromClient[c][s] = <<>> /\ place[s][c] = "idle" /\ readHolder[<<s, k>>] = {}
    BY DEF Init, Srv!Init, Coord!Init, Coord!Objects
  <2>2. /\ \A G, E : Guarded(<<>>, G, E) /\ \A S : Apart(<<>>, G, S, E)
    BY DEF Guarded, Apart
  <2>3. ~Read0(s, c, k) /\ ~Waiting(s, c)
    BY <1>1, <2>1 DEF Read0, Waiting
  <2>4. ~Read1(s, c, k)
    BY <1>1, <2>2, <2>3 DEF Read1
  <2>5. ~Read2(s, c, k)
    BY <2>3, <2>4 DEF Read2
  <2>6. ~Read3(s, c, k)
    BY <2>1, <2>2, <2>5 DEF Read3
  <2> QED BY <1>1, <2>1, <2>2, <2>3, <2>5, <2>6 DEF WriteApart
<1> QED BY <1>1, <1>2 DEF UpgradeInv

LEMMA StutterApart ==
    ASSUME UpgradeInv, UNCHANGED vars
    PROVE  UpgradeInv'
<1>1. UNCHANGED <<script, taken, crashed, fromClient, requests, place, curr, pc, cmd, readHolder>>
  BY DEF vars, coordinator, server, client
<1>2. \A t, d, k : /\ Read0(t, d, k)' = Read0(t, d, k) /\ Read1(t, d, k)' = Read1(t, d, k)
                   /\ Read2(t, d, k)' = Read2(t, d, k) /\ Read3(t, d, k)' = Read3(t, d, k)
                   /\ Waiting(t, d)' = Waiting(t, d)
                   /\ TypedApart(t, d, k)' = TypedApart(t, d, k)
  BY <1>1 DEF Read0, Read1, Read2, Read3, Waiting, TypedApart
<1>3. \A t, d, k : WriteApart(t, d, k)' = WriteApart(t, d, k)
  BY <1>1, <1>2 DEF WriteApart
<1> QED BY <1>1, <1>3 DEF UpgradeInv

------------------------------------------------------------------------------
(* Whoever is on hold waits for another                                    *)

\* Those a refused command finds in the way.
LEMMA InTheWay ==
    ASSUME Types, LockInv, UpgradeInv, NEW s \in Servers, Coord!Refuse(s)
    PROVE  /\ cmd'[s] = cmd[s] /\ blockers'[s] # {}
           /\ \A d \in blockers'[s] : d \in Clients /\ d # cmd[s].client /\ Ending(s, d)
<1>1. /\ pc[s] = "check" /\ UNCHANGED cmd /\ ~Coord!Grantable(s)
      /\ blockers' = [blockers EXCEPT ![s] = Coord!Blockers(s)]
  BY DEF Coord!Refuse, Coord!Move
<1>2. /\ blockers \in [Servers -> SUBSET Clients]
      /\ cmd[s] \in Coord!LockCommands
      /\ keyHolder \in [Coord!Objects -> Clients \cup {NoClient}]
      /\ readHolder \in [Coord!Objects -> SUBSET Clients]
  BY <1>1, TypeParts DEF Coord!TypeOK
<1> DEFINE k == cmd[s].key
           o == <<s, k>>
           c == cmd[s].client
<1>3. /\ k \in Keys /\ c \in Clients /\ o \in Coord!Objects /\ cmd[s].op \in {"SET", "GET"}
      /\ NoClient \notin Clients
  BY <1>2, NullsAssumption DEF Coord!LockCommands, Coord!Objects
<1>4. \A d \in Clients : HoldsAt(s, d) => Ending(s, d)
  BY DEF LockInv, EndFollows
<1>5. blockers'[s] = IF keyHolder[o] # NoClient THEN {keyHolder[o]} ELSE readHolder[o]
  <2>1. readHolder[o] \subseteq Clients
    BY <1>2, <1>3
  <2> QED BY <1>1, <1>2, <2>1 DEF Coord!Blockers, Coord!Object
<1>6. ~(keyHolder[o] = c) /\ ~(keyHolder[o] = NoClient /\ (cmd[s].op = "SET" => readHolder[o] = {}))
  BY <1>1 DEF Coord!Grantable, Coord!Object
<1>7. CASE keyHolder[o] # NoClient
  <2>1. keyHolder[o] \in Clients /\ keyHolder[o] # c /\ blockers'[s] = {keyHolder[o]}
    BY <1>2, <1>3, <1>5, <1>6, <1>7
  <2>2. HoldsAt(s, keyHolder[o])
    BY <1>3 DEF HoldsAt
  <2> QED BY <1>1, <1>4, <2>1, <2>2
<1>8. CASE keyHolder[o] = NoClient
  <2>1. cmd[s].op = "SET" /\ readHolder[o] # {} /\ blockers'[s] = readHolder[o]
        /\ readHolder[o] \subseteq Clients
    BY <1>2, <1>3, <1>5, <1>6, <1>8
  <2>2. cmd[s] \in SetsOf(c, k)
    BY <1>2, <2>1 DEF SetsOf, AsksOf
  <2>3. c \notin readHolder[o]
    BY <1>1, <1>3, <2>2 DEF UpgradeInv, WriteApart
  <2>4. \A d \in readHolder[o] : HoldsAt(s, d)
    BY <1>3 DEF HoldsAt
  <2> QED BY <1>1, <1>4, <2>1, <2>3, <2>4
<1> QED BY <1>7, <1>8

\* What a step of a goroutine does to those on hold.
LetsGo(s) ==
    LET e == Head(requests[s]).client
    IN  /\ pc[s] = "idle" /\ UNCHANGED <<pc, cmd, blockers>>
        /\ Coord!End(s)
        /\ holds' = holds \ holderDependant[e]
        /\ holderDependant' = [holderDependant EXCEPT ![e] = {}]

Refuses(s) ==
    /\ Coord!Refuse(s) /\ pc'[s] = "hold" /\ UNCHANGED <<holds, holderDependant>>
    /\ \A t \in Servers : t # s => pc'[t] = pc[t] /\ cmd'[t] = cmd[t] /\ blockers'[t] = blockers[t]

Holds(s) ==
    /\ pc[s] = "hold" /\ pc'[s] = "register"
    /\ UNCHANGED <<cmd, blockers, holderDependant>>
    /\ holds' = holds \cup {cmd[s].client}
    /\ \A t \in Servers : t # s => pc'[t] = pc[t]

Registers(s) ==
    /\ pc[s] = "register" /\ pc'[s] = "idle" /\ UNCHANGED holds
    /\ \A d \in Clients : holderDependant'[d] =
          IF d \in blockers[s] THEN holderDependant[d] \cup {cmd[s].client} ELSE holderDependant[d]
    /\ \A t \in Servers : t # s => pc'[t] = pc[t] /\ cmd'[t] = cmd[t] /\ blockers'[t] = blockers[t]

HoldsNobody(s) ==
    /\ UNCHANGED <<holds, holderDependant>>
    /\ \A t \in Servers :
          \/ pc'[t] = pc[t] /\ cmd'[t] = cmd[t] /\ blockers'[t] = blockers[t]
          \/ {pc[t], pc'[t]} \cap {"hold", "register"} = {}

LEMMA CoordHolds ==
    ASSUME Types, NEW s \in Servers, Coord!Step(s)
    PROVE  LetsGo(s) \/ Refuses(s) \/ Holds(s) \/ Registers(s) \/ HoldsNobody(s)
<1>1. /\ pc \in [Servers -> Coord!Places] /\ blockers \in [Servers -> SUBSET Clients]
      /\ cmd \in [Servers -> Coord!LockCommands \cup {NoCommand}]
  BY TypeParts DEF Coord!TypeOK
<1>2. Coord!Finish(s) =>
         /\ pc'[s] = "idle"
         /\ \A t \in Servers : t # s =>
               pc'[t] = pc[t] /\ cmd'[t] = cmd[t] /\ blockers'[t] = blockers[t]
  BY <1>1 DEF Coord!Finish
<1>3. \A from, to : Coord!Move(s, from, to) =>
         pc[s] = from /\ pc'[s] = to /\ \A t \in Servers : t # s => pc'[t] = pc[t]
  BY <1>1 DEF Coord!Move
<1>4. CASE Coord!End(s)
  BY <1>4 DEF LetsGo, Coord!End, Coord!abortNode, Coord!goroutines, Coord!Read
<1>5. CASE Coord!StillHeld(s) \/ \E t \in Servers : Coord!MapFault(s, t)
  BY <1>5 DEF HoldsNobody, Coord!StillHeld, Coord!MapFault, Coord!waiting, Coord!goroutines
<1>6. CASE Coord!Begin(s)
  <2>1. /\ pc[s] = "idle" /\ UNCHANGED <<holds, holderDependant, blockers>>
        /\ pc' = [pc EXCEPT ![s] = "check"] /\ cmd' = [cmd EXCEPT ![s] = Head(requests[s])]
    BY <1>6 DEF Coord!Begin, Coord!Read, Coord!waiting
  <2>2. pc'[s] = "check" /\ \A t \in Servers : t # s => pc'[t] = pc[t] /\ cmd'[t] = cmd[t]
    BY <1>1, <2>1
  <2> QED BY <2>1, <2>2 DEF HoldsNobody
<1>7. CASE Coord!Decide(s) \/ Coord!EnterRead(s)
  BY <1>3, <1>7 DEF HoldsNobody, Coord!Decide, Coord!EnterRead, Coord!waiting
<1>8. CASE Coord!GrantWrite(s) \/ Coord!GrantRead(s) \/ \E t \in Servers : Coord!LoseMark(s, t)
  <2>1. /\ Coord!Finish(s) /\ pc[s] \in {"grant", "marking"}
        /\ UNCHANGED <<holds, holderDependant>>
    BY <1>8 DEF Coord!GrantWrite, Coord!GrantRead, Coord!LoseMark, Coord!waiting
  <2> QED BY <1>2, <2>1 DEF HoldsNobody
<1>9. CASE Coord!Refuse(s)
  <2>1. /\ Coord!Move(s, "check", "hold") /\ UNCHANGED <<holds, holderDependant, cmd>>
        /\ blockers' = [blockers EXCEPT ![s] = Coord!Blockers(s)]
    BY <1>9 DEF Coord!Refuse, Coord!waiting
  <2> QED BY <1>1, <1>3, <1>9, <2>1 DEF Refuses
<1>10. CASE Coord!Hold(s)
  BY <1>3, <1>10 DEF Holds, Coord!Hold
<1>11. CASE Coord!Register(s)
  <2>1. /\ pc[s] = "register" /\ Coord!Finish(s) /\ UNCHANGED holds
        /\ holderDependant' = [d \in Clients |->
              IF d \in blockers[s] THEN holderDependant[d] \cup {cmd[s].client}
                                   ELSE holderDependant[d]]
    BY <1>11 DEF Coord!Register
  <2> QED BY <1>2, <2>1 DEF Registers
<1> QED BY <1>4, <1>5, <1>6, <1>7, <1>8, <1>9, <1>10, <1>11 DEF Coord!Step

LEMMA CoordStepHolds ==
    ASSUME Types, LockInv, UpgradeInv, HoldInv, NEW s \in Servers, CoordinatorStep(s)
    PROVE  HoldInv'
<1>1. /\ Coord!Step(s)
      /\ holderDependant \in [Clients -> SUBSET Clients]
      /\ blockers \in [Servers -> SUBSET Clients]
      /\ \A t \in Servers : pc[t] # "idle" => cmd[t].client \in Clients
  BY TypeParts DEF CoordinatorStep, Coord!TypeOK, Coord!LockCommands
<1>2. /\ \A c \in Clients : c \notin holderDependant[c]
      /\ \A t \in Servers : pc[t] \in {"hold", "register"} =>
            /\ blockers[t] # {}
            /\ \A d \in blockers[t] : d # cmd[t].client /\ Ending(t, d)
      /\ \A c \in holds : \E t \in Servers, d \in Clients : HeldBy(c, t, d)
  BY DEF HoldInv, NoSelfWait, Refused
<1>3. ASSUME ~Coord!End(s), NEW t \in Servers, NEW d \in Clients, Ending(t, d)
      PROVE  Ending(t, d)'
  BY <1>3, CoordEnds
<1>4. CASE LetsGo(s)
  <2> DEFINE e == Head(requests[s]).client
  <2>1. /\ pc[s] = "idle" /\ UNCHANGED <<pc, cmd, blockers>>
        /\ holds' = holds \ holderDependant[e]
        /\ \A d \in Clients :
              holderDependant'[d] = IF d = e THEN {} ELSE holderDependant[d]
    BY <1>1, <1>4 DEF LetsGo
  <2>2. ASSUME NEW t \in Servers, NEW d \in Clients, t # s \/ d # e, Ending(t, d)
        PROVE  Ending(t, d)'
    BY <2>2, CoordEnds
  <2>3. NoSelfWait'
    BY <1>2, <2>1 DEF NoSelfWait
  <2>4. ASSUME NEW t \in Servers
        PROVE  Refused(t)'
    BY <1>1, <1>2, <2>1, <2>2 DEF Refused
  <2>5. ASSUME NEW c \in holds'
        PROVE  \E t \in Servers, d \in Clients : HeldBy(c, t, d)'
    <3>1. c \in holds /\ c \notin holderDependant[e]
      BY <2>1, <2>5
    <3>2. PICK t \in Servers, d \in Clients : HeldBy(c, t, d)
      BY <1>2, <3>1
    <3>3. t # s \/ d # e
      BY <2>1, <3>1, <3>2 DEF HeldBy
    <3>4. Ending(t, d)'
      BY <2>2, <3>2, <3>3 DEF HeldBy
    <3>5. HeldBy(c, t, d)'
      BY <2>1, <3>1, <3>2, <3>4 DEF HeldBy
    <3> QED BY <3>5
  <2> QED BY <2>3, <2>4, <2>5 DEF HoldInv
<1>5. CASE Refuses(s)
  <2>1. /\ Coord!Refuse(s) /\ pc[s] = "check" /\ UNCHANGED <<holds, holderDependant>>
        /\ \A t \in Servers : t # s =>
              pc'[t] = pc[t] /\ cmd'[t] = cmd[t] /\ blockers'[t] = blockers[t]
    BY <1>5 DEF Refuses, Coord!Refuse, Coord!Move
  <2>2. ~Coord!End(s)
    BY <2>1 DEF Coord!End, Coord!Read
  <2>3. ASSUME NEW t \in Servers
        PROVE  Refused(t)'
    <3>1. CASE t = s
      BY <1>3, <2>1, <2>2, <3>1, InTheWay DEF Refused
    <3>2. CASE t # s
      BY <1>1, <1>2, <1>3, <2>1, <2>2, <3>2 DEF Refused
    <3> QED BY <3>1, <3>2
  <2>4. ASSUME NEW c \in holds'
        PROVE  \E t \in Servers, d \in Clients : HeldBy(c, t, d)'
    <3>1. PICK t \in Servers, d \in Clients : HeldBy(c, t, d)
      BY <1>2, <2>1, <2>4
    <3>2. HeldBy(c, t, d)'
      BY <1>3, <2>1, <2>2, <3>1 DEF HeldBy
    <3> QED BY <3>2
  <2> QED BY <1>2, <2>1, <2>3, <2>4 DEF HoldInv, NoSelfWait
<1>6. CASE Holds(s)
  <2>1. /\ pc[s] = "hold" /\ pc'[s] = "register"
        /\ UNCHANGED <<cmd, blockers, holderDependant>>
        /\ holds' = holds \cup {cmd[s].client}
        /\ \A t \in Servers : t # s => pc'[t] = pc[t]
    BY <1>6 DEF Holds
  <2>2. ~Coord!End(s)
    BY <2>1 DEF Coord!End, Coord!Read
  <2>3. \A t \in Servers : Refused(t)'
    BY <1>1, <1>2, <1>3, <2>1, <2>2 DEF Refused
  <2>4. ASSUME NEW c \in holds'
        PROVE  \E t \in Servers, d \in Clients : HeldBy(c, t, d)'
    <3>1. CASE c \in holds
      <4>1. PICK t \in Servers, d \in Clients : HeldBy(c, t, d)
        BY <1>2, <3>1
      <4>2. HeldBy(c, t, d)'
        BY <1>3, <2>1, <2>2, <4>1 DEF HeldBy
      <4> QED BY <4>2
    <3>2. CASE c = cmd[s].client
      <4>1. PICK d \in blockers[s] : d # c /\ Ending(s, d)
        BY <1>2, <2>1, <3>2
      <4>2. d \in Clients
        BY <1>1
      <4>3. HeldBy(c, s, d)'
        BY <1>3, <2>1, <2>2, <3>2, <4>1, <4>2 DEF HeldBy
      <4> QED BY <4>2, <4>3
    <3> QED BY <2>1, <2>4, <3>1, <3>2
  <2> QED BY <1>2, <2>1, <2>3, <2>4 DEF HoldInv, NoSelfWait
<1>7. CASE Registers(s)
  <2>1. /\ pc[s] = "register" /\ pc'[s] = "idle" /\ UNCHANGED holds
        /\ \A d \in Clients : holderDependant'[d] =
              IF d \in blockers[s] THEN holderDependant[d] \cup {cmd[s].client}
                                   ELSE holderDependant[d]
        /\ \A t \in Servers : t # s =>
              pc'[t] = pc[t] /\ cmd'[t] = cmd[t] /\ blockers'[t] = blockers[t]
    BY <1>7 DEF Registers
  <2>2. ~Coord!End(s)
    BY <2>1 DEF Coord!End, Coord!Read
  <2>3. \A t \in Servers : Refused(t)'
    BY <1>1, <1>2, <1>3, <2>1, <2>2 DEF Refused
  <2>4. NoSelfWait'
    <3>1. \A c \in Clients : c \in blockers[s] => c # cmd[s].client
      BY <1>2, <2>1
    <3>2. ASSUME NEW c \in Clients
          PROVE  c \notin holderDependant'[c]
      <4>1. c \notin holderDependant[c]
        BY <1>2
      <4>2. holderDependant'[c] = IF c \in blockers[s] THEN holderDependant[c] \cup {cmd[s].client}
                                                      ELSE holderDependant[c]
        BY <2>1
      <4> QED BY <3>1, <4>1, <4>2
    <3> QED BY <3>2 DEF NoSelfWait
  <2>5. ASSUME NEW c \in holds'
        PROVE  \E t \in Servers, d \in Clients : HeldBy(c, t, d)'
    <3>1. PICK t \in Servers, d \in Clients : HeldBy(c, t, d)
      BY <1>2, <2>1, <2>5
    <3>2. Ending(t, d)'
      BY <1>3, <2>2, <3>1 DEF HeldBy
    <3>3. \/ c \in holderDependant'[d]
          \/ pc'[t] = "register" /\ cmd'[t].client = c /\ d \in blockers'[t]
      BY <2>1, <3>1 DEF HeldBy
    <3>4. HeldBy(c, t, d)'
      BY <3>1, <3>2, <3>3 DEF HeldBy
    <3> QED BY <3>4
  <2> QED BY <2>3, <2>4, <2>5 DEF HoldInv
<1>8. CASE HoldsNobody(s) /\ ~Coord!End(s)
  <2>1. /\ UNCHANGED <<holds, holderDependant>>
        /\ \A t \in Servers :
              \/ pc'[t] = pc[t] /\ cmd'[t] = cmd[t] /\ blockers'[t] = blockers[t]
              \/ /\ pc[t] \notin {"hold", "register"}
                 /\ pc'[t] \notin {"hold", "register"}
    BY <1>8 DEF HoldsNobody
  <2>2. \A t \in Servers : Refused(t)'
    BY <1>1, <1>2, <1>3, <1>8, <2>1 DEF Refused
  <2>3. ASSUME NEW c \in holds'
        PROVE  \E t \in Servers, d \in Clients : HeldBy(c, t, d)'
    <3>1. PICK t \in Servers, d \in Clients : HeldBy(c, t, d)
      BY <1>2, <2>1, <2>3
    <3>2. HeldBy(c, t, d)'
      BY <1>3, <1>8, <2>1, <3>1 DEF HeldBy
    <3> QED BY <3>2
  <2> QED BY <1>2, <2>1, <2>2, <2>3 DEF HoldInv, NoSelfWait
<1>9. Coord!End(s) => LetsGo(s)
  BY DEF LetsGo, Coord!End, Coord!abortNode, Coord!goroutines, Coord!Read
<1> QED BY <1>1, <1>4, <1>5, <1>6, <1>7, <1>8, <1>9, CoordHolds

\* The other steps leave those on hold, and the ends they wait for, alone.
LEMMA OtherStepHolds ==
    ASSUME Types, HoldInv,
           UNCHANGED <<pc, cmd, blockers, holds, holderDependant>>,
           \A t \in Servers, d \in Clients : Ending(t, d) => Ending(t, d)'
    PROVE  HoldInv'
<1>1. blockers \in [Servers -> SUBSET Clients]
  BY TypeParts DEF Coord!TypeOK
<1>2. NoSelfWait'
  BY DEF HoldInv, NoSelfWait
<1>3. \A t \in Servers : Refused(t)'
  BY <1>1 DEF HoldInv, Refused
<1>4. \A c, t, d : t \in Servers /\ d \in Clients /\ HeldBy(c, t, d) => HeldBy(c, t, d)'
  BY DEF HeldBy
<1> QED BY <1>2, <1>3, <1>4 DEF HoldInv

LEMMA StepHolds ==
    ASSUME Types, LockInv, UpgradeInv, HoldInv, [Next]_vars
    PROVE  HoldInv'
<1>1. ASSUME NEW s \in Servers, NEW c \in Clients, ServerStep(s, c)
      PROVE  HoldInv'
  <2>1. /\ Srv!Step(s, c) /\ UNCHANGED inTransaction
        /\ UNCHANGED <<pc, cmd, blockers, holds, holderDependant>>
    BY <1>1 DEF ServerStep, coordinator, client
  <2>2. \A t \in Servers, d \in Clients : Ending(t, d) => Ending(t, d)'
    BY <2>1, ServerEnds
  <2> QED BY <2>1, <2>2, OtherStepHolds
<1>2. ASSUME NEW c \in Clients, ClientStep(c)
      PROVE  HoldInv'
  <2>1. /\ User!Step(c) /\ UNCHANGED requests
        /\ UNCHANGED <<pc, cmd, blockers, holds, holderDependant>>
    BY <1>2 DEF ClientStep, coordinator
  <2>2. \A t \in Servers, d \in Clients : Ending(t, d) => Ending(t, d)'
    BY <2>1, ClientEnds
  <2> QED BY <2>1, <2>2, OtherStepHolds
<1>3. CASE UNCHANGED vars
  <2>1. UNCHANGED <<pc, cmd, blockers, holds, holderDependant, inTransaction, fromClient, requests>>
    BY <1>3 DEF vars, coordinator, client
  <2>2. \A t, d : Ending(t, d)' = Ending(t, d)
    BY <2>1 DEF Ending, Coming
  <2> QED BY <2>1, <2>2, OtherStepHolds
<1> QED BY <1>1, <1>2, <1>3, CoordStepHolds DEF Next

LEMMA InitHolds == Init => HoldInv
BY DEF Init, Coord!Init, HoldInv, NoSelfWait, Refused

LEMMA HoldsCorrect ==
    ASSUME SetsInside, NoUpgrades
    PROVE  Spec => [](Types /\ LockInv /\ UpgradeInv /\ HoldInv)
<1>1. Init => Types /\ LockInv /\ UpgradeInv /\ HoldInv
  BY InitTypes, InitLocks, InitApart, InitHolds
<1>2. Types /\ LockInv /\ [Next]_vars => Types' /\ LockInv'
  BY StepTypes, ServerStepLocks, ClientStepLocks, CoordStepLocks, StutterLocks DEF Next
<1>3. Types /\ LockInv /\ UpgradeInv /\ [Next]_vars => UpgradeInv'
  BY ServerStepApart, ClientStepApart, CoordStepApart, StutterApart DEF Next
<1>4. Types /\ LockInv /\ UpgradeInv /\ HoldInv /\ [Next]_vars => HoldInv'
  BY StepHolds
<1>5. /\ Types /\ LockInv /\ UpgradeInv /\ HoldInv /\ [Next]_vars
      => (Types /\ LockInv /\ UpgradeInv /\ HoldInv)'
  BY <1>2, <1>3, <1>4
<1> QED BY <1>1, <1>5, PTL DEF Spec

\* Provided users type SET in a transaction only, and no SET of what the transaction
\* has read, a client on hold waits for another client that has yet to end its
\* transaction: whichever of the goroutines that decide, put on hold, register and
\* release comes first, nobody is left on hold behind one who has nothing more to end.
THEOREM HeldWaitForOthers ==
    ASSUME SetsInside, NoUpgrades
    PROVE  Spec => []HeldForSomeone
<1>1. ASSUME HoldInv
      PROVE  HeldForSomeone
  <2>1. ASSUME NEW s \in Servers, NEW d \in Clients, Settled(d)
        PROVE  ~Ending(s, d)
    <3>1. /\ ~inTransaction[d] /\ fromClient[d][s] = <<>>
          /\ \A i \in DOMAIN requests[s] : requests[s][i].client # d
      BY <2>1 DEF Settled
    <3> QED BY <3>1 DEF Ending, Coming, After, EndsOf
  <2> QED BY <1>1, <2>1 DEF HoldInv, HeldBy, HeldForSomeone
<1> QED BY <1>1, HoldsCorrect, PTL

\* Under the same conditions no client is in its own list of waiting clients, which
\* only an end of its own transaction, behind the command that waits, would clear.
THEOREM NobodyWaitsOnItself ==
    ASSUME SetsInside, NoUpgrades
    PROVE  Spec => []NoSelfWait
BY HoldsCorrect, PTL DEF HoldInv
==============================================================================
