------------------------ MODULE TransactionWriteProofs ------------------------
(***************************************************************************)
(* A server of the distributed transaction system stores only what         *)
(* committed transactions wrote, and a client reads nothing else of other  *)
(* clients, whatever the users type.                                       *)
(***************************************************************************)
EXTENDS TransactionProofs

\* An ABORT in q is handled before the next COMMIT, and before it is what is at i.
Clears(q, i) ==
    \E j \in DOMAIN q : /\ i <= j /\ q[j].op = "ABORT"
                        /\ \A n \in DOMAIN q : i <= n /\ n < j => q[n].op # "COMMIT"

\* The values a server has of a client, and its commands on their way there: each
\* value is of a transaction that was committed or is the client's latest, or an
\* ABORT comes before a COMMIT; and what is there when a COMMIT comes was committed.
Writes(values, q, committed, own) ==
    /\ \A v \in values : v \in committed \/ v = own \/ Clears(q, 1)
    /\ \A i \in DOMAIN q : q[i].op = "SET" =>
          q[i].value \in committed \/ q[i].value = own \/ Clears(q, i)
    /\ \A n \in DOMAIN q : q[n].op = "COMMIT" =>
          /\ \A v \in values : v \in committed \/ Clears(q, 1)
          /\ \A i \in DOMAIN q : i < n /\ q[i].op = "SET" =>
                q[i].value \in committed \/ Clears(q, i)

Stored == Committed \cup {NoValue}
Deltas(s, c) == {deltas[s][c][k] : k \in Keys}

\* What server s has of client c, and what is on its way there, is kept apart from
\* what is stored until it is committed.
Separate(s, c) ==
    /\ Writes(Deltas(s, c), fromClient[c][s], Stored, User!Transaction(c))
    /\ place[s][c] = "applying" => Deltas(s, c) \subseteq Stored

WritesInv ==
    /\ \A s \in Servers, c \in Clients : Separate(s, c)
    /\ \A s \in Servers, k \in Keys : store[s][k] \in Stored

------------------------------------------------------------------------------
(* Commands sent and commands handled                                      *)

\* A sequence with one more at its end.
LEMMA Appended ==
    ASSUME NEW S, NEW q \in Seq(S), NEW m \in S
    PROVE  /\ Len(q) \in Nat /\ DOMAIN q = 1..Len(q)
           /\ DOMAIN Append(q, m) = 1..(Len(q) + 1)
           /\ \A i \in 1..Len(q) : Append(q, m)[i] = q[i]
           /\ Append(q, m)[Len(q) + 1] = m
OBVIOUS

\* A sequence without its first.
LEMMA Rested ==
    ASSUME NEW S, NEW q \in Seq(S), q # <<>>
    PROVE  /\ Len(q) \in Nat /\ Len(q) >= 1 /\ DOMAIN q = 1..Len(q)
           /\ Head(q) = q[1]
           /\ DOMAIN Tail(q) = 1..(Len(q) - 1)
           /\ \A i \in 1..(Len(q) - 1) : Tail(q)[i] = q[i + 1]
OBVIOUS

LEMMA ClearsAppended ==
    ASSUME NEW S, NEW q \in Seq(S), NEW m \in S, NEW i \in Nat
    PROVE  /\ Clears(q, i) => Clears(Append(q, m), i)
           /\ /\ i <= Len(q) + 1 /\ m.op = "ABORT"
              /\ \A n \in DOMAIN q : n < i \/ q[n].op # "COMMIT"
              => Clears(Append(q, m), i)
<1> DEFINE p == Append(q, m)
<1>1. /\ Len(q) \in Nat /\ DOMAIN q = 1..Len(q) /\ DOMAIN p = 1..(Len(q) + 1)
      /\ \A n \in 1..Len(q) : p[n] = q[n]
      /\ p[Len(q) + 1] = m
  BY Appended
<1> HIDE DEF p
<1>2. ASSUME Clears(q, i)
      PROVE  Clears(p, i)
  <2>1. PICK j \in DOMAIN q : /\ i <= j /\ q[j].op = "ABORT"
                              /\ \A n \in DOMAIN q : i <= n /\ n < j => q[n].op # "COMMIT"
    BY <1>2 DEF Clears
  <2>2. j \in DOMAIN p /\ p[j].op = "ABORT"
    BY <1>1, <2>1
  <2>3. \A n \in DOMAIN p : i <= n /\ n < j => p[n].op # "COMMIT"
    BY <1>1, <2>1
  <2> QED BY <2>1, <2>2, <2>3 DEF Clears
<1>3. ASSUME i <= Len(q) + 1, m.op = "ABORT",
             \A n \in DOMAIN q : n < i \/ q[n].op # "COMMIT"
      PROVE  Clears(p, i)
  <2>1. Len(q) + 1 \in DOMAIN p /\ p[Len(q) + 1].op = "ABORT"
    BY <1>1, <1>3
  <2>2. \A n \in DOMAIN p : i <= n /\ n < Len(q) + 1 => p[n].op # "COMMIT"
    BY <1>1, <1>3
  <2> QED BY <1>3, <2>1, <2>2 DEF Clears
<1> QED BY <1>2, <1>3 DEF p

LEMMA ClearsRested ==
    ASSUME NEW S, NEW q \in Seq(S), q # <<>>
    PROVE  /\ \A i \in Nat \ {0} : Clears(q, i + 1) => Clears(Tail(q), i)
           /\ Head(q).op # "ABORT" /\ Clears(q, 1) => Clears(Tail(q), 1)
           /\ Head(q).op = "COMMIT" => ~Clears(q, 1)
<1> DEFINE p == Tail(q)
<1>1. /\ Len(q) \in Nat /\ Len(q) >= 1 /\ DOMAIN q = 1..Len(q) /\ Head(q) = q[1]
      /\ DOMAIN p = 1..(Len(q) - 1)
      /\ \A n \in 1..(Len(q) - 1) : p[n] = q[n + 1]
  BY Rested
<1> HIDE DEF p
<1>2. ASSUME NEW i \in Nat \ {0}, Clears(q, i + 1)
      PROVE  Clears(p, i)
  <2>1. PICK j \in DOMAIN q :
               /\ i + 1 <= j /\ q[j].op = "ABORT"
               /\ \A n \in DOMAIN q : i + 1 <= n /\ n < j => q[n].op # "COMMIT"
    BY <1>2 DEF Clears
  <2>2. j - 1 \in DOMAIN p /\ i <= j - 1 /\ p[j - 1].op = "ABORT"
    <3>1. j \in 1..Len(q) /\ j >= 2
      BY <1>1, <2>1
    <3>2. j - 1 \in 1..(Len(q) - 1) /\ (j - 1) + 1 = j
      BY <1>1, <3>1
    <3> QED BY <1>1, <2>1, <3>1, <3>2
  <2>3. ASSUME NEW n \in DOMAIN p, i <= n, n < j - 1
        PROVE  p[n].op # "COMMIT"
    <3>1. n + 1 \in DOMAIN q /\ i + 1 <= n + 1 /\ n + 1 < j
      BY <1>1, <2>1, <2>3
    <3> QED BY <1>1, <2>1, <2>3, <3>1
  <2> QED BY <2>2, <2>3 DEF Clears
<1>3. ASSUME Head(q).op # "ABORT", Clears(q, 1)
      PROVE  Clears(p, 1)
  <2>1. PICK j \in DOMAIN q :
               /\ 1 <= j /\ q[j].op = "ABORT"
               /\ \A n \in DOMAIN q : 1 <= n /\ n < j => q[n].op # "COMMIT"
    BY <1>3 DEF Clears
  <2>2. j # 1
    BY <1>1, <1>3, <2>1
  <2>3. j \in DOMAIN q /\ 1 + 1 <= j
    BY <1>1, <2>1, <2>2
  <2>4. \A n \in DOMAIN q : 1 + 1 <= n /\ n < j => q[n].op # "COMMIT"
    BY <1>1, <2>1
  <2>5. Clears(q, 1 + 1)
    BY <2>1, <2>3, <2>4 DEF Clears
  <2> QED BY <1>2, <2>5
<1>4. ASSUME Head(q).op = "COMMIT", Clears(q, 1)
      PROVE  FALSE
  <2>1. PICK j \in DOMAIN q :
               /\ 1 <= j /\ q[j].op = "ABORT"
               /\ \A n \in DOMAIN q : 1 <= n /\ n < j => q[n].op # "COMMIT"
    BY <1>4 DEF Clears
  <2>2. j # 1
    BY <1>1, <1>4, <2>1
  <2>3. 1 \in DOMAIN q /\ 1 < j
    BY <1>1, <2>1, <2>2
  <2> QED BY <1>1, <1>4, <2>1, <2>3
<1> QED BY <1>2, <1>3, <1>4 DEF p

\* A command is added: the client's value stays its own, or was committed, or the
\* command is ABORT; and a COMMIT comes after the client's value was committed.
LEMMA WritesAppended ==
    ASSUME NEW S, NEW q \in Seq(S), NEW m \in S, NEW values, NEW committed, NEW more,
           NEW own, NEW next,
           Writes(values, q, committed, own), committed \subseteq more,
           own \in more \/ own = next \/ m.op = "ABORT",
           m.op = "SET" => m.value = next,
           m.op = "COMMIT" => own \in more
    PROVE  Writes(values, Append(q, m), more, next)
<1> DEFINE p == Append(q, m)
<1>1. /\ Len(q) \in Nat /\ DOMAIN q = 1..Len(q) /\ DOMAIN p = 1..(Len(q) + 1)
      /\ \A n \in 1..Len(q) : p[n] = q[n]
      /\ p[Len(q) + 1] = m
  BY Appended
<1>2. \A i \in 1..(Len(q) + 1) :
         /\ Clears(q, i) => Clears(p, i)
         /\ m.op = "ABORT" /\ (\A n \in DOMAIN q : n < i \/ q[n].op # "COMMIT") => Clears(p, i)
  <2>1. \A i \in 1..(Len(q) + 1) : i \in Nat /\ i <= Len(q) + 1
    BY <1>1
  <2> QED BY <2>1, ClearsAppended
<1> HIDE DEF p
<1>3. ASSUME NEW v \in values
      PROVE  v \in more \/ v = next \/ Clears(p, 1)
  <2>1. v \in committed \/ v = own \/ Clears(q, 1)
    BY <1>3 DEF Writes
  <2>2. 1 \in 1..(Len(q) + 1)
    BY <1>1
  <2>3. CASE \E n \in DOMAIN q : q[n].op = "COMMIT"
    <3>1. v \in committed \/ Clears(q, 1)
      BY <1>3, <2>3 DEF Writes
    <3> QED BY <1>2, <2>2, <3>1
  <2>4. CASE \A n \in DOMAIN q : q[n].op # "COMMIT"
    BY <1>2, <2>1, <2>2, <2>4
  <2> QED BY <2>3, <2>4
<1>4. ASSUME NEW i \in DOMAIN p, p[i].op = "SET"
      PROVE  p[i].value \in more \/ p[i].value = next \/ Clears(p, i)
  <2>1. CASE i = Len(q) + 1
    BY <1>1, <1>4, <2>1
  <2>2. CASE i \in 1..Len(q)
    <3>1. p[i] = q[i] /\ i \in DOMAIN q /\ i \in 1..(Len(q) + 1)
      BY <1>1, <2>2
    <3>2. q[i].value \in committed \/ q[i].value = own \/ Clears(q, i)
      BY <1>4, <3>1 DEF Writes
    <3>3. CASE \E n \in DOMAIN q : i < n /\ q[n].op = "COMMIT"
      <4>1. q[i].value \in committed \/ Clears(q, i)
        BY <1>4, <3>1, <3>3 DEF Writes
      <4> QED BY <1>2, <3>1, <4>1
    <3>4. CASE \A n \in DOMAIN q : n <= i \/ q[n].op # "COMMIT"
      <4>1. \A n \in DOMAIN q : n < i \/ q[n].op # "COMMIT"
        BY <1>1, <1>4, <3>1, <3>4
      <4> QED BY <1>2, <3>1, <3>2, <4>1
    <3> QED BY <1>1, <3>1, <3>3, <3>4
  <2> QED BY <1>1, <2>1, <2>2
<1>5. ASSUME NEW n \in DOMAIN p, p[n].op = "COMMIT"
      PROVE  /\ \A v \in values : v \in more \/ Clears(p, 1)
             /\ \A i \in DOMAIN p : i < n /\ p[i].op = "SET" =>
                   p[i].value \in more \/ Clears(p, i)
  <2>1. \A i \in DOMAIN p : i < n => i \in 1..Len(q) /\ i \in DOMAIN q /\ p[i] = q[i]
    BY <1>1
  <2>2. 1 \in 1..(Len(q) + 1) /\ \A i \in 1..Len(q) : i \in 1..(Len(q) + 1)
    BY <1>1
  <2>3. CASE n = Len(q) + 1
    <3>1. own \in more
      BY <1>1, <1>5, <2>3
    <3>2. \A v \in values : v \in committed \/ v = own \/ Clears(q, 1)
      BY DEF Writes
    <3>3. \A i \in DOMAIN q : q[i].op = "SET" =>
             q[i].value \in committed \/ q[i].value = own \/ Clears(q, i)
      BY DEF Writes
    <3> QED BY <1>2, <2>1, <2>2, <3>1, <3>2, <3>3
  <2>4. CASE n \in 1..Len(q)
    <3>1. n \in DOMAIN q /\ q[n].op = "COMMIT"
      BY <1>1, <1>5, <2>4
    <3>2. \A v \in values : v \in committed \/ Clears(q, 1)
      BY <3>1 DEF Writes
    <3>3. \A i \in DOMAIN q : i < n /\ q[i].op = "SET" =>
             q[i].value \in committed \/ Clears(q, i)
      BY <3>1 DEF Writes
    <3> QED BY <1>2, <2>1, <2>2, <3>2, <3>3
  <2> QED BY <1>1, <2>3, <2>4
<1>6. Writes(values, p, more, next)
  BY <1>3, <1>4, <1>5 DEF Writes
<1> QED BY <1>6 DEF p

\* More is committed, the client's value with it or still its own.
LEMMA WritesKept ==
    ASSUME NEW q, NEW values, NEW committed, NEW more, NEW own, NEW next,
           Writes(values, q, committed, own), committed \subseteq more,
           own \in more \/ own = next
    PROVE  Writes(values, q, more, next)
BY DEF Writes

\* The first command is handled: a value that is left was there before, and is not
\* what ABORT removes, or is what SET adds.
LEMMA WritesHandled ==
    ASSUME NEW S, NEW q \in Seq(S), q # <<>>, NEW values, NEW committed, NEW own,
           Writes(values, q, committed, own), NEW left,
           \A v \in left : \/ v \in committed
                           \/ v \in values /\ Head(q).op # "ABORT"
                           \/ v = Head(q).value /\ Head(q).op = "SET"
    PROVE  Writes(left, Tail(q), committed, own)
<1> DEFINE p == Tail(q)
<1>1. /\ Len(q) \in Nat /\ Len(q) >= 1 /\ DOMAIN q = 1..Len(q) /\ Head(q) = q[1]
      /\ DOMAIN p = 1..(Len(q) - 1)
      /\ \A n \in 1..(Len(q) - 1) : p[n] = q[n + 1]
  BY Rested
<1>2. /\ \A i \in Nat \ {0} : Clears(q, i + 1) => Clears(p, i)
      /\ Head(q).op # "ABORT" /\ Clears(q, 1) => Clears(p, 1)
  BY ClearsRested
<1> HIDE DEF p
<1>3. \A i \in DOMAIN p : /\ i + 1 \in DOMAIN q /\ p[i] = q[i + 1]
                          /\ Clears(q, i + 1) => Clears(p, i)
                          /\ 1 < i + 1
  BY <1>1, <1>2
<1>4. 1 \in DOMAIN q
  BY <1>1
<1>5. ASSUME NEW v \in left
      PROVE  v \in committed \/ v = own \/ Clears(p, 1)
  <2>1. CASE v \in values /\ Head(q).op # "ABORT"
    BY <1>2, <2>1 DEF Writes
  <2>2. CASE v = Head(q).value /\ Head(q).op = "SET"
    BY <1>1, <1>2, <1>4, <2>2 DEF Writes
  <2> QED BY <1>5, <2>1, <2>2
<1>6. ASSUME NEW i \in DOMAIN p, p[i].op = "SET"
      PROVE  p[i].value \in committed \/ p[i].value = own \/ Clears(p, i)
  BY <1>3, <1>6 DEF Writes
<1>7. ASSUME NEW n \in DOMAIN p, p[n].op = "COMMIT"
      PROVE  /\ \A v \in left : v \in committed \/ Clears(p, 1)
             /\ \A i \in DOMAIN p : i < n /\ p[i].op = "SET" =>
                   p[i].value \in committed \/ Clears(p, i)
  <2>1. n + 1 \in DOMAIN q /\ q[n + 1].op = "COMMIT" /\ 1 < n + 1
    BY <1>3, <1>7
  <2>2. /\ \A v \in values : v \in committed \/ Clears(q, 1)
        /\ \A i \in DOMAIN q : i < n + 1 /\ q[i].op = "SET" =>
              q[i].value \in committed \/ Clears(q, i)
    BY <2>1 DEF Writes
  <2>3. ASSUME NEW v \in left
        PROVE  v \in committed \/ Clears(p, 1)
    <3>1. CASE v \in values /\ Head(q).op # "ABORT"
      BY <1>2, <2>2, <3>1
    <3>2. CASE v = Head(q).value /\ Head(q).op = "SET"
      BY <1>1, <1>2, <1>4, <2>1, <2>2, <3>2
    <3> QED BY <2>3, <3>1, <3>2
  <2>4. \A i \in DOMAIN p : i < n => i + 1 < n + 1
    BY <1>1
  <2> QED BY <1>3, <2>2, <2>3, <2>4
<1>8. Writes(left, p, committed, own)
  BY <1>5, <1>6, <1>7 DEF Writes
<1> QED BY <1>8 DEF p

\* All that is there when a COMMIT is handled was committed.
LEMMA WritesCommitted ==
    ASSUME NEW S, NEW q \in Seq(S), q # <<>>, NEW values, NEW committed, NEW own,
           Writes(values, q, committed, own), Head(q).op = "COMMIT"
    PROVE  values \subseteq committed
<1>1. 1 \in DOMAIN q /\ q[1].op = "COMMIT"
  BY Rested
<1>2. ~Clears(q, 1)
  BY ClearsRested
<1> QED BY <1>1, <1>2 DEF Writes

\* What is left was committed.
LEMMA WritesCleared ==
    ASSUME NEW q, NEW values, NEW committed, NEW own,
           Writes(values, q, committed, own), NEW left, left \subseteq committed
    PROVE  Writes(left, q, committed, own)
BY DEF Writes

------------------------------------------------------------------------------
(* The steps of the servers                                                *)

\* A step of a goroutine leaves what the other goroutines have.
LEMMA OthersUntouched ==
    ASSUME Types, NEW s \in Servers, NEW c \in Clients, Srv!Step(s, c),
           NEW t \in Servers, NEW d \in Clients, t # s \/ d # c
    PROVE  /\ deltas'[t][d] = deltas[t][d] /\ place'[t][d] = place[t][d]
           /\ fromClient'[d][t] = fromClient[d][t]
<1>1. /\ deltas \in [Servers -> [Clients -> [Keys -> Values \cup {NoValue}]]]
      /\ place \in [Servers -> [Clients -> Srv!Places]]
      /\ fromClient \in [Clients -> [Servers -> Seq(Srv!Messages)]]
  BY TypeParts DEF DataTyped, GoroutinesTyped, ConnectionsTyped
<1>2. \A op : Srv!Take(s, c, op) => fromClient'[d][t] = fromClient[d][t]
  BY <1>1 DEF Srv!Take
<1>3. \A to : Srv!Move(s, c, to) => place'[t][d] = place[t][d]
  BY <1>1 DEF Srv!Move
<1>4. Srv!Finish(s, c) => place'[t][d] = place[t][d]
  BY <1>3 DEF Srv!Finish
<1>5. Srv!ClearDeltas(s, c) => deltas'[t][d] = deltas[t][d]
  BY <1>1 DEF Srv!ClearDeltas
<1>6. CASE Srv!Set(s, c)
  <2>1. PICK k, v : deltas' = [deltas EXCEPT ![s][c][k] = v]
    BY <1>6 DEF Srv!Set
  <2>2. deltas'[t][d] = deltas[t][d]
    BY <1>1, <2>1
  <2> QED BY <1>2, <1>3, <1>6, <2>2 DEF Srv!Set
<1>7. CASE Srv!Begin(s, c) \/ Srv!Abort(s, c)
  BY <1>2, <1>5, <1>7 DEF Srv!Begin, Srv!Abort
<1>8. CASE Srv!Get(s, c) \/ Srv!Commit(s, c)
  BY <1>2, <1>3, <1>8 DEF Srv!Get, Srv!Commit
<1>9. CASE Srv!Apply(s, c)
  BY <1>4, <1>5, <1>9 DEF Srv!Apply
<1>10. CASE Srv!AnswerOwnWrite(s, c) \/ Srv!SetGranted(s, c) \/ Srv!AnswerGet(s, c)
  BY <1>4, <1>10 DEF Srv!AnswerOwnWrite, Srv!SetGranted, Srv!AnswerGet
<1>11. CASE Srv!GetGranted(s, c) \/ Srv!Wait(s, c) \/ Srv!Resend(s, c)
  BY <1>3, <1>11 DEF Srv!GetGranted, Srv!Wait, Srv!Resend
<1> QED BY <1>6, <1>7, <1>8, <1>9, <1>10, <1>11 DEF Srv!Step

\* What a step of a goroutine does with what it has.
LEMMA OwnTouched ==
    ASSUME Types, NEW s \in Servers, NEW c \in Clients, Srv!Step(s, c)
    PROVE  \/ /\ fromClient[c][s] # <<>>
              /\ fromClient'[c][s] = Tail(fromClient[c][s])
              /\ \A v \in Deltas(s, c)' :
                    \/ v = NoValue
                    \/ v \in Deltas(s, c) /\ Head(fromClient[c][s]).op # "ABORT"
                    \/ /\ v = Head(fromClient[c][s]).value
                       /\ Head(fromClient[c][s]).op = "SET"
              /\ place'[s][c] = "applying" =>
                    /\ Head(fromClient[c][s]).op = "COMMIT"
                    /\ Deltas(s, c)' = Deltas(s, c)
           \/ /\ fromClient'[c][s] = fromClient[c][s]
              /\ Deltas(s, c)' \in {Deltas(s, c), {NoValue}, {}}
              /\ place'[s][c] # "applying"
<1>1. /\ deltas \in [Servers -> [Clients -> [Keys -> Values \cup {NoValue}]]]
      /\ place \in [Servers -> [Clients -> Srv!Places]]
      /\ fromClient \in [Clients -> [Servers -> Seq(Srv!Messages)]]
  BY TypeParts DEF DataTyped, GoroutinesTyped, ConnectionsTyped
<1> DEFINE q == fromClient[c][s]
<1>2. \A op : Srv!Take(s, c, op) =>
         /\ q # <<>> /\ fromClient'[c][s] = Tail(q) /\ Head(q).op = op
         /\ place[s][c] = "idle"
  BY <1>1 DEF Srv!Take
<1>3. \A to : Srv!Move(s, c, to) => place'[s][c] = to
  BY <1>1 DEF Srv!Move
<1>4. Srv!Finish(s, c) => place'[s][c] = "idle"
  BY <1>3 DEF Srv!Finish
<1>5. Srv!ClearDeltas(s, c) => \A v \in Deltas(s, c)' : v = NoValue
  BY <1>1 DEF Srv!ClearDeltas, Srv!Empty, Deltas
<1>6. UNCHANGED deltas => Deltas(s, c)' = Deltas(s, c)
  BY DEF Deltas
<1> HIDE DEF q
<1>7. CASE Srv!Begin(s, c) \/ Srv!Abort(s, c)
  <2>1. /\ q # <<>> /\ fromClient'[c][s] = Tail(q) /\ place'[s][c] = "idle"
        /\ \A v \in Deltas(s, c)' : v = NoValue
    BY <1>2, <1>5, <1>7 DEF Srv!Begin, Srv!Abort
  <2> QED BY <2>1 DEF q
<1>8. CASE Srv!Set(s, c)
  <2>1. PICK k : /\ deltas' = [deltas EXCEPT ![s][c][k] = Head(q).value]
                 /\ q # <<>> /\ fromClient'[c][s] = Tail(q) /\ Head(q).op = "SET"
                 /\ place'[s][c] = "await"
    BY <1>2, <1>3, <1>8 DEF Srv!Set, q
  <2>2. ASSUME NEW n \in Keys
        PROVE  deltas'[s][c][n] = deltas[s][c][n] \/ deltas'[s][c][n] = Head(q).value
    BY <1>1, <2>1
  <2>3. ASSUME NEW v \in Deltas(s, c)'
        PROVE  v \in Deltas(s, c) \/ v = Head(q).value
    BY <2>2 DEF Deltas
  <2> QED BY <2>1, <2>3 DEF q
<1>9. CASE Srv!Get(s, c)
  BY <1>2, <1>3, <1>6, <1>9 DEF Srv!Get, q
<1>10. CASE Srv!Commit(s, c)
  BY <1>2, <1>3, <1>6, <1>10 DEF Srv!Commit, q
<1>11. CASE Srv!Apply(s, c)
  <2>1. /\ fromClient'[c][s] = fromClient[c][s] /\ place'[s][c] = "idle"
        /\ \A v \in Deltas(s, c)' : v = NoValue
    BY <1>4, <1>5, <1>11 DEF Srv!Apply
  <2> QED BY <2>1
<1>12. CASE Srv!AnswerOwnWrite(s, c) \/ Srv!SetGranted(s, c) \/ Srv!AnswerGet(s, c)
  BY <1>4, <1>6, <1>12 DEF Srv!AnswerOwnWrite, Srv!SetGranted, Srv!AnswerGet
<1>13. CASE Srv!GetGranted(s, c) \/ Srv!Wait(s, c) \/ Srv!Resend(s, c)
  BY <1>3, <1>6, <1>13 DEF Srv!GetGranted, Srv!Wait, Srv!Resend
<1> QED BY <1>7, <1>8, <1>9, <1>10, <1>11, <1>12, <1>13 DEF Srv!Step

\* The store of a server changes by what a client had there, when it is applied.
LEMMA StoreTouched ==
    ASSUME Types, NEW s \in Servers, NEW c \in Clients, Srv!Step(s, c),
           NEW t \in Servers, NEW k \in Keys
    PROVE  \/ store'[t][k] = store[t][k]
           \/ place[s][c] = "applying" /\ store'[t][k] \in Deltas(s, c)
<1>1. store \in [Servers -> [Keys -> Values \cup {NoValue}]]
  BY TypeParts DEF DataTyped
<1>2. CASE Srv!Apply(s, c)
  BY <1>1, <1>2 DEF Srv!Apply, Deltas
<1>3. CASE ~Srv!Apply(s, c)
  <2>1. UNCHANGED store
    BY <1>3 DEF Srv!Step, Srv!Begin, Srv!Set, Srv!Get, Srv!Abort, Srv!Commit,
         Srv!AnswerOwnWrite, Srv!SetGranted, Srv!GetGranted, Srv!AnswerGet, Srv!Wait,
         Srv!Resend
  <2> QED BY <2>1
<1> QED BY <1>2, <1>3

LEMMA ServerStepSeparate ==
    ASSUME Types, WritesInv, NEW s \in Servers, NEW c \in Clients, ServerStep(s, c)
    PROVE  WritesInv'
<1>1. Srv!Step(s, c) /\ UNCHANGED <<commits, transactionId>>
  BY DEF ServerStep, client
<1>2. Stored' = Stored /\ \A d : User!Transaction(d)' = User!Transaction(d)
  BY <1>1 DEF Stored, Committed, User!Transaction
<1>3. \A t \in Servers, d \in Clients : Separate(t, d)
  BY DEF WritesInv
<1>4. ASSUME NEW t \in Servers, NEW d \in Clients, t # s \/ d # c
      PROVE  Separate(t, d)'
  <2>1. /\ deltas'[t][d] = deltas[t][d] /\ place'[t][d] = place[t][d]
        /\ fromClient'[d][t] = fromClient[d][t]
    BY <1>1, <1>4, OthersUntouched
  <2>2. Deltas(t, d)' = Deltas(t, d)
    BY <2>1 DEF Deltas
  <2> QED BY <1>2, <1>3, <2>1, <2>2 DEF Separate
<1>5. Separate(s, c)'
  <2> DEFINE q == fromClient[c][s]
             left == Deltas(s, c)'
             own == User!Transaction(c)
  <2>1. Writes(Deltas(s, c), q, Stored, own)
    BY <1>3 DEF Separate
  <2>2. q \in Seq(Srv!Messages) /\ NoValue \in Stored
    BY TypeParts DEF ConnectionsTyped, Stored
  <2> SUFFICES /\ Writes(left, fromClient'[c][s], Stored, own)
               /\ place'[s][c] = "applying" => left \subseteq Stored
    BY <1>2 DEF Separate
  <2>3. CASE /\ q # <<>>
             /\ fromClient'[c][s] = Tail(q)
             /\ \A v \in left : \/ v = NoValue
                                \/ v \in Deltas(s, c) /\ Head(q).op # "ABORT"
                                \/ v = Head(q).value /\ Head(q).op = "SET"
             /\ place'[s][c] = "applying" => Head(q).op = "COMMIT" /\ left = Deltas(s, c)
    <3> HIDE DEF q, left, own
    <3>1. Writes(left, Tail(q), Stored, own)
      BY <2>1, <2>2, <2>3, WritesHandled
    <3>2. place'[s][c] = "applying" => left \subseteq Stored
      BY <2>1, <2>2, <2>3, WritesCommitted
    <3> QED BY <2>3, <3>1, <3>2
  <2>4. CASE /\ fromClient'[c][s] = q
             /\ left \in {Deltas(s, c), {NoValue}, {}}
             /\ place'[s][c] # "applying"
    <3>1. left = Deltas(s, c) \/ left \subseteq Stored
      BY <2>2, <2>4
    <3> HIDE DEF q, left, own
    <3> QED BY <2>1, <2>4, <3>1, WritesCleared
  <2> QED BY <1>1, <2>3, <2>4, OwnTouched
<1>6. ASSUME NEW t \in Servers, NEW k \in Keys
      PROVE  store'[t][k] \in Stored'
  <2>1. store[t][k] \in Stored
    BY DEF WritesInv
  <2>2. place[s][c] = "applying" => Deltas(s, c) \subseteq Stored
    BY <1>3 DEF Separate
  <2> QED BY <1>1, <1>2, <2>1, <2>2, StoreTouched
<1> QED BY <1>4, <1>5, <1>6 DEF WritesInv

------------------------------------------------------------------------------
(* The steps of the clients                                                *)

\* What a step of a client sends to a server, and what it commits.
LEMMA ClientSends ==
    ASSUME Types, NEW c \in Clients, User!Step(c), NEW s \in Servers, NEW d \in Clients
    PROVE  /\ Committed \subseteq Committed'
           /\ d # c => /\ fromClient'[d][s] = fromClient[d][s]
                       /\ User!Transaction(d)' = User!Transaction(d)
           /\ \/ /\ fromClient'[c][s] = fromClient[c][s]
                 /\ \/ User!Transaction(c) \in Committed'
                    \/ User!Transaction(c)' = User!Transaction(c)
              \/ \E m \in Srv!Messages :
                    /\ fromClient'[c][s] = Append(fromClient[c][s], m)
                    /\ \/ User!Transaction(c) \in Committed'
                       \/ User!Transaction(c)' = User!Transaction(c)
                       \/ m.op = "ABORT"
                    /\ m.op = "SET" => m.value = User!Transaction(c)'
                    /\ m.op = "COMMIT" => User!Transaction(c) \in Committed'
<1>1. /\ fromClient \in [Clients -> [Servers -> Seq(Srv!Messages)]]
      /\ transactionId \in [Clients -> Nat]
      /\ UserTyped
  BY TypeParts DEF ConnectionsTyped, UserTyped
<1>2. /\ UNCHANGED commits => Committed' = Committed
      /\ User!RecordCommit(c) => Committed \subseteq Committed' /\ User!Transaction(c) \in Committed'
  BY DEF Committed, User!RecordCommit
<1>3. /\ UNCHANGED User!transaction => \A e : User!Transaction(e)' = User!Transaction(e)
      /\ UNCHANGED transactionId => \A e : User!Transaction(e)' = User!Transaction(e)
      /\ User!EndTransaction(c) /\ d # c => User!Transaction(d)' = User!Transaction(d)
  BY <1>1 DEF User!Transaction, User!transaction, User!EndTransaction
<1>4. ASSUME NEW op \in {"BEGIN", "COMMIT", "ABORT"}, NEW to, User!Broadcast(c, op, to)
      PROVE  /\ d # c => fromClient'[d][s] = fromClient[d][s]
             /\ s \notin to => fromClient'[c][s] = fromClient[c][s]
             /\ s \in to => \E m \in Srv!Messages :
                   m.op = op /\ fromClient'[c][s] = Append(fromClient[c][s], m)
  <2> DEFINE m == [op |-> op]
  <2>1. m \in Srv!Messages /\ m.op = op
    BY DEF Srv!Messages
  <2>2. fromClient' = [fromClient EXCEPT ![c] = [t \in Servers |->
            IF t \in to THEN Append(fromClient[c][t], m) ELSE fromClient[c][t]]]
    BY <1>4 DEF User!Broadcast
  <2> HIDE DEF m
  <2> QED BY <1>1, <2>1, <2>2
<1>5. ASSUME NEW t \in Servers, NEW m \in Srv!Messages,
             fromClient' = [fromClient EXCEPT ![c][t] = Append(fromClient[c][t], m)]
      PROVE  /\ d # c => fromClient'[d][s] = fromClient[d][s]
             /\ \/ fromClient'[c][s] = fromClient[c][s]
                \/ fromClient'[c][s] = Append(fromClient[c][s], m)
  BY <1>1, <1>5
<1>6. CASE User!Begin(c)
  <2>1. User!Broadcast(c, "BEGIN", Servers) /\ UNCHANGED <<transactionId, commits>>
    BY <1>6 DEF User!Begin
  <2>2. PICK m \in Srv!Messages :
            m.op = "BEGIN" /\ fromClient'[c][s] = Append(fromClient[c][s], m)
    BY <1>4, <2>1
  <2> QED BY <1>2, <1>3, <1>4, <2>1, <2>2
<1>7. CASE User!Commit(c)
  <2>1. /\ User!Broadcast(c, "COMMIT", Servers) /\ User!EndTransaction(c)
        /\ User!RecordCommit(c)
    BY <1>7 DEF User!Commit
  <2>2. PICK m \in Srv!Messages :
            m.op = "COMMIT" /\ fromClient'[c][s] = Append(fromClient[c][s], m)
    BY <1>4, <2>1
  <2> QED BY <1>2, <1>3, <1>4, <2>1, <2>2
<1>8. CASE User!Crash(c)
  <2>1. /\ UNCHANGED User!transaction /\ User!RecordCommit(c)
        /\ \E to : User!Broadcast(c, "COMMIT", to)
    BY <1>8 DEF User!Crash
  <2>2. PICK to : User!Broadcast(c, "COMMIT", to)
    BY <2>1
  <2> QED BY <1>2, <1>3, <1>4, <2>1, <2>2
<1>9. CASE User!Abort(c) \/ User!AbortGet(c)
  <2>1. /\ User!Broadcast(c, "ABORT", Servers) /\ User!EndTransaction(c)
        /\ UNCHANGED commits
    BY <1>9 DEF User!Abort, User!AbortGet
  <2>2. PICK m \in Srv!Messages :
            m.op = "ABORT" /\ fromClient'[c][s] = Append(fromClient[c][s], m)
    BY <1>4, <2>1
  <2> QED BY <1>2, <1>3, <1>4, <2>1, <2>2
<1>10. CASE User!Get(c) \/ User!Set(c)
  <2> DEFINE n == script[c][taken[c] + 1]
             t == n.server
             get == [op |-> "GET", key |-> n.key]
             set == [op |-> "SET", key |-> n.key, value |-> User!Transaction(c)]
  <2>1. t \in Servers /\ n.key \in Keys
    BY <1>1, <1>10, NextCommand DEF User!Get, User!Set
  <2>2. User!Transaction(c) \in Values
    BY <1>1 DEF User!Transaction, Values
  <2>3. get \in Srv!Messages /\ set \in Srv!Messages
    BY <2>1, <2>2 DEF Srv!Messages
  <2>4. /\ UNCHANGED <<User!transaction, commits>>
        /\ \/ fromClient' = [fromClient EXCEPT ![c][t] = Append(fromClient[c][t], get)]
           \/ fromClient' = [fromClient EXCEPT ![c][t] = Append(fromClient[c][t], set)]
    BY <1>10 DEF User!Get, User!Set, User!history
  <2>5. get.op = "GET" /\ set.op = "SET" /\ set.value = User!Transaction(c)
    OBVIOUS
  <2>6. User!Transaction(c)' = User!Transaction(c)
    BY <1>3, <2>4
  <2> HIDE DEF n, t, get, set
  <2>7. PICK m \in {get, set} :
           fromClient' = [fromClient EXCEPT ![c][t] = Append(fromClient[c][t], m)]
    BY <2>4
  <2>8. m \in Srv!Messages /\ (m.op = "SET" => m.value = User!Transaction(c)) /\ m.op # "COMMIT"
    BY <2>3, <2>5, <2>7
  <2>9. /\ d # c => fromClient'[d][s] = fromClient[d][s]
        /\ \/ fromClient'[c][s] = fromClient[c][s]
           \/ fromClient'[c][s] = Append(fromClient[c][s], m)
    BY <1>5, <2>1, <2>7, <2>8
  <2> QED BY <1>2, <1>3, <2>4, <2>6, <2>8, <2>9
<1>11. CASE \/ User!Ignore(c) \/ User!Receive(c) \/ User!Type(c)
            \/ \E t \in Servers : User!Swallow(c, t)
  <2>1. UNCHANGED <<User!transaction, commits, fromClient>>
    BY <1>11 DEF User!Ignore, User!Receive, User!Type, User!Swallow, User!history
  <2> QED BY <1>2, <1>3, <2>1
<1> QED BY <1>6, <1>7, <1>8, <1>9, <1>10, <1>11 DEF User!Step, User!Proceed

LEMMA ClientStepSeparate ==
    ASSUME Types, WritesInv, NEW c \in Clients, ClientStep(c)
    PROVE  WritesInv'
<1>1. User!Step(c) /\ UNCHANGED <<store, deltas, place>>
  BY DEF ClientStep, server
<1>2. ASSUME NEW s \in Servers, NEW d \in Clients
      PROVE  Separate(s, d)'
  <2> DEFINE q == fromClient[d][s]
             values == Deltas(s, d)
             own == User!Transaction(d)
             next == User!Transaction(d)'
             more == Stored'
  <2>1. /\ Writes(values, q, Stored, own)
        /\ place[s][d] = "applying" => values \subseteq Stored
        /\ q \in Seq(Srv!Messages)
    BY TypeParts DEF WritesInv, Separate, ConnectionsTyped
  <2>2. Committed \subseteq Committed'
    BY <1>1, ClientSends
  <2>3. Stored \subseteq more /\ Committed' \subseteq more
    BY <2>2 DEF Stored
  <2>4. Deltas(s, d)' = values /\ place'[s][d] = place[s][d]
    BY <1>1 DEF Deltas
  <2> SUFFICES Writes(values, fromClient'[d][s], more, next)
    BY <2>1, <2>3, <2>4 DEF Separate
  <2>5. CASE fromClient'[d][s] = q /\ (own \in Committed' \/ next = own)
    <3> HIDE DEF q, values, own, next, more
    <3> QED BY <2>1, <2>3, <2>5, WritesKept
  <2>6. CASE \E m \in Srv!Messages :
                /\ fromClient'[d][s] = Append(q, m)
                /\ own \in Committed' \/ next = own \/ m.op = "ABORT"
                /\ m.op = "SET" => m.value = next
                /\ m.op = "COMMIT" => own \in Committed'
    <3> HIDE DEF q, values, own, next, more
    <3>1. PICK m \in Srv!Messages :
                /\ fromClient'[d][s] = Append(q, m)
                /\ own \in Committed' \/ next = own \/ m.op = "ABORT"
                /\ m.op = "SET" => m.value = next
                /\ m.op = "COMMIT" => own \in Committed'
      BY <2>6
    <3> QED BY <2>1, <2>3, <3>1, WritesAppended
  <2>7. d # c => fromClient'[d][s] = q /\ next = own
    BY <1>1, ClientSends
  <2> QED BY <1>1, <2>5, <2>6, <2>7, ClientSends
<1>3. ASSUME NEW s \in Servers, NEW k \in Keys
      PROVE  store'[s][k] \in Stored'
  <2>1. Committed \subseteq Committed'
    BY <1>1, <1>3, ClientSends
  <2> QED BY <1>1, <2>1 DEF WritesInv, Stored
<1> QED BY <1>2, <1>3 DEF WritesInv

------------------------------------------------------------------------------
(* The invariant                                                           *)

LEMMA InitSeparate == Init => WritesInv
<1> SUFFICES ASSUME Init PROVE WritesInv
  OBVIOUS
<1>1. ASSUME NEW s \in Servers, NEW c \in Clients
      PROVE  Separate(s, c)
  <2>1. \A v \in Deltas(s, c) : v \in Stored
    BY DEF Init, Srv!Init, Srv!Empty, Deltas, Stored
  <2>2. fromClient[c][s] = <<>> /\ place[s][c] = "idle"
    BY DEF Init, Srv!Init
  <2> QED BY <2>1, <2>2 DEF Separate, Writes
<1>2. \A s \in Servers, k \in Keys : store[s][k] \in Stored
  BY DEF Init, Srv!Init, Srv!Empty, Stored
<1> QED BY <1>1, <1>2 DEF WritesInv

LEMMA StepSeparate ==
    ASSUME Types, WritesInv, [Next]_vars
    PROVE  WritesInv'
<1>1. ASSUME UNCHANGED <<store, deltas, place, fromClient, commits, transactionId>>
      PROVE  WritesInv'
  <2>1. /\ Stored' = Stored
        /\ \A d : User!Transaction(d)' = User!Transaction(d)
        /\ \A t, d : Deltas(t, d)' = Deltas(t, d)
    BY <1>1 DEF Stored, Committed, User!Transaction, Deltas
  <2>2. ASSUME NEW t \in Servers, NEW d \in Clients
        PROVE  Separate(t, d)'
    <3>1. Separate(t, d)
      BY DEF WritesInv
    <3> QED BY <1>1, <2>1, <3>1 DEF Separate
  <2>3. \A t \in Servers, k \in Keys : store'[t][k] \in Stored'
    BY <1>1, <2>1 DEF WritesInv
  <2> QED BY <2>2, <2>3 DEF WritesInv
<1>2. \A s \in Servers : CoordinatorStep(s) => WritesInv'
  BY <1>1 DEF CoordinatorStep, server, client
<1>3. UNCHANGED vars => WritesInv'
  BY <1>1 DEF vars, server, client
<1> QED BY <1>2, <1>3, ServerStepSeparate, ClientStepSeparate DEF Next

LEMMA SeparateCorrect == Spec => [](Types /\ WritesInv)
<1>1. Init => Types /\ WritesInv
  BY InitTypes, InitSeparate
<1>2. Types /\ WritesInv /\ [Next]_vars => Types' /\ WritesInv'
  BY StepTypes, StepSeparate
<1> QED BY <1>1, <1>2, PTL DEF Spec

\* A server never stores what was not committed: the writes of a transaction stay in
\* its deltas, and no BEGIN, ABORT or COMMIT leaves them there for a later
\* transaction of the client, whichever servers it writes to, whether or not its SET
\* is inside a transaction, and whichever clients stop in a broadcast.
THEOREM OnlyCommitted == Spec => []OnlyCommittedWrites
<1>1. WritesInv => OnlyCommittedWrites
  <2> SUFFICES ASSUME WritesInv, NEW o \in Coord!Objects
               PROVE  Written(o) \in Committed \cup {NoValue}
    BY DEF OnlyCommittedWrites
  <2>1. o[1] \in Servers /\ o[2] \in Keys
    BY DEF Coord!Objects
  <2> QED BY <2>1 DEF WritesInv, Written, Stored
<1> QED BY <1>1, SeparateCorrect, PTL

------------------------------------------------------------------------------
(* What clients read                                                       *)

\* What client c may read: what was committed, nothing, or what it wrote itself.
Clean(c, v) == v \in Stored \/ v[1] = c

\* A client writes in its own name only, and what is answered to it is clean.
ReadsInv ==
    /\ seen \in [Clients -> SUBSET Srv!Results]
    /\ \A c \in Clients : \A r \in seen[c] : Clean(c, r.value)
    /\ \A s \in Servers, c \in Clients :
          /\ \A v \in Deltas(s, c) : v = NoValue \/ v[1] = c
          /\ \A i \in DOMAIN fromClient[c][s] :
                fromClient[c][s][i].op = "SET" => fromClient[c][s][i].value[1] = c
          /\ \A i \in DOMAIN toClient[s][c] :
                toClient[s][c][i].op = "GET" => Clean(c, toClient[s][c][i].value)

\* What a goroutine of a server answers.
LEMMA Answered ==
    ASSUME Types, NEW s \in Servers, NEW c \in Clients, Srv!Step(s, c),
           NEW t \in Servers, NEW d \in Clients
    PROVE  \/ toClient'[t][d] = toClient[t][d]
           \/ /\ t = s /\ d = c
              /\ \E x \in Srv!Results :
                    /\ toClient'[t][d] = Append(toClient[t][d], x)
                    /\ x.op = "GET" =>
                          \/ x.value \in Deltas(s, c)
                          \/ \E k \in Keys : x.value = store[s][k]
<1>1. /\ toClient \in [Servers -> [Clients -> Seq(Srv!Results)]]
      /\ store \in [Servers -> [Keys -> Values \cup {NoValue}]]
      /\ deltas \in [Servers -> [Clients -> [Keys -> Values \cup {NoValue}]]]
  BY TypeParts DEF ConnectionsTyped, DataTyped
<1>2. ASSUME NEW x \in Srv!Results, Srv!ToClient(s, c, x),
             x.op = "GET" => x.value \in Deltas(s, c) \/ \E k \in Keys : x.value = store[s][k]
      PROVE  \/ toClient'[t][d] = toClient[t][d]
             \/ /\ t = s /\ d = c
                /\ \E y \in Srv!Results :
                      /\ toClient'[t][d] = Append(toClient[t][d], y)
                      /\ y.op = "GET" =>
                            \/ y.value \in Deltas(s, c)
                            \/ \E k \in Keys : y.value = store[s][k]
  <2>1. CASE t = s /\ d = c
    <3>1. toClient'[t][d] = Append(toClient[t][d], x)
      BY <1>1, <1>2, <2>1 DEF Srv!ToClient
    <3> QED BY <1>2, <2>1, <3>1
  <2>2. CASE t # s \/ d # c
    BY <1>1, <1>2, <2>2 DEF Srv!ToClient
  <2> QED BY <2>1, <2>2
<1>3. ASSUME place[s][c] \in {"await", "reading"}, curr[s][c].op = "GET"
      PROVE  curr[s][c].key \in Keys
  <2>1. curr[s][c] \in Srv!Messages
    BY <1>3, TypeParts DEF GoroutinesTyped, ServerTyped
  <2> QED BY <1>3, <2>1, MessageFields
<1>4. ASSUME NEW v \in Values \cup {NoValue}, curr[s][c].key \in Keys
      PROVE  /\ Srv!Result(s, c, v) \in Srv!Results
             /\ Srv!Result(s, c, v).value = v
  BY <1>4 DEF Srv!Result, Srv!Results
<1>5. CASE Srv!AnswerOwnWrite(s, c)
  <2> DEFINE k == curr[s][c].key
             v == deltas[s][c][k]
  <2>1. /\ place[s][c] = "await" /\ curr[s][c].op = "GET"
        /\ Srv!ToClient(s, c, Srv!Result(s, c, v))
    BY <1>5 DEF Srv!AnswerOwnWrite, Srv!OwnWrite
  <2>2. k \in Keys /\ v \in Values \cup {NoValue} /\ v \in Deltas(s, c)
    BY <1>1, <1>3, <2>1 DEF Deltas
  <2> HIDE DEF k, v
  <2>3. Srv!Result(s, c, v) \in Srv!Results /\ Srv!Result(s, c, v).value = v
    BY <1>4, <2>2 DEF k
  <2> QED BY <1>2, <2>1, <2>2, <2>3
<1>6. CASE Srv!AnswerGet(s, c)
  <2> DEFINE k == curr[s][c].key
             v == store[s][k]
  <2>1. place[s][c] = "reading" /\ Srv!ToClient(s, c, Srv!Result(s, c, v))
    BY <1>6 DEF Srv!AnswerGet
  <2>2. curr[s][c].op = "GET"
    BY <2>1, TypeParts DEF GoroutinesTyped
  <2>3. k \in Keys /\ v \in Values \cup {NoValue}
    BY <1>1, <1>3, <2>1, <2>2
  <2>4. \E n \in Keys : v = store[s][n]
    BY <2>3
  <2> HIDE DEF k, v
  <2>5. Srv!Result(s, c, v) \in Srv!Results /\ Srv!Result(s, c, v).value = v
    BY <1>4, <2>3 DEF k
  <2> QED BY <1>2, <2>1, <2>4, <2>5
<1>7. CASE Srv!SetGranted(s, c)
  <2> DEFINE x == [op |-> "SET"]
  <2>1. Srv!ToClient(s, c, x) /\ x \in Srv!Results /\ x.op # "GET"
    BY <1>7 DEF Srv!SetGranted, Srv!Results
  <2> HIDE DEF x
  <2> QED BY <1>2, <2>1
<1>8. CASE ~Srv!AnswerOwnWrite(s, c) /\ ~Srv!AnswerGet(s, c) /\ ~Srv!SetGranted(s, c)
  <2>1. UNCHANGED toClient
    BY <1>8 DEF Srv!Step, Srv!Begin, Srv!Set, Srv!Get, Srv!Abort, Srv!Commit, Srv!Apply,
         Srv!GetGranted, Srv!Wait, Srv!Resend
  <2> QED BY <2>1
<1> QED BY <1>5, <1>6, <1>7, <1>8

LEMMA ServerStepReads ==
    ASSUME Types, WritesInv, ReadsInv, NEW s \in Servers, NEW c \in Clients, ServerStep(s, c)
    PROVE  ReadsInv'
<1>1. Srv!Step(s, c) /\ UNCHANGED <<commits, seen>>
  BY DEF ServerStep, client
<1>2. Stored' = Stored /\ \A d, v : Clean(d, v)' = Clean(d, v)
  BY <1>1 DEF Stored, Committed, Clean
<1>3. ASSUME NEW t \in Servers, NEW d \in Clients
      PROVE  /\ \A v \in Deltas(t, d)' : v = NoValue \/ v[1] = d
             /\ \A i \in DOMAIN fromClient'[d][t] :
                   fromClient'[d][t][i].op = "SET" => fromClient'[d][t][i].value[1] = d
  <2> DEFINE q == fromClient[d][t]
             p == fromClient'[d][t]
  <2>1. /\ \A v \in Deltas(t, d) : v = NoValue \/ v[1] = d
        /\ \A i \in DOMAIN q : q[i].op = "SET" => q[i].value[1] = d
        /\ q \in Seq(Srv!Messages)
    BY TypeParts DEF ReadsInv, ConnectionsTyped
  <2>2. CASE t # s \/ d # c
    <3>1. deltas'[t][d] = deltas[t][d] /\ p = q
      BY <1>1, <2>2, OthersUntouched
    <3> QED BY <2>1, <3>1 DEF Deltas
  <2>3. CASE /\ t = s /\ d = c /\ q # <<>> /\ p = Tail(q)
             /\ \A v \in Deltas(t, d)' : \/ v = NoValue
                                         \/ v \in Deltas(t, d)
                                         \/ v = Head(q).value /\ Head(q).op = "SET"
    <3> HIDE DEF q, p
    <3>1. \A i \in DOMAIN p : p[i].op = "SET" => p[i].value[1] = d
      BY <2>1, <2>3, Rested
    <3>2. Head(q).op = "SET" => Head(q).value[1] = d
      BY <2>1, <2>3, Rested
    <3> QED BY <2>1, <2>3, <3>1, <3>2 DEF p
  <2>4. CASE /\ t = s /\ d = c /\ p = q
             /\ Deltas(t, d)' \in {Deltas(t, d), {NoValue}, {}}
    BY <2>1, <2>4
  <2> QED BY <1>1, <2>2, <2>3, <2>4, OwnTouched
<1>4. ASSUME NEW t \in Servers, NEW d \in Clients, NEW i \in DOMAIN toClient'[t][d],
             toClient'[t][d][i].op = "GET"
      PROVE  Clean(d, toClient'[t][d][i].value)
  <2> DEFINE q == toClient[t][d]
             p == toClient'[t][d]
  <2>1. /\ \A n \in DOMAIN q : q[n].op = "GET" => Clean(d, q[n].value)
        /\ \A v \in Deltas(t, d) : v = NoValue \/ v[1] = d
        /\ q \in Seq(Srv!Results)
    BY TypeParts DEF ReadsInv, ConnectionsTyped
  <2>2. CASE p = q
    BY <1>4, <2>1, <2>2
  <2>3. ASSUME t = s, d = c, NEW x \in Srv!Results, p = Append(q, x),
               x.op = "GET" => x.value \in Deltas(s, c) \/ \E k \in Keys : x.value = store[s][k]
        PROVE  Clean(d, p[i].value)
    <3>1. x.op = "GET" => Clean(d, x.value)
      <4>1. \A k \in Keys : Clean(d, store[s][k])
        BY DEF WritesInv, Clean
      <4>2. \A v \in Deltas(s, c) : Clean(d, v)
        BY <2>1, <2>3 DEF Clean, Stored
      <4> QED BY <2>3, <4>1, <4>2
    <3>2. i \in DOMAIN p /\ p[i].op = "GET"
      BY <1>4
    <3> HIDE DEF q, p
    <3>3. (i \in DOMAIN q /\ p[i] = q[i]) \/ p[i] = x
      BY <2>1, <2>3, <3>2, Appended
    <3> QED BY <2>1, <3>1, <3>2, <3>3
  <2> QED BY <1>1, <2>2, <2>3, Answered
<1>5. /\ seen' \in [Clients -> SUBSET Srv!Results]
      /\ \A d \in Clients : \A r \in seen'[d] : Clean(d, r.value)'
  BY <1>1, <1>2 DEF ReadsInv
<1> QED BY <1>2, <1>3, <1>4, <1>5 DEF ReadsInv

\* What a client takes of its results, and what it has seen of them.
LEMMA Received ==
    ASSUME Types, seen \in [Clients -> SUBSET Srv!Results], NEW c \in Clients, User!Step(c)
    PROVE  /\ seen' \in [Clients -> SUBSET Srv!Results]
           /\ \A d \in Clients : \A r \in seen'[d] :
                 \/ r \in seen[d]
                 \/ /\ r.op = "GET"
                    /\ \E s \in Servers : toClient[s][d] # <<>> /\ r = Head(toClient[s][d])
           /\ \A s \in Servers, d \in Clients :
                 \/ toClient'[s][d] = toClient[s][d]
                 \/ toClient[s][d] # <<>> /\ toClient'[s][d] = Tail(toClient[s][d])
<1>1. /\ toClient \in [Servers -> [Clients -> Seq(Srv!Results)]]
      /\ waitsFor[c] \in Servers \cup {NoServer}
  BY TypeParts DEF ConnectionsTyped, UserTyped
<1>2. ASSUME NEW s \in Servers, User!TakeResult(c, s), NEW t \in Servers, NEW d \in Clients
      PROVE  /\ toClient[s][c] # <<>>
             /\ \/ toClient'[t][d] = toClient[t][d]
                \/ toClient[t][d] # <<>> /\ toClient'[t][d] = Tail(toClient[t][d])
  BY <1>1, <1>2 DEF User!TakeResult
<1>3. CASE User!Receive(c)
  <2> DEFINE s == waitsFor[c]
             m == Head(toClient[s][c])
  <2>1. /\ s \in Servers /\ User!TakeResult(c, s)
        /\ seen' = seen \/ (m.op = "GET" /\ seen' = [seen EXCEPT ![c] = seen[c] \cup {m}])
    BY <1>1, <1>3 DEF User!Receive
  <2>2. m \in Srv!Results /\ toClient[s][c] # <<>>
    BY <1>1, <1>2, <2>1
  <2> HIDE DEF m
  <2>3. seen' \in [Clients -> SUBSET Srv!Results]
    BY <2>1, <2>2
  <2>4. ASSUME NEW d \in Clients, NEW r \in seen'[d], r \notin seen[d]
        PROVE  d = c /\ r = m /\ m.op = "GET"
    BY <2>1, <2>4
  <2> QED BY <1>2, <2>1, <2>2, <2>3, <2>4 DEF m
<1>4. CASE \E s \in Servers : User!Swallow(c, s)
  BY <1>2, <1>4 DEF User!Swallow, User!history
<1>5. CASE User!Begin(c) \/ User!Commit(c) \/ User!Abort(c) \/ User!AbortGet(c)
  <2>1. toClient' = toClient /\ seen' = [seen EXCEPT ![c] = {}]
    BY <1>5 DEF User!Begin, User!Commit, User!Abort, User!AbortGet, User!EndTransaction
  <2> QED BY <2>1
<1>6. CASE \/ User!Ignore(c) \/ User!Get(c) \/ User!Set(c) \/ User!Crash(c) \/ User!Type(c)
  <2>1. toClient' = toClient /\ seen' = seen
    BY <1>6 DEF User!Ignore, User!Get, User!Set, User!Crash, User!Type, User!history
  <2> QED BY <2>1
<1> QED BY <1>3, <1>4, <1>5, <1>6 DEF User!Step, User!Proceed

LEMMA ClientStepReads ==
    ASSUME Types, ReadsInv, NEW c \in Clients, ClientStep(c)
    PROVE  ReadsInv'
<1>1. User!Step(c) /\ UNCHANGED deltas
  BY DEF ClientStep, server
<1>2. ASSUME NEW d, NEW v, Clean(d, v)
      PROVE  Clean(d, v)'
  <2>1. Committed \subseteq Committed'
    BY <1>1 DEF User!Step, User!Proceed, User!Ignore, User!Begin, User!Get, User!Set, User!Commit,
       User!Abort, User!Receive, User!AbortGet, User!Swallow, User!Type, User!Crash,
       User!RecordCommit, User!history, Committed
  <2> QED BY <1>2, <2>1 DEF Clean, Stored
<1>3. ASSUME NEW s \in Servers, NEW d \in Clients
      PROVE  /\ \A v \in Deltas(s, d)' : v = NoValue \/ v[1] = d
             /\ \A i \in DOMAIN fromClient'[d][s] :
                   fromClient'[d][s][i].op = "SET" => fromClient'[d][s][i].value[1] = d
  <2> DEFINE q == fromClient[d][s]
             p == fromClient'[d][s]
  <2>1. /\ \A v \in Deltas(s, d) : v = NoValue \/ v[1] = d
        /\ \A i \in DOMAIN q : q[i].op = "SET" => q[i].value[1] = d
        /\ q \in Seq(Srv!Messages) /\ Deltas(s, d)' = Deltas(s, d)
    BY <1>1, TypeParts DEF ReadsInv, ConnectionsTyped, Deltas
  <2>2. ASSUME NEW m \in Srv!Messages, p = Append(q, m), m.op = "SET" => m.value[1] = d
        PROVE  \A i \in DOMAIN p : p[i].op = "SET" => p[i].value[1] = d
    <3> HIDE DEF q, p
    <3> QED BY <2>1, <2>2, Appended
  <2>3. User!Transaction(d)'[1] = d
    BY DEF User!Transaction
  <2>4. p = q \/ \E m \in Srv!Messages :
            p = Append(q, m) /\ (m.op = "SET" => m.value = User!Transaction(d)')
    BY <1>1, ClientSends
  <2> QED BY <2>1, <2>2, <2>3, <2>4
<1>4. ASSUME NEW s \in Servers, NEW d \in Clients, NEW i \in DOMAIN toClient'[s][d],
             toClient'[s][d][i].op = "GET", NEW v, v = toClient'[s][d][i].value
      PROVE  Clean(d, v)'
  <2> DEFINE q == toClient[s][d]
             p == toClient'[s][d]
  <2>1. /\ \A n \in DOMAIN q : q[n].op = "GET" => Clean(d, q[n].value)
        /\ q \in Seq(Srv!Results) /\ seen \in [Clients -> SUBSET Srv!Results]
    BY TypeParts DEF ReadsInv, ConnectionsTyped
  <2>2. i \in DOMAIN p /\ p[i].op = "GET" /\ (p = q \/ (q # <<>> /\ p = Tail(q)))
    BY <1>1, <1>4, <2>1, Received
  <2>3. Clean(d, p[i].value)
    <3> HIDE DEF q, p
    <3> QED BY <2>1, <2>2, Rested
  <2> QED BY <1>2, <1>4, <2>3
<1>5. ASSUME NEW d \in Clients, NEW r \in seen'[d]
      PROVE  Clean(d, r.value)'
  <2>1. seen \in [Clients -> SUBSET Srv!Results]
    BY DEF ReadsInv
  <2>2. CASE r \in seen[d]
    BY <1>2, <2>2 DEF ReadsInv
  <2>3. ASSUME r.op = "GET", NEW s \in Servers, toClient[s][d] # <<>>, r = Head(toClient[s][d])
        PROVE  Clean(d, r.value)'
    <3>1. toClient[s][d] \in Seq(Srv!Results)
      BY TypeParts DEF ConnectionsTyped
    <3>2. 1 \in DOMAIN toClient[s][d] /\ r = toClient[s][d][1]
      BY <2>3, <3>1, Rested
    <3>3. Clean(d, r.value)
      BY <2>3, <3>2 DEF ReadsInv
    <3> QED BY <1>2, <3>3
  <2> QED BY <1>1, <1>5, <2>1, <2>2, <2>3, Received
<1>6. seen' \in [Clients -> SUBSET Srv!Results]
  BY <1>1, Received DEF ReadsInv
<1> QED BY <1>3, <1>4, <1>5, <1>6 DEF ReadsInv

LEMMA InitReads == Init => ReadsInv
<1> SUFFICES ASSUME Init PROVE ReadsInv
  OBVIOUS
<1>1. \A s \in Servers, c \in Clients : fromClient[c][s] = <<>> /\ toClient[s][c] = <<>>
  BY DEF Init
<1>2. seen = [c \in Clients |-> {}]
  BY DEF Init, User!Init
<1>3. \A s \in Servers, c \in Clients : \A v \in Deltas(s, c) : v = NoValue
  BY DEF Init, Srv!Init, Srv!Empty, Deltas
<1> QED BY <1>1, <1>2, <1>3 DEF ReadsInv

LEMMA StepReads ==
    ASSUME Types, WritesInv, ReadsInv, [Next]_vars
    PROVE  ReadsInv'
<1>1. ASSUME UNCHANGED <<deltas, fromClient, toClient, seen, commits>>
      PROVE  ReadsInv'
  <2>1. /\ \A d, v : Clean(d, v)' = Clean(d, v)
        /\ \A t, d : Deltas(t, d)' = Deltas(t, d)
    BY <1>1 DEF Clean, Stored, Committed, Deltas
  <2> QED BY <1>1, <2>1 DEF ReadsInv
<1>2. \A s \in Servers : CoordinatorStep(s) => ReadsInv'
  BY <1>1 DEF CoordinatorStep, server, client
<1>3. UNCHANGED vars => ReadsInv'
  BY <1>1 DEF vars, server, client
<1> QED BY <1>2, <1>3, ServerStepReads, ClientStepReads DEF Next

\* A client reads what was committed, or what it wrote itself, and nothing of another
\* client's transaction before that is committed: whichever answers of a server are
\* late, given up, swallowed or taken for those of a later command.
THEOREM ReadCommitted == Spec => []ReadsCommitted
<1>1. Init => Types /\ WritesInv /\ ReadsInv
  BY InitTypes, InitSeparate, InitReads
<1>2. /\ Types /\ WritesInv /\ ReadsInv /\ [Next]_vars
      => (Types /\ WritesInv /\ ReadsInv)'
  BY StepTypes, StepSeparate, StepReads
<1>3. ReadsInv => ReadsCommitted
  BY DEF ReadsInv, ReadsCommitted, Clean, Stored
<1> QED BY <1>1, <1>2, <1>3, PTL DEF Spec
==============================================================================
