------------------------- MODULE MCTransactionSystem -------------------------
(* Instances of TransactionSystem for TLC: what the users type.            *)
EXTENDS TransactionSystem, TLC

CONSTANTS A, B, x, y

BEGIN == [op |-> "BEGIN"]
COMMIT == [op |-> "COMMIT"]
ABORT == [op |-> "ABORT"]
GET(s, k) == [op |-> "GET", server |-> s, key |-> k]
SET(s, k) == [op |-> "SET", server |-> s, key |-> k]

ClientSymmetry == Permutations(Clients)

\* At one server: a transaction that reads its own write, one whose user
\* gives up a read, one that is aborted and tried again on another key, one
\* typed carelessly, and two that wait on each other until their users give up.
SharedServer ==
    { <<BEGIN, SET(A, x), GET(A, x), COMMIT>>,
      <<BEGIN, GET(A, x), ABORT>>,
      <<BEGIN, SET(A, x), ABORT, BEGIN, SET(A, y), COMMIT>>,
      <<GET(A, x), BEGIN, BEGIN, GET(A, x), COMMIT, COMMIT>>,
      <<BEGIN, SET(A, x), GET(A, y), ABORT>>,
      <<BEGIN, SET(A, y), GET(A, x), ABORT>> }

\* Across two servers: a writer and a reader of one object at each.
WriterReader ==
    { <<BEGIN, SET(A, x), SET(B, x), COMMIT>>,
      <<BEGIN, GET(A, x), GET(B, x), COMMIT>> }

\* One after the other: writes, and reads of what was written, but no use of
\* a server after a read there.
Successive ==
    { <<BEGIN, SET(A, x), SET(A, x), COMMIT, BEGIN, SET(B, x), SET(A, x), COMMIT,
        BEGIN, GET(B, x), GET(A, x), COMMIT>>,
      <<BEGIN, SET(A, x), ABORT, BEGIN, SET(A, x), GET(A, x), GET(B, x), COMMIT>> }

\* Two reads at one server.
TwoReads == { <<BEGIN, GET(A, x), GET(A, x), COMMIT>> }

\* Two transactions of one client, each at both servers.
TwoWrites == { <<BEGIN, SET(A, x), COMMIT, BEGIN, SET(A, x), COMMIT>> }

\* Writers of one key each, or of the same key.
Writers == { <<BEGIN, SET(A, x), COMMIT>>, <<BEGIN, SET(A, y), COMMIT>> }

\* A transaction that reads an object and then writes it.
Upgrade == { <<BEGIN, GET(A, x), SET(A, x), COMMIT>> }

\* A SET typed before BEGIN.
Careless == { <<SET(A, x), BEGIN, COMMIT>>, <<SET(A, x)>> }

\* A read of one's own write whose answer comes after the user has given it up.
LateAnswer == { <<BEGIN, SET(A, x), GET(A, x), ABORT, BEGIN, GET(A, x), COMMIT>> }
==============================================================================
