------------------------------ MODULE LockTable ------------------------------
(***************************************************************************)
(* What the coordinator of the distributed transaction system promises: a  *)
(* table of shared and exclusive locks in which an object is written by    *)
(* one client or read by many, a client may hold both locks of an object,  *)
(* and everything a client holds is released at once.                      *)
(***************************************************************************)
CONSTANTS Clients,   \* the clients that lock objects
          Objects,   \* the objects that are locked
          NoClient   \* the writer of an object nobody writes

VARIABLES writer,    \* the client that holds the write lock of an object
          readers    \* the clients that hold its read lock

vars == <<writer, readers>>

Init ==
    /\ writer = [o \in Objects |-> NoClient]
    /\ readers = [o \in Objects |-> {}]

AcquireWrite(c, o) ==
    /\ writer[o] \in {NoClient, c}
    /\ readers[o] \subseteq {c}
    /\ writer' = [writer EXCEPT ![o] = c]
    /\ UNCHANGED readers

AcquireRead(c, o) ==
    /\ writer[o] \in {NoClient, c}
    /\ readers' = [readers EXCEPT ![o] = @ \cup {c}]
    /\ UNCHANGED writer

Release(c) ==
    /\ writer' = [o \in Objects |-> IF writer[o] = c THEN NoClient ELSE writer[o]]
    /\ readers' = [o \in Objects |-> readers[o] \ {c}]

Next ==
    \E c \in Clients :
        \/ \E o \in Objects : AcquireWrite(c, o) \/ AcquireRead(c, o)
        \/ Release(c)

Spec == Init /\ [][Next]_vars
==============================================================================
