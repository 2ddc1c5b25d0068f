----------------------------- MODULE FifoBroadcast -----------------------------
(***************************************************************************)
(* What the group chat keeps of its promise: every user sees the messages  *)
(* of another user in the order they were typed, from the first one on,    *)
(* each once.  Messages of different users come in any order.              *)
(***************************************************************************)
EXTENDS Naturals, Sequences

CONSTANT Nodes

VARIABLES said,   \* how many messages each user has typed
          shown   \* what each user is shown: <<author, number>>, in order

vars == <<said, shown>>

Init ==
    /\ said = [p \in Nodes |-> 0]
    /\ shown = [p \in Nodes |-> <<>>]

Say(p) ==
    /\ said' = [said EXCEPT ![p] = @ + 1]
    /\ UNCHANGED shown

ShownTo(p) == {shown[p][i] : i \in DOMAIN shown[p]}

\* The next message of the author is the first that p has not been shown.
Show(p, author) ==
    \E number \in 1..said[author] :
        /\ author # p
        /\ {n \in 1..said[author] : <<author, n>> \in ShownTo(p)} = 1..(number - 1)
        /\ shown' = [shown EXCEPT ![p] = Append(@, <<author, number>>)]
        /\ UNCHANGED said

Next == \E p \in Nodes : Say(p) \/ \E author \in Nodes : Show(p, author)

Spec == Init /\ [][Next]_vars
==============================================================================
