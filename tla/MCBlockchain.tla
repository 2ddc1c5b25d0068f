---------------------------- MODULE MCBlockchain ----------------------------
(* Instances of Blockchain for TLC.                                        *)
EXTENDS Blockchain, TLC

CONSTANTS p, q, r

OneWay == {<<p, q>>}
Pair == {<<p, q>>, <<q, p>>}
Triangle == {<<p, q>>, <<p, r>>, <<q, r>>}

\* Account 1 pays a unit to account 2, and is given one.
Earn == [src |-> 0, dest |-> 1, amount |-> 1]
Pay == [src |-> 1, dest |-> 2, amount |-> 1]
None == <<>>
Earned == <<Earn>>
PaidAndEarned == <<Pay, Earn>>

NodeSymmetry == Permutations(Nodes)
==============================================================================
