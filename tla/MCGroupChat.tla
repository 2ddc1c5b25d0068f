----------------------------- MODULE MCGroupChat -----------------------------
(* Instances of GroupChat for TLC.                                         *)
EXTENDS GroupChat

\* Typists are alike, and so are the other nodes.
NodeSymmetry == Permutations(Typists) \cup Permutations(Nodes \ Typists)
==============================================================================
