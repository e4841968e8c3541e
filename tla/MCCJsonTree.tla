---------------------------- MODULE MCCJsonTree ----------------------------
(* Instances of CJsonTree for TLC. *)
EXTENDS CJsonTreeForest, TLC

\* The texts "k" and "K" are equal up to case.
MCFolded == [s \in Texts |-> IF s = "K" THEN "k" ELSE s]

\* Addresses are interchangeable: the code compares pointers with NULL only.
Addresses == Permutations(Nodes) \cup Permutations(Bufs)
=============================================================================
