-------------------------- MODULE MCConnectionList --------------------------
(* ConnectionList for TLC: addresses are interchangeable. *)
EXTENDS ConnectionList, TLC

Symmetry == Permutations(Nodes)
=============================================================================
