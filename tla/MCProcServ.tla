----------------------------- MODULE MCProcServ -----------------------------
(***************************************************************************)
(* ProcServ for TLC.  Addresses of items and process ids are compared for  *)
(* equality only, so that the runs without liveness may permute them.      *)
(***************************************************************************)
EXTENDS ProcServ, TLC

Symmetry == Permutations(Items) \cup Permutations(Pids)
=============================================================================
