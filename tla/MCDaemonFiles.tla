--------------------------- MODULE MCDaemonFiles ---------------------------
(* DaemonFiles for TLC. *)
EXTENDS DaemonFiles, TLC
\* A caller with all three standard descriptors, and one without an input.
MCStd == {{0, 1, 2}}
MCNoInput == {{1, 2}}
\* Launches differ in nothing.
MCSymmetry == Permutations(Launches)
=============================================================================
