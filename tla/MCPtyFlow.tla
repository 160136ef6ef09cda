----------------------------- MODULE MCPtyFlow -----------------------------
(* PtyFlow for TLC. *)
EXTENDS PtyFlow
=============================================================================
