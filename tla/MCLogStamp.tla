----------------------------- MODULE MCLogStamp -----------------------------
(* LogStamp for TLC. *)
EXTENDS LogStamp
=============================================================================
