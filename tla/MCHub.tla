------------------------------- MODULE MCHub -------------------------------
(* An instance of Hub for TLC. *)
EXTENDS Hub
=============================================================================
