---------------------------- MODULE MCOcdServer ----------------------------
(* An instance of OcdServer for TLC. *)
EXTENDS OcdServer
=============================================================================
