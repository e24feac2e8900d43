---------------------------- MODULE MCSessionLog ----------------------------
(* Instances of SessionLog for TLC. *)
EXTENDS SessionLog, TLC

(* Delete requests are interchangeable. *)
DeleterSymmetry == Permutations(Deleters)
=============================================================================
