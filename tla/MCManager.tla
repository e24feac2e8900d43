----------------------------- MODULE MCManager -----------------------------
(* Instances of Manager for TLC. *)
EXTENDS ManagerProps, TLC

(* Requests are interchangeable: sound for the safety runs. *)
RequestSymmetry == Permutations(Requests)
=============================================================================
