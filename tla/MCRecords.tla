------------------------------ MODULE MCRecords ------------------------------
(* An instance of Records for TLC. *)
EXTENDS Records, TLC

(* Requests are interchangeable. *)
CallSymmetry == Permutations(Calls)
=============================================================================
