------------------------------ MODULE MCBootsel ------------------------------
(* An instance of Bootsel for TLC. *)
EXTENDS Bootsel, TLC

(* Boards are interchangeable, and so are requests. *)
HostSymmetry == Permutations(Boards) \cup Permutations(Requests)
=============================================================================
