----------------------------- MODULE BoardOwner -----------------------------
(***************************************************************************)
(* What the locking discipline of a managed board promises                 *)
(* (manager.go:60-73), without its locks, pumps and requests: a board has  *)
(* one owner at a time, its console is captured while nobody owns it, and  *)
(* whoever needs the board ends the capture, and sees it ended, before     *)
(* using it. Manager implements it.                                        *)
(***************************************************************************)

CONSTANTS
  Boards,
  Users,   \* the requests that may own a board
  Loop,    \* the discovery loop, which is the one to start a capture
  Free     \* the owner of a board that nobody owns

VARIABLES
  owner,   \* who owns each board
  use      \* what is going on with it: see Uses

vars == <<owner, use>>

(* A capture that ends is still there until its owner has seen it go. *)
Uses == {"nothing", "console", "ending", "operation"}

Init ==
  /\ owner = [b \in Boards |-> Free]
  /\ use = [b \in Boards |-> "nothing"]

Take(b, u) ==
  /\ owner[b] = Free
  /\ owner' = [owner EXCEPT ![b] = u]
  /\ UNCHANGED use

(* A board is given back at rest, or with the capture it came with. *)
Give(b) ==
  /\ owner[b] # Free
  /\ use[b] \in {"nothing", "console"}
  /\ owner' = [owner EXCEPT ![b] = Free]
  /\ UNCHANGED use

Capture(b) ==
  /\ owner[b] = Loop
  /\ use[b] = "nothing"
  /\ use' = [use EXCEPT ![b] = "console"]
  /\ owner' = [owner EXCEPT ![b] = Free]

EndCapture(b) ==
  /\ owner[b] # Free
  /\ use[b] = "console"
  /\ use' = [use EXCEPT ![b] = "ending"]
  /\ UNCHANGED owner

(* The loop ends a capture only to give the board up. *)
LoopSeesEnd(b) ==
  /\ owner[b] = Loop
  /\ use[b] = "ending"
  /\ use' = [use EXCEPT ![b] = "nothing"]
  /\ owner' = [owner EXCEPT ![b] = Free]

UserSeesEnd(b) ==
  /\ owner[b] \in Users
  /\ use[b] = "ending"
  /\ use' = [use EXCEPT ![b] = "nothing"]
  /\ UNCHANGED owner

(* Also straight from the end of the capture that stood in the way. *)
Operate(b) ==
  /\ owner[b] \in Users
  /\ use[b] \in {"nothing", "ending"}
  /\ use' = [use EXCEPT ![b] = "operation"]
  /\ UNCHANGED owner

Finish(b) ==
  /\ owner[b] \in Users
  /\ use[b] = "operation"
  /\ use' = [use EXCEPT ![b] = "nothing"]
  /\ UNCHANGED owner

BoardStep(b) ==
  \/ \E u \in Users \cup {Loop} : Take(b, u)
  \/ Give(b) \/ Capture(b) \/ EndCapture(b) \/ LoopSeesEnd(b) \/ UserSeesEnd(b)
  \/ Operate(b) \/ Finish(b)

Next == \E b \in Boards : BoardStep(b)

Spec == Init /\ [][Next]_vars
=============================================================================
