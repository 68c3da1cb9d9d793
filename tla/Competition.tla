----------------------------- MODULE Competition -----------------------------
(***************************************************************************)
(* What the program promises about the event: the state machine written    *)
(* down in AdminRepository.transitionEventStatus, and matches that follow  *)
(* each other one by one, each from the start.                             *)
(*                                                                         *)
(* The promise is kept as long as the handlers are orderly, that is, as    *)
(* none of them overwrites a row it has not read.                          *)
(***************************************************************************)
EXTENDS Naturals

VARIABLES phase, match, orderly

vars == <<phase, match, orderly>>

Init == phase = "NOT_STARTED" /\ match = 1 /\ orderly = TRUE

Move(from, to) == phase \in from /\ phase' = to /\ UNCHANGED <<match, orderly>>

Start  == Move({"NOT_STARTED"}, "RUNNING")
Pause  == Move({"RUNNING"}, "PAUSED")
Resume == Move({"PAUSED"}, "RUNNING")
End    == Move({"RUNNING", "PAUSED"}, "ENDED")

NextMatch ==
  /\ phase = "ENDED"
  /\ phase' = "NOT_STARTED"
  /\ match' = match + 1
  /\ UNCHANGED orderly

\* Nothing is promised any more.
Disorder == orderly' = FALSE

Next == Disorder \/ (orderly /\ (Start \/ Pause \/ Resume \/ End \/ NextMatch))

Spec == Init /\ [][Next]_vars
=============================================================================
