----------------------------- MODULE Attendance ------------------------------
(***************************************************************************)
(* What sessions, presence and connections have in common: competitors,    *)
(* sessions, and a clock of which only the time since the last heartbeat   *)
(* matters, and only up to MaxAge.                                         *)
(***************************************************************************)
EXTENDS Naturals

CONSTANTS
  Participants,
  Sessions,
  OnlineLimit, \* presence: online up to this age of the last heartbeat
  ConnLimit,   \* streams: pruned above it
  StaleLimit,  \* sessions: expired from it on
  MaxAge       \* ages are not told apart above it

ASSUME AttendanceAssumption ==
  /\ OnlineLimit \in Nat /\ ConnLimit \in Nat /\ StaleLimit \in Nat /\ MaxAge \in Nat
  /\ ConnLimit <= OnlineLimit \* 25 s and 30 s ...
  /\ OnlineLimit < StaleLimit \* ... are less than 3 minutes
  /\ StaleLimit <= MaxAge

Ages == 0..MaxAge
Older(age) == IF age = MaxAge THEN age ELSE age + 1
=============================================================================
