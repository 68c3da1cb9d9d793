----------------------------- MODULE MCScoreboard -----------------------------
(***************************************************************************)
(* Instances of what pages show: Scoreboard, with two announcements and a  *)
(* fetch at once, Incidents, with two pairs of requests, and Console, with *)
(* two runs. They share nothing and are explored one at a time: each moves *)
(* only while the others have not begun, which for the scoreboard means    *)
(* that the spectator is connected and nothing has happened. So are the    *)
(* runs and the flags of the console, which share only what is displayed.  *)
(* The properties promise nothing after a slip, so nothing is explored     *)
(* behind it.                                                              *)
(***************************************************************************)
EXTENDS Scoreboard, Incidents, Console

Connected ==
  /\ stream = "open" /\ clients /\ wire = <<>> /\ ~opening
  /\ board = 0 /\ event = 0 /\ breaks = 0 /\ lost = [list |-> 0, event |-> 0]
  /\ \A j \in Jobs : job[j] = Idle

NoRuns == ~busy /\ \A r \in Runs : run[r] = "none"
NoFlags == accepted = {} /\ call = NoTask

DisplaysInit == Init /\ IncidentsInit /\ ConsoleInit

DisplaysNext ==
  \/ /\ IncidentsInit /\ ConsoleInit
     /\ Next /\ UNCHANGED <<incidentsVars, consoleVars>>
  \/ /\ Connected /\ ConsoleInit
     /\ IncidentsNext /\ UNCHANGED <<vars, consoleVars>>
  \/ /\ Connected /\ IncidentsInit
     /\ ConsoleNext /\ ((NoRuns /\ NoRuns') \/ (NoFlags /\ NoFlags'))
     /\ UNCHANGED <<vars, incidentsVars>>

DisplaysSpec ==
  /\ DisplaysInit /\ [][DisplaysNext]_<<vars, incidentsVars, consoleVars>>
  /\ Fairness /\ IncidentsFairness /\ ConsoleFairness

NoSlip == ~slip /\ ~misled
=============================================================================
