------------------------------ MODULE Console -------------------------------
(***************************************************************************)
(* What a competitor does with a challenge in the arena: runs code, sends  *)
(* a flag, and is shown what is solved.                                    *)
(*                                                                         *)
(* Answers come after another challenge has been chosen: loads of former   *)
(* challenges are dropped, answers about runs, flags and progress are not. *)
(* What a run prints is left out, and so is which flag is right: the       *)
(* server decides.                                                         *)
(***************************************************************************)
EXTENDS Naturals, FiniteSets

CONSTANTS
  Tasks,  \* challenges
  NoTask, \* stands for none
  Runs    \* bound: runs whose timers are still set

ASSUME ConsoleAssumption == NoTask \notin Tasks

VARIABLES
  accepted, \* the challenges completed on the server
  chosen,   \* activeChallengeId
  coming,   \* the answer to the latest load
  display,  \* challengeDetails: which challenge, and whether it is COMPLETED;
            \* history: mixed, an answer about another one has said so
  run,      \* the runs whose timers are set, and what the page does about them
  busy,     \* submittingRun
  call,     \* the flag that is being sent
  inquiry,  \* fetchProgression, with the challenge that was chosen then
  progress, \* the challenges that the list shows as COMPLETED
  news      \* challenge.completed messages on the way

taskVars == <<accepted, news>>
runVars == <<run, busy>>
loadVars == <<chosen, coming>>
consoleVars == <<taskVars, runVars, loadVars, display, call, inquiry, progress>>

ConsoleInit ==
  /\ accepted = {} /\ news = {}
  /\ chosen = NoTask /\ coming = "none" /\ display = NoTask
  /\ run = [r \in Runs |-> "none"] /\ busy = FALSE
  /\ call = NoTask /\ inquiry = NoTask
  /\ progress = {}

-----------------------------------------------------------------------------
(* Choosing a challenge *)

\* loadChallenge: the load before it is dropped.
Choose(t) ==
  /\ chosen' = t /\ coming' = "asked"
  /\ UNCHANGED <<taskVars, runVars, display, call, inquiry, progress>>

\* GET /api/challenges/:id
ServeTask ==
  /\ coming = "asked"
  /\ coming' = IF chosen \in accepted THEN "solved" ELSE "unsolved"
  /\ UNCHANGED <<taskVars, chosen, runVars, display, call, inquiry, progress>>

ShowTask ==
  /\ coming \in {"solved", "unsolved"}
  /\ coming' = "none"
  /\ display' = [of |-> chosen, done |-> coming = "solved", mixed |-> FALSE]
  /\ UNCHANGED <<taskVars, chosen, runVars, call, inquiry, progress>>

TaskFails ==
  /\ coming # "none"
  /\ coming' = "none" /\ display' = NoTask
  /\ UNCHANGED <<taskVars, chosen, runVars, call, inquiry, progress>>

Ready == chosen # NoTask /\ coming = "none" /\ display # NoTask

\* setChallengeDetails of whatever is displayed: an answer about t.
Mark(t) ==
  display' = IF display = NoTask THEN NoTask
             ELSE [display EXCEPT !.done = TRUE, !.mixed = @ \/ display.of # t]

-----------------------------------------------------------------------------
(* Running code *)

\* handleRunCode.
RunCode(r) ==
  /\ Ready /\ ~busy /\ run[r] = "none"
  /\ run' = [run EXCEPT ![r] = "posted"] /\ busy' = TRUE
  /\ UNCHANGED <<taskVars, loadVars, display, call, inquiry, progress>>

\* The answer: the page polls twice a second and sets a timer of 15 seconds, ...
RunEnqueued(r) ==
  /\ run[r] = "posted"
  /\ run' = [run EXCEPT ![r] = "polled"]
  /\ UNCHANGED <<taskVars, loadVars, busy, display, call, inquiry, progress>>

\* ... unless the run is refused or the request is lost.
RunRefused(r) ==
  /\ run[r] = "posted"
  /\ run' = [run EXCEPT ![r] = "none"] /\ busy' = FALSE
  /\ UNCHANGED <<taskVars, loadVars, display, call, inquiry, progress>>

\* A poll that finds the run ended is the last one.
PollRun(r) ==
  /\ run[r] = "polled"
  /\ run' = [run EXCEPT ![r] = "ended"] /\ busy' = FALSE
  /\ UNCHANGED <<taskVars, loadVars, display, call, inquiry, progress>>

\* The timer ends the polls and leaves the button as it is.
StopPolling(r) ==
  /\ run[r] \in {"polled", "ended"}
  /\ run' = [run EXCEPT ![r] = "none"]
  /\ UNCHANGED <<taskVars, loadVars, busy, display, call, inquiry, progress>>

\* The timer, which also fires after the run has ended, and when another goes on.
RunFallback(r) ==
  /\ run[r] \in {"polled", "ended"}
  /\ run' = [run EXCEPT ![r] = "none"] /\ busy' = FALSE
  /\ UNCHANGED <<taskVars, loadVars, display, call, inquiry, progress>>

-----------------------------------------------------------------------------
(* Sending a flag *)

\* handleSubmitFlag.
SubmitFlag ==
  /\ Ready /\ ~display.done /\ call = NoTask
  /\ call' = [of |-> chosen, reply |-> "none"]
  /\ UNCHANGED <<taskVars, runVars, loadVars, display, inquiry, progress>>

\* notifyTeamChallengeCompleted.
Announced(t) == news' = news \cup {t}

\* The server accepts it and tells the stream of it, or it has been accepted
\* before, ...
AcceptFlag ==
  /\ call # NoTask /\ call.reply = "none"
  /\ call' = [call EXCEPT !.reply = "completed"]
  /\ accepted' = accepted \cup {call.of}
  /\ IF call.of \in accepted THEN UNCHANGED news ELSE Announced(call.of)
  /\ UNCHANGED <<runVars, loadVars, display, inquiry, progress>>

\* ... or refuses it, or the call fails.
FlagRefused ==
  /\ call # NoTask
  /\ call' = NoTask
  /\ UNCHANGED <<taskVars, runVars, loadVars, display, inquiry, progress>>

FlagAccepted ==
  /\ call # NoTask /\ call.reply = "completed"
  /\ call' = NoTask
  /\ Mark(call.of)
  /\ UNCHANGED <<taskVars, runVars, loadVars, inquiry, progress>>

-----------------------------------------------------------------------------
(* What is solved *)

\* Every four seconds, after a flag and after each message.
FetchProgression ==
  /\ chosen # NoTask /\ inquiry = NoTask
  /\ inquiry' = [of |-> chosen, solved |-> accepted]
  /\ UNCHANGED <<taskVars, runVars, loadVars, display, call, progress>>

HearProgression ==
  /\ inquiry # NoTask
  /\ inquiry' = NoTask
  /\ progress' = inquiry.solved
  /\ IF inquiry.of \in inquiry.solved THEN Mark(inquiry.of) ELSE UNCHANGED display
  /\ UNCHANGED <<taskVars, runVars, loadVars, call>>

\* Whatever is displayed has been completed.
HearAnyCompleted(t) ==
  /\ t \in news
  /\ news' = news \ {t}
  /\ progress' = progress \cup {t}
  /\ display' = IF display = NoTask THEN NoTask ELSE [display EXCEPT !.done = TRUE]
  /\ UNCHANGED <<accepted, runVars, loadVars, call, inquiry>>

\* handleChallengeCompleted.
HearCompleted(t) ==
  /\ t \in news
  /\ news' = news \ {t}
  /\ progress' = progress \cup {t}
  /\ display' = IF display = NoTask \/ chosen # t THEN display
                ELSE [display EXCEPT !.done = TRUE]
  /\ UNCHANGED <<accepted, runVars, loadVars, call, inquiry>>

LoseCompleted(t) ==
  /\ t \in news
  /\ news' = news \ {t}
  /\ UNCHANGED <<accepted, runVars, loadVars, display, call, inquiry, progress>>

-----------------------------------------------------------------------------
Running ==
  \E r \in Runs : RunCode(r) \/ RunEnqueued(r) \/ RunRefused(r) \/ PollRun(r) \/ RunFallback(r)

Solving ==
  \/ \E t \in Tasks : Choose(t) \/ HearCompleted(t) \/ LoseCompleted(t)
  \/ ServeTask \/ ShowTask \/ TaskFails
  \/ SubmitFlag \/ AcceptFlag \/ FlagRefused \/ FlagAccepted
  \/ FetchProgression \/ HearProgression

ConsoleNext == Running \/ Solving

\* Calls are answered, timers fire. No run need ever end.
ConsoleFairness ==
  /\ \A r \in Runs :
       WF_consoleVars(RunEnqueued(r) \/ RunRefused(r)) /\ WF_consoleVars(RunFallback(r))
  /\ WF_consoleVars(FetchProgression) /\ WF_consoleVars(HearProgression)

ConsoleSpec == ConsoleInit /\ [][ConsoleNext]_consoleVars /\ ConsoleFairness

-----------------------------------------------------------------------------
(* Properties *)

\* Nothing is shown as solved that the server has not accepted, however polls,
\* messages and loads overtake each other, unless an answer about one challenge
\* came when another was displayed: until that is loaded again.
ConsoleHonest ==
  /\ progress \subseteq accepted
  /\ Ready /\ display.done /\ ~display.mixed => display.of \in accepted

\* A page is not busy with a run for ever, not even if the worker never ends it,
\* and shows at last all that has been accepted, even if it heard no message.
ConsoleSettles ==
  /\ []<>~busy
  /\ []<>(chosen # NoTask => accepted \subseteq progress)
=============================================================================
