------------------------------ MODULE Director ------------------------------
(***************************************************************************)
(* The page from which an administrator conducts the event: it shows the   *)
(* status, the current match and the matches on record, starts, pauses,    *)
(* resumes and ends the match, prepares the next and deletes old ones.     *)
(*                                                                         *)
(* It learns of the event by polling only. Everything it shows may be old, *)
(* other administrators act at the same time, and a dialogue that waits to *)
(* be confirmed stays open whatever happens. The list of matches is not    *)
(* kept: it may show any match.                                            *)
(***************************************************************************)
EXTENDS Naturals, FiniteSets

CONSTANTS
  Surveys,    \* polls that can be under way at once
  Afterwards, \* the one that follows an action of this page
  Unread,     \* stands for what a poll has not brought yet
  Nobody,     \* stands for no action
  FinalMatch  \* bound: matches

ASSUME DirectorAssumption == Afterwards \in Surveys /\ FinalMatch \in Nat \ {0}

VARIABLES
  settings, \* event_settings: match and status
  rows,     \* competition_matches: the matches on record
  clearing, \* the active match that clearArchivedMatches has read, 0: none runs
  screen,   \* the page: whether it is open, and what it shows
  survey,   \* fetchStatus: the status and the match that it has read
  deed,     \* the action in progress, or the dialogue that asks for it
  raced     \* history: a history was cleared while a match was created

directorVars == <<settings, rows, clearing, screen, survey, deed, raced>>
recordVars == <<settings, rows, clearing, raced>>

Rounds == 1..FinalMatch
Phases == {"NOT_STARTED", "RUNNING", "PAUSED", "ENDED"}
Do(kind) == [kind |-> kind, of |-> 0]
Delete(m) == [kind |-> "delete", of |-> m]
Deeds == {Do(kind) : kind \in {"start", "pause", "resume", "end", "new", "clear"}}
           \cup {Delete(m) : m \in Rounds}
Closed == [open |-> FALSE, match |-> 1, status |-> "NOT_STARTED"]
Done == [do |-> Do("start"), step |-> "done"] \* whatever it was
NoSurvey == [out |-> FALSE, status |-> Unread, match |-> Unread]
Shown == "shown" \* the status of a survey that the page shows already
Asked == [NoSurvey EXCEPT !.out = TRUE]

DirectorInit ==
  /\ settings = [match |-> 1, status |-> "NOT_STARTED"]
  /\ rows = {1} /\ clearing = 0
  /\ screen = Closed
  /\ survey = [s \in Surveys |-> NoSurvey]
  /\ deed = Nobody
  /\ raced = FALSE

-----------------------------------------------------------------------------
(* The server *)

\* transitionEventStatus, which records the match again if its row is gone.
Transit(to) ==
  /\ settings' = [settings EXCEPT !.status = to]
  /\ rows' = rows \cup {settings.match}
  /\ UNCHANGED <<clearing, raced>>

\* createNewMatch: the insert fails if the match is on record already.
CreateNewMatch ==
  /\ settings.match < FinalMatch /\ settings.match + 1 \notin rows
  /\ settings' = [match |-> settings.match + 1, status |-> "NOT_STARTED"]
  /\ rows' = rows \cup {settings.match + 1}
  /\ UNCHANGED <<clearing, raced>>

\* Deletes whatever is not in progress.
DeleteAnyMatch(m) ==
  /\ m \in rows
  /\ m = settings.match => settings.status \in {"NOT_STARTED", "ENDED"}
  /\ rows' = rows \ {m}
  /\ UNCHANGED <<settings, clearing, raced>>

\* deleteMatch.
DeleteOldMatch(m) ==
  /\ m \in rows /\ m # settings.match
  /\ rows' = rows \ {m}
  /\ UNCHANGED <<settings, clearing, raced>>

\* clearArchivedMatches reads which match is active, without a lock ...
ClearReads ==
  /\ clearing = 0
  /\ clearing' = settings.match
  /\ UNCHANGED <<settings, rows, raced>>

\* ... and deletes the others that it finds on record then.
ClearDeletes ==
  /\ clearing # 0
  /\ clearing' = 0
  /\ rows' = rows \cap {clearing}
  /\ raced' = (raced \/ clearing # settings.match)
  /\ UNCHANGED settings

\* What the server does for an action, if it does not refuse it. An action that
\* finds its work done already succeeds and changes nothing.
Obeyed(d) ==
  \/ d.kind = "start" /\ settings.status = "NOT_STARTED" /\ Transit("RUNNING")
  \/ d.kind = "pause" /\ settings.status = "RUNNING" /\ Transit("PAUSED")
  \/ d.kind = "resume" /\ settings.status = "PAUSED" /\ Transit("RUNNING")
  \/ d.kind = "end" /\ settings.status \in {"RUNNING", "PAUSED"} /\ Transit("ENDED")
  \/ d.kind = "new" /\ settings.status = "ENDED" /\ CreateNewMatch
  \/ d.kind = "delete" /\ DeleteOldMatch(d.of)
  \/ d.kind = "clear" /\ ClearReads

DoneAlready(d) ==
  \/ d.kind \in {"start", "resume"} /\ settings.status = "RUNNING"
  \/ d.kind = "pause" /\ settings.status = "PAUSED"
  \/ d.kind = "end" /\ settings.status = "ENDED"

\* Another administrator, or the clock that ends the match.
OthersAct ==
  /\ \E d \in Deeds : Obeyed(d)
  /\ UNCHANGED <<screen, survey, deed>>

\* The answer to an action: the page asks how it is now before it is ready for the
\* next one. After a deletion it asks for the list only.
Refresh(d) ==
  IF d.kind = "delete" THEN deed' = Nobody /\ UNCHANGED survey
  ELSE deed' = Done /\ survey' = [survey EXCEPT ![Afterwards] = Asked]

FinishClear ==
  /\ ClearDeletes
  /\ deed' = IF deed # Nobody /\ deed.step = "clearing" THEN Nobody ELSE deed
  /\ UNCHANGED <<screen, survey>>

-----------------------------------------------------------------------------
(* Polls *)

\* The page appears, and asks at once.
OpenScreen ==
  /\ ~screen.open
  /\ screen' = [Closed EXCEPT !.open = TRUE]
  /\ UNCHANGED <<recordVars, survey, deed>>

\* It goes and forgets everything; the server may still do what it was sent.
CloseScreen ==
  /\ screen.open
  /\ screen' = Closed /\ deed' = Nobody
  /\ survey' = [s \in Surveys |-> NoSurvey]
  /\ UNCHANGED recordVars

\* At its actions only.
SurveyNever(s) == FALSE /\ UNCHANGED directorVars

\* Every four seconds, at the Refresh button, and when the clock on the page has
\* run down.
SurveyAgain(s) ==
  /\ screen.open /\ ~survey[s].out /\ s # Afterwards
  /\ survey' = [survey EXCEPT ![s] = Asked]
  /\ UNCHANGED <<recordVars, screen, deed>>

\* The status comes from GET /api/admin/dashboard ...
ServeStatus(s) ==
  /\ survey[s].out /\ survey[s].status = Unread
  /\ survey' = [survey EXCEPT ![s].status = settings.status]
  /\ UNCHANGED <<recordVars, screen, deed>>

\* ... and the match from GET /api/event/status, each in its own time.
ServeMatch(s) ==
  /\ survey[s].out /\ survey[s].match = Unread
  /\ survey' = [survey EXCEPT ![s].match = settings.match]
  /\ UNCHANGED <<recordVars, screen, deed>>

\* Both have come. The status is shown, and what the body of the other says only when
\* that has been read. A request that fails leaves what is shown, as an older answer
\* would.
HearStatus(s) ==
  /\ survey[s].out /\ Unread \notin {survey[s].status, survey[s].match}
  /\ survey[s].status # Shown
  /\ survey' = [survey EXCEPT ![s].status = Shown]
  /\ screen' = [screen EXCEPT !.status = survey[s].status]
  /\ UNCHANGED <<recordVars, deed>>

\* The survey that follows an action ends it.
HearMatch(s) ==
  /\ survey[s].status = Shown
  /\ survey' = [survey EXCEPT ![s] = NoSurvey]
  /\ screen' = [screen EXCEPT !.match = survey[s].match]
  /\ deed' = IF s = Afterwards THEN Nobody ELSE deed
  /\ UNCHANGED recordVars

-----------------------------------------------------------------------------
(* Buttons and dialogues *)

Ask(d) == deed' = [do |-> d, step |-> "asked"]
Send(d) == deed' = [do |-> d, step |-> "sent"]
Idle == screen.open /\ deed = Nobody

\* handleStart, handlePause and handleResume send at once.
Press(d) ==
  /\ Idle
  /\ \/ d.kind = "start" /\ screen.status = "NOT_STARTED"
     \/ d.kind = "pause" /\ screen.status = "RUNNING"
     \/ d.kind = "resume" /\ screen.status = "PAUSED"
  /\ Send(d)
  /\ UNCHANGED <<recordVars, screen, survey>>

\* The end and the next match have to be confirmed, ...
AskToMoveOn(d) ==
  /\ Idle
  /\ \/ d.kind = "end" /\ screen.status \in {"RUNNING", "PAUSED"}
     \/ d.kind = "new" /\ screen.status = "ENDED"
  /\ Ask(d)
  /\ UNCHANGED <<recordVars, screen, survey>>

\* ... and so have deletions. The match shown as the current one is protected.
AskToDelete(d) ==
  /\ Idle
  /\ d.kind = "clear" \/ (d.kind = "delete" /\ d.of # screen.match)
  /\ Ask(d)
  /\ UNCHANGED <<recordVars, screen, survey>>

Asking(kinds) == deed # Nobody /\ deed.step = "asked" /\ deed.do.kind \in kinds

Cancel ==
  /\ Asking({"end", "new", "delete", "clear"})
  /\ deed' = Nobody
  /\ UNCHANGED <<recordVars, screen, survey>>

\* handleConfirmEnd and handleCreateNewMatch: neither looks at the status again, nor
\* says which match it means.
MoveOn ==
  /\ Asking({"end", "new"})
  /\ Send(deed.do)
  /\ UNCHANGED <<recordVars, screen, survey>>

\* handleDeleteMatch and handleClearHistory, from dialogues that stay open.
DeleteHistory ==
  /\ Asking({"delete", "clear"})
  /\ Send(deed.do)
  /\ UNCHANGED <<recordVars, screen, survey>>

\* The server obeys ...
Obey ==
  /\ deed # Nobody /\ deed.step = "sent"
  /\ Obeyed(deed.do) \/ (DoneAlready(deed.do) /\ UNCHANGED recordVars)
  /\ IF deed.do.kind = "clear"
     THEN deed' = [deed EXCEPT !.step = "clearing"] /\ UNCHANGED survey
     ELSE Refresh(deed.do)
  /\ UNCHANGED screen

\* ... or refuses, or the request is lost. The dialogue of a deletion is still
\* there then, others are closed.
Refuses ==
  /\ deed # Nobody /\ deed.step \in {"sent", "clearing"}
  /\ IF deed.do.kind \in {"delete", "clear"} THEN Ask(deed.do) ELSE deed' = Nobody
  /\ UNCHANGED <<recordVars, screen, survey>>

-----------------------------------------------------------------------------
DirectorNext ==
  \/ OthersAct \/ FinishClear \/ OpenScreen \/ CloseScreen
  \/ \E s \in Surveys : SurveyAgain(s) \/ ServeStatus(s) \/ ServeMatch(s)
                        \/ HearStatus(s) \/ HearMatch(s)
  \/ \E d \in Deeds : Press(d) \/ AskToMoveOn(d) \/ AskToDelete(d)
  \/ Cancel \/ MoveOn \/ DeleteHistory \/ Obey \/ Refuses

\* The interval goes on, and what is asked is answered.
DirectorFairness ==
  /\ WF_directorVars(\E s \in Surveys : SurveyAgain(s))
  /\ \A s \in Surveys :
       WF_directorVars(ServeStatus(s) \/ ServeMatch(s) \/ HearStatus(s) \/ HearMatch(s))

DirectorSpec == DirectorInit /\ [][DirectorNext]_directorVars /\ DirectorFairness

-----------------------------------------------------------------------------
(* Properties *)

\* However old what the page shows is, and whoever else acts, no deletion takes
\* the active match off the record, unless the history was cleared while a match
\* was created.
ActiveKept == ~raced => settings.match \in rows

\* Whatever old answers come late, a page that stays open ends up with the status
\* and the match of the event, if that changes no more.
DirectorFollows ==
  \/ []<>(screen.open => screen = [open |-> TRUE, match |-> settings.match, status |-> settings.status])
  \/ []<><<TRUE>>_settings
=============================================================================
