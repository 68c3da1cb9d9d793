------------------------------ MODULE Browser -------------------------------
(***************************************************************************)
(* The page of one competitor: the waiting room and the arena, the store   *)
(* of the event's match and status, and the challenge being worked on.     *)
(*                                                                         *)
(* The page asks the server by polling, and is told over a stream. Answers *)
(* come in any order, and those that a part of the page asked for come     *)
(* after it has left the screen.  A handler and the rendering it causes    *)
(* are one step.                                                           *)
(***************************************************************************)
EXTENDS Naturals, Sequences, FiniteSets

CONSTANTS
  Challenges,
  Nothing,    \* stands for null and for what is not there
  Syncs,      \* GET /api/event/status that can be under way at once
  Progresses, \* GET /api/challenges
  Notes,      \* messages to the waiting room
  Beats,      \* heartbeats of the waiting room
  Loads,      \* GET /api/challenges/:id
  MaxMatch,   \* bound: matches
  MaxWire,    \* bound: messages to the arena on the way
  MaxAnswers, \* bound: answers to polls on the way
  MaxDrafts   \* bound: drafts kept

ASSUME BrowserAssumption ==
  /\ MaxMatch \in Nat \ {0} /\ MaxWire \in Nat
  /\ MaxAnswers \in Nat \ {0} /\ MaxDrafts \in Nat
  /\ Syncs \cap Notes = {} /\ Syncs \cap Beats = {} /\ Syncs \cap Progresses = {}
  /\ Notes \cap Beats = {} /\ Notes \cap Progresses = {} /\ Beats \cap Progresses = {}

VARIABLES
  match, phase, \* event_settings
  opening,  \* createNewMatch has announced the next match and not committed it
  route,    \* participantRoute
  parent,   \* ParticipantExperience: currentMatchNumber and eventStatus
  store,    \* timerState: match and status
  stream,   \* the arena's EventSource is open
  wire,     \* messages on it
  answer,   \* the answers to polls on the way
  load,     \* the requests for a challenge on the way
  active,   \* activeChallengeId
  details,  \* challengeDetails
  editor,   \* the text of editorSource
  loading,  \* loadingChallenge
  drafts    \* localStorage: the texts kept by match and challenge

eventVars == <<match, phase, opening>>
pageVars == <<route, parent, store, stream, wire>>
workVars == <<active, details, editor, loading>>
vars == <<eventVars, pageVars, answer, load, workVars, drafts>>

Matches == 1..MaxMatch
Statuses == {"NOT_STARTED", "RUNNING", "PAUSED", "ENDED"}
Asks == Syncs \cup Progresses \cup Notes \cup Beats
At(m, s) == [match |-> m, status |-> s]

\* A text is known by the challenge and the match whose starter code it grew
\* from.
Text(c, m) == [chal |-> c, match |-> m]

-----------------------------------------------------------------------------
(* The store *)

\* updateFromServer, told of a match only: another one begins as NOT_STARTED.
Switch(st, m) == IF m = st.match THEN st ELSE At(m, "NOT_STARTED")

\* useAuthoritativeTimer runs at each rendering of the arena: whenever the store
\* is at another match than the parent, it returns to what the parent has.
Hook(st, p) == IF st.match # p.match THEN p ELSE st

-----------------------------------------------------------------------------
(* Entering and leaving the arena *)

ClearWork ==
  active' = Nothing /\ details' = Nothing /\ editor' = Nothing /\ loading' = FALSE

\* Requests of an arena that has left the screen go on. bump: all are out of
\* date.
Abandon(bump) ==
  load' = [l \in Loads |-> IF load[l] = Nothing THEN Nothing
             ELSE [load[l] EXCEPT !.home = FALSE, !.current = @ /\ ~bump]]

Enter(p, st) ==
  /\ route' = "arena" /\ parent' = p
  /\ store' = Hook(st, p)
  /\ stream' = FALSE /\ wire' = <<>>

\* onReturnToWaiting.
Leave(st) ==
  /\ route' = "waiting"
  /\ parent' = [parent EXCEPT !.status = "NOT_STARTED"]
  /\ store' = st
  /\ stream' = FALSE /\ wire' = <<>>
  /\ ClearWork

\* restoreSession of a page loaded now.
Restored ==
  LET now == At(match, phase)
  IN /\ parent' = now /\ store' = now
     /\ route' = IF phase = "NOT_STARTED" THEN "waiting" ELSE "arena"
     /\ stream' = FALSE /\ wire' = <<>>

Init ==
  /\ match = 1 /\ phase = "NOT_STARTED" /\ opening = FALSE
  /\ parent = At(1, "NOT_STARTED") /\ store = parent /\ route = "waiting"
  /\ stream = FALSE /\ wire = <<>>
  /\ answer = [a \in Asks |-> Nothing] /\ load = [l \in Loads |-> Nothing]
  /\ active = Nothing /\ details = Nothing /\ editor = Nothing /\ loading = FALSE
  /\ drafts = [m \in Matches |-> [c \in Challenges |-> Nothing]]

\* The page is loaded again. What is under way is lost; drafts are not.
Reload ==
  /\ Restored
  /\ ClearWork
  /\ answer' = [a \in Asks |-> Nothing] /\ load' = [l \in Loads |-> Nothing]
  /\ UNCHANGED <<eventVars, drafts>>

-----------------------------------------------------------------------------
(* The event *)

\* broadcastGlobal, to the arena's stream.
Room == Len(wire) < MaxWire
Tell(m) == wire' = IF stream THEN Append(wire, m) ELSE wire

\* START, PAUSE, RESUME and END say the new status only.
Transition(from, to) ==
  /\ phase \in from /\ ~opening
  /\ Room
  /\ phase' = to
  /\ Tell([type |-> "status", status |-> to])
  /\ UNCHANGED <<match, opening, route, parent, store, stream, answer, load, workVars, drafts>>

Transitions ==
  \/ Transition({"NOT_STARTED"}, "RUNNING")
  \/ Transition({"RUNNING"}, "PAUSED")
  \/ Transition({"PAUSED"}, "RUNNING")
  \/ Transition({"RUNNING", "PAUSED"}, "ENDED")

\* createNewMatch announces the match inside its transaction ...
Announce ==
  /\ phase = "ENDED" /\ ~opening /\ match < MaxMatch
  /\ Room
  /\ opening' = TRUE
  /\ Tell([type |-> "reset", match |-> match + 1])
  /\ UNCHANGED <<match, phase, route, parent, store, stream, answer, load, workVars, drafts>>

\* ... which commits, or fails.
Commit ==
  /\ opening
  /\ opening' = FALSE /\ match' = match + 1 /\ phase' = "NOT_STARTED"
  /\ UNCHANGED <<pageVars, answer, load, workVars, drafts>>

Abort ==
  /\ opening
  /\ opening' = FALSE
  /\ UNCHANGED <<match, phase, pageVars, answer, load, workVars, drafts>>

-----------------------------------------------------------------------------
(* The waiting room *)

\* handleEventStart. Messages to the waiting room end with it.
EventStart(st) ==
  /\ Enter([parent EXCEPT !.status = "RUNNING"], st)
  /\ answer' = [a \in Asks |-> IF a \in Notes THEN Nothing ELSE answer[a]]

Ask(a) ==
  /\ answer[a] = Nothing
  /\ Cardinality({b \in Asks : answer[b] # Nothing}) < MaxAnswers
  /\ answer' = [answer EXCEPT ![a] = At(match, phase)]
  /\ UNCHANGED <<eventVars, pageVars, load, workVars, drafts>>

Forget(a) == answer' = [answer EXCEPT ![a] = Nothing]

\* The status that GET /api/auth/events sends, every four seconds.
SendNote(n) == route = "waiting" /\ Ask(n)

HearNote(n) ==
  /\ answer[n] # Nothing
  /\ IF answer[n].status = "RUNNING"
     THEN EventStart(answer[n]) /\ ClearWork
     ELSE /\ store' = answer[n]
          /\ Forget(n)
          /\ UNCHANGED <<route, parent, stream, wire, workVars>>
  /\ UNCHANGED <<eventVars, load, drafts>>

\* A heartbeat; its answer changes nothing unless the match runs.
SendBeat(b) == route = "waiting" /\ phase = "RUNNING" /\ Ask(b)

\* The answer: in the arena already, it changes what the parent and the store
\* hold.
HearBeat(b) ==
  /\ answer[b] # Nothing
  /\ LET started == At(store.match, "RUNNING")
     IN IF route = "waiting"
        THEN /\ Enter([parent EXCEPT !.status = "RUNNING"], started)
             /\ ClearWork
             /\ answer' = [a \in Asks |-> IF a \in Notes \cup {b} THEN Nothing ELSE answer[a]]
        ELSE /\ parent' = [parent EXCEPT !.status = "RUNNING"]
             /\ store' = started
             /\ Forget(b)
             /\ UNCHANGED <<route, stream, wire, workVars>>
  /\ UNCHANGED <<eventVars, load, drafts>>

-----------------------------------------------------------------------------
(* The arena: polls and its stream *)

Connect ==
  /\ route = "arena" /\ ~stream
  /\ stream' = TRUE
  /\ UNCHANGED <<eventVars, route, parent, store, wire, answer, load, workVars, drafts>>

\* onerror closes it, and connects again after three seconds.
Break ==
  /\ stream
  /\ stream' = FALSE /\ wire' = <<>>
  /\ UNCHANGED <<eventVars, route, parent, store, answer, load, workVars, drafts>>

\* syncEventStatus: at once, every four seconds, at the focus, ...
AskSync(s) == route = "arena" /\ Ask(s)

\* Does not return to the waiting room.
HearSyncStays(s) ==
  /\ answer[s] # Nothing
  /\ Forget(s)
  /\ store' = IF route = "arena" THEN Hook(answer[s], parent) ELSE answer[s]
  /\ UNCHANGED <<eventVars, route, parent, stream, wire, workVars, load, drafts>>

HearSync(s) ==
  /\ answer[s] # Nothing
  /\ Forget(s)
  /\ IF answer[s].status = "NOT_STARTED"
     THEN Leave(answer[s]) /\ Abandon(FALSE)
     ELSE /\ store' = IF route = "arena" THEN Hook(answer[s], parent) ELSE answer[s]
          /\ UNCHANGED <<route, parent, stream, wire, workVars, load>>
  /\ UNCHANGED <<eventVars, drafts>>

\* fetchProgression: what it brings is left out, and EVENT_NOT_STARTED is not.
AskProgress(g) == route = "arena" /\ phase = "NOT_STARTED" /\ Ask(g)

HearProgress(g) ==
  /\ answer[g] # Nothing
  /\ Forget(g)
  /\ Leave(store) /\ Abandon(FALSE)
  /\ UNCHANGED <<eventVars, drafts>>

\* event.status.changed of a transition.
HearStatus ==
  /\ wire # <<>> /\ Head(wire).type = "status"
  /\ wire' = Tail(wire)
  /\ store' = [store EXCEPT !.status = Head(wire).status]
  /\ UNCHANGED <<eventVars, route, parent, stream, answer, load, workVars, drafts>>

\* event.status.changed of a new match, and match.reset right after it, which may
\* find that the page has left the arena.
HearReset ==
  /\ wire # <<>> /\ Head(wire).type = "reset"
  /\ Leave(At(Head(wire).match, "NOT_STARTED"))
  /\ \E bump \in BOOLEAN : Abandon(bump)
  /\ UNCHANGED <<eventVars, answer, drafts>>

-----------------------------------------------------------------------------
(* The arena: challenges *)

\* The requests before it stay current.
LoadChallengeKeeps(l, c) ==
  /\ route = "arena" /\ store.status # "NOT_STARTED"
  /\ load[l] = Nothing
  /\ load' = [load EXCEPT ![l] = [chal |-> c, match |-> 0, current |-> TRUE, home |-> TRUE]]
  /\ active' = c /\ loading' = TRUE
  /\ UNCHANGED <<eventVars, pageVars, answer, details, editor, drafts>>

\* loadChallenge, of a challenge that is clicked or selected at the beginning: the
\* requests before it are out of date.
LoadChallenge(l, c) ==
  /\ route = "arena" /\ store.status # "NOT_STARTED"
  /\ load[l] = Nothing
  /\ load' = [k \in Loads |->
       IF k = l THEN [chal |-> c, match |-> 0, current |-> TRUE, home |-> TRUE]
       ELSE IF load[k] # Nothing /\ load[k].home THEN [load[k] EXCEPT !.current = FALSE]
       ELSE load[k]]
  /\ active' = c /\ loading' = TRUE
  /\ UNCHANGED <<eventVars, pageVars, answer, details, editor, drafts>>

\* GET /api/challenges/:id reads the event ...
ServeChallenge(l) ==
  /\ load[l] # Nothing /\ load[l].match = 0
  /\ phase # "NOT_STARTED"
  /\ load' = [load EXCEPT ![l].match = match]
  /\ UNCHANGED <<eventVars, pageVars, answer, workVars, drafts>>

End(l) == load' = [load EXCEPT ![l] = Nothing]

\* ... and refuses, and the page returns to the waiting room.
Refuse(l) ==
  /\ load[l] # Nothing /\ load[l].match = 0
  /\ phase = "NOT_STARTED"
  /\ IF load[l].current
     THEN /\ Leave(store)
          /\ load' = [k \in Loads |-> IF k = l \/ load[k] = Nothing THEN Nothing
                                      ELSE [load[k] EXCEPT !.home = FALSE]]
     ELSE End(l) /\ UNCHANGED <<pageVars, workVars>>
  /\ UNCHANGED <<eventVars, answer, drafts>>

\* The draft is looked up in the match that the page believes in.
ShownByRef(l) ==
  LET c == load[l].chal
      kept == drafts[parent.match][c]
  IN /\ details' = Text(c, load[l].match)
     /\ editor' = IF kept # Nothing THEN kept ELSE Text(c, load[l].match)
     /\ loading' = FALSE
     /\ UNCHANGED active

\* What is shown of it: the draft kept for its match, or the starter code.
Shown(l) ==
  LET c == load[l].chal
      kept == drafts[load[l].match][c]
  IN /\ details' = Text(c, load[l].match)
     /\ editor' = IF kept # Nothing THEN kept ELSE Text(c, load[l].match)
     /\ loading' = FALSE
     /\ UNCHANGED active

\* The answer. The match in it goes into the store, to be taken back by the
\* rendering.
Loaded(l) ==
  /\ load[l] # Nothing /\ load[l].match # 0
  /\ End(l)
  /\ IF ~load[l].current
     THEN UNCHANGED <<store, workVars>>
     ELSE /\ store' = IF load[l].match = parent.match THEN store
                      ELSE IF route = "arena" THEN Hook(Switch(store, load[l].match), parent)
                      ELSE Switch(store, load[l].match)
          /\ IF load[l].home THEN Shown(l) ELSE UNCHANGED workVars
  /\ UNCHANGED <<eventVars, route, parent, stream, wire, answer, drafts>>

\* The network, the server or the lock of the challenge stops it.
LoadFails(l) ==
  /\ load[l] # Nothing
  /\ End(l)
  /\ IF load[l].current /\ load[l].home
     THEN details' = Nothing /\ loading' = FALSE /\ UNCHANGED <<active, editor>>
     ELSE UNCHANGED workVars
  /\ UNCHANGED <<eventVars, pageVars, answer, drafts>>

\* The challenge and the editor are on the screen.
Visible ==
  /\ route = "arena" /\ store.status # "NOT_STARTED"
  /\ ~loading /\ active # Nothing /\ details # Nothing

Kept == {k \in Matches \X Challenges : drafts[k[1]][k[2]] # Nothing}

\* handleEditorChange: what is typed is kept in the scope of the match that the
\* page believes in.
Type ==
  /\ Visible /\ store.status = "RUNNING"
  /\ Cardinality(Kept \cup {<<store.match, active>>}) <= MaxDrafts
  /\ drafts' = [drafts EXCEPT ![store.match][active] = editor]
  /\ UNCHANGED <<eventVars, pageVars, answer, load, workVars>>

\* handleResetStarterCode.
ResetStarterCode ==
  /\ Visible /\ store.status = "RUNNING"
  /\ editor' = details
  /\ drafts' = [drafts EXCEPT ![store.match][active] = Nothing]
  /\ UNCHANGED <<eventVars, pageVars, answer, load, active, details, loading>>

-----------------------------------------------------------------------------
Event == Transitions \/ Announce \/ Commit \/ Abort

Hear(a) ==
  \/ a \in Syncs /\ HearSync(a)
  \/ a \in Progresses /\ HearProgress(a)
  \/ a \in Notes /\ HearNote(a)
  \/ a \in Beats /\ HearBeat(a)

Listen == HearStatus \/ HearReset

Poll ==
  \/ \E s \in Syncs : AskSync(s)
  \/ \E g \in Progresses : AskProgress(g)

Wait ==
  \/ \E n \in Notes : SendNote(n)
  \/ \E b \in Beats : SendBeat(b)

Work ==
  \/ \E l \in Loads : (\E c \in Challenges : LoadChallenge(l, c)) \/ ServeChallenge(l)
                      \/ Refuse(l) \/ Loaded(l) \/ LoadFails(l)
  \/ Type \/ ResetStarterCode

Next ==
  \/ Event \/ Poll \/ Wait \/ Listen \/ Work
  \/ \E a \in Asks : Hear(a)
  \/ Connect \/ Break \/ Reload

Spec == Init /\ [][Next]_vars

\* The timers of the page fire and the server answers: the poll of the event,
\* the messages to the waiting room, and a transaction ends.
FairSpec ==
  /\ Spec
  /\ WF_vars(\E s \in Syncs : AskSync(s)) /\ WF_vars(\E n \in Notes : SendNote(n))
  /\ \A a \in Asks : WF_vars(Hear(a))
  /\ WF_vars(Listen) /\ WF_vars(Commit)

-----------------------------------------------------------------------------
(* Properties *)

\* Whatever order answers come in, the statement and the text on the screen are
\* those of the challenge that is selected, and so is every draft: a run sends no
\* text of another challenge.
EditorMatches ==
  /\ Visible => details.chal = active /\ editor.chal = active
  /\ \A m \in Matches, c \in Challenges :
       drafts[m][c] # Nothing => drafts[m][c].chal = c

\* No work of an earlier match is shown in a later one, even on a page that was
\* loaded before it.
NoWorkCarried ==
  /\ Visible => editor.match = details.match
  /\ \A c \in Challenges : drafts[match][c] # Nothing => drafts[match][c].match = match

\* A match that goes on brings the page to the arena, and one that waits brings it
\* to the waiting room, whatever old answers come late; and a page that was loaded
\* in this match ends up with the status that the event stays in.
FollowsEvent ==
  /\ <>[](phase = "RUNNING") => <>[](route = "arena")
  /\ <>[](phase = "NOT_STARTED") => <>[](route = "waiting")
  /\ \A s \in Statuses :
       <>[](route = "arena" /\ match = parent.match /\ phase = s) => <>[](store = At(match, s))
=============================================================================
