--------------------------- MODULE Displays_proofs ---------------------------
(***************************************************************************)
(* Theorems about what pages show: Console, Incidents and Scoreboard, for  *)
(* any challenges, incidents, matches, requests and announcements at once. *)
(***************************************************************************)
EXTENDS Scoreboard, Incidents, Console, TLAPS

-----------------------------------------------------------------------------
(* The console of a competitor *)

Details == [of : Tasks, done : BOOLEAN, mixed : BOOLEAN]
FlagCall == [of : Tasks, reply : {"none", "completed"}]
ProgressAnswer == [of : Tasks, solved : SUBSET Tasks]

ConsoleType ==
  /\ accepted \subseteq Tasks /\ news \subseteq Tasks /\ progress \subseteq Tasks
  /\ chosen \in Tasks \cup {NoTask}
  /\ coming \in {"none", "asked", "solved", "unsolved"}
  /\ coming # "none" => chosen \in Tasks
  /\ display \in Details \cup {NoTask}
  /\ run \in [Runs -> {"none", "posted", "polled", "ended"}] /\ busy \in BOOLEAN
  /\ call \in FlagCall \cup {NoTask}
  /\ inquiry \in ProgressAnswer \cup {NoTask}

\* Whatever is on its way to the page is true when it arrives: completions are
\* never taken back.
TrueNews ==
  /\ news \subseteq accepted /\ progress \subseteq accepted
  /\ coming = "solved" => chosen \in accepted
  /\ call # NoTask /\ call.reply = "completed" => call.of \in accepted
  /\ inquiry # NoTask => inquiry.solved \subseteq accepted

\* What is displayed while a load is under way may be marked by a message about
\* the challenge that is being loaded: the load replaces it.
TrueDetails ==
  /\ display # NoTask /\ coming = "none" => display.of = chosen
  /\ display # NoTask /\ coming = "none" /\ display.done /\ ~display.mixed => display.of \in accepted

ConsoleInv == ConsoleType /\ TrueNews /\ TrueDetails

LEMMA ConsoleStarts == ConsoleInit => ConsoleInv
  BY DEF ConsoleInit, ConsoleInv, ConsoleType, TrueNews, TrueDetails

\* An answer that one challenge is completed makes what is displayed no falser.
LEMMA Marking ==
  ASSUME ConsoleInv, NEW t \in accepted, Mark(t), chosen' = chosen, coming' = coming,
         accepted' = accepted
  PROVE  /\ display' \in Details \cup {NoTask}
         /\ TrueDetails'
  BY DEF ConsoleInv, ConsoleType, TrueDetails, Mark, Details

LEMMA ChoosingStep ==
  ASSUME ConsoleInv,
         \/ \E t \in Tasks : Choose(t)
         \/ ServeTask \/ ShowTask \/ TaskFails
  PROVE  ConsoleInv'
<1>1. CASE \E t \in Tasks : Choose(t)
  BY <1>1 DEF Choose, taskVars, runVars, ConsoleInv, ConsoleType, TrueNews, TrueDetails
<1>2. CASE ServeTask
  BY <1>2 DEF ServeTask, taskVars, runVars, ConsoleInv, ConsoleType, TrueNews, TrueDetails
<1>3. CASE ShowTask
  BY <1>3 DEF ShowTask, taskVars, runVars, ConsoleInv, ConsoleType, TrueNews, TrueDetails, Details
<1>4. CASE TaskFails
  BY <1>4 DEF TaskFails, taskVars, runVars, ConsoleInv, ConsoleType, TrueNews, TrueDetails
<1> QED
  BY <1>1, <1>2, <1>3, <1>4

\* Runs change nothing that is displayed.
LEMMA RunningStep ==
  ASSUME ConsoleInv, Running
  PROVE  ConsoleInv'
<1>1. run' \in [Runs -> {"none", "posted", "polled", "ended"}] /\ busy' \in BOOLEAN
  BY DEF Running, RunCode, RunEnqueued, RunRefused, PollRun, RunFallback, ConsoleInv, ConsoleType
<1>2. UNCHANGED <<taskVars, loadVars, display, call, inquiry, progress>>
  BY DEF Running, RunCode, RunEnqueued, RunRefused, PollRun, RunFallback
<1> QED
  BY <1>1, <1>2 DEF taskVars, loadVars, ConsoleInv, ConsoleType, TrueNews, TrueDetails

LEMMA FlagStep ==
  ASSUME ConsoleInv, SubmitFlag \/ AcceptFlag \/ FlagRefused \/ FlagAccepted
  PROVE  ConsoleInv'
<1>1. CASE SubmitFlag
  BY <1>1 DEF SubmitFlag, Ready, taskVars, runVars, loadVars, FlagCall, ConsoleInv, ConsoleType,
              TrueNews, TrueDetails
<1>2. CASE AcceptFlag
  <2>1. call \in FlagCall /\ call' = [of |-> call.of, reply |-> "completed"]
    BY <1>2 DEF AcceptFlag, ConsoleInv, ConsoleType, FlagCall
  <2>2. accepted' = accepted \cup {call.of} /\ news' \subseteq news \cup {call.of}
    BY <1>2 DEF AcceptFlag, Announced
  <2> QED
    BY <1>2, <2>1, <2>2 DEF AcceptFlag, runVars, loadVars, FlagCall, ConsoleInv, ConsoleType,
                            TrueNews, TrueDetails
<1>3. CASE FlagRefused
  BY <1>3 DEF FlagRefused, taskVars, runVars, loadVars, ConsoleInv, ConsoleType, TrueNews,
              TrueDetails
<1>4. CASE FlagAccepted
  <2>1. call.of \in accepted
    BY <1>4 DEF FlagAccepted, ConsoleInv, TrueNews
  <2>2. display' \in Details \cup {NoTask} /\ TrueDetails'
    BY <1>4, <2>1, Marking DEF FlagAccepted, taskVars, loadVars
  <2> QED
    BY <1>4, <2>2 DEF FlagAccepted, taskVars, runVars, loadVars, ConsoleInv, ConsoleType, TrueNews
<1> QED
  BY <1>1, <1>2, <1>3, <1>4

LEMMA SolvedStep ==
  ASSUME ConsoleInv,
         \/ \E t \in Tasks : HearCompleted(t) \/ LoseCompleted(t)
         \/ FetchProgression \/ HearProgression
  PROVE  ConsoleInv'
<1>1. ASSUME NEW t \in Tasks, HearCompleted(t)
      PROVE  ConsoleInv'
  <2>1. t \in accepted
    BY <1>1 DEF HearCompleted, ConsoleInv, TrueNews
  <2>2. display' \in Details \cup {NoTask}
    BY <1>1 DEF HearCompleted, ConsoleInv, ConsoleType, Details
  <2>3. TrueDetails'
    BY <1>1, <2>1 DEF HearCompleted, loadVars, ConsoleInv, ConsoleType, TrueDetails, Details
  <2> QED
    BY <1>1, <2>1, <2>2, <2>3 DEF HearCompleted, runVars, loadVars, ConsoleInv, ConsoleType, TrueNews
<1>2. ASSUME NEW t \in Tasks, LoseCompleted(t)
      PROVE  ConsoleInv'
  BY <1>2 DEF LoseCompleted, runVars, loadVars, ConsoleInv, ConsoleType, TrueNews, TrueDetails
<1>3. CASE FetchProgression
  BY <1>3 DEF FetchProgression, taskVars, runVars, loadVars, ProgressAnswer, ConsoleInv,
              ConsoleType, TrueNews, TrueDetails
<1>4. CASE HearProgression
  <2>1. inquiry \in ProgressAnswer /\ inquiry.solved \subseteq accepted
    BY <1>4 DEF HearProgression, ConsoleInv, ConsoleType, TrueNews
  <2>2. display' \in Details \cup {NoTask} /\ TrueDetails'
    <3>1. CASE inquiry.of \in inquiry.solved
      BY <1>4, <2>1, <3>1, Marking DEF HearProgression, taskVars, loadVars
    <3>2. CASE inquiry.of \notin inquiry.solved
      BY <1>4, <3>2 DEF HearProgression, taskVars, loadVars, ConsoleInv, ConsoleType, TrueDetails
    <3> QED
      BY <3>1, <3>2
  <2> QED
    BY <1>4, <2>1, <2>2 DEF HearProgression, taskVars, runVars, loadVars, ConsoleInv, ConsoleType,
                            TrueNews, ProgressAnswer
<1> QED
  BY <1>1, <1>2, <1>3, <1>4

LEMMA ConsoleStep == ConsoleInv /\ [ConsoleNext]_consoleVars => ConsoleInv'
<1> SUFFICES ASSUME ConsoleInv, [ConsoleNext]_consoleVars
             PROVE  ConsoleInv'
  OBVIOUS
<1>1. CASE UNCHANGED consoleVars
  BY <1>1 DEF consoleVars, taskVars, runVars, loadVars, ConsoleInv, ConsoleType, TrueNews, TrueDetails
<1> QED
  BY <1>1, ChoosingStep, RunningStep, FlagStep, SolvedStep DEF ConsoleNext, Solving

\* Nothing is shown as solved that the server has not accepted, whatever answers
\* and messages overtake each other, but for an answer about another challenge.
THEOREM ConsoleIsHonest == ConsoleSpec => []ConsoleHonest
<1>1. ConsoleInv => ConsoleHonest
  BY DEF ConsoleInv, TrueNews, TrueDetails, ConsoleHonest, Ready
<1> QED
  BY <1>1, ConsoleStarts, ConsoleStep, PTL DEF ConsoleSpec

-----------------------------------------------------------------------------
(* The panel of incidents *)

Rows == [id : Incidents, match : Matches, action : Actions]
Answers == [is : {"awaited", "failed", "ok"}, match : Matches \cup {0}, rows : SUBSET Rows]
Requests ==
  [pc : {"idle", "asked", "events taken"}, match : Matches \cup {0},
   events : Answers, summary : Answers]
Panels ==
  [open : BOOLEAN, match : Matches \cup {0}, rows : SUBSET Rows,
   summary : Matches \cup {0}, early : BOOLEAN]

IncidentsType ==
  /\ current \in Matches /\ announced \in BOOLEAN
  /\ announced => current < LastMatch
  /\ filing \in [Incidents -> Matches \cup {0}]
  /\ ledger \in [Incidents -> [match : Matches, action : Actions] \cup {NoRow}]
  /\ panel \in Panels
  /\ ask \in [Asks -> Requests]
  /\ adminWire \subseteq Matches
  /\ misled \in BOOLEAN

\* The rows of each answer are of its match.
OneMatchEach == \A q \in Asks : \A row \in ask[q].events.rows : row.match = ask[q].events.match

IncidentsInv == IncidentsType /\ OneMatchEach /\ OneMatch

LEMMA MatchesAre == Matches \subseteq Nat /\ 0 \notin Matches /\ 1 \in Matches
  BY IncidentsAssumption DEF Matches

LEMMA NoRowIs == NoRow \notin [match : Matches, action : Actions]
  BY MatchesAre DEF NoRow

LEMMA NothingAsked ==
  /\ Awaited \in Answers /\ Awaited.rows = {}
  /\ Failed \in Answers /\ Failed.rows = {}
  /\ Unasked \in Requests /\ Unasked.events.rows = {}
  BY DEF Awaited, Failed, Unasked, Answers, Requests

LEMMA NoPanelType ==
  ASSUME NEW m \in Matches \cup {0}
  PROVE  /\ [NoPanel EXCEPT !.open = TRUE, !.match = m] \in Panels
         /\ NoPanel \in Panels /\ [NoPanel EXCEPT !.open = TRUE] \in Panels
  BY DEF NoPanel, Panels

LEMMA SummaryType ==
  ASSUME NEW m \in Matches \cup {0}
  PROVE  Summary(m) \in Answers
  BY DEF Summary, Awaited, Answers

\* getEvents finds the rows of the match it is asked for, only.
LEMMA RowsOfMatch ==
  ASSUME IncidentsType, NEW m \in Matches
  PROVE  /\ RowsOf(m) \in SUBSET Rows
         /\ \A row \in RowsOf(m) : row.match = m
<1> SUFFICES ASSUME NEW row \in RowsOf(m)
             PROVE  row \in Rows /\ row.match = m
  OBVIOUS
<1>1. PICK i \in Incidents : ledger[i].match = m /\ row = [id |-> i, match |-> m, action |-> ledger[i].action]
  BY DEF RowsOf
<1>2. ledger[i] \in [match : Matches, action : Actions] \cup {NoRow}
  BY DEF IncidentsType
<1>3. CASE ledger[i] = NoRow
  BY <1>1, <1>3, MatchesAre DEF NoRow, Rows, Actions
<1> QED
  BY <1>1, <1>2, <1>3 DEF Rows

\* A new request of a kind that keeps to one match disturbs no other.
LEMMA AskStep ==
  ASSUME IncidentsType, OneMatchEach, NEW q \in Asks, NEW r \in Requests,
         \A row \in r.events.rows : row.match = r.events.match,
         ask' = [ask EXCEPT ![q] = r]
  PROVE  ask' \in [Asks -> Requests] /\ OneMatchEach'
<1>1. ask \in [Asks -> Requests]
  BY DEF IncidentsType
<1> QED
  BY <1>1 DEF OneMatchEach

LEMMA FetchStep ==
  ASSUME IncidentsType, OneMatchEach, NEW q \in Asks, NEW m \in Matches \cup {0}, Fetch(q, m)
  PROVE  ask' \in [Asks -> Requests] /\ OneMatchEach'
<1> DEFINE r == [Unasked EXCEPT !.pc = "asked", !.match = m,
                                !.summary = IF m = 0 THEN @ ELSE Summary(m)]
<1>1. r \in Requests /\ r.events.rows = {}
  BY SummaryType, NothingAsked DEF Unasked, Requests
<1>2. ask' = [ask EXCEPT ![q] = r]
  BY DEF Fetch
<1> HIDE DEF r
<1> QED
  BY <1>1, <1>2, AskStep

LEMMA IncidentsStarts == IncidentsInit => IncidentsInv
<1> SUFFICES ASSUME IncidentsInit
             PROVE  IncidentsInv
  OBVIOUS
<1>1. IncidentsType
  BY MatchesAre, NothingAsked, NoPanelType DEF IncidentsInit, IncidentsType
<1>2. OneMatchEach
  BY NothingAsked DEF IncidentsInit, OneMatchEach
<1>3. OneMatch
  BY DEF IncidentsInit, OneMatch, NoPanel
<1> QED
  BY <1>1, <1>2, <1>3 DEF IncidentsInv

LEMMA MatchStep ==
  ASSUME IncidentsInv,
         \/ AnnounceNextMatch \/ CommitNextMatch \/ AbortNextMatch
         \/ \E gone : DeleteIncidents(gone)
  PROVE  IncidentsInv'
<1>1. CASE AnnounceNextMatch
  BY <1>1, IncidentsAssumption
  DEF AnnounceNextMatch, Matches, IncidentsInv, IncidentsType, OneMatchEach, OneMatch
<1>2. CASE CommitNextMatch
  <2>1. current' \in Matches
    BY <1>2, IncidentsAssumption DEF CommitNextMatch, Matches, IncidentsInv, IncidentsType
  <2> QED
    BY <1>2, <2>1 DEF CommitNextMatch, IncidentsInv, IncidentsType, OneMatchEach, OneMatch
<1>3. CASE AbortNextMatch
  BY <1>3 DEF AbortNextMatch, IncidentsInv, IncidentsType, OneMatchEach, OneMatch
<1>4. CASE \E gone : DeleteIncidents(gone)
  BY <1>4 DEF DeleteIncidents, IncidentsInv, IncidentsType, OneMatchEach, OneMatch
<1> QED
  BY <1>1, <1>2, <1>3, <1>4

LEMMA FilingStep ==
  ASSUME IncidentsInv, NEW i \in Incidents,
         Insert(i) \/ ReviewEvent(i) \/ \E m \in Matches : Settle(i, m)
  PROVE  IncidentsInv'
<1>1. CASE Insert(i)
  BY <1>1 DEF Insert, Actions, IncidentsInv, IncidentsType, OneMatchEach, OneMatch
<1>2. CASE ReviewEvent(i)
  <2>1. ledger[i] \in [match : Matches, action : Actions]
    BY <1>2 DEF ReviewEvent, IncidentsInv, IncidentsType
  <2>2. [ledger[i] EXCEPT !.action = "VERIFIED_CLEAR"] \in [match : Matches, action : Actions]
    BY <2>1 DEF Actions
  <2> QED
    BY <1>2, <2>1, <2>2 DEF ReviewEvent, Actions, IncidentsInv, IncidentsType, OneMatchEach, OneMatch
<1>3. CASE \E m \in Matches : Settle(i, m)
  BY <1>3 DEF Settle, IncidentsInv, IncidentsType, OneMatchEach, OneMatch
<1> QED
  BY <1>1, <1>2, <1>3

\* The requests of the panel, until an answer is taken.
LEMMA RequestStep ==
  ASSUME IncidentsInv, NEW q \in Asks,
         \/ Poll(q) \/ Refresh(q) \/ Open(q)
         \/ ServeEvents(q) \/ ServeSummary(q) \/ ServeFails(q) \/ Unanswered(q)
  PROVE  IncidentsInv'
<1>1. ask' \in [Asks -> Requests] /\ OneMatchEach'
  <2>1. CASE Poll(q) \/ Refresh(q) \/ Open(q)
    BY <2>1, FetchStep DEF Poll, Refresh, Open, IncidentsInv, IncidentsType, Panels
  <2>2. CASE ServeEvents(q)
    <3> DEFINE a == [is |-> "ok", match |-> Target(q), rows |-> RowsOf(Target(q))]
    <3>1. Target(q) \in Matches
      BY DEF Target, IncidentsInv, IncidentsType, Requests
    <3>2. a \in Answers /\ \A row \in a.rows : row.match = a.match
      BY <3>1, RowsOfMatch DEF Answers, IncidentsInv
    <3>3. ask' = [ask EXCEPT ![q] = [ask[q] EXCEPT !.events = a]]
      BY <2>2 DEF ServeEvents, IncidentsInv, IncidentsType
    <3> HIDE DEF a
    <3>4. [ask[q] EXCEPT !.events = a] \in Requests /\ [ask[q] EXCEPT !.events = a].events = a
      BY <3>2 DEF Requests, IncidentsInv, IncidentsType
    <3> QED
      BY <3>2, <3>3, <3>4, AskStep DEF IncidentsInv
  <2>3. CASE ServeSummary(q)
    <3>1. Summary(current) \in Answers
      BY SummaryType DEF IncidentsInv, IncidentsType
    <3> QED
      BY <2>3, <3>1 DEF ServeSummary, IncidentsInv, IncidentsType, OneMatchEach, Requests
  <2>4. CASE ServeFails(q)
    <3>1. /\ [ask[q] EXCEPT !.events = Failed] \in Requests
          /\ [ask[q] EXCEPT !.events = Failed].events = Failed
          /\ [ask[q] EXCEPT !.summary = Failed] \in Requests
          /\ [ask[q] EXCEPT !.summary = Failed].events = ask[q].events
      BY NothingAsked DEF Requests, IncidentsInv, IncidentsType
    <3>2. CASE ask' = [ask EXCEPT ![q].events = Failed]
      BY <3>1, <3>2, NothingAsked, AskStep DEF IncidentsInv
    <3>3. CASE ask' = [ask EXCEPT ![q].summary = Failed]
      BY <3>1, <3>3, AskStep DEF IncidentsInv, OneMatchEach
    <3> QED
      BY <2>4, <3>2, <3>3 DEF ServeFails
  <2>5. CASE Unanswered(q)
    BY <2>5, NothingAsked, AskStep DEF Unanswered, IncidentsInv, IncidentsType, OneMatchEach
  <2> QED
    BY <2>1, <2>2, <2>3, <2>4, <2>5
<1>2. panel' \in Panels /\ OneMatch'
  <2>1. CASE Open(q)
    BY <2>1, NoPanelType DEF Open, OneMatch, NoPanel
  <2>2. CASE UNCHANGED panel
    BY <2>2 DEF IncidentsInv, IncidentsType, OneMatch
  <2> QED
    BY <2>1, <2>2 DEF Poll, Refresh, ServeEvents, ServeSummary, ServeFails, Unanswered
<1>3. UNCHANGED <<current, announced, filing, ledger, adminWire>> /\ misled' \in BOOLEAN
  BY DEF Poll, Refresh, Open, ServeEvents, ServeSummary, ServeFails, Unanswered, IncidentsInv,
         IncidentsType
<1> QED
  BY <1>1, <1>2, <1>3 DEF IncidentsInv, IncidentsType

\* Taking the events settles the match of the panel, and drops a summary of another.
LEMMA TakeEventsStep ==
  ASSUME IncidentsInv, NEW q \in Asks, TakeEvents(q)
  PROVE  IncidentsInv'
<1> DEFINE answer == ask[q].events
           r == [ask[q] EXCEPT !.pc = "events taken", !.events = Awaited]
<1>1. r \in Requests /\ r.events = Awaited
  BY NothingAsked DEF IncidentsInv, IncidentsType, Requests
<1>2. ask' = [ask EXCEPT ![q] = r]
  BY DEF TakeEvents
<1>3. ask' \in [Asks -> Requests] /\ OneMatchEach'
  <2> HIDE DEF r
  <2> QED
    BY <1>1, <1>2, NothingAsked, AskStep DEF IncidentsInv
<1>4. answer \in Answers /\ panel \in Panels /\ \A row \in answer.rows : row.match = answer.match
  BY DEF IncidentsInv, IncidentsType, OneMatchEach, Requests
<1>5. panel' \in Panels /\ OneMatch'
  <2>1. CASE answer = Failed
    BY <2>1 DEF TakeEvents, IncidentsInv, IncidentsType, OneMatch
  <2>2. CASE answer # Failed
    <3> DEFINE n == [panel EXCEPT !.match = answer.match, !.rows = answer.rows,
                        !.summary = IF panel.match \notin {0, answer.match} THEN 0 ELSE @]
    <3>1. panel' = n
      BY <2>2 DEF TakeEvents
    <3>2. /\ n.match = answer.match /\ n.rows = answer.rows /\ n.early = panel.early
          /\ n.summary = IF panel.match \notin {0, answer.match} THEN 0 ELSE panel.summary
          /\ n \in Panels
      BY <1>4 DEF Panels, Answers
    <3> HIDE DEF n
    <3> QED
      BY <1>4, <3>1, <3>2 DEF IncidentsInv, OneMatch
  <2> QED
    BY <2>1, <2>2
<1>6. UNCHANGED <<current, announced, filing, ledger, adminWire>> /\ misled' \in BOOLEAN
  BY DEF TakeEvents, IncidentsInv, IncidentsType
<1> QED
  BY <1>3, <1>5, <1>6 DEF IncidentsInv, IncidentsType

\* A summary is of the match of the panel, or early.
LEMMA TakeSummaryStep ==
  ASSUME IncidentsInv, NEW q \in Asks, TakeSummary(q)
  PROVE  IncidentsInv'
<1>1. ask' \in [Asks -> Requests] /\ OneMatchEach'
  BY NothingAsked, AskStep DEF TakeSummary, IncidentsInv
<1>2. panel' \in Panels /\ OneMatch'
  <2>1. CASE UNCHANGED panel
    BY <2>1 DEF IncidentsInv, IncidentsType, OneMatch
  <2>2. CASE ~UNCHANGED panel
    <3> DEFINE n == [panel EXCEPT !.summary = ask[q].summary.match, !.early = panel.match = 0]
    <3>1. panel' = n /\ panel.match \in {0, ask[q].summary.match}
      BY <2>2 DEF TakeSummary
    <3>2. /\ n.match = panel.match /\ n.rows = panel.rows /\ n.early = (panel.match = 0)
          /\ n.summary = ask[q].summary.match
          /\ n \in Panels
      BY DEF Panels, IncidentsInv, IncidentsType, Requests, Answers
    <3> HIDE DEF n
    <3> QED
      BY <3>1, <3>2 DEF IncidentsInv, OneMatch
  <2> QED
    BY <2>1, <2>2
<1>3. UNCHANGED <<current, announced, filing, ledger, adminWire, misled>>
  BY DEF TakeSummary
<1> QED
  BY <1>1, <1>2, <1>3 DEF IncidentsInv, IncidentsType

LEMMA HearStep ==
  ASSUME IncidentsInv, NEW q \in Asks, NEW m \in adminWire, HearMatch(q, m)
  PROVE  IncidentsInv'
<1>1. m \in Matches
  BY DEF IncidentsInv, IncidentsType
<1>2. ask' \in [Asks -> Requests] /\ OneMatchEach'
  BY <1>1, FetchStep DEF HearMatch, IncidentsInv
<1>3. panel' \in Panels /\ OneMatch'
  BY <1>1, NoPanelType DEF HearMatch, NoPanel, IncidentsInv, IncidentsType, OneMatch
<1> QED
  BY <1>2, <1>3 DEF HearMatch, IncidentsInv, IncidentsType

LEMMA StreamStep ==
  ASSUME IncidentsInv, BreakStream \/ Close
  PROVE  IncidentsInv'
<1>1. CASE BreakStream
  BY <1>1 DEF BreakStream, IncidentsInv, IncidentsType, OneMatchEach, OneMatch
<1>2. CASE Close
  <2>1. ask' \in [Asks -> Requests] /\ OneMatchEach'
    BY <1>2, NothingAsked DEF Close, OneMatchEach
  <2>2. panel' \in Panels /\ OneMatch'
    BY <1>2, NoPanelType DEF Close, NoPanel, OneMatch
  <2> QED
    BY <1>2, <2>1, <2>2 DEF Close, IncidentsInv, IncidentsType
<1> QED
  BY <1>1, <1>2

LEMMA IncidentsStep == IncidentsInv /\ [IncidentsNext]_incidentsVars => IncidentsInv'
<1> SUFFICES ASSUME IncidentsInv, [IncidentsNext]_incidentsVars
             PROVE  IncidentsInv'
  OBVIOUS
<1>1. CASE UNCHANGED incidentsVars
  BY <1>1 DEF incidentsVars, IncidentsInv, IncidentsType, OneMatchEach, OneMatch
<1> QED
  BY <1>1, MatchStep, FilingStep, RequestStep, TakeEventsStep, TakeSummaryStep, HearStep, StreamStep
  DEF IncidentsNext, Serve, Take, Hear

\* All that the panel shows is of one match, whatever answers come late.
THEOREM PanelHasOneMatch == IncidentsSpec => []OneMatch
<1>1. IncidentsInv => OneMatch
  BY DEF IncidentsInv
<1> QED
  BY <1>1, IncidentsStarts, IncidentsStep, PTL DEF IncidentsSpec

-----------------------------------------------------------------------------
(* The scoreboard of a spectator *)

Kinds == {"open", "status", "leaderboard"}
Messages == [type : Kinds, list : Nat, event : Nat]
States ==
  {"idle", "progress", "status.changed", "list", "status", "send", "event"}
Work == [pc : States, list : Nat, event : Nat]

\* Notifications go through the leaderboard, then the event; the others read the
\* event first.
StatesOf(j) ==
  IF j \in Notifies THEN {"idle", "progress", "status.changed", "list", "status", "send"}
  ELSE {"idle", "event", "list", "send"}

ScoreboardType ==
  /\ board \in Nat /\ event \in Nat /\ opening \in BOOLEAN /\ slip \in BOOLEAN
  /\ job \in [Jobs -> Work] /\ \A j \in Jobs : job[j].pc \in StatesOf(j)
  /\ stream \in {"opening", "open", "waiting"}
  /\ clients = (stream = "open")
  /\ wire \in Seq(Messages)
  /\ told \in [list : Nat, event : Nat] /\ lost \in [list : Nat, event : Nat]

OnWire == {wire[k] : k \in 1..Len(wire)}

\* What is written, or announced.
Due == IF opening THEN event + 1 ELSE event

\* Nothing is newer than what it was read from.
NothingNewer ==
  /\ told.list <= board /\ (slip \/ told.event <= Due)
  /\ slip \/ (lost.list <= Coming(board) /\ lost.event <= Due)
  /\ \A m \in OnWire : m.list <= board /\ (slip \/ m.event <= Due)
  /\ \A j \in Jobs : job[j].list <= board /\ job[j].event <= event

\* A new match that has not been read of yet, for reading it now is a slip: the
\* leaderboard will be, or would have been had the read not failed; and of the
\* event there has been word, or will be when the stream is told.
Unread == {"progress", "status.changed", "list"}

MatchPending ==
  opening /\ ~slip => lost.list > board \/ \E n \in Notifies : job[n].pc \in Unread

MatchKnown ==
  opening /\ ~slip /\ stream = "open" =>
    \/ told.event > event \/ lost.event > event
    \/ \E m \in OnWire : m.type \in {"leaderboard", "status"} /\ m.event > event
    \/ job["first"].pc = "event"

\* A job whose message will have the latest leaderboard, or event: not a fetch,
\* for fetches fail and are not repeated. What a notification says of the event
\* after the status has been broadcast is not needed.
BringsList(j) ==
  \/ job[j].pc \in {"progress", "status.changed", "list", "event"}
  \/ job[j].pc \in {"status", "send"} /\ job[j].list >= board

BringsEvent(j) ==
  \/ job[j].pc = "event"
  \/ job[j].pc = "status.changed" /\ job[j].event >= event
  \/ job[j].pc \in {"list", "send"} /\ j = "first" /\ job[j].event >= event

\* The spectator has been shown the latest, or it is on its way, or was swallowed.
ListComes ==
  \/ told.list >= board \/ lost.list >= board
  \/ \E m \in OnWire : m.type = "leaderboard" /\ m.list >= board
  \/ \E j \in Jobs \ Fetches : BringsList(j)

EventComes ==
  \/ told.event >= event \/ lost.event >= event
  \/ \E m \in OnWire : m.type \in {"leaderboard", "status"} /\ m.event >= event
  \/ \E j \in Jobs \ Fetches : BringsEvent(j)

AllComes == stream = "open" /\ ~slip => ListComes /\ EventComes

ScoreboardInv == ScoreboardType /\ NothingNewer /\ MatchPending /\ MatchKnown /\ AllComes

\* The wire, as a set of messages.
LEMMA WireGrows ==
  ASSUME wire \in Seq(Messages), NEW m \in Messages, wire' = Append(wire, m)
  PROVE  wire' \in Seq(Messages) /\ OnWire' = OnWire \cup {m}
<1>1. Len(wire') = Len(wire) + 1 /\ Len(wire) \in Nat
  OBVIOUS
<1>2. \A k \in 1..Len(wire) : wire'[k] = wire[k]
  OBVIOUS
<1>3. wire'[Len(wire) + 1] = m
  OBVIOUS
<1>4. 1..(Len(wire) + 1) = 1..Len(wire) \cup {Len(wire) + 1}
  BY <1>1
<1>5. OnWire' = {wire'[k] : k \in 1..Len(wire)} \cup {m}
  BY <1>1, <1>3, <1>4 DEF OnWire
<1>6. {wire'[k] : k \in 1..Len(wire)} = {wire[k] : k \in 1..Len(wire)}
  BY <1>2
<1>7. wire' \in Seq(Messages)
  OBVIOUS
<1> QED
  BY <1>5, <1>6, <1>7 DEF OnWire

LEMMA WireShrinks ==
  ASSUME wire \in Seq(Messages), wire # <<>>, wire' = Tail(wire)
  PROVE  /\ wire' \in Seq(Messages)
         /\ Head(wire) \in Messages /\ Head(wire) \in OnWire
         /\ OnWire' \subseteq OnWire
         /\ \A m \in OnWire : m = Head(wire) \/ m \in OnWire'
<1>1. Len(wire) \in Nat \ {0} /\ Len(wire') = Len(wire) - 1 /\ wire' \in Seq(Messages)
  OBVIOUS
<1>2. Head(wire) = wire[1] /\ Head(wire) \in Messages
  BY <1>1
<1>3. \A k \in 1..Len(wire') : wire'[k] = wire[k + 1] /\ k + 1 \in 1..Len(wire)
  BY <1>1
<1>4. \A k \in 1..Len(wire) : k = 1 \/ (k - 1 \in 1..Len(wire') /\ wire[k] = wire'[k - 1])
  BY <1>1
<1>5. Head(wire) \in OnWire
  BY <1>1, <1>2 DEF OnWire
<1>6. OnWire' \subseteq OnWire
  <2> SUFFICES ASSUME NEW k \in 1..Len(wire')
               PROVE  \E i \in 1..Len(wire) : wire'[k] = wire[i]
    BY DEF OnWire
  <2> QED
    BY <1>3
<1>7. \A m \in OnWire : m = Head(wire) \/ m \in OnWire'
  <2> SUFFICES ASSUME NEW k \in 1..Len(wire)
               PROVE  wire[k] = Head(wire) \/ wire[k] \in OnWire'
    BY DEF OnWire
  <2>1. CASE k = 1
    BY <2>1, <1>2
  <2>2. CASE k - 1 \in 1..Len(wire') /\ wire[k] = wire'[k - 1]
    BY <2>2 DEF OnWire
  <2> QED
    BY <1>4, <2>1, <2>2
<1> QED
  BY <1>1, <1>2, <1>5, <1>6, <1>7

LEMMA WireEmpty ==
  ASSUME wire' = <<>>
  PROVE  wire' \in Seq(Messages) /\ OnWire' = {}
  BY DEF OnWire

\* What a spectator has been shown never gets older here.
LEMMA ShowStep ==
  ASSUME told \in [list : Nat, event : Nat],
         NEW m, m.list \in Nat, m.event \in Nat, NEW b \in BOOLEAN,
         Show(m, b)
  PROVE  /\ told' \in [list : Nat, event : Nat]
         /\ told'.list >= told.list /\ told'.event >= told.event /\ told'.event >= m.event
         /\ b => told'.list >= m.list
         /\ told'.list = told.list \/ told'.list = m.list
         /\ told'.event = told.event \/ told'.event = m.event
  BY DEF Show, Latest

LEMMA JobsAre ==
  /\ Notifies \subseteq Jobs /\ Fetches \subseteq Jobs /\ "first" \in Jobs
  /\ Jobs \ Fetches = Notifies \cup {"first"}
  /\ Notifies \cap Fetches = {} /\ "first" \notin Notifies
  BY ScoreboardAssumption DEF Jobs

LEMMA WireType ==
  ASSUME ScoreboardType, NEW m \in OnWire
  PROVE  m \in Messages
  BY DEF ScoreboardType, OnWire

\* A job that moves on, and the others.
LEMMA JobStep ==
  ASSUME ScoreboardType, NEW j \in Jobs, NEW r \in Work, r.pc \in StatesOf(j),
         job' = [job EXCEPT ![j] = r]
  PROVE  /\ job' \in [Jobs -> Work] /\ \A k \in Jobs : job'[k].pc \in StatesOf(k)
         /\ job'[j] = r
         /\ \A k \in Jobs : k # j => job'[k] = job[k]
  BY DEF ScoreboardType

LEMMA IdleIs ==
  /\ Idle \in Work /\ Idle.pc = "idle" /\ Idle.list = 0 /\ Idle.event = 0
  /\ \A j : Idle.pc \in StatesOf(j)
  BY DEF Idle, Work, States, StatesOf

LEMMA StatesAre ==
  /\ \A j \in Notifies :
       StatesOf(j) = {"idle", "progress", "status.changed", "list", "status", "send"}
  /\ \A j \in Jobs \ Notifies : StatesOf(j) = {"idle", "event", "list", "send"}
  BY DEF StatesOf

\* When neither the leaderboard nor the event changes, it is enough that what is on
\* its way stays on its way or is shown.
LEMMA StillComes ==
  ASSUME ScoreboardType, UNCHANGED <<board, event, opening, stream>>, slip => slip',
         told' \in [list : Nat, event : Nat], lost' \in [list : Nat, event : Nat],
         told'.list >= told.list, told'.event >= told.event,
         lost'.list >= lost.list, lost'.event >= lost.event,
         \A m \in OnWire :
           \/ m \in OnWire'
           \/ /\ m.type = "leaderboard" => told'.list >= m.list
              /\ m.type \in {"leaderboard", "status"} => told'.event >= m.event,
         slip' \/ \A k \in Jobs \ Fetches : BringsList(k) =>
           \/ BringsList(k)' \/ lost'.list >= board
           \/ \E m \in OnWire' : m.type = "leaderboard" /\ m.list >= board,
         slip' \/ \A k \in Jobs \ Fetches : BringsEvent(k) =>
           \/ BringsEvent(k)' \/ lost'.event >= event
           \/ \E m \in OnWire' : m.type \in {"leaderboard", "status"} /\ m.event >= event,
         slip' \/ (opening /\ job["first"].pc = "event" =>
                    job'["first"].pc = "event" \/ lost'.event > event),
         AllComes, MatchKnown
  PROVE  AllComes' /\ MatchKnown'
<1> board \in Nat /\ event \in Nat /\ told \in [list : Nat, event : Nat] /\ lost \in [list : Nat, event : Nat]
  BY DEF ScoreboardType
<1>1. ASSUME ListComes, ~slip'
      PROVE  ListComes'
  <2>1. CASE told.list >= board \/ lost.list >= board
    BY <2>1 DEF ListComes
  <2>2. ASSUME NEW m \in OnWire, m.type = "leaderboard", m.list >= board
        PROVE  ListComes'
    <3>1. m.list \in Nat
      BY <2>2, WireType DEF Messages
    <3>2. CASE m \in OnWire'
      BY <2>2, <3>2 DEF ListComes
    <3>3. CASE told'.list >= m.list
      BY <2>2, <3>1, <3>3 DEF ListComes
    <3> QED
      BY <2>2, <3>2, <3>3
  <2>3. ASSUME NEW k \in Jobs \ Fetches, BringsList(k)
        PROVE  ListComes'
    <3>1. CASE BringsList(k)'
      BY <3>1, JobsAre DEF ListComes, Jobs
    <3>2. CASE lost'.list >= board
      BY <3>2 DEF ListComes
    <3>3. ASSUME NEW m \in OnWire', m.type = "leaderboard", m.list >= board
          PROVE  ListComes'
      BY <3>3 DEF ListComes
    <3> QED
      BY <1>1, <2>3, <3>1, <3>2, <3>3
  <2> QED
    BY <1>1, <2>1, <2>2, <2>3 DEF ListComes
<1>2. ASSUME EventComes, ~slip'
      PROVE  EventComes'
  <2>1. CASE told.event >= event \/ lost.event >= event
    BY <2>1 DEF EventComes
  <2>2. ASSUME NEW m \in OnWire, m.type \in {"leaderboard", "status"}, m.event >= event
        PROVE  EventComes'
    <3>1. m.event \in Nat
      BY <2>2, WireType DEF Messages
    <3>2. CASE m \in OnWire'
      BY <2>2, <3>2 DEF EventComes
    <3>3. CASE told'.event >= m.event
      BY <2>2, <3>1, <3>3 DEF EventComes
    <3> QED
      BY <2>2, <3>2, <3>3
  <2>3. ASSUME NEW k \in Jobs \ Fetches, BringsEvent(k)
        PROVE  EventComes'
    <3>1. CASE BringsEvent(k)'
      BY <3>1, JobsAre DEF EventComes, Jobs
    <3>2. CASE lost'.event >= event
      BY <3>2 DEF EventComes
    <3>3. ASSUME NEW m \in OnWire', m.type \in {"leaderboard", "status"}, m.event >= event
          PROVE  EventComes'
      BY <3>3 DEF EventComes
    <3> QED
      BY <1>2, <2>3, <3>1, <3>2, <3>3
  <2> QED
    BY <1>2, <2>1, <2>2, <2>3 DEF EventComes
<1>3. AllComes'
  BY <1>1, <1>2 DEF AllComes
<1>4. MatchKnown'
  <2> SUFFICES ASSUME opening, ~slip', stream = "open"
               PROVE  \/ told'.event > event \/ lost'.event > event
                      \/ \E m \in OnWire' : m.type \in {"leaderboard", "status"} /\ m.event > event
                      \/ job'["first"].pc = "event"
    BY DEF MatchKnown
  <2>1. CASE told.event > event \/ lost.event > event
    BY <2>1
  <2>2. ASSUME NEW m \in OnWire, m.type \in {"leaderboard", "status"}, m.event > event
        PROVE  m \in OnWire' \/ told'.event > event
    <3>1. m.event \in Nat
      BY <2>2, WireType DEF Messages
    <3> QED
      BY <2>2, <3>1
  <2>3. CASE job["first"].pc = "event"
    BY <2>3
  <2> QED
    BY <2>1, <2>2, <2>3 DEF MatchKnown
<1> QED
  BY <1>3, <1>4

LEMMA ScoreboardStarts == Init => ScoreboardInv
<1> SUFFICES ASSUME Init
             PROVE  ScoreboardInv
  OBVIOUS
<1> DEFINE first == [Idle EXCEPT !.pc = "event"]
<1>1. PICK f \in Fetches : job = [j \in Jobs |-> IF j = f THEN first ELSE Idle]
  BY DEF Init
<1>2. first \in Work /\ first.pc = "event" /\ first.list = 0 /\ first.event = 0
  BY DEF Idle, Work, States
<1>3. f \in Jobs \ Notifies
  BY <1>1, JobsAre
<1> HIDE DEF first
<1>4. \A j \in Jobs : job[j].pc \in StatesOf(j) /\ job[j] \in Work /\ job[j].list = 0 /\ job[j].event = 0
  BY <1>1, <1>2, <1>3, IdleIs, StatesAre
<1>5. wire \in Seq(Messages) /\ OnWire = {}
  BY DEF Init, OnWire
<1>6. ScoreboardType
  BY <1>1, <1>4, <1>5 DEF Init, ScoreboardType
<1>7. NothingNewer /\ MatchPending /\ MatchKnown /\ AllComes
  BY <1>4, <1>5 DEF Init, NothingNewer, Due, Coming, MatchPending, MatchKnown, AllComes
<1> QED
  BY <1>6, <1>7 DEF ScoreboardInv

\* A job goes on by itself.
LEMMA WorkingStep ==
  ASSUME ScoreboardInv, NEW j \in Jobs, NEW r \in Work, r.pc \in StatesOf(j),
         r.list <= board, r.event <= event,
         job' = [job EXCEPT ![j] = r],
         UNCHANGED <<board, event, opening, stream, clients, wire, told, lost>>,
         slip' \in BOOLEAN, slip => slip',
         slip' \/ (opening /\ job[j].pc \in Unread /\ j \in Notifies => r.pc \in Unread),
         slip' \/ (opening /\ job[j].pc = "event" /\ j = "first" => r.pc = "event"),
         slip' \/ j \in Fetches \/ ((BringsList(j) => BringsList(j)') /\ (BringsEvent(j) => BringsEvent(j)'))
  PROVE  ScoreboardInv'
<1> USE DEF ScoreboardInv
<1>1. job' \in [Jobs -> Work] /\ \A k \in Jobs : job'[k].pc \in StatesOf(k)
  BY JobStep
<1>2. job'[j] = r /\ \A k \in Jobs : k # j => job'[k] = job[k]
  BY JobStep
<1>3. OnWire' = OnWire
  BY DEF OnWire
<1>4. ScoreboardType'
  BY <1>1 DEF ScoreboardType
<1>5. NothingNewer'
  BY <1>2, <1>3 DEF NothingNewer, Due, Coming
<1>6. MatchPending'
  BY <1>2, JobsAre DEF MatchPending
<1>7. AllComes' /\ MatchKnown'
  <2>1. slip' \/ \A k \in Jobs \ Fetches : (BringsList(k) => BringsList(k)') /\ (BringsEvent(k) => BringsEvent(k)')
    BY <1>2 DEF BringsList, BringsEvent
  <2>2. slip' \/ (opening /\ job["first"].pc = "event" => job'["first"].pc = "event")
    BY <1>2, JobsAre
  <2>3. /\ told \in [list : Nat, event : Nat] /\ told'.list >= told.list /\ told'.event >= told.event
        /\ lost \in [list : Nat, event : Nat] /\ lost'.list >= lost.list /\ lost'.event >= lost.event
    BY DEF ScoreboardType
  <2> QED
    BY <1>3, <2>1, <2>2, <2>3, StillComes
<1> QED
  BY <1>4, <1>5, <1>6, <1>7

LEMMA JobType ==
  ASSUME ScoreboardInv, NEW j \in Jobs
  PROVE  /\ job[j] \in Work /\ job[j].pc \in StatesOf(j)
         /\ job[j].list \in Nat /\ job[j].event \in Nat
         /\ job[j].list <= board /\ job[j].event <= event
         /\ board \in Nat /\ event \in Nat
  BY DEF ScoreboardInv, ScoreboardType, NothingNewer, Work

LEMMA IdleIsOld ==
  ASSUME ScoreboardInv
  PROVE  Idle.list <= board /\ Idle.event <= event
  BY IdleIs DEF ScoreboardInv, ScoreboardType

LEMMA NotifyStep ==
  ASSUME ScoreboardInv, NEW j \in Notifies, Notify(j)
  PROVE  ScoreboardInv'
<1>1. j \in Jobs /\ j # "first" /\ job \in [Jobs -> Work]
  BY JobsAre DEF ScoreboardInv, ScoreboardType
<1> DEFINE r == [job[j] EXCEPT !.pc = "list"]
<1>2. job' = [job EXCEPT ![j] = r]
  BY DEF Notify
<1>3. /\ r \in Work /\ r.pc = "list" /\ r.list = job[j].list /\ r.event = job[j].event
      /\ r.pc \in StatesOf(j)
  BY <1>1, JobType, StatesAre DEF Work, States
<1> HIDE DEF r
<1>4. job'[j] = r
  BY <1>1, <1>2
<1>5. BringsList(j)' /\ ~BringsEvent(j)
  BY <1>1, <1>3, <1>4 DEF Notify, BringsList, BringsEvent
<1> QED
  BY <1>1, <1>2, <1>3, <1>4, <1>5, JobType, WorkingStep DEF Notify, Unread, ScoreboardInv, ScoreboardType

\* An announcement is swallowed, which is recorded.
LEMMA DroppedStep ==
  ASSUME ScoreboardInv, NEW j \in Jobs \ Fetches,
         job' = [job EXCEPT ![j] = Idle],
         UNCHANGED <<board, event, opening, stream, clients, wire, told, slip>>,
         lost' \in [list : Nat, event : Nat],
         lost'.list >= lost.list \/ slip, lost'.event >= lost.event \/ slip,
         slip \/ (lost'.list <= Coming(board) /\ lost'.event <= Due),
         lost'.list >= Coming(board),
         \/ j \in Notifies /\ job[j].pc \in {"progress", "list", "status"}
         \/ lost'.event >= Coming(event)
  PROVE  ScoreboardInv'
<1> USE DEF ScoreboardInv
<1>1. /\ job' \in [Jobs -> Work] /\ \A k \in Jobs : job'[k].pc \in StatesOf(k)
      /\ job'[j] = Idle /\ \A k \in Jobs : k # j => job'[k] = job[k]
  BY IdleIs, JobStep
<1>2. OnWire' = OnWire
  BY DEF OnWire
<1>3. ScoreboardType'
  BY <1>1 DEF ScoreboardType
<1>4. NothingNewer'
  BY <1>1, <1>2, IdleIsOld DEF NothingNewer, Due, Coming
<1>5. board \in Nat /\ event \in Nat /\ lost \in [list : Nat, event : Nat] /\ told \in [list : Nat, event : Nat]
  BY DEF ScoreboardType
<1>6. MatchPending'
  <2> SUFFICES ASSUME opening, ~slip
               PROVE  lost'.list > board
    BY DEF MatchPending
  <2> QED
    BY <1>5 DEF Coming
<1>7. AllComes' /\ MatchKnown'
  <2> SUFFICES ASSUME ~slip
               PROVE  AllComes' /\ MatchKnown'
    BY DEF AllComes, MatchKnown
  <2>1. lost'.list >= board
    BY <1>5 DEF Coming
  <2>2. \A k \in Jobs \ Fetches : BringsEvent(k) => BringsEvent(k)' \/ lost'.event >= event
    <3>1. BringsEvent(j) => lost'.event >= event
      BY <1>5, JobsAre DEF BringsEvent, Coming
    <3>2. \A k \in Jobs \ Fetches : k # j => (BringsEvent(k) => BringsEvent(k)')
      BY <1>1 DEF BringsEvent
    <3> QED
      BY <3>1, <3>2
  <2>3. opening /\ job["first"].pc = "event" => job'["first"].pc = "event" \/ lost'.event > event
    BY <1>1, <1>5, JobsAre DEF Coming
  <2>4. told'.list >= told.list /\ told'.event >= told.event
    BY <1>5
  <2> QED
    BY <1>2, <1>5, <2>1, <2>2, <2>3, <2>4, StillComes
<1> QED
  BY <1>3, <1>4, <1>6, <1>7

LEMMA SwallowedStep ==
  ASSUME ScoreboardInv, NEW j \in Jobs, (j \in Notifies /\ NotifyFails(j)) \/ ReadFails(j)
  PROVE  ScoreboardInv'
<1>1. /\ board \in Nat /\ event \in Nat /\ lost \in [list : Nat, event : Nat]
      /\ slip \/ (lost.list <= Coming(board) /\ lost.event <= Due)
      /\ Due = Coming(event) /\ Coming(board) \in Nat /\ Coming(event) \in Nat
      /\ Coming(board) >= board
  BY DEF ScoreboardInv, ScoreboardType, NothingNewer, Due, Coming
<1>2. CASE j \in Notifies /\ NotifyFails(j)
  <2>1. lost' = [lost EXCEPT !.list = Coming(board)]
    BY <1>2 DEF NotifyFails
  <2>2. /\ lost' \in [list : Nat, event : Nat] /\ lost'.event = lost.event
        /\ lost'.list = Coming(board)
    BY <1>1, <2>1
  <2>3. /\ lost'.list >= lost.list \/ slip
        /\ lost'.event >= lost.event \/ slip
        /\ slip \/ (lost'.list <= Coming(board) /\ lost'.event <= Due)
    BY <1>1, <2>2
  <2>4. j \in Jobs \ Fetches
    BY <1>2, JobsAre
  <2>5. lost'.list >= Coming(board)
    BY <1>1, <2>2
  <2>6. /\ job' = [job EXCEPT ![j] = Idle] /\ job[j].pc = "progress"
        /\ UNCHANGED <<board, event, opening, stream, clients, wire, told, slip>>
    BY <1>2 DEF NotifyFails
  <2> QED
    BY <1>2, <2>2, <2>3, <2>4, <2>5, <2>6, DroppedStep
<1>3. CASE ReadFails(j)
  <2>1. lost' = [list |-> Coming(board), event |-> IF j = "first" THEN Coming(event) ELSE lost.event]
    BY <1>3 DEF ReadFails
  <2>2. /\ lost' \in [list : Nat, event : Nat]
        /\ lost'.list = Coming(board)
        /\ lost'.event = IF j = "first" THEN Coming(event) ELSE lost.event
    BY <1>1, <2>1
  <2>3. /\ lost'.list >= lost.list \/ slip
        /\ lost'.event >= lost.event \/ slip
        /\ slip \/ (lost'.list <= Coming(board) /\ lost'.event <= Due)
    BY <1>1, <2>2
  <2>4. j \in Jobs \ Fetches /\ (j \in Notifies => job[j].pc # "event")
    BY <1>3, JobType, StatesAre DEF ReadFails
  <2>5. \/ j \in Notifies /\ job[j].pc \in {"progress", "list", "status"}
        \/ lost'.event >= Coming(event)
    BY <1>1, <1>3, <2>2, <2>4, JobsAre DEF ReadFails
  <2>6. lost'.list >= Coming(board)
    BY <1>1, <2>2
  <2>7. /\ job' = [job EXCEPT ![j] = Idle]
        /\ UNCHANGED <<board, event, opening, stream, clients, wire, told, slip>>
    BY <1>3 DEF ReadFails
  <2> QED
    BY <2>2, <2>3, <2>4, <2>5, <2>6, <2>7, DroppedStep
<1> QED
  BY <1>2, <1>3

LEMMA FetchFailsStep ==
  ASSUME ScoreboardInv, NEW j \in Fetches, FetchFails(j)
  PROVE  ScoreboardInv'
<1>1. j \in Jobs /\ j \notin Notifies /\ j # "first" /\ slip \in BOOLEAN
  BY JobsAre DEF ScoreboardInv, ScoreboardType
<1> QED
  BY <1>1, IdleIs, IdleIsOld, WorkingStep DEF FetchFails

LEMMA ReadListStep ==
  ASSUME ScoreboardInv, NEW j \in Jobs, ReadList(j)
  PROVE  ScoreboardInv'
<1> DEFINE r == [job[j] EXCEPT !.list = board, !.pc = IF j \in Notifies THEN "status" ELSE "send"]
<1>1. job' = [job EXCEPT ![j] = r]
  BY DEF ReadList
<1>2. /\ r \in Work /\ r.list = board /\ r.event = job[j].event
      /\ r.pc = IF j \in Notifies THEN "status" ELSE "send"
  BY JobType DEF Work, States
<1> HIDE DEF r
<1>3. r.pc \in StatesOf(j)
  BY <1>2, StatesAre
<1>4. job'[j] = r
  BY <1>1 DEF ScoreboardInv, ScoreboardType
<1>5. j \in Fetches \/ (BringsList(j)' /\ (BringsEvent(j) => BringsEvent(j)'))
  BY <1>2, <1>4, JobType, JobsAre DEF ReadList, BringsList, BringsEvent
<1>6. slip' \in BOOLEAN /\ (slip => slip') /\ (opening => slip')
  BY DEF ReadList, Early, ScoreboardInv, ScoreboardType
<1>7. r.list <= board /\ r.event <= event
  BY <1>2, JobType
<1> QED
  BY <1>1, <1>2, <1>3, <1>5, <1>6, <1>7, WorkingStep DEF ReadList

LEMMA ReadEventStep ==
  ASSUME ScoreboardInv, NEW j \in Jobs, ReadEvent(j)
  PROVE  ScoreboardInv'
<1> DEFINE r == [job[j] EXCEPT !.event = event,
                               !.pc = IF job[j].pc = "status" THEN "send" ELSE "list"]
<1>1. job' = [job EXCEPT ![j] = r]
  BY DEF ReadEvent
<1>2. /\ r \in Work /\ r.list = job[j].list /\ r.event = event
      /\ r.pc = IF job[j].pc = "status" THEN "send" ELSE "list"
  BY JobType DEF Work, States
<1> HIDE DEF r
<1>3. r.pc \in StatesOf(j) /\ (job[j].pc = "event" => j \notin Notifies)
  BY <1>2, JobType, StatesAre DEF ReadEvent
<1>4. job'[j] = r
  BY <1>1 DEF ScoreboardInv, ScoreboardType
<1>5. j \in Fetches \/ ((BringsList(j) => BringsList(j)') /\ (BringsEvent(j) => BringsEvent(j)'))
  BY <1>2, <1>3, <1>4, JobType, JobsAre DEF ReadEvent, BringsList, BringsEvent
<1>6. slip' \in BOOLEAN /\ (slip => slip') /\ (opening => slip')
  BY DEF ReadEvent, Early, ScoreboardInv, ScoreboardType
<1>7. r.list <= board /\ r.event <= event
  BY <1>2, JobType
<1> QED
  BY <1>1, <1>2, <1>3, <1>5, <1>6, <1>7, WorkingStep DEF ReadEvent

\* A free place among the jobs is taken, while others move on as they do.
LEMMA Started ==
  ASSUME ScoreboardType, NEW j \in Jobs, NEW pc \in StatesOf(j), Start(j, pc)
  PROVE  /\ job' \in [Jobs -> Work] /\ \A k \in Jobs : job'[k].pc \in StatesOf(k)
         /\ job[j] = Idle
         /\ job'[j].pc = pc /\ job'[j].list = 0 /\ job'[j].event = 0
         /\ \A k \in Jobs : k # j => job'[k] = job[k]
<1> DEFINE r == [Idle EXCEPT !.pc = pc]
<1>1. pc \in States
  BY DEF StatesOf, States
<1>2. r \in Work /\ r.pc = pc /\ r.list = 0 /\ r.event = 0
  BY <1>1 DEF Idle, Work
<1>3. job' = [job EXCEPT ![j] = r] /\ job[j] = Idle
  BY DEF Start, Free
<1> HIDE DEF r
<1> QED
  BY <1>2, <1>3, JobStep

LEMMA IdleBringsNothing ==
  ASSUME NEW j \in Jobs, job[j] = Idle
  PROVE  ~BringsList(j) /\ ~BringsEvent(j) /\ job[j].pc # "list"
  BY IdleIs DEF BringsList, BringsEvent

\* Once the leaderboard has changed, the notification that is to come has it.
LEMMA BoardStep ==
  ASSUME ScoreboardInv, NEW j \in Notifies, Complete(j) \/ ChangeRoster(j)
  PROVE  ScoreboardInv'
<1> USE DEF ScoreboardInv
<1>1. PICK pc \in {"progress", "list"} : Start(j, pc)
  BY DEF Complete, ChangeRoster
<1>2. j \in Jobs /\ j \notin Fetches /\ pc \in StatesOf(j)
  BY JobsAre, StatesAre
<1>3. /\ job' \in [Jobs -> Work] /\ \A k \in Jobs : job'[k].pc \in StatesOf(k)
      /\ job[j] = Idle
      /\ job'[j].pc = pc /\ job'[j].list = 0 /\ job'[j].event = 0
      /\ \A k \in Jobs : k # j => job'[k] = job[k]
  BY <1>1, <1>2, Started
<1>4. board' = board + 1 /\ UNCHANGED <<event, opening, stream, clients, wire, told, lost, slip>>
  BY DEF Complete, ChangeRoster
<1>5. OnWire' = OnWire /\ ScoreboardType'
  BY <1>3, <1>4 DEF OnWire, ScoreboardType
<1>6. NothingNewer'
  <2>1. /\ board \in Nat /\ event \in Nat /\ told.list \in Nat
        /\ \A m \in OnWire : m.list \in Nat
    BY WireType DEF ScoreboardType, Messages
  <2>2. \A k \in Jobs : job'[k].list <= board' /\ job'[k].event <= event'
    BY <1>3, <1>4, <2>1, JobType
  <2>3. slip \/ (lost.list <= Coming(board)' /\ lost.event <= Due)
    BY <1>4, <2>1 DEF NothingNewer, Coming, ScoreboardType
  <2> QED
    BY <1>4, <1>5, <2>1, <2>2, <2>3 DEF NothingNewer, Due
<1>7. MatchPending'
  BY <1>3 DEF MatchPending, Unread
<1>8. AllComes'
  <2> SUFFICES ASSUME stream = "open", ~slip
               PROVE  ListComes' /\ EventComes'
    BY <1>4 DEF AllComes
  <2>1. ListComes'
    BY <1>2, <1>3 DEF ListComes, BringsList
  <2>2. EventComes
    BY DEF AllComes
  <2>3. \A k \in Jobs \ Fetches : BringsEvent(k) => BringsEvent(k)'
    BY <1>2, <1>3, <1>4, IdleBringsNothing DEF BringsEvent
  <2>4. EventComes'
    BY <1>4, <1>5, <2>2, <2>3 DEF EventComes, Jobs
  <2> QED
    BY <2>1, <2>4
<1>9. MatchKnown'
  <2>1. "first" # j /\ "first" \in Jobs
    BY JobsAre
  <2> QED
    BY <1>3, <1>4, <1>5, <2>1 DEF MatchKnown
<1> QED
  BY <1>5, <1>6, <1>7, <1>8, <1>9

\* Once the event has changed, so has the notification that follows the status.
LEMMA WriteEventStep ==
  ASSUME ScoreboardInv, NEW j \in Notifies, WriteEvent(j)
  PROVE  ScoreboardInv'
<1> USE DEF ScoreboardInv
<1> DEFINE r == [pc |-> "status.changed", list |-> 0, event |-> event + 1]
<1>1. event \in Nat /\ board \in Nat
  BY DEF ScoreboardType
<1>2. j \in Jobs /\ j \notin Fetches /\ r \in Work /\ r.pc \in StatesOf(j)
  BY <1>1, JobsAre, StatesAre DEF Work, States
<1>3. job[j] = Idle /\ job' = [job EXCEPT ![j] = r]
  BY DEF WriteEvent, Free
<1>4. r.pc = "status.changed" /\ r.list <= board /\ r.event = event + 1
  BY <1>1
<1> HIDE DEF r
<1>5. /\ job' \in [Jobs -> Work] /\ \A k \in Jobs : job'[k].pc \in StatesOf(k)
      /\ job'[j] = r
      /\ \A k \in Jobs : k # j => job'[k] = job[k]
  BY <1>2, <1>3, JobStep
<1>6. event' = event + 1 /\ ~opening /\ UNCHANGED <<board, opening, stream, clients, wire, told, lost, slip>>
  BY DEF WriteEvent
<1>7. OnWire' = OnWire /\ ScoreboardType'
  BY <1>5, <1>6 DEF OnWire, ScoreboardType
<1>8. NothingNewer'
  <2>1. told.event \in Nat /\ \A m \in OnWire : m.event \in Nat
    BY WireType DEF ScoreboardType, Messages
  <2>2. \A k \in Jobs : job'[k].list <= board' /\ job'[k].event <= event'
    BY <1>1, <1>4, <1>5, <1>6, JobType
  <2> QED
    BY <1>1, <1>6, <1>7, <2>1, <2>2 DEF NothingNewer, Due, Coming, ScoreboardType
<1>9. MatchPending' /\ MatchKnown'
  BY <1>6 DEF MatchPending, MatchKnown
<1>10. AllComes'
  <2> SUFFICES ASSUME stream = "open", ~slip
               PROVE  ListComes' /\ EventComes'
    BY <1>6 DEF AllComes
  <2>1. EventComes'
    <3>1. job'[j].pc = "status.changed" /\ job'[j].event >= event'
      BY <1>1, <1>4, <1>5, <1>6
    <3> QED
      BY <1>2, <3>1 DEF EventComes, BringsEvent
  <2>2. ListComes
    BY DEF AllComes
  <2>3. \A k \in Jobs \ Fetches : BringsList(k) => BringsList(k)'
    BY <1>2, <1>3, <1>5, <1>6, IdleBringsNothing DEF BringsList
  <2>4. ListComes'
    BY <1>6, <1>7, <2>2, <2>3 DEF ListComes, Jobs
  <2> QED
    BY <2>1, <2>4
<1> QED
  BY <1>7, <1>8, <1>9, <1>10

\* A match that commits is read of by the notification that is still pending.
LEMMA CommitStep ==
  ASSUME ScoreboardInv, CommitMatch
  PROVE  ScoreboardInv'
<1> USE DEF ScoreboardInv
<1>1. /\ opening /\ opening' = FALSE /\ board' = board + 1 /\ event' = event + 1
      /\ UNCHANGED <<job, stream, clients, wire, told, lost, slip>>
  BY DEF CommitMatch
<1>2. board \in Nat /\ event \in Nat
  BY DEF ScoreboardType
<1>3. OnWire' = OnWire /\ ScoreboardType'
  <2>1. board' \in Nat /\ event' \in Nat
    BY <1>1, <1>2
  <2> QED
    BY <1>1, <2>1 DEF OnWire, ScoreboardType
<1>4. NothingNewer'
  <2>1. told.list \in Nat /\ \A m \in OnWire : m.list \in Nat
    BY WireType DEF ScoreboardType, Messages
  <2>2. \A k \in Jobs : job'[k].list <= board' /\ job'[k].event <= event'
    BY <1>1, <1>2, JobType
  <2>3. Due' = Due
    BY <1>1, <1>2 DEF Due
  <2> QED
    BY <1>1, <1>2, <1>3, <2>1, <2>2, <2>3 DEF NothingNewer, Coming
<1>5. MatchPending' /\ MatchKnown'
  BY <1>1 DEF MatchPending, MatchKnown
<1>6. AllComes'
  <2> SUFFICES ASSUME stream = "open", ~slip
               PROVE  ListComes' /\ EventComes'
    BY <1>1 DEF AllComes
  <2>1. ListComes'
    <3>1. CASE lost.list > board
      BY <1>1, <1>2, <3>1 DEF ListComes, ScoreboardType
    <3>2. ASSUME NEW n \in Notifies, job[n].pc \in Unread
          PROVE  ListComes'
      BY <1>1, <3>2, JobsAre DEF ListComes, BringsList, Unread
    <3> QED
      BY <1>1, <3>1, <3>2 DEF MatchPending
  <2>2. EventComes'
    <3>1. CASE told.event > event \/ lost.event > event
      BY <1>1, <1>2, <3>1 DEF EventComes, ScoreboardType
    <3>2. ASSUME NEW m \in OnWire, m.type \in {"leaderboard", "status"}, m.event > event
          PROVE  EventComes'
      <4>1. m.event >= event' /\ m \in OnWire'
        BY <1>1, <1>2, <1>3, <3>2, WireType DEF Messages
      <4> QED
        BY <3>2, <4>1 DEF EventComes
    <3>3. CASE job["first"].pc = "event"
      BY <1>1, <3>3, JobsAre DEF EventComes, BringsEvent
    <3> QED
      BY <1>1, <3>1, <3>2, <3>3 DEF MatchKnown
  <2> QED
    BY <2>1, <2>2
<1> QED
  BY <1>3, <1>4, <1>5, <1>6

\* Where a slip is admitted, nothing is promised.
LEMMA AbortStep ==
  ASSUME ScoreboardInv, AbortMatch
  PROVE  ScoreboardInv'
<1> USE DEF ScoreboardInv
<1>1. OnWire' = OnWire
  BY DEF AbortMatch, OnWire
<1>2. NothingNewer'
  BY <1>1, JobType DEF AbortMatch, NothingNewer, Due
<1> QED
  BY <1>1, <1>2 DEF AbortMatch, ScoreboardType, MatchPending, MatchKnown, AllComes

\* Without a stream the spectator waits to be told afresh.
LEMMA BreakingStep ==
  ASSUME ScoreboardInv, Break \/ Reconnect \/ Restart
  PROVE  ScoreboardInv'
<1> USE DEF ScoreboardInv
<1>1. CASE Reconnect
  <2>1. OnWire' = OnWire
    BY <1>1 DEF Reconnect, OnWire
  <2> QED
    BY <1>1, <2>1 DEF Reconnect, ScoreboardType, NothingNewer, Due, Coming, MatchPending, MatchKnown, AllComes
<1>2. CASE Break
  <2>1. wire' \in Seq(Messages) /\ OnWire' = {}
    BY <1>2, WireEmpty DEF Break
  <2>2. /\ job' \in [Jobs -> Work] /\ \A k \in Jobs : job'[k].pc \in StatesOf(k)
        /\ job'["first"] = Idle /\ \A k \in Jobs : k # "first" => job'[k] = job[k]
    BY <1>2, IdleIs, JobsAre, JobStep DEF Break
  <2>3. ScoreboardType'
    BY <1>2, <2>1, <2>2 DEF Break, ScoreboardType
  <2>4. NothingNewer'
    BY <1>2, <2>1, <2>2, IdleIsOld DEF Break, NothingNewer, Due, Coming
  <2>5. MatchPending' /\ MatchKnown' /\ AllComes'
    BY <1>2, <2>2, JobsAre DEF Break, MatchPending, MatchKnown, AllComes
  <2> QED
    BY <2>3, <2>4, <2>5
<1>3. CASE Restart
  <2>1. wire' \in Seq(Messages) /\ OnWire' = {}
    BY <1>3, WireEmpty DEF Restart
  <2>2. \A k \in Jobs : job'[k] = Idle
    BY <1>3 DEF Restart
  <2>3. ScoreboardType'
    BY <1>3, <2>1, IdleIs DEF Restart, ScoreboardType
  <2>4. NothingNewer'
    <3>1. /\ slip' \/ told.event <= event
          /\ slip' \/ (lost.list <= Coming(board)' /\ lost.event <= event)
      BY <1>3 DEF Restart, NothingNewer, Due, Coming
    <3> QED
      BY <1>3, <2>1, <2>2, <3>1, IdleIsOld DEF Restart, NothingNewer, Due
  <2>5. MatchPending' /\ MatchKnown' /\ AllComes'
    BY <1>3 DEF Restart, MatchPending, MatchKnown, AllComes
  <2> QED
    BY <2>3, <2>4, <2>5
<1> QED
  BY <1>1, <1>2, <1>3

\* What is broadcast reaches a stream that is open, and no other.
LEMMA Broadcasting ==
  ASSUME ScoreboardType, NEW m \in Messages, Broadcast(m)
  PROVE  /\ wire' \in Seq(Messages)
         /\ OnWire \subseteq OnWire' /\ OnWire' \subseteq OnWire \cup {m}
         /\ stream = "open" => m \in OnWire'
<1>1. CASE clients
  BY <1>1, WireGrows DEF Broadcast, ScoreboardType
<1>2. CASE ~clients
  <2>1. wire' = wire /\ stream # "open"
    BY <1>2 DEF Broadcast, ScoreboardType
  <2> QED
    BY <2>1 DEF OnWire, ScoreboardType
<1> QED
  BY <1>1, <1>2

\* A message is sent: nothing of what comes is lost with the job that sends it.
LEMMA SendingStep ==
  ASSUME ScoreboardInv, NEW j \in Jobs \ Fetches, NEW r \in Work, r.pc \in StatesOf(j),
         job[j].pc \in Unread => r.pc \in Unread, job[j].pc # "event", r.list <= board, r.event <= event,
         job' = [job EXCEPT ![j] = r],
         NEW m \in Messages, Broadcast(m), m.list <= board, m.event <= event,
         UNCHANGED <<board, event, opening, stream, clients, told, lost, slip>>,
         BringsList(j) => BringsList(j)' \/ (m.type = "leaderboard" /\ m.list >= board),
         BringsEvent(j) => m.type \in {"leaderboard", "status"} /\ m.event >= event
  PROVE  ScoreboardInv'
<1> USE DEF ScoreboardInv
<1>1. /\ job' \in [Jobs -> Work] /\ \A k \in Jobs : job'[k].pc \in StatesOf(k)
      /\ job'[j] = r /\ \A k \in Jobs : k # j => job'[k] = job[k]
  BY JobStep
<1>2. /\ wire' \in Seq(Messages)
      /\ OnWire \subseteq OnWire' /\ OnWire' \subseteq OnWire \cup {m}
      /\ stream = "open" => m \in OnWire'
  BY Broadcasting
<1>3. ScoreboardType'
  BY <1>1, <1>2 DEF ScoreboardType
<1>4. NothingNewer'
  <2>1. m.event <= Due
    BY DEF Due, ScoreboardType, Messages
  <2>2. Due' = Due
    BY DEF Due
  <2>3. \A k \in Jobs : job'[k].list <= board /\ job'[k].event <= event
    BY <1>1, JobType
  <2> QED
    BY <1>2, <2>1, <2>2, <2>3 DEF NothingNewer, Coming
<1>5. MatchPending'
  BY <1>1, JobsAre DEF MatchPending
<1>6. AllComes' /\ MatchKnown'
  <2> SUFFICES ASSUME stream = "open", ~slip
               PROVE  AllComes' /\ MatchKnown'
    BY DEF AllComes, MatchKnown
  <2>1. job["first"].pc = "event" => job'["first"].pc = "event"
    BY <1>1, JobsAre
  <2>2. \A k \in Jobs \ Fetches : k # j => (BringsList(k) => BringsList(k)') /\ (BringsEvent(k) => BringsEvent(k)')
    BY <1>1 DEF BringsList, BringsEvent
  <2>3. /\ told \in [list : Nat, event : Nat] /\ told'.list >= told.list /\ told'.event >= told.event
        /\ lost \in [list : Nat, event : Nat] /\ lost'.list >= lost.list /\ lost'.event >= lost.event
    BY DEF ScoreboardType
  <2>4. m \in OnWire' /\ OnWire \subseteq OnWire'
    BY <1>2
  <2> QED
    BY <2>1, <2>2, <2>3, <2>4, StillComes
<1> QED
  BY <1>3, <1>4, <1>5, <1>6

LEMMA StatusChangedStep ==
  ASSUME ScoreboardInv, NEW j \in Notifies, StatusChanged(j)
  PROVE  ScoreboardInv'
<1> DEFINE m == [type |-> "status", list |-> 0, event |-> job[j].event]
           r == [job[j] EXCEPT !.pc = "list", !.event = 0]
<1>1. j \in Jobs \ Fetches
  BY JobsAre
<1>2. m \in Messages /\ m.list <= board /\ m.event <= event
  BY <1>1, JobType DEF Messages, Kinds
<1>3. /\ r \in Work /\ r.pc = "list" /\ r.pc \in StatesOf(j)
      /\ r.list <= board /\ r.event <= event
  <2>1. r \in Work /\ r.pc = "list" /\ r.list = job[j].list /\ r.event = 0
    BY <1>1, JobType DEF Work, States
  <2>2. r.list <= board /\ 0 <= event
    BY <1>1, <2>1, JobType
  <2> QED
    BY <2>1, <2>2, StatesAre
<1>4. job' = [job EXCEPT ![j] = r] /\ Broadcast(m) /\ job[j].pc = "status.changed"
  BY DEF StatusChanged
<1>7. m.type = "status" /\ m.event = job[j].event
  OBVIOUS
<1> HIDE DEF m, r
<1>5. job'[j] = r
  BY <1>1, <1>4 DEF ScoreboardInv, ScoreboardType
<1>6. BringsList(j)' /\ (BringsEvent(j) => m.type \in {"leaderboard", "status"} /\ m.event >= event)
  BY <1>3, <1>4, <1>5, <1>7 DEF BringsList, BringsEvent
<1> QED
  BY <1>1, <1>2, <1>3, <1>4, <1>6, SendingStep DEF StatusChanged, Unread

LEMMA SendStep ==
  ASSUME ScoreboardInv, NEW j \in Jobs, Send(j)
  PROVE  ScoreboardInv'
<1> DEFINE m == [type |-> "leaderboard", list |-> job[j].list, event |-> job[j].event]
<1>1. j \in Jobs \ Fetches /\ job[j].pc = "send" /\ job' = [job EXCEPT ![j] = Idle] /\ Broadcast(m)
  BY DEF Send
<1>2. /\ m \in Messages /\ m.list <= board /\ m.event <= event
      /\ m.type = "leaderboard" /\ m.list = job[j].list /\ m.event = job[j].event
  BY JobType DEF Messages, Kinds
<1> HIDE DEF m
<1>3. (BringsList(j) => m.list >= board) /\ (BringsEvent(j) => m.event >= event)
  BY <1>1, <1>2 DEF BringsList, BringsEvent
<1>4. job[j].pc \notin Unread /\ job[j].pc # "event"
  BY <1>1 DEF Unread
<1> QED
  BY <1>1, <1>2, <1>3, <1>4, IdleIs, IdleIsOld, SendingStep DEF Send

\* A match is announced while it is not committed: the notification that reads of
\* it comes after.
LEMMA AnnounceStep ==
  ASSUME ScoreboardInv, NEW j \in Notifies, AnnounceMatch(j)
  PROVE  ScoreboardInv'
<1> USE DEF ScoreboardInv
<1> DEFINE m == [type |-> "status", list |-> 0, event |-> event + 1]
<1>1. event \in Nat /\ board \in Nat
  BY DEF ScoreboardType
<1>2. /\ m \in Messages /\ m.type = "status" /\ m.list = 0 /\ m.event = event + 1
  BY <1>1 DEF Messages, Kinds
<1>3. /\ ~opening /\ opening' /\ Broadcast(m)
      /\ UNCHANGED <<board, event, stream, clients, told, lost, slip>>
  BY DEF AnnounceMatch
<1> HIDE DEF m
<1>4. j \in Jobs \ Fetches /\ "list" \in StatesOf(j)
  BY JobsAre, StatesAre
<1>5. /\ job' \in [Jobs -> Work] /\ \A k \in Jobs : job'[k].pc \in StatesOf(k)
      /\ job[j] = Idle
      /\ job'[j].pc = "list" /\ job'[j].list = 0 /\ job'[j].event = 0
      /\ \A k \in Jobs : k # j => job'[k] = job[k]
  BY <1>4, Started DEF AnnounceMatch
<1>6. /\ wire' \in Seq(Messages)
      /\ OnWire \subseteq OnWire' /\ OnWire' \subseteq OnWire \cup {m}
      /\ stream = "open" => m \in OnWire'
  BY <1>2, <1>3, Broadcasting
<1>7. ScoreboardType'
  BY <1>3, <1>5, <1>6 DEF ScoreboardType, AnnounceMatch
<1>8. NothingNewer'
  <2>1. Due = event /\ Due' = event + 1
    BY <1>3 DEF Due
  <2>2. \A k \in Jobs : job'[k].list <= board' /\ job'[k].event <= event'
    BY <1>1, <1>3, <1>5, JobType
  <2>3. told.event \in Nat /\ \A x \in OnWire : x.event \in Nat
    BY WireType DEF ScoreboardType, Messages
  <2>4. slip \/ told.event <= event + 1
    BY <1>1, <2>1, <2>3 DEF NothingNewer
  <2>5. \A x \in OnWire' : x.list <= board /\ (slip \/ x.event <= event + 1)
    <3> SUFFICES ASSUME NEW x \in OnWire'
                 PROVE  x.list <= board /\ (slip \/ x.event <= event + 1)
      OBVIOUS
    <3>1. CASE x = m
      BY <1>1, <1>2, <3>1
    <3>2. CASE x \in OnWire
      BY <1>1, <2>1, <2>3, <3>2 DEF NothingNewer
    <3> QED
      BY <1>6, <3>1, <3>2
  <2>6. told.list <= board
    BY DEF NothingNewer
  <2>7. slip \/ (lost.list <= Coming(board)' /\ lost.event <= event + 1)
    BY <1>1, <1>3, <2>1 DEF NothingNewer, Coming, ScoreboardType
  <2> QED
    BY <1>3, <2>1, <2>2, <2>4, <2>5, <2>6, <2>7 DEF NothingNewer
<1>9. MatchPending' /\ MatchKnown'
  <2>1. m.event > event'
    BY <1>1, <1>2, <1>3
  <2> QED
    BY <1>2, <1>3, <1>5, <1>6, <2>1 DEF MatchPending, MatchKnown, Unread
<1>10. AllComes'
  <2> SUFFICES ASSUME stream = "open", ~slip
               PROVE  ListComes' /\ EventComes'
    BY <1>3 DEF AllComes
  <2>1. ListComes'
    BY <1>4, <1>5 DEF ListComes, BringsList
  <2>2. EventComes'
    <3>1. m \in OnWire' /\ m.type = "status" /\ m.event >= event'
      BY <1>1, <1>2, <1>3, <1>6
    <3> QED
      BY <3>1 DEF EventComes
  <2> QED
    BY <2>1, <2>2
<1> QED
  BY <1>7, <1>8, <1>9, <1>10

\* Whoever connects is told of everything.
LEMMA AcceptStep ==
  ASSUME ScoreboardInv, Accept
  PROVE  ScoreboardInv'
<1> USE DEF ScoreboardInv
<1> DEFINE m == [type |-> "open", list |-> 0, event |-> 0]
<1>1. event \in Nat /\ board \in Nat
  BY DEF ScoreboardType
<1>2. m \in Messages /\ m.list = 0 /\ m.event = 0
  BY DEF Messages, Kinds
<1>3. /\ stream' = "open" /\ clients' = TRUE /\ wire' = <<m>>
      /\ UNCHANGED <<board, event, opening, told, lost, slip>>
  BY DEF Accept
<1> HIDE DEF m
<1>4. "first" \in Jobs \ Fetches /\ "first" \notin Notifies /\ "event" \in StatesOf("first")
  BY JobsAre, StatesAre, ScoreboardAssumption
<1>5. /\ job' \in [Jobs -> Work] /\ \A k \in Jobs : job'[k].pc \in StatesOf(k)
      /\ job["first"] = Idle
      /\ job'["first"].pc = "event" /\ job'["first"].list = 0 /\ job'["first"].event = 0
      /\ \A k \in Jobs : k # "first" => job'[k] = job[k]
  BY <1>4, Started DEF Accept
<1>6. wire' \in Seq(Messages) /\ OnWire' = {m}
  <2>1. Len(wire') = 1 /\ wire'[1] = m /\ wire' \in Seq(Messages)
    BY <1>2, <1>3
  <2>2. 1..1 = {1}
    OBVIOUS
  <2> QED
    BY <2>1, <2>2 DEF OnWire
<1>7. ScoreboardType'
  BY <1>3, <1>5, <1>6 DEF ScoreboardType
<1>8. NothingNewer'
  <2>1. \A k \in Jobs : job'[k].list <= board' /\ job'[k].event <= event'
    BY <1>1, <1>3, <1>5, JobType
  <2>2. Due' = Due /\ 0 <= board /\ 0 <= Due
    BY <1>1, <1>3 DEF Due
  <2> QED
    BY <1>2, <1>3, <1>6, <2>1, <2>2 DEF NothingNewer, Coming
<1>9. MatchPending' /\ MatchKnown'
  BY <1>3, <1>4, <1>5, JobsAre DEF MatchPending, MatchKnown
<1>10. AllComes'
  BY <1>4, <1>5 DEF AllComes, ListComes, EventComes, BringsList, BringsEvent
<1> QED
  BY <1>7, <1>8, <1>9, <1>10

\* A message is taken off the wire, and what it says shown; fetches may begin or end.
LEMMA HearingStep ==
  ASSUME ScoreboardInv,
         wire' \in Seq(Messages), OnWire' \subseteq OnWire,
         told' \in [list : Nat, event : Nat],
         told'.list >= told.list, told'.event >= told.event,
         told'.list <= board, slip \/ told'.event <= Due,
         \A m \in OnWire :
           \/ m \in OnWire'
           \/ /\ m.type = "leaderboard" => told'.list >= m.list
              /\ m.type \in {"leaderboard", "status"} => told'.event >= m.event,
         job' \in [Jobs -> Work], \A k \in Jobs : job'[k].pc \in StatesOf(k),
         \A k \in Jobs : job'[k].list <= board /\ job'[k].event <= event,
         \A k \in Jobs \ Fetches : job'[k] = job[k],
         UNCHANGED <<board, event, opening, stream, clients, lost, slip>>
  PROVE  ScoreboardInv'
<1> USE DEF ScoreboardInv
<1>1. ScoreboardType'
  BY DEF ScoreboardType
<1>2. NothingNewer'
  BY DEF NothingNewer, Due, Coming
<1>3. MatchPending'
  BY JobsAre DEF MatchPending
<1>4. AllComes' /\ MatchKnown'
  <2>1. /\ lost \in [list : Nat, event : Nat] /\ lost'.list >= lost.list /\ lost'.event >= lost.event
        /\ job'["first"] = job["first"]
    BY JobsAre DEF ScoreboardType
  <2>2. \A k \in Jobs \ Fetches : (BringsList(k) => BringsList(k)') /\ (BringsEvent(k) => BringsEvent(k)')
    BY DEF BringsList, BringsEvent
  <2> QED
    BY <2>1, <2>2, StillComes
<1> QED
  BY <1>1, <1>2, <1>3, <1>4

LEMMA FetchStarts ==
  ASSUME ScoreboardInv, NEW j \in Fetches, Start(j, "event")
  PROVE  /\ job' \in [Jobs -> Work] /\ \A k \in Jobs : job'[k].pc \in StatesOf(k)
         /\ \A k \in Jobs : job'[k].list <= board /\ job'[k].event <= event
         /\ \A k \in Jobs \ Fetches : job'[k] = job[k]
<1>1. j \in Jobs /\ "event" \in StatesOf(j)
  BY JobsAre, StatesAre
<1>2. /\ job' \in [Jobs -> Work] /\ \A k \in Jobs : job'[k].pc \in StatesOf(k)
      /\ job'[j].list = 0 /\ job'[j].event = 0
      /\ \A k \in Jobs : k # j => job'[k] = job[k]
  BY <1>1, Started DEF ScoreboardInv
<1>3. 0 <= board /\ 0 <= event
  BY DEF ScoreboardInv, ScoreboardType
<1> QED
  BY <1>2, <1>3, JobType

LEMMA OpenedStep ==
  ASSUME ScoreboardInv, NEW j \in Fetches, Opened(j)
  PROVE  ScoreboardInv'
<1>1. /\ wire \in Seq(Messages) /\ told' = told /\ told \in [list : Nat, event : Nat]
      /\ told.list <= board /\ (slip \/ told.event <= Due)
  BY DEF Opened, ScoreboardInv, ScoreboardType, NothingNewer
<1>2. Head(wire).type = "open" /\ wire # <<>> /\ wire' = Tail(wire)
  BY DEF Opened
<1>3. told'.list >= told.list /\ told'.event >= told.event
  BY <1>1
<1> QED
  BY <1>1, <1>2, <1>3, WireShrinks, FetchStarts, HearingStep DEF Opened

LEMMA MessageShown ==
  ASSUME ScoreboardInv, wire # <<>>, NEW b \in BOOLEAN, Show(Head(wire), b)
  PROVE  /\ told' \in [list : Nat, event : Nat]
         /\ told'.list >= told.list /\ told'.event >= told.event
         /\ told'.list <= board /\ (slip \/ told'.event <= Due)
         /\ told'.event >= Head(wire).event
         /\ b => told'.list >= Head(wire).list
<1>1. wire \in Seq(Messages) /\ told \in [list : Nat, event : Nat]
  BY DEF ScoreboardInv, ScoreboardType
<1>2. Head(wire) \in Messages /\ Head(wire) \in OnWire
  <2>1. Len(wire) \in Nat \ {0} /\ Head(wire) = wire[1] /\ wire[1] \in Messages
    BY <1>1
  <2> QED
    BY <2>1 DEF OnWire
<1>3. Head(wire).list \in Nat /\ Head(wire).event \in Nat
  BY <1>2 DEF Messages
<1> QED
  BY <1>1, <1>2, <1>3, ShowStep DEF ScoreboardInv, NothingNewer

LEMMA ReceiveStep ==
  ASSUME ScoreboardInv, ReceiveLeaderboard \/ \E j \in Fetches : ReceiveStatus(j)
  PROVE  ScoreboardInv'
<1>1. wire \in Seq(Messages) /\ wire # <<>> /\ wire' = Tail(wire)
  BY DEF ReceiveLeaderboard, ReceiveStatus, ScoreboardInv, ScoreboardType
<1>2. CASE ReceiveLeaderboard
  <2>1. /\ Show(Head(wire), TRUE)
        /\ UNCHANGED <<board, event, opening, job, stream, clients, lost, slip>>
    BY <1>2 DEF ReceiveLeaderboard
  <2>2. /\ job' \in [Jobs -> Work] /\ \A k \in Jobs : job'[k].pc \in StatesOf(k)
        /\ \A k \in Jobs : job'[k].list <= board /\ job'[k].event <= event
    BY <2>1, JobType DEF ScoreboardInv, ScoreboardType
  <2> QED
    BY <1>1, <2>1, <2>2, WireShrinks, MessageShown, HearingStep
<1>3. ASSUME NEW j \in Fetches, ReceiveStatus(j)
      PROVE  ScoreboardInv'
  <2>1. /\ Show(Head(wire), FALSE) /\ Head(wire).type = "status"
        /\ UNCHANGED <<board, event, opening, stream, clients, lost, slip>>
    BY <1>3 DEF ReceiveStatus
  <2>2. Start(j, "event")
    BY <1>3 DEF ReceiveStatus
  <2> QED
    BY <1>1, <2>1, <2>2, WireShrinks, MessageShown, FetchStarts, HearingStep
<1> QED
  BY <1>2, <1>3

LEMMA AnswerStep ==
  ASSUME ScoreboardInv, NEW j \in Fetches, Answer(j)
  PROVE  ScoreboardInv'
<1>1. j \in Jobs /\ event <= Due
  BY JobsAre DEF Due, ScoreboardInv, ScoreboardType
<1>2. /\ job[j].list \in Nat /\ job[j].event \in Nat
      /\ job[j].list <= board /\ job[j].event <= event
  BY <1>1, JobType
<1>3. /\ Show(job[j], TRUE) /\ job' = [job EXCEPT ![j] = Idle]
      /\ UNCHANGED <<board, event, opening, stream, clients, wire, lost, slip>>
  BY DEF Answer
<1>4. OnWire' = OnWire /\ wire' \in Seq(Messages) /\ told \in [list : Nat, event : Nat]
      /\ told.list <= board /\ (slip \/ told.event <= Due)
  BY <1>3 DEF OnWire, ScoreboardInv, ScoreboardType, NothingNewer
<1>5. /\ told' \in [list : Nat, event : Nat]
      /\ told'.list >= told.list /\ told'.event >= told.event
      /\ told'.list = told.list \/ told'.list = job[j].list
      /\ told'.event = told.event \/ told'.event = job[j].event
  BY <1>2, <1>3, <1>4, ShowStep
<1>6. job[j].event <= Due
  BY <1>1, <1>2 DEF Due, ScoreboardInv, ScoreboardType
<1>7. told'.list <= board /\ (slip \/ told'.event <= Due)
  BY <1>2, <1>4, <1>5, <1>6
<1>8. /\ job' \in [Jobs -> Work] /\ \A k \in Jobs : job'[k].pc \in StatesOf(k)
      /\ \A k \in Jobs : job'[k].list <= board /\ job'[k].event <= event
      /\ \A k \in Jobs \ Fetches : job'[k] = job[k]
  <2>1. /\ job' \in [Jobs -> Work] /\ \A k \in Jobs : job'[k].pc \in StatesOf(k)
        /\ job'[j] = Idle /\ \A k \in Jobs : k # j => job'[k] = job[k]
    BY <1>1, <1>3, IdleIs, JobStep DEF ScoreboardInv
  <2> QED
    BY <2>1, IdleIsOld, JobType
<1> QED
  BY <1>3, <1>4, <1>5, <1>7, <1>8, HearingStep

LEMMA ScoreboardStep == ScoreboardInv /\ [Next]_vars => ScoreboardInv'
<1> SUFFICES ASSUME ScoreboardInv, [Next]_vars
             PROVE  ScoreboardInv'
  OBVIOUS
<1>1. CASE UNCHANGED vars
  BY <1>1 DEF vars, ScoreboardInv, ScoreboardType, NothingNewer, Due, Coming, OnWire, MatchPending, MatchKnown,
              AllComes, ListComes, EventComes, BringsList, BringsEvent
<1>2. CASE Change
  BY <1>2, BoardStep, WriteEventStep, AnnounceStep DEF Change
<1>3. CASE Compute
  BY <1>3, NotifyStep, StatusChangedStep, ReadListStep, ReadEventStep, SendStep, AnswerStep DEF Compute
<1>4. CASE Listen
  BY <1>4, AcceptStep, OpenedStep, ReceiveStep DEF Listen
<1>5. CASE Fail
  BY <1>5, BreakingStep, AbortStep, SwallowedStep, FetchFailsStep, JobsAre DEF Fail
<1> QED
  BY <1>1, <1>2, <1>3, <1>4, <1>5, CommitStep, BreakingStep DEF Next

\* When nothing is under way, a spectator has been told of the latest leaderboard
\* and event unless a failed read has swallowed the last announcement, for any
\* number of announcements and fetches that overtake each other.
THEOREM SpectatorIsInformed == Spec => []Informed
<1>1. ScoreboardInv => Informed
  <2> SUFFICES ASSUME ScoreboardInv, Quiet, ~opening, ~slip
               PROVE  /\ told.list = board \/ lost.list = board
                      /\ told.event = event \/ lost.event = event
    BY DEF Informed
  <2>1. OnWire = {}
    BY DEF Quiet, OnWire
  <2>2. /\ told.list >= board \/ lost.list >= board
        /\ told.event >= event \/ lost.event >= event
    BY <2>1, IdleBringsNothing DEF Quiet, ScoreboardInv, AllComes, ListComes, EventComes, Jobs
  <2>3. /\ told.list <= board /\ told.event <= event
        /\ lost.list <= board /\ lost.event <= event
    BY DEF ScoreboardInv, ScoreboardType, NothingNewer, Due, Coming
  <2>4. /\ told \in [list : Nat, event : Nat] /\ lost \in [list : Nat, event : Nat]
        /\ board \in Nat /\ event \in Nat
    BY DEF ScoreboardInv, ScoreboardType
  <2> QED
    BY <2>2, <2>3, <2>4
<1> QED
  BY <1>1, ScoreboardStarts, ScoreboardStep, PTL DEF Spec
=============================================================================
