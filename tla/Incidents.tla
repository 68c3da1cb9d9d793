------------------------------ MODULE Incidents -------------------------------
(***************************************************************************)
(* The incidents of a competition and the panel where an administrator     *)
(* watches and reviews them.  An incident is filed under the match its     *)
(* page was in, or under the current one, while a new match may be under   *)
(* way; the panel belongs to one match at a time, and learns of incidents  *)
(* and of new matches from a stream that may break and from pairs of       *)
(* requests whose answers come in any order.                               *)
(*                                                                         *)
(* Left out: names, counts and metadata; the filters by type and team; the *)
(* form of a review, its notes and the audit log. What throttles incidents *)
(* is in Gate.                                                             *)
(***************************************************************************)
EXTENDS Naturals

CONSTANTS
  Incidents, \* what can be filed
  Asks,      \* pairs of requests that the panel can have under way
  LastMatch, \* matches that are looked at
  MaxFailures \* requests and streams that fail, and reloads

ASSUME IncidentsAssumption == LastMatch \in Nat \ {0} /\ MaxFailures \in Nat

VARIABLES
  current,   \* currentMatchNumber
  announced, \* createNewMatch has announced the next match and not committed it
  filing,    \* the match that each incident is about to be inserted under, 0 for none
  ledger,    \* anti_cheat_events
  panel,     \* activeMatchNumberRef, events and the match of summary; 0 for null
  ask,       \* the requests of fetchAntiCheatData
  adminWire, \* the new matches that the panel's stream is about to tell of
  misled,    \* history: the panel has missed a match, or was thrown back to one
  failures   \* history: what has failed, up to MaxFailures

incidentsVars ==
  <<current, announced, filing, ledger, panel, ask, adminWire, misled, failures>>

Matches == 1..LastMatch

\* antiCheatActionEnum, as far as it goes here.
Actions == {"RECORDED_VIOLATION", "VERIFIED_CLEAR"}

NoRow == [match |-> 0, action |-> "none"]
Awaited == [is |-> "awaited", match |-> 0, rows |-> {}]
Failed == [Awaited EXCEPT !.is = "failed"]
Unasked == [pc |-> "idle", match |-> 0, events |-> Awaited, summary |-> Awaited]
NoPanel == [open |-> FALSE, match |-> 0, rows |-> {}, summary |-> 0, early |-> FALSE]

\* getEvents: the rows of a match, each with its incident.
RowsOf(m) ==
  {[id |-> i, match |-> m, action |-> ledger[i].action] : i \in {x \in Incidents : ledger[x].match = m}}

IncidentsInit ==
  /\ current = 1 /\ announced = FALSE
  /\ filing = [i \in Incidents |-> 0]
  /\ ledger = [i \in Incidents |-> NoRow]
  /\ panel = NoPanel /\ ask = [q \in Asks |-> Unasked] /\ adminWire = {}
  /\ misled = FALSE /\ failures = 0

Fails == failures < MaxFailures /\ failures' = failures + 1

-----------------------------------------------------------------------------
(* Matches *)

\* createNewMatch announces the match inside its transaction, to a panel that
\* listens, ...
AnnounceNextMatch ==
  /\ ~announced /\ current < LastMatch
  /\ announced' = TRUE
  /\ adminWire' = IF panel.open THEN adminWire \cup {current + 1} ELSE adminWire
  /\ UNCHANGED <<current, filing, ledger, panel, ask, misled, failures>>

\* ... which commits, or fails after all.
CommitNextMatch ==
  /\ announced
  /\ announced' = FALSE /\ current' = current + 1
  /\ UNCHANGED <<filing, ledger, panel, ask, adminWire, misled, failures>>

AbortNextMatch ==
  /\ announced
  /\ announced' = FALSE
  /\ misled' = TRUE
  /\ UNCHANGED <<current, filing, ledger, panel, ask, adminWire, failures>>

\* deleteMatch, or clearArchivedMatches for all of them: an incident that is
\* being filed is still inserted, for no row refers to a match.
DeleteIncidents(gone) ==
  /\ gone # {} /\ gone \subseteq 1..(current - 1)
  /\ ledger' = [i \in Incidents |-> IF ledger[i].match \in gone THEN NoRow ELSE ledger[i]]
  /\ UNCHANGED <<current, announced, filing, panel, ask, adminWire, misled, failures>>

-----------------------------------------------------------------------------
(* Filing *)

\* recordEvent settles the match: what the page says, which may be any match it
\* has not left, or else the current one.
Settle(i, m) ==
  /\ filing[i] = 0 /\ ledger[i] = NoRow
  /\ m \in 1..current
  /\ filing' = [filing EXCEPT ![i] = m]
  /\ UNCHANGED <<current, announced, ledger, panel, ask, adminWire, misled, failures>>

\* It inserts the row, and tells the administrators, whose panels ask again
\* (Poll).
Insert(i) ==
  /\ filing[i] # 0
  /\ filing' = [filing EXCEPT ![i] = 0]
  /\ ledger' = [ledger EXCEPT ![i] = [match |-> filing[i], action |-> "RECORDED_VIOLATION"]]
  /\ UNCHANGED <<current, announced, panel, ask, adminWire, misled, failures>>

-----------------------------------------------------------------------------
(* The requests of the panel *)

\* getSummaryStats and getTeamsByViolations, of which only the match counts.
Summary(m) == [Awaited EXCEPT !.is = "ok", !.match = m]

\* fetchAntiCheatData: a request for the events and one for the summary, of the
\* match given or, if 0, of the current one. When the summary of a given match
\* is served makes no difference, nor which place among Asks is taken.
Fetch(q, m) ==
  /\ ask[q] = Unasked /\ q = CHOOSE p \in Asks : ask[p] = Unasked
  /\ ask' = [ask EXCEPT ![q] = [Unasked EXCEPT !.pc = "asked", !.match = m,
                                               !.summary = IF m = 0 THEN @ ELSE Summary(m)]]

\* Every five seconds, and on each message that names no match; also on one that
\* tells of an incident, unless that is of another match than the panel's.
Poll(q) ==
  /\ panel.open
  /\ Fetch(q, panel.match)
  /\ UNCHANGED <<current, announced, filing, ledger, panel, adminWire, misled, failures>>

\* The button passes the click as the match, which is no number.
Refresh(q) ==
  /\ panel.open
  /\ Fetch(q, 0)
  /\ UNCHANGED <<current, announced, filing, ledger, panel, adminWire, misled, failures>>

Target(q) == IF ask[q].match = 0 THEN current ELSE ask[q].match

\* GET /anti-cheat/events
ServeEvents(q) ==
  /\ ask[q].pc = "asked" /\ ask[q].events = Awaited
  /\ ask' = [ask EXCEPT ![q].events =
                [is |-> "ok", match |-> Target(q), rows |-> RowsOf(Target(q))]]
  /\ UNCHANGED <<current, announced, filing, ledger, panel, adminWire, misled, failures>>

\* GET /anti-cheat/summary
ServeSummary(q) ==
  /\ ask[q].pc = "asked" /\ ask[q].summary = Awaited
  /\ ask' = [ask EXCEPT ![q].summary = Summary(current)]
  /\ UNCHANGED <<current, announced, filing, ledger, panel, adminWire, misled, failures>>

\* Either is answered with a 500.
ServeFails(q) ==
  /\ ask[q].pc = "asked" /\ Fails
  /\ \/ ask[q].events = Awaited /\ ask' = [ask EXCEPT ![q].events = Failed]
     \/ ask[q].summary # Failed /\ ask' = [ask EXCEPT ![q].summary = Failed]
  /\ UNCHANGED <<current, announced, filing, ledger, panel, adminWire, misled>>

\* One is not answered at all, after two retries: both are given up.
Unanswered(q) ==
  /\ ask[q].pc = "asked" /\ Fails
  /\ ask' = [ask EXCEPT ![q] = Unasked]
  /\ UNCHANGED <<current, announced, filing, ledger, panel, adminWire, misled>>

\* Both answers are there. That for the events decides the match of the panel,
\* also if it is late.
TakeEvents(q) ==
  LET answer == ask[q].events
      changed == panel.match \notin {0, answer.match}
  IN /\ ask[q].pc = "asked" /\ answer # Awaited /\ ask[q].summary # Awaited
     /\ ask' = [ask EXCEPT ![q] = [@ EXCEPT !.pc = "events taken", !.events = Awaited]]
     /\ IF answer = Failed
        THEN UNCHANGED <<panel, misled>>
        ELSE /\ panel' = [panel EXCEPT !.match = answer.match, !.rows = answer.rows,
                                       !.summary = IF changed THEN 0 ELSE @]
             /\ misled' = (misled \/ answer.match < panel.match)
     /\ UNCHANGED <<current, announced, filing, ledger, adminWire, failures>>

\* The summary is shown, if it is of the match of the panel or that has none.
TakeAnySummary(q) ==
  /\ ask[q].pc = "events taken"
  /\ ask' = [ask EXCEPT ![q] = Unasked]
  /\ panel' = IF ask[q].summary = Failed THEN panel
              ELSE [panel EXCEPT !.summary = ask[q].summary.match, !.early = panel.match = 0]
  /\ UNCHANGED <<current, announced, filing, ledger, adminWire, misled, failures>>

TakeSummary(q) ==
  LET answer == ask[q].summary
  IN /\ ask[q].pc = "events taken"
     /\ ask' = [ask EXCEPT ![q] = Unasked]
     /\ panel' = IF answer = Failed \/ panel.match \notin {0, answer.match} THEN panel
                 ELSE [panel EXCEPT !.summary = answer.match, !.early = panel.match = 0]
     /\ UNCHANGED <<current, announced, filing, ledger, adminWire, misled, failures>>

-----------------------------------------------------------------------------
(* The stream of the panel *)

\* A new match: the panel forgets the former one, and asks for it.
HearKeepingMatch(q, m) ==
  /\ m \in adminWire
  /\ adminWire' = adminWire \ {m}
  /\ Fetch(q, panel.match)
  /\ UNCHANGED <<current, announced, filing, ledger, panel, misled, failures>>

HearMatch(q, m) ==
  /\ m \in adminWire
  /\ adminWire' = adminWire \ {m}
  /\ Fetch(q, m)
  /\ panel' = IF m = panel.match THEN panel
              ELSE [NoPanel EXCEPT !.open = TRUE, !.match = m]
  /\ UNCHANGED <<current, announced, filing, ledger, misled, failures>>

\* The stream breaks, and the browser connects again.
BreakStream ==
  /\ panel.open /\ Fails
  /\ adminWire' = {}
  /\ misled' = (misled \/ adminWire # {})
  /\ UNCHANGED <<current, announced, filing, ledger, panel, ask>>

\* The panel is opened, and asks; or closed, with all that is under way.
Open(q) ==
  /\ ~panel.open
  /\ panel' = [NoPanel EXCEPT !.open = TRUE]
  /\ Fetch(q, 0)
  /\ misled' = (misled \/ announced)
  /\ UNCHANGED <<current, announced, filing, ledger, adminWire, failures>>

Close ==
  /\ panel.open /\ Fails
  /\ panel' = NoPanel /\ ask' = [q \in Asks |-> Unasked] /\ adminWire' = {}
  /\ UNCHANGED <<current, announced, filing, ledger, misled>>

-----------------------------------------------------------------------------
(* Reviews *)

\* reviewEvent, if the row is still there.
ReviewEvent(i) ==
  /\ ledger[i] # NoRow
  /\ ledger' = [ledger EXCEPT ![i].action = "VERIFIED_CLEAR"]
  /\ UNCHANGED <<current, announced, filing, panel, ask, adminWire, misled, failures>>

-----------------------------------------------------------------------------
Serve(q) == ServeEvents(q) \/ ServeSummary(q)
Take(q) == TakeEvents(q) \/ TakeSummary(q)

Hear == \E q \in Asks, m \in adminWire : HearMatch(q, m)

IncidentsNext ==
  \/ AnnounceNextMatch \/ CommitNextMatch \/ AbortNextMatch
  \/ \E m \in Matches : DeleteIncidents({m})
  \/ DeleteIncidents(1..(current - 1))
  \/ \E i \in Incidents : Insert(i) \/ ReviewEvent(i) \/ \E m \in Matches : Settle(i, m)
  \/ \E q \in Asks :
       \/ Poll(q) \/ Refresh(q) \/ Open(q)
       \/ Serve(q) \/ Take(q) \/ ServeFails(q) \/ Unanswered(q)
  \/ Hear \/ BreakStream \/ Close

\* The interval of the panel goes on; what is asked is answered, what is sent
\* is heard, and transactions end. A message that finds Asks exhausted waits
\* here, and has to be heard when one is free again and again.
IncidentsFairness ==
  /\ WF_incidentsVars(\E q \in Asks : Poll(q))
  /\ \A q \in Asks : WF_incidentsVars(Serve(q) \/ Take(q))
  /\ SF_incidentsVars(Hear)
  /\ WF_incidentsVars(CommitNextMatch \/ AbortNextMatch)

IncidentsSpec == IncidentsInit /\ [][IncidentsNext]_incidentsVars /\ IncidentsFairness

-----------------------------------------------------------------------------
(* Properties *)

\* All that the panel shows is of one match, whatever answers came late: the
\* rows, and the summary above them. A summary that came before the panel had a
\* match stays until the next.
OneMatch ==
  /\ \A row \in panel.rows : row.match = panel.match
  /\ panel.summary \in {0, panel.match} \/ panel.early

\* An incident of the current match, and what a review made of it, is shown in
\* the end on a panel that stays open: unless the panel missed the match.
IncidentsShown ==
  \A i \in Incidents :
    []<>(\/ ledger[i].match # current \/ misled \/ ~panel.open
         \/ \E row \in RowsOf(current) : row.id = i /\ row \in panel.rows)
=============================================================================
