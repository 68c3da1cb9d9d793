-------------------------------- MODULE Arena --------------------------------
(***************************************************************************)
(* What a competitor may work on and what counts as solved:                *)
(*                                                                         *)
(*   - ProgressionService.getTeamProgression, which decides which rounds   *)
(*     are open and records the unlocks it decides on;                     *)
(*   - POST /run, up to the queue, and CompletionService.submitFlag;       *)
(*   - the administrator's unlocks and thresholds;                         *)
(*   - createNewMatch, which clears all of it, and restarts.               *)
(*                                                                         *)
(* A request is a sequence of awaits, one action each: what an early one   *)
(* read may be out of date when a later one writes.  The event itself is   *)
(* the state machine of Competition; how the handlers keep to it is the    *)
(* subject of EventLifecycle.                                              *)
(*                                                                         *)
(* A competitor ("unit") has a row in participants, in teams (the legacy   *)
(* table) or, under one id, in both; its progress is kept in a table for   *)
(* each.                                                                   *)
(***************************************************************************)
EXTENDS Naturals, FiniteSets

CONSTANTS
  Participants,   \* ids in participants
  Teams,          \* ids in teams
  Challenges,     \* the active challenges
  Custom,         \* those of them that are not official ones
  NRounds,        \* the active rounds are 1..NRounds, by display order
  RoundOf,        \* the round of a challenge
  InitialNeed,    \* rounds.unlock_required_solves as deployed
  Thresholds,     \* values an administrator may change it to
  Calls,          \* requests that can be in flight
  Workers,        \* those of them that can be runs and submissions
  Everyone,       \* the target of an unlock that names no competitor
  Everything,     \* what unlockAllDifficulties unlocks
  Overrides,      \* <<unit or Everyone, what>>: the unlocks that may be asked for
  MaxAccepted,    \* bound: accepted flags of a unit for a challenge in a match
  MaxMatch        \* bound: matches

Rounds  == 1..NRounds
Targets == Rounds \cup Challenges \cup {Everything}
Units   == Participants \cup Teams

ASSUME ArenaAssumption ==
  /\ NRounds \in Nat \ {0} /\ IsFiniteSet(Challenges)
  /\ Custom \subseteq Challenges
  /\ RoundOf \in [Challenges -> Rounds]
  /\ Rounds \cap Challenges = {}
  /\ Everything \notin Rounds \cup Challenges
  /\ InitialNeed \in [Rounds -> Nat]
  /\ Thresholds \subseteq Nat
  /\ Workers \subseteq Calls
  /\ Everyone \notin Units
  /\ Overrides \subseteq (Units \cup {Everyone}) \X Targets
  /\ MaxAccepted \in Nat \ {0}
  /\ MaxMatch \in Nat \ {0}

VARIABLES
  phase, match,   \* the event: its status and the current match
  mode,           \* event_settings.progression_mode
  need,           \* rounds.unlock_required_solves
  status,         \* participant_challenges and team_challenges
  recorded,       \* participant_unlocked_rounds and team_unlocked_rounds
  overrides,      \* progression_overrides
  running,        \* executions queued or running
  proven,         \* <<unit, challenge>> with a validated run that revealed the flag
  call,           \* the requests in flight
  (* History, read by no action. *)
  accepted,       \* flags accepted in this match
  least,          \* the least threshold of a round in this match
  shown,          \* <<round, by UNLOCK_ALL>>: rounds after the first that a unit was
                  \* told are open in this match
  undone,         \* <<unit, challenge>> whose completion an administrator's unlock or
                  \* the seed may have undone since a flag was last accepted for it
  straddled       \* a request of an earlier match has written into this one

eventVars == <<phase, match>>
rowVars   == <<status, recorded, overrides>>
adminVars == <<mode, need>>
runVars   == <<running, proven>>
history   == <<accepted, least, shown, undone, straddled>>
vars == <<eventVars, rowVars, adminVars, runVars, call, history>>

Tables   == {"participant", "team"}
\* A write for a unit the table does not know fails on the foreign key, and
\* the failure is swallowed.
InTable(u, t) == IF t = "participant" THEN u \in Participants ELSE u \in Teams

-----------------------------------------------------------------------------
(* Reads *)

\* getParticipantUnlockedRoundIds: the legacy rows only when there are no others.
Known(u) ==
  IF recorded["participant"][u] # {} THEN recorded["participant"][u]
  ELSE recorded["team"][u]

\* getActiveOverrides: those of the unit and those for everyone.
Granted(u) == {g \in Targets : <<u, g>> \in overrides \/ <<Everyone, g>> \in overrides}

\* Completed challenges, from both tables.
Solved(u) == {c \in Challenges : \E t \in Tables : status[t][u][c] = "COMPLETED"}

\* getParticipantChallenges: the legacy rows only when there are no others.
Row(u, c) ==
  IF \E d \in Challenges : status["participant"][u][d] # "NONE"
  THEN status["participant"][u][c] ELSE status["team"][u][c]

\* getParticipantChallenge: the legacy row only when there is no other.
OneRow(u, c) ==
  IF status["participant"][u][c] # "NONE"
  THEN status["participant"][u][c] ELSE status["team"][u][c]

-----------------------------------------------------------------------------
(* The rule of progression *)

\* A slip in the comparison with the threshold.
LeadsOneEarly(r, solved, needed) ==
  Cardinality({c \in solved : RoundOf[c] = r - 1}) + 1 >= needed[r]

\* Enough is solved in the round before.
Leads(r, solved, needed) ==
  Cardinality({c \in solved : RoundOf[c] = r - 1}) >= needed[r]

\* Rounds that are open given what was read, as the loop over the rounds finds them:
\* all; the first, and those recorded or granted; and those that it comes to from one
\* of these over rounds that each have enough solved before them.
Open(all, known, granted, solved, needed) ==
  {r \in Rounds :
     all \/ \E q \in 1..r : /\ q \in {1} \cup known \cup granted
                         /\ \A s \in (q + 1)..r : Leads(s, solved, needed)}

\* Rounds open for a unit as the tables stand.
Unlocked(u) == Open(mode = "UNLOCK_ALL", Known(u), Granted(u), Solved(u), need)

\* Challenges a unit may work on as the tables stand.
Workable(u) ==
  {c \in Challenges : RoundOf[c] \in Unlocked(u) \/ c \in Granted(u) \/ c \in Solved(u)}
-----------------------------------------------------------------------------
(* Requests *)

Idle ==
  [pc |-> "idle", kind |-> "view", unit |-> Everyone, item |-> 1, began |-> 1,
   all |-> FALSE, need |-> InitialNeed, known |-> {}, granted |-> {},
   open |-> {}, todo |-> {}, free |-> FALSE]

Init ==
  /\ phase = "NOT_STARTED" /\ match = 1
  /\ mode = "SEQUENTIAL"
  /\ need = InitialNeed
  /\ status = [t \in Tables |-> [u \in Units |-> [c \in Challenges |-> "NONE"]]]
  /\ recorded = [t \in Tables |-> [u \in Units |-> {}]]
  /\ overrides = {}
  /\ running = {} /\ proven = {}
  /\ call = [p \in Calls |-> Idle]
  /\ accepted = [u \in Units |-> [c \in Challenges |-> 0]]
  /\ least = InitialNeed
  /\ shown = [u \in Units |-> {}]
  /\ undone = {}
  /\ straddled = FALSE

At(p, pc) == call[p].pc = pc
Done(p)   == call' = [call EXCEPT ![p] = Idle]

\* A write of this request lands in the match in which the request began.
Land(p) == straddled' = (straddled \/ call[p].began # match)

\* A write of `s' to the row of the request's unit and challenge.
SetStatus(p, t, s) ==
  LET u == call[p].unit
      c == call[p].item
  IN  status' = IF InTable(u, t) THEN [status EXCEPT ![t][u][c] = s] ELSE status

\* getTeamProgression, for a page of the competitor, without a gate.
BeginView(p, u) ==
  /\ At(p, "idle")
  /\ call' = [call EXCEPT ![p] =
       [Idle EXCEPT !.pc = "config", !.kind = "view", !.unit = u, !.began = match]]
  /\ UNCHANGED <<eventVars, rowVars, adminVars, runVars, history>>

\* handleRunExecution and submitFlag: past the gate when the event is RUNNING.
BeginWork(p, k, u, c) ==
  /\ p \in Workers
  /\ At(p, "idle")
  /\ phase = "RUNNING"
  /\ call' = [call EXCEPT ![p] =
       [Idle EXCEPT !.pc = "config", !.kind = k, !.unit = u, !.item = c, !.began = match]]
  /\ UNCHANGED <<eventVars, rowVars, adminVars, runVars, history>>

\* A refusal of a later check, an error, or the end of the process.
Abandon(p) ==
  /\ ~At(p, "idle")
  /\ Done(p)
  /\ UNCHANGED <<eventVars, rowVars, adminVars, runVars, history>>

\* What one query of getTeamProgression finds is kept for the rest of it.
Query(p, next, found) ==
  /\ call' = [call EXCEPT ![p] = [found EXCEPT !.pc = next]]
  /\ UNCHANGED <<eventVars, rowVars, adminVars, runVars, history>>

\* The rounds with their thresholds, then the mode: one step, for what changes
\* between the two queries either comes to the same as before or after both, or
\* opens everything.
ReadConfig(p) ==
  /\ At(p, "config")
  /\ Query(p, "known", [call[p] EXCEPT !.need = need, !.all = (mode = "UNLOCK_ALL")])

ReadKnown(p) ==
  /\ At(p, "known")
  /\ Query(p, "overrides", [call[p] EXCEPT !.known = Known(call[p].unit)])

ReadOverrides(p) ==
  /\ At(p, "overrides")
  /\ Query(p, "solves", [call[p] EXCEPT !.granted = Granted(call[p].unit)])

\* Records nothing that was earned.
ToRecordFirst(r, open) == {1}

\* The unlocks to be recorded: the open rounds that this request is the first to
\* see earned, and the first round.
ToRecord(r, open) ==
  {1} \cup (IF r.all THEN {} ELSE open \ (r.known \cup r.granted))

\* The solves of both tables, which a completion enters at once; then the
\* decision.
ReadSolves(p) ==
  LET r    == call[p]
      open == Open(r.all, r.known, r.granted, Solved(r.unit), r.need)
  IN  /\ At(p, "solves")
      /\ Query(p, "record",
        [r EXCEPT !.open = open \cup (r.granted \cap Challenges),
                  !.todo = ToRecord(r, open),
                  !.need = InitialNeed, !.known = {}, !.granted = {}])

\* Unlocks are recorded in the order of the rounds, the first round's last.
Upcoming(todo) == {r \in todo : \A q \in todo \ {1} : r # 1 /\ r <= q}

\* recordParticipantRoundUnlock: one table, then the other.
RecordUnlock(p, r, t) ==
  LET u == call[p].unit IN
  /\ recorded' = IF InTable(u, t) THEN [recorded EXCEPT ![t][u] = @ \cup {r}] ELSE recorded
  /\ Land(p)
  /\ UNCHANGED <<eventVars, status, overrides, adminVars, runVars, accepted, least, shown, undone>>

Record(p) ==
  /\ At(p, "record")
  /\ \E r \in Upcoming(call[p].todo) : RecordUnlock(p, r, "participant")
  /\ call' = [call EXCEPT ![p].pc = "recordLegacy"]

RecordLegacy(p) ==
  /\ At(p, "recordLegacy")
  /\ \E r \in Upcoming(call[p].todo) :
       /\ RecordUnlock(p, r, "team")
       /\ \/ /\ call[p].todo # {r}
             /\ call' = [call EXCEPT ![p].pc = "record", ![p].todo = @ \ {r}]
          \/ /\ call[p].todo = {r} /\ call[p].kind # "grant"
             /\ call' = [call EXCEPT ![p].pc = "rows", ![p].todo = {}]
          \/ /\ call[p].todo = {r} /\ call[p].kind = "grant"
             /\ Done(p)

\* A page, or the answer to an accepted flag, tells the competitor which rounds
\* are open.
Answer(p) ==
  LET r == call[p] IN
  /\ At(p, "rows")
  /\ r.kind \in {"view", "accepted"}
  /\ shown' = IF r.began = match
              THEN [shown EXCEPT ![r.unit] = @ \cup {<<q, r.all>> : q \in (r.open \cap Rounds) \ {1}}]
              ELSE shown
  /\ Done(p)
  /\ UNCHANGED <<eventVars, rowVars, adminVars, runVars, accepted, least, undone, straddled>>

\* The rows give each challenge its status: is the one asked for locked?
ReadRows(p) ==
  LET r == call[p] IN
  /\ At(p, "rows") /\ r.kind \in {"run", "submit"}
  /\ Query(p, "row",
       [r EXCEPT !.free = \/ Row(r.unit, r.item) = "COMPLETED"
                          \/ RoundOf[r.item] \in r.open \/ r.item \in r.open,
                 !.open = {}])

-----------------------------------------------------------------------------
(* Executions *)

\* A completed challenge may be run even if it is locked.
AllowRun(p) ==
  /\ At(p, "row") /\ call[p].kind = "run"
  /\ call[p].free \/ OneRow(call[p].unit, call[p].item) = "COMPLETED"
  /\ Query(p, "attempt", call[p])

\* The conflict clause sets the status as well.
AttemptRestarts(p, t) ==
  /\ SetStatus(p, t, "IN_PROGRESS")
  /\ Land(p)

\* recordExecutionSubmission: the submission is inserted, then the attempt is
\* counted in one table and then the other; a row that exists keeps its status.
Attempt(p, t) ==
  LET r == call[p]
      s == status[t][r.unit][r.item]
  IN /\ SetStatus(p, t, IF s = "NONE" THEN "IN_PROGRESS" ELSE s)
     /\ Land(p)

CountAttempt(p) ==
  /\ At(p, "attempt")
  /\ Attempt(p, "participant")
  /\ call' = [call EXCEPT ![p].pc = "attemptLegacy"]
  /\ UNCHANGED <<eventVars, recorded, overrides, adminVars, runVars, accepted, least, shown, undone>>

CountLegacyAttempt(p) ==
  /\ At(p, "attemptLegacy")
  /\ Attempt(p, "team")
  /\ running' = running \cup {<<call[p].unit, call[p].item>>}
  /\ Done(p)
  /\ UNCHANGED <<eventVars, recorded, overrides, adminVars, proven, accepted, least, shown, undone>>

\* The worker has run the code; it passed and revealed the flag, or not.
FinishRun(u, c, passed) ==
  /\ <<u, c>> \in running
  /\ running' = running \ {<<u, c>>}
  /\ proven' = IF passed THEN proven \cup {<<u, c>>} ELSE proven
  /\ UNCHANGED <<eventVars, rowVars, adminVars, call, history>>
-----------------------------------------------------------------------------
(* Flags *)

AllowSubmit(p) ==
  /\ At(p, "row") /\ call[p].kind = "submit"
  /\ call[p].free /\ OneRow(call[p].unit, call[p].item) # "COMPLETED"
  /\ Query(p, "flag", call[p])

\* The flag is right, and an execution that passed has revealed it.
VerifyFlag(p) ==
  /\ At(p, "flag")
  /\ <<call[p].unit, call[p].item>> \in proven
  /\ Query(p, "recheck", call[p])

\* The transaction looks at the row again, but does not lock it ...
Recheck(p) ==
  LET t == IF call[p].unit \in Participants THEN "participant" ELSE "team"
  IN  /\ At(p, "recheck")
      /\ status[t][call[p].unit][call[p].item] # "COMPLETED"
      /\ Query(p, "commit", call[p])

\* ... and records the flag and completes the challenge in both tables.  Then
\* progression is evaluated again.
Commit(p) ==
  LET r == call[p] IN
  /\ At(p, "commit")
  /\ accepted[r.unit][r.item] < MaxAccepted
  /\ status' = [t \in Tables |->
       IF InTable(r.unit, t) THEN [status[t] EXCEPT ![r.unit][r.item] = "COMPLETED"]
       ELSE status[t]]
  /\ accepted' = [accepted EXCEPT ![r.unit][r.item] = @ + 1]
  /\ undone' = undone \ {<<r.unit, r.item>>}
  /\ Land(p)
  /\ call' = [call EXCEPT ![p].kind = "accepted", ![p].pc = "config", ![p].free = FALSE]
  /\ UNCHANGED <<eventVars, recorded, overrides, adminVars, runVars, least, shown>>

-----------------------------------------------------------------------------
(* The administrator *)

\* unlockAllDifficulties: the mode of the event; nobody looks for its override.
UnlockAll ==
  /\ <<Everyone, Everything>> \in Overrides
  /\ mode' = "UNLOCK_ALL"
  /\ overrides' = overrides \cup {<<Everyone, Everything>>}
  /\ UNCHANGED <<eventVars, status, recorded, need, runVars, call, history>>

\* PATCH of a round: no route calls validateRoundThreshold.
SetThreshold(r, n) ==
  /\ need' = [need EXCEPT ![r] = n]
  /\ least' = [least EXCEPT ![r] = IF n < @ THEN n ELSE @]
  /\ UNCHANGED <<eventVars, rowVars, mode, runVars, call, accepted, shown, undone, straddled>>

\* unlockDifficulty and unlockChallenge: the override first; then, when it is
\* for one competitor, the unlock is recorded or the row of the challenge set.
Grant(p, u, g) ==
  /\ At(p, "idle") /\ g # Everything
  /\ overrides' = overrides \cup {<<u, g>>}
  /\ call' = IF u = Everyone THEN call ELSE [call EXCEPT ![p] =
       IF g \in Rounds
       THEN [Idle EXCEPT !.pc = "record", !.kind = "grant", !.unit = u, !.began = match, !.todo = {g}]
       ELSE [Idle EXCEPT !.pc = "reset", !.kind = "grant", !.unit = u, !.began = match, !.item = g]]
  /\ UNCHANGED <<eventVars, status, recorded, adminVars, runVars, history>>

\* setParticipantChallengeStatus: AVAILABLE, whatever the row says.
ResetRow(p, t) ==
  /\ SetStatus(p, t, "AVAILABLE")
  /\ undone' = undone \cup {<<call[p].unit, call[p].item>>}
  /\ Land(p)
  /\ UNCHANGED <<eventVars, recorded, overrides, adminVars, runVars, accepted, least, shown>>

Reset(p)       == At(p, "reset") /\ ResetRow(p, "participant") /\ call' = [call EXCEPT ![p].pc = "resetLegacy"]
ResetLegacy(p) == At(p, "resetLegacy") /\ ResetRow(p, "team") /\ Done(p)

-----------------------------------------------------------------------------
(* The event, and the server *)

EventStep ==
  /\ \/ phase \in {"NOT_STARTED", "PAUSED"} /\ phase' = "RUNNING"
     \/ phase = "RUNNING" /\ phase' = "PAUSED"
     \/ phase \in {"RUNNING", "PAUSED"} /\ phase' = "ENDED"
  /\ match' = match
  /\ UNCHANGED <<rowVars, adminVars, runVars, call, history>>

\* createNewMatch, one transaction.  The progression mode is not touched, nor
\* are the requests in flight or the submissions of earlier matches.
NextMatch ==
  /\ match < MaxMatch
  /\ phase = "ENDED"
  /\ phase' = "NOT_STARTED"
  /\ match' = match + 1
  /\ status' = [t \in Tables |-> [u \in Units |-> [c \in Challenges |-> "NONE"]]]
  /\ recorded' = [t \in Tables |-> [u \in Units |-> {}]]
  /\ overrides' = {}
  /\ accepted' = [u \in Units |-> [c \in Challenges |-> 0]]
  /\ least' = need
  /\ shown' = [u \in Units |-> {}]
  /\ undone' = {}
  /\ straddled' = FALSE
  /\ UNCHANGED <<adminVars, runVars, call>>

\* The seed deletes the rows of the challenges that are not official, first from
\* the one table, then from the other, each statement a commit of its own: it may
\* find none or not come so far, and it may break off in between.
PurgeCustom ==
  \/ UNCHANGED <<status, undone>>
  \/ \E ts \in {{"team"}, Tables} :
       /\ status' = [t \in Tables |-> [u \in Units |-> [c \in Challenges |->
            IF t \in ts /\ c \in Custom THEN "NONE" ELSE status[t][u][c]]]]
       /\ undone' = undone \cup (Units \X Custom)

\* The requests in flight are lost; the seed sets the progression mode back, and
\* purges.
Restart ==
  /\ call' = [p \in Calls |-> Idle]
  /\ mode' = "SEQUENTIAL"
  /\ PurgeCustom
  /\ UNCHANGED <<eventVars, recorded, overrides, need, runVars, accepted, least, shown, straddled>>

Progress(p) ==
  \/ ReadConfig(p) \/ ReadKnown(p) \/ ReadOverrides(p) \/ ReadSolves(p)
  \/ Record(p) \/ RecordLegacy(p) \/ Answer(p) \/ ReadRows(p)
  \/ AllowRun(p) \/ CountAttempt(p) \/ CountLegacyAttempt(p)
  \/ AllowSubmit(p) \/ VerifyFlag(p) \/ Recheck(p) \/ Commit(p)
  \/ Reset(p) \/ ResetLegacy(p)

Next ==
  \/ \E p \in Calls :
       \/ Progress(p) \/ Abandon(p)
       \/ \E u \in Units : BeginView(p, u)
       \/ \E u \in Units, c \in Challenges :
            BeginWork(p, "run", u, c) \/ BeginWork(p, "submit", u, c)
       \/ \E o \in Overrides : Grant(p, o[1], o[2])
  \/ \E u \in Units, c \in Challenges, passed \in BOOLEAN : FinishRun(u, c, passed)
  \/ UnlockAll
  \/ \E r \in Rounds, n \in Thresholds : SetThreshold(r, n)
  \/ EventStep \/ NextMatch \/ Restart

Spec == Init /\ [][Next]_vars

-----------------------------------------------------------------------------
(* Properties *)

\* What a unit was told is open stays open until the next match, whatever the
\* administrator does to the thresholds and whoever else is being served, if it
\* was not open only because everything was ("already unlocked progress stays
\* unlocked", getTeamProgression).
UnlockedStays ==
  ~straddled => \A u \in Units, r \in Rounds : <<r, FALSE>> \in shown[u] => r \in Unlocked(u)

\* A recorded unlock was earned: the unit was granted the round, or has had as
\* many flags accepted in the round before as the least threshold asks for.
EarnedUnlocks ==
  ~straddled => \A t \in Tables, u \in Units : \A r \in recorded[t][u] \ {1} :
    \/ r \in Granted(u)
    \/ Cardinality({c \in Challenges : RoundOf[c] = r - 1 /\ accepted[u][c] > 0}) >= least[r]

\* A challenge is completed only if a flag has been accepted for it in this match,
\* and completed in every table that knows the unit if one has, unless that was
\* undone since, by an administrator's unlock or by the seed, which purges
\* challenges that are not official: runs, double submissions and restarts in
\* themselves neither lose a completion nor make one up.
SolvedIffAccepted ==
  ~straddled => \A u \in Units, c \in Challenges, t \in Tables :
    /\ status[t][u][c] = "COMPLETED" => accepted[u][c] > 0
    /\ accepted[u][c] > 0 /\ <<u, c>> \notin undone /\ InTable(u, t)
         => status[t][u][c] = "COMPLETED"

\* A flag is accepted, and an attempt counted, only for a challenge the unit may
\* still work on at that moment, although access was checked awaits ago.
NoWorkAhead ==
  [][ \A p \in Calls :
        Commit(p) \/ CountAttempt(p) =>
          straddled' \/ call[p].item \in Workable(call[p].unit) ]_vars
=============================================================================
