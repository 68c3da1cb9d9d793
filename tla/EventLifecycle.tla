---------------------------- MODULE EventLifecycle ----------------------------
(***************************************************************************)
(* The competition's life: the single row of event_settings, the           *)
(* competition_matches table, and the handlers that write them:            *)
(*                                                                         *)
(*   - the administrator's START, PAUSE, RESUME and END                    *)
(*     (AdminRepository.transitionEventStatus), any number at once;        *)
(*   - the readers of the timer, which end an expired event                *)
(*     (EventService.getEventStatus, EventRepository.autoEndEvent);        *)
(*   - the creation of the next match (AdminRepository.createNewMatch);    *)
(*   - a restart of the server, which re-runs the seed.                    *)
(*                                                                         *)
(* A handler is one action per await: it reads the row, decides, and       *)
(* writes the row in a later step, so handlers interleave as the node      *)
(* event loop and a READ COMMITTED database let them.                      *)
(***************************************************************************)
EXTENDS EventClock, FiniteSets

CONSTANTS
  Requests,           \* admin transition requests that can be in flight
  Tickers,            \* callers of getEventStatus that can be in flight
  Solves,             \* (unit, challenge) completions there can be
  TeamSolves,         \* those of a unit that has a row in teams
  CustomSolves,       \* those of a challenge that is not an official one
  MaxMatch,           \* bound: matches created
  MaxTime,            \* bound: ticks of the clock
  MaxPauses,          \* bound: pauses of a match
  MaxCopies,          \* bound: copies of a row in the archive
  StandardDuration,   \* the 60 minutes, in seconds
  Durations           \* durations an administrator may ask for

ASSUME LifecycleAssumption ==
  /\ TeamSolves \subseteq Solves
  /\ CustomSolves \subseteq Solves
  /\ MaxMatch \in Nat \ {0}
  /\ MaxTime \in Nat
  /\ MaxPauses \in Nat
  /\ MaxCopies \in Nat \ {0}
  /\ Durations \subseteq Nat \ {0}
  /\ StandardDuration \in Durations

VARIABLES
  now,        \* Date.now(), in ticks
  event,      \* the row of event_settings
  matches,    \* competition_matches by match number
  progress,   \* completions of the live match: participant_challenges, and
              \* team_challenges for those in TeamSolves
  torn,       \* those whose row in team_challenges the seed has purged, and
              \* not yet the one in participant_challenges
  archive,    \* match_historical_challenges: copies by match and row
  closed,     \* PresenceService.endedMatches
  gated,      \* flag submissions past the gate, not yet committed
  req,        \* transition requests in flight
  tick,       \* getEventStatus calls in flight
  create,     \* the createNewMatch in flight; idle when its lock is free
  (* History of the run; but for the bound on pauses, read by no action. *)
  stale,      \* some handler wrote the event row over a value it had not read
  rewound,    \* the seed has set the current match back to Match 1
  ran,        \* ticks of play of this match up to its last pause
  since,      \* when play of this match last began
  pauses,     \* completed pauses of this match
  onTime,     \* by match, rows completed while it was RUNNING and not purged
  missed,     \* committed since the creation in flight read what it copies,
  spared      \* and since it deleted

rowVars  == <<event, matches>>
workVars == <<progress, torn, archive, closed, gated>>
procVars == <<req, tick, create>>
playVars == <<ran, since, pauses>>
lateVars == <<missed, spared>>
histVars == <<playVars, onTime, lateVars, rewound>>
vars == <<now, rowVars, workVars, procVars, stale, histVars>>

Status  == {"NOT_STARTED", "RUNNING", "PAUSED", "ENDED"}
Actions == {"START", "PAUSE", "RESUME", "END"}
Matches == 1..MaxMatch
Instant == Nat \cup {None}

\* Mutant: START is accepted again after the end.
FromAlsoRestarts(action) ==
  CASE action = "START"  -> {"NOT_STARTED", "ENDED"}
    [] action = "PAUSE"  -> {"RUNNING"}
    [] action = "RESUME" -> {"PAUSED"}
    [] action = "END"    -> {"RUNNING", "PAUSED"}

\* The state machine the transition handler validates against.
From(action) ==
  CASE action = "START"  -> {"NOT_STARTED"}
    [] action = "PAUSE"  -> {"RUNNING"}
    [] action = "RESUME" -> {"PAUSED"}
    [] action = "END"    -> {"RUNNING", "PAUSED"}

Target(action) ==
  CASE action \in {"START", "RESUME"} -> "RUNNING"
    [] action = "PAUSE" -> "PAUSED"
    [] action = "END"   -> "ENDED"

NoRow  == [status |-> "ABSENT", board |-> {}]
NewRow == [status |-> "NOT_STARTED", board |-> {}]

IdleReq    == [pc |-> "idle", action |-> "END", match |-> 1, at |-> 0,
               paused |-> None, fresh |-> FALSE]
IdleTick   == [pc |-> "idle", match |-> 1, end |-> 0, fresh |-> FALSE]
IdleCreate == [pc |-> "idle", board |-> {}, dur |-> StandardDuration, match |-> 1,
               repair |-> FALSE, copied |-> {}, doomed |-> {}, fresh |-> FALSE]

FreshEvent(n, d) ==
  [status |-> "NOT_STARTED", startedAt |-> None, endedAt |-> None,
   pausedAt |-> None, pausedSecs |-> 0, dur |-> d, match |-> n]

Init ==
  /\ now = 0
  /\ event = FreshEvent(1, StandardDuration)
  /\ matches = [n \in Matches |-> IF n = 1 THEN NewRow ELSE NoRow]
  /\ progress = {} /\ torn = {}
  /\ archive = [n \in Matches |-> [s \in Solves |-> 0]]
  /\ closed = {}
  /\ gated = {}
  /\ req = [a \in Requests |-> IdleReq]
  /\ tick = [t \in Tickers |-> IdleTick]
  /\ create = IdleCreate
  /\ stale = FALSE /\ rewound = FALSE
  /\ ran = 0 /\ since = 0 /\ pauses = 0
  /\ onTime = [n \in Matches |-> {}] /\ missed = {} /\ spared = {}

\* A write of the event row: what the others in flight have read is outdated.
Outdate(procs) == [p \in DOMAIN procs |-> [procs[p] EXCEPT !.fresh = FALSE]]

Expired(t) ==
  /\ event.status = "RUNNING"
  /\ event.startedAt # None
  /\ RemainingSeconds(event.startedAt, event.pausedSecs, event.dur, t) <= 0

\* The archive with one more copy of each team row among rows.
Copied(n, rows) ==
  [archive EXCEPT ![n] = [s \in Solves |->
     IF s \in rows \cap TeamSolves /\ @[s] < MaxCopies THEN @[s] + 1 ELSE @[s]]]

-----------------------------------------------------------------------------
(* transitionEventStatus *)

\* Reads the row and validates; a duplicate or refused request returns at once
\* and changes nothing.  The instant of the transition is taken here.
ReadEvent(a, action) ==
  /\ req[a].pc = "idle"
  /\ event.status \in From(action)
  /\ action = "PAUSE" => pauses < MaxPauses
  /\ req' = [req EXCEPT ![a] =
       [pc |-> "update", action |-> action, match |-> event.match, at |-> now,
        paused |-> IF action = "RESUME" /\ event.pausedAt # None
                   THEN PausedSeconds(event.pausedSecs, event.pausedAt, now)
                   ELSE None,
        fresh |-> TRUE]]
  /\ UNCHANGED <<now, rowVars, workVars, tick, create, stale, histVars>>

\* Mutant: RESUME forgets to clear the pause instant.
UpdatedKeepsPause(r) ==
  [event EXCEPT
     !.status     = Target(r.action),
     !.startedAt  = IF r.action = "START" THEN r.at ELSE @,
     !.dur        = IF r.action = "START" THEN StandardDuration ELSE @,
     !.pausedSecs = IF r.paused # None THEN r.paused ELSE @,
     !.pausedAt   = IF r.action = "PAUSE" THEN r.at ELSE @,
     !.endedAt    = IF r.action = "END" THEN r.at ELSE @]

\* The row that the handler's UPDATE leaves.
Updated(r) ==
  [event EXCEPT
     !.status     = Target(r.action),
     !.startedAt  = IF r.action = "START" THEN r.at ELSE @,
     !.dur        = IF r.action = "START" THEN StandardDuration ELSE @,
     !.pausedSecs = IF r.action = "START" THEN 0
                    ELSE IF r.paused # None THEN r.paused ELSE @,
     !.pausedAt   = IF r.action = "PAUSE" THEN r.at ELSE None,
     !.endedAt    = IF r.action = "START" THEN None
                    ELSE IF r.action = "END" THEN r.at ELSE @]

\* What the history records of it: the time played, pause by pause.
NotPlaying == ran' = 0 /\ since' = 0 /\ pauses' = 0

Play(action, at) ==
  \/ action = "START"  /\ ran' = 0 /\ since' = at /\ pauses' = 0
  \/ action = "PAUSE"  /\ ran' = ran + (at - since) /\ since' = 0 /\ UNCHANGED pauses
  \/ action = "RESUME" /\ since' = at /\ pauses' = pauses + 1 /\ UNCHANGED ran
  \/ action = "END"    /\ NotPlaying

\* UPDATE event_settings ... WHERE id = 1: whatever the row has become.
UpdateEvent(a) ==
  /\ req[a].pc = "update"
  /\ event' = Updated(req[a])
  /\ stale' = (stale \/ ~req[a].fresh)
  /\ req' = [Outdate(req) EXCEPT ![a] =
       [IdleReq EXCEPT !.pc = "sync", !.action = req[a].action, !.match = req[a].match]]
  /\ tick' = Outdate(tick)
  /\ create' = [create EXCEPT !.fresh = FALSE]
  /\ Play(req[a].action, req[a].at)
  /\ UNCHANGED <<now, matches, workVars, onTime, lateVars, rewound>>

\* The row of the match the handler read, inserted if it is missing.  An END
\* also stores the leaderboard of the moment.
SyncMatch(a) ==
  LET r == req[a] IN
  /\ r.pc = "sync"
  /\ matches' = [matches EXCEPT ![r.match] =
       [status |-> Target(r.action),
        board |-> IF r.action = "END" /\ @.status # "ABSENT"
                  THEN {progress} ELSE @.board]]
  /\ req' = [req EXCEPT ![a] = IF r.action = "END" THEN [r EXCEPT !.pc = "archive"]
                               ELSE IdleReq]
  /\ UNCHANGED <<now, event, workVars, tick, create, stale, histVars>>

\* An END copies the completed rows to the history and closes the match's
\* presence.
ArchiveEnd(a) ==
  /\ req[a].pc = "archive"
  /\ archive' = Copied(req[a].match, progress \ torn)
  /\ closed' = closed \cup {req[a].match}
  /\ req' = [req EXCEPT ![a] = IdleReq]
  /\ UNCHANGED <<now, rowVars, progress, torn, gated, tick, create, stale, histVars>>

\* Any statement of the two steps above fails: logged, and the request goes on
\* to answer success.
SyncFails(a) ==
  /\ req[a].pc \in {"sync", "archive"}
  /\ req' = [req EXCEPT ![a] = IdleReq]
  /\ UNCHANGED <<now, rowVars, workVars, tick, create, stale, histVars>>

Transition(a) ==
  \/ \E action \in Actions : ReadEvent(a, action)
  \/ UpdateEvent(a)
  \/ SyncMatch(a)
  \/ ArchiveEnd(a)
  \/ SyncFails(a)

-----------------------------------------------------------------------------
(* getEventStatus and autoEndEvent *)

\* Mutant: the timer must have gone below zero.
ReadExpiredLate(t) ==
  /\ tick[t].pc = "idle"
  /\ event.status = "RUNNING"
  /\ RemainingSeconds(event.startedAt, event.pausedSecs, event.dur, now) < 0
  /\ tick' = [tick EXCEPT ![t] =
       [pc |-> "commit", match |-> event.match, fresh |-> TRUE,
        end |-> ScheduledEnd(event.startedAt, event.pausedSecs, event.dur)]]
  /\ UNCHANGED <<now, rowVars, workVars, req, create, stale, histVars>>

\* A reader finds the timer at zero.  The instant it will record is computed
\* from what it read.
ReadExpired(t) ==
  /\ tick[t].pc = "idle"
  /\ Expired(now)
  /\ tick' = [tick EXCEPT ![t] =
       [pc |-> "commit", match |-> event.match, fresh |-> TRUE,
        end |-> ScheduledEnd(event.startedAt, event.pausedSecs, event.dur)]]
  /\ UNCHANGED <<now, rowVars, workVars, req, create, stale, histVars>>

\* UPDATE event_settings ... WHERE id = 1 AND status = 'RUNNING' RETURNING.
AutoEnd(t) ==
  /\ tick[t].pc = "commit"
  /\ event.status = "RUNNING"
  /\ event' = [event EXCEPT !.status = "ENDED", !.endedAt = tick[t].end]
  /\ stale' = (stale \/ ~tick[t].fresh)
  /\ tick' = [Outdate(tick) EXCEPT ![t] =
       [IdleTick EXCEPT !.pc = "sync", !.match = event.match]]
  /\ req' = Outdate(req)
  /\ create' = [create EXCEPT !.fresh = FALSE]
  /\ NotPlaying
  /\ UNCHANGED <<now, matches, workVars, onTime, lateVars, rewound>>

\* The row was no longer RUNNING: the reader reports ENDED and writes nothing.
AutoEndMissed(t) ==
  /\ tick[t].pc = "commit"
  /\ event.status # "RUNNING"
  /\ tick' = [tick EXCEPT ![t] = IdleTick]
  /\ UNCHANGED <<now, rowVars, workVars, req, create, stale, histVars>>

\* Presence of the match is closed, then its row is ended with the leaderboard
\* of the moment, unless that statement fails; nothing is archived.
AutoEndSync(t) ==
  LET n == tick[t].match IN
  /\ tick[t].pc = "sync"
  /\ closed' = closed \cup {n}
  /\ \/ /\ matches[n].status # "ABSENT"
        /\ matches' = [matches EXCEPT ![n] = [status |-> "ENDED", board |-> {progress}]]
     \/ UNCHANGED matches
  /\ tick' = [tick EXCEPT ![t] = IdleTick]
  /\ UNCHANGED <<now, event, progress, torn, archive, gated, req, create, stale,
                 histVars>>

Ticker(t) == ReadExpired(t) \/ AutoEnd(t) \/ AutoEndMissed(t) \/ AutoEndSync(t)

-----------------------------------------------------------------------------
(* createNewMatch *)

\* Takes the in-process lock, and a leaderboard snapshot unless that fails.
LockCreate ==
  /\ create.pc = "idle"
  /\ \E d \in Durations, board \in {{}, {progress}} :
       create' = [IdleCreate EXCEPT !.pc = "begin", !.dur = d, !.board = board]
  /\ UNCHANGED <<now, rowVars, workVars, req, tick, stale, histVars>>

\* Mutant: the refusal returns without releasing the lock.
RefuseCreateKeepsLock ==
  /\ create.pc = "begin"
  /\ event.status # "ENDED" \/ event.match = MaxMatch
  /\ UNCHANGED vars

\* The transaction reads the event row and refuses unless it is ENDED (or the
\* model has no more match to open).
RefuseCreate ==
  /\ create.pc = "begin"
  /\ event.status # "ENDED" \/ event.match = MaxMatch
  /\ create' = IdleCreate
  /\ UNCHANGED <<now, rowVars, workVars, req, tick, stale, histVars>>

\* Mutant: a match whose leaderboard is stored is taken to be archived too.
ReadEndedSkipsArchive ==
  LET row == matches[event.match] IN
  /\ create.pc = "begin"
  /\ event.status = "ENDED"
  /\ event.match < MaxMatch
  /\ create' = [create EXCEPT
       !.pc = "delete", !.match = event.match, !.fresh = TRUE,
       !.copied = IF row.board = {} THEN progress \ torn ELSE {},
       !.repair = row.status # "ABSENT" /\ (row.board = {} \/ row.status # "ENDED")]
  /\ UNCHANGED <<now, rowVars, workVars, req, tick, stale, histVars>>

\* It reads the row of the match, which may lack its end, and the completed
\* rows it will copy.
ReadEnded ==
  LET row == matches[event.match] IN
  /\ create.pc = "begin"
  /\ event.status = "ENDED"
  /\ event.match < MaxMatch
  /\ create' = [create EXCEPT
       !.pc = "delete", !.match = event.match, !.fresh = TRUE, !.copied = progress \ torn,
       !.repair = row.status # "ABSENT" /\ (row.board = {} \/ row.status # "ENDED")]
  /\ UNCHANGED <<now, rowVars, workVars, req, tick, stale, histVars>>

\* The DELETE statements take the rows committed by now.
DeleteProgress ==
  /\ create.pc = "delete"
  /\ create' = [create EXCEPT !.pc = "commit", !.doomed = progress]
  /\ UNCHANGED <<now, rowVars, workVars, req, tick, stale, histVars>>

\* The commit makes everything visible.  The insert of the next match is
\* refused, and with it the transaction, when its number is taken.
CommitCreate ==
  LET n == create.match IN
  /\ create.pc = "commit"
  /\ matches[n + 1].status = "ABSENT"
  /\ matches' = [matches EXCEPT
       ![n] = IF create.repair THEN [status |-> "ENDED", board |-> create.board] ELSE @,
       ![n + 1] = NewRow]
  /\ archive' = Copied(n, create.copied)
  /\ progress' = progress \ create.doomed
  /\ torn' = torn \ create.doomed
  /\ event' = FreshEvent(n + 1, create.dur)
  /\ closed' = closed \ {n + 1}
  /\ stale' = (stale \/ ~create.fresh)
  /\ req' = Outdate(req)
  /\ tick' = Outdate(tick)
  /\ create' = IdleCreate
  /\ NotPlaying
  /\ missed' = {} /\ spared' = {}
  /\ UNCHANGED <<now, gated, onTime, rewound>>

\* The number is taken, or a statement fails: the transaction rolls back and
\* the lock is released.
AbortCreate ==
  /\ create.pc \in {"delete", "commit"}
  /\ create' = IdleCreate
  /\ missed' = {} /\ spared' = {}
  /\ UNCHANGED <<now, rowVars, workVars, req, tick, stale, playVars, onTime, rewound>>

Creation == \/ LockCreate \/ RefuseCreate \/ ReadEnded \/ DeleteProgress
            \/ CommitCreate \/ AbortCreate

-----------------------------------------------------------------------------
(* deleteMatch and clearArchivedMatches *)

Purge(ns) ==
  /\ matches' = [n \in Matches |-> IF n \in ns THEN NoRow ELSE matches[n]]
  /\ archive' = [n \in Matches |-> IF n \in ns THEN [s \in Solves |-> 0] ELSE archive[n]]
  /\ UNCHANGED <<now, event, progress, torn, closed, gated, procVars, stale, histVars>>

DeleteMatch(n) ==
  /\ n # event.match
  /\ matches[n].status \notin {"ABSENT", "RUNNING", "PAUSED"}
  /\ Purge({n})

ClearArchivedMatches ==
  LET ns == {n \in Matches \ {event.match} : matches[n].status # "ABSENT"} IN
  /\ ns # {}
  /\ Purge(ns)

-----------------------------------------------------------------------------
(* Flag submissions, as far as they concern the life of a match *)

\* submitFlag passes the gate of a running event with time left ...
PassGate(s) ==
  /\ s \notin gated \cup (progress \ torn)
  /\ event.status = "RUNNING"
  /\ ~Expired(now)
  /\ gated' = gated \cup {s}
  /\ UNCHANGED <<now, rowVars, progress, torn, archive, closed, procVars, stale, histVars>>

\* ... and its transaction commits the completion, whatever the event is then;
\* it waits for a transaction that has deleted a row it writes.
CommitSolve(s) ==
  /\ s \in gated
  /\ create.pc = "commit" => s \notin create.doomed
  /\ gated' = gated \ {s}
  /\ progress' = progress \cup {s}
  /\ torn' = torn \ {s}
  /\ onTime' = IF event.status = "RUNNING"
               THEN [onTime EXCEPT ![event.match] = @ \cup {s}] ELSE onTime
  /\ missed' = IF create.pc = "delete" THEN missed \cup {s} ELSE missed
  /\ spared' = IF create.pc = "commit" THEN spared \cup {s} ELSE spared
  /\ UNCHANGED <<now, rowVars, archive, closed, procVars, stale, playVars, rewound>>

-----------------------------------------------------------------------------
\* The seed purges what is not an official challenge, table by table, each
\* statement a commit of its own: it may find nothing or not come so far, it may
\* break off between the two tables, and it may purge both.
PurgeCustom ==
  \/ UNCHANGED <<progress, torn, onTime>>
  \/ /\ torn' = torn \cup (progress \cap CustomSolves \cap TeamSolves)
     /\ onTime' = [n \in Matches |-> onTime[n] \ CustomSolves]
     /\ UNCHANGED progress
  \/ /\ progress' = progress \ CustomSolves
     /\ torn' = torn \ CustomSolves
     /\ onTime' = [n \in Matches |-> onTime[n] \ CustomSolves]

\* The server process restarts: what was in flight is lost, presence forgets
\* the ended matches, and the seed runs.  It resets the duration; and if there
\* is no Match 1 it inserts one and makes it the current match; then it purges.
Restart ==
  LET lost == matches[1].status = "ABSENT" IN
  /\ req' = [a \in Requests |-> IdleReq]
  /\ tick' = [t \in Tickers |-> IdleTick]
  /\ create' = IdleCreate
  /\ gated' = {}
  /\ closed' = {}
  /\ event' = [event EXCEPT !.dur = StandardDuration,
                            !.match = IF lost THEN 1 ELSE @]
  /\ matches' = IF lost THEN [matches EXCEPT ![1] = NewRow] ELSE matches
  /\ rewound' = (rewound \/ lost)
  /\ missed' = {} /\ spared' = {}
  /\ PurgeCustom
  /\ UNCHANGED <<now, archive, stale, playVars>>

Clock ==
  /\ now < MaxTime
  /\ now' = now + 1
  /\ UNCHANGED <<rowVars, workVars, procVars, stale, histVars>>

Next ==
  \/ \E a \in Requests : Transition(a)
  \/ \E t \in Tickers : Ticker(t)
  \/ Creation
  \/ \E n \in Matches : DeleteMatch(n)
  \/ ClearArchivedMatches
  \/ \E s \in Solves : PassGate(s) \/ CommitSolve(s)
  \/ Restart
  \/ Clock

Spec == Init /\ [][Next]_vars

-----------------------------------------------------------------------------
(* Properties *)

ReqRec == [pc : {"idle", "update", "sync", "archive"}, action : Actions, match : Matches,
           at : Nat, paused : Instant, fresh : BOOLEAN]
TickRec == [pc : {"idle", "commit", "sync"}, match : Matches, end : Nat, fresh : BOOLEAN]
CreateRec == [pc : {"idle", "begin", "delete", "commit"}, board : SUBSET SUBSET Solves,
              dur : Nat, match : Matches, repair : BOOLEAN, copied : SUBSET Solves,
              doomed : SUBSET Solves, fresh : BOOLEAN]
EventRec == [status : Status, startedAt : Instant, endedAt : Instant, pausedAt : Instant,
             pausedSecs : Nat, dur : Nat, match : Matches]
MatchRec == [status : Status \cup {"ABSENT"}, board : SUBSET SUBSET Solves]

\* The types of the variables.
TypeOK ==
  /\ now \in Nat
  /\ event \in EventRec
  /\ matches \in [Matches -> MatchRec]
  /\ progress \in SUBSET Solves
  /\ torn \in SUBSET Solves
  /\ archive \in [Matches -> [Solves -> Nat]]
  /\ closed \in SUBSET Matches
  /\ gated \in SUBSET Solves
  /\ req \in [Requests -> ReqRec]
  /\ tick \in [Tickers -> TickRec]
  /\ create \in CreateRec
  /\ stale \in BOOLEAN
  /\ rewound \in BOOLEAN
  /\ ran \in Int
  /\ since \in Nat
  /\ pauses \in Nat
  /\ onTime \in [Matches -> SUBSET Solves]
  /\ missed \in SUBSET Solves
  /\ spared \in SUBSET Solves

\* The row of event_settings makes sense as a whole: before the start it is
\* clean; from the start on it has a start instant and the standard duration;
\* it has a pause instant exactly while PAUSED and an end instant, not in the
\* future, exactly when ENDED; and the pauses it counts fit between the start
\* and the present (or the pause under way).  It holds as long as no handler
\* has written over a row it had not read.
RowSound ==
  ~stale =>
    /\ event.status = "NOT_STARTED" =>
         event = FreshEvent(event.match, event.dur)
    /\ event.status # "NOT_STARTED" =>
         /\ event.startedAt # None /\ event.startedAt <= now
         /\ event.dur = StandardDuration
         /\ event.pausedSecs * TicksPerSecond <=
              (IF event.status = "PAUSED" THEN event.pausedAt ELSE now) - event.startedAt
    /\ event.pausedAt # None <=> event.status = "PAUSED"
    /\ event.endedAt # None <=> event.status = "ENDED"
    /\ event.pausedAt <= now /\ event.endedAt <= now

\* Rounding never gives a match away: while it runs, the timer is less than
\* one second behind the time really played, and ahead of it by less than one
\* second for each pause.
TimerHonest ==
  ~stale /\ event.status = "RUNNING" =>
    LET played  == ran + (now - since)
        counted == TicksPerSecond *
                     ElapsedSeconds(event.startedAt, event.pausedSecs, now)
    IN /\ counted > played - TicksPerSecond
       /\ counted <= played + pauses * (TicksPerSecond - 1)

\* A match that has not ended accepts heartbeats: presence has not closed it.
PresenceOpen ==
  ~stale /\ event.status # "ENDED" => event.match \notin closed

\* The step that opens the next match deletes no completion of a team that is
\* not in the history, and leaves none live: no completion made while the match
\* was running, and no later one either, but for three windows that the code
\* leaves open.  A completion that commits after its row was read for the copy
\* is deleted without a copy (missed); one that commits after the deletion stays
\* live (spared); and a seed that broke off has left half a completion, whose row
\* for the copy is gone (torn).
NextMatchStartsClean ==
  [][ ~stale' /\ ~rewound' /\ event'.match # event.match =>
        LET n       == event.match
            deleted == progress \ progress'
        IN /\ \A s \in TeamSolves :
                s \in onTime[n] \/ s \in deleted \ (missed \cup torn) => archive'[n][s] >= 1
           /\ progress' \subseteq spared \ onTime[n] ]_vars

\* What the program promises of the event, as an abstract state machine.
Promise == INSTANCE Competition WITH
  phase <- event.status, match <- event.match, orderly <- ~stale /\ ~rewound

ImplementsCompetition == Promise!Spec

-----------------------------------------------------------------------------
(* Fairness: the clock advances, a ticker calls getEventStatus every three  *)
(* seconds, a handler that has begun runs to its end, and the server does   *)
(* not restart for ever.                                                    *)

FairSpec ==
  /\ Spec
  /\ WF_vars(Clock)
  /\ \A t \in Tickers : WF_vars(Ticker(t))
  /\ \A a \in Requests : WF_vars(UpdateEvent(a) \/ SyncMatch(a) \/ ArchiveEnd(a))
  /\ WF_vars(RefuseCreate \/ ReadEnded \/ DeleteProgress \/ CommitCreate \/ AbortCreate)
  /\ <>[][~Restart]_vars

\* A running match whose time is up stops running.
ExpiredMatchStops == (event.status = "RUNNING" /\ Expired(now)) ~> event.status # "RUNNING"

\* The lock of createNewMatch is always released.
LockReleased == create.pc # "idle" ~> create.pc = "idle"
=============================================================================
