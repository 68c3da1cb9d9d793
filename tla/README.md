# BUG SNIPER: a verification of the competition server

The program is an Express server, and a React client, for a timed Java-debugging
competition. A competitor logs in, works through rounds of challenges, runs code in a
sandbox, and submits the flag that a correct run reveals; an administrator starts,
pauses, resumes and ends the event, opens rounds, and creates the next match. State is
in PostgreSQL (or PGlite, in the process, for development), in the memory of the one
web process, in a Redis queue read by workers, and in the pages. There are no locks in
the process: handlers are `async` functions that interleave at every `await`, and most
of them read a row, decide, and write it some awaits later. Pages ask by polling and are
told over streams, and answers come in any order. The modules follow that: **an action
is what happens between two awaits**, and a page's action is the handling of one answer.

Contents: 1. the system, 2. the modules, 3. the runs, 4. the theorems, 5. where the
program and its documentation disagree, 6. what is not modelled, 7. what is left to do.

## 1. The system

| Part | State | Operations | What is hard | What makes it correct |
|---|---|---|---|---|
| Event lifecycle (`adminRepository`, `eventService`, `eventRepository`) | the row of `event_settings` | START, PAUSE, RESUME, END; automatic end by whoever reads an expired timer | read–decide–write without a condition on the write; rounding of pauses | the documented state machine; a row that makes sense as a whole; an honest timer; an expired match stops |
| Matches and history (`adminRepository`, `seed.ts`) | `competition_matches`, `match_historical_challenges`, an in-process lock | `createNewMatch`, `deleteMatch`, `clearArchivedMatches`, archive on END, seed at every start | several statements, each with its own error handling; completions committed in between; restarts | no completion of a team is deleted without a copy, and none stays live, but in windows that are named; the lock is released; the active match stays on record |
| Progression (`progressionService`, `progressionRepository`) | recorded unlocks (two tables), overrides, thresholds, mode | `getTeamProgression`, administrative unlocks | what is shown is recorded later, and read back through two tables | what was shown open stays open; what is recorded was earned |
| Runs and completions (`challengeRoutes`, `completionService`, `teamChallengeRepository`) | `participant_challenges`, `team_challenges`, submissions | POST /run, `submitFlag` | a dozen awaits between gate and commit; two tables; other requests of the same competitor | completed exactly if a flag was accepted; no work on a locked challenge |
| Execution (`execution-worker/`) | the queue, the count of running jobs, the status of a submission | enqueue, process, stream to the browser | Redis or memory, crashes, missed events | a queued run finishes and its watcher hears of it; never more at once than allowed |
| Java sandbox (`sandbox.ts`, `jdkEnvironment.ts`) | workspaces, cached answers about the machine, two processes per execution | preflight at a start, compile, run, watchdog | what ends an execution first; processes that may not be killed | true verdicts; isolation in production; every execution ends |
| Sessions and activation (`authRoutes`, `teamRepository`, `adminRepository`) | `sessions`, `participants.status` | login, heartbeat, expiry, logout, (de)activation | check, then create | one session at most; none for the inactive |
| Presence (`presenceService`) | records by match and competitor | heartbeat, logout, expiry, match end and change | in memory; match numbers read earlier; told only sometimes | spectators are told the truth |
| Streams (`teamRealtimeService`) | connections in several maps, fallbacks | register, disconnect, prune, terminate | a dozen events end a connection | the maps agree; nobody gone counts as connected for ever |
| Leaderboard (`eventRepository`, `leaderboardRealtimeService`) | spectators' streams | broadcasts, fetches | asynchronous reads, then a broadcast | the last thing a spectator is told is the latest |
| Anti-cheat (`antiCheatService`, its panel) | throttles, fullscreen registry, incidents | record, review | debounced before the registry is updated; answers out of order | the gate follows the page; the panel is of one match |
| Rate limiters (`rateLimiter.ts`) | one window per key | one function each | boundaries of the window and the block | a bound on what is let through |
| CSV import (`csvImportService`) | `participants` | validate, then import | validation outside the transaction | what was announced is what is written; nothing that begins while a match runs changes the list |
| Catalogue and start (`migrator.ts`, `seed.ts`, `server.ts`) | ledger of migrations, rounds, challenges, flags, tests | migrate and seed at each start, edit challenges | no transaction around a start; administrators meanwhile | a ready server has all its challenges; a broken start can be repeated |
| Arena page (`ParticipantArena`, `authoritativeTimer`) | store of match and status, selected challenge, drafts | polls, loads, streams | answers out of order; answers to what has been left | what is on the screen belongs together; the page follows the event |
| Event director (`AdminEventControl`) | status and match shown, one dialogue | poll, act | what is shown is old; others act | no deletion of the active match; the page follows the event |

The parts meet in few places. The event gates runs and flags; the end of an event
closes presence and archives completions; a new match clears progress, unlocks and
overrides; a restart migrates and seeds again and empties everything that is in memory.

## 2. Modules

| Module | What it is | Extended by |
|---|---|---|
| `EventClock` | the arithmetic of the timer: instants in ticks, durations in whole seconds, each conversion rounded down | `EventLifecycle` |
| `Competition` | abstract specification of the event: the documented state machine, matches one after the other | refined by `EventLifecycle` |
| `EventLifecycle` | transitions, automatic end, creation and deletion of matches, restarts | `MCEventLifecycle` |
| `Arena` | progression, runs, flags, unlocks | `MCArena` |
| `Execution` | a run from POST /run to its result: two queues, a worker, streams | `MCExecution` |
| `Sandbox` | the start of a worker on a machine, and one execution with its processes | `MCExecution` |
| `Attendance`, `Presence`, `Connections` | ages; who is online; who has a stream | `Participation` |
| `Participation` | sessions, on top of the last three | `MCParticipation` |
| `Scoreboard` | a change of the leaderboard or the event on its way to a spectator | `MCScoreboard` |
| `Incidents` | incidents and the panel of an administrator | `MCScoreboard` |
| `Console` | the competitor's runs, flags and what is shown as solved | `MCScoreboard` |
| `Browser` | the page: match and status, selected challenge, drafts | `MCBrowser` |
| `RateLimiter`, `Gate` | limiters; the fullscreen gate behind one of them | `MCDoors` |
| `Roster` | competitors and imports of lists | `MCDoors` |
| `Catalogue` | how a server comes up and what it competes on | `MCDoors` |
| `Director` | the page that conducts the event | `MCDoors` |

`X_proofs` holds the theorems of X; `Displays_proofs` those of Scoreboard, Incidents and
Console, `Administration_proofs` those of Roster, Catalogue and Director, and
`Execution_proofs` and `Gate_proofs` those of Sandbox and RateLimiter, too.

**Composition.** `Participation` conjoins the calls that its handlers make into presence
and streams; `Gate` puts a limiter in front of its messages; `EventLifecycle` is composed
with `Competition` by a refinement mapping. Parts that share no state at all (those of
`MCExecution`, `MCScoreboard`, `MCDoors`) are explored in one run, one at a time, each
while the others are as they were at first: their interleavings would add states and no
behaviour of any of them.

### EventLifecycle

`event` is the row of `event_settings`, `matches` the rows of `competition_matches`,
`progress` the completions of the live match (`torn` those of which a purge has left
only the half that is not archived) and `archive` how many copies of each the history
has. `req`, `tick` and `create` are the handlers in flight, with what they have read:

| Code | Actions |
|---|---|
| `transitionEventStatus` | `ReadEvent` (read and validate), `UpdateEvent` (the unconditional UPDATE), `SyncMatch` (the row of the match), `ArchiveEnd` (archive, presence), `SyncFails` (any of these fails and is swallowed) |
| `getEventStatus`, `autoEndEvent` | `ReadExpired`, `AutoEnd` / `AutoEndMissed` (UPDATE … WHERE status = 'RUNNING'), `AutoEndSync` |
| `createNewMatch` | `LockCreate`, `RefuseCreate`, `ReadEnded`, `DeleteProgress`, `CommitCreate`, `AbortCreate`; the statements of the transaction are split where READ COMMITTED lets another commit be seen |
| `deleteMatch`, `clearArchivedMatches` | `DeleteMatch`, `ClearArchivedMatches` |
| `submitFlag`, seen from the event | `PassGate`, `CommitSolve` |
| a restart | `Restart`: in-flight handlers and memory are lost, the seed runs; `PurgeCustom` is what it does to the completions of challenges that are not official: nothing, the first of two tables, or both |

Other variables are history. The important one is `stale`: some handler has written the
event row although it had changed since that handler read it. The code does nothing
against this, so the row *can* then be anything its handlers write; the properties say
what holds before it. `missed` and `spared` are the completions that have committed since
the creation in flight read what it copies, and since it deleted: the former will be
deleted without a copy, the latter stay live in the next match.

### Arena

One action for each query or write of a request: `ReadConfig`, `ReadKnown`,
`ReadOverrides`, `ReadSolves` (`getTeamProgression`), `Record` / `RecordLegacy` (the
recording loop), `ReadRows`, then by kind of request `Answer`, `AllowRun` –
`CountAttempt` – `CountLegacyAttempt`, or `AllowSubmit` – `VerifyFlag` – `Recheck` –
`Commit`. `Grant`, `UnlockAll`, `SetThreshold`, `Reset` are the administrator;
`EventStep`, `NextMatch` and `Restart` (with `PurgeCustom`) the surroundings, with the
event reduced to its state machine. `Recheck` and `Commit` are separate because the
transaction reads without a lock and a pooled PostgreSQL runs it at READ COMMITTED. The
loop that opens one round after the other is stated in closed form (`Open`): a round is
open if it is the first, recorded or granted, or if the loop comes to it from such a
round over rounds that each have enough solved before them. `LeadsOneEarly` and other
definitions that no action uses are the slips that the properties have been tried
against. `straddled` is the counterpart of `stale`: a request that began in an earlier
match has written into this one, which nothing in the code prevents. `undone` holds the
completions that an administrator's unlock or the purge of a start may have undone since
a flag was last accepted for them.

### Execution and Sandbox

`status` is the column `execution_status` of a submission; `request`, `waiting`, `active`
and `memory` say where its job is, `task` how far `processJob` is with it, `slots` is
`inMemoryRunningCount`, `linked` the flag `isRedisAvailable`. A `deployment` is chosen
once: *development* (no Redis), *single* (Redis, and the worker in the web process) or
*split* (the two services of `production/`).

| Code | Actions |
|---|---|
| `handleRunExecution`, from the row on | `Insert`, then `Enqueue` (to Redis or to memory, as the flag says) or `EnqueueFails` |
| the flag: connection events, `checkHealth` | `Relink` |
| `processNextInMemoryJob`, and the `Worker` of BullMQ | `TakeFromMemory`, `TakeFromRedis` |
| `processJob` | `Mark`, `Record` / `RecordFails`, `Emit` (the event, and the `finally` that gives the slot back) |
| the stream | `Open` (the row is read), `Listen` (it is sent; the end, or the subscription), `Close`; `Heard` is what the event does to it |
| BullMQ (external) | `Ack`, `AckLost` (the lock expired in an outage), `Redeliver` (once; the second time the job is dropped) |
| a crash | `RestartWeb`, `RestartWorker` |
| `verifyExecutionEnvironmentOrThrow` | `StartWorker`; `CrashWorker`, `Reboot` (a machine that loses its /tmp) |
| `IsolatedJavaSandbox.execute` | `Refuse`, `NoRoom`, `Begin`, `SpawnFails`, then for javac and java `Write`, `Exit` (the program) and `OnData`, `Watchdog`, `OnClose` (the worker) |
| `cleanupStaleWorkspaces` | `Sweep` |

`hit` is history: the jobs that a crash or a failed statement has lost. The code repairs
none of them: their rows stay QUEUED or RUNNING. `missed` marks a stream that was
between the read of the row and its subscription when the event came. BullMQ is modelled
by what its documentation and this code's options give: delivery at least once,
`concurrency` jobs at a time, no second attempt for a job that failed. In Sandbox output
is counted in chunks, time is abstract (a watchdog may go off at any moment from its
start), and what a Java program computes is its own choice of exits and output.

### Participation, Presence, Connections

A login is named after the session it may create: `VerifyLogin`, `CleanUp`, `SweepOne`
(expired sessions, with their presence), `CountSessions`, `CreateSession`,
`RegisterFallback`. A request of a browser is `Arrive`, `Refresh` (or revival),
`ReadEvent`, `Record` (presence), `OpenStream`, `Disconnect`, `Logout`,
`TerminateSession`, `ReadLeaderboard`, `SweepRead`, as its kind asks for.
`DeactivateAccount`, `DisconnectDeactivated`, `Reactivate`; `StartEvent`, `EndEvent`,
`EndPresence`, `AnnounceMatch`, `CommitMatch`, `AbortMatch`; `PresenceTimer`, `SafetyNet`,
`Tick` and `Restart` are the surroundings. Whether credentials are right is a choice, a
"call" is a heartbeat that stops after the refresh of the session, a "beacon" the end of a
logout. Only the time since a heartbeat matters, up to the largest limit, and the limits
keep the order the code gives them (25 s, 30 s, 3 min). No code creates teams, so a
competitor's team is the competitor. A loop that awaits `handleClientDisconnect` is one
step: that function waits for nothing outside the process.

### Scoreboard, Incidents, Console

In `Scoreboard` the leaderboard and the event are counts of their changes. A job is an
announcement, a fetch or the first message of a stream: it reads the list (`ReadList`),
then the event (`ReadEvent`), then is sent or answered. `Accept` – `Show` are what the
page does with what comes, `Break`, `BreakForGood`, `Reconnect`, `Restart` the
connection. `AnnounceMatch` precedes `CommitMatch` (or `AbortMatch`): createNewMatch
announces inside its transaction. Any read of an announcement, or of the first message
of a stream, may fail (`NotifyFails`, `ReadFails`): that is logged and nothing is sent.
`lost` is history: the latest change whose announcement was swallowed so. `slip` is
history, too: an announcement came before that commit.

`Incidents` has `Insert` (filed under the match of the page, or the current one), the six
announcements of a new match as one message, and the panel with its pairs of requests
(`Poll`, `Refresh`; `ServeEvents`, `ServeSummary`; `TakeEvents`, `TakeSummary`).
`misled` is history: the panel has missed a match or was thrown back to an earlier one.

`Console` has one action for each answer: `ServeTask` – `ShowTask`, `RunCode` –
`RunEnqueued` / `RunRefused` – `PollRun` – `StopPolling` / `RunFallback`, `SubmitFlag` –
`AcceptFlag` – `FlagAccepted` / `FlagRefused`, `FetchProgression` – `HearProgression`,
`HearCompleted`. An answer about a flag marks whatever challenge is displayed:
`display.mixed` remembers that. What a run prints is left out.

### Browser

`route`, `parent` (the event the page gave the arena), `store`
(`AuthoritativeTimerStore`), `answer` (polls), `load` (loads of challenges, with the
generation and the abort signal as one flag), `active`, `details`, `editor`, `drafts`. A
handler and the rendering it causes are one step; `Hook` is what the timer's hook puts
back at each rendering. A match's id and number are one value, both messages of a new
match are one "reset", and the effect on a change of match (`ParticipantArena` 1012–1038)
is left out because it cannot fire while the page is mounted. Choosing a challenge,
automatically or by hand, is `LoadChallenge` of any challenge.

### Gate and RateLimiter

`ToggleFullscreen`, `StatusChanges`, `SelectChallenge`, `Reload`, `Relogin` are the page,
whose messages (`post`) go their own way: `Arrive`, `ArriveLate` or `Lose`. `Throttled`,
`Record`, `Register` are the server. A limiter is `Counted`, `CountedFromZero`, `Admit`,
`Refuse`; times are ages, and a count above the limit counts as the limit.

### Roster

`Upload`, `Compare` (validation), `BeginUnchecked` or `Begin` (the recheck of the
event), `FindRow`, `WriteRow` one competitor after the other, `CommitImport`,
`RollBack`. A SELECT takes no lock, an UPDATE or INSERT keeps its row until the end of
its transaction, and a deadlock ends in `RollBack`; `AuditFails` is the failure of the
audit row, which undoes the import and is reported as success. `CheckStatus` and
`SetActive` are the two halves of a deactivation or reactivation: the check, and awaits
later the transaction, which repeats nothing of it. `late` marks imports that had begun,
and changes that had been checked, when the match was started. Fields that no comparison
of the code looks at are left out.

### Catalogue

`Boot`, `Connect`, `ApplyMigration` and `RecordMigration` (two commits), `Migrated`,
`SeedRound`, `SeedAdmin`, `Purge`, then `SeedRow` – `SeedFlag` – `ClearTests` –
`SeedTest` for one official challenge after the other, `Seeded`, `BringUpWorker`.
`StepFails`, `ServerCrash`, `ServerRestart`, `Outage`, `Return`, `Reopen`, `Recover` go
wrong or make good; the administrator creates a challenge in three statements
(`CreateChallenge`, `CreateTests`, `CreateFlag`, `CreateFails`) and edits. A slug is named
after the challenge that has it first; `tried` says that a submission refers to it.

### Director

The server is atomic here, except for `clearArchivedMatches`, which reads the active match
and deletes the others later (`FinishClear`). The page polls the status and the match by
two requests (`SurveyAgain`, `ServeStatus`, `ServeMatch`), shows the former and then the
latter (`HearStatus`, `HearMatch`), and a deed is
pressed, asked for, moved on and obeyed or refused while `OthersAct`. The list of matches
is not kept: it may show any match.

## 3. The runs

| Run | Question, and what it shows |
|---|---|
| `event` | either one match in detail (two administrators, a reader, two pauses) or two matches with a completion, the archive, the deletion of history and restarts: `RowSound`, `TimerHonest`, `NextMatchStartsClean`, and the refinement `ImplementsCompetition`, until a handler is disorderly |
| `event_live` | liveness, stale writes included: `ExpiredMatchStops`, `LockReleased` |
| `arena_solves` | two runs or submissions at once of a competitor with a row in both tables, a round that a raised threshold locks again, two matches, restarts that purge: `SolvedIffAccepted`, `NoWorkAhead` |
| `arena_unlocks` | a competitor at work, a second request, an administrator, a raised threshold: `EarnedUnlocks` |
| `arena_overrides` | every kind of administrative unlock against one request: `UnlockedStays` |
| `execution` | three deployments, two jobs for one slot, a stream, outages, failing statements, crashes; and one execution on eight machines: `SlotsExact`, `NothingLost`, `StreamHears`, `Finishes`; `VerdictFaithful`, `ProductionIsolates`, `ExecutionEnds`, `ComesUp` |
| `sessions` | two sessions of one competitor with logins, expiry, late requests, logout, deactivation, restarts: `OneSession`, `NoneInactive` |
| `presence` | one session with a stream and two requests at once, timers, the end of the event, restarts: `ToldTruth`, `GhostsGo`, `OfflineFollows` |
| `scoreboard` | a spectator with a stream that may break, a fetch and two announcements at once: `Informed`, `Delivered`; the panel of incidents: `OneMatch`, `IncidentsShown`; the competitor's console: `ConsoleHonest`, `ConsoleSettles` |
| `browser` | a page that is loaded, waits, works on two challenges with two loads under way, and lives through a second match: `EditorMatches`, `NoWorkCarried` |
| `browser_live` | the same with polls that overtake each other and a stream that breaks at will: `FollowsEvent` |
| `doors` | the gate and two limiters: `GateHonest`, `Burst`; two imports and a deactivation: `Lockdown`, `Applied`; starts that break off while administrators edit: `Furnished`, `StartsAgain`; the director: `ActiveKept`, `DirectorFollows` |

**Bounds.** *event*: a second is two ticks and a match one second, so that pauses can be
shorter or longer than a second and straddle the end of the time; `MaxTime` = 4 ticks
leaves room for a match, two pauses and a late reader. Two requests are the least that
can overwrite each other; two matches are needed for what one leaves to the next, and
one completion, of a team and of a challenge that can be purged, for every window of the
archive. *arena*: one competitor is enough for everything but a grant to everyone, since
no query of one competitor reads rows of another; a challenge of the first round counts
towards the second, one of the second (`arena_solves`) is open as long as its threshold
is zero and locked, if that was not recorded, when it is raised to one. *execution*: two
jobs for one slot are the least that compete; executions do not meet, and output of one
chunk is at the limit, of two over it. The machines each lack one thing. *sessions*: two
sessions, with two handlers in flight (`TwoInFlight`). *presence*: one session, for
presence of different competitors never meets, and two requests of it. Limits of time
are the least numbers in the order of the code. *scoreboard*: two announcements are the
least that overtake each other, with one fetch, two changes, one message on the way and
one break; two pairs of requests and one incident in two matches; two challenges and two
runs. *browser*: two challenges and two loads, two matches, one message on the wire, two
answers to polls, two drafts; at most two of polls and loads at once (`OneElse`).
*doors*: limits of two and three in a window of two ticks, one limiter with a block; two
messages; two codes, two details, two imports and one change of a competitor; two
official challenges and one of an administrator, two migrations, one fault and two
edits; two polls of the director and two matches. What a bound cuts off is not lost for
the safety properties, which are all proved without bounds (section 4); for the liveness
properties these bounds are what is known.

**Constraints.** `Orderly` (event), `Straight` and `Simply` (arena), `NoSlip`
(scoreboard) and part of `Bounds` (doors) stop TLC after the first step that overwrites
an unread row, writes from an earlier match, announces early, or clears the history
while a match is created. The properties of these runs promise nothing from there on:
TLC still checks the step itself. `Simply` also takes a raised threshold, a purge and a
second match one at a time, and `Few` (doors) an import beside a change of a competitor,
or two imports that name two together; `Closely` and `Broadly` (event) are the two ways
of looking described above. `event_live`, `execution`, `presence` and `browser_live`
have no constraint.

**Fairness**, by what the code's scheduling gives:

- *Event.* The clock advances; the ticker of `server.ts` calls `getEventStatus` every three
  seconds; a handler that has begun continues, as every promise settles; the server does
  not restart for ever. No administrator is required to act.
- *Execution.* A request that has inserted its row goes on; workers take what waits (so
  Redis, when it is gone, comes back) and go through `processJob`; BullMQ looks for stalled
  jobs periodically; neither process crashes for ever. No stream need be opened, and the
  flag may come and go.
- *Sandbox.* The worker is started again (systemd), what the operating system and Node tell
  an execution is handled, the watchdog goes off; the machine is not rebooted for ever. No
  program is required to do anything.
- *Participation.* Time passes, the presence timer and the safety net (intervals) run,
  requests are served. No competitor is required to do anything.
- *Scoreboard, Incidents, Console.* Computations and fetches end; the EventSource
  reconnects; intervals ask; timers of runs go off. `Hear` of Incidents is strongly fair
  only because the requests that a message causes share a bounded number of slots with the
  polls.
- *Browser.* The interval asks, answers are given and heard, the transaction that opens a
  match ends. The stream is not required to connect: polling alone is enough.
- *Catalogue.* The process is started again and goes on while it can; the database of
  production returns. *Director.* The interval goes on, and what is asked is answered.

**Deadlock** is checked in all runs but `scoreboard`, where the bounds on changes and
failures let everything come to rest.

## 4. The theorems

Every safety invariant and every action property that a run checks is proved here for all
values of the constants, with the refinement of Competition. The assumptions are the named
ASSUMEs of the modules, which TLC evaluates in the runs; no other fact is assumed.

| Module | Theorems |
|---|---|
| `EventLifecycle_proofs` | `TypeCorrect`, `RowIsSound`, `PresenceStaysOpen`, `TimerIsHonest`, `EventImplementsCompetition`, `NextMatchIsClean` |
| `Execution_proofs` | `TypeCorrect`, `SlotsAreExact`, `NothingIsLost`, `StreamsHear`; of Sandbox `VerdictsAreFaithful`, `ProductionAlwaysIsolates` |
| `Arena_proofs` | `ArenaTypeCorrect`, `SolvedIsAccepted`, `UnlocksAreEarned`, `UnlocksAreKept`, `NobodyWorksAhead` |
| `Participation_proofs` | `TypeCorrect`, `StreamsInEveryMap` (the maps of the streams agree), `OneSessionAlways`, `NoSessionOfInactive`, `SpectatorsKnow` |
| `Browser_proofs` | `PageTypeCorrect`, `EditorAlwaysMatches`, `WorkIsNeverCarried` |
| `Displays_proofs` | `ConsoleIsHonest`, `PanelHasOneMatch`, `SpectatorIsInformed` |
| `Gate_proofs` | `TypeCorrect`, `GateStaysHonest`; of RateLimiter `BurstsAreBounded`, `PatienceAlwaysHelps` |
| `Administration_proofs` | `RosterTypeCorrect`, `ListIsLocked`, `ImportIsApplied`; `ReadyIsFurnished`; `ActiveMatchIsKept` |

Hardly any of these invariants is inductive: handlers write what they read earlier and
pages show what was asked for earlier. The strengthening is in each case a statement
about what is under way. Each was checked by TLC on the instance of its run before it
was proved.

*EventLifecycle.* `Inv == TypeInv /\ (~stale => Coherent)`. `Coherent` says of every
handler still *fresh* (the row has not changed since it read it) that what it holds
describes the present row (`ReqKnows`, `TickKnows`, `CreateKnows`), that the row has the
right shape for its status (`RowShape`), that the history of play agrees with it
(`PlayShape`), and that presence has closed only matches that ended (`Closing`). A write
by a fresh handler is then a legal transition, and a write by any other sets `stale`.
From this come the row's soundness, the refinement (each UPDATE is a step of
`Competition` or a `Disorder`, everything else a stutter) and, with arithmetic about
rounded quotients, the bounds of the timer. `NextMatchIsClean` needs `LiveInv`, too:
until the next match is committed a completion made in time is live, or among the rows
that the creation in flight has both copied and doomed. For all others there is
`Accounted`: what is live when the creation is about to delete has been copied, or was
missed, or is torn; and when it is about to commit, what is live is doomed or was
spared.

*Execution.* `PlaceInv` says job by job that the places exclude each other, that a
submission not made is nowhere and one not finished somewhere; once `processJob` has
emitted its event the result is in the row or lost, only a job of Redis is acknowledged,
and a process without a worker runs nothing. The count of slots is the cardinality of a
set that each step leaves alone, or gains or loses one job it has, or has not, for
certain; the type of `slots` rests on its being positive when one is given back.
`HearInv` says of a stream about to listen what `StreamHears` says of one that does.

*Sandbox.* `SandboxInv`: how much a process wrote decides whether it is over its limit,
and only that and the watchdog kill it (`Sane`); a workspace is there as long as its
execution has time (`Housed`), for cleaning looks for old ones; what the worker has found
out about the machine agrees with its preflight in production (`CachedRightly`) and does
not outlive it (`ForgottenWhenDown`).

*Arena.* `ArenaInv`. As long as no request of an earlier match has written
(`~straddled`), a request of this match has read and decided no more than holds now
(`Honest`): within a match nothing is taken back (lemma `Forward`), neither completions
nor unlocks nor grants, and no threshold falls below the least one of the match, so that
what was enough stays enough. The legacy table knows no unlock that the newer one does
not (`RecordedInOrder`): this is why a row recorded in the one never hides a row of the
other, which `UnlockedStays` rests on. A reset concerns only challenges that are
granted, which is why `NobodyWorksAhead` survives it. A purge ends every request, so
that none holds a row it has deleted, and a flag accepted again ends what `undone` says
of it.

*Participation.* Under the types and the agreement of the maps: a login about to create a
session is the only one of its competitor, who has no other active session, unless two
logins counted at once (`LoggingIn`); a request that logs out has a session (`Known`);
whoever has an active session or is logging in is active (`Admitted`). For presence, a
record says "was online" as long as its competitor is (`MarkedFor`), and whoever was told
to be online is, has lapsed since and will be found by the next check, or left in a way
that is never told (`ToldFor`): the last is the defect of section 5, a variable of its own
so that everything else can be shown.

*Browser.* The page stays in the match it was loaded in (`InItsMatch`), because each
rendering puts the store back; at most one answer will be shown, of the selected
challenge, and the editor is closed until it has come (`OneWanted`); a draft kept under
a match has the text of that match or, on a page not loaded since, of a later one, but
never later than that of the answer to come (`Drafted`).

*Console.* What is on its way is true when it arrives, since completions are not taken
back while the page is open; the display is judged only when no load is under way.
*Incidents.* The rows of each answer are of its match. *Scoreboard.* Nothing is newer
than what it was read from; every change is shown, on the wire, lost, or owed by a job
that is no fetch, for fetches fail and are not repeated (`AllComes`); a match announced
and not committed has an announcement that has not yet read the list, or one was lost
(`MatchPending`), and its status is shown, on the wire, lost or about to be read
(`MatchKnown`).

*Gate.* A message that says how the page is now says so rightly (`NowIsNow`), and what
has been heard is in the session's own entry (`HeardHere`). *RateLimiter.* A window is
at least as old as the silence, and a block is over with it (`QuietOf`): hence who keeps
still for longer than a window is let through. The attempts no older than the window of
the counter are counted, and those before it are at most its limit (`LetThrough`): hence
at most twice the limit in the length of one window, which is all that a fixed window
gives.

*Roster.* An import under way has to do with the rows of its list only, has written them
as the list says, and has left only those that were the same (`Sound`); whoever changes
a competitor while a match runs was checked before the start (`ChangesSound`).
*Catalogue.* A migration executed and not recorded is the next one to be executed; what
the seed is through with is in full, and what it is at is written in such an order that
whoever creates the same challenge meanwhile finds it taken (`FullSoFar`); no script is
at work behind a ready server, but on a new database (`StaysFurnished`). *Director.*
`clearArchivedMatches` deletes all but the match it read; when another is active by
then, a match was created meanwhile.

**Only model-checked.** The liveness properties: `ExpiredMatchStops`, `LockReleased`,
`Finishes`, `ExecutionEnds`, `ComesUp`, `GhostsGo`, `OfflineFollows`, `Delivered`,
`IncidentsShown`, `ConsoleSettles`, `FollowsEvent`, `StartsAgain`, `DirectorFollows`. The
proof system has no ENABLED, on which weak fairness rests.

**The histories in the statements.** Several properties hold "unless": `stale`,
`straddled`, `undone`, `torn`, `missed` and `spared` (event), `slip`, `lost`, `misled`,
`early`, `overlap`, `straddle`, `unsaid`, `late`, `touched`, `raced`, `wiped`,
`display.mixed`, `hit`, `missed` (streams). Each names one interleaving or failure that
the code does nothing against. A property with such an excuse does not show that the
window is harmless: it shows that there is no other, which is why the hazards of
PROJECT.json that *are* such a window say so in a note.

## 5. Where the program and its documentation disagree

PROJECT.json lists these with the lines that claim the contrary.

- The event row is written without a condition on what was read: a PAUSE that read RUNNING
  overwrites the automatic end, and the ended match can be resumed.
- Only `team_challenges` is archived, both tables are emptied: a competitor without a row
  in `teams` loses every completion from the history.
- Two submissions of one flag can both be answered FLAG_ACCEPTED; the re-check takes no
  lock. The event's state is checked only at the start of a submission.
- While Redis is away a job goes to the memory of the web process, in production too, where
  that process has no worker.
- The preflight asks for the isolation tools, not for the probe to succeed: the worker
  starts and runs programs without isolation.
- `recordLogout` and `expireSession` are silent when the last heartbeat is more than 30 s
  old: a competitor who logs out before the next check is shown online until something else
  is broadcast.
- An import looks a row up by its code only: the announced update of a known e-mail's code
  becomes a second competitor.
- `clearArchivedMatches` reads the current match without a lock and can delete the next one.
- A migration and its entry in the ledger are two commits.
- A limiter of N per minute lets 2N through around the end of a window.
- The hook of the timer puts a page back into the match it was loaded in.
- The purge of unofficial challenges fails for good once one of them has been tried; before
  it fails it has deleted their completions, table by table, though the flags stay accepted.
- A failed audit row rolls an import back that is reported as done.
- An announcement of the leaderboard one of whose reads fails is dropped; the page does not
  ask by itself.
- The answer about earlier submissions is not compared with the challenge displayed, and
  puts the flag of another one into the input.

Met while modelling, without a claim to the contrary: a completion that commits while
the next match is created is deleted without a copy or stays live in it; a deactivation
or reactivation checked before the start takes effect after it; an announcement of an
older leaderboard can come after a newer one, and stays; a new match is announced before
it is committed; EXIT, ENTER, EXIT within the debounce loses the last; a competitor's
new session inherits the fullscreen verdict of the old; an answer about a flag marks
whichever challenge is displayed; `validateRoundThreshold` is never called; presence
messages cannot match the rows of a public leaderboard, whose ids are stripped; the
`match.reset` listener of the scoreboard has no sender.

## 6. What is not modelled

Audit rows, log output and wording; timestamps of match rows; activation and
deactivation of rounds (challenges are taken to be active in Arena); edits of the
event's title and duration apart from `createNewMatch`; the order of the rows of a
leaderboard; streams and sessions of administrators; presence in earlier matches; the
parsing and field rules of a CSV file (one verdict per row); the texts and programs of
the challenges and the validation of outputs (inputs); filters, reviews' forms, lists
and exports of the administration pages; the purge of demo competitors; input rules,
error formats, health checks without state; deployment files beyond the three
deployments of Execution. Of the execution pipeline: the order of a queue, the graceful
stop of a worker, and a worker declared stalled while it still runs. Database failures
are modelled where the code swallows or half-handles them, and as an abandoned request
where it does not.

## 7. What is left to do

- An abstract specification of the execution pipeline (a submission is queued, runs, is
  done) and of a flag (accepted once per competitor and challenge, but for the known race),
  with Execution and Arena shown to implement them.
- The lemmas about ages and about functions updated at one point, which several proof
  modules state for their own records, in one place.
- Streams of administrators, and presence of earlier matches.
