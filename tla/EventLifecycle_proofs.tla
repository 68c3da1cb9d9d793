------------------------ MODULE EventLifecycle_proofs ------------------------
(***************************************************************************)
(* Theorems about EventLifecycle: for any number of administrators, timer  *)
(* readers, matches and pauses, and any granularity of the clock.          *)
(***************************************************************************)
EXTENDS EventLifecycle, TLAPS

-----------------------------------------------------------------------------
(* The arithmetic of the timer *)

LEMMA DivBounds ==
  ASSUME NEW x \in Int, NEW d \in Nat \ {0}
  PROVE  /\ x \div d \in Int
         /\ d * (x \div d) <= x
         /\ x < d * (x \div d) + d
  OBVIOUS

\* Rounding down to a second loses less than a second.
LEMMA SecondsBounds ==
  ASSUME NEW x \in Int
  PROVE  /\ Seconds(x) \in Int
         /\ TicksPerSecond * Seconds(x) <= x
         /\ x < TicksPerSecond * Seconds(x) + TicksPerSecond
  BY TicksAssumption, DivBounds DEF Seconds

LEMMA PausedSecondsType ==
  ASSUME NEW p \in Nat, NEW pausedAt \in Instant, NEW t \in Nat
  PROVE  PausedSeconds(p, pausedAt, t) \in Nat
<1>1. t - pausedAt \in Int
  BY DEF Instant, None
<1>2. Seconds(t - pausedAt) \in Int
  BY <1>1, SecondsBounds
<1> QED
  BY <1>2 DEF PausedSeconds, NonNeg

LEMMA ProductType ==
  ASSUME NEW m \in Nat, NEW n \in Nat
  PROVE  m * n \in Nat
  OBVIOUS

LEMMA NonNegQuotient ==
  ASSUME NEW q \in Int, NEW d \in Nat \ {0}, NEW x \in Nat, x < d * q + d
  PROVE  q >= 0
  OBVIOUS

LEMMA ProductMonotone ==
  ASSUME NEW m \in Int, NEW n \in Int, NEW d \in Nat, m <= n
  PROVE  m * d <= d * n
  OBVIOUS

LEMMA ScheduledEndType ==
  ASSUME NEW s \in Nat, NEW p \in Nat, NEW d \in Nat
  PROVE  ScheduledEnd(s, p, d) \in Nat
<1>1. (d + p) * TicksPerSecond \in Nat
  BY TicksAssumption, ProductType
<1> QED
  BY <1>1 DEF ScheduledEnd

-----------------------------------------------------------------------------
(* Types *)

\* A match is created after another one: its number is within the bound.
CreateInBounds == create.pc \in {"delete", "commit"} => create.match + 1 \in Matches

TypeInv == TypeOK /\ CreateInBounds

\* The type of the row that an UPDATE leaves.
LEMMA UpdatedType ==
  ASSUME event \in EventRec, NEW r \in ReqRec
  PROVE  Updated(r) \in EventRec
<1>1. StandardDuration \in Nat
  BY LifecycleAssumption
<1>2. Target(r.action) \in Status
  BY DEF ReqRec, Actions, Target, Status
<1> QED
  BY <1>1, <1>2 DEF Updated, EventRec, ReqRec, Instant, None

LEMMA FreshEventType ==
  ASSUME NEW n \in Matches, NEW d \in Nat
  PROVE  FreshEvent(n, d) \in EventRec
  BY DEF FreshEvent, EventRec, Status, Instant

\* Archiving more rows counts more copies and changes nothing else.
LEMMA CopiedType ==
  ASSUME archive \in [Matches -> [Solves -> Nat]], NEW n \in Matches, NEW rows
  PROVE  Copied(n, rows) \in [Matches -> [Solves -> Nat]]
  BY DEF Copied

\* Outdating a table of handlers only lowers the flag of each.
LEMMA OutdateReq ==
  ASSUME req \in [Requests -> ReqRec]
  PROVE  /\ Outdate(req) \in [Requests -> ReqRec]
         /\ \A a \in Requests : /\ Outdate(req)[a] = [req[a] EXCEPT !.fresh = FALSE]
                                /\ ~Outdate(req)[a].fresh
  BY DEF Outdate, ReqRec

LEMMA OutdateTick ==
  ASSUME tick \in [Tickers -> TickRec]
  PROVE  /\ Outdate(tick) \in [Tickers -> TickRec]
         /\ \A t \in Tickers : /\ Outdate(tick)[t] = [tick[t] EXCEPT !.fresh = FALSE]
                               /\ ~Outdate(tick)[t].fresh
  BY DEF Outdate, TickRec

LEMMA IdleTypes ==
  /\ IdleReq \in ReqRec
  /\ IdleTick \in TickRec
  /\ IdleCreate \in CreateRec
  /\ NoRow \in MatchRec
  /\ NewRow \in MatchRec
<1>1. 1 \in Matches /\ StandardDuration \in Nat
  BY LifecycleAssumption DEF Matches
<1> QED
  BY <1>1 DEF IdleReq, IdleTick, IdleCreate, NoRow, NewRow, ReqRec, TickRec, CreateRec,
              MatchRec, Actions, Status, Instant, None

\* Initially every variable has its type.
LEMMA TypeInit == Init => TypeInv
<1> SUFFICES ASSUME Init PROVE TypeInv
  OBVIOUS
<1>1. 1 \in Matches /\ StandardDuration \in Nat
  BY LifecycleAssumption DEF Matches
<1>2. event \in EventRec
  BY <1>1, FreshEventType DEF Init
<1>3. create \in CreateRec /\ CreateInBounds
  BY IdleTypes DEF Init, CreateInBounds, IdleCreate
<1>4. stale \in BOOLEAN /\ rewound \in BOOLEAN
  BY DEF Init
<1>5. /\ matches \in [Matches -> MatchRec] /\ archive \in [Matches -> [Solves -> Nat]]
      /\ req \in [Requests -> ReqRec] /\ tick \in [Tickers -> TickRec]
      /\ onTime \in [Matches -> SUBSET Solves]
  BY IdleTypes DEF Init
<1>6. /\ now \in Nat /\ ran \in Int /\ since \in Nat /\ pauses \in Nat
      /\ progress \in SUBSET Solves /\ torn \in SUBSET Solves
      /\ missed \in SUBSET Solves /\ spared \in SUBSET Solves /\ closed \in SUBSET Matches /\ gated \in SUBSET Solves
  BY DEF Init
<1> QED
  BY <1>2, <1>3, <1>4, <1>5, <1>6 DEF TypeInv, TypeOK

\* Every step keeps them.
LEMMA TypeStep == TypeInv /\ [Next]_vars => TypeInv'
<1> SUFFICES ASSUME TypeInv, [Next]_vars PROVE TypeInv'
  OBVIOUS
<1> USE DEF TypeInv, TypeOK, CreateInBounds, rowVars, workVars, procVars, playVars, lateVars,
            histVars
<1>1. ASSUME NEW a \in Requests, NEW action \in Actions, ReadEvent(a, action)
      PROVE  TypeInv'
  <2>1. event.match \in Matches /\ event.pausedSecs \in Nat /\ event.pausedAt \in Instant
    BY DEF EventRec
  <2>2. PausedSeconds(event.pausedSecs, event.pausedAt, now) \in Nat
    BY <2>1, PausedSecondsType
  <2> QED
    BY <1>1, <2>1, <2>2 DEF ReadEvent, ReqRec, Instant
<1>2. ASSUME NEW a \in Requests, UpdateEvent(a)
      PROVE  TypeInv'
  <2>1. req[a] \in ReqRec /\ req[a].at \in Nat /\ req[a].match \in Matches
        /\ req[a].action \in Actions
    BY DEF ReqRec
  <2>2. event' \in EventRec
    BY <1>2, <2>1, UpdatedType DEF UpdateEvent
  <2>3. req' \in [Requests -> ReqRec]
    BY <1>2, <2>1, OutdateReq, IdleTypes DEF UpdateEvent, ReqRec, IdleReq
  <2>4. tick' \in [Tickers -> TickRec]
    BY <1>2, OutdateTick DEF UpdateEvent
  <2>5. create' \in CreateRec /\ CreateInBounds'
    BY <1>2 DEF UpdateEvent, CreateRec
  <2>6. ran' \in Int /\ since' \in Nat /\ pauses' \in Nat
    BY <1>2, <2>1 DEF UpdateEvent, Play, NotPlaying, Actions
  <2>7. stale' \in BOOLEAN
    BY <1>2 DEF UpdateEvent
  <2> QED
    BY <1>2, <2>2, <2>3, <2>4, <2>5, <2>6, <2>7 DEF UpdateEvent
<1>3. ASSUME NEW a \in Requests, SyncMatch(a)
      PROVE  TypeInv'
  <2>1. req[a] \in ReqRec /\ Target(req[a].action) \in Status /\ req[a].match \in Matches
    BY DEF ReqRec, Actions, Status, Target
  <2>2. {progress} \in SUBSET SUBSET Solves
    OBVIOUS
  <2>3. matches' \in [Matches -> MatchRec]
    BY <1>3, <2>1, <2>2 DEF SyncMatch, MatchRec
  <2>4. req' \in [Requests -> ReqRec]
    BY <1>3, <2>1, IdleTypes DEF SyncMatch, ReqRec
  <2> QED
    BY <1>3, <2>3, <2>4 DEF SyncMatch
<1>4. ASSUME NEW a \in Requests, ArchiveEnd(a)
      PROVE  TypeInv'
  <2>1. req[a].match \in Matches
    BY DEF ReqRec
  <2> QED
    BY <1>4, <2>1, CopiedType, IdleTypes DEF ArchiveEnd
<1>5. ASSUME NEW a \in Requests, SyncFails(a)
      PROVE  TypeInv'
  BY <1>5, IdleTypes DEF SyncFails
<1>6. ASSUME NEW t \in Tickers, ReadExpired(t)
      PROVE  TypeInv'
  <2>1. /\ event.match \in Matches /\ event.pausedSecs \in Nat /\ event.dur \in Nat
        /\ event.startedAt \in Nat
    BY <1>6 DEF ReadExpired, Expired, EventRec, Instant
  <2>2. ScheduledEnd(event.startedAt, event.pausedSecs, event.dur) \in Nat
    BY <2>1, ScheduledEndType
  <2> QED
    BY <1>6, <2>1, <2>2 DEF ReadExpired, TickRec
<1>7. ASSUME NEW t \in Tickers, AutoEnd(t)
      PROVE  TypeInv'
  <2>1. event' \in EventRec
    BY <1>7 DEF AutoEnd, EventRec, TickRec, Status, Instant
  <2>2. tick' \in [Tickers -> TickRec]
    BY <1>7, OutdateTick, IdleTypes DEF AutoEnd, TickRec, EventRec, IdleTick
  <2>3. create' \in CreateRec /\ CreateInBounds'
    BY <1>7 DEF AutoEnd, CreateRec
  <2> QED
    BY <1>7, <2>1, <2>2, <2>3, OutdateReq DEF AutoEnd, NotPlaying
<1>8. ASSUME NEW t \in Tickers, AutoEndMissed(t)
      PROVE  TypeInv'
  BY <1>8, IdleTypes DEF AutoEndMissed
<1>9. ASSUME NEW t \in Tickers, AutoEndSync(t)
      PROVE  TypeInv'
  <2>1. tick[t].match \in Matches
    BY DEF TickRec
  <2>2. [status |-> "ENDED", board |-> {progress}] \in MatchRec
    BY DEF MatchRec, Status
  <2> QED
    BY <1>9, <2>1, <2>2, IdleTypes DEF AutoEndSync
<1>10. CASE Creation
  <2>1. CASE LockCreate
    <3>1. PICK d \in Durations, board \in {{}, {progress}} :
            create' = [IdleCreate EXCEPT !.pc = "begin", !.dur = d, !.board = board]
      BY <2>1 DEF LockCreate
    <3>2. d \in Nat /\ board \in SUBSET SUBSET Solves
      BY LifecycleAssumption
    <3>3. create' \in CreateRec /\ CreateInBounds'
      BY <3>1, <3>2, IdleTypes DEF CreateRec, IdleCreate
    <3> QED
      BY <2>1, <3>3 DEF LockCreate
  <2>2. CASE RefuseCreate \/ AbortCreate
    <3>1. create' = IdleCreate
      BY <2>2 DEF RefuseCreate, AbortCreate
    <3>2. CreateInBounds'
      BY <3>1 DEF IdleCreate
    <3> QED
      BY <2>2, <3>1, <3>2, IdleTypes DEF RefuseCreate, AbortCreate
  <2>3. CASE ReadEnded
    <3>1. event.match \in Matches /\ event.match + 1 \in Matches
      BY <2>3, LifecycleAssumption DEF ReadEnded, EventRec, Matches
    <3>2. create' \in CreateRec /\ CreateInBounds'
      BY <2>3, <3>1 DEF ReadEnded, CreateRec
    <3> QED
      BY <2>3, <3>2 DEF ReadEnded
  <2>4. CASE DeleteProgress
    BY <2>4 DEF DeleteProgress, CreateRec
  <2>5. CASE CommitCreate
    <3>1. create.match \in Matches /\ create.match + 1 \in Matches /\ create.dur \in Nat
          /\ create.board \in SUBSET SUBSET Solves
      BY <2>5 DEF CommitCreate, CreateRec
    <3>2. [status |-> "ENDED", board |-> create.board] \in MatchRec
      BY <3>1 DEF MatchRec, Status
    <3>3. matches' \in [Matches -> MatchRec]
      BY <2>5, <3>1, <3>2, IdleTypes DEF CommitCreate
    <3>4. event' \in EventRec
      BY <2>5, <3>1, FreshEventType DEF CommitCreate
    <3>5. archive' \in [Matches -> [Solves -> Nat]]
      BY <2>5, <3>1, CopiedType DEF CommitCreate
    <3>6. create' \in CreateRec /\ CreateInBounds'
      BY <2>5, IdleTypes DEF CommitCreate, IdleCreate
    <3>7. stale' \in BOOLEAN
      BY <2>5 DEF CommitCreate
    <3>8. ran' \in Int /\ since' \in Nat /\ pauses' \in Nat
      BY <2>5 DEF CommitCreate, NotPlaying
    <3>9. req' \in [Requests -> ReqRec] /\ tick' \in [Tickers -> TickRec]
      BY <2>5, OutdateReq, OutdateTick DEF CommitCreate
    <3> QED
      BY <2>5, <3>3, <3>4, <3>5, <3>6, <3>7, <3>8, <3>9 DEF CommitCreate
  <2> QED
    BY <1>10, <2>1, <2>2, <2>3, <2>4, <2>5 DEF Creation
<1>11. ASSUME NEW ns, Purge(ns)
       PROVE  TypeInv'
  BY <1>11, IdleTypes DEF Purge
<1>12. CASE ClearArchivedMatches \/ \E n \in Matches : DeleteMatch(n)
  BY <1>11, <1>12 DEF ClearArchivedMatches, DeleteMatch
<1>13. ASSUME NEW s \in Solves, PassGate(s) \/ CommitSolve(s)
       PROVE  TypeInv'
  <2>1. event.match \in Matches
    BY DEF EventRec
  <2> QED
    BY <1>13, <2>1 DEF PassGate, CommitSolve
<1>14. CASE Restart
  <2>1. 1 \in Matches /\ StandardDuration \in Nat
    BY LifecycleAssumption DEF Matches
  <2>2. event' \in EventRec
    BY <1>14, <2>1 DEF Restart, EventRec
  <2>3. create' \in CreateRec /\ CreateInBounds'
    BY <1>14, IdleTypes DEF Restart, IdleCreate
  <2>4. /\ progress' \in SUBSET Solves /\ torn' \in SUBSET Solves
        /\ onTime' \in [Matches -> SUBSET Solves]
    BY <1>14 DEF Restart, PurgeCustom
  <2> QED
    BY <1>14, <2>1, <2>2, <2>3, <2>4, IdleTypes DEF Restart
<1>15. CASE Clock
  BY <1>15 DEF Clock
<1>16. CASE UNCHANGED vars
  BY <1>16 DEF vars
<1> QED
  BY <1>1, <1>2, <1>3, <1>4, <1>5, <1>6, <1>7, <1>8, <1>9, <1>10, <1>12, <1>13, <1>14,
     <1>15, <1>16 DEF Next, Transition, Ticker

\* The type invariant: no handler, whatever it interleaves with, leaves a row,
\* an archive or a request in flight malformed.
THEOREM TypeCorrect == Spec => []TypeOK
<1>1. Spec => []TypeInv
  BY TypeInit, TypeStep, PTL DEF Spec
<1> QED
  BY <1>1, PTL DEF TypeInv
-----------------------------------------------------------------------------
(* The inductive invariant.  A handler in flight is fresh when nobody has      *)
(* written the event row since it read it; while no stale handler has written, *)
(* what a fresh one carries still agrees with the row.                         *)

\* The row without its arithmetic.
RowShape ==
  /\ event.status = "NOT_STARTED" => event = FreshEvent(event.match, event.dur)
  /\ event.status # "NOT_STARTED" =>
       /\ event.startedAt # None /\ event.startedAt <= now
       /\ event.dur = StandardDuration
  /\ event.pausedAt # None <=> event.status = "PAUSED"
  /\ event.endedAt # None <=> event.status = "ENDED"
  /\ event.pausedAt <= now /\ event.endedAt <= now

\* secs counts the ticks of n pauses, each rounded down to a second.
Counts(secs, ticks, n) ==
  /\ TicksPerSecond * secs <= ticks
  /\ ticks <= TicksPerSecond * secs + n * (TicksPerSecond - 1)

\* From the start on, what was not played was paused.
PlayShape ==
  /\ event.status = "RUNNING" =>
       /\ ran >= 0 /\ since <= now
       /\ Counts(event.pausedSecs, since - event.startedAt - ran, pauses)
  /\ event.status = "PAUSED" =>
       /\ ran >= 0
       /\ Counts(event.pausedSecs, event.pausedAt - event.startedAt - ran, pauses)
  /\ event.status = "ENDED" =>
       TicksPerSecond * event.pausedSecs <= now - event.startedAt

ReqKnows(r) ==
  r.pc = "update" /\ r.fresh =>
    /\ event.status \in From(r.action)
    /\ r.match = event.match
    /\ r.at <= now
    /\ event.status = "RUNNING" => since <= r.at
    /\ event.status = "PAUSED" => event.pausedAt <= r.at
    /\ r.paused = IF r.action = "RESUME"
                  THEN PausedSeconds(event.pausedSecs, event.pausedAt, r.at) ELSE None

TickKnows(k) ==
  k.pc = "commit" /\ k.fresh =>
    event.status = "RUNNING" /\ k.match = event.match /\ k.end <= now

CreateKnows ==
  create.pc \in {"delete", "commit"} /\ create.fresh =>
    event.status = "ENDED" /\ create.match = event.match

\* Match n has been played to its end.
Over(n) == n < event.match \/ (n = event.match /\ event.status = "ENDED")

ReqCloses(r)  == r.pc = "archive" \/ (r.pc = "sync" /\ r.action = "END")
TickCloses(k) == k.pc = "sync"

\* Presence closes, or is about to close, only matches that are over.
Closing ==
  /\ \A n \in closed : Over(n)
  /\ \A a \in Requests : ReqCloses(req[a]) => Over(req[a].match)
  /\ \A t \in Tickers : TickCloses(tick[t]) => Over(tick[t].match)

Coherent ==
  /\ RowShape
  /\ PlayShape
  /\ \A a \in Requests : ReqKnows(req[a])
  /\ \A t \in Tickers : TickKnows(tick[t])
  /\ CreateKnows
  /\ Closing

Inv == TypeInv /\ (~stale => Coherent)

\* The products that the bounds on the timer are made of are numbers.
LEMMA CountsType ==
  ASSUME NEW secs \in Nat, NEW n \in Nat
  PROVE  /\ TicksPerSecond * secs \in Nat
         /\ n * (TicksPerSecond - 1) \in Nat
         /\ TicksPerSecond \in Nat \ {0}
  BY TicksAssumption, ProductType

\* A pause more: its rounding costs at most a second less a tick.
LEMMA CountsPause ==
  ASSUME NEW secs \in Nat, NEW ticks \in Int, NEW n \in Nat,
         NEW from \in Nat, NEW to \in Nat, from <= to,
         Counts(secs, ticks, n)
  PROVE  Counts(PausedSeconds(secs, from, to), ticks + (to - from), n + 1)
<1> DEFINE q == Seconds(to - from)
<1>1. /\ q \in Int /\ TicksPerSecond * q <= to - from
      /\ to - from < TicksPerSecond * q + TicksPerSecond
  BY SecondsBounds
<1>2. TicksPerSecond \in Nat \ {0}
  BY TicksAssumption
<1>3. q >= 0
  BY <1>1, <1>2, NonNegQuotient
<1>4. PausedSeconds(secs, from, to) = secs + q
  BY <1>1, <1>3 DEF PausedSeconds, NonNeg
<1>5. TicksPerSecond * (secs + q) = TicksPerSecond * secs + TicksPerSecond * q
  BY <1>1, <1>2
<1>6. (n + 1) * (TicksPerSecond - 1) = n * (TicksPerSecond - 1) + (TicksPerSecond - 1)
  BY <1>2
<1>7. TicksPerSecond * secs \in Int /\ TicksPerSecond * q \in Int
      /\ n * (TicksPerSecond - 1) \in Int
  BY <1>1, <1>2
<1> HIDE DEF q
<1> QED
  BY <1>1, <1>2, <1>4, <1>5, <1>6, <1>7 DEF Counts

\* A timer at zero: the whole duration and the pauses have gone by.
LEMMA ExpiredEnd ==
  ASSUME event \in EventRec, now \in Nat, Expired(now),
         event.startedAt <= now, event.dur # 0
  PROVE  ScheduledEnd(event.startedAt, event.pausedSecs, event.dur) <= now
<1> DEFINE q == Seconds(now - event.startedAt)
           w == event.dur + event.pausedSecs
<1>1. /\ event.startedAt \in Nat /\ event.dur \in Nat /\ event.pausedSecs \in Nat
  BY DEF Expired, EventRec, Instant
<1>2. q \in Int /\ TicksPerSecond * q <= now - event.startedAt
  BY <1>1, SecondsBounds
<1>3. w <= q
  BY <1>1, <1>2 DEF Expired, RemainingSeconds, ElapsedSeconds, NonNeg
<1>4. w \in Int /\ TicksPerSecond \in Nat
  BY <1>1, TicksAssumption
<1>5. w * TicksPerSecond <= TicksPerSecond * q
  BY <1>2, <1>3, <1>4, ProductMonotone
<1>6. w * TicksPerSecond \in Int /\ TicksPerSecond * q \in Int
  BY <1>2, <1>4
<1> HIDE DEF q
<1>7. event.startedAt + w * TicksPerSecond <= now
  BY <1>1, <1>2, <1>5, <1>6
<1> QED
  BY <1>7 DEF ScheduledEnd

LEMMA InvInit == Init => Inv
<1> SUFFICES ASSUME Init PROVE Inv
  OBVIOUS
<1>1. TypeInv
  BY TypeInit
<1>2. RowShape /\ PlayShape
  BY DEF Init, RowShape, PlayShape, FreshEvent, None
<1>3. \A a \in Requests : ReqKnows(req[a]) /\ ~ReqCloses(req[a])
  BY DEF Init, ReqKnows, ReqCloses, IdleReq
<1>4. \A t \in Tickers : TickKnows(tick[t]) /\ ~TickCloses(tick[t])
  BY DEF Init, TickKnows, TickCloses, IdleTick
<1>5. CreateKnows
  BY DEF Init, CreateKnows, IdleCreate
<1>6. Closing
  BY <1>3, <1>4 DEF Init, Closing
<1> QED
  BY <1>1, <1>2, <1>3, <1>4, <1>5, <1>6 DEF Inv, Coherent

\* A step that leaves the row, the clock and the time played alone.
LEMMA SameRow ==
  ASSUME RowShape, PlayShape, UNCHANGED <<now, event, playVars>>
  PROVE  /\ RowShape' /\ PlayShape'
         /\ \A r : ReqKnows(r) => ReqKnows(r)'
         /\ \A k : TickKnows(k) => TickKnows(k)'
         /\ \A n : Over(n) => Over(n)'
  BY DEF RowShape, PlayShape, ReqKnows, TickKnows, Over, playVars, Counts
\* The pauses counted fit between the start and the present.
LEMMA PausesFit ==
  ASSUME event \in EventRec, now \in Nat, since \in Nat, ran \in Int, RowShape, PlayShape,
         event.status # "NOT_STARTED"
  PROVE  TicksPerSecond * event.pausedSecs <=
           (IF event.status = "PAUSED" THEN event.pausedAt ELSE now) - event.startedAt
<1>1. /\ event.pausedSecs \in Nat /\ event.startedAt \in Nat
      /\ event.status \in {"RUNNING", "PAUSED", "ENDED"} /\ event.pausedAt \in Int
  BY DEF EventRec, RowShape, Instant, Status, None
<1>2. TicksPerSecond * event.pausedSecs \in Int
  BY <1>1, TicksAssumption
<1> QED
  BY <1>1, <1>2 DEF PlayShape, Counts

\* The UPDATE of a fresh transition request.
LEMMA UpdateKeepsRow ==
  ASSUME TypeInv, Coherent, NEW a \in Requests, UpdateEvent(a), req[a].fresh
  PROVE  /\ RowShape' /\ PlayShape'
         /\ event.status # "ENDED"
         /\ event'.match = event.match
         /\ event'.status = "ENDED" <=> req[a].action = "END"
<1> DEFINE r == req[a]
<1>1. /\ r.pc = "update" /\ event' = Updated(r) /\ Play(r.action, r.at)
      /\ now' = now
  BY DEF UpdateEvent
<1>2. /\ r.action \in Actions /\ r.at \in Nat /\ r.paused \in Instant
  BY DEF TypeInv, TypeOK, ReqRec
<1>3. ReqKnows(r)
  BY DEF Coherent
<1>4. /\ event.status \in From(r.action) /\ r.at <= now
      /\ event.status = "RUNNING" => since <= r.at
      /\ event.status = "PAUSED" => event.pausedAt <= r.at
      /\ r.paused = IF r.action = "RESUME"
                    THEN PausedSeconds(event.pausedSecs, event.pausedAt, r.at) ELSE None
  BY <1>1, <1>3 DEF ReqKnows, UpdateEvent
<1>5. /\ event \in EventRec /\ now \in Nat /\ ran \in Int /\ since \in Nat /\ pauses \in Nat
  BY DEF TypeInv, TypeOK
<1>6. RowShape /\ PlayShape
  BY DEF Coherent
<1>7. event.pausedSecs \in Nat /\ event.startedAt \in Instant /\ event.pausedAt \in Instant
  BY <1>5 DEF EventRec
<1> HIDE DEF r
<1>8. CASE r.action = "START"
  <2>1. event.status = "NOT_STARTED"
    BY <1>4, <1>8 DEF From
  <2>2. /\ event' = [event EXCEPT !.status = "RUNNING", !.startedAt = r.at,
                       !.dur = StandardDuration, !.pausedSecs = 0, !.pausedAt = None,
                       !.endedAt = None]
    BY <1>1, <1>8 DEF Updated, Target
  <2>3. ran' = 0 /\ since' = r.at /\ pauses' = 0
    BY <1>1, <1>8 DEF Play
  <2>4. RowShape'
    BY <1>1, <1>2, <1>4, <1>5, <2>2 DEF RowShape, EventRec, None
  <2>5. PlayShape'
    BY <1>1, <1>2, <1>4, <1>5, <2>2, <2>3, TicksAssumption DEF PlayShape, EventRec, Counts
  <2> QED
    BY <1>5, <1>8, <2>1, <2>2, <2>4, <2>5 DEF EventRec, r
<1>9. CASE r.action = "PAUSE"
  <2>1. event.status = "RUNNING"
    BY <1>4, <1>9 DEF From
  <2>2. /\ event' = [event EXCEPT !.status = "PAUSED", !.pausedAt = r.at]
    BY <1>1, <1>4, <1>5, <1>9 DEF Updated, Target, EventRec
  <2>3. ran' = ran + (r.at - since) /\ since' = 0 /\ pauses' = pauses
    BY <1>1, <1>9 DEF Play
  <2>4. RowShape'
    BY <1>1, <1>2, <1>4, <1>5, <1>6, <2>1, <2>2 DEF RowShape, EventRec, None
  <2>5. r.at - event.startedAt - ran' = since - event.startedAt - ran
    BY <1>2, <1>5, <1>7, <2>3 DEF Instant, None
  <2>6. ran' >= 0
    BY <1>2, <1>4, <1>5, <1>6, <2>1, <2>3 DEF PlayShape
  <2>7. Counts(event.pausedSecs, since - event.startedAt - ran, pauses)
    BY <1>6, <2>1 DEF PlayShape
  <2>8. PlayShape'
    <3>1. Counts(event'.pausedSecs, event'.pausedAt - event'.startedAt - ran', pauses')
      BY <1>5, <2>2, <2>3, <2>5, <2>7 DEF EventRec
    <3>2. event'.status = "PAUSED"
      BY <1>5, <2>2 DEF EventRec
    <3> QED
      BY <2>6, <3>1, <3>2 DEF PlayShape, Counts
  <2> QED
    BY <1>5, <1>9, <2>1, <2>2, <2>4, <2>8 DEF EventRec, r
<1>10. CASE r.action = "RESUME"
  <2> DEFINE p == PausedSeconds(event.pausedSecs, event.pausedAt, r.at)
  <2>1. event.status = "PAUSED"
    BY <1>4, <1>10 DEF From
  <2>2. event.pausedAt \in Nat /\ event.pausedAt <= r.at
    BY <1>4, <1>5, <1>6, <2>1 DEF RowShape, EventRec, Instant
  <2>3. p \in Nat
    BY <1>2, <1>7, PausedSecondsType
  <2>4. event' = [event EXCEPT !.status = "RUNNING", !.pausedSecs = p, !.pausedAt = None]
    <3>1. r.paused # None
      BY <1>4, <1>10, <2>3 DEF None
    <3>2. r.paused = p
      BY <1>4, <1>10
    <3> HIDE DEF p
    <3> QED
      BY <1>1, <1>5, <1>10, <3>1, <3>2 DEF Updated, Target, EventRec
  <2>5. since' = r.at /\ pauses' = pauses + 1 /\ ran' = ran
    BY <1>1, <1>10 DEF Play
  <2> DEFINE idle == event.pausedAt - event.startedAt - ran
  <2>6. Counts(event.pausedSecs, idle, pauses) /\ ran >= 0
    BY <1>6, <2>1 DEF PlayShape
  <2>7. idle \in Int /\ idle + (r.at - event.pausedAt) = r.at - event.startedAt - ran
    BY <1>2, <1>5, <1>7, <2>2 DEF Instant, None
  <2>8. Counts(p, r.at - event.startedAt - ran, pauses + 1)
    <3> HIDE DEF idle
    <3>1. Counts(p, idle + (r.at - event.pausedAt), pauses + 1)
      BY <1>2, <1>5, <1>7, <2>2, <2>6, <2>7, CountsPause
    <3> QED
      BY <2>7, <3>1
  <2> HIDE DEF p
  <2>9. RowShape'
    BY <1>1, <1>2, <1>4, <1>5, <1>6, <2>1, <2>3, <2>4 DEF RowShape, EventRec, None
  <2>10. PlayShape'
    <3>1. Counts(event'.pausedSecs, since' - event'.startedAt - ran', pauses')
      BY <1>5, <2>4, <2>5, <2>8 DEF EventRec
    <3>2. event'.status = "RUNNING"
      BY <1>5, <2>4 DEF EventRec
    <3>3. ran' >= 0 /\ since' <= now'
      BY <1>1, <1>4, <2>5, <2>6
    <3> QED
      BY <3>1, <3>2, <3>3 DEF PlayShape, Counts
  <2> QED
    BY <1>5, <1>10, <2>1, <2>4, <2>9, <2>10 DEF EventRec, r
<1>11. CASE r.action = "END"
  <2>1. event.status \in {"RUNNING", "PAUSED"}
    BY <1>4, <1>11 DEF From
  <2>2. event' = [event EXCEPT !.status = "ENDED", !.pausedAt = None, !.endedAt = r.at]
    BY <1>1, <1>4, <1>5, <1>11 DEF Updated, Target, EventRec
  <2>3. RowShape'
    BY <1>1, <1>2, <1>4, <1>5, <1>6, <2>1, <2>2 DEF RowShape, EventRec, None
  <2>4. TicksPerSecond * event.pausedSecs <= now - event.startedAt
    <3>1. TicksPerSecond * event.pausedSecs <=
            (IF event.status = "PAUSED" THEN event.pausedAt ELSE now) - event.startedAt
      BY <1>5, <1>6, <2>1, PausesFit
    <3>2. event.pausedAt <= now
      BY <1>6 DEF RowShape
    <3>3. /\ TicksPerSecond * event.pausedSecs \in Int /\ event.pausedAt \in Int
          /\ event.startedAt \in Int
      BY <1>7, TicksAssumption DEF Instant, None
    <3> QED
      BY <1>5, <3>1, <3>2, <3>3
  <2>5. event'.status = "ENDED" /\ event'.pausedSecs = event.pausedSecs
        /\ event'.startedAt = event.startedAt
    BY <1>5, <2>2 DEF EventRec
  <2>6. PlayShape'
    BY <1>1, <2>4, <2>5 DEF PlayShape
  <2> QED
    BY <1>5, <1>11, <2>1, <2>2, <2>3, <2>6 DEF EventRec, r
<1> QED
  BY <1>2, <1>8, <1>9, <1>10, <1>11 DEF Actions
LEMMA AutoEndKeepsRow ==
  ASSUME TypeInv, Coherent, NEW t \in Tickers, AutoEnd(t), tick[t].fresh
  PROVE  /\ RowShape' /\ PlayShape'
         /\ event'.match = event.match /\ event'.status = "ENDED"
         /\ event.status = "RUNNING"
<1>1. /\ event.status = "RUNNING" /\ now' = now
      /\ event' = [event EXCEPT !.status = "ENDED", !.endedAt = tick[t].end]
  BY DEF AutoEnd
<1>2. tick[t].end \in Nat /\ tick[t].end <= now
  BY DEF AutoEnd, Coherent, TickKnows, TypeInv, TypeOK, TickRec
<1>3. event \in EventRec /\ now \in Nat /\ since \in Nat /\ ran \in Int
      /\ RowShape /\ PlayShape
  BY DEF TypeInv, TypeOK, Coherent
<1>4. RowShape'
  BY <1>1, <1>2, <1>3 DEF RowShape, EventRec, None
<1>5. TicksPerSecond * event.pausedSecs <= now - event.startedAt
  BY <1>1, <1>3, PausesFit
<1>6. event'.status = "ENDED" /\ event'.pausedSecs = event.pausedSecs
      /\ event'.startedAt = event.startedAt /\ event'.match = event.match
  BY <1>1, <1>3 DEF EventRec
<1>7. PlayShape'
  BY <1>1, <1>5, <1>6 DEF PlayShape
<1> QED
  BY <1>1, <1>4, <1>6, <1>7

LEMMA CommitKeepsRow ==
  ASSUME TypeInv, Coherent, CommitCreate, create.fresh
  PROVE  /\ RowShape' /\ PlayShape'
         /\ event'.match = event.match + 1 /\ event'.status = "NOT_STARTED"
         /\ event.status = "ENDED"
<1>1. event' = FreshEvent(create.match + 1, create.dur) /\ now' = now
      /\ create.match = event.match /\ event.status = "ENDED" /\ now \in Nat
  BY DEF CommitCreate, Coherent, CreateKnows, TypeInv, TypeOK
<1> QED
  BY <1>1 DEF FreshEvent, RowShape, PlayShape, None

LEMMA RestartKeepsRow ==
  ASSUME TypeInv, Coherent, Restart, TypeInv'
  PROVE  RowShape' /\ PlayShape'
<1>1. event \in EventRec /\ RowShape /\ PlayShape
  BY DEF TypeInv, TypeOK, Coherent
<1>2. PICK m :
        event' = [event EXCEPT !.dur = StandardDuration, !.match = m]
  BY <1>1 DEF Restart
<1>3. now' = now /\ ran' = ran /\ since' = since /\ pauses' = pauses
  BY DEF Restart, playVars
<1>4. /\ event'.status = event.status /\ event'.startedAt = event.startedAt
      /\ event'.endedAt = event.endedAt /\ event'.pausedAt = event.pausedAt
      /\ event'.pausedSecs = event.pausedSecs
      /\ event'.dur = StandardDuration /\ event'.match = m
  BY <1>1, <1>2 DEF EventRec
<1>5. ASSUME event.status = "NOT_STARTED" PROVE event' = FreshEvent(m, StandardDuration)
  <2>1. event = FreshEvent(event.match, event.dur)
    BY <1>1, <1>5 DEF RowShape
  <2>2. event.startedAt = None /\ event.endedAt = None /\ event.pausedAt = None
        /\ event.pausedSecs = 0
    BY <2>1 DEF FreshEvent
  <2>3. event' \in EventRec
    BY DEF TypeInv, TypeOK
  <2> QED
    BY <1>4, <1>5, <2>2, <2>3 DEF EventRec, FreshEvent
<1>6. RowShape'
  BY <1>1, <1>3, <1>4, <1>5 DEF RowShape
<1> QED
  BY <1>1, <1>3, <1>4, <1>6 DEF PlayShape, Counts

LEMMA ClockKeepsRow ==
  ASSUME TypeInv, Coherent, Clock
  PROVE  /\ RowShape' /\ PlayShape'
         /\ \A a \in Requests : ReqKnows(req[a])'
         /\ \A t \in Tickers : TickKnows(tick[t])'
<1>1. /\ event \in EventRec /\ now \in Nat /\ since \in Nat /\ ran \in Int
      /\ RowShape /\ PlayShape
      /\ \A a \in Requests : ReqKnows(req[a]) /\ req[a].at \in Nat
      /\ \A t \in Tickers : TickKnows(tick[t]) /\ tick[t].end \in Nat
  BY DEF TypeInv, TypeOK, Coherent, ReqRec, TickRec
<1>2. /\ now' = now + 1 /\ event' = event /\ UNCHANGED playVars
      /\ req' = req /\ tick' = tick
  BY DEF Clock, rowVars, histVars, procVars
<1>3. event.startedAt \in Int /\ event.pausedAt \in Int /\ event.endedAt \in Int
      /\ event.pausedSecs \in Nat
  BY <1>1 DEF EventRec, Instant, None
<1>4. RowShape'
  BY <1>1, <1>2, <1>3 DEF RowShape
<1>5. TicksPerSecond * event.pausedSecs \in Int
  BY <1>3, TicksAssumption
<1>6. PlayShape'
  BY <1>1, <1>2, <1>3, <1>5 DEF PlayShape, Counts, playVars
<1>7. \A a \in Requests : ReqKnows(req[a])'
  BY <1>1, <1>2 DEF ReqKnows, playVars
<1>8. \A t \in Tickers : TickKnows(tick[t])'
  BY <1>1, <1>2 DEF TickKnows
<1> QED
  BY <1>4, <1>6, <1>7, <1>8

\* Disorder is never forgotten.
LEMMA StaleStays == [Next]_vars /\ stale => stale'
<1> SUFFICES ASSUME [Next]_vars, stale PROVE stale'
  OBVIOUS
<1>1. ASSUME NEW a \in Requests, Transition(a) PROVE stale'
  BY <1>1 DEF Transition, ReadEvent, UpdateEvent, SyncMatch, ArchiveEnd, SyncFails
<1>2. ASSUME NEW t \in Tickers, Ticker(t) PROVE stale'
  BY <1>2 DEF Ticker, ReadExpired, AutoEnd, AutoEndMissed, AutoEndSync
<1>3. CASE Creation
  BY <1>3 DEF Creation, LockCreate, RefuseCreate, ReadEnded, DeleteProgress, CommitCreate,
              AbortCreate
<1>4. CASE ClearArchivedMatches \/ \E n \in Matches : DeleteMatch(n)
  BY <1>4 DEF ClearArchivedMatches, DeleteMatch, Purge
<1>5. ASSUME NEW s \in Solves, PassGate(s) \/ CommitSolve(s) PROVE stale'
  BY <1>5 DEF PassGate, CommitSolve
<1>6. CASE Restart \/ Clock \/ UNCHANGED vars
  BY <1>6 DEF Restart, Clock, vars
<1> QED
  BY <1>1, <1>2, <1>3, <1>4, <1>5, <1>6 DEF Next

\* The whole invariant is kept by every step that is not disorderly.
LEMMA CoherentStep ==
  ASSUME TypeInv, Coherent, [Next]_vars, ~stale'
  PROVE  Coherent'
<1> USE DEF Coherent
<1>0. /\ req \in [Requests -> ReqRec] /\ tick \in [Tickers -> TickRec]
      /\ event \in EventRec /\ now \in Nat /\ event.match \in Nat
  BY DEF TypeInv, TypeOK, EventRec, Matches
<1>1. ASSUME NEW a \in Requests, NEW action \in Actions, ReadEvent(a, action)
      PROVE  Coherent'
  <2>1. UNCHANGED <<now, event, playVars, tick, create, closed>>
    BY <1>1 DEF ReadEvent, rowVars, histVars, workVars
  <2>2. req'[a].pc = "update" /\ ReqKnows(req[a])'
    <3> DEFINE r == req'[a]
    <3>1. /\ event.status \in From(action) /\ r.action = action /\ r.match = event.match
          /\ r.at = now /\ r.pc = "update"
          /\ r.paused = IF action = "RESUME" /\ event.pausedAt # None
                        THEN PausedSeconds(event.pausedSecs, event.pausedAt, now) ELSE None
      BY <1>0, <1>1 DEF ReadEvent
    <3>2. action = "RESUME" => event.pausedAt # None
      BY <3>1 DEF From, RowShape
    <3>3. event.status = "RUNNING" => since <= now
      BY DEF PlayShape
    <3>4. event.pausedAt <= now
      BY DEF RowShape
    <3> HIDE DEF r
    <3>5. /\ event'.status \in From(r.action) /\ r.match = event'.match /\ r.at <= now'
          /\ event'.status = "RUNNING" => since' <= r.at
          /\ event'.status = "PAUSED" => event'.pausedAt <= r.at
          /\ r.paused = IF r.action = "RESUME"
                        THEN PausedSeconds(event'.pausedSecs, event'.pausedAt, r.at) ELSE None
      BY <1>0, <2>1, <3>1, <3>2, <3>3, <3>4 DEF playVars
    <3> QED
      BY <3>1, <3>5 DEF ReqKnows, r
  <2>3. \A b \in Requests \ {a} : req'[b] = req[b]
    BY <1>0, <1>1 DEF ReadEvent
  <2>4. \A b \in Requests : ReqKnows(req[b])'
    BY <2>1, <2>2, <2>3, SameRow
  <2>5. \A b \in Requests : ReqCloses(req[b])' => Over(req[b].match)'
    BY <2>1, <2>2, <2>3, SameRow DEF ReqCloses, Closing
  <2> QED
    BY <2>1, <2>4, <2>5, SameRow DEF CreateKnows, Closing, TickCloses
<1>2. ASSUME NEW a \in Requests, UpdateEvent(a)
      PROVE  Coherent'
  <2>1. req[a].fresh
    BY <1>2 DEF UpdateEvent
  <2>2. /\ RowShape' /\ PlayShape' /\ event.status # "ENDED" /\ event'.match = event.match
        /\ event'.status = "ENDED" <=> req[a].action = "END"
    BY <1>2, <2>1, UpdateKeepsRow
  <2>3. \A b \in Requests \ {a} :
          req'[b].pc = req[b].pc /\ req'[b].action = req[b].action
          /\ req'[b].match = req[b].match /\ ~req'[b].fresh
    <3>1. \A b \in Requests \ {a} : req'[b] = Outdate(req)[b]
      BY <1>0, <1>2, OutdateReq DEF UpdateEvent
    <3> QED
      BY ZenonT(40), <1>0, <3>1 DEF Outdate, ReqRec
  <2>4. req'[a] = [IdleReq EXCEPT !.pc = "sync", !.action = req[a].action,
                                  !.match = req[a].match]
    BY <1>0, <1>2, OutdateReq DEF UpdateEvent
  <2>5. req'[a].pc = "sync" /\ req'[a].action = req[a].action
        /\ req'[a].match = req[a].match
    BY <2>4 DEF IdleReq
  <2>6. req[a].match = event.match
    BY <1>2, <2>1 DEF ReqKnows, UpdateEvent
  <2>7. \A t \in Tickers :
          tick'[t].pc = tick[t].pc /\ tick'[t].match = tick[t].match /\ ~tick'[t].fresh
    BY <1>0, <1>2 DEF UpdateEvent, Outdate, TickRec
  <2>8. \A b \in Requests : ReqKnows(req[b])'
    BY <2>3, <2>5 DEF ReqKnows
  <2>9. \A t \in Tickers : TickKnows(tick[t])'
    BY <2>7 DEF TickKnows
  <2>10. CreateKnows'
    BY <1>2 DEF UpdateEvent, CreateKnows, TypeInv, TypeOK, CreateRec
  <2>11. \A n : Over(n) => Over(n)'
    BY <2>2 DEF Over
  <2>12. closed' = closed
    BY <1>2 DEF UpdateEvent, workVars
  <2>13. \A b \in Requests : ReqCloses(req[b])' => Over(req[b].match)'
    <3>1. ReqCloses(req[a])' => Over(req[a].match)'
      BY <2>2, <2>5, <2>6 DEF ReqCloses, Over
    <3>2. \A b \in Requests \ {a} : ReqCloses(req[b])' => ReqCloses(req[b])
      BY <2>3 DEF ReqCloses
    <3>3. \A b \in Requests \ {a} : Over(req[b].match) => Over(req[b].match)'
      BY <2>2, <2>3 DEF Over
    <3> QED
      BY <3>1, <3>2, <3>3 DEF Closing
  <2>14. \A t \in Tickers : TickCloses(tick[t])' => Over(tick[t].match)'
    BY <2>2, <2>7 DEF TickCloses, Closing, Over
  <2> QED
    BY <2>2, <2>8, <2>9, <2>10, <2>11, <2>12, <2>13, <2>14 DEF Closing
<1>3. ASSUME NEW a \in Requests, SyncMatch(a) \/ ArchiveEnd(a) \/ SyncFails(a)
      PROVE  Coherent'
  <2>1. /\ UNCHANGED <<now, event, playVars, tick, create>>
        /\ closed' \subseteq closed \cup {req[a].match}
        /\ closed' # closed => req[a].pc = "archive"
    BY <1>3 DEF SyncMatch, ArchiveEnd, SyncFails, workVars, rowVars, histVars
  <2>2. \A b \in Requests \ {a} : req'[b] = req[b]
    BY <1>0, <1>3 DEF SyncMatch, ArchiveEnd, SyncFails
  <2>3. \/ req'[a] = IdleReq
        \/ /\ req'[a] = [req[a] EXCEPT !.pc = "archive"]
           /\ req[a].pc = "sync" /\ req[a].action = "END"
    BY <1>0, <1>3 DEF SyncMatch, ArchiveEnd, SyncFails
  <2>4. \/ req'[a].pc = "idle"
        \/ req'[a].pc = "archive" /\ req'[a].match = req[a].match /\ ReqCloses(req[a])
    BY <1>0, <2>3 DEF IdleReq, ReqRec, ReqCloses
  <2>5. \A b \in Requests : ReqKnows(req[b])'
    BY <2>1, <2>2, <2>4, SameRow DEF ReqKnows
  <2>6. \A b \in Requests : ReqCloses(req[b])' => Over(req[b].match)'
    BY <2>1, <2>2, <2>4, SameRow DEF ReqCloses, Closing
  <2>7. \A n \in closed' : Over(n)'
    BY <2>1, SameRow DEF Closing, ReqCloses
  <2> QED
    BY <2>1, <2>5, <2>6, <2>7, SameRow DEF CreateKnows, Closing, TickCloses
<1>4. ASSUME NEW t \in Tickers, ReadExpired(t)
      PROVE  Coherent'
  <2>1. UNCHANGED <<now, event, playVars, req, create, closed>>
    BY <1>4 DEF ReadExpired, rowVars, histVars, workVars
  <2>2. \A u \in Tickers \ {t} : tick'[u] = tick[u]
    BY <1>0, <1>4 DEF ReadExpired
  <2>3. /\ tick'[t].pc = "commit" /\ tick'[t].match = event.match
        /\ tick'[t].end = ScheduledEnd(event.startedAt, event.pausedSecs, event.dur)
    BY <1>0, <1>4 DEF ReadExpired
  <2>4. event.status = "RUNNING" /\ Expired(now)
    BY <1>4 DEF ReadExpired, Expired
  <2>5. event.startedAt <= now /\ event.dur # 0
    BY <2>4, LifecycleAssumption DEF RowShape
  <2>6. tick'[t].end <= now
    BY <1>0, <2>3, <2>4, <2>5, ExpiredEnd
  <2>7. \A u \in Tickers : TickKnows(tick[u])'
    BY <2>1, <2>2, <2>3, <2>4, <2>6 DEF TickKnows
  <2>8. \A u \in Tickers : TickCloses(tick[u])' => Over(tick[u].match)'
    BY <2>1, <2>2, <2>3, SameRow DEF TickCloses, Closing
  <2> QED
    BY <2>1, <2>7, <2>8, SameRow DEF CreateKnows, Closing, ReqCloses
<1>5. ASSUME NEW t \in Tickers, AutoEnd(t)
      PROVE  Coherent'
  <2>1. tick[t].fresh
    BY <1>5 DEF AutoEnd
  <2>2. /\ RowShape' /\ PlayShape' /\ event'.match = event.match /\ event'.status = "ENDED"
        /\ event.status = "RUNNING"
    BY <1>5, <2>1, AutoEndKeepsRow
  <2>3. \A a \in Requests :
          req'[a].pc = req[a].pc /\ req'[a].action = req[a].action
          /\ req'[a].match = req[a].match /\ ~req'[a].fresh
    BY <1>0, <1>5 DEF AutoEnd, Outdate, ReqRec
  <2>4. \A u \in Tickers \ {t} :
          tick'[u].pc = tick[u].pc /\ tick'[u].match = tick[u].match /\ ~tick'[u].fresh
    <3>1. \A u \in Tickers \ {t} : tick'[u] = Outdate(tick)[u]
      BY <1>0, <1>5, OutdateTick DEF AutoEnd
    <3> QED
      BY ZenonT(40), <1>0, <3>1 DEF Outdate, TickRec
  <2>5. tick'[t].pc = "sync" /\ tick'[t].match = event.match
    <3>1. tick'[t] = [IdleTick EXCEPT !.pc = "sync", !.match = event.match]
      BY <1>0, <1>5, OutdateTick DEF AutoEnd
    <3> QED
      BY <3>1 DEF IdleTick
  <2>6. \A a \in Requests : ReqKnows(req[a])'
    BY <2>3 DEF ReqKnows
  <2>7. \A u \in Tickers : TickKnows(tick[u])'
    BY <2>4, <2>5 DEF TickKnows
  <2>8. CreateKnows'
    BY <1>5 DEF AutoEnd, CreateKnows, TypeInv, TypeOK, CreateRec
  <2>9. closed' = closed
    BY <1>5 DEF AutoEnd, workVars
  <2>10. \A a \in Requests : ReqCloses(req[a])' => Over(req[a].match)'
    BY <2>2, <2>3 DEF ReqCloses, Closing, Over
  <2>11. \A u \in Tickers : TickCloses(tick[u])' => Over(tick[u].match)'
    BY <2>2, <2>4, <2>5 DEF TickCloses, Closing, Over
  <2>12. \A n \in closed' : Over(n)'
    BY <2>2, <2>9 DEF Closing, Over
  <2> QED
    BY <2>2, <2>6, <2>7, <2>8, <2>10, <2>11, <2>12 DEF Closing
<1>6. ASSUME NEW t \in Tickers, AutoEndMissed(t) \/ AutoEndSync(t)
      PROVE  Coherent'
  <2>1. /\ UNCHANGED <<now, event, playVars, req, create>>
        /\ closed' \subseteq closed \cup {tick[t].match}
        /\ closed' # closed => tick[t].pc = "sync"
    BY <1>6 DEF AutoEndMissed, AutoEndSync, workVars, rowVars, histVars
  <2>2. \A u \in Tickers \ {t} : tick'[u] = tick[u]
    BY <1>0, <1>6 DEF AutoEndMissed, AutoEndSync
  <2>3. tick'[t].pc = "idle"
    BY <1>0, <1>6 DEF AutoEndMissed, AutoEndSync, IdleTick
  <2>4. \A u \in Tickers : TickKnows(tick[u])'
    BY <2>1, <2>2, <2>3, SameRow DEF TickKnows
  <2>5. \A u \in Tickers : TickCloses(tick[u])' => Over(tick[u].match)'
    BY <2>1, <2>2, <2>3, SameRow DEF TickCloses, Closing
  <2>6. \A n \in closed' : Over(n)'
    BY <2>1, SameRow DEF Closing, TickCloses
  <2> QED
    BY <2>1, <2>4, <2>5, <2>6, SameRow DEF CreateKnows, Closing, ReqCloses
<1>7. CASE LockCreate \/ RefuseCreate \/ ReadEnded \/ DeleteProgress \/ AbortCreate
  <2>1. UNCHANGED <<now, event, playVars, req, tick, closed>>
    BY <1>7 DEF LockCreate, RefuseCreate, ReadEnded, DeleteProgress, AbortCreate, rowVars,
                histVars, workVars
  <2>2. CreateKnows'
    <3>1. CASE LockCreate \/ RefuseCreate \/ AbortCreate
      <4>1. create'.pc \in {"idle", "begin"}
        <5>1. CASE LockCreate
          <6>1. \A d, b : [IdleCreate EXCEPT !.pc = "begin", !.dur = d, !.board = b].pc
                         = "begin"
            BY DEF IdleCreate
          <6> QED
            BY <5>1, <6>1 DEF LockCreate
        <5>2. CASE RefuseCreate \/ AbortCreate
          BY <5>2 DEF RefuseCreate, AbortCreate, IdleCreate
        <5> QED
          BY <3>1, <5>1, <5>2
      <4> QED
        BY <4>1 DEF CreateKnows
    <3>2. CASE ReadEnded
      BY <2>1, <3>2 DEF ReadEnded, CreateKnows, TypeInv, TypeOK, CreateRec
    <3>3. CASE DeleteProgress
      BY <2>1, <3>3 DEF DeleteProgress, CreateKnows, TypeInv, TypeOK, CreateRec
    <3> QED
      BY <1>7, <3>1, <3>2, <3>3
  <2> QED
    BY <2>1, <2>2, SameRow DEF Closing, ReqCloses, TickCloses
<1>8. CASE CommitCreate
  <2>1. create.fresh
    BY <1>8 DEF CommitCreate
  <2>2. /\ RowShape' /\ PlayShape' /\ event'.match = event.match + 1
    BY <1>8, <2>1, CommitKeepsRow
  <2>3. \A a \in Requests :
          req'[a].pc = req[a].pc /\ req'[a].action = req[a].action
          /\ req'[a].match = req[a].match /\ ~req'[a].fresh
    BY <1>0, <1>8 DEF CommitCreate, Outdate, ReqRec
  <2>4. \A t \in Tickers :
          tick'[t].pc = tick[t].pc /\ tick'[t].match = tick[t].match /\ ~tick'[t].fresh
    BY <1>0, <1>8 DEF CommitCreate, Outdate, TickRec
  <2>5. /\ \A a \in Requests : ReqKnows(req[a])'
        /\ \A t \in Tickers : TickKnows(tick[t])'
    BY <2>3, <2>4 DEF ReqKnows, TickKnows
  <2>6. CreateKnows'
    BY <1>8 DEF CommitCreate, CreateKnows, IdleCreate
  <2>7. closed' \subseteq closed
    BY <1>8 DEF CommitCreate
  <2>8. /\ \A n \in Int : Over(n) => n < event'.match
        /\ closed \subseteq Int
        /\ \A a \in Requests : req[a].match \in Int
        /\ \A t \in Tickers : tick[t].match \in Int
    BY <1>0, <2>2 DEF Over, TypeInv, TypeOK, ReqRec, TickRec, Matches
  <2>9. Closing'
    BY <2>3, <2>4, <2>7, <2>8 DEF Closing, ReqCloses, TickCloses, Over
  <2> QED
    BY <2>2, <2>5, <2>6, <2>9
<1>9. CASE ClearArchivedMatches \/ \E n \in Matches : DeleteMatch(n)
  <2>1. UNCHANGED <<now, event, playVars, req, tick, create, closed>>
    BY <1>9 DEF ClearArchivedMatches, DeleteMatch, Purge, histVars, procVars
  <2> QED
    BY <2>1, SameRow DEF CreateKnows, Closing, ReqCloses, TickCloses
<1>10. ASSUME NEW s \in Solves, PassGate(s) \/ CommitSolve(s)
       PROVE  Coherent'
  <2>1. UNCHANGED <<now, event, playVars, req, tick, create, closed>>
    BY <1>10 DEF PassGate, CommitSolve, rowVars, histVars, procVars
  <2> QED
    BY <2>1, SameRow DEF CreateKnows, Closing, ReqCloses, TickCloses
<1>11. CASE Restart
  <2>1. RowShape' /\ PlayShape'
    BY <1>11, TypeStep, RestartKeepsRow
  <2>2. /\ \A a \in Requests : req'[a].pc = "idle"
        /\ \A t \in Tickers : tick'[t].pc = "idle"
        /\ create'.pc = "idle"
        /\ closed' = {}
    BY <1>11 DEF Restart, IdleReq, IdleTick, IdleCreate
  <2> QED
    BY <2>1, <2>2 DEF ReqKnows, TickKnows, CreateKnows, Closing, ReqCloses, TickCloses
<1>12. CASE Clock
  <2>1. UNCHANGED <<event, req, tick, create, closed>>
    BY <1>12 DEF Clock, rowVars, procVars, workVars
  <2> QED
    BY <1>12, <2>1, ClockKeepsRow DEF CreateKnows, Closing, ReqCloses, TickCloses, Over
<1>13. CASE UNCHANGED vars
  <2>1. UNCHANGED <<now, event, playVars, req, tick, create, closed>>
    BY <1>13 DEF vars, rowVars, workVars, procVars, histVars
  <2> QED
    BY <2>1, SameRow DEF CreateKnows, Closing, ReqCloses, TickCloses
<1> QED
  BY <1>1, <1>2, <1>3, <1>4, <1>5, <1>6, <1>7, <1>8, <1>9, <1>10, <1>11, <1>12, <1>13
  DEF Next, Transition, Ticker, Creation

LEMMA InvStep == Inv /\ [Next]_vars => Inv'
<1> SUFFICES ASSUME Inv, [Next]_vars PROVE Inv'
  OBVIOUS
<1>1. TypeInv'
  BY TypeStep DEF Inv
<1>2. ASSUME ~stale' PROVE Coherent'
  <2>1. ~stale
    BY <1>2, StaleStays
  <2> QED
    BY <1>2, <2>1, CoherentStep DEF Inv
<1> QED
  BY <1>1, <1>2 DEF Inv

LEMMA InvAlways == Spec => []Inv
  BY InvInit, InvStep, PTL DEF Spec
-----------------------------------------------------------------------------
(* What the invariant gives *)

\* While every handler has written only what it had read, the row of
\* event_settings is sound: its instants, its duration and its pauses agree
\* with its status.
THEOREM RowIsSound == Spec => []RowSound
<1>1. Inv => RowSound
  <2> SUFFICES ASSUME Inv, ~stale PROVE RowSound
    BY DEF RowSound
  <2>1. event \in EventRec /\ now \in Nat /\ since \in Nat /\ ran \in Int
        /\ RowShape /\ PlayShape
    BY DEF Inv, TypeInv, TypeOK, Coherent
  <2>2. ASSUME event.status # "NOT_STARTED"
        PROVE  event.pausedSecs * TicksPerSecond <=
                 (IF event.status = "PAUSED" THEN event.pausedAt ELSE now) - event.startedAt
    <3>1. event.pausedSecs * TicksPerSecond = TicksPerSecond * event.pausedSecs
      BY <2>1, TicksAssumption DEF EventRec
    <3> QED
      BY <2>1, <2>2, <3>1, PausesFit
  <2> QED
    BY <2>1, <2>2 DEF RowShape, RowSound
<1> QED
  BY <1>1, InvAlways, PTL

\* A match that is not over has not been closed to heartbeats.
THEOREM PresenceStaysOpen == Spec => []PresenceOpen
<1>1. Inv => PresenceOpen
  BY DEF Inv, Coherent, Closing, Over, PresenceOpen, TypeInv, TypeOK, EventRec, Matches
<1> QED
  BY <1>1, InvAlways, PTL

\* The timer of a running match is off by less than a second, and a second for
\* each pause, whatever the length and the number of the pauses.
THEOREM TimerIsHonest == Spec => []TimerHonest
<1>1. Inv => TimerHonest
  <2> SUFFICES ASSUME Inv, ~stale, event.status = "RUNNING"
               PROVE  LET played  == ran + (now - since)
                          counted == TicksPerSecond *
                            ElapsedSeconds(event.startedAt, event.pausedSecs, now)
                      IN /\ counted > played - TicksPerSecond
                         /\ counted <= played + pauses * (TicksPerSecond - 1)
    BY DEF TimerHonest
  <2>1. /\ event \in EventRec /\ now \in Nat /\ since \in Nat /\ ran \in Int /\ pauses \in Nat
        /\ RowShape /\ PlayShape
    BY DEF Inv, TypeInv, TypeOK, Coherent
  <2>2. event.startedAt \in Nat /\ event.startedAt <= now /\ event.pausedSecs \in Nat
    BY <2>1 DEF RowShape, EventRec, Instant
  <2> DEFINE span == now - event.startedAt
             q == Seconds(span)
             p == event.pausedSecs
  <2>3. /\ q \in Int /\ TicksPerSecond * q <= span /\ span < TicksPerSecond * q + TicksPerSecond
    BY <2>1, <2>2, SecondsBounds
  <2>4. ran >= 0 /\ since <= now /\ Counts(p, since - event.startedAt - ran, pauses)
    BY <2>1 DEF PlayShape
  <2>5. /\ TicksPerSecond \in Nat \ {0} /\ TicksPerSecond * q \in Int
        /\ TicksPerSecond * p \in Int /\ pauses * (TicksPerSecond - 1) \in Nat
    <3>1. TicksPerSecond \in Nat \ {0} /\ pauses * (TicksPerSecond - 1) \in Nat
      BY <2>1, CountsType
    <3>2. TicksPerSecond * q \in Int /\ TicksPerSecond * p \in Int
      BY <3>1, <2>2, <2>3, CountsType
    <3> QED
      BY <3>1, <3>2
  <2>6. TicksPerSecond * (q - p) = TicksPerSecond * q - TicksPerSecond * p
    BY <2>2, <2>3, <2>5
  <2> DEFINE x == ElapsedSeconds(event.startedAt, event.pausedSecs, now)
  <2>7. x = IF q - p < 0 THEN 0 ELSE q - p
    BY DEF ElapsedSeconds, NonNeg
  <2>8. CASE q - p < 0
    <3>1. TicksPerSecond * x = 0
      BY <2>5, <2>7, <2>8
    <3>2. q + 1 <= p
      BY <2>2, <2>3, <2>8
    <3>3. TicksPerSecond * (q + 1) = TicksPerSecond * q + TicksPerSecond
      BY <2>3, <2>5
    <3>4. (q + 1) * TicksPerSecond <= TicksPerSecond * p
      BY <2>2, <2>3, <2>5, <3>2, ProductMonotone
    <3>5. TicksPerSecond * q + TicksPerSecond <= TicksPerSecond * p
      BY <2>3, <2>5, <3>3, <3>4
    <3> HIDE DEF q, x, p
    <3> QED
      BY <2>1, <2>2, <2>3, <2>4, <2>5, <3>1, <3>5 DEF Counts, p, x
  <2>9. CASE ~(q - p < 0)
    <3>1. TicksPerSecond * x = TicksPerSecond * q - TicksPerSecond * p
      BY <2>6, <2>7, <2>9
    <3> HIDE DEF q, x, p
    <3> QED
      BY <2>1, <2>2, <2>3, <2>4, <2>5, <3>1 DEF Counts, p, x
  <2> QED
    BY <2>8, <2>9
<1> QED
  BY <1>1, InvAlways, PTL

-----------------------------------------------------------------------------
(* The handlers implement the promised state machine *)

\* Every step of the handlers is a step of the state machine, or a stutter, or
\* the one that ends the order.
LEMMA PromiseStep == Inv /\ [Next]_vars => [Promise!Next]_(Promise!vars)
<1> SUFFICES ASSUME Inv, [Next]_vars PROVE [Promise!Next]_(Promise!vars)
  OBVIOUS
<1> DEFINE orderly == ~stale /\ ~rewound
           quiet == UNCHANGED <<event.status, event.match, orderly>>
<1>0. stale \in BOOLEAN /\ rewound \in BOOLEAN /\ stale' \in BOOLEAN /\ rewound' \in BOOLEAN
  BY TypeStep DEF Inv, TypeInv, TypeOK
<1>1. quiet => UNCHANGED Promise!vars
  BY DEF Promise!vars
<1>2. ~orderly' => Promise!Next
  BY DEF Promise!Next, Promise!Disorder
<1>3. ASSUME UNCHANGED <<event, stale, rewound>> PROVE quiet
  BY <1>3
<1>4. ASSUME NEW a \in Requests, UpdateEvent(a), orderly'
      PROVE  Promise!Next
  <2>1. /\ req[a].fresh /\ orderly /\ rewound' = rewound /\ stale' = stale
    BY <1>0, <1>4, StaleStays DEF UpdateEvent
  <2>2. event.status \in From(req[a].action) /\ req[a].action \in Actions
    BY <1>4, <2>1 DEF Inv, Coherent, ReqKnows, UpdateEvent, TypeInv, TypeOK, ReqRec
  <2>3. event'.status = Target(req[a].action) /\ event'.match = event.match
    BY <1>4 DEF UpdateEvent, Updated, Inv, TypeInv, TypeOK, EventRec
  <2> QED
    BY <2>1, <2>2, <2>3 DEF From, Target, Actions, Promise!Next, Promise!Start,
       Promise!Pause, Promise!Resume, Promise!End, Promise!Move
<1>5. ASSUME NEW t \in Tickers, AutoEnd(t), orderly'
      PROVE  Promise!Next
  <2>1. orderly /\ rewound' = rewound /\ stale' = stale
    BY <1>0, <1>5, StaleStays DEF AutoEnd
  <2>2. event.status = "RUNNING" /\ event'.status = "ENDED" /\ event'.match = event.match
    BY <1>5 DEF AutoEnd, Inv, TypeInv, TypeOK, EventRec
  <2> QED
    BY <2>1, <2>2 DEF Promise!Next, Promise!End, Promise!Move
<1>6. ASSUME CommitCreate, orderly'
      PROVE  Promise!Next
  <2>1. orderly /\ create.fresh /\ rewound' = rewound /\ stale' = stale
    BY <1>0, <1>6, StaleStays DEF CommitCreate
  <2>2. event.status = "ENDED" /\ event'.status = "NOT_STARTED"
        /\ event'.match = event.match + 1
    BY <1>6, <2>1, CommitKeepsRow DEF Inv
  <2> QED
    BY <2>1, <2>2 DEF Promise!Next, Promise!NextMatch
<1>7. ASSUME Restart, orderly'
      PROVE  quiet
  <2>1. orderly /\ ~(matches[1].status = "ABSENT")
    BY <1>0, <1>7 DEF Restart
  <2>2. event'.status = event.status /\ event'.match = event.match
    BY <1>7, <2>1 DEF Restart, Inv, TypeInv, TypeOK, EventRec
  <2> QED
    BY <1>7, <2>1, <2>2
<1>8. ASSUME NEW a \in Requests, Transition(a), ~UpdateEvent(a)
      PROVE  quiet
  BY <1>8 DEF Transition, ReadEvent, SyncMatch, ArchiveEnd, SyncFails, rowVars, histVars
<1>9. ASSUME NEW t \in Tickers, Ticker(t), ~AutoEnd(t)
      PROVE  quiet
  BY <1>9 DEF Ticker, ReadExpired, AutoEndMissed, AutoEndSync, rowVars, histVars
<1>10. ASSUME LockCreate \/ RefuseCreate \/ ReadEnded \/ DeleteProgress \/ AbortCreate
       PROVE  quiet
  <2>1. UNCHANGED <<event, stale, rewound>>
    BY <1>10 DEF LockCreate, RefuseCreate, ReadEnded, DeleteProgress, AbortCreate, rowVars,
                 histVars
  <2> QED
    BY <1>3, <2>1
<1>11. CASE ClearArchivedMatches \/ \E n \in Matches : DeleteMatch(n)
  BY <1>1, <1>11 DEF ClearArchivedMatches, DeleteMatch, Purge, histVars
<1>12. CASE \E s \in Solves : PassGate(s) \/ CommitSolve(s)
  BY <1>1, <1>12 DEF PassGate, CommitSolve, rowVars, histVars
<1>13. CASE Clock \/ UNCHANGED vars
  BY <1>1, <1>13 DEF Clock, vars, rowVars, histVars
<1> HIDE DEF quiet, orderly
<1> QED
  BY <1>1, <1>2, <1>4, <1>5, <1>6, <1>7, <1>8, <1>9, <1>10, <1>11, <1>12, <1>13
  DEF Next, Creation

\* The event implements the state machine written down in its handler, matches
\* numbered one by one, as long as no handler has written over a row it had not
\* read and no seed has rewound the match.
THEOREM EventImplementsCompetition == Spec => ImplementsCompetition
<1>1. Init => Promise!Init
  BY DEF Init, Promise!Init, FreshEvent
<1>2. Inv /\ [Next]_vars => [Promise!Next]_(Promise!vars)
  BY PromiseStep
<1> QED
  BY <1>1, <1>2, InvAlways, PTL DEF Spec, ImplementsCompetition, Promise!Spec
-----------------------------------------------------------------------------
(* What the next match inherits *)

\* A completion made while its match ran is live, and so is its row for the copy,
\* until the next match opens or the seed purges it; and the creation in flight,
\* having read an ended event, has seen it.
Live ==
  /\ \A n \in Matches : n > event.match => onTime[n] = {}
  /\ onTime[event.match] \subseteq progress \ torn
  /\ create.pc \in {"delete", "commit"} /\ create.fresh =>
       onTime[create.match] \subseteq create.copied
  /\ create.pc = "commit" /\ create.fresh => onTime[create.match] \subseteq create.doomed

LiveInv == ~stale /\ ~rewound => Live

\* Whatever is live, the creation in flight has copied it and will delete it, but
\* for what has committed since, and what has no row to copy.
Accounted ==
  /\ torn \subseteq progress
  /\ create.pc = "delete" =>
       progress \ torn \subseteq create.copied \cup missed
  /\ create.pc = "commit" =>
       /\ progress \subseteq create.doomed \cup spared
       /\ create.doomed \ torn \subseteq create.copied \cup missed

LEMMA LiveInit == Init => LiveInv
  BY LifecycleAssumption DEF Init, LiveInv, Live, FreshEvent, IdleCreate, Matches

LEMMA AccountedInit == Init => Accounted
  BY DEF Init, Accounted, IdleCreate

LEMMA AccountedStep == TypeInv /\ Accounted /\ [Next]_vars => Accounted'
<1> SUFFICES ASSUME TypeInv, Accounted, [Next]_vars PROVE Accounted'
  OBVIOUS
<1>0. create \in CreateRec
  BY DEF TypeInv, TypeOK
<1>1. ASSUME UNCHANGED <<progress, torn, missed, spared, create>> PROVE Accounted'
  BY <1>1 DEF Accounted
<1>2. ASSUME UNCHANGED <<progress, torn, missed, spared>>, create' = [create EXCEPT !.fresh = FALSE]
      PROVE  Accounted'
  BY <1>0, <1>2 DEF Accounted, CreateRec
<1>3. ASSUME create'.pc \notin {"delete", "commit"}, torn' \subseteq progress'
      PROVE  Accounted'
  BY <1>3 DEF Accounted
<1>4. IdleCreate.pc = "idle"
  BY DEF IdleCreate
<1> USE DEF rowVars, workVars, procVars, lateVars, histVars
<1>5. ASSUME NEW a \in Requests, Transition(a) PROVE Accounted'
  BY <1>1, <1>2, <1>5 DEF Transition, ReadEvent, UpdateEvent, SyncMatch, ArchiveEnd, SyncFails
<1>6. ASSUME NEW t \in Tickers, Ticker(t) PROVE Accounted'
  BY <1>1, <1>2, <1>6 DEF Ticker, ReadExpired, AutoEnd, AutoEndMissed, AutoEndSync
<1>7. CASE LockCreate \/ RefuseCreate \/ AbortCreate
  <2>1. torn' \subseteq progress'
    BY <1>7 DEF LockCreate, RefuseCreate, AbortCreate, Accounted
  <2>2. CASE LockCreate
    <3>1. \A d, b : [IdleCreate EXCEPT !.pc = "begin", !.dur = d, !.board = b].pc = "begin"
      BY DEF IdleCreate
    <3> QED
      BY <1>3, <2>1, <2>2, <3>1 DEF LockCreate
  <2>3. CASE RefuseCreate \/ AbortCreate
    BY <1>3, <1>4, <2>1, <2>3 DEF RefuseCreate, AbortCreate
  <2> QED
    BY <1>7, <2>2, <2>3
<1>8. CASE ReadEnded
  <2>1. create'.pc = "delete" /\ create'.copied = progress \ torn
    BY <1>0, <1>8 DEF ReadEnded, CreateRec
  <2> QED
    BY <1>8, <2>1 DEF ReadEnded, Accounted
<1>9. CASE DeleteProgress
  <2>1. /\ create.pc = "delete" /\ create'.pc = "commit"
        /\ create'.copied = create.copied /\ create'.doomed = progress
    BY <1>0, <1>9 DEF DeleteProgress, CreateRec
  <2> QED
    BY <1>9, <2>1 DEF DeleteProgress, Accounted
<1>10. CASE CommitCreate
  <2>1. torn' \subseteq progress' /\ create' = IdleCreate
    BY <1>10 DEF CommitCreate, Accounted
  <2> QED
    BY <1>3, <1>4, <2>1
<1>11. CASE ClearArchivedMatches \/ \E n \in Matches : DeleteMatch(n)
  BY <1>1, <1>11 DEF ClearArchivedMatches, DeleteMatch, Purge
<1>12. ASSUME NEW s \in Solves, PassGate(s) PROVE Accounted'
  BY <1>1, <1>12 DEF PassGate
<1>13. ASSUME NEW s \in Solves, CommitSolve(s) PROVE Accounted'
  <2>1. /\ create' = create /\ progress' = progress \cup {s} /\ torn' = torn \ {s}
        /\ missed' = IF create.pc = "delete" THEN missed \cup {s} ELSE missed
        /\ spared' = IF create.pc = "commit" THEN spared \cup {s} ELSE spared
        /\ create.pc = "commit" => s \notin create.doomed
    BY <1>13 DEF CommitSolve
  <2>2. CASE create.pc = "delete"
    BY <2>1, <2>2 DEF Accounted
  <2>3. CASE create.pc = "commit"
    BY <2>1, <2>3 DEF Accounted
  <2>4. CASE create.pc \notin {"delete", "commit"}
    BY <2>1, <2>4 DEF Accounted
  <2> QED
    BY <2>2, <2>3, <2>4
<1>14. CASE Restart
  <2>1. create' = IdleCreate /\ torn' \subseteq progress'
    BY <1>14 DEF Restart, PurgeCustom, Accounted
  <2> QED
    BY <1>3, <1>4, <2>1
<1>15. CASE Clock \/ UNCHANGED vars
  BY <1>1, <1>15 DEF Clock, vars
<1> QED
  BY <1>5, <1>6, <1>7, <1>8, <1>9, <1>10, <1>11, <1>12, <1>13, <1>14, <1>15
  DEF Next, Creation

LEMMA RewoundStays == [Next]_vars /\ rewound => rewound'
<1> SUFFICES ASSUME [Next]_vars, rewound PROVE rewound'
  OBVIOUS
<1> USE DEF histVars
<1>1. ASSUME NEW a \in Requests, Transition(a) PROVE rewound'
  BY <1>1 DEF Transition, ReadEvent, UpdateEvent, SyncMatch, ArchiveEnd, SyncFails
<1>2. ASSUME NEW t \in Tickers, Ticker(t) PROVE rewound'
  BY <1>2 DEF Ticker, ReadExpired, AutoEnd, AutoEndMissed, AutoEndSync
<1>3. CASE Creation
  BY <1>3 DEF Creation, LockCreate, RefuseCreate, ReadEnded, DeleteProgress, CommitCreate,
              AbortCreate
<1>4. CASE ClearArchivedMatches \/ \E n \in Matches : DeleteMatch(n)
  BY <1>4 DEF ClearArchivedMatches, DeleteMatch, Purge
<1>5. ASSUME NEW s \in Solves, PassGate(s) \/ CommitSolve(s) PROVE rewound'
  BY <1>5 DEF PassGate, CommitSolve
<1>6. CASE Restart \/ Clock \/ UNCHANGED vars
  BY <1>6 DEF Restart, Clock, vars
<1> QED
  BY <1>1, <1>2, <1>3, <1>4, <1>5, <1>6 DEF Next

\* What NextMatchStartsClean asks of a step that opens a match.
Clean ==
  LET n       == event.match
      deleted == progress \ progress'
  IN /\ \A s \in TeamSolves :
          s \in onTime[n] \/ s \in deleted \ (missed \cup torn) => archive'[n][s] >= 1
     /\ progress' \subseteq spared \ onTime[n]

\* The step that opens a match, with what it archives and deletes.
LEMMA OpenMatch ==
  ASSUME Inv, LiveInv, Accounted, CommitCreate, ~stale', ~rewound'
  PROVE  event'.match = event.match + 1 /\ Clean
<1>1. create.fresh /\ ~stale /\ ~rewound /\ create.pc = "commit"
  BY DEF CommitCreate
<1>2. event'.match = event.match + 1 /\ create.match = event.match
  BY <1>1, CommitKeepsRow DEF Inv, Coherent, CreateKnows
<1>3. onTime[event.match] \subseteq create.copied \cap create.doomed
  BY <1>1, <1>2 DEF LiveInv, Live
<1>4. archive' = Copied(event.match, create.copied) /\ progress' = progress \ create.doomed
  BY <1>2 DEF CommitCreate
<1>5. /\ archive \in [Matches -> [Solves -> Nat]] /\ event.match \in Matches
      /\ MaxCopies \in Nat \ {0} /\ TeamSolves \subseteq Solves
  BY LifecycleAssumption DEF Inv, TypeInv, TypeOK, EventRec
<1>6. ASSUME NEW s \in create.copied \cap TeamSolves
      PROVE  archive'[event.match][s] >= 1
  <2>1. s \in create.copied \cap TeamSolves /\ s \in Solves
    BY <1>5
  <2>2. archive'[event.match][s] = IF archive[event.match][s] < MaxCopies
                                   THEN archive[event.match][s] + 1
                                   ELSE archive[event.match][s]
    BY <1>4, <1>5, <2>1 DEF Copied
  <2> QED
    BY <1>5, <2>1, <2>2
<1>7. (progress \ progress') \ (missed \cup torn) \subseteq create.copied
  BY <1>1, <1>4 DEF Accounted
<1>8. progress' \subseteq spared \ onTime[event.match]
  BY <1>1, <1>3, <1>4 DEF Accounted
<1> QED
  BY <1>2, <1>3, <1>6, <1>7, <1>8 DEF Clean

LEMMA LiveStep == Inv /\ LiveInv /\ Accounted /\ [Next]_vars => LiveInv'
<1> SUFFICES ASSUME Inv, LiveInv, Accounted, [Next]_vars, ~stale', ~rewound'
             PROVE  Live'
  BY DEF LiveInv
<1>0. /\ ~stale /\ ~rewound /\ Live /\ Coherent
  BY StaleStays, RewoundStays DEF LiveInv, Inv
<1>1. /\ event \in EventRec /\ event.match \in Matches /\ create \in CreateRec
      /\ onTime \in [Matches -> SUBSET Solves]
  BY DEF Inv, TypeInv, TypeOK, EventRec
<1>2. ASSUME UNCHANGED <<event, progress, torn, create, onTime>> PROVE Live'
  BY <1>0, <1>2 DEF Live
<1>3. ASSUME event'.match = event.match, UNCHANGED <<progress, torn, onTime>>,
             ~create'.fresh \/ create'.pc \notin {"delete", "commit"}
      PROVE  Live'
  BY <1>0, <1>3 DEF Live
<1>4. ASSUME NEW a \in Requests, Transition(a) PROVE Live'
  <2>1. CASE UpdateEvent(a)
    <3>1. event'.match = event.match
      BY <1>1, <2>1 DEF UpdateEvent, Updated, EventRec
    <3>2. UNCHANGED <<progress, torn, onTime>> /\ ~create'.fresh
      BY <1>1, <2>1 DEF UpdateEvent, workVars, CreateRec
    <3> QED
      BY <1>3, <3>1, <3>2
  <2>2. CASE ~UpdateEvent(a)
    BY <1>2, <1>4, <2>2 DEF Transition, ReadEvent, SyncMatch, ArchiveEnd, SyncFails, rowVars,
       workVars, histVars
  <2> QED
    BY <2>1, <2>2
<1>5. ASSUME NEW t \in Tickers, Ticker(t) PROVE Live'
  <2>1. CASE AutoEnd(t)
    <3>1. event'.match = event.match /\ UNCHANGED <<progress, torn, onTime>> /\ ~create'.fresh
      BY <1>1, <2>1 DEF AutoEnd, EventRec, workVars, CreateRec
    <3> QED
      BY <1>3, <3>1
  <2>2. CASE ~AutoEnd(t)
    BY <1>2, <1>5, <2>2 DEF Ticker, ReadExpired, AutoEndMissed, AutoEndSync, rowVars, workVars,
       histVars
  <2> QED
    BY <2>1, <2>2
<1>6. CASE LockCreate \/ RefuseCreate \/ AbortCreate
  <2>1. event'.match = event.match /\ UNCHANGED <<progress, torn, onTime>>
    BY <1>6 DEF LockCreate, RefuseCreate, AbortCreate, rowVars, workVars, histVars
  <2>2. create'.pc \notin {"delete", "commit"}
    <3>1. \A d, b : [IdleCreate EXCEPT !.pc = "begin", !.dur = d, !.board = b].pc = "begin"
      BY DEF IdleCreate
    <3>2. CASE LockCreate
      BY <3>1, <3>2 DEF LockCreate
    <3>3. CASE RefuseCreate \/ AbortCreate
      BY <3>3 DEF RefuseCreate, AbortCreate, IdleCreate
    <3> QED
      BY <1>6, <3>2, <3>3
  <2> QED
    BY <1>3, <2>1, <2>2
<1>7. CASE ReadEnded
  <2>1. UNCHANGED <<event, progress, torn, onTime>>
    BY <1>7 DEF ReadEnded, rowVars, workVars, histVars
  <2>2. create'.pc = "delete" /\ create'.match = event.match /\ create'.copied = progress \ torn
    BY <1>1, <1>7 DEF ReadEnded, CreateRec
  <2> QED
    BY <1>0, <2>1, <2>2 DEF Live
<1>8. CASE DeleteProgress
  <2>1. UNCHANGED <<event, progress, torn, onTime>>
    BY <1>8 DEF DeleteProgress, rowVars, workVars, histVars
  <2>2. /\ create.pc = "delete" /\ create'.match = create.match
        /\ create'.copied = create.copied /\ create'.fresh = create.fresh
        /\ create'.doomed = progress
    BY <1>1, <1>8 DEF DeleteProgress, CreateRec
  <2>3. create.fresh => create.match = event.match
    BY <1>0, <2>2 DEF Coherent, CreateKnows
  <2> QED
    BY <1>0, <2>1, <2>2, <2>3 DEF Live
<1>9. CASE CommitCreate
  <2>1. event'.match = event.match + 1 /\ onTime' = onTime /\ create' = IdleCreate
    BY <1>9, OpenMatch DEF CommitCreate
  <2>2. event'.match \in Matches
    BY <1>9, TypeStep DEF Inv, TypeInv, TypeOK, EventRec
  <2>3. \A n \in Matches : n > event.match => onTime'[n] = {}
    BY <1>0, <2>1 DEF Live
  <2>4. onTime'[event'.match] = {}
    BY <1>1, <2>1, <2>2, <2>3 DEF Matches
  <2>5. create'.pc = "idle"
    BY <2>1 DEF IdleCreate
  <2>6. \A n \in Matches : n > event'.match => n > event.match
    BY <1>1, <2>1 DEF Matches
  <2> QED
    BY <2>3, <2>4, <2>5, <2>6 DEF Live
<1>10. CASE ClearArchivedMatches \/ \E n \in Matches : DeleteMatch(n)
  BY <1>2, <1>10 DEF ClearArchivedMatches, DeleteMatch, Purge, histVars, procVars
<1>11. ASSUME NEW s \in Solves, PassGate(s) PROVE Live'
  BY <1>2, <1>11 DEF PassGate, rowVars, histVars, procVars
<1>12. ASSUME NEW s \in Solves, CommitSolve(s) PROVE Live'
  <2>1. /\ event' = event /\ create' = create /\ progress' = progress \cup {s}
        /\ torn' = torn \ {s}
        /\ onTime' = IF event.status = "RUNNING"
                     THEN [onTime EXCEPT ![event.match] = @ \cup {s}] ELSE onTime
    BY <1>12 DEF CommitSolve, rowVars, procVars
  <2>2. CASE event.status = "RUNNING"
    <3>1. ~(create.pc \in {"delete", "commit"} /\ create.fresh)
      BY <1>0, <2>2 DEF Coherent, CreateKnows
    <3>2. /\ onTime'[event.match] = onTime[event.match] \cup {s}
          /\ \A n \in Matches : n # event.match => onTime'[n] = onTime[n]
      BY <1>1, <2>1, <2>2
    <3>3. \A n \in Matches : n > event.match => n # event.match
      BY <1>1 DEF Matches
    <3> QED
      BY <1>0, <2>1, <3>1, <3>2, <3>3 DEF Live
  <2>3. CASE event.status # "RUNNING"
    BY <1>0, <2>1, <2>3 DEF Live
  <2> QED
    BY <2>2, <2>3
<1>13. CASE Restart
  <2>1. ~(matches[1].status = "ABSENT")
    BY <1>13 DEF Restart
  <2>2. event'.match = event.match
    BY <1>1, <1>13, <2>1 DEF Restart, EventRec
  <2>3. create'.pc = "idle"
    BY <1>13 DEF Restart, IdleCreate
  <2>4. CASE UNCHANGED <<progress, torn, onTime>>
    BY <1>3, <2>2, <2>3, <2>4
  <2>5. CASE onTime' = [n \in Matches |-> onTime[n] \ CustomSolves]
    <3>1. \A n \in Matches : onTime'[n] = onTime[n] \ CustomSolves
      BY <2>5
    <3>2. onTime[event.match] \ CustomSolves \subseteq progress' \ torn'
      BY <1>0, <1>13 DEF Live, Restart, PurgeCustom
    <3> QED
      BY <1>0, <1>1, <2>2, <2>3, <3>1, <3>2 DEF Live
  <2> QED
    BY <1>13, <2>4, <2>5 DEF Restart, PurgeCustom
<1>14. CASE Clock \/ UNCHANGED vars
  BY <1>2, <1>14 DEF Clock, vars, rowVars, workVars, procVars, histVars
<1> QED
  BY <1>4, <1>5, <1>6, <1>7, <1>8, <1>9, <1>10, <1>11, <1>12, <1>13, <1>14
  DEF Next, Creation

\* The step that opens the next match deletes no team's completion without a
\* copy and leaves none live, but for those that commit between the copy and the
\* deletion, or after it, and those that a seed has purged in one table only.
THEOREM NextMatchIsClean == Spec => NextMatchStartsClean
<1> DEFINE Opens == ~stale' /\ ~rewound' /\ event'.match # event.match => Clean
<1>1. Inv /\ LiveInv /\ Accounted /\ [Next]_vars => [Opens]_vars
  <2> SUFFICES ASSUME Inv, LiveInv, Accounted, [Next]_vars, ~stale', ~rewound',
                      event'.match # event.match
               PROVE  CommitCreate
    BY OpenMatch
  <2>1. event \in EventRec
    BY DEF Inv, TypeInv, TypeOK
  <2>2. ASSUME NEW a \in Requests, Transition(a) PROVE FALSE
    BY <2>1, <2>2 DEF Transition, ReadEvent, UpdateEvent, Updated, SyncMatch, ArchiveEnd,
       SyncFails, rowVars, EventRec
  <2>3. ASSUME NEW t \in Tickers, Ticker(t) PROVE FALSE
    BY <2>1, <2>3 DEF Ticker, ReadExpired, AutoEnd, AutoEndMissed, AutoEndSync, rowVars,
       EventRec
  <2>4. ASSUME LockCreate \/ RefuseCreate \/ ReadEnded \/ DeleteProgress \/ AbortCreate
        PROVE  FALSE
    BY <2>4 DEF LockCreate, RefuseCreate, ReadEnded, DeleteProgress, AbortCreate, rowVars
  <2>5. ASSUME ClearArchivedMatches \/ \E n \in Matches : DeleteMatch(n) PROVE FALSE
    BY <2>5 DEF ClearArchivedMatches, DeleteMatch, Purge
  <2>6. ASSUME \E s \in Solves : PassGate(s) \/ CommitSolve(s) PROVE FALSE
    BY <2>6 DEF PassGate, CommitSolve, rowVars
  <2>7. ASSUME Restart PROVE FALSE
    BY <2>1, <2>7 DEF Restart, EventRec
  <2>8. ASSUME Clock \/ UNCHANGED vars PROVE FALSE
    BY <2>8 DEF Clock, vars, rowVars
  <2> QED
    BY <2>2, <2>3, <2>4, <2>5, <2>6, <2>7, <2>8 DEF Next, Creation
<1>2. Spec => [](LiveInv /\ Accounted)
  <2>1. Inv => TypeInv
    BY DEF Inv
  <2> QED
    BY <2>1, InvInit, InvStep, LiveInit, LiveStep, AccountedInit, AccountedStep, PTL DEF Spec
<1>3. Spec => [][Opens]_vars
  BY <1>1, <1>2, InvAlways, PTL DEF Spec
<1> QED
  BY <1>3 DEF NextMatchStartsClean, Clean
=============================================================================
