----------------------------- MODULE Scoreboard ------------------------------
(***************************************************************************)
(* The live scoreboard: how a change of the leaderboard or of the event    *)
(* reaches a spectator.  The server computes what it sends with one read   *)
(* after the other and without waiting for the computations before; the    *)
(* spectator has a stream that breaks and fetches whose answers come in    *)
(* any order.                                                              *)
(*                                                                         *)
(* What the leaderboard query returns and what the event row says are      *)
(* abstracted to how often they have changed.                              *)
(***************************************************************************)
EXTENDS Naturals, Sequences

CONSTANTS
  Notifies, \* announcements that the server can be working on at once
  Fetches,  \* requests that the spectator can have under way
  MaxBoard, \* changes of the leaderboard ...
  MaxEvent, \* ... and of the event that are looked at
  MaxWire,  \* messages on the way at once
  MaxBreaks \* broken connections and restarts

ASSUME ScoreboardAssumption ==
  /\ MaxBoard \in Nat /\ MaxEvent \in Nat /\ MaxWire \in Nat /\ MaxBreaks \in Nat
  /\ MaxWire > 0
  /\ Notifies \cap Fetches = {} /\ "first" \notin Notifies \cup Fetches

VARIABLES
  board,   \* the leaderboard, as the query would return it now
  event,   \* the event row
  opening, \* createNewMatch has announced the match and not committed it
  job,     \* what each computation is about to do, and has read
  stream,  \* the EventSource of the spectator
  clients, \* the stream is in clients of the service
  wire,    \* messages on the stream
  told,    \* history: the latest of both that the spectator has been shown
  lost,    \* history: the latest changes whose announcement was swallowed
  slip,    \* history: an announcement came before the commit
  breaks   \* history: what has broken, up to MaxBreaks

vars == <<board, event, opening, job, stream, clients, wire, told, lost, slip, breaks>>

\* "first" computes the first message of a stream.
Jobs == Notifies \cup Fetches \cup {"first"}

Idle == [pc |-> "idle", list |-> 0, event |-> 0]
Latest(a, b) == IF a > b THEN a ELSE b

\* A notification takes any place that is free.
Free(j) ==
  /\ job[j] = Idle
  /\ j \in Notifies => j = CHOOSE n \in Notifies : job[n] = Idle

\* A job begins. list and event are 0 until they are read.
Start(j, pc) ==
  /\ Free(j)
  /\ job' = [job EXCEPT ![j] = [Idle EXCEPT !.pc = pc]]

\* The page is opened: it fetches, and connects.
Init ==
  /\ board = 0 /\ event = 0 /\ opening = FALSE
  /\ \E f \in Fetches :
       job = [j \in Jobs |-> IF j = f THEN [Idle EXCEPT !.pc = "event"] ELSE Idle]
  /\ stream = "opening" /\ clients = FALSE /\ wire = <<>>
  /\ told = [list |-> 0, event |-> 0] /\ lost = [list |-> 0, event |-> 0]
  /\ slip = FALSE /\ breaks = 0

\* broadcast: to the stream, if it is in clients.
Room == Len(wire) < MaxWire
Broadcast(m) == wire' = IF clients THEN Append(wire, m) ELSE wire

-----------------------------------------------------------------------------
(* Changes, and their announcements *)

\* Of the changes of the leaderboard, or of the event, with the one that a match
\* being created will make.
Coming(n) == n + (IF opening THEN 1 ELSE 0)

MoreBoards == Coming(board) < MaxBoard

\* notifyLeaderboardUpdated with what the transaction knew of the leaderboard.
CompleteReadFirst(j) ==
  /\ MoreBoards
  /\ Free(j)
  /\ board' = board + 1
  /\ job' = [job EXCEPT ![j] = [pc |-> "status", list |-> board, event |-> 0]]
  /\ UNCHANGED <<event, opening, stream, clients, wire, told, lost, slip, breaks>>

\* The transaction of submitFlag: the progress of the competitor is read next.
Complete(j) ==
  /\ MoreBoards
  /\ board' = board + 1
  /\ Start(j, "progress")
  /\ UNCHANGED <<event, opening, stream, clients, wire, told, lost, slip, breaks>>

\* Those reads are done, and spectators are notified; or one of them fails, and
\* with it the announcement.
Notify(j) ==
  /\ job[j].pc = "progress"
  /\ job' = [job EXCEPT ![j].pc = "list"]
  /\ UNCHANGED <<board, event, opening, stream, clients, wire, told, lost, slip, breaks>>

NotifyFails(j) ==
  /\ job[j].pc = "progress"
  /\ breaks < MaxBreaks
  /\ breaks' = breaks + 1
  /\ job' = [job EXCEPT ![j] = Idle]
  /\ lost' = [lost EXCEPT !.list = Coming(board)]
  /\ UNCHANGED <<board, event, opening, stream, clients, wire, told, slip>>

\* Competitors are imported, deactivated or reactivated.
ChangeRoster(j) ==
  /\ MoreBoards
  /\ board' = board + 1
  /\ Start(j, "list")
  /\ UNCHANGED <<event, opening, stream, clients, wire, told, lost, slip, breaks>>

\* START, PAUSE, RESUME, END, or the automatic end, whose row is written: the
\* status is broadcast next.
WriteEvent(j) ==
  /\ event < MaxEvent /\ ~opening
  /\ event' = event + 1
  /\ Free(j)
  /\ job' = [job EXCEPT ![j] = [pc |-> "status.changed", list |-> 0, event |-> event + 1]]
  /\ UNCHANGED <<board, opening, stream, clients, wire, told, lost, slip, breaks>>

\* broadcastEventStatusChanged, and notifyLeaderboardUpdated.
StatusChanged(j) ==
  /\ job[j].pc = "status.changed"
  /\ Room
  /\ Broadcast([type |-> "status", list |-> 0, event |-> job[j].event])
  /\ job' = [job EXCEPT ![j] = [@ EXCEPT !.pc = "list", !.event = 0]]
  /\ UNCHANGED <<board, event, opening, stream, clients, told, lost, slip, breaks>>

\* createNewMatch makes both announcements inside its transaction ...
AnnounceMatch(j) ==
  /\ event < MaxEvent /\ board < MaxBoard /\ ~opening /\ Room
  /\ opening' = TRUE
  /\ Broadcast([type |-> "status", list |-> 0, event |-> event + 1])
  /\ Start(j, "list")
  /\ UNCHANGED <<board, event, stream, clients, told, lost, slip, breaks>>

\* ... which commits, or fails after all.
CommitMatch ==
  /\ opening
  /\ opening' = FALSE /\ board' = board + 1 /\ event' = event + 1
  /\ UNCHANGED <<job, stream, clients, wire, told, lost, slip, breaks>>

AbortMatch ==
  /\ opening
  /\ opening' = FALSE /\ slip' = TRUE
  /\ UNCHANGED <<board, event, job, stream, clients, wire, told, lost, breaks>>

-----------------------------------------------------------------------------
(* Computations *)

\* What is read while a match is announced but not committed is too old.
Early == slip' = (slip \/ opening)

\* notifyLeaderboardUpdated reads the leaderboard, then the event, and sends
\* both.
ReadList(j) ==
  /\ job[j].pc = "list"
  /\ job' = [job EXCEPT ![j] =
       [@ EXCEPT !.list = board, !.pc = IF j \in Notifies THEN "status" ELSE "send"]]
  /\ Early
  /\ UNCHANGED <<board, event, opening, stream, clients, wire, told, lost, breaks>>

\* The first read of GET /leaderboard and of the stream's first message, the
\* last of a notification.
ReadEvent(j) ==
  /\ job[j].pc \in {"event", "status"}
  /\ job' = [job EXCEPT ![j] =
       [@ EXCEPT !.event = event, !.pc = IF job[j].pc = "status" THEN "send" ELSE "list"]]
  /\ Early
  /\ UNCHANGED <<board, event, opening, stream, clients, wire, told, lost, breaks>>

\* A read of an announcement fails: that is logged, and nothing is sent to anyone.
\* Neither is a first message of a stream whose read fails, which would have told
\* of the event, too.
ReadFails(j) ==
  /\ job[j].pc \in {"list", "status", "event"} /\ j \notin Fetches
  /\ breaks < MaxBreaks
  /\ breaks' = breaks + 1
  /\ job' = [job EXCEPT ![j] = Idle]
  /\ lost' = [list |-> Coming(board), event |-> IF j = "first" THEN Coming(event) ELSE lost.event]
  /\ UNCHANGED <<board, event, opening, stream, clients, wire, told, slip>>

\* leaderboard.updated to all, or leaderboard.init to the stream.
Send(j) ==
  /\ job[j].pc = "send" /\ j \notin Fetches
  /\ Room
  /\ Broadcast([type |-> "leaderboard", list |-> job[j].list, event |-> job[j].event])
  /\ job' = [job EXCEPT ![j] = Idle]
  /\ UNCHANGED <<board, event, opening, stream, clients, told, lost, slip, breaks>>

\* GET /stream is accepted: the headers, the place among the clients, and then
\* the first message is computed.
Accept ==
  /\ stream = "opening"
  /\ stream' = "open" /\ clients' = TRUE
  /\ wire' = <<[type |-> "open", list |-> 0, event |-> 0]>>
  /\ Start("first", "event")
  /\ UNCHANGED <<board, event, opening, told, lost, slip, breaks>>

-----------------------------------------------------------------------------
(* The spectator *)

\* What comes is shown, even if it is older than what was.
Show(m, list) ==
  told' = [list |-> IF list THEN Latest(told.list, m.list) ELSE told.list,
           event |-> Latest(told.event, m.event)]

\* onopen fetches.
Opened(j) ==
  /\ wire # <<>> /\ Head(wire).type = "open"
  /\ wire' = Tail(wire)
  /\ Start(j, "event")
  /\ UNCHANGED <<board, event, opening, stream, clients, told, lost, slip, breaks>>

\* leaderboard.init, leaderboard.updated.
ReceiveLeaderboard ==
  /\ wire # <<>> /\ Head(wire).type = "leaderboard"
  /\ wire' = Tail(wire)
  /\ Show(Head(wire), TRUE)
  /\ UNCHANGED <<board, event, opening, job, stream, clients, lost, slip, breaks>>

\* event.status.changed: shows the status, and fetches.
ReceiveStatus(j) ==
  /\ wire # <<>> /\ Head(wire).type = "status"
  /\ wire' = Tail(wire)
  /\ Show(Head(wire), FALSE)
  /\ Start(j, "event")
  /\ UNCHANGED <<board, event, opening, stream, clients, lost, slip, breaks>>

\* The answer to a fetch, which may come after that to a later one. A fetch that
\* fails is not repeated.
Answer(j) ==
  /\ job[j].pc = "send"
  /\ Show(job[j], TRUE)
  /\ job' = [job EXCEPT ![j] = Idle]
  /\ UNCHANGED <<board, event, opening, stream, clients, wire, lost, slip, breaks>>

FetchFails(j) ==
  /\ job[j] # Idle
  /\ breaks < MaxBreaks
  /\ breaks' = breaks + 1
  /\ job' = [job EXCEPT ![j] = Idle]
  /\ UNCHANGED <<board, event, opening, stream, clients, wire, told, lost, slip>>

-----------------------------------------------------------------------------
(* Failures *)

\* onerror closes it, and leaves it to the browser to connect again.
BreakForGood ==
  /\ stream \in {"opening", "open"}
  /\ breaks < MaxBreaks
  /\ breaks' = breaks + 1
  /\ stream' = "closed" /\ clients' = FALSE /\ wire' = <<>>
  /\ job' = [job EXCEPT !["first"] = Idle]
  /\ UNCHANGED <<board, event, opening, told, lost, slip>>

\* The stream breaks for both: onerror closes it and waits three seconds.
Break ==
  /\ stream \in {"opening", "open"}
  /\ breaks < MaxBreaks
  /\ breaks' = breaks + 1
  /\ stream' = "waiting" /\ clients' = FALSE /\ wire' = <<>>
  /\ job' = [job EXCEPT !["first"] = Idle]
  /\ UNCHANGED <<board, event, opening, told, lost, slip>>

Reconnect ==
  /\ stream = "waiting"
  /\ stream' = "opening"
  /\ UNCHANGED <<board, event, opening, job, clients, wire, told, lost, slip, breaks>>

\* The process dies, with every stream, answer and announcement; a transaction
\* is rolled back.
Restart ==
  /\ breaks < MaxBreaks
  /\ breaks' = breaks + 1
  /\ stream' = "waiting" /\ clients' = FALSE /\ wire' = <<>>
  /\ job' = [j \in Jobs |-> Idle]
  /\ opening' = FALSE
  /\ slip' = (slip \/ opening)
  /\ UNCHANGED <<board, event, told, lost>>

-----------------------------------------------------------------------------
Change ==
  \E j \in Notifies : Complete(j) \/ ChangeRoster(j) \/ WriteEvent(j) \/ AnnounceMatch(j)

Compute ==
  \/ \E j \in Notifies : Notify(j) \/ StatusChanged(j)
  \/ \E j \in Jobs : ReadList(j) \/ ReadEvent(j) \/ Send(j)
  \/ \E f \in Fetches : Answer(f)

Listen ==
  \/ Accept \/ ReceiveLeaderboard
  \/ \E f \in Fetches : Opened(f) \/ ReceiveStatus(f)

Fail ==
  \/ Break \/ Restart \/ AbortMatch
  \/ \E j \in Notifies : NotifyFails(j)
  \/ \E j \in Jobs : ReadFails(j)
  \/ \E f \in Fetches : FetchFails(f)

Next == Change \/ CommitMatch \/ Compute \/ Listen \/ Reconnect \/ Fail

Spec == Init /\ [][Next]_vars

\* Promises settle, messages arrive, the timer of the reconnection fires.
Fairness == WF_vars(Compute) /\ WF_vars(Listen) /\ WF_vars(Reconnect) /\ WF_vars(CommitMatch)

FairSpec == Spec /\ Fairness

-----------------------------------------------------------------------------
(* Properties *)

Quiet == stream = "open" /\ wire = <<>> /\ \A j \in Jobs : job[j] = Idle

\* When nothing is under way, a spectator has been told of the latest
\* leaderboard and event, whatever broke before, unless the last announcement of
\* them has been swallowed by a failed read and nothing has been sent since: every
\* change is announced after it is made, and whoever connects is told afresh.
Informed ==
  Quiet /\ ~opening /\ ~slip =>
    /\ told.list = board \/ lost.list = board
    /\ told.event = event \/ lost.event = event

\* Changes of the leaderboard reach the spectator in the end: again and again
\* all that there were are shown, as they do not go on for ever here, unless the
\* announcement of the last one was swallowed.
Delivered == []<>(told.list = board \/ lost.list = board \/ slip)
=============================================================================
