---------------------------- MODULE Participation ---------------------------
(***************************************************************************)
(* A competitor's session: login, heartbeats, streams, expiry, logout, and *)
(* what an administrator who (de)activates the competitor does to it.  The *)
(* sessions are rows; presence and connections live in the memory of the   *)
(* web process.                                                            *)
(*                                                                         *)
(* A login is named after the session it may create.  Requests of a        *)
(* browser carry the token of a session, valid or not.                     *)
(***************************************************************************)
EXTENDS Presence, Connections

CONSTANTS
  Requests, \* requests that can be in flight at once
  Kinds     \* what they ask for

ASSUME ParticipationAssumption ==
  Kinds \subseteq {"beat", "call", "stream", "logout", "beacon"}

VARIABLES
  account,   \* participants.status is ACTIVE
  status,    \* sessions.status, or NONE when the row does not exist
  owner,     \* sessions.participant_id
  age,       \* time since sessions.last_heartbeat_at
  current,   \* event_settings: the match ...
  phase,     \* ... and its status
  ending,    \* matches whose END presence has still to be told of
  opening,   \* the match that a transaction is about to begin, or 0
  login,     \* logins in flight
  req,       \* requests in flight
  admin,     \* the administrator's request
  overlap,   \* history: two logins of a competitor counted at the same time
  straddle   \* history: a login went through a deactivation

rowVars == <<account, status, owner, age>>
eventVars == <<current, phase, ending, opening>>
flightVars == <<login, req, admin>>
historyVars == <<overlap, straddle>>
vars == <<presenceVars, connVars, rowVars, eventVars, flightVars, historyVars>>

Active(s) == status[s] = "ACTIVE"
SessionsOf(p) == {s \in Sessions : owner[s] = p}
NotLoggingIn == [pc |-> "idle", sweep |-> {}]
NoRequest == [pc |-> "idle"]
NoAdmin == [pc |-> "idle"]

Init ==
  /\ PresenceInit /\ ConnectionsInit
  /\ account = [p \in Participants |-> TRUE]
  /\ status = [s \in Sessions |-> "NONE"]
  /\ owner \in [Sessions -> Participants]
  /\ age = [s \in Sessions |-> 0]
  /\ current = 1 /\ phase = "NOT_STARTED" /\ ending = {} /\ opening = 0
  /\ login = [s \in Sessions |-> NotLoggingIn]
  /\ req = [r \in Requests |-> NoRequest]
  /\ admin = NoAdmin
  /\ overlap = FALSE /\ straddle = FALSE

-----------------------------------------------------------------------------
(* Expiry *)

\* The UPDATE of cleanupStaleSessions, and the ids it returns.
Stale == {s \in Sessions : Active(s) /\ age[s] >= StaleLimit}
ExpireStale == status' = [s \in Sessions |-> IF s \in Stale THEN "EXPIRED" ELSE status[s]]

\* The loop over them: the streams and the presence of each.
Sweep(s) == UnregisterSession(s) /\ ExpireSession(s)

-----------------------------------------------------------------------------
(* Login *)

\* The credentials are right, and the competitor is ACTIVE, or is refused.
VerifyLogin(s) ==
  /\ login[s].pc = "idle" /\ status[s] = "NONE"
  /\ account[owner[s]]
  /\ login' = [login EXCEPT ![s] = [pc |-> "clean", sweep |-> {}]]
  /\ UNCHANGED <<presenceVars, connVars, rowVars, eventVars, req, admin, historyVars>>

CleanUp(s) ==
  /\ login[s].pc = "clean"
  /\ ExpireStale
  /\ login' = [login EXCEPT ![s] = [pc |-> "sweep", sweep |-> Stale]]
  /\ UNCHANGED <<presenceVars, connVars, account, owner, age, eventVars, req, admin, historyVars>>

SweepOne(s) ==
  /\ login[s].pc = "sweep"
  /\ \E e \in login[s].sweep :
       /\ Sweep(e)
       /\ login' = [login EXCEPT ![s].sweep = @ \ {e}]
  /\ UNCHANGED <<rowVars, eventVars, req, admin, historyVars>>

Rivals(s) == {o \in SessionsOf(owner[s]) \ {s} : Active(o)}

\* getActiveParticipantSessionCount: one is refused (and recorded as a
\* violation), none goes on.
CountSessions(s) ==
  /\ login[s].pc = "sweep" /\ login[s].sweep = {}
  /\ login' = [login EXCEPT ![s] =
       IF Rivals(s) # {} THEN NotLoggingIn ELSE [pc |-> "create", sweep |-> {}]]
  /\ overlap' = (overlap \/ \E o \in SessionsOf(owner[s]) \ {s} : login[o].pc = "create")
  /\ UNCHANGED <<presenceVars, connVars, rowVars, eventVars, req, admin, straddle>>

\* createSession: the row ...
CreateSession(s) ==
  /\ login[s].pc = "create"
  /\ status' = [status EXCEPT ![s] = "ACTIVE"]
  /\ age' = [age EXCEPT ![s] = 0]
  /\ login' = [login EXCEPT ![s].pc = "fallback"]
  /\ UNCHANGED <<presenceVars, connVars, account, owner, eventVars, req, admin, historyVars>>

\* ... and, once it is there, its place among the connected.
RegisterFallback(s) ==
  /\ login[s].pc = "fallback"
  /\ RegisterSessionFallback(s, owner[s])
  /\ login' = [login EXCEPT ![s] = NotLoggingIn]
  /\ UNCHANGED <<presenceVars, rowVars, eventVars, req, admin, historyVars>>

Login(s) ==
  CleanUp(s) \/ SweepOne(s) \/ CountSessions(s) \/ CreateSession(s) \/ RegisterFallback(s)

-----------------------------------------------------------------------------
(* Requests *)

Done(r) == req' = [req EXCEPT ![r] = NoRequest]

\* findSessionByTokenHash, and for all but streams and farewells the status of
\* the competitor (a second read, which can only refuse). Refusals change
\* nothing. A token is known to the browser once its login has been answered.
Arrive(r, kind, s) ==
  /\ req[r] = NoRequest
  /\ Active(s) /\ login[s].pc = "idle"
  /\ kind \in {"beat", "call"} => account[owner[s]]
  /\ req' = [req EXCEPT ![r] = [pc |-> kind, session |-> s]]
  /\ UNCHANGED <<presenceVars, connVars, rowVars, eventVars, login, admin, historyVars>>

\* Makes the session ACTIVE again, whatever it had become.
RefreshRevives(r) ==
  /\ req[r].pc \in {"beat", "call"}
  /\ LET s == req[r].session
     IN /\ RefreshConns(s)
        /\ age' = [age EXCEPT ![s] = 0]
        /\ status' = [status EXCEPT ![s] = "ACTIVE"]
        /\ req' = [req EXCEPT ![r] =
             IF @.pc = "call" THEN NoRequest ELSE [pc |-> "event", session |-> s]]
  /\ UNCHANGED <<presenceVars, account, owner, eventVars, login, admin, historyVars>>

\* updateSessionHeartbeat, of every authenticated request.
Refresh(r) ==
  /\ req[r].pc \in {"beat", "call"}
  /\ LET s == req[r].session
     IN /\ RefreshConns(s)
        /\ age' = [age EXCEPT ![s] = 0]
        /\ req' = [req EXCEPT ![r] =
             IF @.pc = "call" THEN NoRequest ELSE [pc |-> "event", session |-> s]]
  /\ UNCHANGED <<presenceVars, account, status, owner, eventVars, login, admin, historyVars>>

\* A heartbeat reads the event ...
ReadEvent(r) ==
  /\ req[r].pc = "event"
  /\ req' = [req EXCEPT ![r] =
       [pc |-> "record", session |-> @.session, match |-> current, ended |-> phase = "ENDED"]]
  /\ UNCHANGED <<presenceVars, connVars, rowVars, eventVars, login, admin, historyVars>>

\* ... and is recorded for the match it has read of.
Record(r) ==
  /\ req[r].pc = "record"
  /\ RecordHeartbeat(owner[req[r].session], req[r].session, req[r].match, req[r].ended)
  /\ Done(r)
  /\ UNCHANGED <<connVars, rowVars, eventVars, login, admin, historyVars>>

\* GET /events, GET /stream.
OpenStream(r) ==
  /\ req[r].pc = "stream"
  /\ \E c \in Conns : RegisterClient(c, req[r].session, owner[req[r].session])
  /\ Done(r)
  /\ UNCHANGED <<presenceVars, rowVars, eventVars, login, admin, historyVars>>

\* The socket of a stream closes.
CloseStream(c) ==
  /\ Open(c)
  /\ HandleClientDisconnect(c)
  /\ UNCHANGED <<presenceVars, rowVars, eventVars, flightVars, historyVars>>

\* POST /disconnect, the beacon of a closing tab: the session stays.
Disconnect(r) ==
  /\ req[r].pc = "beacon"
  /\ UnregisterSession(req[r].session)
  /\ Done(r)
  /\ UNCHANGED <<presenceVars, rowVars, eventVars, login, admin, historyVars>>

\* POST /logout: presence and streams at once, ...
Logout(r) ==
  /\ req[r].pc = "logout"
  /\ RecordLogout(owner[req[r].session], req[r].session)
  /\ UnregisterSession(req[r].session)
  /\ req' = [req EXCEPT ![r].pc = "terminate"]
  /\ UNCHANGED <<rowVars, eventVars, login, admin, historyVars>>

\* ... then the row (terminateSession), ...
TerminateSession(r) ==
  /\ req[r].pc = "terminate"
  /\ status' = [status EXCEPT ![req[r].session] = "TERMINATED"]
  /\ req' = [req EXCEPT ![r].pc = "beacon"]
  /\ UNCHANGED <<presenceVars, connVars, account, owner, age, eventVars, login, admin, historyVars>>

\* ... then the streams again, as Disconnect does. Reading the leaderboard
\* expires stale sessions, too.
ReadLeaderboard(r) ==
  /\ req[r] = NoRequest
  /\ Stale # {}
  /\ ExpireStale
  /\ req' = [req EXCEPT ![r] = [pc |-> "sweep", sweep |-> Stale]]
  /\ UNCHANGED <<presenceVars, connVars, account, owner, age, eventVars, login, admin, historyVars>>

SweepRead(r) ==
  /\ req[r].pc = "sweep"
  /\ \E e \in req[r].sweep :
       /\ Sweep(e)
       /\ req' = [req EXCEPT ![r] =
            IF @.sweep = {e} THEN NoRequest ELSE [pc |-> "sweep", sweep |-> @.sweep \ {e}]]
  /\ UNCHANGED <<rowVars, eventVars, login, admin, historyVars>>

Serve(r) ==
  \/ Refresh(r) \/ ReadEvent(r) \/ Record(r)
  \/ OpenStream(r) \/ Disconnect(r)
  \/ Logout(r) \/ TerminateSession(r) \/ SweepRead(r)

-----------------------------------------------------------------------------
(* The administrator *)

\* deactivateParticipant, reactivateParticipant: only before the start.
CheckNotStarted(verb, p) ==
  /\ admin = NoAdmin
  /\ phase = "NOT_STARTED"
  /\ admin' = [pc |-> verb, participant |-> p]
  /\ UNCHANGED <<presenceVars, connVars, rowVars, eventVars, login, req, historyVars>>

\* Leaves the sessions alone.
DeactivateAccount ==
  /\ admin.pc = "deactivate"
  /\ account' = [account EXCEPT ![admin.participant] = FALSE]
  /\ admin' = [admin EXCEPT !.pc = "disconnect"]
  /\ straddle' = (straddle \/ \E s \in SessionsOf(admin.participant) : login[s].pc # "idle")
  /\ UNCHANGED <<presenceVars, connVars, status, owner, age, eventVars, login, req, overlap>>

\* The transaction: the competitor and the sessions.
Deactivate ==
  /\ admin.pc = "deactivate"
  /\ account' = [account EXCEPT ![admin.participant] = FALSE]
  /\ status' = [s \in Sessions |->
       IF s \in SessionsOf(admin.participant) /\ Active(s) THEN "EXPIRED" ELSE status[s]]
  /\ admin' = [admin EXCEPT !.pc = "disconnect"]
  /\ straddle' = (straddle \/ \E s \in SessionsOf(admin.participant) : login[s].pc # "idle")
  /\ UNCHANGED <<presenceVars, connVars, owner, age, eventVars, login, req, overlap>>

\* The streams, afterwards.
DisconnectDeactivated ==
  /\ admin.pc = "disconnect"
  /\ DisconnectParticipant(admin.participant)
  /\ admin' = NoAdmin
  /\ UNCHANGED <<presenceVars, rowVars, eventVars, login, req, historyVars>>

Reactivate ==
  /\ admin.pc = "reactivate"
  /\ account' = [account EXCEPT ![admin.participant] = TRUE]
  /\ admin' = NoAdmin
  /\ UNCHANGED <<presenceVars, connVars, status, owner, age, eventVars, login, req, historyVars>>

Administer == Deactivate \/ DisconnectDeactivated \/ Reactivate

-----------------------------------------------------------------------------
(* The event: as much of it as presence sees *)

StartEvent ==
  /\ phase = "NOT_STARTED"
  /\ phase' = "RUNNING"
  /\ UNCHANGED <<presenceVars, connVars, rowVars, current, ending, opening, flightVars, historyVars>>

\* The row first, presence later, by whoever ended it.
EndEvent ==
  /\ phase = "RUNNING"
  /\ phase' = "ENDED"
  /\ ending' = ending \cup {current}
  /\ UNCHANGED <<presenceVars, connVars, rowVars, current, opening, flightVars, historyVars>>

\* createNewMatch tells presence of the next match in its transaction ...
AnnounceMatch ==
  /\ phase = "ENDED" /\ current + 1 \in Matches
  /\ opening' = current + 1
  /\ MatchChange(current + 1)
  /\ UNCHANGED <<connVars, rowVars, current, phase, ending, flightVars, historyVars>>

\* ... which commits or fails later.
CommitMatch ==
  /\ opening # 0
  /\ opening' = 0
  /\ current' = opening /\ phase' = "NOT_STARTED"
  /\ UNCHANGED <<presenceVars, connVars, rowVars, ending, flightVars, historyVars>>

AbortMatch ==
  /\ opening # 0
  /\ opening' = 0
  /\ UNCHANGED <<presenceVars, connVars, rowVars, current, phase, ending, flightVars, historyVars>>

\* The other half of END.
EndPresence(m) ==
  /\ m \in ending
  /\ MatchEnded(m)
  /\ ending' = ending \ {m}
  /\ UNCHANGED <<connVars, rowVars, current, phase, opening, flightVars, historyVars>>

Event ==
  \/ StartEvent \/ EndEvent \/ (\E m \in Matches : EndPresence(m))
  \/ AnnounceMatch \/ CommitMatch \/ AbortMatch

-----------------------------------------------------------------------------
(* Time, timers and restarts *)

Tick ==
  /\ age' = [s \in Sessions |-> IF Active(s) THEN Older(age[s]) ELSE age[s]]
  /\ PresenceAges /\ ConnectionsAge
  /\ UNCHANGED <<account, status, owner, eventVars, flightVars, historyVars>>

PresenceTimer ==
  /\ CheckExpirations
  /\ UNCHANGED <<connVars, rowVars, eventVars, flightVars, historyVars>>

SafetyNet ==
  /\ PruneStaleConnections
  /\ UNCHANGED <<presenceVars, rowVars, eventVars, flightVars, historyVars>>

Restart ==
  /\ PresenceRestarts /\ ConnectionsRestart
  /\ ending' = {} /\ opening' = 0
  /\ login' = [s \in Sessions |-> NotLoggingIn]
  /\ req' = [r \in Requests |-> NoRequest]
  /\ admin' = NoAdmin
  /\ UNCHANGED <<rowVars, current, phase, historyVars>>

Next ==
  \/ \E s \in Sessions :
       \/ VerifyLogin(s) \/ Login(s)
       \/ \E r \in Requests , k \in Kinds : Arrive(r, k, s)
  \/ \E r \in Requests : Serve(r) \/ ReadLeaderboard(r)
  \/ \E c \in Conns : CloseStream(c)
  \/ \E p \in Participants, v \in {"deactivate", "reactivate"} : CheckNotStarted(v, p)
  \/ Administer
  \/ Event
  \/ Tick \/ PresenceTimer \/ SafetyNet
  \/ Restart

Spec == Init /\ [][Next]_vars

-----------------------------------------------------------------------------
(* Properties *)

LoginRec == [pc : {"idle", "clean", "sweep", "create", "fallback"}, sweep : SUBSET Sessions]
RequestRec ==
  {NoRequest}
  \cup [pc : {"beat", "call", "stream", "beacon", "logout", "terminate", "event"}, session : Sessions]
  \cup [pc : {"record"}, session : Sessions, match : Matches, ended : BOOLEAN]
  \cup [pc : {"sweep"}, sweep : SUBSET Sessions]

\* The types of the variables.
TypeOK ==
  /\ PresenceType /\ ConnectionsType
  /\ account \in [Participants -> BOOLEAN]
  /\ status \in [Sessions -> {"NONE", "ACTIVE", "EXPIRED", "TERMINATED"}]
  /\ owner \in [Sessions -> Participants]
  /\ age \in [Sessions -> Ages]
  /\ current \in Matches
  /\ phase \in {"NOT_STARTED", "RUNNING", "ENDED"}
  /\ ending \subseteq Matches /\ opening \in Matches \cup {0}
  /\ login \in [Sessions -> LoginRec]
  /\ req \in [Requests -> RequestRec]
  /\ admin \in {NoAdmin} \cup
       [pc : {"deactivate", "disconnect", "reactivate"}, participant : Participants]
  /\ overlap \in BOOLEAN /\ straddle \in BOOLEAN

\* A competitor has one session at most: whatever expires, logs out, comes back
\* or is still being served, only logins that count at the same time make two.
OneSession ==
  overlap \/ \A s, o \in Sessions :
    Active(s) /\ Active(o) /\ owner[s] = owner[o] => s = o

\* A competitor who has been deactivated has no session, unless a login was
\* under way at the time.
NoneInactive ==
  straddle \/ \A s \in Sessions : Active(s) => account[owner[s]]

\* What spectators were last told of the match being played is true.
ToldTruth == Told(current)

-----------------------------------------------------------------------------
(* Fairness: time passes, timers fire, and a request that has begun         *)
(* continues, as the promise of every await settles.                        *)

FairSpec ==
  /\ Spec
  /\ WF_vars(Tick) /\ WF_vars(PresenceTimer) /\ WF_vars(SafetyNet)
  /\ \A r \in Requests : WF_vars(Serve(r))

\* A session that has ended does not count as connected for ever, even if a
\* stream was opened for it while it ended.
GhostsGo ==
  \A s \in Sessions : s \in Connected /\ ~Active(s) ~> s \notin Connected

\* Spectators are told that a competitor without a session is offline, even if
\* a heartbeat was served after the logout.
OfflineFollows ==
  \A p \in Participants :
    (\A s \in SessionsOf(p) : ~Active(s)) ~>
      p \notin told[current] \ unsaid[current] \/ \E s \in SessionsOf(p) : Active(s)
=============================================================================
