------------------------------ MODULE Presence ------------------------------
(***************************************************************************)
(* presenceService: who of the competitors is online in which match.  It   *)
(* lives in the memory of the web process; handlers call it between two    *)
(* awaits, so each call here is a whole step, conjoined by the modules     *)
(* that extend this one.                                                   *)
(*                                                                         *)
(* Spectators hear of presence only when the service broadcasts: told is   *)
(* what the last message about each match said.                            *)
(***************************************************************************)
EXTENDS Attendance

CONSTANT Matches \* match numbers

ASSUME PresenceAssumption == Matches \subseteq Nat /\ 1 \in Matches

VARIABLES
  seen,   \* presenceByMatch: for a match and a competitor, the last heartbeat
  index,  \* sessionIndex
  closed, \* endedMatches
  told,   \* history: online in the last presence.updated of each match
  unsaid  \* history: gone offline since then in a way that is never told

presenceVars == <<seen, index, closed, told, unsaid>>

None == [session |-> "none"]

\* A record with the time since lastSeenAt; MaxAge stands for the epoch, too.
Seen(s, age, online) == [session |-> s, age |-> age, wasOnline |-> online]

Recent(r) == r # None /\ r.age <= OnlineLimit

PresenceInit ==
  /\ seen = [m \in Matches |-> [p \in Participants |-> None]]
  /\ index = [s \in Sessions |-> None]
  /\ closed = {}
  /\ told = [m \in Matches |-> {}]
  /\ unsaid = [m \in Matches |-> {}]

\* isParticipantOnline, and the snapshot of a match.
Online(p, m) == m \notin closed /\ Recent(seen[m][p])
Snapshot(m) == {p \in Participants : Online(p, m)}

\* broadcastPresence, once the other variables have their new values.
BroadcastIf(ms) ==
  /\ told' = [m \in Matches |-> IF m \in ms THEN Snapshot(m)' ELSE told[m]]
  /\ unsaid' = [m \in Matches |-> IF m \in ms THEN {} ELSE unsaid[m]]

\* Tells spectators the first time only.
ToldOnce(p, s, m, ended) ==
  IF ended \/ m \in closed
  THEN UNCHANGED presenceVars
  ELSE /\ seen' = [seen EXCEPT ![m][p] = Seen(s, 0, TRUE)]
       /\ index' = [index EXCEPT ![s] = [session |-> s, match |-> m, participant |-> p]]
       /\ UNCHANGED closed
       /\ BroadcastIf(IF seen[m][p] = None THEN {m} ELSE {})

\* recordHeartbeat: nothing once the match has ended, to the event or here.
RecordHeartbeat(p, s, m, ended) ==
  IF ended \/ m \in closed
  THEN UNCHANGED presenceVars
  ELSE /\ seen' = [seen EXCEPT ![m][p] = Seen(s, 0, TRUE)]
       /\ index' = [index EXCEPT ![s] = [session |-> s, match |-> m, participant |-> p]]
       /\ UNCHANGED closed
       /\ BroadcastIf(IF Recent(seen[m][p]) THEN {} ELSE {m})

Gone(r) == IF r = None THEN None ELSE Seen(r.session, MaxAge, FALSE)

\* Thought to be online, but the heartbeats have stopped: the next check tells.
Lapsed(m, p) ==
  m \notin closed /\ seen[m][p] # None /\ seen[m][p].wasOnline /\ ~Recent(seen[m][p])

\* p goes offline in the matches of ms. Those where that makes a difference are
\* told, or at least those among them of tell; where the heartbeats have just
\* lapsed it does not, and as the record is not online any more the check will
\* find nothing to tell either.
GoOffline(p, ms, tell) ==
  LET changed == {m \in ms : Recent(seen[m][p]) /\ seen[m][p].wasOnline}
      heard == tell \cap changed
  IN /\ seen' = [m \in Matches |-> IF m \in ms THEN [seen[m] EXCEPT ![p] = Gone(@)] ELSE seen[m]]
     /\ told' = [m \in Matches |-> IF m \in heard THEN Snapshot(m)' ELSE told[m]]
     /\ unsaid' = [m \in Matches |->
          IF m \in heard THEN {} ELSE IF m \in ms /\ Lapsed(m, p) THEN unsaid[m] \cup {p} ELSE unsaid[m]]

\* recordLogout: in every match, whichever of the sessions the records are of.
\* Of the matches in which that changes something only the last is told.
RecordLogout(p, s) ==
  /\ index' = [index EXCEPT ![s] = None]
  /\ UNCHANGED closed
  /\ GoOffline(p, Matches,
       {last \in Matches : \A m \in Matches :
          Recent(seen[m][p]) /\ seen[m][p].wasOnline => m <= last})

\* expireSession: only a record of that very session.
ExpireSession(s) ==
  IF index[s] = None
  THEN UNCHANGED presenceVars
  ELSE LET m == index[s].match
           p == index[s].participant
           mine == seen[m][p] # None /\ seen[m][p].session = s
       IN /\ index' = [index EXCEPT ![s] = None]
          /\ UNCHANGED closed
          /\ GoOffline(p, IF mine THEN {m} ELSE {}, {m})

\* onMatchEnded.
MatchEnded(m) ==
  /\ closed' = closed \cup {m}
  /\ seen' = [seen EXCEPT ![m] =
       [p \in Participants |-> IF @[p] = None THEN None ELSE [@[p] EXCEPT !.wasOnline = FALSE]]]
  /\ UNCHANGED index
  /\ BroadcastIf({m})

\* onMatchChange.
MatchChange(m) ==
  /\ closed' = closed \ {m}
  /\ seen' = [seen EXCEPT ![m] = [p \in Participants |-> None]]
  /\ UNCHANGED index
  /\ BroadcastIf({m})

\* Notes who has lapsed, and tells nobody.
CheckQuietly ==
  /\ \E m \in Matches, p \in Participants : Lapsed(m, p)
  /\ seen' = [m \in Matches |-> [p \in Participants |->
       IF Lapsed(m, p) THEN [seen[m][p] EXCEPT !.wasOnline = FALSE] ELSE seen[m][p]]]
  /\ UNCHANGED <<index, closed, told, unsaid>>

\* checkHeartbeatExpirations, every five seconds: it tells of those whose
\* heartbeats have stopped, once.
CheckExpirations ==
  LET lapsed == {m \in Matches : \E p \in Participants : Lapsed(m, p)}
  IN /\ lapsed # {}
     /\ seen' = [m \in Matches |-> [p \in Participants |->
          IF Lapsed(m, p) THEN [seen[m][p] EXCEPT !.wasOnline = FALSE] ELSE seen[m][p]]]
     /\ UNCHANGED <<index, closed>>
     /\ BroadcastIf(lapsed)

\* Time passes for every record.
PresenceAges ==
  /\ seen' = [m \in Matches |-> [p \in Participants |->
       IF seen[m][p] = None THEN None ELSE [seen[m][p] EXCEPT !.age = Older(@)]]]
  /\ UNCHANGED <<index, closed, told, unsaid>>

\* The process starts again. Spectators' streams are gone with it; the next
\* thing each hears is a fresh leaderboard.
PresenceRestarts ==
  /\ seen' = [m \in Matches |-> [p \in Participants |-> None]]
  /\ index' = [s \in Sessions |-> None]
  /\ closed' = {}
  /\ told' = [m \in Matches |-> {}]
  /\ unsaid' = [m \in Matches |-> {}]

-----------------------------------------------------------------------------
SeenRec == [session : Sessions, age : Ages, wasOnline : BOOLEAN]
IndexRec == [session : Sessions, match : Matches, participant : Participants]

PresenceType ==
  /\ seen \in [Matches -> [Participants -> SeenRec \cup {None}]]
  /\ index \in [Sessions -> IndexRec \cup {None}]
  /\ closed \subseteq Matches
  /\ told \in [Matches -> SUBSET Participants]
  /\ unsaid \in [Matches -> SUBSET Participants]

\* What spectators were last told of a match is true: whoever is online was
\* shown to be, and whoever was shown to be is, or has stopped sending
\* heartbeats so recently that the next check is still to come.
Told(m) ==
  \A p \in Participants :
    /\ Online(p, m) => p \in told[m]
    /\ p \in told[m] => Online(p, m) \/ Lapsed(m, p) \/ p \in unsaid[m]
=============================================================================
