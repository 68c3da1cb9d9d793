------------------------ MODULE Participation_proofs -------------------------
(***************************************************************************)
(* Theorems about Participation: for any number of competitors, sessions,  *)
(* streams, requests and matches, and any limits in the order of the code. *)
(***************************************************************************)
EXTENDS Participation, TLAPS

-----------------------------------------------------------------------------
(* Types: presence *)

LEMMA NoneType == None \notin SeenRec /\ None \notin IndexRec
  BY DEF None, SeenRec, IndexRec

LEMMA SeenType ==
  ASSUME NEW s \in Sessions, NEW a \in Ages, NEW b \in BOOLEAN
  PROVE  /\ Seen(s, a, b) \in SeenRec
         /\ Seen(s, a, b) # None
         /\ Seen(s, a, b).session = s /\ Seen(s, a, b).age = a /\ Seen(s, a, b).wasOnline = b
  BY DEF Seen, SeenRec, None

LEMMA AgesType == 0 \in Ages /\ MaxAge \in Ages /\ \A a \in Ages : Older(a) \in Ages
  BY AttendanceAssumption DEF Ages, Older

LEMMA GoneType ==
  ASSUME NEW r \in SeenRec \cup {None}
  PROVE  Gone(r) \in SeenRec \cup {None}
  BY AgesType, SeenType DEF Gone, SeenRec

SeenIs == seen \in [Matches -> [Participants -> SeenRec \cup {None}]]
IndexIs == index \in [Sessions -> IndexRec \cup {None}]
ToldIs == told \in [Matches -> SUBSET Participants] /\ unsaid \in [Matches -> SUBSET Participants]

LEMMA BroadcastType ==
  ASSUME ToldIs, NEW ms, BroadcastIf(ms)
  PROVE  ToldIs'
  BY DEF ToldIs, BroadcastIf, Snapshot

LEMMA RecordHeartbeatType ==
  ASSUME PresenceType, NEW p \in Participants, NEW s \in Sessions, NEW m \in Matches, NEW ended \in BOOLEAN,
         RecordHeartbeat(p, s, m, ended)
  PROVE  PresenceType'
<1>1. CASE ended \/ m \in closed
  BY <1>1 DEF RecordHeartbeat, PresenceType, presenceVars
<1>2. CASE ~(ended \/ m \in closed)
  <2>1. SeenIs'
    <3>1. Seen(s, 0, TRUE) \in SeenRec
      BY AgesType, SeenType
    <3>2. [seen[m] EXCEPT ![p] = Seen(s, 0, TRUE)] \in [Participants -> SeenRec \cup {None}]
      BY <3>1 DEF PresenceType
    <3>3. seen' = [seen EXCEPT ![m] = [seen[m] EXCEPT ![p] = Seen(s, 0, TRUE)]]
      BY <1>2 DEF RecordHeartbeat
    <3> QED
      BY <3>2, <3>3 DEF PresenceType, SeenIs
  <2>2. [session |-> s, match |-> m, participant |-> p] \in IndexRec
    BY DEF IndexRec
  <2>3. IndexIs'
    BY <1>2, <2>2 DEF RecordHeartbeat, PresenceType, IndexIs
  <2>4. ToldIs'
    BY <1>2, BroadcastType DEF RecordHeartbeat, PresenceType, ToldIs
  <2> QED
    BY <1>2, <2>1, <2>3, <2>4 DEF RecordHeartbeat, PresenceType, SeenIs, IndexIs, ToldIs
<1> QED
  BY <1>1, <1>2

LEMMA GoOfflineType ==
  ASSUME SeenIs, ToldIs, NEW p \in Participants, NEW ms, NEW tell, GoOffline(p, ms, tell)
  PROVE  SeenIs' /\ ToldIs'
<1>1. SeenIs'
  BY GoneType DEF GoOffline, SeenIs
<1>2. ToldIs'
  BY DEF GoOffline, ToldIs, Snapshot
<1> QED
  BY <1>1, <1>2

LEMMA RecordLogoutType ==
  ASSUME PresenceType, NEW p \in Participants, NEW s \in Sessions, RecordLogout(p, s)
  PROVE  PresenceType'
<1>1. SeenIs' /\ ToldIs'
  BY GoOfflineType DEF RecordLogout, PresenceType, SeenIs, ToldIs
<1> QED
  BY <1>1 DEF RecordLogout, PresenceType, SeenIs, ToldIs

LEMMA ExpireSessionType ==
  ASSUME PresenceType, NEW s \in Sessions, ExpireSession(s)
  PROVE  PresenceType'
<1>1. CASE index[s] = None
  BY <1>1 DEF ExpireSession, PresenceType, presenceVars
<1>2. CASE index[s] # None
  <2>1. index[s] \in IndexRec
    BY <1>2 DEF PresenceType
  <2>2. index[s].participant \in Participants
    BY <2>1 DEF IndexRec
  <2>3. SeenIs' /\ ToldIs'
    BY <1>2, <2>2, GoOfflineType DEF ExpireSession, PresenceType, SeenIs, ToldIs
  <2> QED
    BY <1>2, <2>3 DEF ExpireSession, PresenceType, SeenIs, ToldIs
<1> QED
  BY <1>1, <1>2

LEMMA SeenAsOffline ==
  ASSUME NEW r \in SeenRec
  PROVE  /\ [r EXCEPT !.wasOnline = FALSE] \in SeenRec
         /\ [r EXCEPT !.wasOnline = FALSE].age = r.age
         /\ [r EXCEPT !.wasOnline = FALSE].wasOnline = FALSE
         /\ [r EXCEPT !.age = Older(@)] \in SeenRec
         /\ [r EXCEPT !.age = Older(@)].age = Older(r.age)
         /\ [r EXCEPT !.age = Older(@)].wasOnline = r.wasOnline
  BY AgesType DEF SeenRec

LEMMA MatchEndedType ==
  ASSUME PresenceType, NEW m \in Matches, MatchEnded(m)
  PROVE  PresenceType'
<1>1. SeenIs'
  <2>1. ASSUME NEW p \in Participants
        PROVE  (IF seen[m][p] = None THEN None ELSE [seen[m][p] EXCEPT !.wasOnline = FALSE]) \in SeenRec \cup {None}
    <3>1. seen[m][p] \in SeenRec \cup {None}
      BY DEF PresenceType
    <3>2. CASE seen[m][p] \in SeenRec
      BY <3>2, SeenAsOffline, NoneType
    <3> QED
      BY <3>1, <3>2
  <2> QED
    BY <2>1 DEF MatchEnded, PresenceType, SeenIs
<1>2. ToldIs'
  BY BroadcastType DEF MatchEnded, PresenceType, ToldIs
<1> QED
  BY <1>1, <1>2 DEF MatchEnded, PresenceType, SeenIs, ToldIs

LEMMA MatchChangeType ==
  ASSUME PresenceType, NEW m \in Matches, MatchChange(m)
  PROVE  PresenceType'
<1>1. SeenIs'
  BY DEF MatchChange, PresenceType, SeenIs
<1>2. ToldIs'
  BY BroadcastType DEF MatchChange, PresenceType, ToldIs
<1> QED
  BY <1>1, <1>2 DEF MatchChange, PresenceType, SeenIs, ToldIs

LEMMA CheckExpirationsType ==
  ASSUME PresenceType, CheckExpirations
  PROVE  PresenceType'
<1>1. SeenIs'
  <2>1. ASSUME NEW m \in Matches, NEW p \in Participants
        PROVE  (IF Lapsed(m, p) THEN [seen[m][p] EXCEPT !.wasOnline = FALSE] ELSE seen[m][p]) \in SeenRec \cup {None}
    <3>1. seen[m][p] \in SeenRec \cup {None}
      BY DEF PresenceType
    <3>2. CASE seen[m][p] \in SeenRec
      BY <3>2, SeenAsOffline, NoneType
    <3>3. CASE seen[m][p] = None
      BY <3>3 DEF Lapsed
    <3> QED
      BY <3>1, <3>2, <3>3
  <2> QED
    BY <2>1 DEF CheckExpirations, SeenIs
<1>2. ToldIs'
  BY BroadcastType DEF CheckExpirations, PresenceType, ToldIs
<1> QED
  BY <1>1, <1>2 DEF CheckExpirations, PresenceType, SeenIs, ToldIs

LEMMA PresenceAgesType ==
  ASSUME PresenceType, PresenceAges
  PROVE  PresenceType'
<1>1. ASSUME NEW m \in Matches, NEW p \in Participants
      PROVE  (IF seen[m][p] = None THEN None ELSE [seen[m][p] EXCEPT !.age = Older(@)]) \in SeenRec \cup {None}
  <2>1. seen[m][p] \in SeenRec \cup {None}
    BY DEF PresenceType
  <2>2. CASE seen[m][p] \in SeenRec
    BY <2>2, SeenAsOffline, NoneType
  <2> QED
    BY <2>1, <2>2
<1> QED
  BY <1>1 DEF PresenceAges, PresenceType

LEMMA PresenceRestartsType ==
  ASSUME PresenceInit \/ PresenceRestarts
  PROVE  (PresenceInit => PresenceType) /\ (PresenceRestarts => PresenceType')
  BY DEF PresenceInit, PresenceRestarts, PresenceType

-----------------------------------------------------------------------------
(* Types: streams *)

ConnIs == conn \in [Conns -> ConnRec \cup {NoConn}]
FallbackIs == fallback \in [Sessions -> [participant : Participants, age : Ages] \cup {NoFallback}]

LEMMA NoConnType == NoConn \notin ConnRec /\ NoFallback \notin [participant : Participants, age : Ages]
  BY DEF NoConn, ConnRec, NoFallback

LEMMA ConnAs ==
  ASSUME NEW r \in ConnRec
  PROVE  /\ [r EXCEPT !.closed = TRUE] \in ConnRec
         /\ [r EXCEPT !.age = 0] \in ConnRec
         /\ [r EXCEPT !.age = Older(@)] \in ConnRec
  BY AgesType DEF ConnRec

LEMMA UnlinkType ==
  ASSUME ConnectionsType, NEW cs, NEW fs, Unlink(cs, fs)
  PROVE  ConnectionsType'
<1>1. ConnIs'
  <2>1. \A c \in Conns : Open(c) => [conn[c] EXCEPT !.closed = TRUE] \in ConnRec
    BY ConnAs DEF ConnectionsType, Open
  <2> QED
    BY <2>1 DEF Unlink, ConnectionsType, ConnIs
<1>2. FallbackIs'
  BY DEF Unlink, ConnectionsType, FallbackIs
<1> QED
  BY <1>1, <1>2 DEF Unlink, ConnectionsType, ConnIs, FallbackIs

LEMMA RegisterClientType ==
  ASSUME ConnectionsType, NEW c \in Conns, NEW s \in Sessions, NEW p \in Participants, RegisterClient(c, s, p)
  PROVE  ConnectionsType'
<1>1. [session |-> s, participant |-> p, age |-> 0, closed |-> FALSE] \in ConnRec
  BY AgesType DEF ConnRec
<1> QED
  BY <1>1 DEF RegisterClient, ConnectionsType

LEMMA RegisterFallbackType ==
  ASSUME ConnectionsType, NEW s \in Sessions, NEW p \in Participants, RegisterSessionFallback(s, p)
  PROVE  ConnectionsType'
  BY AgesType DEF RegisterSessionFallback, ConnectionsType

LEMMA RefreshConnsType ==
  ASSUME ConnectionsType, MapsAgree, NEW s \in Sessions, RefreshConns(s)
  PROVE  ConnectionsType'
<1>1. ConnIs'
  <2>1. \A c \in Conns : c \in bySession[s] => [conn[c] EXCEPT !.age = 0] \in ConnRec
    BY ConnAs DEF ConnectionsType, MapsAgree, Open
  <2> QED
    BY <2>1 DEF RefreshConns, ConnectionsType, ConnIs
<1>2. FallbackIs'
  BY AgesType DEF RefreshConns, ConnectionsType, FallbackIs
<1> QED
  BY <1>1, <1>2 DEF RefreshConns, ConnectionsType, ConnIs, FallbackIs

LEMMA ConnectionsAgeType ==
  ASSUME ConnectionsType, ConnectionsAge
  PROVE  ConnectionsType'
<1>1. ConnIs'
  <2>1. \A c \in Conns : Open(c) => [conn[c] EXCEPT !.age = Older(@)] \in ConnRec
    BY ConnAs DEF ConnectionsType, Open
  <2> QED
    BY <2>1 DEF ConnectionsAge, ConnectionsType, ConnIs
<1>2. FallbackIs'
  BY AgesType DEF ConnectionsAge, ConnectionsType, FallbackIs
<1> QED
  BY <1>1, <1>2 DEF ConnectionsAge, ConnectionsType, ConnIs, FallbackIs

LEMMA ConnectionsRestartType ==
  (ConnectionsInit => ConnectionsType) /\ (ConnectionsRestart => ConnectionsType')
  BY DEF ConnectionsInit, ConnectionsRestart, ConnectionsType

-----------------------------------------------------------------------------
(* The maps of the streams *)

LEMMA RegisterClientMaps ==
  ASSUME ConnectionsType, MapsAgree, NEW c \in Conns, NEW s \in Sessions, NEW p \in Participants,
         RegisterClient(c, s, p)
  PROVE  MapsAgree'
<1> DEFINE r == [session |-> s, participant |-> p, age |-> 0, closed |-> FALSE]
<1>1. r # NoConn /\ ~r.closed /\ r.session = s /\ r.participant = p
  BY DEF NoConn
<1>2. conn' = [conn EXCEPT ![c] = r]
  BY DEF RegisterClient
<1>3. \A d \in Conns : conn'[d] = IF d = c THEN r ELSE conn[d]
  BY <1>2 DEF ConnectionsType
<1> HIDE DEF r
<1> SUFFICES ASSUME NEW d \in Conns
             PROVE  /\ d \in allClients' <=> Open(d)'
                    /\ \A t \in Sessions : d \in bySession'[t] <=> Open(d)' /\ conn'[d].session = t
                    /\ \A q \in Participants : d \in byParticipant'[q] <=> Open(d)' /\ conn'[d].participant = q
  BY DEF MapsAgree
<1>4. Open(d)' <=> d = c \/ Open(d)
  BY <1>1, <1>3 DEF Open
<1>5. d \in allClients' <=> Open(d)'
  BY <1>4 DEF RegisterClient, MapsAgree
<1>6. ASSUME NEW t \in Sessions
      PROVE  d \in bySession'[t] <=> Open(d)' /\ conn'[d].session = t
  BY <1>1, <1>3, <1>4 DEF RegisterClient, MapsAgree, ConnectionsType
<1>7. ASSUME NEW q \in Participants
      PROVE  d \in byParticipant'[q] <=> Open(d)' /\ conn'[d].participant = q
  BY <1>1, <1>3, <1>4 DEF RegisterClient, MapsAgree, ConnectionsType
<1> QED
  BY <1>5, <1>6, <1>7

LEMMA UnlinkMaps ==
  ASSUME ConnectionsType, MapsAgree, NEW cs, NEW fs, Unlink(cs, fs)
  PROVE  MapsAgree'
<1> DEFINE live == {c \in cs : Open(c)}
<1>1. /\ conn' = [c \in Conns |-> IF c \in live THEN [conn[c] EXCEPT !.closed = TRUE] ELSE conn[c]]
      /\ allClients' = allClients \ live
      /\ byParticipant' = [p \in Participants |-> byParticipant[p] \ live]
      /\ bySession' = [s \in Sessions |-> bySession[s] \ live]
  BY DEF Unlink
<1>2. ASSUME NEW c \in Conns
      PROVE  /\ Open(c)' <=> Open(c) /\ c \notin live
             /\ Open(c)' => conn'[c] = conn[c]
  <2>1. CASE c \in live
    <3>1. conn[c] \in ConnRec
      BY <2>1 DEF ConnectionsType, Open
    <3>2. conn'[c] = [conn[c] EXCEPT !.closed = TRUE]
      BY <1>1, <2>1
    <3>3. conn'[c].closed = TRUE
      BY <3>1, <3>2 DEF ConnRec
    <3> QED
      BY <2>1, <3>3 DEF Open
  <2>2. CASE c \notin live
    BY <1>1, <2>2 DEF Open
  <2> QED
    BY <2>1, <2>2
<1> HIDE DEF live
<1> QED
  BY <1>1, <1>2 DEF MapsAgree

LEMMA SameStreamsMaps ==
  ASSUME ConnectionsType, MapsAgree, UNCHANGED <<allClients, byParticipant, bySession>>,
         \A c \in Conns : conn'[c] = conn[c] \/ (Open(c) /\ \E a : conn'[c] = [conn[c] EXCEPT !.age = a])
  PROVE  MapsAgree'
<1>1. ASSUME NEW c \in Conns
      PROVE  /\ Open(c)' <=> Open(c)
             /\ Open(c) => conn'[c].session = conn[c].session /\ conn'[c].participant = conn[c].participant
  <2>1. CASE conn'[c] = conn[c]
    BY <2>1 DEF Open
  <2>2. CASE Open(c) /\ \E a : conn'[c] = [conn[c] EXCEPT !.age = a]
    <3>1. conn[c] \in ConnRec
      BY <2>2 DEF ConnectionsType, Open
    <3>2. PICK a : conn'[c] = [conn[c] EXCEPT !.age = a]
      BY <2>2
    <3>3. /\ conn'[c].session = conn[c].session /\ conn'[c].participant = conn[c].participant
          /\ conn'[c].closed = conn[c].closed /\ conn'[c] # NoConn
      BY <3>1, <3>2 DEF ConnRec, NoConn
    <3> QED
      BY <2>2, <3>3 DEF Open
  <2> QED
    BY <2>1, <2>2
<1> QED
  BY <1>1 DEF MapsAgree

LEMMA RefreshConnsMaps ==
  ASSUME ConnectionsType, MapsAgree, NEW s \in Sessions, RefreshConns(s)
  PROVE  MapsAgree'
<1>1. \A c \in Conns : conn'[c] = conn[c] \/ (Open(c) /\ \E a : conn'[c] = [conn[c] EXCEPT !.age = a])
  BY DEF RefreshConns, MapsAgree
<1> QED
  BY <1>1, SameStreamsMaps DEF RefreshConns

LEMMA ConnectionsAgeMaps ==
  ASSUME ConnectionsType, MapsAgree, ConnectionsAge
  PROVE  MapsAgree'
<1>1. \A c \in Conns : conn'[c] = conn[c] \/ (Open(c) /\ \E a : conn'[c] = [conn[c] EXCEPT !.age = a])
  BY DEF ConnectionsAge
<1> QED
  BY <1>1, SameStreamsMaps DEF ConnectionsAge

LEMMA ConnectionsRestartMaps ==
  (ConnectionsInit => MapsAgree) /\ (ConnectionsRestart => MapsAgree')
  BY DEF ConnectionsInit, ConnectionsRestart, MapsAgree, Open

-----------------------------------------------------------------------------
(* Types: all of it *)

RowIs ==
  /\ account \in [Participants -> BOOLEAN]
  /\ status \in [Sessions -> {"NONE", "ACTIVE", "EXPIRED", "TERMINATED"}]
  /\ owner \in [Sessions -> Participants]
  /\ age \in [Sessions -> Ages]

EventIs ==
  /\ current \in Matches
  /\ phase \in {"NOT_STARTED", "RUNNING", "ENDED"}
  /\ ending \subseteq Matches /\ opening \in Matches \cup {0}

LoginIs == login \in [Sessions -> LoginRec]
ReqIs == req \in [Requests -> RequestRec]
AdminIs == admin \in {NoAdmin} \cup
             [pc : {"deactivate", "disconnect", "reactivate"}, participant : Participants]
HistoryIs == overlap \in BOOLEAN /\ straddle \in BOOLEAN

LEMMA TypeParts ==
  /\ TypeOK <=> /\ PresenceType /\ ConnectionsType /\ RowIs /\ EventIs
                /\ LoginIs /\ ReqIs /\ AdminIs /\ HistoryIs
  /\ TypeOK' <=> /\ PresenceType' /\ ConnectionsType' /\ RowIs' /\ EventIs'
                 /\ LoginIs' /\ ReqIs' /\ AdminIs' /\ HistoryIs'
  BY DEF TypeOK, RowIs, EventIs, LoginIs, ReqIs, AdminIs, HistoryIs

LEMMA LoginRecs ==
  /\ NotLoggingIn \in LoginRec /\ NotLoggingIn.pc = "idle"
  /\ \A l \in LoginRec, pc \in {"idle", "clean", "sweep", "create", "fallback"}, e \in Sessions :
       /\ [l EXCEPT !.pc = pc] \in LoginRec
       /\ [l EXCEPT !.sweep = @ \ {e}] \in LoginRec
  BY DEF NotLoggingIn, LoginRec

LEMMA RequestRecs ==
  /\ NoRequest \in RequestRec
  /\ \A k \in {"beat", "call", "stream", "beacon", "logout", "terminate", "event"}, s \in Sessions :
       [pc |-> k, session |-> s] \in RequestRec
  /\ \A sw \in SUBSET Sessions : [pc |-> "sweep", sweep |-> sw] \in RequestRec
  /\ \A s \in Sessions, m \in Matches, b \in BOOLEAN :
       [pc |-> "record", session |-> s, match |-> m, ended |-> b] \in RequestRec
  BY DEF RequestRec

\* A request that does something has a session, and a record one to record.
LEMMA RequestKinds ==
  ASSUME ReqIs, NEW r \in Requests
  PROVE  /\ req[r].pc \in {"beat", "call", "stream", "beacon", "logout", "terminate", "event"} =>
              req[r].session \in Sessions /\ req[r] = [pc |-> req[r].pc, session |-> req[r].session]
         /\ req[r].pc = "record" =>
              req[r].session \in Sessions /\ req[r].match \in Matches /\ req[r].ended \in BOOLEAN
         /\ req[r].pc = "sweep" =>
              req[r].sweep \in SUBSET Sessions /\ req[r] = [pc |-> "sweep", sweep |-> req[r].sweep]
  BY DEF ReqIs, RequestRec, NoRequest

LEMMA DoneType ==
  ASSUME ReqIs, NEW r \in Requests, Done(r) PROVE ReqIs'
  BY RequestRecs DEF Done, ReqIs

LEMMA SweepType ==
  ASSUME PresenceType, ConnectionsType, MapsAgree, NEW s \in Sessions, Sweep(s)
  PROVE  PresenceType' /\ ConnectionsType' /\ MapsAgree'
  BY ExpireSessionType, UnlinkType, UnlinkMaps DEF Sweep, UnregisterSession

\* Types and maps go together: a heartbeat looks connections up in the maps.
Base == TypeOK /\ MapsAgree

LEMMA BaseInit == Init => Base
<1> SUFFICES ASSUME Init PROVE Base
  OBVIOUS
<1>1. PresenceType
  BY PresenceRestartsType DEF Init
<1>2. ConnectionsType /\ MapsAgree
  BY ConnectionsRestartType, ConnectionsRestartMaps DEF Init
<1>3. RowIs /\ EventIs /\ LoginIs /\ ReqIs /\ AdminIs /\ HistoryIs
  BY LoginRecs, RequestRecs, AgesType, PresenceAssumption
  DEF Init, RowIs, EventIs, LoginIs, ReqIs, AdminIs, HistoryIs
<1> QED
  BY <1>1, <1>2, <1>3, TypeParts DEF Base

LEMMA ExpireStaleType ==
  ASSUME RowIs, ExpireStale, UNCHANGED <<account, owner, age>> PROVE RowIs'
  BY DEF RowIs, ExpireStale

\* Steps that leave presence and streams alone.
LEMMA ElsewhereStep ==
  ASSUME Base, UNCHANGED <<presenceVars, connVars>>,
         RowIs', EventIs', LoginIs', ReqIs', AdminIs', HistoryIs'
  PROVE  Base'
<1>1. PresenceType' /\ ConnectionsType' /\ MapsAgree'
  BY DEF Base, TypeOK, presenceVars, connVars, PresenceType, ConnectionsType, MapsAgree, Open
<1> QED
  BY <1>1, TypeParts DEF Base

\* Steps of presence and streams that leave the rest alone but for what is in flight.
LEMMA MemoryStep ==
  ASSUME Base, UNCHANGED <<rowVars, eventVars, historyVars>>,
         PresenceType', ConnectionsType', MapsAgree', LoginIs', ReqIs', AdminIs'
  PROVE  Base'
<1>1. RowIs' /\ EventIs' /\ HistoryIs'
  BY TypeParts DEF Base, RowIs, EventIs, HistoryIs, rowVars, eventVars, historyVars
<1> QED
  BY <1>1, TypeParts DEF Base

LEMMA PresenceSame == PresenceType /\ UNCHANGED presenceVars => PresenceType'
  BY DEF PresenceType, presenceVars
LEMMA StreamsSame ==
  ConnectionsType /\ MapsAgree /\ UNCHANGED connVars => ConnectionsType' /\ MapsAgree'
  BY DEF ConnectionsType, MapsAgree, connVars, Open

LEMMA LoginSteps ==
  ASSUME Base, NEW s \in Sessions, VerifyLogin(s) \/ Login(s)
  PROVE  Base'
<1> USE TypeParts DEF Base
<1>0. PresenceType /\ ConnectionsType /\ MapsAgree /\ RowIs /\ EventIs
      /\ LoginIs /\ ReqIs /\ AdminIs /\ HistoryIs
  OBVIOUS
<1> HIDE TypeParts DEF Base
<1>1. CASE VerifyLogin(s)
  <2>1. [pc |-> "clean", sweep |-> {}] \in LoginRec
    BY DEF LoginRec
  <2>2. LoginIs'
    BY <1>0, <1>1, <2>1 DEF VerifyLogin, LoginIs
  <2> QED
    BY <1>0, <1>1, <2>2, ElsewhereStep
    DEF VerifyLogin, rowVars, eventVars, historyVars, RowIs, EventIs, ReqIs, AdminIs, HistoryIs
<1>2. CASE CleanUp(s)
  <2>1. [pc |-> "sweep", sweep |-> Stale] \in LoginRec
    BY DEF LoginRec, Stale
  <2>2. LoginIs' /\ RowIs'
    BY <1>0, <1>2, <2>1, ExpireStaleType DEF CleanUp, LoginIs
  <2> QED
    BY <1>0, <1>2, <2>2, ElsewhereStep
    DEF CleanUp, eventVars, historyVars, EventIs, ReqIs, AdminIs, HistoryIs
<1>3. CASE SweepOne(s)
  <2> PICK e \in login[s].sweep : Sweep(e) /\ login' = [login EXCEPT ![s].sweep = @ \ {e}]
    BY <1>3 DEF SweepOne
  <2>1. e \in Sessions
    BY <1>0 DEF LoginIs, LoginRec
  <2>2. LoginIs'
    BY <1>0, <2>1, LoginRecs DEF LoginIs
  <2> QED
    BY <1>0, <1>3, <2>1, <2>2, SweepType, MemoryStep DEF SweepOne, ReqIs, AdminIs
<1>4. CASE CountSessions(s)
  <2>1. [pc |-> "create", sweep |-> {}] \in LoginRec
    BY DEF LoginRec
  <2>2. LoginIs'
    BY <1>0, <1>4, <2>1, LoginRecs DEF CountSessions, LoginIs
  <2> QED
    BY <1>0, <1>4, <2>2, ElsewhereStep
    DEF CountSessions, rowVars, eventVars, RowIs, EventIs, ReqIs, AdminIs, HistoryIs
<1>5. CASE CreateSession(s)
  <2>1. LoginIs'
    BY <1>0, <1>5, LoginRecs DEF CreateSession, LoginIs
  <2>2. RowIs'
    BY <1>0, <1>5, AgesType DEF CreateSession, RowIs
  <2> QED
    BY <1>0, <1>5, <2>1, <2>2, ElsewhereStep
    DEF CreateSession, eventVars, historyVars, EventIs, ReqIs, AdminIs, HistoryIs
<1>6. CASE RegisterFallback(s)
  <2>1. ConnectionsType'
    BY <1>0, <1>6, RegisterFallbackType DEF RegisterFallback, RowIs
  <2>2. MapsAgree'
    BY <1>0, <1>6 DEF RegisterFallback, RegisterSessionFallback, MapsAgree, Open
  <2>3. LoginIs'
    BY <1>0, <1>6, LoginRecs DEF RegisterFallback, LoginIs
  <2> QED
    BY <1>0, <1>6, <2>1, <2>2, <2>3, PresenceSame, MemoryStep DEF RegisterFallback, ReqIs, AdminIs
<1> QED
  BY <1>1, <1>2, <1>3, <1>4, <1>5, <1>6 DEF Login

LEMMA ServeSteps ==
  ASSUME Base, NEW r \in Requests, Serve(r) \/ ReadLeaderboard(r)
  PROVE  Base'
<1>0. PresenceType /\ ConnectionsType /\ MapsAgree /\ RowIs /\ EventIs
      /\ LoginIs /\ ReqIs /\ AdminIs /\ HistoryIs
  BY TypeParts DEF Base
<1> DEFINE s == req[r].session
<1>1. CASE Refresh(r)
  <2>1. s \in Sessions
    BY <1>0, <1>1, RequestKinds DEF Refresh
  <2>2. RowIs'
    BY <1>0, <1>1, <2>1, AgesType DEF Refresh, RowIs
  <2>3. ReqIs'
    BY <1>0, <1>1, <2>1, RequestRecs DEF Refresh, ReqIs
  <2>4. ConnectionsType' /\ MapsAgree'
    BY <1>0, <1>1, <2>1, RefreshConnsType, RefreshConnsMaps DEF Refresh
  <2>5. PresenceType' /\ EventIs' /\ LoginIs' /\ AdminIs' /\ HistoryIs'
    BY <1>0, <1>1, PresenceSame DEF Refresh, eventVars, historyVars, EventIs, LoginIs, AdminIs, HistoryIs
  <2> QED
    BY <2>2, <2>3, <2>4, <2>5, TypeParts DEF Base
<1>2. CASE ReadEvent(r)
  <2>1. s \in Sessions
    BY <1>0, <1>2, RequestKinds DEF ReadEvent
  <2>2. ReqIs'
    BY <1>0, <1>2, <2>1, RequestRecs DEF ReadEvent, ReqIs, EventIs
  <2> QED
    BY <1>0, <1>2, <2>2, ElsewhereStep
    DEF ReadEvent, rowVars, eventVars, historyVars, RowIs, EventIs, LoginIs, AdminIs, HistoryIs
<1>3. CASE Record(r)
  <2>1. s \in Sessions /\ owner[s] \in Participants /\ req[r].match \in Matches /\ req[r].ended \in BOOLEAN
    BY <1>0, <1>3, RequestKinds DEF Record, RowIs
  <2>2. PresenceType'
    BY <1>0, <1>3, <2>1, RecordHeartbeatType DEF Record
  <2> QED
    BY <1>0, <1>3, <2>2, DoneType, StreamsSame, MemoryStep DEF Record, LoginIs, AdminIs
<1>4. CASE OpenStream(r)
  <2>1. s \in Sessions /\ owner[s] \in Participants
    BY <1>0, <1>4, RequestKinds DEF OpenStream, RowIs
  <2>2. ConnectionsType' /\ MapsAgree'
    BY <1>0, <1>4, <2>1, RegisterClientType, RegisterClientMaps DEF OpenStream
  <2> QED
    BY <1>0, <1>4, <2>2, DoneType, PresenceSame, MemoryStep DEF OpenStream, LoginIs, AdminIs
<1>5. CASE Disconnect(r)
  <2>2. ConnectionsType' /\ MapsAgree'
    BY <1>0, <1>5, UnlinkType, UnlinkMaps DEF Disconnect, UnregisterSession
  <2> QED
    BY <1>0, <1>5, <2>2, DoneType, PresenceSame, MemoryStep DEF Disconnect, LoginIs, AdminIs
<1>6. CASE Logout(r)
  <2>1. s \in Sessions /\ owner[s] \in Participants /\ req[r] = [pc |-> req[r].pc, session |-> s]
    BY <1>0, <1>6, RequestKinds DEF Logout, RowIs
  <2>2. ConnectionsType' /\ MapsAgree' /\ PresenceType'
    BY <1>0, <1>6, <2>1, UnlinkType, UnlinkMaps, RecordLogoutType DEF Logout, UnregisterSession
  <2>3. [req[r] EXCEPT !.pc = "terminate"] = [pc |-> "terminate", session |-> s]
    BY <2>1
  <2>4. ReqIs'
    BY <1>0, <1>6, <2>1, <2>3, RequestRecs DEF Logout, ReqIs
  <2> QED
    BY <1>0, <1>6, <2>2, <2>4, MemoryStep DEF Logout, LoginIs, AdminIs
<1>7. CASE TerminateSession(r)
  <2>1. s \in Sessions /\ req[r] = [pc |-> req[r].pc, session |-> s]
    BY <1>0, <1>7, RequestKinds DEF TerminateSession
  <2>2. [req[r] EXCEPT !.pc = "beacon"] = [pc |-> "beacon", session |-> s]
    BY <2>1
  <2>3. ReqIs'
    BY <1>0, <1>7, <2>1, <2>2, RequestRecs DEF TerminateSession, ReqIs
  <2>4. RowIs'
    BY <1>0, <1>7, <2>1 DEF TerminateSession, RowIs
  <2> QED
    BY <1>0, <1>7, <2>3, <2>4, ElsewhereStep
    DEF TerminateSession, eventVars, historyVars, EventIs, LoginIs, AdminIs, HistoryIs
<1>8. CASE SweepRead(r)
  <2> PICK e \in req[r].sweep :
        /\ Sweep(e)
        /\ req' = [req EXCEPT ![r] =
             IF @.sweep = {e} THEN NoRequest ELSE [pc |-> "sweep", sweep |-> @.sweep \ {e}]]
    BY <1>8 DEF SweepRead
  <2>1. req[r].sweep \in SUBSET Sessions /\ req[r] = [pc |-> "sweep", sweep |-> req[r].sweep]
    BY <1>0, <1>8, RequestKinds DEF SweepRead
  <2>2. ReqIs'
    BY <1>0, <2>1, RequestRecs DEF ReqIs
  <2> QED
    BY <1>0, <1>8, <2>1, <2>2, SweepType, MemoryStep DEF SweepRead, LoginIs, AdminIs
<1>9. CASE ReadLeaderboard(r)
  <2>1. Stale \in SUBSET Sessions
    BY DEF Stale
  <2>2. ReqIs' /\ RowIs'
    BY <1>0, <1>9, <2>1, RequestRecs, ExpireStaleType DEF ReadLeaderboard, ReqIs
  <2> QED
    BY <1>0, <1>9, <2>2, ElsewhereStep
    DEF ReadLeaderboard, eventVars, historyVars, EventIs, LoginIs, AdminIs, HistoryIs
<1> QED
  BY <1>1, <1>2, <1>3, <1>4, <1>5, <1>6, <1>7, <1>8, <1>9 DEF Serve

LEMMA AdminSteps ==
  ASSUME Base, Administer \/ \E p \in Participants, v \in {"deactivate", "reactivate"} : CheckNotStarted(v, p)
  PROVE  Base'
<1>0. PresenceType /\ ConnectionsType /\ MapsAgree /\ RowIs /\ EventIs
      /\ LoginIs /\ ReqIs /\ AdminIs /\ HistoryIs
  BY TypeParts DEF Base
<1>p. admin.pc \in {"deactivate", "disconnect", "reactivate"} =>
        admin.participant \in Participants /\ admin = [pc |-> admin.pc, participant |-> admin.participant]
  BY <1>0 DEF AdminIs, NoAdmin
<1>1. ASSUME NEW p \in Participants, NEW v \in {"deactivate", "reactivate"}, CheckNotStarted(v, p)
      PROVE  Base'
  BY <1>0, <1>1, ElsewhereStep
  DEF CheckNotStarted, rowVars, eventVars, historyVars, RowIs, EventIs, LoginIs, ReqIs, AdminIs, HistoryIs
<1>2. CASE Deactivate
  <2>1. [admin EXCEPT !.pc = "disconnect"] = [pc |-> "disconnect", participant |-> admin.participant]
    BY <1>p, <1>2 DEF Deactivate
  <2>2. AdminIs'
    BY <1>p, <1>2, <2>1 DEF Deactivate, AdminIs
  <2>3. RowIs'
    BY <1>0, <1>2 DEF Deactivate, RowIs
  <2>4. HistoryIs'
    BY <1>0, <1>2 DEF Deactivate, HistoryIs
  <2> QED
    BY <1>0, <1>2, <2>2, <2>3, <2>4, ElsewhereStep DEF Deactivate, eventVars, EventIs, LoginIs, ReqIs
<1>3. CASE DisconnectDeactivated
  <2>1. ConnectionsType' /\ MapsAgree'
    BY <1>0, <1>3, UnlinkType, UnlinkMaps DEF DisconnectDeactivated, DisconnectParticipant
  <2> QED
    BY <1>0, <1>3, <2>1, PresenceSame, MemoryStep DEF DisconnectDeactivated, LoginIs, ReqIs, AdminIs
<1>4. CASE Reactivate
  BY <1>0, <1>4, ElsewhereStep
  DEF Reactivate, eventVars, historyVars, RowIs, EventIs, LoginIs, ReqIs, AdminIs, HistoryIs
<1> QED
  BY <1>1, <1>2, <1>3, <1>4 DEF Administer

LEMMA EventSteps ==
  ASSUME Base, Event
  PROVE  Base'
<1>0. PresenceType /\ ConnectionsType /\ MapsAgree /\ RowIs /\ EventIs
      /\ LoginIs /\ ReqIs /\ AdminIs /\ HistoryIs
  BY TypeParts DEF Base
<1>1. CASE StartEvent \/ EndEvent \/ CommitMatch \/ AbortMatch
  BY <1>0, <1>1, ElsewhereStep
  DEF StartEvent, EndEvent, CommitMatch, AbortMatch, rowVars, flightVars, historyVars,
      RowIs, EventIs, LoginIs, ReqIs, AdminIs, HistoryIs
<1>2. ASSUME NEW m \in Matches, EndPresence(m) PROVE Base'
  <2>1. PresenceType'
    BY <1>0, <1>2, MatchEndedType DEF EndPresence
  <2>2. EventIs'
    BY <1>0, <1>2 DEF EndPresence, EventIs
  <2>3. ConnectionsType' /\ MapsAgree'
    BY <1>0, <1>2, StreamsSame DEF EndPresence
  <2>4. RowIs' /\ LoginIs' /\ ReqIs' /\ AdminIs' /\ HistoryIs'
    BY <1>0, <1>2 DEF EndPresence, rowVars, flightVars, historyVars, RowIs, LoginIs, ReqIs, AdminIs, HistoryIs
  <2> QED
    BY <2>1, <2>2, <2>3, <2>4, TypeParts DEF Base
<1>3. CASE AnnounceMatch
  <2>1. PresenceType'
    BY <1>0, <1>3, MatchChangeType DEF AnnounceMatch
  <2>2. EventIs'
    BY <1>0, <1>3 DEF AnnounceMatch, EventIs
  <2>3. ConnectionsType' /\ MapsAgree'
    BY <1>0, <1>3, StreamsSame DEF AnnounceMatch
  <2>4. RowIs' /\ LoginIs' /\ ReqIs' /\ AdminIs' /\ HistoryIs'
    BY <1>0, <1>3 DEF AnnounceMatch, rowVars, flightVars, historyVars, RowIs, LoginIs, ReqIs, AdminIs, HistoryIs
  <2> QED
    BY <2>1, <2>2, <2>3, <2>4, TypeParts DEF Base
<1> QED
  BY <1>1, <1>2, <1>3 DEF Event

LEMMA ArrivalSteps ==
  ASSUME Base, NEW s \in Sessions, NEW r \in Requests, NEW k \in Kinds, Arrive(r, k, s)
  PROVE  Base'
<1>0. PresenceType /\ ConnectionsType /\ MapsAgree /\ RowIs /\ EventIs
      /\ LoginIs /\ ReqIs /\ AdminIs /\ HistoryIs
  BY TypeParts DEF Base
<1>1. ReqIs'
  BY <1>0, RequestRecs, ParticipationAssumption DEF Arrive, ReqIs
<1> QED
  BY <1>0, <1>1, ElsewhereStep
  DEF Arrive, rowVars, eventVars, historyVars, RowIs, EventIs, LoginIs, AdminIs, HistoryIs

LEMMA TimeSteps ==
  ASSUME Base, Tick \/ PresenceTimer \/ SafetyNet \/ Restart \/ \E c \in Conns : CloseStream(c)
  PROVE  Base'
<1>0. PresenceType /\ ConnectionsType /\ MapsAgree /\ RowIs /\ EventIs
      /\ LoginIs /\ ReqIs /\ AdminIs /\ HistoryIs
  BY TypeParts DEF Base
<1>1. CASE Tick
  <2>1. PresenceType' /\ ConnectionsType' /\ MapsAgree'
    BY <1>0, <1>1, PresenceAgesType, ConnectionsAgeType, ConnectionsAgeMaps DEF Tick
  <2>2. RowIs'
    BY <1>0, <1>1, AgesType DEF Tick, RowIs
  <2>3. EventIs' /\ LoginIs' /\ ReqIs' /\ AdminIs' /\ HistoryIs'
    BY <1>0, <1>1 DEF Tick, eventVars, flightVars, historyVars, EventIs, LoginIs, ReqIs, AdminIs, HistoryIs
  <2> QED
    BY <2>1, <2>2, <2>3, TypeParts DEF Base
<1>2. CASE PresenceTimer
  BY <1>0, <1>2, CheckExpirationsType, StreamsSame, MemoryStep DEF PresenceTimer, flightVars, LoginIs, ReqIs, AdminIs
<1>3. CASE SafetyNet
  BY <1>0, <1>3, UnlinkType, UnlinkMaps, PresenceSame, MemoryStep
  DEF SafetyNet, PruneStaleConnections, flightVars, LoginIs, ReqIs, AdminIs
<1>4. CASE Restart
  <2>1. PresenceType' /\ ConnectionsType' /\ MapsAgree'
    BY <1>4, PresenceRestartsType, ConnectionsRestartType, ConnectionsRestartMaps DEF Restart
  <2>2. RowIs' /\ EventIs' /\ LoginIs' /\ ReqIs' /\ AdminIs' /\ HistoryIs'
    BY <1>0, <1>4, LoginRecs, RequestRecs
    DEF Restart, rowVars, historyVars, RowIs, EventIs, LoginIs, ReqIs, AdminIs, HistoryIs
  <2> QED
    BY <2>1, <2>2, TypeParts DEF Base
<1>5. ASSUME NEW c \in Conns, CloseStream(c) PROVE Base'
  BY <1>0, <1>5, UnlinkType, UnlinkMaps, PresenceSame, MemoryStep
  DEF CloseStream, HandleClientDisconnect, flightVars, LoginIs, ReqIs, AdminIs
<1> QED
  BY <1>1, <1>2, <1>3, <1>4, <1>5

LEMMA BaseStep == Base /\ [Next]_vars => Base'
<1>1. Base /\ UNCHANGED vars => Base'
  <2> SUFFICES ASSUME Base, UNCHANGED vars PROVE Base'
    OBVIOUS
  <2> QED
    BY TypeParts, ElsewhereStep
    DEF Base, vars, rowVars, eventVars, flightVars, historyVars, RowIs, EventIs, LoginIs, ReqIs, AdminIs, HistoryIs
<1> QED
  BY <1>1, LoginSteps, ServeSteps, AdminSteps, EventSteps, ArrivalSteps, TimeSteps DEF Next

LEMMA BaseAlways == Spec => []Base
  BY BaseInit, BaseStep, PTL DEF Spec

\* Every variable keeps its type.
THEOREM TypeCorrect == Spec => []TypeOK
<1>1. Base => TypeOK
  BY DEF Base
<1> QED
  BY <1>1, BaseAlways, PTL

\* The maps agree on which streams are open, whatever closes them and however often.
THEOREM StreamsInEveryMap == Spec => []MapsAgree
<1>1. Base => MapsAgree
  BY DEF Base
<1> QED
  BY <1>1, BaseAlways, PTL

-----------------------------------------------------------------------------
(* One session *)

\* A login that has not created its session has no row yet; one that is about to
\* create it has counted no other, and nobody else is about to.
LoggingIn(s) ==
  /\ login[s].pc \in {"clean", "sweep", "create"} => status[s] = "NONE"
  /\ login[s].pc = "create" =>
       \A o \in Sessions : owner[o] = owner[s] /\ o # s => ~Active(o) /\ login[o].pc # "create"

Alone == OneSession /\ (overlap \/ \A s \in Sessions : LoggingIn(s))

\* Steps that start or end no session, and after which no login is nearer to its end.
Settled ==
  /\ UNCHANGED <<owner, overlap>>
  /\ \A s \in Sessions :
       /\ Active(s)' => Active(s)
       /\ status[s] = "NONE" => status'[s] = "NONE"
       /\ login'[s].pc \in {"clean", "sweep"} => status[s] = "NONE"
       /\ login'[s].pc = "create" => login[s].pc = "create"

LEMMA SettledAlone == Alone /\ Settled => Alone'
  BY DEF Alone, OneSession, LoggingIn, Settled, Active

LEMMA SameSettled ==
  ASSUME Alone, ~overlap, UNCHANGED <<owner, overlap, login>>,
         \A s \in Sessions : (Active(s)' => Active(s)) /\ (status[s] = "NONE" => status'[s] = "NONE")
  PROVE  Settled
  BY DEF Alone, LoggingIn, Settled

\* A session that logs out exists.
Known == \A r \in Requests : req[r].pc \in {"logout", "terminate"} => status[req[r].session] # "NONE"

LEMMA KnownStep == Base /\ Known /\ [Next]_vars => Known'
<1> SUFFICES ASSUME Base, Known, [Next]_vars, NEW r \in Requests, req'[r].pc \in {"logout", "terminate"}
             PROVE  status'[req'[r].session] # "NONE"
  BY DEF Known
<1>0. RowIs /\ LoginIs /\ ReqIs
  BY TypeParts DEF Base
<1>1. \A s \in Sessions : status[s] # "NONE" => status'[s] # "NONE"
  BY <1>0
  DEF Next, VerifyLogin, Login, CleanUp, SweepOne, CountSessions, CreateSession, RegisterFallback,
      Arrive, Serve, Refresh, ReadEvent, Record, OpenStream, Disconnect, Logout, TerminateSession,
      SweepRead, ReadLeaderboard, CloseStream, CheckNotStarted, Administer, Deactivate,
      DisconnectDeactivated, Reactivate, Event, StartEvent, EndEvent, EndPresence, AnnounceMatch,
      CommitMatch, AbortMatch, Tick, PresenceTimer, SafetyNet, Restart, rowVars, vars,
      ExpireStale, Active, RowIs
<1>2. ASSUME req'[r].session \in Sessions, status[req'[r].session] # "NONE"
      PROVE  status'[req'[r].session] # "NONE"
  BY <1>1, <1>2
<1>3. CASE req'[r] = req[r]
  BY <1>0, <1>1, <1>3, RequestKinds DEF Known
<1>4. ASSUME NEW s \in Sessions, NEW k \in Kinds, Arrive(r, k, s) PROVE req'[r].session = s /\ status[s] # "NONE"
  BY <1>0, <1>4 DEF Arrive, Active, ReqIs
<1>5. CASE Serve(r) \/ ReadLeaderboard(r)
  <2>1. CASE Logout(r)
    <3>1. req'[r].session = req[r].session /\ req[r].pc = "logout"
      BY <1>0, <2>1, RequestKinds DEF Logout, ReqIs
    <3> QED
      BY <1>0, <1>1, <3>1, RequestKinds DEF Known
  <2>2. CASE ~Logout(r)
    <3>1. req'[r].pc \notin {"logout", "terminate"}
      BY <1>0, <1>5, <2>2, RequestKinds
      DEF Serve, Refresh, ReadEvent, Record, OpenStream, Disconnect, TerminateSession, SweepRead,
          ReadLeaderboard, Done, NoRequest, ReqIs
    <3> QED
      BY <3>1
  <2> QED
    BY <2>1, <2>2
<1>6. CASE Restart
  BY <1>6 DEF Restart, NoRequest
<1>7. CASE ~Restart /\ ~Serve(r) /\ ~ReadLeaderboard(r) /\ \A s \in Sessions, k \in Kinds : ~Arrive(r, k, s)
  <2>1. CASE \E q \in Requests : Serve(q) \/ ReadLeaderboard(q)
             \/ \E k \in Kinds, s \in Sessions : Arrive(q, k, s)
    <3>1. PICK q \in Requests : Serve(q) \/ ReadLeaderboard(q)
                                \/ \E k \in Kinds, s \in Sessions : Arrive(q, k, s)
      BY <2>1
    <3>2. q # r
      BY <1>7, <3>1
    <3> QED
      BY <1>0, <1>3, <3>1, <3>2
      DEF Serve, Refresh, ReadEvent, Record, OpenStream, Disconnect, Logout, TerminateSession,
          SweepRead, ReadLeaderboard, Arrive, Done, ReqIs
  <2>2. CASE ~\E q \in Requests : Serve(q) \/ ReadLeaderboard(q)
              \/ \E k \in Kinds, s \in Sessions : Arrive(q, k, s)
    <3>1. UNCHANGED req
      BY <1>7, <2>2
      DEF Next, VerifyLogin, Login, CleanUp, SweepOne, CountSessions, CreateSession, RegisterFallback,
          CloseStream, CheckNotStarted, Administer, Deactivate, DisconnectDeactivated, Reactivate,
          Event, StartEvent, EndEvent, EndPresence, AnnounceMatch, CommitMatch, AbortMatch, Tick,
          PresenceTimer, SafetyNet, flightVars, vars
    <3> QED
      BY <1>3, <3>1
  <2> QED
    BY <2>1, <2>2
<1> QED
  BY <1>2, <1>4, <1>5, <1>6, <1>7

LEMMA AloneStep == Base /\ Known /\ Alone /\ [Next]_vars => Alone'
<1> SUFFICES ASSUME Base, Known, Alone, [Next]_vars, ~overlap PROVE Alone'
  <2>1. overlap /\ [Next]_vars => overlap'
    BY DEF Next, VerifyLogin, Login, CleanUp, SweepOne, CountSessions, CreateSession, RegisterFallback,
           Arrive, Serve, Refresh, ReadEvent, Record, OpenStream, Disconnect, Logout, TerminateSession,
           SweepRead, ReadLeaderboard, CloseStream, CheckNotStarted, Administer, Deactivate,
           DisconnectDeactivated, Reactivate, Event, StartEvent, EndEvent, EndPresence, AnnounceMatch,
           CommitMatch, AbortMatch, Tick, PresenceTimer, SafetyNet, Restart, historyVars, vars
  <2> QED
    BY <2>1 DEF Alone, OneSession
<1>0. RowIs /\ LoginIs /\ ReqIs
  BY TypeParts DEF Base
<1>1. ASSUME NEW s \in Sessions, VerifyLogin(s) PROVE Alone'
  <2>1. login'[s].pc = "clean" /\ \A o \in Sessions \ {s} : login'[o] = login[o]
    BY <1>0, <1>1 DEF VerifyLogin, LoginIs
  <2>2. Settled
    BY <1>1, <2>1 DEF VerifyLogin, Settled, Alone, LoggingIn, rowVars, historyVars, Active
  <2> QED
    BY <2>2, SettledAlone
<1>2. ASSUME NEW s \in Sessions, CleanUp(s) \/ SweepOne(s) PROVE Alone'
  <2>1. login[s].pc \in {"clean", "sweep"} /\ login'[s].pc = "sweep" /\ \A o \in Sessions \ {s} : login'[o] = login[o]
    <3>1. CASE CleanUp(s)
      BY <1>0, <3>1 DEF CleanUp, LoginIs
    <3>2. CASE SweepOne(s)
      BY <1>0, <3>2 DEF SweepOne, LoginIs, LoginRec
    <3> QED
      BY <1>2, <3>1, <3>2
  <2>2. Settled
    BY <1>0, <1>2, <2>1
    DEF CleanUp, SweepOne, ExpireStale, Stale, Settled, Alone, LoggingIn, rowVars, historyVars, Active, RowIs
  <2> QED
    BY <2>2, SettledAlone
<1>3. ASSUME NEW s \in Sessions, CountSessions(s) PROVE Alone'
  <2>1. CASE Rivals(s) # {}
    <3>1. login'[s].pc = "idle" /\ \A o \in Sessions \ {s} : login'[o] = login[o]
      BY <1>0, <1>3, <2>1, LoginRecs DEF CountSessions, LoginIs
    <3> QED
      BY <1>3, <3>1 DEF CountSessions, Alone, OneSession, LoggingIn, rowVars, Active
  <2>2. CASE Rivals(s) = {}
    <3>1. login'[s].pc = "create" /\ \A o \in Sessions \ {s} : login'[o] = login[o]
      BY <1>0, <1>3, <2>2 DEF CountSessions, LoginIs
    <3>2. overlap' \/ \A o \in Sessions : owner[o] = owner[s] /\ o # s => ~Active(o) /\ login[o].pc # "create"
      BY <1>3, <2>2 DEF CountSessions, Rivals, SessionsOf
    <3> QED
      BY <1>3, <3>1, <3>2 DEF CountSessions, Alone, OneSession, LoggingIn, rowVars, Active
  <2> QED
    BY <2>1, <2>2
<1>4. ASSUME NEW s \in Sessions, CreateSession(s) PROVE Alone'
  <2>1. login'[s].pc = "fallback" /\ \A o \in Sessions \ {s} : login'[o] = login[o]
    BY <1>0, <1>4 DEF CreateSession, LoginIs, LoginRec
  <2>2. status'[s] = "ACTIVE" /\ \A o \in Sessions \ {s} : status'[o] = status[o]
    BY <1>0, <1>4 DEF CreateSession, RowIs
  <2>3. LoggingIn(s) /\ login[s].pc = "create"
    BY <1>4 DEF CreateSession, Alone
  <2> QED
    BY <1>4, <2>1, <2>2, <2>3 DEF CreateSession, Alone, OneSession, LoggingIn, historyVars, Active
<1>5. ASSUME NEW s \in Sessions, RegisterFallback(s) PROVE Alone'
  <2>1. login'[s].pc = "idle" /\ \A o \in Sessions \ {s} : login'[o] = login[o]
    BY <1>0, <1>5, LoginRecs DEF RegisterFallback, LoginIs
  <2>2. Settled
    BY <1>5, <2>1 DEF RegisterFallback, Settled, Alone, LoggingIn, rowVars, historyVars, Active
  <2> QED
    BY <2>2, SettledAlone
<1>6. ASSUME NEW r \in Requests, Serve(r) \/ ReadLeaderboard(r) \/ \E s \in Sessions, k \in Kinds : Arrive(r, k, s)
      PROVE  Alone'
  <2>1. UNCHANGED <<owner, overlap, login>>
    BY <1>6 DEF Serve, Refresh, ReadEvent, Record, OpenStream, Disconnect, Logout, TerminateSession, SweepRead,
                ReadLeaderboard, Arrive, rowVars, historyVars
  <2>2. ASSUME NEW s \in Sessions
        PROVE  (Active(s)' => Active(s)) /\ (status[s] = "NONE" => status'[s] = "NONE")
    <3>1. CASE UNCHANGED status
      BY <3>1 DEF Active
    <3>2. CASE ReadLeaderboard(r)
      BY <3>2 DEF ReadLeaderboard, ExpireStale, Stale, Active
    <3>3. CASE TerminateSession(r)
      <4>1. status'[s] = IF s = req[r].session THEN "TERMINATED" ELSE status[s]
        BY <1>0, <3>3 DEF TerminateSession, RowIs
      <4>2. status[req[r].session] # "NONE"
        BY <3>3 DEF TerminateSession, Known
      <4> QED
        BY <4>1, <4>2 DEF Active
    <3> QED
      BY <1>6, <3>1, <3>2, <3>3
      DEF Serve, Refresh, ReadEvent, Record, OpenStream, Disconnect, Logout, SweepRead, Arrive, rowVars
  <2> QED
    BY <2>1, <2>2, SameSettled, SettledAlone
<1>7. CASE Administer \/ \E p \in Participants, v \in {"deactivate", "reactivate"} : CheckNotStarted(v, p)
  <2>1. UNCHANGED <<owner, overlap, login>>
    BY <1>7 DEF Administer, Deactivate, DisconnectDeactivated, Reactivate, CheckNotStarted, rowVars, historyVars
  <2>2. ASSUME NEW s \in Sessions
        PROVE  (Active(s)' => Active(s)) /\ (status[s] = "NONE" => status'[s] = "NONE")
    BY <1>7 DEF Administer, Deactivate, DisconnectDeactivated, Reactivate, CheckNotStarted, rowVars, Active
  <2> QED
    BY <2>1, <2>2, SameSettled, SettledAlone
<1>8. CASE Event \/ Tick \/ PresenceTimer \/ SafetyNet \/ (\E c \in Conns : CloseStream(c)) \/ UNCHANGED vars
  <2>1. UNCHANGED <<owner, overlap, login, status>>
    BY <1>8 DEF Event, StartEvent, EndEvent, EndPresence, AnnounceMatch, CommitMatch, AbortMatch, Tick,
                PresenceTimer, SafetyNet, CloseStream, rowVars, flightVars, historyVars, vars
  <2> QED
    BY <2>1, SameSettled, SettledAlone DEF Active
<1>9. CASE Restart
  <2>1. Settled
    BY <1>9, LoginRecs DEF Restart, Settled, rowVars, historyVars, Active
  <2> QED
    BY <2>1, SettledAlone
<1> QED
  BY <1>1, <1>2, <1>3, <1>4, <1>5, <1>6, <1>7, <1>8, <1>9 DEF Next, Login

\* Only logins that count at the same time give a competitor two sessions.
THEOREM OneSessionAlways == Spec => []OneSession
<1>1. Init => Known /\ Alone
  <2> SUFFICES ASSUME Init PROVE Known /\ Alone
    OBVIOUS
  <2>1. \A s \in Sessions : status[s] = "NONE" /\ login[s].pc = "idle"
    BY LoginRecs DEF Init
  <2>2. \A r \in Requests : req[r].pc = "idle"
    BY DEF Init, NoRequest
  <2> QED
    BY <2>1, <2>2 DEF Known, Alone, OneSession, LoggingIn, Active
<1>2. Base /\ Known /\ Alone /\ [Next]_vars => (Known /\ Alone)'
  BY KnownStep, AloneStep
<1>3. Alone => OneSession
  BY DEF Alone
<1> QED
  BY <1>1, <1>2, <1>3, BaseAlways, PTL DEF Spec

-----------------------------------------------------------------------------
(* No session of the inactive *)

Admitted ==
  straddle \/ \A s \in Sessions : Active(s) \/ login[s].pc # "idle" => account[owner[s]]

LEMMA AdmittedStep == Base /\ Admitted /\ [Next]_vars => Admitted'
<1> SUFFICES ASSUME Base, Admitted, [Next]_vars, ~straddle, ~straddle', NEW s \in Sessions,
                    Active(s)' \/ login'[s].pc # "idle"
             PROVE  account'[owner'[s]]
  <2>1. straddle /\ [Next]_vars => straddle'
    BY DEF Next, VerifyLogin, Login, CleanUp, SweepOne, CountSessions, CreateSession, RegisterFallback,
           Arrive, Serve, Refresh, ReadEvent, Record, OpenStream, Disconnect, Logout, TerminateSession,
           SweepRead, ReadLeaderboard, CloseStream, CheckNotStarted, Administer, Deactivate,
           DisconnectDeactivated, Reactivate, Event, StartEvent, EndEvent, EndPresence, AnnounceMatch,
           CommitMatch, AbortMatch, Tick, PresenceTimer, SafetyNet, Restart, historyVars, vars
  <2> QED
    BY <2>1 DEF Admitted
<1>0. RowIs /\ LoginIs /\ ReqIs /\ AdminIs
  BY TypeParts DEF Base
<1>1. owner' = owner
  BY DEF Next, VerifyLogin, Login, CleanUp, SweepOne, CountSessions, CreateSession, RegisterFallback,
         Arrive, Serve, Refresh, ReadEvent, Record, OpenStream, Disconnect, Logout, TerminateSession,
         SweepRead, ReadLeaderboard, CloseStream, CheckNotStarted, Administer, Deactivate,
         DisconnectDeactivated, Reactivate, Event, StartEvent, EndEvent, EndPresence, AnnounceMatch,
         CommitMatch, AbortMatch, Tick, PresenceTimer, SafetyNet, Restart, rowVars, vars
<1>2. CASE Deactivate
  <2>1. login'[s].pc = "idle" \/ owner[s] # admin.participant
    BY <1>2 DEF Deactivate, SessionsOf
  <2>2. owner[s] = admin.participant => ~Active(s)'
    BY <1>2 DEF Deactivate, SessionsOf, Active
  <2>3. owner[s] # admin.participant /\ (Active(s) \/ login[s].pc # "idle")
    BY <1>2, <2>1, <2>2 DEF Deactivate, SessionsOf, Active
  <2> QED
    BY <1>0, <1>1, <1>2, <2>3 DEF Deactivate, Admitted, RowIs
<1>3. CASE Reactivate
  <2>1. Active(s) \/ login[s].pc # "idle"
    BY <1>3 DEF Reactivate, Active
  <2>2. account[owner[s]]
    BY <2>1 DEF Admitted
  <2> QED
    BY <1>0, <1>1, <1>3, <2>2 DEF Reactivate, RowIs
<1>4. CASE ~Deactivate /\ ~Reactivate
  <2>1. account' = account
    BY <1>4
    DEF Next, VerifyLogin, Login, CleanUp, SweepOne, CountSessions, CreateSession, RegisterFallback,
        Arrive, Serve, Refresh, ReadEvent, Record, OpenStream, Disconnect, Logout, TerminateSession,
        SweepRead, ReadLeaderboard, CloseStream, CheckNotStarted, Administer,
        DisconnectDeactivated, Event, StartEvent, EndEvent, EndPresence, AnnounceMatch,
        CommitMatch, AbortMatch, Tick, PresenceTimer, SafetyNet, Restart, rowVars, vars
  <2>2. CASE \E o \in Sessions : VerifyLogin(o)
    BY <1>0, <1>1, <2>1, <2>2 DEF VerifyLogin, Admitted, rowVars, Active, LoginIs
  <2>3. CASE \E o \in Sessions : CreateSession(o)
    <3>1. Active(s) \/ login[s].pc # "idle"
      BY <1>0, <2>3 DEF CreateSession, Active, RowIs, LoginIs
    <3> QED
      BY <1>1, <2>1, <3>1 DEF Admitted
  <2>4. CASE \E o \in Sessions : CleanUp(o) \/ SweepOne(o) \/ CountSessions(o) \/ RegisterFallback(o)
    <3>1. Active(s) \/ login[s].pc # "idle"
      BY <1>0, <2>4, LoginRecs
      DEF CleanUp, SweepOne, CountSessions, RegisterFallback, ExpireStale, Active, LoginIs, rowVars
    <3> QED
      BY <1>1, <2>1, <3>1 DEF Admitted
  <2>5. CASE \A o \in Sessions : ~VerifyLogin(o) /\ ~Login(o)
    <3>1. Active(s) \/ login[s].pc # "idle"
      BY <1>0, <1>4, <2>5, LoginRecs
      DEF Next, Arrive, Serve, Refresh, ReadEvent, Record, OpenStream, Disconnect, Logout, TerminateSession,
          SweepRead, ReadLeaderboard, CloseStream, CheckNotStarted, Administer,
          DisconnectDeactivated, Event, StartEvent, EndEvent, EndPresence, AnnounceMatch,
          CommitMatch, AbortMatch, Tick, PresenceTimer, SafetyNet, Restart, rowVars, flightVars, vars,
          ExpireStale, Active, RowIs, LoginIs
    <3> QED
      BY <1>1, <2>1, <3>1 DEF Admitted
  <2> QED
    BY <2>2, <2>3, <2>4, <2>5 DEF Login
<1> QED
  BY <1>2, <1>3, <1>4

\* A competitor who is deactivated keeps no session but one whose login was under way.
THEOREM NoSessionOfInactive == Spec => []NoneInactive
<1>1. Init => Admitted
  BY LoginRecs DEF Init, Admitted, RowIs
<1>2. Admitted => NoneInactive
  BY DEF Admitted, NoneInactive
<1> QED
  BY <1>1, <1>2, AdmittedStep, BaseAlways, PTL DEF Spec

-----------------------------------------------------------------------------
(* What spectators are told *)

\* A record says that its competitor was online as long as that is so, until the
\* match ends.
MarkedFor(m, p) ==
  seen[m][p] # None =>
    IF m \in closed THEN seen[m][p].wasOnline = FALSE
    ELSE seen[m][p].age <= OnlineLimit => seen[m][p].wasOnline = TRUE

ToldFor(m, p) ==
  /\ Online(p, m) => p \in told[m]
  /\ p \in told[m] => Online(p, m) \/ Lapsed(m, p) \/ p \in unsaid[m]

Fine(m) == \A p \in Participants : MarkedFor(m, p) /\ ToldFor(m, p)

\* Of a match that nobody has played nothing has been told.
Unplayed(m) == told[m] = {} /\ \A p \in Participants : seen[m][p] = None

LEMMA UnplayedIsFine == \A m \in Matches : Unplayed(m) => Fine(m)
  BY DEF Unplayed, Fine, MarkedFor, ToldFor, Online, Recent

\* Steps that leave a match alone.
SameIn(m) ==
  /\ seen'[m] = seen[m] /\ told'[m] = told[m] /\ unsaid'[m] = unsaid[m]
  /\ m \in closed' <=> m \in closed

LEMMA SameInFine ==
  ASSUME NEW m \in Matches, SameIn(m)
  PROVE  (Fine(m) => Fine(m)') /\ (Unplayed(m) => Unplayed(m)')
  BY DEF SameIn, Fine, Unplayed, MarkedFor, ToldFor, Online, Recent, Lapsed

\* A message about a match says what is so.
LEMMA BroadcastTells ==
  ASSUME NEW ms, NEW m \in Matches, BroadcastIf(ms)
  PROVE  /\ m \in ms => \A p \in Participants : ToldFor(m, p)'
         /\ m \notin ms => told'[m] = told[m] /\ unsaid'[m] = unsaid[m]
         /\ m \in ms /\ (\A p \in Participants : seen'[m][p] = None) => told'[m] = {}
<1>1. CASE m \in ms
  <2>1. told'[m] = {p \in Participants : Online(p, m)'}
    BY <1>1 DEF BroadcastIf, Snapshot
  <2> QED
    BY <1>1, <2>1 DEF ToldFor, Online, Recent
<1>2. CASE m \notin ms
  BY <1>2 DEF BroadcastIf
<1> QED
  BY <1>1, <1>2

LEMMA RecordHeartbeatFine ==
  ASSUME PresenceType, NEW p \in Participants, NEW s \in Sessions, NEW n \in Matches, NEW ended \in BOOLEAN,
         RecordHeartbeat(p, s, n, ended), NEW m \in Matches
  PROVE  (Fine(m) => Fine(m)') /\ (m # n /\ Unplayed(m) => Unplayed(m)')
<1>1. CASE ended \/ n \in closed
  BY <1>1, SameInFine DEF RecordHeartbeat, presenceVars, SameIn
<1>2. CASE ~(ended \/ n \in closed) /\ m # n
  <2>1. BroadcastIf(IF Recent(seen[n][p]) THEN {} ELSE {n}) /\ seen'[m] = seen[m] /\ closed' = closed
    BY <1>2 DEF RecordHeartbeat, PresenceType
  <2>2. told'[m] = told[m] /\ unsaid'[m] = unsaid[m]
    BY <1>2, <2>1, BroadcastTells
  <2> QED
    BY <2>1, <2>2, SameInFine DEF SameIn
<1>3. CASE ~(ended \/ n \in closed) /\ m = n
  <2> SUFFICES ASSUME Fine(m), NEW q \in Participants PROVE MarkedFor(m, q)' /\ ToldFor(m, q)'
    BY <1>3 DEF Fine
  <2>1. closed' = closed /\ m \notin closed
    BY <1>3 DEF RecordHeartbeat
  <2>2. seen'[m][q] = IF q = p THEN Seen(s, 0, TRUE) ELSE seen[m][q]
    <3>1. seen' = [seen EXCEPT ![m] = [seen[m] EXCEPT ![p] = Seen(s, 0, TRUE)]]
      BY <1>3 DEF RecordHeartbeat
    <3> QED
      BY <3>1 DEF PresenceType
  <2>s. Seen(s, 0, TRUE) # None /\ Seen(s, 0, TRUE).wasOnline = TRUE /\ Seen(s, 0, TRUE).age = 0
    BY AgesType, SeenType
  <2>3. MarkedFor(m, q)'
    BY <2>1, <2>2, <2>s DEF MarkedFor, Fine
  <2>4. CASE ~Recent(seen[n][p])
    BY <1>3, <2>3, <2>4, BroadcastTells DEF RecordHeartbeat
  <2>5. CASE Recent(seen[n][p])
    <3>1. told'[m] = told[m] /\ unsaid'[m] = unsaid[m]
      BY <1>3, <2>5, BroadcastTells, SMTT(20) DEF RecordHeartbeat
    <3>2. CASE q = p
      <4>1. Online(q, m) /\ Online(q, m)'
        <5>1. Recent(seen[m][p]) /\ Online(p, m)
          BY <1>3, <2>1, <2>5 DEF Online
        <5>2. seen'[m][p] = Seen(s, 0, TRUE)
          BY <2>2, <3>2
        <5>0. 0 <= OnlineLimit
          BY AttendanceAssumption
        <5>3. seen'[m][p] # None /\ seen'[m][p].age = 0
          BY <2>s, <5>2
        <5> QED
          BY <2>1, <3>2, <5>0, <5>1, <5>3 DEF Online, Recent
      <4> QED
        BY <2>3, <3>1, <4>1 DEF ToldFor, Fine
    <3>3. CASE q # p
      BY <2>1, <2>2, <2>3, <3>1, <3>3 DEF ToldFor, Fine, Online, Recent, Lapsed
    <3> QED
      BY <3>2, <3>3
  <2> QED
    BY <2>4, <2>5
<1> QED
  BY <1>1, <1>2, <1>3

LEMMA GoneIs ==
  ASSUME NEW r \in SeenRec \cup {None}
  PROVE  IF r = None THEN Gone(r) = None
         ELSE Gone(r) # None /\ Gone(r).age = MaxAge /\ Gone(r).wasOnline = FALSE
<1>1. CASE r = None
  BY <1>1 DEF Gone
<1>2. CASE r # None
  <2>1. r.session \in Sessions
    BY <1>2 DEF SeenRec
  <2> QED
    BY <1>2, <2>1, AgesType, SeenType DEF Gone
<1> QED
  BY <1>1, <1>2

LEMMA GoOfflineFine ==
  ASSUME PresenceType, NEW p \in Participants, NEW ms \in SUBSET Matches, NEW tell, GoOffline(p, ms, tell),
         UNCHANGED closed, NEW m \in Matches,
         m \in ms /\ Recent(seen[m][p]) /\ seen[m][p].wasOnline => m \in tell
  PROVE  (Fine(m) => Fine(m)') /\ (Unplayed(m) => Unplayed(m)')
<1> DEFINE changed == {k \in ms : Recent(seen[k][p]) /\ seen[k][p].wasOnline}
           heard == tell \cap changed
<1>0. /\ seen' = [k \in Matches |-> IF k \in ms THEN [seen[k] EXCEPT ![p] = Gone(@)] ELSE seen[k]]
      /\ told' = [k \in Matches |-> IF k \in heard THEN Snapshot(k)' ELSE told[k]]
      /\ unsaid' = [k \in Matches |->
           IF k \in heard THEN {} ELSE IF k \in ms /\ Lapsed(k, p) THEN unsaid[k] \cup {p} ELSE unsaid[k]]
  BY DEF GoOffline
<1>1. CASE m \notin ms
  BY <1>0, <1>1, SameInFine DEF SameIn
<1>2. CASE m \in ms
  <2>1. \A q \in Participants : seen'[m][q] = IF q = p THEN Gone(seen[m][q]) ELSE seen[m][q]
    BY <1>0, <1>2 DEF PresenceType
  <2>2. IF seen[m][p] = None THEN Gone(seen[m][p]) = None
        ELSE /\ Gone(seen[m][p]) # None /\ Gone(seen[m][p]).age = MaxAge
             /\ Gone(seen[m][p]).wasOnline = FALSE
    BY GoneIs DEF PresenceType
  <2>3. OnlineLimit < MaxAge /\ OnlineLimit \in Nat /\ MaxAge \in Nat
    BY AttendanceAssumption
  <2>4. ASSUME Unplayed(m) PROVE Unplayed(m)'
    BY <1>0, <2>1, <2>2, <2>4 DEF Unplayed, Recent
  <2>5. ASSUME Fine(m), NEW q \in Participants PROVE MarkedFor(m, q)' /\ ToldFor(m, q)'
    <3>1. MarkedFor(m, q)'
      BY <2>1, <2>2, <2>3, <2>5 DEF MarkedFor, Fine
    <3>2. CASE m \in heard
      <4>1. told'[m] = {k \in Participants : Online(k, m)'}
        BY <1>0, <3>2 DEF Snapshot
      <4> QED
        BY <3>1, <4>1 DEF ToldFor, Online, Recent
    <3>3. CASE m \notin heard
      <4>0. ~(Recent(seen[m][p]) /\ seen[m][p].wasOnline)
        BY <1>2, <3>3
      <4>1. told'[m] = told[m] /\ unsaid'[m] = IF Lapsed(m, p) THEN unsaid[m] \cup {p} ELSE unsaid[m]
        BY <1>0, <1>2, <3>3
      <4>2. CASE q # p
        BY <2>1, <2>5, <3>1, <4>1, <4>2 DEF ToldFor, Fine, Online, Recent, Lapsed
      <4>3. CASE q = p
        <5>1. ~Online(p, m)
          BY <2>5, <4>0 DEF Online, Recent, Fine, MarkedFor
        <5>2. ~Online(p, m)'
          BY <2>1, <2>2, <2>3 DEF Online, Recent
        <5> QED
          BY <2>5, <3>1, <4>1, <4>3, <5>1, <5>2 DEF ToldFor, Fine
      <4> QED
        BY <4>2, <4>3
    <3> QED
      BY <3>2, <3>3
  <2> QED
    BY <2>4, <2>5 DEF Fine
<1> QED
  BY <1>1, <1>2

\* As competitors play no match that is to come, that of a logout is the last.
LEMMA RecordLogoutFine ==
  ASSUME PresenceType, NEW p \in Participants, NEW s \in Sessions, RecordLogout(p, s), NEW m \in Matches,
         \A n \in Matches : n > m => seen[n][p] = None
  PROVE  (Fine(m) => Fine(m)') /\ (Unplayed(m) => Unplayed(m)')
<1> DEFINE tell == {last \in Matches : \A n \in Matches :
                      Recent(seen[n][p]) /\ seen[n][p].wasOnline => n <= last}
<1>1. m \in tell
  BY PresenceAssumption DEF Recent
<1> HIDE DEF tell
<1>2. GoOffline(p, Matches, tell) /\ UNCHANGED closed
  BY DEF RecordLogout, tell
<1> QED
  BY <1>1, <1>2, GoOfflineFine

LEMMA ExpireSessionFine ==
  ASSUME PresenceType, NEW s \in Sessions, ExpireSession(s), NEW m \in Matches
  PROVE  (Fine(m) => Fine(m)') /\ (Unplayed(m) => Unplayed(m)')
<1>1. CASE index[s] = None
  BY <1>1, SameInFine DEF ExpireSession, presenceVars, SameIn
<1>2. CASE index[s] # None
  <2>1. index[s].participant \in Participants /\ index[s].match \in Matches
    BY <1>2 DEF PresenceType, IndexRec
  <2>2. PICK ms \in {{}, {index[s].match}} : GoOffline(index[s].participant, ms, {index[s].match}) /\ UNCHANGED closed
    BY <1>2 DEF ExpireSession
  <2>3. ms \in SUBSET Matches /\ (m \in ms => m \in {index[s].match})
    BY <2>1
  <2> QED
    BY <2>1, <2>2, <2>3, GoOfflineFine
<1> QED
  BY <1>1, <1>2

LEMMA MatchEndedFine ==
  ASSUME PresenceType, NEW n \in Matches, MatchEnded(n), NEW m \in Matches
  PROVE  (Fine(m) => Fine(m)') /\ (Unplayed(m) => Unplayed(m)')
<1>0. BroadcastIf({n}) /\ closed' = closed \cup {n}
  BY DEF MatchEnded
<1>1. CASE m # n
  <2>0. seen'[m] = seen[m]
    BY <1>1 DEF MatchEnded, PresenceType
  <2>1. told'[m] = told[m] /\ unsaid'[m] = unsaid[m] /\ seen'[m] = seen[m]
    BY <1>0, <1>1, <2>0, BroadcastTells
  <2> QED
    BY <1>0, <1>1, <2>1, SameInFine DEF SameIn
<1>2. CASE m = n
  <2>1. ASSUME NEW p \in Participants
        PROVE  /\ seen[m][p] = None => seen'[m][p] = None
               /\ seen[m][p] # None => seen'[m][p].wasOnline = FALSE
    <3>1. seen'[m][p] = IF seen[m][p] = None THEN None ELSE [seen[m][p] EXCEPT !.wasOnline = FALSE]
      BY <1>2 DEF MatchEnded, PresenceType
    <3>2. seen[m][p] \in SeenRec \cup {None}
      BY DEF PresenceType
    <3> QED
      BY <3>1, <3>2, SeenAsOffline
  <2>2. Fine(m)'
    BY <1>0, <1>2, <2>1, BroadcastTells DEF Fine, MarkedFor
  <2>3. Unplayed(m) => Unplayed(m)'
    BY <1>0, <1>2, <2>1, BroadcastTells DEF Unplayed
  <2> QED
    BY <2>2, <2>3
<1> QED
  BY <1>1, <1>2

LEMMA MatchChangeFine ==
  ASSUME PresenceType, NEW n \in Matches, MatchChange(n), NEW m \in Matches
  PROVE  (Fine(m) => Fine(m)') /\ (Unplayed(m) => Unplayed(m)')
<1>0. BroadcastIf({n}) /\ closed' = closed \ {n}
  BY DEF MatchChange
<1>1. CASE m # n
  <2>0. seen'[m] = seen[m]
    BY <1>1 DEF MatchChange, PresenceType
  <2>1. told'[m] = told[m] /\ unsaid'[m] = unsaid[m] /\ seen'[m] = seen[m]
    BY <1>0, <1>1, <2>0, BroadcastTells
  <2> QED
    BY <1>0, <1>1, <2>1, SameInFine DEF SameIn
<1>2. CASE m = n
  <2>1. \A p \in Participants : seen'[m][p] = None
    BY <1>2 DEF MatchChange, PresenceType
  <2> QED
    BY <1>0, <1>2, <2>1, BroadcastTells DEF Fine, MarkedFor, Unplayed
<1> QED
  BY <1>1, <1>2

LEMMA CheckExpirationsFine ==
  ASSUME PresenceType, CheckExpirations, NEW m \in Matches
  PROVE  (Fine(m) => Fine(m)') /\ (Unplayed(m) => Unplayed(m)')
<1> DEFINE lapsed == {n \in Matches : \E p \in Participants : Lapsed(n, p)}
<1>0. BroadcastIf(lapsed) /\ closed' = closed
  BY DEF CheckExpirations
<1>1. CASE m \notin lapsed
  <2>1. seen'[m] = seen[m]
    BY <1>1 DEF CheckExpirations, PresenceType
  <2>2. told'[m] = told[m] /\ unsaid'[m] = unsaid[m]
    BY <1>0, <1>1, BroadcastTells
  <2> QED
    BY <1>0, <2>1, <2>2, SameInFine DEF SameIn
<1>2. CASE m \in lapsed
  <2>1. \A p \in Participants : ToldFor(m, p)'
    BY <1>0, <1>2, BroadcastTells
  <2>2. ASSUME Fine(m), NEW p \in Participants PROVE MarkedFor(m, p)'
    <3>0. seen[m][p] \in SeenRec \cup {None}
      BY DEF PresenceType
    <3>1. seen'[m][p] = IF Lapsed(m, p) THEN [seen[m][p] EXCEPT !.wasOnline = FALSE] ELSE seen[m][p]
      BY DEF CheckExpirations
    <3>2. CASE Lapsed(m, p)
      <4>1. seen[m][p] \in SeenRec
        BY <3>0, <3>2 DEF Lapsed
      <4>2. seen'[m][p].wasOnline = FALSE /\ seen'[m][p].age = seen[m][p].age
        BY <3>1, <3>2, <4>1, SeenAsOffline
      <4>3. ~(seen[m][p].age <= OnlineLimit)
        BY <3>2 DEF Lapsed, Recent
      <4> QED
        BY <1>0, <4>2, <4>3 DEF MarkedFor
    <3>3. CASE ~Lapsed(m, p)
      BY <1>0, <2>2, <3>1, <3>3 DEF MarkedFor, Fine
    <3> QED
      BY <3>2, <3>3
  <2>3. ~Unplayed(m)
    BY <1>2 DEF Unplayed, Lapsed
  <2> QED
    BY <2>1, <2>2, <2>3 DEF Fine
<1> QED
  BY <1>1, <1>2

LEMMA PresenceAgesFine ==
  ASSUME PresenceType, PresenceAges, NEW m \in Matches
  PROVE  (Fine(m) => Fine(m)') /\ (Unplayed(m) => Unplayed(m)')
<1>0. told' = told /\ unsaid' = unsaid /\ closed' = closed
  BY DEF PresenceAges
<1>1. ASSUME NEW p \in Participants
      PROVE  IF seen[m][p] = None THEN seen'[m][p] = None
             ELSE /\ seen'[m][p] # None
                  /\ seen'[m][p].wasOnline = seen[m][p].wasOnline
                  /\ seen[m][p].age \in Nat /\ seen'[m][p].age \in Nat
                  /\ seen'[m][p].age >= seen[m][p].age
                  /\ seen[m][p].wasOnline \in BOOLEAN
  <2>1. seen'[m][p] = IF seen[m][p] = None THEN None ELSE [seen[m][p] EXCEPT !.age = Older(@)]
    BY DEF PresenceAges
  <2>2. seen[m][p] \in SeenRec \cup {None}
    BY DEF PresenceType
  <2>3. CASE seen[m][p] \in SeenRec
    <3>1. seen'[m][p] \in SeenRec /\ seen'[m][p].age = Older(seen[m][p].age)
          /\ seen'[m][p].wasOnline = seen[m][p].wasOnline
      BY <2>1, <2>3, SeenAsOffline, NoneType
    <3>2. seen[m][p].age \in Ages /\ seen[m][p].wasOnline \in BOOLEAN
      BY <2>3 DEF SeenRec
    <3>3. Older(seen[m][p].age) >= seen[m][p].age /\ Older(seen[m][p].age) \in Nat /\ seen[m][p].age \in Nat
      BY <3>2, AttendanceAssumption DEF Older, Ages
    <3> QED
      BY <2>3, <3>1, <3>2, <3>3, NoneType
  <2> QED
    BY <2>1, <2>2, <2>3
<1>2. OnlineLimit \in Nat
  BY AttendanceAssumption
<1>3. ASSUME Fine(m), NEW p \in Participants PROVE MarkedFor(m, p)' /\ ToldFor(m, p)'
  <2>1. CASE seen[m][p] = None
    BY <1>0, <1>1, <1>3, <2>1 DEF Fine, MarkedFor, ToldFor, Online, Recent, Lapsed
  <2>2. CASE seen[m][p] # None
    <3>1. MarkedFor(m, p)'
      BY <1>0, <1>1, <1>2, <1>3, <2>2 DEF Fine, MarkedFor
    <3>2. Online(p, m)' => Online(p, m)
      BY <1>0, <1>1, <1>2, <2>2 DEF Online, Recent
    <3>3. Online(p, m) => Online(p, m)' \/ Lapsed(m, p)'
      BY <1>0, <1>1, <1>2, <1>3, <2>2 DEF Fine, MarkedFor, Online, Recent, Lapsed
    <3>4. Lapsed(m, p) => Lapsed(m, p)'
      BY <1>0, <1>1, <1>2, <2>2 DEF Recent, Lapsed
    <3> QED
      BY <1>0, <1>3, <3>1, <3>2, <3>3, <3>4 DEF Fine, ToldFor
  <2> QED
    BY <2>1, <2>2
<1>4. Unplayed(m) => Unplayed(m)'
  BY <1>0, <1>1 DEF Unplayed
<1> QED
  BY <1>3, <1>4 DEF Fine

\* What spectators have been told of the match being played is true, nobody has
\* played the next, and only the next can begin.
Truth ==
  /\ Fine(current)
  /\ \A m \in Matches : m > current => Unplayed(m)
  /\ opening \in {0, current + 1}
  /\ \A r \in Requests : req[r].pc = "record" => req[r].match <= current

\* Steps of presence in a match that is being played or over.
LEMMA PresenceTruth ==
  ASSUME Base, Truth, UNCHANGED <<current, opening>>,
         Fine(current) => Fine(current)',
         \A m \in Matches : m > current /\ Unplayed(m) => Unplayed(m)',
         \A r \in Requests : req'[r].pc = "record" => req[r].pc = "record" /\ req'[r].match = req[r].match
  PROVE  Truth'
  BY DEF Truth, Fine, MarkedFor, ToldFor, Online, Recent, Lapsed

LEMMA SilentTruth ==
  ASSUME Base, Truth, UNCHANGED <<presenceVars, current, opening>>,
         \A r \in Requests : req'[r].pc = "record" => req'[r].match <= current
  PROVE  Truth'
<1>1. \A m \in Matches : SameIn(m)
  BY DEF presenceVars, SameIn
<1>2. current \in Matches
  BY TypeParts DEF Base, EventIs
<1>3. Fine(current)'
  BY <1>1, <1>2, SameInFine DEF Truth, SameIn, Fine, MarkedFor, ToldFor, Online, Recent, Lapsed
<1> QED
  BY <1>1, <1>3, SameInFine DEF Truth

LEMMA TruthStep == Base /\ Truth /\ [Next]_vars => Truth'
<1> SUFFICES ASSUME Base, Truth, [Next]_vars PROVE Truth'
  OBVIOUS
<1>0. /\ PresenceType /\ RowIs /\ EventIs /\ LoginIs /\ ReqIs
      /\ current \in Matches /\ current \in Nat /\ \A m \in Matches : m \in Nat
  BY TypeParts, PresenceAssumption DEF Base, EventIs
<1>r. \A r \in Requests : req[r].pc = "record" => req[r].match <= current
  BY DEF Truth
<1>s. ASSUME NEW e \in Sessions, Sweep(e), UNCHANGED <<current, opening>>,
             \A r \in Requests : req'[r].pc = "record" => req[r].pc = "record" /\ req'[r].match = req[r].match
      PROVE  Truth'
  <2>1. \A m \in Matches : (Fine(m) => Fine(m)') /\ (Unplayed(m) => Unplayed(m)')
    BY <1>0, <1>s, ExpireSessionFine DEF Sweep
  <2>2. Fine(current) => Fine(current)'
    BY <1>0, <1>s, <2>1 DEF Fine, MarkedFor, ToldFor, Online, Recent, Lapsed
  <2> QED
    BY <1>s, <2>1, <2>2, PresenceTruth
<1>q. ASSUME NEW o \in Requests, NEW new, req' = [req EXCEPT ![o] = new], new.pc # "record"
      PROVE  \A r \in Requests : req'[r].pc = "record" => req[r].pc = "record" /\ req'[r].match = req[r].match
  BY <1>0, <1>q DEF ReqIs
<1>1. CASE \E s \in Sessions : VerifyLogin(s) \/ CleanUp(s) \/ CountSessions(s) \/ CreateSession(s) \/ RegisterFallback(s)
  BY <1>1, <1>r, SilentTruth
  DEF VerifyLogin, CleanUp, CountSessions, CreateSession, RegisterFallback, eventVars
<1>2. ASSUME NEW s \in Sessions, SweepOne(s) PROVE Truth'
  <2>1. PICK e \in login[s].sweep : Sweep(e)
    BY <1>2 DEF SweepOne
  <2>2. e \in Sessions
    BY <1>0 DEF LoginIs, LoginRec
  <2> QED
    BY <1>2, <1>s, <2>1, <2>2 DEF SweepOne, eventVars
<1>3. ASSUME NEW o \in Requests,
             \/ Refresh(o) \/ OpenStream(o) \/ Disconnect(o) \/ TerminateSession(o) \/ ReadLeaderboard(o)
             \/ \E s \in Sessions, k \in Kinds : Arrive(o, k, s)
      PROVE  Truth'
  <2>1. PICK new : req' = [req EXCEPT ![o] = new] /\ new.pc # "record"
    <3>1. CASE Refresh(o)
      <4> DEFINE new == IF req[o].pc = "call" THEN NoRequest
                        ELSE [pc |-> "event", session |-> req[o].session]
      <4>1. req' = [req EXCEPT ![o] = new]
        BY <3>1 DEF Refresh
      <4>2. new.pc # "record"
        BY DEF NoRequest
      <4> HIDE DEF new
      <4> QED
        BY <4>1, <4>2
    <3>2. CASE OpenStream(o) \/ Disconnect(o)
      BY <3>2 DEF OpenStream, Disconnect, Done, NoRequest
    <3>3. CASE TerminateSession(o)
      <4>1. [req[o] EXCEPT !.pc = "beacon"].pc = "beacon"
        BY <1>0, <3>3, RequestKinds DEF TerminateSession
      <4> QED
        BY <3>3, <4>1 DEF TerminateSession
    <3>4. CASE ReadLeaderboard(o)
      <4> DEFINE new == [pc |-> "sweep", sweep |-> Stale]
      <4>1. req' = [req EXCEPT ![o] = new]
        BY <3>4 DEF ReadLeaderboard
      <4>2. new.pc # "record"
        OBVIOUS
      <4> HIDE DEF new
      <4> QED
        BY <4>1, <4>2
    <3>5. CASE \E s \in Sessions, k \in Kinds : Arrive(o, k, s)
      BY ZenonT(40), <3>5, ParticipationAssumption DEF Arrive
    <3> QED
      BY <1>3, <3>1, <3>2, <3>3, <3>4, <3>5
  <2>2. UNCHANGED <<presenceVars, current, opening>>
    BY <1>3 DEF Refresh, OpenStream, Disconnect, TerminateSession, ReadLeaderboard, Arrive, eventVars
  <2> QED
    BY <1>q, <1>r, <2>1, <2>2, SilentTruth
<1>4. ASSUME NEW o \in Requests, ReadEvent(o) PROVE Truth'
  <2>1. \A r \in Requests : req'[r].pc = "record" => req'[r].match <= current
    BY <1>0, <1>4, <1>r DEF ReadEvent, ReqIs
  <2> QED
    BY <1>4, <2>1, SilentTruth DEF ReadEvent, eventVars
<1>5. ASSUME NEW o \in Requests, Record(o) PROVE Truth'
  <2> DEFINE s == req[o].session
  <2>1. /\ s \in Sessions /\ owner[s] \in Participants /\ req[o].match \in Matches /\ req[o].ended \in BOOLEAN
        /\ req[o].match <= current
    BY <1>0, <1>5, <1>r, RequestKinds DEF Record, RowIs
  <2>2. RecordHeartbeat(owner[s], s, req[o].match, req[o].ended) /\ UNCHANGED <<current, opening>> /\ Done(o)
    BY <1>5 DEF Record, eventVars
  <2>3. \A m \in Matches : (Fine(m) => Fine(m)') /\ (m # req[o].match /\ Unplayed(m) => Unplayed(m)')
    BY <1>0, <2>1, <2>2, RecordHeartbeatFine
  <2>4. \A r \in Requests : req'[r].pc = "record" => req[r].pc = "record" /\ req'[r].match = req[r].match
    BY <1>q, <2>2 DEF Done, NoRequest
  <2>5. Fine(current) => Fine(current)'
    BY <1>0, <2>2, <2>3 DEF Fine, MarkedFor, ToldFor, Online, Recent, Lapsed
  <2>6. \A m \in Matches : m > current /\ Unplayed(m) => Unplayed(m)'
    <3> SUFFICES ASSUME NEW m \in Matches, m > current, Unplayed(m) PROVE Unplayed(m)'
      OBVIOUS
    <3>1. m \in Nat /\ req[o].match \in Nat
      BY <1>0, <2>1
    <3>2. m # req[o].match
      BY <1>0, <2>1, <3>1
    <3> QED
      BY <2>3, <3>2
  <2> QED
    BY <2>2, <2>4, <2>5, <2>6, PresenceTruth
<1>6. ASSUME NEW o \in Requests, Logout(o) PROVE Truth'
  <2> DEFINE s == req[o].session
  <2>1. /\ s \in Sessions /\ owner[s] \in Participants
    BY <1>0, <1>6, RequestKinds DEF Logout, RowIs
  <2>2. RecordLogout(owner[s], s) /\ UNCHANGED <<current, opening>>
    BY <1>6 DEF Logout, eventVars
  <2>3. ASSUME NEW m \in Matches, m >= current PROVE (Fine(m) => Fine(m)') /\ (Unplayed(m) => Unplayed(m)')
    <3>1. \A n \in Matches : n > m => seen[n][owner[s]] = None
      <4> SUFFICES ASSUME NEW n \in Matches, n > m PROVE seen[n][owner[s]] = None
        OBVIOUS
      <4>1. m \in Nat /\ n \in Nat
        BY <1>0
      <4>2. n > current
        BY <1>0, <2>3, <4>1
      <4> QED
        BY <2>1, <4>2 DEF Truth, Unplayed
    <3> QED
      BY <1>0, <2>1, <2>2, <3>1, RecordLogoutFine
  <2>4. Fine(current) => Fine(current)'
    <3>1. current >= current
      BY <1>0
    <3>2. \A m \in Matches : m = current => (Fine(m) => Fine(m)')
      BY <2>3, <3>1
    <3> QED
      BY <1>0, <2>2, <3>2 DEF Fine, MarkedFor, ToldFor, Online, Recent, Lapsed
  <2>5. \A m \in Matches : m > current /\ Unplayed(m) => Unplayed(m)'
    BY <1>0, <2>3
  <2>6. [req[o] EXCEPT !.pc = "terminate"].pc = "terminate"
    BY <1>0, <1>6, RequestKinds DEF Logout
  <2>7. \A r \in Requests : req'[r].pc = "record" => req[r].pc = "record" /\ req'[r].match = req[r].match
    BY <1>0, <1>6, <2>6 DEF Logout, ReqIs
  <2> QED
    BY <2>2, <2>4, <2>5, <2>7, PresenceTruth
<1>7. ASSUME NEW o \in Requests, SweepRead(o) PROVE Truth'
  <2>1. PICK e \in req[o].sweep :
          /\ Sweep(e)
          /\ req' = [req EXCEPT ![o] =
               IF @.sweep = {e} THEN NoRequest ELSE [pc |-> "sweep", sweep |-> @.sweep \ {e}]]
    BY <1>7 DEF SweepRead
  <2>2. e \in Sessions
    BY <1>0, <1>7, RequestKinds DEF SweepRead
  <2>3. \A r \in Requests : req'[r].pc = "record" => req[r].pc = "record" /\ req'[r].match = req[r].match
    BY <1>q, <2>1 DEF NoRequest
  <2> QED
    BY <1>7, <1>s, <2>1, <2>2, <2>3 DEF SweepRead, eventVars
<1>8. CASE Administer \/ (\E p \in Participants, v \in {"deactivate", "reactivate"} : CheckNotStarted(v, p))
           \/ StartEvent \/ EndEvent \/ SafetyNet \/ (\E c \in Conns : CloseStream(c)) \/ UNCHANGED vars
  BY <1>8, <1>r, SilentTruth
  DEF Administer, Deactivate, DisconnectDeactivated, Reactivate, CheckNotStarted, StartEvent, EndEvent,
      SafetyNet, CloseStream, vars, eventVars, flightVars
<1>9. CASE AbortMatch
  <2>1. \A m \in Matches : SameIn(m)
    BY <1>9 DEF AbortMatch, presenceVars, SameIn
  <2>2. Fine(current) => Fine(current)'
    BY <1>0, <1>9, <2>1, SameInFine
    DEF AbortMatch, SameIn, Fine, MarkedFor, ToldFor, Online, Recent, Lapsed
  <2> QED
    BY <1>9, <1>r, <2>1, <2>2, SameInFine DEF AbortMatch, Truth, flightVars
<1>10. CASE CommitMatch
  <2>1. \A m \in Matches : SameIn(m)
    BY <1>10 DEF CommitMatch, presenceVars, SameIn
  <2>2. current' = current + 1 /\ current' \in Matches /\ opening' = 0
    BY <1>0, <1>10 DEF CommitMatch, Truth, EventIs
  <2>3. Unplayed(current + 1) /\ Fine(current + 1)
    BY <1>0, <2>2, UnplayedIsFine DEF Truth
  <2>4. Fine(current)'
    BY <2>1, <2>2, <2>3, SameInFine DEF SameIn, Fine, MarkedFor, ToldFor, Online, Recent, Lapsed
  <2>5. \A m \in Matches : m > current' => Unplayed(m)'
    BY <1>0, <2>1, <2>2, SameInFine DEF Truth
  <2>6. \A r \in Requests : req'[r].pc = "record" => req'[r].match <= current'
    <3>1. req' = req
      BY <1>10 DEF CommitMatch, flightVars
    <3>2. \A r \in Requests : req[r].pc = "record" => req[r].match \in Nat
      BY <1>0, RequestKinds
    <3> QED
      BY <1>0, <1>r, <2>2, <3>1, <3>2
  <2> QED
    BY <2>2, <2>4, <2>5, <2>6 DEF Truth
<1>11. ASSUME \A m \in Matches : (Fine(m) => Fine(m)') /\ (Unplayed(m) => Unplayed(m)'), current' = current,
              opening' \in {0, current + 1}, req' = req
       PROVE  Truth'
  <2>1. Fine(current)'
    BY <1>0, <1>11 DEF Truth, Fine, MarkedFor, ToldFor, Online, Recent, Lapsed
  <2> QED
    BY <1>11, <1>r, <2>1 DEF Truth
<1>12. CASE (\E m \in Matches : EndPresence(m)) \/ AnnounceMatch \/ Tick \/ PresenceTimer
  <2>1. CASE \E n \in Matches : EndPresence(n)
    BY <1>0, <1>11, <2>1, MatchEndedFine DEF EndPresence, flightVars, Truth
  <2>2. CASE AnnounceMatch
    BY <1>0, <1>11, <2>2, MatchChangeFine DEF AnnounceMatch, flightVars
  <2>3. CASE Tick
    BY <1>0, <1>11, <2>3, PresenceAgesFine DEF Tick, eventVars, flightVars, Truth
  <2>4. CASE PresenceTimer
    BY <1>0, <1>11, <2>4, CheckExpirationsFine DEF PresenceTimer, eventVars, flightVars, Truth
  <2> QED
    BY <1>12, <2>1, <2>2, <2>3, <2>4
<1>13. CASE Restart
  <2>1. \A m \in Matches : Unplayed(m)'
    BY <1>13 DEF Restart, PresenceRestarts, Unplayed
  <2>2. current' = current /\ opening' = 0 /\ \A r \in Requests : req'[r].pc # "record"
    BY <1>13 DEF Restart, NoRequest
  <2>3. Fine(current)'
    BY <1>0, <2>1, <2>2, UnplayedIsFine DEF Unplayed, Fine, MarkedFor, ToldFor, Online, Recent
  <2> QED
    BY <2>1, <2>2, <2>3 DEF Truth
<1> QED
  BY <1>1, <1>2, <1>3, <1>4, <1>5, <1>6, <1>7, <1>8, <1>9, <1>10, <1>12, <1>13 DEF Next, Login, Serve, Event

\* What spectators were last told of the match being played is true, whatever
\* heartbeats, logouts, expiries, ends and restarts come in between.
THEOREM SpectatorsKnow == Spec => []ToldTruth
<1>1. Init => Truth
  <2> SUFFICES ASSUME Init PROVE Truth
    OBVIOUS
  <2>1. \A m \in Matches : Unplayed(m)
    BY DEF Init, PresenceInit, Unplayed
  <2> QED
    BY <2>1, UnplayedIsFine, PresenceAssumption DEF Init, Truth, NoRequest
<1>2. Truth => ToldTruth
  BY DEF Truth, ToldTruth, Told, Fine, ToldFor
<1> QED
  BY <1>1, <1>2, TruthStep, BaseAlways, PTL DEF Spec
=============================================================================
