---------------------------- MODULE Connections -----------------------------
(***************************************************************************)
(* teamRealtimeService: the open streams of competitors, in the memory of  *)
(* the web process.  A stream is in several maps, which a dozen events     *)
(* (close, error, a failed ping, a failed broadcast, no heartbeat, logout, *)
(* deactivation) take it out of.  No code creates teams any more: the team *)
(* of a session is its competitor, so that teamClients, keyed by team, and *)
(* participantConnections have the same entries.                           *)
(*                                                                         *)
(* A loop over streams that awaits handleClientDisconnect is one step:     *)
(* that function never waits for anything outside the process.             *)
(***************************************************************************)
EXTENDS Attendance

CONSTANT Conns \* connection objects that can be at once

VARIABLES
  conn,          \* the connection objects: whose, closed or not, lastHeartbeatAt
  allClients,
  byParticipant, \* participantConnections (and teamClients)
  bySession,     \* sessionConnections
  fallback       \* heartbeatFallbackSessions

connVars == <<conn, allClients, byParticipant, bySession, fallback>>

NoConn == [session |-> "none"]
NoFallback == [participant |-> "none"]

ConnectionsInit ==
  /\ conn = [c \in Conns |-> NoConn]
  /\ allClients = {}
  /\ byParticipant = [p \in Participants |-> {}]
  /\ bySession = [s \in Sessions |-> {}]
  /\ fallback = [s \in Sessions |-> NoFallback]

Open(c) == conn[c] # NoConn /\ ~conn[c].closed

\* registerClient, with a new object (one that is closed is garbage, and its
\* handlers find it closed).
RegisterClient(c, s, p) ==
  /\ ~Open(c)
  /\ conn' = [conn EXCEPT ![c] = [session |-> s, participant |-> p, age |-> 0, closed |-> FALSE]]
  /\ allClients' = allClients \cup {c}
  /\ byParticipant' = [byParticipant EXCEPT ![p] = @ \cup {c}]
  /\ bySession' = [bySession EXCEPT ![s] = @ \cup {c}]
  /\ fallback' = [fallback EXCEPT ![s] = NoFallback]

\* handleClientDisconnect for each of cs, those already closed left alone, and
\* the fallbacks of fs dropped.
Unlink(cs, fs) ==
  LET live == {c \in cs : Open(c)}
      owners == {conn[c].session : c \in live}
  IN /\ conn' = [c \in Conns |-> IF c \in live THEN [conn[c] EXCEPT !.closed = TRUE] ELSE conn[c]]
     /\ allClients' = allClients \ live
     /\ byParticipant' = [p \in Participants |-> byParticipant[p] \ live]
     /\ bySession' = [s \in Sessions |-> bySession[s] \ live]
     /\ fallback' = [s \in Sessions |-> IF s \in owners \cup fs THEN NoFallback ELSE fallback[s]]

\* The socket closes or breaks, or a write to it fails; unregisterClient.
HandleClientDisconnect(c) == Unlink({c}, {})

\* Logout, the beacon of a closing tab, expiry.
UnregisterSession(s) == Unlink(bySession[s], {s})

\* An administrator has deactivated p: the streams its map knows of, and the
\* fallbacks.
DisconnectParticipant(p) ==
  Unlink(byParticipant[p],
         {s \in Sessions : fallback[s] # NoFallback /\ fallback[s].participant = p})

\* registerSessionFallback: a session counts as connected before its stream.
RegisterSessionFallback(s, p) ==
  /\ fallback' = [fallback EXCEPT ![s] = [participant |-> p, age |-> 0]]
  /\ UNCHANGED <<conn, allClients, byParticipant, bySession>>

\* recordHeartbeat: to the streams of the session that the map knows of.
RefreshConns(s) ==
  /\ conn' = [c \in Conns |-> IF c \in bySession[s] THEN [conn[c] EXCEPT !.age = 0] ELSE conn[c]]
  /\ fallback' = [fallback EXCEPT ![s] = IF @ = NoFallback THEN @ ELSE [@ EXCEPT !.age = 0]]
  /\ UNCHANGED <<allClients, byParticipant, bySession>>

StaleConns == {c \in allClients : conn[c].age > ConnLimit}
StaleFallbacks == {s \in Sessions : fallback[s] # NoFallback /\ fallback[s].age > ConnLimit}

\* Prunes the fallbacks only.
PruneFallbacks ==
  /\ StaleFallbacks # {}
  /\ Unlink({}, StaleFallbacks)

\* pruneStaleConnections, every ten seconds.
PruneStaleConnections ==
  /\ StaleConns \cup StaleFallbacks # {}
  /\ Unlink(StaleConns, StaleFallbacks)

\* getTotalConnectedParticipants, isSessionConnected: streams, and fallbacks
\* that are not stale.
Connected ==
  {conn[c].session : c \in allClients} \cup
  {s \in Sessions : fallback[s] # NoFallback /\ s \notin StaleFallbacks}

\* Time passes. Closed connections are garbage: their ages do not matter.
ConnectionsAge ==
  /\ conn' = [c \in Conns |->
       IF Open(c) THEN [conn[c] EXCEPT !.age = Older(@)] ELSE conn[c]]
  /\ fallback' = [s \in Sessions |->
       IF fallback[s] = NoFallback THEN NoFallback ELSE [fallback[s] EXCEPT !.age = Older(@)]]
  /\ UNCHANGED <<allClients, byParticipant, bySession>>

\* The process starts again, and with it go its sockets.
ConnectionsRestart ==
  /\ conn' = [c \in Conns |-> NoConn]
  /\ allClients' = {}
  /\ byParticipant' = [p \in Participants |-> {}]
  /\ bySession' = [s \in Sessions |-> {}]
  /\ fallback' = [s \in Sessions |-> NoFallback]

-----------------------------------------------------------------------------
ConnRec == [session : Sessions, participant : Participants, age : Ages, closed : BOOLEAN]

ConnectionsType ==
  /\ conn \in [Conns -> ConnRec \cup {NoConn}]
  /\ allClients \subseteq Conns
  /\ byParticipant \in [Participants -> SUBSET Conns]
  /\ bySession \in [Sessions -> SUBSET Conns]
  /\ fallback \in [Sessions -> [participant : Participants, age : Ages] \cup {NoFallback}]

\* The maps agree, at every moment, on which streams are open: a stream that is
\* in one of them only would be counted for ever, or miss its heartbeats and
\* the order to disconnect.
MapsAgree ==
  \A c \in Conns :
    /\ c \in allClients <=> Open(c)
    /\ \A s \in Sessions : c \in bySession[s] <=> Open(c) /\ conn[c].session = s
    /\ \A p \in Participants : c \in byParticipant[p] <=> Open(c) /\ conn[c].participant = p
=============================================================================
