-------------------------------- MODULE Gate --------------------------------
(***************************************************************************)
(* The fullscreen gate of one competitor: the arena tells the server when  *)
(* it enters and leaves fullscreen, the server throttles what it is told,  *)
(* and keeps a registry that runs and submissions are checked against.     *)
(*                                                                         *)
(* A message is a request of its own: messages overtake each other, and    *)
(* nobody repeats one that is lost.                                        *)
(***************************************************************************)
EXTENDS RateLimiter

CONSTANTS
  Posts,    \* POST /api/anti-cheat/events that can be under way at once
  Ingest,   \* the limiter of these
  Debounce, \* DEBOUNCE_MS
  MaxBurst  \* MAX_EVENTS_PER_MINUTE of a session and a type of event

ASSUME GateAssumption ==
  /\ Ingest \in Limiters
  /\ Debounce \in Nat /\ Debounce <= Window
  /\ MaxBurst \in Nat \ {0}

VARIABLES
  fullscreen, \* document.fullscreenElement
  running,    \* currentStatus of the arena is RUNNING
  bySession,  \* participantFullscreenMap: the entry of the session ...
  byOwner,    \* ... and the one of the competitor (and of its team)
  throttle,   \* throttleMap: the entries of the session
  post,       \* messages under way
  heard       \* history: what was recorded last of this session is how it is now

pageVars == <<fullscreen, running>>
registryVars == <<bySession, byOwner, throttle>>
vars == <<limiterVars, pageVars, registryVars, post, heard>>

Types == {"ENTER", "EXIT"}
Nothing == [type |-> "none"]
Unknown == "unknown"
Verdicts == {"in", "out"}

Init ==
  /\ LimiterInit
  /\ fullscreen = FALSE /\ running = FALSE
  /\ bySession = Unknown /\ byOwner = Unknown
  /\ throttle = [t \in Types |-> Nothing]
  /\ post = [q \in Posts |-> Nothing]
  /\ heard = FALSE

-----------------------------------------------------------------------------
(* The page *)

\* Messages that say how the page was, and those of a former session.
Outdated == [q \in Posts |-> IF post[q] = Nothing THEN Nothing ELSE [post[q] EXCEPT !.now = FALSE]]
Orphaned == [q \in Posts |-> IF post[q] = Nothing THEN Nothing
                             ELSE [post[q] EXCEPT !.now = FALSE, !.mine = FALSE]]

Says(fs) == [type |-> IF fs THEN "ENTER" ELSE "EXIT", mine |-> TRUE, now |-> TRUE]

\* handleFullscreenChange: told only while the match runs.
ToggleFullscreen ==
  /\ fullscreen' = ~fullscreen
  /\ IF running
     THEN \E q \in Posts :
            post[q] = Nothing /\ post' = [Outdated EXCEPT ![q] = Says(fullscreen')]
     ELSE post' = Outdated
  /\ heard' = FALSE
  /\ UNCHANGED <<limiterVars, running, registryVars>>

\* The effect of the status and of the challenge selected: a page in fullscreen
\* says so, one that is not keeps silent.
Registers(r) ==
  IF r /\ fullscreen
  THEN \E q \in Posts : post[q] = Nothing /\ post' = [post EXCEPT ![q] = Says(TRUE)]
  ELSE UNCHANGED post

StatusChanges ==
  /\ running' = ~running
  /\ Registers(running')
  /\ UNCHANGED <<limiterVars, fullscreen, registryVars, heard>>

SelectChallenge ==
  /\ running /\ fullscreen
  /\ Registers(TRUE)
  /\ UNCHANGED <<limiterVars, pageVars, registryVars, heard>>

\* Loading the page again leaves fullscreen, and tells nobody.
Reload ==
  /\ fullscreen' = FALSE
  /\ running' \in BOOLEAN
  /\ post' = IF fullscreen THEN Outdated ELSE post
  /\ heard' = (heard /\ ~fullscreen)
  /\ UNCHANGED <<limiterVars, registryVars>>

\* Logout and login: a session of which the registry knows nothing yet.
Relogin ==
  /\ running' = FALSE
  /\ bySession' = Unknown
  /\ throttle' = [t \in Types |-> Nothing]
  /\ post' = Orphaned
  /\ heard' = FALSE
  /\ NewKey(Ingest)
  /\ UNCHANGED <<fullscreen, byOwner>>

-----------------------------------------------------------------------------
(* The server *)

NewBurst(t) == throttle[t] = Nothing \/ throttle[t].age > Window

Verdict(t) == IF t = "ENTER" THEN "in" ELSE "out"

\* setParticipantFullscreen of the competitor only.
RegisterOwner(t) == byOwner' = Verdict(t) /\ UNCHANGED bySession

\* setParticipantFullscreen.
Register(t) == bySession' = Verdict(t) /\ byOwner' = Verdict(t)

\* A repetition that comes too soon, or one too many.
Throttled(t) ==
  /\ throttle[t] # Nothing
  /\ throttle[t].last < Debounce \/ (~NewBurst(t) /\ throttle[t].count >= MaxBurst)

\* recordClientEvent, of this session: what is throttled changes nothing, not
\* even the registry.
Record(q) ==
  LET t == post[q].type
  IN IF Throttled(t)
     THEN UNCHANGED <<registryVars, heard>>
     ELSE /\ throttle' = [throttle EXCEPT ![t] =
               IF NewBurst(t) THEN [last |-> 0, age |-> 0, count |-> 1]
               ELSE [last |-> 0, age |-> @.age, count |-> @.count + 1]]
          /\ Register(t)
          /\ heard' = post[q].now

\* A message of this session arrives.
Arrive(q) ==
  /\ post[q] # Nothing /\ post[q].mine
  /\ post' = [post EXCEPT ![q] = Nothing]
  /\ \/ Admit(Ingest) /\ Record(q)
     \/ Refuse(Ingest) /\ UNCHANGED <<registryVars, heard>>
  /\ UNCHANGED pageVars

\* One of a former session that was authenticated in time; throttled or not by
\* what is kept of that session, it concerns the competitor.
ArriveLate(q) ==
  /\ post[q] # Nothing /\ ~post[q].mine
  /\ post' = [post EXCEPT ![q] = Nothing]
  /\ byOwner' = Verdict(post[q].type)
  /\ UNCHANGED <<limiterVars, pageVars, bySession, throttle, heard>>

\* It fails on the way, or is refused.
Lose(q) ==
  /\ post[q] # Nothing
  /\ post' = [post EXCEPT ![q] = Nothing]
  /\ UNCHANGED <<limiterVars, pageVars, registryVars, heard>>

\* Another attempt at one of the other limiters, such as a login.
Attempt(l) ==
  /\ l # Ingest
  /\ Admit(l) \/ Refuse(l)
  /\ UNCHANGED <<pageVars, registryVars, post, heard>>

\* An entry, a moment later.
Later(e) ==
  [last |-> IF e.last >= Debounce THEN e.last ELSE e.last + 1,
   age |-> IF e.age > Window THEN e.age ELSE e.age + 1,
   count |-> e.count]

Tick ==
  /\ LimitersAge
  /\ throttle' = [t \in Types |-> IF throttle[t] = Nothing THEN Nothing ELSE Later(throttle[t])]
  /\ UNCHANGED <<pageVars, bySession, byOwner, post, heard>>

\* The process starts again: its maps are empty, and nobody asks for the registry
\* to be told anew.
Restart ==
  /\ LimitersRestart
  /\ bySession' = Unknown /\ byOwner' = Unknown
  /\ throttle' = [t \in Types |-> Nothing]
  /\ post' = [q \in Posts |-> Nothing]
  /\ heard' = FALSE
  /\ UNCHANGED pageVars

Next ==
  \/ ToggleFullscreen \/ StatusChanges \/ SelectChallenge \/ Reload \/ Relogin
  \/ \E q \in Posts : Arrive(q) \/ ArriveLate(q) \/ Lose(q)
  \/ \E l \in Limiters : Attempt(l)
  \/ Tick \/ Restart

Spec == Init /\ [][Next]_vars

-----------------------------------------------------------------------------
(* Properties *)

\* isParticipantInFullscreen: the session's own entry first.
Verified == IF bySession = Unknown THEN byOwner = "in" ELSE bySession = "in"

PostRec == [type : Types, mine : BOOLEAN, now : BOOLEAN]
EntryRec == [last : 0..Debounce, age : 0..Window + 1, count : 1..MaxBurst]

\* The types of the variables; the counts stay within their limits.
TypeOK ==
  /\ LimiterType
  /\ fullscreen \in BOOLEAN /\ running \in BOOLEAN
  /\ bySession \in Verdicts \cup {Unknown} /\ byOwner \in Verdicts \cup {Unknown}
  /\ throttle \in [Types -> EntryRec \cup {Nothing}]
  /\ post \in [Posts -> PostRec \cup {Nothing}]
  /\ heard \in BOOLEAN

\* Once a message that says how the page is now has been recorded, runs and
\* submissions are let through exactly if it is in fullscreen: until the page
\* changes, neither older messages that come late, nor those of a former session
\* of the competitor, nor throttled ones make it otherwise.
GateHonest == heard => (Verified <=> fullscreen)
=============================================================================
