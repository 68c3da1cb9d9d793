---------------------------- MODULE Arena_proofs -----------------------------
(***************************************************************************)
(* Theorems about Arena: for any competitors, challenges, rounds,          *)
(* thresholds, overrides and matches, and any number of requests in        *)
(* flight.                                                                 *)
(***************************************************************************)
EXTENDS Arena, FiniteSetTheorems, TLAPS

-----------------------------------------------------------------------------
(* The inductive invariant *)

Steps ==
  {"idle", "config", "known", "overrides", "solves", "record", "recordLegacy", "rows", "row",
   "attempt", "attemptLegacy", "flag", "recheck", "commit", "reset", "resetLegacy"}

Requests ==
  [pc : Steps, kind : {"view", "run", "submit", "accepted", "grant"},
   unit : Units \cup {Everyone}, item : Challenges \cup {1}, began : Nat,
   all : BOOLEAN, need : [Rounds -> Nat], known : SUBSET Targets, granted : SUBSET Targets,
   open : SUBSET Targets, todo : SUBSET Rounds, free : BOOLEAN]

RowStatuses == {"NONE", "AVAILABLE", "IN_PROGRESS", "COMPLETED"}

EventType ==
  /\ match \in Nat \ {0} /\ mode \in {"SEQUENTIAL", "UNLOCK_ALL"} /\ straddled \in BOOLEAN
  /\ need \in [Rounds -> Nat] /\ least \in [Rounds -> Nat]
StatusType == status \in [Tables -> [Units -> [Challenges -> RowStatuses]]]
RecordedType == recorded \in [Tables -> [Units -> SUBSET Rounds]]
AcceptedType == accepted \in [Units -> [Challenges -> Nat]]
ShownType == shown \in [Units -> SUBSET (Rounds \X BOOLEAN)]
CallType == call \in [Calls -> Requests]

ArenaType ==
  EventType /\ StatusType /\ RecordedType /\ AcceptedType /\ ShownType /\ CallType

\* The thresholds have not been lower in this match.
AtLeast(n) == \A r \in Rounds : n[r] >= least[r]

Past(r) == r.began <= match

\* What a request is about.
Orderly(r) ==
  /\ r.pc # "idle" => r.unit \in Units
  /\ r.pc # "idle" /\ (r.kind \in {"run", "submit", "accepted"} \/ r.pc \in {"reset", "resetLegacy"})
       => r.item \in Challenges
  /\ r.pc \in {"row", "attempt", "attemptLegacy", "flag", "recheck", "commit"}
       => r.kind \in {"run", "submit"}
  /\ r.pc = "rows" => r.todo = {}

\* What a unit has for the rest of the match: rounds that are recorded or granted, ...
Base(u) == {1} \cup Known(u) \cup Granted(u)

\* ... rounds that were granted to it or that it has solved enough for, ...
Earned(u, r) ==
  \/ r \in Granted(u)
  \/ Cardinality({c \in Challenges : RoundOf[c] = r - 1 /\ accepted[u][c] > 0}) >= least[r]

\* ... and challenges that it may work on.
Entitled(u, c) ==
  \/ mode = "UNLOCK_ALL"
  \/ RoundOf[c] \in Base(u)
  \/ c \in Granted(u) \cup Solved(u)

Deciding == {"record", "recordLegacy", "rows"}

\* What a request of this match has read and decided on so far is no more than what
\* holds now.
Honest(r) ==
  LET u == r.unit
  IN  /\ r.pc # "idle" /\ r.all => mode = "UNLOCK_ALL"
      /\ r.pc \in {"known", "overrides", "solves"} => AtLeast(r.need)
      /\ r.pc \in {"overrides", "solves"} => r.known \subseteq Known(u)
      /\ r.pc = "solves" => r.granted \subseteq Granted(u)
      /\ r.pc \in {"record", "recordLegacy"} => \A q \in r.todo \ {1} : Earned(u, q)
      /\ r.pc \in Deciding => r.open \cap Challenges \subseteq Granted(u)
      /\ r.pc \in Deciding /\ ~r.all => r.open \cap Rounds \subseteq Base(u) \cup r.todo
      /\ r.pc = "recordLegacy" /\ u \in Participants =>
           Upcoming(r.todo) \subseteq recorded["participant"][u]
      /\ (r.pc = "row" /\ r.free) \/ r.pc \in {"attempt", "attemptLegacy", "flag", "recheck", "commit"}
           => Entitled(u, r.item)
      /\ r.pc \in {"reset", "resetLegacy"} => r.item \in Granted(u)

\* The legacy table knows no unlock that the other does not, where that has the unit:
\* so that what is recorded is never hidden by what is recorded later.
RecordedInOrder ==
  /\ \A u \in Participants : recorded["team"][u] \subseteq recorded["participant"][u]
  /\ \A u \in Units \ Participants : recorded["participant"][u] = {}

RecordedEarned ==
  \A t \in Tables, u \in Units : \A r \in recorded[t][u] \ {1} : Earned(u, r)

CompletedAccepted ==
  \A t \in Tables, u \in Units, c \in Challenges :
    status[t][u][c] = "COMPLETED" => accepted[u][c] > 0

AcceptedCompleted ==
  \A u \in Units, c \in Challenges : <<u, c>> \notin undone /\ accepted[u][c] > 0 =>
    \A t \in Tables : InTable(u, t) => status[t][u][c] = "COMPLETED"

ShownKept == \A u \in Units, r \in Rounds : <<r, FALSE>> \in shown[u] => r \in Base(u)

RowsSound ==
  RecordedInOrder /\ RecordedEarned /\ CompletedAccepted /\ AcceptedCompleted /\ ShownKept

Sound == RowsSound /\ \A p \in Calls : call[p].began = match => Honest(call[p])

ArenaInv ==
  /\ ArenaType /\ AtLeast(need) /\ \A p \in Calls : Past(call[p]) /\ Orderly(call[p])
  /\ ~straddled => Sound

-----------------------------------------------------------------------------
(* The rule of progression *)

LEMMA RoundsAre == Rounds \subseteq Nat \ {0} /\ 1 \in Rounds /\ \A r \in Rounds : 1..r \subseteq Rounds
  BY ArenaAssumption DEF Rounds

\* An open round was opened by what is recorded or granted, or by the round before.
LEMMA OpenIs ==
  ASSUME NEW all \in BOOLEAN, NEW known, NEW granted, NEW solved, NEW needed
  PROVE  /\ Open(all, known, granted, solved, needed) \subseteq Rounds
         /\ all => Open(all, known, granted, solved, needed) = Rounds
         /\ Rounds \cap ({1} \cup known \cup granted) \subseteq Open(all, known, granted, solved, needed)
         /\ \A r \in Open(all, known, granted, solved, needed) :
              all \/ r \in {1} \cup known \cup granted \/ Leads(r, solved, needed)
<1>1. ASSUME NEW r \in Rounds, r \in {1} \cup known \cup granted
      PROVE  r \in Open(all, known, granted, solved, needed)
  <2>1. r \in 1..r /\ (r + 1)..r = {}
    BY RoundsAre
  <2> QED
    BY <1>1, <2>1 DEF Open
<1>2. ASSUME NEW r \in Open(all, known, granted, solved, needed), ~all,
             r \notin {1} \cup known \cup granted
      PROVE  Leads(r, solved, needed)
  <2>1. PICK q \in 1..r : /\ q \in {1} \cup known \cup granted
                          /\ \A s \in (q + 1)..r : Leads(s, solved, needed)
    BY <1>2 DEF Open
  <2>2. r \in (q + 1)..r
    BY <1>2, <2>1, RoundsAre DEF Open
  <2> QED
    BY <2>1, <2>2
<1> QED
  BY <1>1, <1>2 DEF Open

LEMMA EntitledIsWorkable ==
  ASSUME NEW u \in Units, NEW c \in Challenges, Entitled(u, c)
  PROVE  c \in Workable(u)
<1>1. RoundOf[c] \in Rounds /\ (mode = "UNLOCK_ALL") \in BOOLEAN
  BY ArenaAssumption
<1>2. (mode = "UNLOCK_ALL") \/ RoundOf[c] \in Base(u) => RoundOf[c] \in Unlocked(u)
  BY <1>1, OpenIs DEF Unlocked, Base
<1> QED
  BY <1>2 DEF Entitled, Workable

LEMMA KnownIs ==
  ASSUME RecordedInOrder, NEW u \in Units
  PROVE  Known(u) = IF u \in Participants THEN recorded["participant"][u] ELSE recorded["team"][u]
  BY DEF RecordedInOrder, Known

-----------------------------------------------------------------------------
(* Within a match nothing is taken back *)

Forward ==
  /\ mode = "UNLOCK_ALL" => mode' = "UNLOCK_ALL"
  /\ \A u \in Units : /\ Known(u) \subseteq Known(u)' /\ Granted(u) \subseteq Granted(u)'
                      /\ Solved(u) \subseteq Solved(u)' \cup Granted(u)'
  /\ \A u \in Participants : recorded["participant"][u] \subseteq recorded'["participant"][u]
  /\ \A u \in Units, c \in Challenges : accepted[u][c] > 0 => accepted'[u][c] > 0
  /\ \A r \in Rounds : least'[r] <= least[r]

LEMMA EarnedStays ==
  ASSUME ArenaType, ArenaType', Forward, NEW u \in Units, NEW r \in Rounds, Earned(u, r)
  PROVE  Earned(u, r)'
<1> DEFINE had == {c \in Challenges : RoundOf[c] = r - 1 /\ accepted[u][c] > 0}
           has == {c \in Challenges : RoundOf[c] = r - 1 /\ accepted'[u][c] > 0}
<1>1. CASE r \in Granted(u)
  BY <1>1 DEF Forward, Earned
<1>2. CASE Cardinality(had) >= least[r]
  <2>1. had \subseteq has /\ has \subseteq Challenges
    BY DEF Forward
  <2>2. IsFiniteSet(had) /\ IsFiniteSet(has)
    BY <2>1, ArenaAssumption, FS_Subset
  <2>3. Cardinality(had) \in Nat /\ Cardinality(has) \in Nat /\ Cardinality(had) <= Cardinality(has)
    BY <2>1, <2>2, FS_Subset, FS_CardinalityType
  <2>4. least[r] \in Nat /\ least'[r] \in Nat /\ least'[r] <= least[r]
    BY DEF ArenaType, EventType, Forward
  <2> HIDE DEF had, has
  <2>5. Cardinality(has) >= least'[r]
    BY <1>2, <2>3, <2>4
  <2> QED
    BY <2>5 DEF Earned, has
<1> QED
  BY <1>1, <1>2 DEF Earned

LEMMA EntitledStays ==
  ASSUME Forward, NEW u \in Units, NEW c, Entitled(u, c)
  PROVE  Entitled(u, c)'
  BY DEF Forward, Entitled, Base

LEMMA BaseStays ==
  ASSUME Forward, NEW u \in Units
  PROVE  Base(u) \subseteq Base(u)'
  BY DEF Forward, Base

LEMMA AtLeastStays ==
  ASSUME ArenaType, ArenaType', Forward, NEW n \in [Rounds -> Nat], AtLeast(n)
  PROVE  AtLeast(n)'
  BY DEF Forward, AtLeast, ArenaType, EventType

LEMMA RequestType ==
  ASSUME ArenaType, NEW p \in Calls
  PROVE  call[p] \in Requests
  BY DEF ArenaType, CallType

LEMMA HonestStays ==
  ASSUME ArenaType, ArenaType', Forward, NEW r \in Requests, Orderly(r), Honest(r)
  PROVE  Honest(r)'
<1> DEFINE u == r.unit
<1>1. r.need \in [Rounds -> Nat] /\ r.todo \subseteq Rounds /\ r.pc \in Steps
  BY DEF Requests
<1>2. CASE r.pc = "idle"
  BY <1>2 DEF Honest, Deciding
<1>3. CASE r.pc # "idle"
  <2>1. u \in Units
    BY <1>3 DEF Orderly
  <2>2. (r.all => mode = "UNLOCK_ALL") => (r.all => mode' = "UNLOCK_ALL")
    BY DEF Forward
  <2>3. AtLeast(r.need) => AtLeast(r.need)'
    BY <1>1, AtLeastStays
  <2>4. /\ r.known \subseteq Known(u) => r.known \subseteq Known(u)'
        /\ r.granted \subseteq Granted(u) => r.granted \subseteq Granted(u)'
        /\ r.open \cap Challenges \subseteq Granted(u) => r.open \cap Challenges \subseteq Granted(u)'
        /\ r.item \in Granted(u) => r.item \in Granted(u)'
        /\ u \in Participants => recorded["participant"][u] \subseteq recorded'["participant"][u]
    BY <2>1 DEF Forward
  <2>5. \A q \in r.todo \ {1} : Earned(u, q) => Earned(u, q)'
    BY <1>1, <2>1, EarnedStays
  <2>6. Base(u) \subseteq Base(u)'
    BY <2>1, BaseStays
  <2>7. Entitled(u, r.item) => Entitled(u, r.item)'
    BY <2>1, EntitledStays
  <2> QED
    BY <2>2, <2>3, <2>4, <2>5, <2>6, <2>7 DEF Honest, Upcoming
<1> QED
  BY <1>2, <1>3

\* Any step within a match: what it does to the request that takes it, and to the rows.
LEMMA MatchGoesOn ==
  ASSUME ArenaInv, ArenaType', match' = match, AtLeast(need)',
         \A k \in Calls : call'[k] = call[k] \/ (Past(call[k])' /\ Orderly(call[k])'),
         ~straddled' =>
           /\ ~straddled /\ Forward /\ RowsSound'
           /\ \A k \in Calls : call'[k] = call[k] \/ (call'[k].began = match => Honest(call[k])')
  PROVE  ArenaInv'
<1>1. \A k \in Calls : Past(call[k])' /\ Orderly(call[k])'
  BY DEF ArenaInv, Past, Orderly
<1>2. ASSUME ~straddled', NEW k \in Calls, call'[k].began = match'
      PROVE  Honest(call[k])'
  <2>1. CASE call'[k] = call[k]
    <3>1. Honest(call[k]) /\ Orderly(call[k]) /\ call[k] \in Requests
      BY <1>2, <2>1, RequestType DEF ArenaInv, Sound
    <3>2. \A r \in Requests : Orderly(r) /\ Honest(r) => Honest(r)'
      BY <1>2, HonestStays DEF ArenaInv
    <3> QED
      BY <2>1, <3>1, <3>2 DEF Honest
  <2>2. CASE call'[k] # call[k]
    BY <1>2, <2>2
  <2> QED
    BY <2>1, <2>2
<1> QED
  BY <1>1, <1>2 DEF ArenaInv, Sound

LEMMA IdleType == Idle \in Requests /\ Idle.pc = "idle" /\ Idle.began = 1 /\ Idle.all = FALSE
  BY ArenaAssumption DEF Idle, Requests, Steps

LEMMA ArenaStarts == Init => ArenaInv
<1> SUFFICES ASSUME Init
             PROVE  ArenaInv
  OBVIOUS
<1>1. InitialNeed \in [Rounds -> Nat]
  BY ArenaAssumption
<1>2. EventType
  <2>1. 1 \in Nat \ {0}
    OBVIOUS
  <2>2. match \in Nat \ {0} /\ mode \in {"SEQUENTIAL", "UNLOCK_ALL"} /\ straddled \in BOOLEAN
    BY <2>1 DEF Init
  <2> QED
    BY <1>1, <2>2 DEF Init, EventType
<1>10. RecordedType /\ ShownType
  BY DEF Init, RecordedType, ShownType
<1>3. StatusType /\ AcceptedType
  BY DEF Init, StatusType, AcceptedType, RowStatuses
<1>4. CallType
  BY IdleType DEF Init, CallType
<1>5. AtLeast(need)
  BY <1>1 DEF Init, AtLeast
<1>6. \A p \in Calls : Past(call[p]) /\ Orderly(call[p]) /\ Honest(call[p])
  BY IdleType DEF Init, Past, Orderly, Honest, Deciding
<1>7. RecordedInOrder /\ RecordedEarned
  BY DEF Init, RecordedInOrder, RecordedEarned, Tables, Units
<1>8. CompletedAccepted /\ AcceptedCompleted
  BY DEF Init, CompletedAccepted, AcceptedCompleted
<1>9. ShownKept
  BY DEF Init, ShownKept
<1> QED
  BY <1>2, <1>3, <1>4, <1>5, <1>6, <1>7, <1>8, <1>9, <1>10 DEF ArenaInv, ArenaType, Sound, RowsSound

-----------------------------------------------------------------------------
(* Steps that change nothing but a request *)

LEMMA SameRows ==
  ASSUME UNCHANGED <<rowVars, adminVars, history>>
  PROVE  /\ RowsSound => RowsSound'
         /\ \A n : AtLeast(n)' <=> AtLeast(n)
         /\ \A u \in Units : /\ Known(u)' = Known(u) /\ Granted(u)' = Granted(u)
                             /\ Base(u)' = Base(u) /\ Solved(u)' = Solved(u)
         /\ \A u \in Units : \A r : Earned(u, r)' <=> Earned(u, r)
         /\ \A u \in Units : \A c : Entitled(u, c)' <=> Entitled(u, c)
<1> USE DEF rowVars, adminVars, history
<1>2. \A n : AtLeast(n)' <=> AtLeast(n)
  BY DEF AtLeast
<1>3. \A u \in Units : /\ Known(u)' = Known(u) /\ Granted(u)' = Granted(u)
                       /\ Base(u)' = Base(u) /\ Solved(u)' = Solved(u)
  BY DEF Known, Granted, Base, Solved
<1>4. \A u \in Units : \A r : Earned(u, r)' <=> Earned(u, r)
  BY <1>3 DEF Earned
<1>5. \A u \in Units : \A c : Entitled(u, c)' <=> Entitled(u, c)
  BY <1>3 DEF Entitled
<1>6. RowsSound => RowsSound'
  <2>1. RecordedInOrder => RecordedInOrder'
    BY DEF RecordedInOrder
  <2>2. ASSUME RecordedEarned
        PROVE  RecordedEarned'
    BY <1>4, <2>2 DEF RecordedEarned
  <2>3. CompletedAccepted => CompletedAccepted'
    BY DEF CompletedAccepted
  <2>4. AcceptedCompleted => AcceptedCompleted'
    BY DEF AcceptedCompleted
  <2>5. ShownKept => ShownKept'
    BY <1>3 DEF ShownKept
  <2> QED
    BY <2>1, <2>2, <2>3, <2>4, <2>5 DEF RowsSound
<1> QED
  BY <1>2, <1>3, <1>4, <1>5, <1>6

\* A request goes on as q.
LEMMA OnlyTheRequest ==
  ASSUME ArenaInv, NEW p \in Calls, NEW q \in Requests, call' = [call EXCEPT ![p] = q],
         UNCHANGED <<match, rowVars, adminVars, history>>,
         Past(q), Orderly(q), ~straddled /\ q.began = match => Honest(q)
  PROVE  ArenaInv'
<1>1. ArenaType'
  BY DEF rowVars, adminVars, history, ArenaInv, ArenaType, EventType, StatusType, RecordedType,
         AcceptedType, ShownType, CallType
<1>2. call'[p] = q /\ \A k \in Calls : k = p \/ call'[k] = call[k]
  BY DEF ArenaInv, ArenaType, CallType
<1>3. AtLeast(need)' /\ Forward /\ (RowsSound => RowsSound') /\ straddled' = straddled
  <2>1. \A r \in Rounds : least[r] <= least[r]
    BY DEF ArenaInv, ArenaType, EventType
  <2> QED
    BY <2>1, SameRows DEF adminVars, rowVars, history, ArenaInv, AtLeast, Forward, ArenaType
<1>4. Past(call[p])' /\ Orderly(call[p])'
  BY <1>2 DEF Past, Orderly
<1>5. Orderly(q) /\ Honest(q) => Honest(q)'
  BY <1>1, <1>3, HonestStays DEF ArenaInv
<1>6. Honest(q)' => Honest(call[p])'
  BY <1>2 DEF Honest
<1> QED
  BY <1>1, <1>2, <1>3, <1>4, <1>5, <1>6, MatchGoesOn DEF ArenaInv, Sound

LEMMA BeginViewStep ==
  ASSUME ArenaInv, NEW p \in Calls, Abandon(p) \/ \E u \in Units : BeginView(p, u)
  PROVE  ArenaInv'
<1>1. match \in Nat \ {0} /\ match \in Nat /\ match <= match /\ 1 <= match
  BY DEF ArenaInv, ArenaType, EventType
<1>2. UNCHANGED <<match, rowVars, adminVars, history>>
  BY DEF BeginView, Abandon, eventVars
<1>3. PICK q : /\ call' = [call EXCEPT ![p] = q] /\ q \in Requests /\ q.began \in {1, match}
               /\ q.all = FALSE /\ q.kind = "view"
               /\ q.pc = "idle" \/ (q.pc = "config" /\ q.unit \in Units)
  <2>1. CASE Abandon(p)
    <3>1. Idle.kind = "view"
      BY DEF Idle
    <3> QED
      BY <2>1, <3>1, IdleType DEF Abandon, Done
  <2>2. ASSUME NEW u \in Units, BeginView(p, u)
        PROVE  \E q : /\ call' = [call EXCEPT ![p] = q] /\ q \in Requests /\ q.began \in {1, match}
                      /\ q.all = FALSE /\ q.kind = "view"
                      /\ q.pc = "idle" \/ (q.pc = "config" /\ q.unit \in Units)
    <3> DEFINE q == [Idle EXCEPT !.pc = "config", !.kind = "view", !.unit = u, !.began = match]
    <3>1. call' = [call EXCEPT ![p] = q]
      BY <2>2 DEF BeginView
    <3>2. /\ q \in Requests /\ q.began = match /\ q.all = FALSE /\ q.kind = "view"
          /\ q.pc = "config" /\ q.unit = u
      BY <1>1, ArenaAssumption DEF Idle, Requests, Steps
    <3> QED
      BY <3>1, <3>2
  <2> QED
    BY <2>1, <2>2
<1>4. Past(q) /\ Orderly(q) /\ Honest(q)
  BY <1>1, <1>3 DEF Past, Orderly, Honest, Deciding
<1> QED
  BY <1>2, <1>3, <1>4, OnlyTheRequest

LEMMA BeginWorkStep ==
  ASSUME ArenaInv, NEW p \in Calls, NEW k \in {"run", "submit"}, NEW u \in Units, NEW c \in Challenges,
         BeginWork(p, k, u, c)
  PROVE  ArenaInv'
<1> DEFINE q == [Idle EXCEPT !.pc = "config", !.kind = k, !.unit = u, !.item = c, !.began = match]
<1>1. match \in Nat \ {0} /\ match \in Nat /\ match <= match
  BY DEF ArenaInv, ArenaType, EventType
<1>2. call' = [call EXCEPT ![p] = q] /\ UNCHANGED <<match, rowVars, adminVars, history>>
  BY DEF BeginWork, eventVars
<1>3. /\ q \in Requests /\ q.pc = "config" /\ q.began = match /\ q.all = FALSE /\ q.kind = k
      /\ q.unit = u /\ q.item = c
  BY <1>1, ArenaAssumption DEF Idle, Requests, Steps
<1> HIDE DEF q
<1>4. Past(q) /\ Orderly(q) /\ Honest(q)
  BY <1>1, <1>3 DEF Past, Orderly, Honest, Deciding
<1> QED
  BY <1>2, <1>3, <1>4, OnlyTheRequest

-----------------------------------------------------------------------------
(* The queries of a request *)

\* A request of this match is honest, and the rows are sound.
LEMMA RequestIs ==
  ASSUME ArenaInv, NEW p \in Calls
  PROVE  /\ call[p] \in Requests /\ Past(call[p]) /\ Orderly(call[p])
         /\ ~straddled => RowsSound
         /\ ~straddled /\ call[p].began = match => Honest(call[p])
  BY RequestType DEF ArenaInv, Sound

LEMMA KnownType ==
  ASSUME ArenaType, NEW u \in Units
  PROVE  Known(u) \in SUBSET Targets /\ Granted(u) \in SUBSET Targets
  BY DEF ArenaType, RecordedType, Known, Granted, Tables, Targets

LEMMA ReadConfigStep ==
  ASSUME ArenaInv, NEW p \in Calls, ReadConfig(p)
  PROVE  ArenaInv'
<1> DEFINE r == call[p]
           q == [[r EXCEPT !.need = need, !.all = (mode = "UNLOCK_ALL")] EXCEPT !.pc = "known"]
<1>1. r \in Requests /\ r.pc = "config" /\ Past(r) /\ Orderly(r)
  BY RequestIs DEF ReadConfig, At
<1>2. need \in [Rounds -> Nat] /\ (mode = "UNLOCK_ALL") \in BOOLEAN /\ AtLeast(need)
  BY DEF ArenaInv, ArenaType, EventType
<1>3. call' = [call EXCEPT ![p] = q] /\ UNCHANGED <<match, rowVars, adminVars, history>>
  BY DEF ReadConfig, Query, eventVars
<1>4. /\ q \in Requests /\ q.pc = "known" /\ q.need = need /\ q.all = (mode = "UNLOCK_ALL")
      /\ q.unit = r.unit /\ q.item = r.item /\ q.kind = r.kind /\ q.began = r.began
  BY <1>1, <1>2 DEF Requests, Steps
<1> HIDE DEF q
<1>5. Past(q) /\ Orderly(q) /\ Honest(q)
  BY <1>1, <1>2, <1>4 DEF Past, Orderly, Honest, Deciding
<1> QED
  BY <1>3, <1>4, <1>5, OnlyTheRequest

LEMMA ReadKnownStep ==
  ASSUME ArenaInv, NEW p \in Calls, ReadKnown(p)
  PROVE  ArenaInv'
<1> DEFINE r == call[p]
           q == [[r EXCEPT !.known = Known(r.unit)] EXCEPT !.pc = "overrides"]
<1>1. r \in Requests /\ r.pc = "known" /\ Past(r) /\ Orderly(r) /\ r.unit \in Units
  BY RequestIs DEF ReadKnown, At, Orderly
<1>2. Known(r.unit) \in SUBSET Targets
  BY <1>1, KnownType DEF ArenaInv
<1>3. call' = [call EXCEPT ![p] = q] /\ UNCHANGED <<match, rowVars, adminVars, history>>
  BY DEF ReadKnown, Query, eventVars
<1>4. /\ q \in Requests /\ q.pc = "overrides" /\ q.known = Known(r.unit)
      /\ q.need = r.need /\ q.all = r.all
      /\ q.unit = r.unit /\ q.item = r.item /\ q.kind = r.kind /\ q.began = r.began
  BY <1>1, <1>2 DEF Requests, Steps
<1> HIDE DEF q
<1>5. Past(q) /\ Orderly(q) /\ (Honest(r) => Honest(q))
  BY <1>1, <1>4 DEF Past, Orderly, Honest, Deciding
<1> QED
  BY <1>3, <1>4, <1>5, RequestIs, OnlyTheRequest

LEMMA ReadOverridesStep ==
  ASSUME ArenaInv, NEW p \in Calls, ReadOverrides(p)
  PROVE  ArenaInv'
<1> DEFINE r == call[p]
           q == [[r EXCEPT !.granted = Granted(r.unit)] EXCEPT !.pc = "solves"]
<1>1. r \in Requests /\ r.pc = "overrides" /\ Past(r) /\ Orderly(r) /\ r.unit \in Units
  BY RequestIs DEF ReadOverrides, At, Orderly
<1>2. Granted(r.unit) \in SUBSET Targets
  BY <1>1, KnownType DEF ArenaInv
<1>3. call' = [call EXCEPT ![p] = q] /\ UNCHANGED <<match, rowVars, adminVars, history>>
  BY DEF ReadOverrides, Query, eventVars
<1>4. /\ q \in Requests /\ q.pc = "solves" /\ q.granted = Granted(r.unit) /\ q.known = r.known
      /\ q.need = r.need /\ q.all = r.all
      /\ q.unit = r.unit /\ q.item = r.item /\ q.kind = r.kind /\ q.began = r.began
  BY <1>1, <1>2 DEF Requests, Steps
<1> HIDE DEF q
<1>5. Past(q) /\ Orderly(q) /\ (Honest(r) => Honest(q))
  BY <1>1, <1>4 DEF Past, Orderly, Honest, Deciding
<1> QED
  BY <1>3, <1>4, <1>5, RequestIs, OnlyTheRequest

\* A round that enough of the solves the tables show lead to, has been earned.
LEMMA LeadsIsEarned ==
  ASSUME ArenaType, CompletedAccepted, NEW u \in Units, NEW r \in Rounds,
         NEW n \in [Rounds -> Nat], AtLeast(n), Leads(r, Solved(u), n)
  PROVE  Earned(u, r)
<1> DEFINE seen == {c \in Solved(u) : RoundOf[c] = r - 1}
           has == {c \in Challenges : RoundOf[c] = r - 1 /\ accepted[u][c] > 0}
<1>1. seen \subseteq has /\ has \subseteq Challenges
  BY DEF CompletedAccepted, Solved
<1>2. IsFiniteSet(seen) /\ IsFiniteSet(has)
  BY <1>1, ArenaAssumption, FS_Subset
<1>3. Cardinality(seen) \in Nat /\ Cardinality(has) \in Nat /\ Cardinality(seen) <= Cardinality(has)
  BY <1>1, <1>2, FS_Subset, FS_CardinalityType
<1>4. Cardinality(seen) >= n[r]
  BY DEF Leads
<1>5. n[r] \in Nat /\ least[r] \in Nat /\ n[r] >= least[r]
  BY DEF ArenaType, EventType, AtLeast
<1> HIDE DEF seen, has
<1>6. Cardinality(has) >= least[r]
  BY <1>3, <1>4, <1>5
<1> QED
  BY <1>6 DEF Earned, has

LEMMA ReadSolvesStep ==
  ASSUME ArenaInv, NEW p \in Calls, ReadSolves(p)
  PROVE  ArenaInv'
<1> DEFINE r == call[p]
           u == r.unit
           open == Open(r.all, r.known, r.granted, Solved(u), r.need)
           q == [[r EXCEPT !.open = open \cup (r.granted \cap Challenges), !.todo = ToRecord(r, open),
                           !.need = InitialNeed, !.known = {}, !.granted = {}] EXCEPT !.pc = "record"]
<1>1. r \in Requests /\ r.pc = "solves" /\ Past(r) /\ Orderly(r) /\ u \in Units
  BY RequestIs DEF ReadSolves, At, Orderly
<1>2. r.all \in BOOLEAN /\ r.need \in [Rounds -> Nat]
  BY <1>1 DEF Requests
<1>3. /\ open \subseteq Rounds
      /\ \A x \in open : r.all \/ x \in {1} \cup r.known \cup r.granted \/ Leads(x, Solved(u), r.need)
  BY <1>2, OpenIs
<1>4. call' = [call EXCEPT ![p] = q] /\ UNCHANGED <<match, rowVars, adminVars, history>>
  BY DEF ReadSolves, Query, eventVars
<1> HIDE DEF open
<1>5. ToRecord(r, open) \in SUBSET Rounds /\ open \cup (r.granted \cap Challenges) \in SUBSET Targets
  BY <1>1, <1>3, RoundsAre DEF ToRecord, Targets, Requests
<1>6. InitialNeed \in [Rounds -> Nat]
  BY ArenaAssumption
<1>7. /\ q \in Requests /\ q.pc = "record" /\ q.all = r.all
      /\ q.open = open \cup (r.granted \cap Challenges) /\ q.todo = ToRecord(r, open)
      /\ q.unit = u /\ q.item = r.item /\ q.kind = r.kind /\ q.began = r.began
  BY <1>1, <1>5, <1>6 DEF Requests, Steps
<1> HIDE DEF q
<1>8. Past(q) /\ Orderly(q)
  BY <1>1, <1>7 DEF Past, Orderly
<1>9. ASSUME ~straddled, q.began = match
      PROVE  Honest(q)
  <2>1. Honest(r) /\ CompletedAccepted
    BY <1>7, <1>9, RequestIs DEF RowsSound
  <2>2. ASSUME NEW x \in q.todo \ {1}
        PROVE  Earned(u, x)
    <3>1. x \in open /\ x \in Rounds /\ ~r.all /\ x \notin {1} \cup r.known \cup r.granted
      BY <1>3, <1>7, <2>2 DEF ToRecord
    <3>2. Leads(x, Solved(u), r.need) /\ AtLeast(r.need)
      BY <1>1, <1>3, <2>1, <3>1 DEF Honest
    <3> QED
      BY <1>1, <1>2, <2>1, <3>1, <3>2, LeadsIsEarned DEF ArenaInv
  <2>3. q.open \cap Challenges \subseteq Granted(u)
    BY <1>1, <1>3, <1>7, <2>1, ArenaAssumption DEF Honest
  <2>4. ~q.all => q.open \cap Rounds \subseteq Base(u) \cup q.todo
    <3>1. ~q.all => open \subseteq {1} \cup r.known \cup r.granted \cup q.todo
      BY <1>7 DEF ToRecord
    <3>2. q.open \cap Rounds \subseteq open
      BY <1>7, ArenaAssumption
    <3> QED
      BY <1>1, <2>1, <3>1, <3>2 DEF Honest, Base
  <2> QED
    BY <1>1, <1>7, <2>1, <2>2, <2>3, <2>4 DEF Honest, Deciding
<1> QED
  BY <1>4, <1>7, <1>8, <1>9, OnlyTheRequest

LEMMA CompletedIsSolved ==
  ASSUME NEW u, NEW c \in Challenges, Row(u, c) = "COMPLETED" \/ OneRow(u, c) = "COMPLETED"
  PROVE  c \in Solved(u)
  BY DEF Row, OneRow, Solved, Tables

LEMMA ReadRowsStep ==
  ASSUME ArenaInv, NEW p \in Calls, ReadRows(p)
  PROVE  ArenaInv'
<1> DEFINE r == call[p]
           u == r.unit
           c == r.item
           free == Row(u, c) = "COMPLETED" \/ RoundOf[c] \in r.open \/ c \in r.open
           q == [[r EXCEPT !.free = free, !.open = {}] EXCEPT !.pc = "row"]
<1>1. /\ r \in Requests /\ r.pc = "rows" /\ Past(r) /\ Orderly(r) /\ r.kind \in {"run", "submit"}
      /\ u \in Units /\ c \in Challenges /\ r.todo = {}
  BY RequestIs DEF ReadRows, At, Orderly
<1>2. call' = [call EXCEPT ![p] = q] /\ UNCHANGED <<match, rowVars, adminVars, history>>
  BY DEF ReadRows, Query, eventVars
<1>3. free \in BOOLEAN
  OBVIOUS
<1>4. ASSUME Honest(r), free
      PROVE  Entitled(u, c)
  <2>1. RoundOf[c] \in Rounds
    BY <1>1, ArenaAssumption
  <2>2. RoundOf[c] \in r.open => mode = "UNLOCK_ALL" \/ RoundOf[c] \in Base(u)
    BY <1>1, <1>4, <2>1 DEF Honest, Deciding
  <2>3. c \in r.open => c \in Granted(u)
    BY <1>1, <1>4 DEF Honest, Deciding
  <2>4. Row(u, c) = "COMPLETED" => c \in Solved(u)
    BY <1>1, CompletedIsSolved
  <2> QED
    BY <1>4, <2>2, <2>3, <2>4 DEF Entitled
<1> HIDE DEF free
<1>5. /\ q \in Requests /\ q.pc = "row" /\ q.free = free /\ q.all = r.all
      /\ q.unit = u /\ q.item = c /\ q.kind = r.kind /\ q.began = r.began
  BY <1>1, <1>3 DEF Requests, Steps
<1> HIDE DEF q
<1>6. Past(q) /\ Orderly(q) /\ (Honest(r) => Honest(q))
  BY <1>1, <1>4, <1>5 DEF Past, Orderly, Honest, Deciding
<1> QED
  BY <1>2, <1>5, <1>6, RequestIs, OnlyTheRequest

LEMMA AllowStep ==
  ASSUME ArenaInv, NEW p \in Calls, AllowRun(p) \/ AllowSubmit(p) \/ VerifyFlag(p) \/ Recheck(p)
  PROVE  ArenaInv'
<1> DEFINE r == call[p]
<1>1. PICK pc \in {"attempt", "flag", "recheck", "commit"} : call' = [call EXCEPT ![p] = [r EXCEPT !.pc = pc]]
  BY DEF AllowRun, AllowSubmit, VerifyFlag, Recheck, Query
<1> DEFINE q == [r EXCEPT !.pc = pc]
<1>2. UNCHANGED <<match, rowVars, adminVars, history>>
  BY DEF AllowRun, AllowSubmit, VerifyFlag, Recheck, Query, eventVars
<1>3. /\ r \in Requests /\ r.pc \in {"row", "flag", "recheck"} /\ Past(r) /\ Orderly(r)
      /\ r.unit \in Units /\ r.item \in Challenges /\ r.kind \in {"run", "submit"}
  BY RequestIs DEF AllowRun, AllowSubmit, VerifyFlag, Recheck, At, Orderly
<1>4. r.pc = "row" => r.free \/ r.item \in Solved(r.unit)
  BY <1>3, CompletedIsSolved DEF AllowRun, AllowSubmit, VerifyFlag, Recheck, At
<1>5. /\ q \in Requests /\ q.pc = pc /\ q.all = r.all
      /\ q.unit = r.unit /\ q.item = r.item /\ q.kind = r.kind /\ q.began = r.began
  BY <1>3 DEF Requests, Steps
<1>6. Honest(r) => Entitled(r.unit, r.item)
  BY <1>3, <1>4 DEF Honest, Entitled
<1> HIDE DEF q
<1>7. Past(q) /\ Orderly(q) /\ (Honest(r) => Honest(q))
  BY <1>3, <1>5, <1>6 DEF Past, Orderly, Honest, Deciding
<1> QED
  BY <1>1, <1>2, <1>5, <1>7, RequestIs, OnlyTheRequest DEF q

-----------------------------------------------------------------------------
(* Writes *)

\* A request goes on as q, and writes.
LEMMA RequestWrites ==
  ASSUME ArenaInv, ArenaType', NEW p \in Calls, NEW q \in Requests, call' = [call EXCEPT ![p] = q],
         match' = match, UNCHANGED adminVars, AtLeast(need)', Past(q), Orderly(q),
         straddled' = (straddled \/ call[p].began # match), q.began \in {call[p].began, 1},
         ~straddled' => Forward /\ RowsSound' /\ Honest(q)'
  PROVE  ArenaInv'
<1>1. call'[p] = q /\ \A k \in Calls : k = p \/ call'[k] = call[k]
  BY DEF ArenaInv, ArenaType, CallType
<1>2. Past(call[p])' /\ Orderly(call[p])'
  BY <1>1 DEF Past, Orderly
<1>3. Honest(q)' => Honest(call[p])'
  BY <1>1 DEF Honest
<1>4. ~straddled' => ~straddled
  BY DEF ArenaInv, ArenaType, EventType
<1> QED
  BY <1>1, <1>2, <1>3, <1>4, MatchGoesOn

\* Unlocks are recorded, and nothing else.
LEMMA RecordUnlockStep ==
  ASSUME ArenaInv, NEW p \in Calls, NEW t \in Tables, NEW r \in call[p].todo, RecordUnlock(p, r, t),
         call[p].pc \in {"record", "recordLegacy"}, call[p].unit \in Units, CallType',
         t = "team" /\ call[p].unit \in Participants /\ call[p].began = match /\ ~straddled =>
           r \in recorded["participant"][call[p].unit]
  PROVE  /\ ArenaType' /\ AtLeast(need)' /\ match' = match /\ UNCHANGED adminVars
         /\ ~straddled' => Forward /\ RowsSound'
         /\ ~straddled' => \A v \in Units : Base(v)' = Base(v) \cup
              (IF v = call[p].unit /\ InTable(v, t) /\ (t = "participant" \/ v \notin Participants)
               THEN {r} ELSE {})
<1> DEFINE u == call[p].unit
<1>1. r \in Rounds /\ call[p] \in Requests
  BY RequestType DEF ArenaInv, Requests
<1>2. /\ UNCHANGED <<match, status, overrides, mode, need, accepted, least, shown, undone>>
      /\ straddled' = (straddled \/ call[p].began # match)
      /\ recorded' = IF InTable(u, t) THEN [recorded EXCEPT ![t][u] = @ \cup {r}] ELSE recorded
  BY DEF RecordUnlock, eventVars, adminVars, Land
<1>3. RecordedType'
  BY <1>1, <1>2 DEF RecordedType, ArenaInv, ArenaType
<1>4. ArenaType' /\ AtLeast(need)'
  BY <1>2, <1>3 DEF ArenaInv, ArenaType, EventType, StatusType, AcceptedType, ShownType, AtLeast
<1>5. \A s \in Tables, v \in Units : recorded'[s][v] =
        IF s = t /\ v = u /\ InTable(v, t) THEN recorded[s][v] \cup {r} ELSE recorded[s][v]
  BY <1>2 DEF ArenaInv, ArenaType, RecordedType
<1>6. ASSUME ~straddled'
      PROVE  /\ Forward /\ RowsSound'
             /\ \A v \in Units : Base(v)' = Base(v) \cup
                  (IF v = u /\ InTable(v, t) /\ (t = "participant" \/ v \notin Participants)
                   THEN {r} ELSE {})
  <2>1. ~straddled /\ call[p].began = match /\ RowsSound /\ Honest(call[p])
    BY <1>2, <1>6, RequestIs DEF ArenaInv, ArenaType, EventType
  <2>2. RecordedInOrder'
    <3>1. t \in {"participant", "team"} /\ {"participant", "team"} = Tables /\ Participants \subseteq Units
      BY DEF Tables, Units
    <3>2. ASSUME NEW v \in Participants
          PROVE  recorded'["team"][v] \subseteq recorded'["participant"][v]
      <4>1. recorded["team"][v] \subseteq recorded["participant"][v]
        BY <2>1 DEF RowsSound, RecordedInOrder
      <4>2. v = u /\ t = "team" => r \in recorded["participant"][v]
        BY <2>1
      <4>3. v \in Units /\ "team" \in Tables /\ "participant" \in Tables /\ "team" # "participant"
        BY <3>1
      <4>4. recorded["participant"][v] \subseteq recorded'["participant"][v]
        BY <1>5, <4>3
      <4>5. recorded'["team"][v] \subseteq recorded["team"][v] \cup (IF v = u /\ t = "team" THEN {r} ELSE {})
        BY <1>5, <4>3
      <4> QED
        BY <4>1, <4>2, <4>4, <4>5
    <3>3. ASSUME NEW v \in Units \ Participants
          PROVE  recorded'["participant"][v] = {}
      <4>1. recorded["participant"][v] = {}
        BY <2>1 DEF RowsSound, RecordedInOrder
      <4> QED
        BY <1>5, <3>1, <4>1 DEF InTable
    <3> QED
      BY <3>2, <3>3 DEF RecordedInOrder
  <2>3. \A v \in Units : Known(v)' = Known(v) \cup
          (IF v = u /\ InTable(v, t) /\ (t = "participant" \/ v \notin Participants)
           THEN {r} ELSE {})
    <3>1. TAKE v \in Units
    <3>2. Known(v) = IF v \in Participants THEN recorded["participant"][v] ELSE recorded["team"][v]
      BY <2>1, KnownIs DEF RowsSound
    <3>3. Known(v)' = IF v \in Participants THEN recorded'["participant"][v] ELSE recorded'["team"][v]
      BY <2>2 DEF RecordedInOrder, Known
    <3>4. t \in {"participant", "team"} /\ {"participant", "team"} = Tables
      BY DEF Tables
    <3> QED
      BY <1>5, <3>2, <3>3, <3>4 DEF InTable
  <2>4. \A v \in Units : Granted(v)' = Granted(v) /\ Solved(v)' = Solved(v)
    BY <1>2 DEF Granted, Solved
  <2>5. Forward
    <3>1. \A x \in Rounds : least'[x] <= least[x]
      BY <1>2 DEF ArenaInv, ArenaType, EventType
    <3>2. \A v \in Participants : recorded["participant"][v] \subseteq recorded'["participant"][v]
      BY <1>5 DEF Tables, Units
    <3> QED
      BY <1>2, <2>3, <2>4, <3>1, <3>2 DEF Forward
  <2>6. RecordedEarned'
    <3>1. Earned(u, r) \/ r = 1
      BY <1>1, <2>1 DEF Honest
    <3>2. \A v \in Units : \A x : Earned(v, x)' <=> Earned(v, x)
      BY <1>2, <2>4 DEF Earned
    <3>3. ASSUME NEW s \in Tables, NEW v \in Units, NEW x \in recorded'[s][v] \ {1}
          PROVE  Earned(v, x)
      <4>1. x \in recorded[s][v] \/ (v = u /\ x = r)
        BY ZenonT(40), <1>5
      <4> QED
        BY <2>1, <3>1, <4>1 DEF RecordedEarned, RowsSound
    <3> QED
      BY <3>2, <3>3 DEF RecordedEarned
  <2>7. CompletedAccepted' /\ AcceptedCompleted'
    BY <1>2, <2>1 DEF RowsSound, CompletedAccepted, AcceptedCompleted
  <2>8. \A v \in Units : Base(v)' = Base(v) \cup
           (IF v = u /\ InTable(v, t) /\ (t = "participant" \/ v \notin Participants)
            THEN {r} ELSE {})
    BY <2>3, <2>4 DEF Base
  <2>9. ShownKept'
    BY <1>2, <2>1, <2>8 DEF RowsSound, ShownKept
  <2> QED
    BY <2>2, <2>5, <2>6, <2>7, <2>8, <2>9 DEF RowsSound
<1> QED
  BY <1>2, <1>4, <1>6 DEF adminVars

LEMMA UpcomingIsOne ==
  ASSUME NEW todo \in SUBSET Rounds, NEW r \in Upcoming(todo)
  PROVE  r \in todo /\ r \in Rounds /\ \A x \in Upcoming(todo) : x = r
<1>1. \A x, y \in Rounds : x <= y /\ y <= x => x = y
  BY RoundsAre
<1> QED
  BY <1>1 DEF Upcoming

LEMMA RecordStep ==
  ASSUME ArenaInv, NEW p \in Calls, Record(p)
  PROVE  ArenaInv'
<1>1. PICK c : c = call[p]
  OBVIOUS
<1>2. /\ c \in Requests /\ c.pc = "record" /\ Past(c) /\ Orderly(c) /\ c.unit \in Units
      /\ c.todo \in SUBSET Rounds
  BY <1>1, RequestIs DEF Record, At, Orderly, Requests
<1>3. PICK r \in Upcoming(c.todo) : RecordUnlock(p, r, "participant")
  BY <1>1 DEF Record
<1> DEFINE q == [c EXCEPT !.pc = "recordLegacy"]
<1>4. call' = [call EXCEPT ![p] = q]
  BY <1>1 DEF Record
<1>5. /\ q \in Requests /\ q.pc = "recordLegacy" /\ q.all = c.all /\ q.open = c.open /\ q.todo = c.todo
      /\ q.unit = c.unit /\ q.item = c.item /\ q.kind = c.kind /\ q.began = c.began
  BY <1>2 DEF Requests, Steps
<1> HIDE DEF q
<1>6. CallType'
  BY <1>4, <1>5 DEF ArenaInv, ArenaType, CallType
<1>7. "participant" \in Tables /\ r \in c.todo
  BY <1>2, <1>3, UpcomingIsOne DEF Tables
<1>8. /\ ArenaType' /\ AtLeast(need)' /\ match' = match /\ UNCHANGED adminVars
      /\ ~straddled' => Forward /\ RowsSound'
  BY <1>1, <1>2, <1>3, <1>6, <1>7, RecordUnlockStep
<1>9. straddled' = (straddled \/ c.began # match)
  BY <1>1, <1>3 DEF RecordUnlock, Land
<1>10. c.unit \in Participants => r \in recorded'["participant"][c.unit]
  BY <1>1, <1>2, <1>3, <1>7 DEF RecordUnlock, InTable, ArenaInv, ArenaType, RecordedType
<1>11. ASSUME ~straddled'
       PROVE  Honest(q)'
  <2>1. Honest(c)
    BY <1>1, <1>9, <1>11, RequestIs DEF ArenaInv, ArenaType, EventType
  <2>2. Honest(c)'
    BY <1>2, <1>8, <1>11, <2>1, HonestStays DEF ArenaInv
  <2>3. c.unit \in Participants => Upcoming(c.todo) \subseteq recorded'["participant"][c.unit]
    BY <1>2, <1>3, <1>10, UpcomingIsOne
  <2> QED
    BY <1>2, <1>5, <2>2, <2>3 DEF Honest, Deciding, Upcoming
<1>12. Past(q) /\ Orderly(q)
  BY <1>2, <1>5 DEF Past, Orderly
<1> QED
  BY <1>1, <1>4, <1>5, <1>8, <1>9, <1>11, <1>12, RequestWrites

LEMMA RecordLegacyStep ==
  ASSUME ArenaInv, NEW p \in Calls, RecordLegacy(p)
  PROVE  ArenaInv'
<1>1. PICK c : c = call[p]
  OBVIOUS
<1>2. /\ c \in Requests /\ c.pc = "recordLegacy" /\ Past(c) /\ Orderly(c) /\ c.unit \in Units
      /\ c.todo \in SUBSET Rounds
  BY <1>1, RequestIs DEF RecordLegacy, At, Orderly, Requests
<1>3. PICK r \in Upcoming(c.todo) :
        /\ RecordUnlock(p, r, "team")
        /\ \/ /\ c.todo # {r}
              /\ call' = [call EXCEPT ![p] = [c EXCEPT !.pc = "record", !.todo = c.todo \ {r}]]
           \/ /\ c.todo = {r}
              /\ call' = [call EXCEPT ![p] = [c EXCEPT !.pc = "rows", !.todo = {}]]
           \/ call' = [call EXCEPT ![p] = Idle]
  <2>1. PICK r \in Upcoming(call[p].todo) :
          /\ RecordUnlock(p, r, "team")
          /\ \/ /\ call[p].todo # {r} /\ call' = [call EXCEPT ![p].pc = "record", ![p].todo = @ \ {r}]
             \/ /\ call[p].todo = {r} /\ call[p].kind # "grant"
                /\ call' = [call EXCEPT ![p].pc = "rows", ![p].todo = {}]
             \/ call[p].todo = {r} /\ call[p].kind = "grant" /\ Done(p)
    BY DEF RecordLegacy
  <2>2. [call EXCEPT ![p].pc = "record", ![p].todo = @ \ {r}] =
          [call EXCEPT ![p] = [call[p] EXCEPT !.pc = "record", !.todo = call[p].todo \ {r}]]
    BY <1>1, <1>2 DEF ArenaInv, ArenaType, CallType, Requests
  <2>3. [call EXCEPT ![p].pc = "rows", ![p].todo = {}] =
          [call EXCEPT ![p] = [call[p] EXCEPT !.pc = "rows", !.todo = {}]]
    BY <1>1, <1>2 DEF ArenaInv, ArenaType, CallType, Requests
  <2> QED
    BY <1>1, <2>1, <2>2, <2>3 DEF Done
<1>4. r \in c.todo /\ r \in Rounds /\ "team" \in Tables /\ c.todo \ {r} \in SUBSET Rounds
  BY <1>2, <1>3, UpcomingIsOne DEF Tables
<1>5. PICK q : /\ call' = [call EXCEPT ![p] = q] /\ q \in Requests
               /\ \/ q = Idle
                  \/ /\ q.pc \in {"record", "rows"} /\ q.todo = c.todo \ {r}
                     /\ q.pc = "rows" => q.todo = {}
                     /\ q.all = c.all /\ q.open = c.open
                     /\ q.unit = c.unit /\ q.item = c.item /\ q.kind = c.kind /\ q.began = c.began
  <2>1. CASE c.todo # {r} /\ call' = [call EXCEPT ![p] = [c EXCEPT !.pc = "record", !.todo = c.todo \ {r}]]
    <3> DEFINE q == [c EXCEPT !.pc = "record", !.todo = c.todo \ {r}]
    <3>1. /\ q \in Requests /\ q.pc = "record" /\ q.todo = c.todo \ {r} /\ q.all = c.all /\ q.open = c.open
          /\ q.unit = c.unit /\ q.item = c.item /\ q.kind = c.kind /\ q.began = c.began
      BY <1>2, <1>4 DEF Requests, Steps
    <3> QED
      BY <2>1, <3>1
  <2>2. CASE c.todo = {r} /\ call' = [call EXCEPT ![p] = [c EXCEPT !.pc = "rows", !.todo = {}]]
    <3> DEFINE q == [c EXCEPT !.pc = "rows", !.todo = {}]
    <3>1. /\ q \in Requests /\ q.pc = "rows" /\ q.todo = {} /\ q.all = c.all /\ q.open = c.open
          /\ q.unit = c.unit /\ q.item = c.item /\ q.kind = c.kind /\ q.began = c.began
      BY <1>2, <1>4 DEF Requests, Steps
    <3> QED
      BY <2>2, <3>1
  <2>3. CASE call' = [call EXCEPT ![p] = Idle]
    BY <2>3, IdleType
  <2> QED
    BY <1>3, <2>1, <2>2, <2>3
<1>6. CallType'
  BY <1>5 DEF ArenaInv, ArenaType, CallType
<1>7. straddled' = (straddled \/ c.began # match)
  BY <1>1, <1>3 DEF RecordUnlock, Land
<1>8. ASSUME ~straddled, c.began = match
      PROVE  Honest(c) /\ RowsSound /\ (c.unit \in Participants => r \in recorded["participant"][c.unit])
  BY <1>1, <1>2, <1>3, <1>8, RequestIs DEF Honest
<1>9. /\ ArenaType' /\ AtLeast(need)' /\ match' = match /\ UNCHANGED adminVars
      /\ ~straddled' => Forward /\ RowsSound'
      /\ ~straddled' => \A v \in Units : Base(v)' = Base(v) \cup
              (IF v = c.unit /\ InTable(v, "team") /\ ("team" = "participant" \/ v \notin Participants)
               THEN {r} ELSE {})
  BY <1>1, <1>2, <1>3, <1>4, <1>6, <1>8, RecordUnlockStep
<1>10. ASSUME ~straddled'
       PROVE  Honest(q)'
  <2>1. Honest(c) /\ RowsSound /\ (c.unit \in Participants => r \in recorded["participant"][c.unit])
    BY <1>7, <1>8, <1>10 DEF ArenaInv, ArenaType, EventType
  <2>2. Honest(c)'
    BY <1>2, <1>9, <1>10, <2>1, HonestStays DEF ArenaInv
  <2>3. r \in Base(c.unit)'
    <3>1. CASE c.unit \in Participants
      <4>1. Known(c.unit) = recorded["participant"][c.unit]
        BY <1>2, <2>1, <3>1, KnownIs DEF RowsSound
      <4> QED
        BY <1>2, <1>9, <1>10, <2>1, <3>1, <4>1 DEF Base
    <3>2. CASE c.unit \notin Participants
      BY <1>2, <1>9, <1>10, <3>2 DEF InTable, Units
    <3> QED
      BY <3>1, <3>2
  <2>4. CASE q = Idle
    BY <2>4, IdleType DEF Honest, Deciding
  <2>5. CASE q # Idle
    BY <1>2, <1>5, <2>2, <2>3, <2>5 DEF Honest, Deciding
  <2> QED
    BY <2>4, <2>5
<1>11. Past(q) /\ Orderly(q) /\ q.began \in {c.began, 1}
  <2>1. match \in Nat \ {0}
    BY DEF ArenaInv, ArenaType, EventType
  <2>2. 1 <= match
    BY <2>1
  <2> QED
    BY <1>2, <1>5, <2>2, IdleType DEF Past, Orderly
<1> QED
  BY <1>1, <1>5, <1>7, <1>9, <1>10, <1>11, RequestWrites

\* A request that has ended asks nothing of the rest.
LEMMA IdleIsFine ==
  ASSUME match' = match, 1 <= match
  PROVE  \A k \in Calls : call'[k] = Idle =>
           Past(call[k])' /\ Orderly(call[k])' /\ Honest(call[k])'
  BY IdleType DEF Past, Orderly, Honest, Deciding

LEMMA AnswerStep ==
  ASSUME ArenaInv, NEW p \in Calls, Answer(p)
  PROVE  ArenaInv'
<1> DEFINE c == call[p]
           told == {<<x, c.all>> : x \in (c.open \cap Rounds) \ {1}}
<1>1. /\ c \in Requests /\ c.pc = "rows" /\ Past(c) /\ Orderly(c) /\ c.unit \in Units /\ c.todo = {}
      /\ c.all \in BOOLEAN
  BY RequestIs DEF Answer, At, Orderly, Requests
<1>2. /\ shown' = IF c.began = match THEN [shown EXCEPT ![c.unit] = @ \cup told] ELSE shown
      /\ call' = [call EXCEPT ![p] = Idle]
      /\ UNCHANGED <<match, status, recorded, overrides, mode, need, accepted, least, undone, straddled>>
  BY DEF Answer, Done, eventVars, rowVars, adminVars
<1>3. told \subseteq Rounds \X BOOLEAN
  BY <1>1
<1>4. \A u \in Units : shown'[u] \subseteq shown[u] \cup
        (IF u = c.unit /\ c.began = match THEN told ELSE {})
  BY <1>2 DEF ArenaInv, ArenaType, ShownType
<1>5. ArenaType'
  <2>1. ShownType'
    BY <1>2, <1>3 DEF ArenaInv, ArenaType, ShownType
  <2>2. CallType'
    BY <1>2, IdleType DEF ArenaInv, ArenaType, CallType
  <2> QED
    BY <1>2, <2>1, <2>2 DEF ArenaInv, ArenaType, EventType, StatusType, RecordedType, AcceptedType
<1>6. AtLeast(need)'
  BY <1>2 DEF ArenaInv, AtLeast
<1>7. \A u \in Units : /\ Known(u)' = Known(u) /\ Granted(u)' = Granted(u)
                       /\ Base(u)' = Base(u) /\ Solved(u)' = Solved(u)
  BY <1>2 DEF Known, Granted, Base, Solved
<1>8. Forward
  <2>1. \A x \in Rounds : least'[x] <= least[x]
    BY <1>2 DEF ArenaInv, ArenaType, EventType
  <2> QED
    BY <1>2, <1>7, <2>1 DEF Forward
<1>9. ASSUME ~straddled
      PROVE  RowsSound'
  <2>1. RowsSound /\ (c.began = match => Honest(c))
    BY <1>9, RequestIs
  <2>2. RecordedInOrder' /\ CompletedAccepted' /\ AcceptedCompleted'
    BY <1>2, <2>1 DEF RowsSound, RecordedInOrder, CompletedAccepted, AcceptedCompleted
  <2>3. RecordedEarned'
    <3>1. \A u \in Units : \A x : Earned(u, x)' <=> Earned(u, x)
      BY <1>2, <1>7 DEF Earned
    <3> QED
      BY <1>2, <2>1, <3>1 DEF RowsSound, RecordedEarned
  <2>4. ShownKept'
    <3>1. ASSUME NEW u \in Units, NEW x \in Rounds, <<x, FALSE>> \in shown'[u]
          PROVE  x \in Base(u)
      <4>1. CASE <<x, FALSE>> \in shown[u]
        BY <2>1, <4>1 DEF RowsSound, ShownKept
      <4>2. CASE u = c.unit /\ c.began = match /\ <<x, FALSE>> \in told
        <5>1. c.all = FALSE /\ x \in c.open \cap Rounds
          BY <4>2
        <5> QED
          BY <1>1, <2>1, <4>2, <5>1 DEF Honest, Deciding
      <4> QED
        BY <1>4, <3>1, <4>1, <4>2
    <3> QED
      BY <1>7, <3>1 DEF ShownKept
  <2> QED
    BY <2>2, <2>3, <2>4 DEF RowsSound
<1>10. 1 <= match
  <2>1. match \in Nat \ {0}
    BY DEF ArenaInv, ArenaType, EventType
  <2> QED
    BY <2>1
<1>11. \A k \in Calls : call'[k] = call[k] \/ call'[k] = Idle
  BY <1>2 DEF ArenaInv, ArenaType, CallType
<1> QED
  BY <1>2, <1>5, <1>6, <1>8, <1>9, <1>10, <1>11, IdleIsFine, MatchGoesOn

\* Rows of challenges are written, and flags accepted.
LEMMA StatusGoesForward ==
  ASSUME ArenaType, ArenaType', RowsSound,
         UNCHANGED <<match, recorded, overrides, mode, need, least, shown>>,
         \A u \in Units : Solved(u) \subseteq Solved(u)' \cup Granted(u),
         \A u \in Units, c \in Challenges : accepted[u][c] > 0 => accepted'[u][c] > 0
  PROVE  Forward /\ RecordedInOrder' /\ RecordedEarned' /\ ShownKept'
<1>1. \A u \in Units : Known(u)' = Known(u) /\ Granted(u)' = Granted(u) /\ Base(u)' = Base(u)
  BY DEF Known, Granted, Base
<1>2. \A x \in Rounds : least'[x] <= least[x]
  BY DEF ArenaType, EventType
<1>3. Forward
  BY <1>1, <1>2 DEF Forward
<1>4. RecordedInOrder'
  BY DEF RowsSound, RecordedInOrder
<1>5. RecordedEarned'
  <2>1. \A t \in Tables, u \in Units : recorded[t][u] \subseteq Rounds
    BY DEF ArenaType, RecordedType
  <2>2. \A u \in Units : \A x \in Rounds : Earned(u, x) => Earned(u, x)'
    BY <1>3, EarnedStays
  <2> QED
    BY <2>1, <2>2 DEF RowsSound, RecordedEarned
<1>6. ShownKept'
  BY <1>1 DEF RowsSound, ShownKept
<1> QED
  BY <1>3, <1>4, <1>5, <1>6

\* What a write of one status does.
LEMMA SetStatusIs ==
  ASSUME ArenaType, NEW p \in Calls, NEW t \in Tables, NEW s \in RowStatuses, SetStatus(p, t, s),
         call[p].unit \in Units, call[p].item \in Challenges
  PROVE  /\ StatusType'
         /\ \A x \in Tables, u \in Units, c \in Challenges : status'[x][u][c] =
              IF x = t /\ u = call[p].unit /\ c = call[p].item /\ InTable(u, t) THEN s ELSE status[x][u][c]
  BY DEF SetStatus, ArenaType, StatusType

LEMMA AttemptIs ==
  ASSUME ArenaInv, NEW p \in Calls, NEW t \in Tables, Attempt(p, t),
         call[p].unit \in Units, call[p].item \in Challenges, CallType',
         UNCHANGED <<match, recorded, overrides, mode, need, accepted, least, shown, undone>>
  PROVE  /\ ArenaType' /\ AtLeast(need)' /\ straddled' = (straddled \/ call[p].began # match)
         /\ ~straddled' => Forward /\ RowsSound'
<1> DEFINE s == status[t][call[p].unit][call[p].item]
           n == IF s = "NONE" THEN "IN_PROGRESS" ELSE s
<1>1. s \in RowStatuses /\ n \in RowStatuses /\ (n = "COMPLETED" <=> s = "COMPLETED")
  BY DEF ArenaInv, ArenaType, StatusType, RowStatuses
<1>2. SetStatus(p, t, n) /\ straddled' = (straddled \/ call[p].began # match)
  BY DEF Attempt, Land
<1>3. ArenaType
  BY DEF ArenaInv
<1> HIDE DEF n
<1>4. /\ StatusType'
      /\ \A x \in Tables, u \in Units, c \in Challenges : status'[x][u][c] =
           IF x = t /\ u = call[p].unit /\ c = call[p].item /\ InTable(u, t) THEN n ELSE status[x][u][c]
  BY <1>1, <1>2, <1>3, SetStatusIs
<1>5. ArenaType' /\ AtLeast(need)'
  BY <1>2, <1>4 DEF ArenaInv, ArenaType, EventType, RecordedType, AcceptedType, ShownType, AtLeast
<1>6. \A x \in Tables, u \in Units, c \in Challenges :
        status'[x][u][c] = "COMPLETED" <=> status[x][u][c] = "COMPLETED"
  BY <1>1, <1>4
<1>7. ASSUME RowsSound
      PROVE  Forward /\ RowsSound'
  <2>1. \A u \in Units : Solved(u)' = Solved(u)
    BY <1>6 DEF Solved
  <2>2. CompletedAccepted' /\ AcceptedCompleted'
    BY <1>6, <1>7 DEF RowsSound, CompletedAccepted, AcceptedCompleted
  <2> QED
    BY <1>3, <1>5, <1>7, <2>1, <2>2, StatusGoesForward DEF RowsSound
<1> QED
  BY <1>2, <1>5, <1>7, RequestIs DEF ArenaInv, ArenaType, EventType

LEMMA CountAttemptStep ==
  ASSUME ArenaInv, NEW p \in Calls, CountAttempt(p) \/ CountLegacyAttempt(p)
  PROVE  ArenaInv'
<1>1. PICK c : c = call[p]
  OBVIOUS
<1>2. /\ c \in Requests /\ c.pc \in {"attempt", "attemptLegacy"} /\ Past(c) /\ Orderly(c)
      /\ c.unit \in Units /\ c.item \in Challenges
  BY <1>1, RequestIs DEF CountAttempt, CountLegacyAttempt, At, Orderly
<1>3. PICK q \in {[c EXCEPT !.pc = "attemptLegacy"], Idle} : call' = [call EXCEPT ![p] = q]
  BY <1>1 DEF CountAttempt, CountLegacyAttempt, Done
<1>4. PICK t \in Tables : Attempt(p, t)
  BY DEF CountAttempt, CountLegacyAttempt, Tables
<1>5. UNCHANGED <<match, recorded, overrides, mode, need, accepted, least, shown, undone>>
  BY DEF CountAttempt, CountLegacyAttempt, eventVars, adminVars
<1>6. /\ q \in Requests /\ q.began \in {c.began, 1}
      /\ \/ q = Idle
         \/ /\ q.pc = "attemptLegacy" /\ q.all = c.all
            /\ q.unit = c.unit /\ q.item = c.item /\ q.kind = c.kind /\ q.began = c.began
  <2>1. CASE q = Idle
    BY <2>1, IdleType
  <2>2. CASE q = [c EXCEPT !.pc = "attemptLegacy"]
    BY <1>2, <2>2 DEF Requests, Steps
  <2> QED
    BY <1>3, <2>1, <2>2
<1>7. call' = [call EXCEPT ![p] = q]
  BY <1>3
<1>8. CallType'
  BY <1>6, <1>7 DEF ArenaInv, ArenaType, CallType
<1>9. /\ ArenaType' /\ AtLeast(need)' /\ straddled' = (straddled \/ c.began # match)
      /\ ~straddled' => Forward /\ RowsSound'
  BY <1>1, <1>2, <1>4, <1>5, <1>8, AttemptIs
<1>10. ASSUME ~straddled'
       PROVE  Honest(q)'
  <2>1. Honest(c)
    BY <1>1, <1>9, <1>10, RequestIs DEF ArenaInv, ArenaType, EventType
  <2>2. Honest(c)'
    BY <1>2, <1>9, <1>10, <2>1, HonestStays DEF ArenaInv
  <2> QED
    BY <1>2, <1>6, <2>2, IdleType DEF Honest, Deciding
<1>11. Past(q) /\ Orderly(q)
  <2>1. match \in Nat \ {0}
    BY DEF ArenaInv, ArenaType, EventType
  <2>2. 1 <= match
    BY <2>1
  <2> QED
    BY <1>2, <1>6, <2>2, IdleType DEF Past, Orderly
<1> QED
  BY <1>1, <1>5, <1>6, <1>7, <1>9, <1>10, <1>11, RequestWrites DEF adminVars

LEMMA CommitStep ==
  ASSUME ArenaInv, NEW p \in Calls, Commit(p)
  PROVE  ArenaInv'
<1>1. PICK c : c = call[p]
  OBVIOUS
<1>2. /\ c \in Requests /\ c.pc = "commit" /\ Past(c) /\ Orderly(c)
      /\ c.unit \in Units /\ c.item \in Challenges /\ c.kind \in {"run", "submit"}
  BY <1>1, RequestIs DEF Commit, At, Orderly
<1> DEFINE q == [c EXCEPT !.kind = "accepted", !.pc = "config", !.free = FALSE]
<1>3. call' = [call EXCEPT ![p] = q]
  <2>1. [call EXCEPT ![p].kind = "accepted", ![p].pc = "config", ![p].free = FALSE] =
          [call EXCEPT ![p] = [call[p] EXCEPT !.kind = "accepted", !.pc = "config", !.free = FALSE]]
    BY <1>1, <1>2 DEF ArenaInv, ArenaType, CallType, Requests
  <2> QED
    BY <1>1, <2>1 DEF Commit
<1>4. /\ status' = [t \in Tables |->
           IF InTable(c.unit, t) THEN [status[t] EXCEPT ![c.unit][c.item] = "COMPLETED"] ELSE status[t]]
      /\ accepted' = [accepted EXCEPT ![c.unit][c.item] = @ + 1]
      /\ straddled' = (straddled \/ c.began # match)
      /\ undone' = undone \ {<<c.unit, c.item>>}
      /\ UNCHANGED <<match, recorded, overrides, mode, need, least, shown>>
  BY <1>1 DEF Commit, Land, eventVars, adminVars
<1>5. /\ q \in Requests /\ q.pc = "config" /\ q.kind = "accepted" /\ q.all = c.all
      /\ q.unit = c.unit /\ q.item = c.item /\ q.began = c.began
  BY <1>2 DEF Requests, Steps
<1> HIDE DEF q
<1>6. \A t \in Tables, u \in Units, d \in Challenges : status'[t][u][d] =
        IF InTable(c.unit, t) /\ u = c.unit /\ d = c.item THEN "COMPLETED" ELSE status[t][u][d]
  BY <1>2, <1>4 DEF ArenaInv, ArenaType, StatusType
<1>7. \A u \in Units, d \in Challenges : accepted'[u][d] =
        IF u = c.unit /\ d = c.item THEN accepted[u][d] + 1 ELSE accepted[u][d]
  BY <1>2, <1>4 DEF ArenaInv, ArenaType, AcceptedType
<1>8. ArenaType' /\ AtLeast(need)'
  <2>1. StatusType'
    BY <1>2, <1>4 DEF ArenaInv, ArenaType, StatusType, RowStatuses
  <2>2. AcceptedType'
    BY <1>2, <1>4 DEF ArenaInv, ArenaType, AcceptedType
  <2>3. CallType'
    BY <1>3, <1>5 DEF ArenaInv, ArenaType, CallType
  <2> QED
    BY <1>4, <2>1, <2>2, <2>3 DEF ArenaInv, ArenaType, EventType, RecordedType, ShownType, AtLeast
<1>9. \A u \in Units, d \in Challenges : accepted[u][d] > 0 \/ (u = c.unit /\ d = c.item) => accepted'[u][d] > 0
  BY <1>7 DEF ArenaInv, ArenaType, AcceptedType
<1>10. ASSUME ~straddled'
       PROVE  Forward /\ RowsSound' /\ Honest(q)'
  <2>1. Honest(c) /\ RowsSound
    BY <1>1, <1>4, <1>10, RequestIs DEF ArenaInv, ArenaType, EventType
  <2>2. \A u \in Units : Solved(u) \subseteq Solved(u)'
    BY <1>6 DEF Solved
  <2>3. Forward /\ RecordedInOrder' /\ RecordedEarned' /\ ShownKept'
    BY <1>4, <1>8, <1>9, <2>1, <2>2, StatusGoesForward DEF ArenaInv
  <2>4. CompletedAccepted'
    BY <1>6, <1>9, <2>1 DEF RowsSound, CompletedAccepted
  <2>5. AcceptedCompleted'
    <3>1. \A u \in Units, d \in Challenges : accepted'[u][d] > 0 =>
            accepted[u][d] > 0 \/ (u = c.unit /\ d = c.item)
      BY <1>7
    <3>2. \A u \in Units, d \in Challenges : <<u, d>> \notin undone' =>
            <<u, d>> \notin undone \/ (u = c.unit /\ d = c.item)
      BY <1>4
    <3> QED
      BY <1>4, <1>6, <2>1, <3>1, <3>2 DEF RowsSound, AcceptedCompleted
  <2>6. Honest(c)'
    BY <1>2, <1>8, <2>1, <2>3, HonestStays DEF ArenaInv
  <2>7. Honest(q)'
    BY <1>2, <1>5, <2>6 DEF Honest, Deciding
  <2> QED
    BY <2>3, <2>4, <2>5, <2>7 DEF RowsSound
<1>11. Past(q) /\ Orderly(q)
  BY <1>2, <1>5 DEF Past, Orderly
<1> QED
  BY <1>1, <1>3, <1>4, <1>5, <1>8, <1>10, <1>11, RequestWrites DEF adminVars

LEMMA ResetStep ==
  ASSUME ArenaInv, NEW p \in Calls, Reset(p) \/ ResetLegacy(p)
  PROVE  ArenaInv'
<1>1. PICK c : c = call[p]
  OBVIOUS
<1>2. /\ c \in Requests /\ c.pc \in {"reset", "resetLegacy"} /\ Past(c) /\ Orderly(c)
      /\ c.unit \in Units /\ c.item \in Challenges
  BY <1>1, RequestIs DEF Reset, ResetLegacy, At, Orderly
<1>3. PICK q \in {[c EXCEPT !.pc = "resetLegacy"], Idle} : call' = [call EXCEPT ![p] = q]
  BY <1>1 DEF Reset, ResetLegacy, Done
<1>4. PICK t \in Tables : ResetRow(p, t)
  BY DEF Reset, ResetLegacy, Tables
<1>5. /\ SetStatus(p, t, "AVAILABLE") /\ undone' = undone \cup {<<c.unit, c.item>>}
      /\ straddled' = (straddled \/ c.began # match)
      /\ UNCHANGED <<match, recorded, overrides, mode, need, accepted, least, shown>>
  BY <1>1, <1>4 DEF ResetRow, Land, eventVars, adminVars
<1>6. /\ q \in Requests /\ q.began \in {c.began, 1}
      /\ \/ q = Idle
         \/ /\ q.pc = "resetLegacy" /\ q.all = c.all
            /\ q.unit = c.unit /\ q.item = c.item /\ q.kind = c.kind /\ q.began = c.began
  <2>1. CASE q = Idle
    BY <2>1, IdleType
  <2>2. CASE q = [c EXCEPT !.pc = "resetLegacy"]
    BY <1>2, <2>2 DEF Requests, Steps
  <2> QED
    BY <1>3, <2>1, <2>2
<1>7. call' = [call EXCEPT ![p] = q]
  BY <1>3
<1>8. /\ StatusType'
      /\ \A x \in Tables, u \in Units, d \in Challenges : status'[x][u][d] =
           IF x = t /\ u = c.unit /\ d = c.item /\ InTable(u, t) THEN "AVAILABLE" ELSE status[x][u][d]
  <2>1. "AVAILABLE" \in RowStatuses /\ ArenaType
    BY DEF RowStatuses, ArenaInv
  <2> QED
    BY <1>1, <1>2, <1>5, <2>1, SetStatusIs
<1>9. ArenaType' /\ AtLeast(need)'
  <2>1. CallType'
    BY <1>6, <1>7 DEF ArenaInv, ArenaType, CallType
  <2> QED
    BY <1>5, <1>8, <2>1 DEF ArenaInv, ArenaType, EventType, RecordedType, AcceptedType, ShownType, AtLeast
<1>10. ASSUME ~straddled'
       PROVE  Forward /\ RowsSound' /\ Honest(q)'
  <2>1. Honest(c) /\ RowsSound
    BY <1>1, <1>5, <1>10, RequestIs DEF ArenaInv, ArenaType, EventType
  <2>2. c.item \in Granted(c.unit)
    BY <1>2, <2>1 DEF Honest
  <2>3. \A u \in Units : Solved(u) \subseteq Solved(u)' \cup Granted(u)
    BY <1>8, <2>2 DEF Solved
  <2>4. Forward /\ RecordedInOrder' /\ RecordedEarned' /\ ShownKept'
    BY <1>5, <1>9, <2>1, <2>3, StatusGoesForward DEF ArenaInv
  <2>5. CompletedAccepted' /\ AcceptedCompleted'
    BY <1>5, <1>8, <2>1 DEF RowsSound, CompletedAccepted, AcceptedCompleted
  <2>6. Honest(c)'
    BY <1>2, <1>9, <2>1, <2>4, HonestStays DEF ArenaInv
  <2>7. Honest(q)'
    BY <1>2, <1>6, <2>6, IdleType DEF Honest, Deciding
  <2> QED
    BY <2>4, <2>5, <2>7 DEF RowsSound
<1>11. Past(q) /\ Orderly(q)
  <2>1. match \in Nat \ {0}
    BY DEF ArenaInv, ArenaType, EventType
  <2>2. 1 <= match
    BY <2>1
  <2> QED
    BY <1>2, <1>6, <2>2, IdleType DEF Past, Orderly
<1> QED
  BY <1>1, <1>5, <1>6, <1>7, <1>9, <1>10, <1>11, RequestWrites DEF adminVars

-----------------------------------------------------------------------------
(* The administrator, the event and the server *)

LEMMA AdminGoesForward ==
  ASSUME ArenaType, ArenaType', overrides \subseteq overrides',
         UNCHANGED <<status, recorded, accepted, shown, undone>>,
         mode = "UNLOCK_ALL" => mode' = "UNLOCK_ALL",
         \A r \in Rounds : least'[r] <= least[r]
  PROVE  Forward /\ (RowsSound => RowsSound')
<1>1. \A u \in Units : /\ Known(u)' = Known(u) /\ Granted(u) \subseteq Granted(u)'
                       /\ Solved(u)' = Solved(u) /\ Base(u) \subseteq Base(u)'
  BY DEF Known, Granted, Solved, Base
<1>2. Forward
  BY <1>1 DEF Forward
<1>3. ASSUME RowsSound
      PROVE  RowsSound'
  <2>1. RecordedInOrder' /\ CompletedAccepted' /\ AcceptedCompleted'
    BY <1>3 DEF RowsSound, RecordedInOrder, CompletedAccepted, AcceptedCompleted
  <2>2. RecordedEarned'
    <3>1. \A t \in Tables, u \in Units : recorded[t][u] \subseteq Rounds
      BY DEF ArenaType, RecordedType
    <3>2. \A u \in Units : \A r \in Rounds : Earned(u, r) => Earned(u, r)'
      BY <1>2, EarnedStays
    <3> QED
      BY <1>3, <3>1, <3>2 DEF RowsSound, RecordedEarned
  <2>3. ShownKept'
    BY <1>1, <1>3 DEF RowsSound, ShownKept
  <2> QED
    BY <2>1, <2>2, <2>3 DEF RowsSound
<1> QED
  BY <1>2, <1>3

LEMMA LeastIsItself ==
  ASSUME ArenaType, least' = least
  PROVE  \A r \in Rounds : least'[r] <= least[r]
  BY DEF ArenaType, EventType

LEMMA UnlockAllStep ==
  ASSUME ArenaInv, UnlockAll
  PROVE  ArenaInv'
<1>1. /\ mode' = "UNLOCK_ALL" /\ overrides \subseteq overrides'
      /\ UNCHANGED <<match, status, recorded, need, call, accepted, least, shown, undone, straddled>>
  BY DEF UnlockAll, eventVars, history
<1>2. ArenaType' /\ AtLeast(need)'
  BY <1>1 DEF ArenaInv, ArenaType, EventType, StatusType, RecordedType, AcceptedType, ShownType,
              CallType, AtLeast
<1>3. Forward /\ (RowsSound => RowsSound')
  BY <1>1, <1>2, AdminGoesForward, LeastIsItself DEF ArenaInv
<1> QED
  BY <1>1, <1>2, <1>3, MatchGoesOn DEF ArenaInv, Sound

LEMMA SetThresholdStep ==
  ASSUME ArenaInv, NEW r \in Rounds, NEW n \in Thresholds, SetThreshold(r, n)
  PROVE  ArenaInv'
<1>1. /\ need' = [need EXCEPT ![r] = n] /\ least' = [least EXCEPT ![r] = IF n < @ THEN n ELSE @]
      /\ UNCHANGED <<match, status, recorded, overrides, mode, call, accepted, shown, undone, straddled>>
  BY DEF SetThreshold, eventVars, rowVars
<1>2. n \in Nat /\ need \in [Rounds -> Nat] /\ least \in [Rounds -> Nat] /\ AtLeast(need)
  BY ArenaAssumption DEF ArenaInv, ArenaType, EventType
<1>3. need' \in [Rounds -> Nat] /\ least' \in [Rounds -> Nat]
  BY <1>1, <1>2
<1>4. \A x \in Rounds : least'[x] <= least[x] /\ need'[x] >= least'[x]
  BY <1>1, <1>2 DEF AtLeast
<1>5. ArenaType' /\ AtLeast(need)'
  BY <1>1, <1>3, <1>4 DEF ArenaInv, ArenaType, EventType, StatusType, RecordedType, AcceptedType,
                          ShownType, CallType, AtLeast
<1>6. Forward /\ (RowsSound => RowsSound')
  BY <1>1, <1>4, <1>5, AdminGoesForward DEF ArenaInv
<1> QED
  BY <1>1, <1>5, <1>6, MatchGoesOn DEF ArenaInv, Sound

LEMMA GrantStep ==
  ASSUME ArenaInv, NEW p \in Calls, NEW u \in Units \cup {Everyone}, NEW g \in Targets, Grant(p, u, g)
  PROVE  ArenaInv'
<1> DEFINE round == [Idle EXCEPT !.pc = "record", !.kind = "grant", !.unit = u, !.began = match, !.todo = {g}]
           challenge == [Idle EXCEPT !.pc = "reset", !.kind = "grant", !.unit = u, !.began = match, !.item = g]
<1>1. /\ overrides' = overrides \cup {<<u, g>>} /\ g # Everything
      /\ UNCHANGED <<match, status, recorded, mode, need, accepted, least, shown, undone, straddled>>
  BY DEF Grant, eventVars, adminVars, history
<1>2. \/ call' = call
      \/ u # Everyone /\ g \in Rounds /\ call' = [call EXCEPT ![p] = round]
      \/ u # Everyone /\ g \in Challenges /\ call' = [call EXCEPT ![p] = challenge]
  BY <1>1 DEF Grant, Targets
<1>3. match \in Nat \ {0} /\ match \in Nat /\ match <= match
  BY DEF ArenaInv, ArenaType, EventType
<1>4. PICK q : /\ call' = call \/ call' = [call EXCEPT ![p] = q]
               /\ q \in Requests /\ Past(q) /\ Orderly(q) /\ Honest(q)'
  <2>1. InitialNeed \in [Rounds -> Nat] /\ g \in Granted(u)'
    BY <1>1, ArenaAssumption DEF Granted
  <2>2. CASE call' = call
    <3>1. 1 <= match
      BY <1>3
    <3>2. Idle \in Requests /\ Past(Idle) /\ Orderly(Idle)
      BY <3>1, IdleType DEF Past, Orderly
    <3>3. Honest(Idle)'
      BY IdleType DEF Honest, Deciding
    <3> QED
      BY <2>2, <3>2, <3>3
  <2>3. CASE u # Everyone /\ g \in Rounds /\ call' = [call EXCEPT ![p] = round]
    <3>1. /\ round.pc = "record" /\ round.kind = "grant" /\ round.unit = u /\ round.began = match
          /\ round.todo = {g} /\ round.all = FALSE /\ round.open = {}
      BY <1>3 DEF Idle
    <3>2. round \in Requests
      BY <1>3, <2>1, <2>3 DEF Idle, Requests, Steps
    <3>3. PICK q \in Requests :
            /\ call' = [call EXCEPT ![p] = q]
            /\ q.pc = "record" /\ q.kind = "grant" /\ q.unit = u /\ q.began = match
            /\ q.todo = {g} /\ q.all = FALSE /\ q.open = {}
      BY <2>3, <3>1, <3>2
    <3>4. Past(q) /\ Orderly(q)
      BY <1>3, <2>3, <3>3 DEF Past, Orderly
    <3>5. Honest(q)'
      BY <2>1, <3>3 DEF Honest, Deciding, Earned
    <3> QED
      BY <3>3, <3>4, <3>5
  <2>4. CASE u # Everyone /\ g \in Challenges /\ call' = [call EXCEPT ![p] = challenge]
    <3>1. /\ challenge.pc = "reset" /\ challenge.kind = "grant" /\ challenge.unit = u
          /\ challenge.began = match /\ challenge.item = g /\ challenge.all = FALSE
      BY <1>3 DEF Idle
    <3>2. challenge \in Requests
      BY <1>3, <2>1, <2>4 DEF Idle, Requests, Steps
    <3>3. PICK q \in Requests :
            /\ call' = [call EXCEPT ![p] = q]
            /\ q.pc = "reset" /\ q.kind = "grant" /\ q.unit = u /\ q.began = match
            /\ q.item = g /\ q.all = FALSE
      BY <2>4, <3>1, <3>2
    <3>4. Past(q) /\ Orderly(q)
      BY <1>3, <2>4, <3>3 DEF Past, Orderly
    <3>5. Honest(q)'
      BY <2>1, <3>3 DEF Honest, Deciding
    <3> QED
      BY <3>3, <3>4, <3>5
  <2> QED
    BY <1>2, <2>2, <2>3, <2>4
<1>5. \A k \in Calls : call'[k] = call[k] \/ call'[k] = q
  BY <1>4 DEF ArenaInv, ArenaType, CallType
<1>6. ArenaType' /\ AtLeast(need)'
  <2>1. CallType'
    BY <1>4 DEF ArenaInv, ArenaType, CallType
  <2> QED
    BY <1>1, <2>1 DEF ArenaInv, ArenaType, EventType, StatusType, RecordedType, AcceptedType, ShownType,
                      AtLeast
<1>7. Forward /\ (RowsSound => RowsSound')
  BY <1>1, <1>6, AdminGoesForward, LeastIsItself DEF ArenaInv
<1>8. \A k \in Calls : call'[k] = call[k] \/ (Past(call[k])' /\ Orderly(call[k])' /\ Honest(call[k])')
  BY <1>1, <1>4, <1>5 DEF Past, Orderly, Honest
<1> QED
  BY <1>1, <1>6, <1>7, <1>8, MatchGoesOn DEF ArenaInv, Sound

\* Steps that concern neither the rows nor the requests.
LEMMA ElsewhereStep ==
  ASSUME ArenaInv, UNCHANGED <<match, rowVars, adminVars, call, history>>
  PROVE  ArenaInv'
<1>1. UNCHANGED <<match, status, recorded, overrides, mode, need, call, accepted, least, shown, undone, straddled>>
  BY DEF rowVars, adminVars, history
<1>2. ArenaType' /\ AtLeast(need)'
  BY <1>1 DEF ArenaInv, ArenaType, EventType, StatusType, RecordedType, AcceptedType, ShownType,
              CallType, AtLeast
<1>3. Forward /\ (RowsSound => RowsSound')
  BY <1>1, <1>2, AdminGoesForward, LeastIsItself DEF ArenaInv
<1> QED
  BY <1>1, <1>2, <1>3, MatchGoesOn DEF ArenaInv, Sound

LEMMA NextMatchStep ==
  ASSUME ArenaInv, NextMatch
  PROVE  ArenaInv'
<1>1. match \in Nat \ {0} /\ match' = match + 1 /\ match' \in Nat \ {0} /\ need \in [Rounds -> Nat]
  BY DEF NextMatch, ArenaInv, ArenaType, EventType
<1>2. /\ \A t \in Tables, u \in Units : recorded'[t][u] = {}
      /\ \A t \in Tables, u \in Units, c \in Challenges : status'[t][u][c] = "NONE"
      /\ \A u \in Units, c \in Challenges : accepted'[u][c] = 0
      /\ \A u \in Units : shown'[u] = {}
      /\ least' = need /\ need' = need /\ mode' = mode /\ call' = call /\ straddled' = FALSE
  BY DEF NextMatch, adminVars
<1>3. ArenaType'
  <2>1. EventType'
    BY <1>1, <1>2 DEF ArenaInv, ArenaType, EventType
  <2>2. StatusType'
    BY DEF NextMatch, StatusType, RowStatuses
  <2>3. RecordedType' /\ ShownType'
    BY DEF NextMatch, RecordedType, ShownType
  <2>4. AcceptedType'
    BY DEF NextMatch, AcceptedType
  <2>5. CallType'
    BY <1>2 DEF ArenaInv, ArenaType, CallType
  <2> QED
    BY <2>1, <2>2, <2>3, <2>4, <2>5 DEF ArenaType
<1>4. AtLeast(need)'
  BY <1>1, <1>2 DEF AtLeast
<1>5. ASSUME NEW p \in Calls
      PROVE  Past(call[p])' /\ Orderly(call[p])' /\ call'[p].began # match'
  <2>1. call[p] \in Requests /\ Past(call[p]) /\ Orderly(call[p])
    BY RequestIs
  <2>2. call[p].began \in Nat /\ call[p].began <= match
    BY <2>1 DEF Requests, Past
  <2>3. call[p].began <= match' /\ call[p].began # match'
    BY <1>1, <2>2
  <2> QED
    BY <1>2, <2>1, <2>3 DEF Past, Orderly
<1>6. RowsSound'
  <2>1. Participants \subseteq Units /\ Tables = {"team", "participant"}
    BY DEF Units, Tables
  <2>2. RecordedInOrder'
    BY <1>2, <2>1 DEF RecordedInOrder
  <2>3. CompletedAccepted' /\ AcceptedCompleted'
    <3>1. \A u \in Units, c \in Challenges : ~(accepted'[u][c] > 0)
      BY <1>2
    <3> QED
      BY <1>2, <3>1 DEF CompletedAccepted, AcceptedCompleted
  <2>4. RecordedEarned'
    BY <1>2 DEF RecordedEarned
  <2>5. ShownKept'
    BY <1>2 DEF ShownKept
  <2> QED
    BY <2>2, <2>3, <2>4, <2>5 DEF RowsSound
<1> QED
  BY <1>3, <1>4, <1>5, <1>6 DEF ArenaInv, Sound

LEMMA RestartStep ==
  ASSUME ArenaInv, Restart
  PROVE  ArenaInv'
<1>0. /\ StatusType'
      /\ \A t \in Tables, u \in Units, c \in Challenges :
           status'[t][u][c] = status[t][u][c] \/ (status'[t][u][c] = "NONE" /\ <<u, c>> \in undone')
      /\ undone \subseteq undone'
  <2>1. CASE UNCHANGED <<status, undone>>
    BY <2>1 DEF ArenaInv, ArenaType, StatusType
  <2>2. ASSUME NEW ts \in {{"team"}, Tables},
               status' = [t \in Tables |-> [u \in Units |-> [c \in Challenges |->
                 IF t \in ts /\ c \in Custom THEN "NONE" ELSE status[t][u][c]]]],
               undone' = undone \cup (Units \X Custom)
        PROVE  /\ StatusType'
               /\ \A t \in Tables, u \in Units, c \in Challenges :
                    status'[t][u][c] = status[t][u][c] \/ (status'[t][u][c] = "NONE" /\ <<u, c>> \in undone')
               /\ undone \subseteq undone'
    <3>1. \A t \in Tables, u \in Units, c \in Challenges : status[t][u][c] \in RowStatuses
      BY DEF ArenaInv, ArenaType, StatusType
    <3>2. StatusType'
      BY <2>2, <3>1 DEF StatusType, RowStatuses
    <3>3. \A t \in Tables, u \in Units, c \in Challenges :
            status'[t][u][c] = IF t \in ts /\ c \in Custom THEN "NONE" ELSE status[t][u][c]
      BY <2>2
    <3> QED
      BY <2>2, <3>2, <3>3
  <2> QED
    BY <2>1, <2>2 DEF Restart, PurgeCustom
<1>1. /\ mode' = "SEQUENTIAL" /\ \A p \in Calls : call'[p] = Idle
      /\ UNCHANGED <<match, recorded, overrides, need, accepted, least, shown, straddled>>
  BY DEF Restart, eventVars
<1>2. ArenaType' /\ AtLeast(need)'
  <2>1. CallType'
    BY IdleType DEF Restart, CallType
  <2> QED
    BY <1>1, <1>0, <2>1 DEF ArenaInv, ArenaType, EventType, RecordedType, AcceptedType, ShownType,
                      AtLeast
<1>3. 1 <= match
  <2>1. match \in Nat \ {0}
    BY DEF ArenaInv, ArenaType, EventType
  <2> QED
    BY <2>1
<1>4. \A p \in Calls : Past(call[p])' /\ Orderly(call[p])' /\ Honest(call[p])'
  BY <1>1, <1>3, IdleIsFine
<1>5. RowsSound => RowsSound'
  <2>1. \A u \in Units : /\ Known(u)' = Known(u) /\ Granted(u)' = Granted(u) /\ Base(u)' = Base(u)
    BY <1>1 DEF Known, Granted, Base
  <2>2. \A u \in Units : \A r : Earned(u, r)' <=> Earned(u, r)
    BY <1>1, <2>1 DEF Earned
  <2>3. RecordedInOrder => RecordedInOrder'
    BY <1>1 DEF RecordedInOrder
  <2>4. RecordedEarned => RecordedEarned'
    BY <1>1, <2>2 DEF RecordedEarned
  <2>5. CompletedAccepted => CompletedAccepted'
    BY <1>0, <1>1 DEF CompletedAccepted
  <2>7. AcceptedCompleted => AcceptedCompleted'
    <3> SUFFICES ASSUME AcceptedCompleted, NEW u \in Units, NEW c \in Challenges,
                        <<u, c>> \notin undone', accepted'[u][c] > 0, NEW t \in Tables, InTable(u, t)
                 PROVE  status'[t][u][c] = "COMPLETED"
      BY DEF AcceptedCompleted, InTable
    <3>1. status[t][u][c] = "COMPLETED"
      BY <1>0, <1>1 DEF AcceptedCompleted
    <3> QED
      BY <1>0, <3>1
  <2>6. ShownKept => ShownKept'
    BY <1>1, <2>1 DEF ShownKept
  <2> QED
    BY <2>3, <2>4, <2>5, <2>6, <2>7 DEF RowsSound
<1> QED
  BY <1>1, <1>2, <1>4, <1>5 DEF ArenaInv, Sound

-----------------------------------------------------------------------------
(* The theorems *)

LEMMA ArenaStep == ArenaInv /\ [Next]_vars => ArenaInv'
<1> SUFFICES ASSUME ArenaInv, [Next]_vars
             PROVE  ArenaInv'
  OBVIOUS
<1>1. ASSUME NEW p \in Calls, Progress(p)
      PROVE  ArenaInv'
  BY <1>1, ReadConfigStep, ReadKnownStep, ReadOverridesStep, ReadSolvesStep, RecordStep,
     RecordLegacyStep, AnswerStep, ReadRowsStep, AllowStep, CountAttemptStep, CommitStep, ResetStep
     DEF Progress
<1>2. ASSUME NEW p \in Calls, Abandon(p) \/ \E u \in Units : BeginView(p, u)
      PROVE  ArenaInv'
  BY <1>2, BeginViewStep
<1>3. ASSUME NEW p \in Calls, NEW u \in Units, NEW c \in Challenges,
             BeginWork(p, "run", u, c) \/ BeginWork(p, "submit", u, c)
      PROVE  ArenaInv'
  BY <1>3, BeginWorkStep
<1>4. ASSUME NEW p \in Calls, NEW o \in Overrides, Grant(p, o[1], o[2])
      PROVE  ArenaInv'
  <2>1. o[1] \in Units \cup {Everyone} /\ o[2] \in Targets
    BY ArenaAssumption
  <2> QED
    BY <1>4, <2>1, GrantStep
<1>5. ASSUME \/ \E u \in Units, c \in Challenges, passed \in BOOLEAN : FinishRun(u, c, passed)
             \/ EventStep
             \/ UNCHANGED vars
      PROVE  ArenaInv'
  <2>1. UNCHANGED <<match, rowVars, adminVars, call, history>>
    BY <1>5 DEF FinishRun, EventStep, vars, eventVars
  <2> QED
    BY <2>1, ElsewhereStep
<1>6. CASE UnlockAll
  BY <1>6, UnlockAllStep
<1>7. ASSUME NEW r \in Rounds, NEW n \in Thresholds, SetThreshold(r, n)
      PROVE  ArenaInv'
  BY <1>7, SetThresholdStep
<1>8. CASE NextMatch \/ Restart
  BY <1>8, NextMatchStep, RestartStep
<1> QED
  BY <1>1, <1>2, <1>3, <1>4, <1>5, <1>6, <1>7, <1>8 DEF Next

\* The rows, the requests and the history have their types.
THEOREM ArenaTypeCorrect == Spec => []ArenaType
<1>1. ArenaInv => ArenaType
  BY DEF ArenaInv
<1> QED
  BY <1>1, ArenaStarts, ArenaStep, PTL DEF Spec

\* Only a challenge for which a flag has been accepted in this match is completed;
\* and it is, in every table that knows the competitor, unless an administrator's
\* unlock or the purge of a start has undone it since.
THEOREM SolvedIsAccepted == Spec => []SolvedIffAccepted
<1>1. ArenaInv => SolvedIffAccepted
  BY DEF ArenaInv, Sound, RowsSound, CompletedAccepted, AcceptedCompleted, SolvedIffAccepted
<1> QED
  BY <1>1, ArenaStarts, ArenaStep, PTL DEF Spec

\* No unlock is recorded that was neither granted nor earned by accepted flags.
THEOREM UnlocksAreEarned == Spec => []EarnedUnlocks
<1>1. ArenaInv => EarnedUnlocks
  BY DEF ArenaInv, Sound, RowsSound, RecordedEarned, Earned, EarnedUnlocks
<1> QED
  BY <1>1, ArenaStarts, ArenaStep, PTL DEF Spec

\* What a competitor was told is open stays open for the match.
THEOREM UnlocksAreKept == Spec => []UnlockedStays
<1>1. ASSUME NEW u \in Units, NEW r \in Rounds, r \in Base(u)
      PROVE  r \in Unlocked(u)
  <2>1. (mode = "UNLOCK_ALL") \in BOOLEAN
    OBVIOUS
  <2> QED
    BY <1>1, <2>1, OpenIs DEF Unlocked, Base
<1>2. ArenaInv => UnlockedStays
  BY <1>1 DEF ArenaInv, Sound, RowsSound, ShownKept, UnlockedStays
<1> QED
  BY <1>2, ArenaStarts, ArenaStep, PTL DEF Spec

\* An access check made awaits ago still holds when the flag is accepted or the attempt
\* counted.
THEOREM NobodyWorksAhead == Spec => NoWorkAhead
<1>1. ASSUME ArenaInv, NEW p \in Calls, Commit(p) \/ CountAttempt(p), ~straddled'
      PROVE  call[p].item \in Workable(call[p].unit)
  <2>1. call[p].pc \in {"commit", "attempt"} /\ straddled' = (straddled \/ call[p].began # match)
    BY <1>1 DEF Commit, CountAttempt, Attempt, Land, At
  <2>2. ~straddled /\ call[p].began = match
    BY <1>1, <2>1 DEF ArenaInv, ArenaType, EventType
  <2>3. Honest(call[p]) /\ Orderly(call[p])
    BY <1>1, <2>2, RequestIs
  <2>4. call[p].unit \in Units /\ call[p].item \in Challenges /\ Entitled(call[p].unit, call[p].item)
    BY <2>1, <2>3 DEF Honest, Orderly
  <2> QED
    BY <2>4, EntitledIsWorkable
<1>2. ArenaInv /\ [Next]_vars =>
        [\A p \in Calls : Commit(p) \/ CountAttempt(p) =>
           straddled' \/ call[p].item \in Workable(call[p].unit)]_vars
  BY <1>1
<1> QED
  BY <1>2, ArenaStarts, ArenaStep, PTL DEF Spec, NoWorkAhead
=============================================================================
