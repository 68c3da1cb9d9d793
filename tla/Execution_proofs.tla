--------------------------- MODULE Execution_proofs ---------------------------
(***************************************************************************)
(* Theorems about Execution: for any number of jobs and streams and any    *)
(* bound on the jobs that run at once, in every deployment; and about      *)
(* Sandbox: for any executions, machines, limits and programs.             *)
(***************************************************************************)
EXTENDS Execution, Sandbox, FiniteSetTheorems, TLAPS

-----------------------------------------------------------------------------
(* Types *)

LEMMA ClosedType == Closed \in StreamRec
  BY ExecutionAssumption DEF Closed, StreamRec

LEMMA HeardType ==
  ASSUME NEW s \in StreamRec, NEW j \in Jobs
  PROVE  Heard(s, j) \in StreamRec
  BY ClosedType DEF Heard, StreamRec

\* A slot is taken for every job in memory's care, so there is one to give back.
SlotToFree == \A j \in Jobs : j \notin active /\ task[j] # "none" => slots > 0

LEMMA TypeInit == Init => TypeOK
  BY ClosedType DEF Init, TypeOK, Deployments

LEMMA TypeStep == TypeOK /\ SlotToFree /\ [Next]_vars => TypeOK'
<1> SUFFICES ASSUME TypeOK, SlotToFree, [Next]_vars PROVE TypeOK'
  OBVIOUS
<1> USE DEF TypeOK, queueVars, workVars
<1>1. ASSUME NEW j \in Jobs, Insert(j) PROVE TypeOK'
  BY <1>1 DEF Insert
<1>2. ASSUME NEW j \in Jobs, Enqueue(j) PROVE TypeOK'
  BY <1>2 DEF Enqueue
<1>3. ASSUME NEW j \in Jobs, EnqueueFails(j) PROVE TypeOK'
  BY <1>3 DEF EnqueueFails
<1>4. ASSUME NEW j \in Jobs, TakeFromRedis(j) PROVE TypeOK'
  BY <1>4 DEF TakeFromRedis
<1>5. ASSUME NEW j \in Jobs, TakeFromMemory(j) PROVE TypeOK'
  BY <1>5 DEF TakeFromMemory
<1>6. ASSUME NEW j \in Jobs, Mark(j) PROVE TypeOK'
  BY <1>6 DEF Mark
<1>7. ASSUME NEW j \in Jobs, Record(j) PROVE TypeOK'
  BY <1>7 DEF Record
<1>8. ASSUME NEW j \in Jobs, RecordFails(j) PROVE TypeOK'
  BY <1>8 DEF RecordFails
<1>9. ASSUME NEW j \in Jobs, Emit(j) PROVE TypeOK'
  <2>1. slots' \in Nat
    BY <1>9 DEF Emit, SlotToFree
  <2>2. stream' \in [Streams -> StreamRec]
    BY <1>9, HeardType DEF Emit
  <2> QED
    BY <1>9, <2>1, <2>2 DEF Emit
<1>10. ASSUME NEW j \in Jobs, Ack(j) PROVE TypeOK'
  BY <1>10 DEF Ack
<1>11. ASSUME NEW j \in Jobs, AckLost(j) PROVE TypeOK'
  BY <1>11 DEF AckLost
<1>12. ASSUME NEW j \in Jobs, Redeliver(j) PROVE TypeOK'
  BY <1>12 DEF Redeliver
<1>13. ASSUME NEW s \in Streams, NEW j \in Jobs, Open(s, j) PROVE TypeOK'
  BY <1>13 DEF Open, StreamRec
<1>14. ASSUME NEW s \in Streams, Listen(s) PROVE TypeOK'
  BY <1>14, ClosedType DEF Listen, StreamRec
<1>15. ASSUME NEW s \in Streams, Close(s) PROVE TypeOK'
  BY <1>15, ClosedType DEF Close
<1>16. CASE Relink
  BY <1>16 DEF Relink
<1>17. CASE RestartWeb
  BY <1>17, ClosedType DEF RestartWeb, FromMemory
<1>18. CASE RestartWorker
  BY <1>18 DEF RestartWorker
<1>19. CASE UNCHANGED vars
  BY <1>19 DEF vars
<1> QED
  BY <1>1, <1>2, <1>3, <1>4, <1>5, <1>6, <1>7, <1>8, <1>9, <1>10, <1>11, <1>12, <1>13,
     <1>14, <1>15, <1>16, <1>17, <1>18, <1>19 DEF Next, Process, Crash

-----------------------------------------------------------------------------
(* Where a job is *)

\* A job that one place has, no other has.
OnlyPlace(j) ==
  /\ j \in request => j \notin waiting /\ j \notin active /\ j \notin memory /\ task[j] = "none"
  /\ j \in waiting => j \notin active /\ j \notin memory /\ task[j] = "none"
  /\ j \in memory  => j \notin active /\ task[j] = "none"

\* A submission not made yet is nowhere.
NotYet(j) ==
  status[j] = "NONE" =>
    /\ j \notin request /\ j \notin waiting /\ j \notin active /\ j \notin memory
    /\ task[j] = "none"

\* What is not finished and has not been lost is somewhere.
Somewhere(j) ==
  status[j] \in {"QUEUED", "RUNNING"} /\ j \notin hit =>
    j \in request \/ j \in waiting \/ j \in active \/ j \in memory \/ task[j] # "none"

\* Once the result is in the row, or has failed to get there, the job may go.
MayGo(j) == task[j] \in {"emit", "ack"} => status[j] = "DONE" \/ j \in hit

\* A process without a worker has no job of its memory running.
Elsewhere(j) == deployment = "split" /\ task[j] # "none" => j \in active

\* Only a job of Redis is acknowledged.
AckInRedis(j) == task[j] = "ack" => j \in active

PlaceOf(j) ==
  /\ OnlyPlace(j) /\ NotYet(j) /\ Somewhere(j)
  /\ MayGo(j) /\ Elsewhere(j) /\ AckInRedis(j)

PlaceInv == \A j \in Jobs : PlaceOf(j)

LEMMA PlaceInit == Init => PlaceInv
  BY DEF Init, PlaceInv, PlaceOf, OnlyPlace, NotYet, Somewhere, MayGo, Elsewhere,
                 AckInRedis

LEMMA PlaceStep == TypeOK /\ PlaceInv /\ [Next]_vars => PlaceInv'
<1> SUFFICES ASSUME TypeOK, PlaceInv, [Next]_vars, NEW i \in Jobs
             PROVE  PlaceOf(i)'
  BY DEF PlaceInv
<1>0. PlaceOf(i)
  BY DEF PlaceInv
<1> USE <1>0 DEF TypeOK, PlaceOf, OnlyPlace, NotYet, Somewhere, MayGo, Elsewhere,
                 AckInRedis, queueVars, workVars
<1>1. ASSUME NEW j \in Jobs, Insert(j) PROVE PlaceOf(i)'
  BY <1>1 DEF Insert
<1>2. ASSUME NEW j \in Jobs, Enqueue(j) PROVE PlaceOf(i)'
  BY <1>2 DEF Enqueue
<1>3. ASSUME NEW j \in Jobs, EnqueueFails(j) PROVE PlaceOf(i)'
  BY <1>3 DEF EnqueueFails
<1>4. ASSUME NEW j \in Jobs, TakeFromRedis(j) PROVE PlaceOf(i)'
  BY <1>4 DEF TakeFromRedis
<1>5. ASSUME NEW j \in Jobs, TakeFromMemory(j) PROVE PlaceOf(i)'
  BY <1>5 DEF TakeFromMemory, WorkerInWeb
<1>6. ASSUME NEW j \in Jobs, Mark(j) PROVE PlaceOf(i)'
  BY <1>6 DEF Mark
<1>7. ASSUME NEW j \in Jobs, Record(j) PROVE PlaceOf(i)'
  BY <1>7 DEF Record
<1>8. ASSUME NEW j \in Jobs, RecordFails(j) PROVE PlaceOf(i)'
  BY <1>8 DEF RecordFails
<1>9. ASSUME NEW j \in Jobs, Emit(j) PROVE PlaceOf(i)'
  BY <1>9 DEF Emit
<1>10. ASSUME NEW j \in Jobs, Ack(j) PROVE PlaceOf(i)'
  BY <1>10 DEF Ack
<1>11. ASSUME NEW j \in Jobs, AckLost(j) PROVE PlaceOf(i)'
  BY <1>11 DEF AckLost
<1>12. ASSUME NEW j \in Jobs, Redeliver(j) PROVE PlaceOf(i)'
  BY <1>12 DEF Redeliver
<1>13. ASSUME NEW s \in Streams, NEW j \in Jobs, Open(s, j) PROVE PlaceOf(i)'
  BY <1>13 DEF Open
<1>14. ASSUME NEW s \in Streams, Listen(s) PROVE PlaceOf(i)'
  BY <1>14 DEF Listen
<1>15. ASSUME NEW s \in Streams, Close(s) PROVE PlaceOf(i)'
  BY <1>15 DEF Close
<1>16. CASE Relink
  BY <1>16 DEF Relink
<1>17. CASE RestartWeb
  BY <1>17 DEF RestartWeb, WorkerInWeb, FromMemory
<1>18. CASE RestartWorker
  BY <1>18 DEF RestartWorker, WorkerInWeb
<1>19. CASE UNCHANGED vars
  BY <1>19 DEF vars
<1> QED
  BY <1>1, <1>2, <1>3, <1>4, <1>5, <1>6, <1>7, <1>8, <1>9, <1>10, <1>11, <1>12, <1>13,
     <1>14, <1>15, <1>16, <1>17, <1>18, <1>19 DEF Next, Process, Crash

LEMMA PlacesTold == TypeOK /\ PlaceInv => NothingLost
<1> SUFFICES ASSUME TypeOK, PlaceInv PROVE NothingLost
  OBVIOUS
<1> USE DEF TypeOK, PlaceInv, PlaceOf
<1>1. Apart
  BY DEF Apart, Places, FromMemory, OnlyPlace
<1>2. ASSUME NEW j \in Jobs, status[j] \in {"QUEUED", "RUNNING"}, j \notin hit
      PROVE  \E p \in 1..5 : j \in Places[p]
  <2>1. j \in request \/ j \in waiting \/ j \in active \/ j \in memory \/ j \in FromMemory
    BY <1>2 DEF Somewhere, FromMemory
  <2> QED
    BY <2>1 DEF Places
<1> QED
  BY <1>1, <1>2 DEF NothingLost

-----------------------------------------------------------------------------
(* Slots *)

LEMMA TakenFinite ==
  TypeOK => /\ IsFiniteSet(FromRedis) /\ Cardinality(FromRedis) \in Nat
            /\ IsFiniteSet(FromMemory) /\ Cardinality(FromMemory) \in Nat
<1> SUFFICES ASSUME TypeOK
             PROVE  /\ IsFiniteSet(FromRedis) /\ Cardinality(FromRedis) \in Nat
                    /\ IsFiniteSet(FromMemory) /\ Cardinality(FromMemory) \in Nat
  OBVIOUS
<1>1. FromRedis \in SUBSET Jobs /\ FromMemory \in SUBSET Jobs
  BY DEF TypeOK, FromRedis, FromMemory
<1>2. IsFiniteSet(FromRedis) /\ IsFiniteSet(FromMemory)
  BY <1>1, ExecutionAssumption, FS_Subset
<1> QED
  BY <1>2, FS_CardinalityType

\* A job with a slot is counted, so the count is not zero.
LEMMA SlotCounted == TypeOK /\ SlotsExact => SlotToFree
<1> SUFFICES ASSUME TypeOK, SlotsExact, NEW j \in Jobs, j \notin active, task[j] # "none"
             PROVE  slots > 0
  BY DEF SlotToFree
<1>1. j \in FromMemory
  BY DEF FromMemory
<1>2. Cardinality(FromMemory) # 0
  BY <1>1, TakenFinite, FS_EmptySet
<1> QED
  BY <1>2, TakenFinite DEF SlotsExact

LEMMA SlotsInit == Init => SlotsExact
<1> SUFFICES ASSUME Init PROVE SlotsExact
  OBVIOUS
<1>1. FromRedis = {} /\ FromMemory = {}
  BY DEF Init, FromRedis, FromMemory
<1> QED
  BY <1>1, FS_EmptySet, ExecutionAssumption DEF SlotsExact, Init

LEMMA SlotsStep == TypeOK /\ PlaceInv /\ SlotsExact /\ [Next]_vars => SlotsExact'
<1> SUFFICES ASSUME TypeOK, PlaceInv, SlotsExact, [Next]_vars PROVE SlotsExact'
  OBVIOUS
<1> USE DEF TypeOK, queueVars, workVars
<1>0. MaxRunning \in Nat
  BY ExecutionAssumption
<1>same. ASSUME FromRedis' = FromRedis, FromMemory' = FromMemory, slots' = slots
         PROVE  SlotsExact'
  BY <1>same DEF SlotsExact
<1>quiet. ASSUME UNCHANGED <<active, task, slots>> PROVE SlotsExact'
  BY <1>quiet, <1>same DEF FromRedis, FromMemory
<1>on. ASSUME NEW j \in Jobs, NEW t \in {"run", "emit"}, task[j] # "none",
              task' = [task EXCEPT ![j] = t], UNCHANGED <<active, slots>>
       PROVE  SlotsExact'
  <2>1. FromRedis' = FromRedis /\ FromMemory' = FromMemory
    BY <1>on DEF FromRedis, FromMemory
  <2> QED
    BY <1>on, <1>same, <2>1
<1>off. ASSUME NEW j \in Jobs, j \in active, UNCHANGED slots,
               task' = [task EXCEPT ![j] = "none"],
               active' = active \/ active' = active \ {j}
        PROVE  SlotsExact'
  <2>1. FromMemory' = FromMemory /\ FromRedis' = FromRedis \ {j}
    BY <1>off DEF FromRedis, FromMemory
  <2>2. Cardinality(FromRedis \ {j}) <= Cardinality(FromRedis)
    BY TakenFinite, FS_Subset
  <2>3. Cardinality(FromRedis \ {j}) \in Nat
    BY TakenFinite, FS_RemoveElement, FS_CardinalityType
  <2> QED
    BY <1>0, <1>off, <2>1, <2>2, <2>3, TakenFinite DEF SlotsExact
<1>1. ASSUME NEW j \in Jobs, Insert(j) \/ Enqueue(j) \/ EnqueueFails(j) PROVE SlotsExact'
  BY <1>1, <1>quiet DEF Insert, Enqueue, EnqueueFails
<1>2. ASSUME NEW j \in Jobs, TakeFromRedis(j) PROVE SlotsExact'
  <2>1. j \notin active /\ task[j] = "none"
    BY <1>2 DEF TakeFromRedis, PlaceInv, PlaceOf, OnlyPlace
  <2>2. FromMemory' = FromMemory /\ FromRedis' = FromRedis \cup {j} /\ j \notin FromRedis
    BY <1>2, <2>1 DEF TakeFromRedis, FromRedis, FromMemory
  <2>3. Cardinality(FromRedis \cup {j}) = Cardinality(FromRedis) + 1
    BY <2>2, TakenFinite, FS_AddElement
  <2> QED
    BY <1>0, <1>2, <2>2, <2>3, TakenFinite DEF TakeFromRedis, SlotsExact
<1>3. ASSUME NEW j \in Jobs, TakeFromMemory(j) PROVE SlotsExact'
  <2>1. j \notin active /\ task[j] = "none"
    BY <1>3 DEF TakeFromMemory, PlaceInv, PlaceOf, OnlyPlace
  <2>2. FromRedis' = FromRedis /\ FromMemory' = FromMemory \cup {j} /\ j \notin FromMemory
    BY <1>3, <2>1 DEF TakeFromMemory, FromRedis, FromMemory
  <2>3. Cardinality(FromMemory \cup {j}) = Cardinality(FromMemory) + 1
    BY <2>2, TakenFinite, FS_AddElement
  <2> QED
    BY <1>0, <1>3, <2>2, <2>3, TakenFinite DEF TakeFromMemory, SlotsExact
<1>4. ASSUME NEW j \in Jobs, Mark(j) PROVE SlotsExact'
  BY <1>4, <1>on DEF Mark
<1>5. ASSUME NEW j \in Jobs, Record(j) \/ RecordFails(j) PROVE SlotsExact'
  BY <1>5, <1>on DEF Record, RecordFails
<1>6. ASSUME NEW j \in Jobs, Emit(j) PROVE SlotsExact'
  <2>1. CASE j \in active
    <3>1. FromRedis' = FromRedis /\ FromMemory' = FromMemory
      BY <1>6, <2>1 DEF Emit, FromRedis, FromMemory
    <3> QED
      BY <1>6, <2>1, <3>1, <1>same DEF Emit
  <2>2. CASE j \notin active
    <3>1. FromRedis' = FromRedis /\ FromMemory' = FromMemory \ {j} /\ j \in FromMemory
      BY <1>6, <2>2 DEF Emit, FromRedis, FromMemory
    <3>2. Cardinality(FromMemory \ {j}) = Cardinality(FromMemory) - 1
      BY <3>1, TakenFinite, FS_RemoveElement
    <3> QED
      BY <1>0, <1>6, <2>2, <3>1, <3>2, TakenFinite DEF Emit, SlotsExact
  <2> QED
    BY <2>1, <2>2
<1>7. ASSUME NEW j \in Jobs, Ack(j) \/ AckLost(j) PROVE SlotsExact'
  <2>1. j \in active
    BY <1>7 DEF Ack, AckLost, PlaceInv, PlaceOf, AckInRedis
  <2> QED
    BY <1>7, <2>1, <1>off DEF Ack, AckLost
<1>8. ASSUME NEW j \in Jobs, Redeliver(j) PROVE SlotsExact'
  <2>1. FromRedis' = FromRedis /\ FromMemory' = FromMemory
    BY <1>8 DEF Redeliver, FromRedis, FromMemory
  <2> QED
    BY <1>8, <2>1, <1>same DEF Redeliver
<1>9. ASSUME NEW s \in Streams, Listen(s) \/ Close(s) \/ \E j \in Jobs : Open(s, j)
      PROVE  SlotsExact'
  BY <1>9, <1>quiet DEF Listen, Close, Open
<1>10. CASE Relink
  BY <1>10, <1>quiet DEF Relink
<1>11. CASE RestartWeb
  <2>1. CASE WorkerInWeb
    <3>1. FromRedis' = {} /\ FromMemory' = {}
      BY <1>11, <2>1 DEF RestartWeb, FromRedis, FromMemory
    <3> QED
      BY <1>0, <1>11, <3>1, FS_EmptySet DEF RestartWeb, SlotsExact
  <2>2. CASE ~WorkerInWeb
    <3>1. FromRedis' = FromRedis /\ FromMemory' = {}
      BY <1>11, <2>2 DEF RestartWeb, WorkerInWeb, FromRedis, FromMemory,
                         PlaceInv, PlaceOf, Elsewhere
    <3> QED
      BY <1>0, <1>11, <3>1, FS_EmptySet DEF RestartWeb, SlotsExact
  <2> QED
    BY <2>1, <2>2
<1>12. CASE RestartWorker
  <2>1. FromRedis' = {} /\ FromMemory' = {} /\ FromMemory = {}
    BY <1>12 DEF RestartWorker, WorkerInWeb, FromRedis, FromMemory, PlaceInv, PlaceOf, Elsewhere
  <2> QED
    BY <1>0, <1>12, <2>1, FS_EmptySet DEF RestartWorker, SlotsExact
<1>13. CASE UNCHANGED vars
  BY <1>13, <1>quiet DEF vars
<1> QED
  BY <1>1, <1>2, <1>3, <1>4, <1>5, <1>6, <1>7, <1>8, <1>9, <1>10, <1>11, <1>12, <1>13
     DEF Next, Process, Crash

-----------------------------------------------------------------------------
(* Streams *)

\* What StreamHears says of a stream that listens, also of one that is about to.
Hears(s) ==
  /\ WorkerInWeb
  /\ stream[s].pc = "listening" \/ (stream[s].pc = "opening" /\ ~stream[s].over)
  /\ status[stream[s].job] = "DONE"
  => task[stream[s].job] = "emit" \/ stream[s].missed

HearInv == \A s \in Streams : Hears(s)

LEMMA HearInit == Init => HearInv
  BY DEF Init, HearInv, Hears, Closed

LEMMA HearStep == TypeOK /\ PlaceInv /\ HearInv /\ [Next]_vars => HearInv'
<1> SUFFICES ASSUME TypeOK, PlaceInv, HearInv, [Next]_vars, NEW s \in Streams
             PROVE  Hears(s)'
  BY DEF HearInv
<1>0. Hears(s) /\ stream[s].job \in Jobs /\ stream[s] \in StreamRec
  BY DEF HearInv, TypeOK, StreamRec
<1> USE <1>0 DEF TypeOK, Hears, WorkerInWeb, queueVars, workVars
<1>1. ASSUME NEW j \in Jobs, Insert(j) PROVE Hears(s)'
  BY <1>1 DEF Insert
<1>2. ASSUME NEW j \in Jobs, Enqueue(j) \/ EnqueueFails(j) PROVE Hears(s)'
  BY <1>2 DEF Enqueue, EnqueueFails
<1>3. ASSUME NEW j \in Jobs, TakeFromRedis(j) \/ TakeFromMemory(j) PROVE Hears(s)'
  <2>1. task[j] = "none"
    BY <1>3 DEF TakeFromRedis, TakeFromMemory, PlaceInv, PlaceOf, OnlyPlace
  <2> QED
    BY <1>3, <2>1 DEF TakeFromRedis, TakeFromMemory
<1>4. ASSUME NEW j \in Jobs, Mark(j) PROVE Hears(s)'
  BY <1>4 DEF Mark
<1>5. ASSUME NEW j \in Jobs, Record(j) \/ RecordFails(j) PROVE Hears(s)'
  BY <1>5 DEF Record, RecordFails
<1>6. ASSUME NEW j \in Jobs, Emit(j) PROVE Hears(s)'
  <2>1. CASE ~WorkerInWeb
    BY <1>6, <2>1 DEF Emit
  <2>2. CASE WorkerInWeb
    <3>1. stream'[s] = Heard(stream[s], j)
      BY <1>6, <2>2 DEF Emit
    <3>2. CASE stream[s].job # j
      BY <1>6, <3>1, <3>2 DEF Emit, Heard
    <3>3. CASE stream[s].job = j /\ stream[s].pc = "listening"
      BY <1>6, <3>1, <3>3 DEF Emit, Heard, Closed
    <3>4. CASE stream[s].job = j /\ stream[s].pc # "listening"
      BY <1>6, <3>1, <3>4 DEF Emit, Heard, StreamRec
    <3> QED
      BY <3>2, <3>3, <3>4
  <2> QED
    BY <2>1, <2>2
<1>7. ASSUME NEW j \in Jobs, Ack(j) \/ AckLost(j) PROVE Hears(s)'
  BY <1>7 DEF Ack, AckLost
<1>8. ASSUME NEW j \in Jobs, Redeliver(j) PROVE Hears(s)'
  BY <1>8 DEF Redeliver
<1>9. ASSUME NEW r \in Streams, NEW j \in Jobs, Open(r, j) PROVE Hears(s)'
  BY <1>9 DEF Open
<1>10. ASSUME NEW r \in Streams, Listen(r) PROVE Hears(s)'
  <2>1. CASE r = s
    BY <1>10, <2>1 DEF Listen, Closed, StreamRec
  <2>2. CASE r # s
    BY <1>10, <2>2 DEF Listen
  <2> QED
    BY <2>1, <2>2
<1>11. ASSUME NEW r \in Streams, Close(r) PROVE Hears(s)'
  BY <1>11 DEF Close, Closed
<1>12. CASE Relink
  BY <1>12 DEF Relink
<1>13. CASE RestartWeb
  BY <1>13 DEF RestartWeb, Closed
<1>14. CASE RestartWorker
  BY <1>14 DEF RestartWorker
<1>15. CASE UNCHANGED vars
  BY <1>15 DEF vars
<1> QED
  BY <1>1, <1>2, <1>3, <1>4, <1>5, <1>6, <1>7, <1>8, <1>9, <1>10, <1>11, <1>12, <1>13,
     <1>14, <1>15 DEF Next, Process, Crash

-----------------------------------------------------------------------------
(* The inductive invariant, and the theorems *)

ExecutionInv == TypeOK /\ PlaceInv /\ SlotsExact /\ HearInv

LEMMA InvInit == Init => ExecutionInv
  BY TypeInit, PlaceInit, SlotsInit, HearInit DEF ExecutionInv

LEMMA InvStep == ExecutionInv /\ [Next]_vars => ExecutionInv'
  BY TypeStep, SlotCounted, PlaceStep, SlotsStep, HearStep DEF ExecutionInv

LEMMA Invariance == Spec => []ExecutionInv
  BY InvInit, InvStep, PTL DEF Spec

\* Every variable keeps its type; in particular the count of running jobs never
\* goes below zero.
THEOREM TypeCorrect == Spec => []TypeOK
<1>1. ExecutionInv => TypeOK
  BY DEF ExecutionInv
<1> QED
  BY <1>1, Invariance, PTL

\* processNextInMemoryJob gives every slot back exactly once and BullMQ's worker
\* is not given more: no queue ever runs more than MaxRunning jobs, and none
\* loses a slot for good.
THEOREM SlotsAreExact == Spec => []SlotsExact
<1>1. ExecutionInv => SlotsExact
  BY DEF ExecutionInv
<1> QED
  BY <1>1, Invariance, PTL

\* From POST /run to its result a submission is in exactly one place, unless a
\* crash or a failed statement lost it: nothing is dropped and nothing queued twice.
THEOREM NothingIsLost == Spec => []NothingLost
<1>1. ExecutionInv => NothingLost
  BY PlacesTold DEF ExecutionInv
<1> QED
  BY <1>1, Invariance, PTL

\* With the worker in the web process, a stream that listens to a job that is
\* over will hear of it, but for one that was being opened when the event came.
THEOREM StreamsHear == Spec => []StreamHears
<1>1. HearInv => StreamHears
  BY DEF HearInv, Hears, StreamHears
<1>2. ExecutionInv => StreamHears
  BY <1>1 DEF ExecutionInv
<1> QED
  BY <1>2, Invariance, PTL

-----------------------------------------------------------------------------
(* The sandbox *)

Processes ==
  [pc : Steps \cup {"orphan"}, isolated : BOOLEAN, alive : BOOLEAN, code : Nat,
   wrote : Nat, total : Nat, kept : Nat, timedOut : BOOLEAN, over : BOOLEAN, killed : BOOLEAN]

Statuses ==
  {"NONE", "COMPILE_ERROR", "SANDBOX_ERROR", "OUTPUT_LIMIT", "TIMEOUT", "MEMORY_LIMIT",
   "RUNTIME_ERROR", "SUCCESS"}
Identities == {"unknown", "yes", "no"}

SandboxType ==
  /\ host \in Machines
  /\ worker \in {"up", "down"} /\ jdk \in [java : {"none", "old", "21"}, isolated : BOOLEAN]
  /\ isolation \in Identities
  /\ run \in [Runs -> Processes \cup {IdleRun}]
  /\ workspace \in [Runs -> {"none", "fresh", "old"}]
  /\ verdict \in [Runs -> [status : Statuses, of : Processes \cup {IdleRun}]]

\* What is known of a process: how much it wrote decides whether it is over the
\* limit, and nothing but that and the watchdog kills it.
Sane(r) ==
  /\ r.total <= r.wrote
  /\ r.over <=> r.total > MaxOutput
  /\ ~r.over => r.kept = r.total
  /\ r.killed <=> r.over \/ r.timedOut

AllSane == \A e \in Runs : run[e].pc \in Steps => Sane(run[e])

\* What cleanupStaleWorkspaces looks for, an execution that has its time yet has not.
Housed == \A e \in Runs : run[e].pc \in Steps /\ ~run[e].timedOut => workspace[e] = "fresh"

AllFaithful == \A e \in Runs : Faithful(verdict[e])

\* Nothing that was found out on a machine outlives the worker that asked.
ForgottenWhenDown ==
  worker = "down" => isolation = "unknown" /\ \A e \in Runs : run[e].pc \notin Steps

\* In production the first answer agrees with the preflight.
CachedRightly ==
  host.production /\ worker = "up" =>
    isolation = "unknown" \/ isolation = IF host.unshare THEN "yes" ELSE "no"

SandboxInv ==
  SandboxType /\ AllSane /\ Housed /\ AllFaithful /\ ForgottenWhenDown /\ CachedRightly
    /\ ProductionIsolates

LEMMA IdleRunIs == IdleRun.pc = "idle" /\ IdleRun \notin Processes
  BY DEF IdleRun, Processes, Steps

LEMMA StepsAreProcesses ==
  ASSUME SandboxType, NEW e \in Runs, run[e].pc \in Steps \cup {"orphan"}
  PROVE  run[e] \in Processes
  BY IdleRunIs DEF SandboxType, Steps

LEMMA SandboxStarts == SandboxInit => SandboxInv
<1> SUFFICES ASSUME SandboxInit
             PROVE  SandboxInv
  OBVIOUS
<1>1. SandboxType
  <2>1. host \in Machines
    BY SandboxAssumption DEF SandboxInit
  <2>2. NoVerdict \in [status : Statuses, of : Processes \cup {IdleRun}]
    BY DEF NoVerdict, Statuses
  <2> QED
    BY <2>1, <2>2 DEF SandboxInit, SandboxType, NoInfo, Identities
<1>2. AllSane /\ Housed /\ ForgottenWhenDown
  BY IdleRunIs DEF SandboxInit, AllSane, Housed, ForgottenWhenDown, Steps
<1>3. AllFaithful
  BY IdleRunIs DEF SandboxInit, AllFaithful, Faithful, NoVerdict
<1>4. CachedRightly /\ ProductionIsolates
  BY DEF SandboxInit, CachedRightly, ProductionIsolates
<1> QED
  BY <1>1, <1>2, <1>3, <1>4 DEF SandboxInv

\* The start of a worker: what it finds out is so.
LEMMA WorkerStarts ==
  ASSUME SandboxInv, StartWorker
  PROVE  SandboxInv'
<1> USE DEF SandboxInv
<1>1. PICK h \in Provisioned(host) :
        /\ host' = DirectoryEnsured(h)
        /\ IF Preflight(h)
           THEN worker' = "up" /\ jdk' = Resolved(h) /\ workspace' = Swept
           ELSE UNCHANGED <<worker, jdk, workspace>>
  BY DEF StartWorker
<1>2. worker = "down" /\ UNCHANGED <<isolation, run, verdict>>
  BY DEF StartWorker
<1>3. h \in Machines
  <2>1. PICK u \in {host.user} \cup (IF host.root THEN {"right"} ELSE {}),
             j \in {host.java} \cup (IF host.root /\ host.java = "none" THEN {"21"} ELSE {}) :
          h = With(host, u, j)
    BY <1>1 DEF Provisioned
  <2>2. u \in {"none", "other", "right"} /\ j \in {"none", "old", "21"} /\ host \in Machines
    BY <2>1 DEF SandboxType, Machines
  <2> QED
    BY <2>1, <2>2 DEF Machines, With
<1>4. /\ host' \in Machines /\ host'.production = h.production /\ host'.unshare = h.unshare
  BY <1>1, <1>3 DEF DirectoryEnsured, Machines
<1>5. Resolved(h) \in [java : {"none", "old", "21"}, isolated : BOOLEAN]
  BY <1>3 DEF Resolved, Valid, Machines
<1>6. workspace' \in [Runs -> {"none", "fresh", "old"}]
  BY <1>1 DEF Swept, SandboxType
<1>7. SandboxType'
  BY <1>1, <1>2, <1>4, <1>5, <1>6 DEF SandboxType
<1>8. isolation' = "unknown" /\ \A e \in Runs : run'[e].pc \notin Steps
  BY <1>2 DEF ForgottenWhenDown
<1>9. AllSane' /\ Housed' /\ AllFaithful' /\ ForgottenWhenDown' /\ CachedRightly'
  BY <1>2, <1>8 DEF AllSane, Housed, AllFaithful, ForgottenWhenDown, CachedRightly
<1>10. ProductionIsolates'
  <2> SUFFICES ASSUME host'.production, worker' = "up"
               PROVE  jdk' = [java |-> "21", isolated |-> host'.unshare]
    BY <1>8 DEF ProductionIsolates
  <2>1. Preflight(h) /\ jdk' = Resolved(h)
    BY <1>1, <1>2
  <2>2. h.java = "21" /\ h.tools /\ Valid(h)
    BY <1>4, <2>1 DEF Preflight
  <2>3. Resolved(h) = [java |-> "21", isolated |-> h.unshare]
    BY <1>3, <2>2 DEF Resolved, Machines
  <2> QED
    BY <1>4, <2>1, <2>3
<1> QED
  BY <1>7, <1>9, <1>10

LEMMA WorkerStops ==
  ASSUME SandboxInv, CrashWorker \/ Reboot
  PROVE  SandboxInv'
<1> USE DEF SandboxInv
<1>1. /\ worker' = "down" /\ jdk' = NoInfo /\ isolation' = "unknown" /\ verdict' = verdict
      /\ workspace' \in [Runs -> {"none", "fresh", "old"}] /\ host' \in Machines
  BY DEF CrashWorker, Reboot, SandboxType, Machines
<1>2. run' \in [Runs -> Processes \cup {IdleRun}] /\ \A e \in Runs : run'[e].pc \notin Steps
  <2>1. CASE Reboot
    BY <2>1, IdleRunIs DEF Reboot, Steps
  <2>2. CASE CrashWorker
    <3> SUFFICES ASSUME NEW e \in Runs
                 PROVE  run'[e] \in Processes \cup {IdleRun} /\ run'[e].pc \notin Steps
      BY <2>2 DEF CrashWorker
    <3>1. CASE run[e].pc \in {"compile", "java"} /\ run[e].alive /\ ~host.production
      <4>1. run'[e] = [run[e] EXCEPT !.pc = "orphan"]
        BY <2>2, <3>1 DEF CrashWorker
      <4>2. run[e] \in Processes
        BY <3>1, StepsAreProcesses DEF Steps
      <4> QED
        BY <4>1, <4>2 DEF Processes, Steps
    <3>2. CASE ~(run[e].pc \in {"compile", "java"} /\ run[e].alive /\ ~host.production)
      <4>1. run'[e] = IF run[e].pc = "orphan" THEN run[e] ELSE IdleRun
        BY <2>2, <3>2 DEF CrashWorker
      <4> QED
        BY <4>1, IdleRunIs, StepsAreProcesses DEF Steps
    <3> QED
      BY <3>1, <3>2
  <2> QED
    BY <2>1, <2>2
<1>3. SandboxType'
  BY <1>1, <1>2 DEF SandboxType, NoInfo, Identities
<1> QED
  BY <1>1, <1>2, <1>3 DEF AllSane, Housed, AllFaithful, ForgottenWhenDown, CachedRightly,
     ProductionIsolates

\* An execution that goes on, its process being in order.
LEMMA ProcessGoesOn ==
  ASSUME SandboxInv, NEW e \in Runs, NEW r \in Processes,
         run[e].pc \in Steps \cup {"orphan"}, r.pc = run[e].pc, r.isolated = run[e].isolated,
         r.pc \in Steps => Sane(r),
         run[e].timedOut => r.timedOut,
         run' = [run EXCEPT ![e] = r],
         UNCHANGED <<host, worker, jdk, isolation, workspace, verdict>>
  PROVE  SandboxInv'
<1> USE DEF SandboxInv
<1>1. run' \in [Runs -> Processes \cup {IdleRun}]
  BY DEF SandboxType
<1>2. run'[e] = r /\ \A x \in Runs : x # e => run'[x] = run[x]
  BY DEF SandboxType
<1>3. SandboxType'
  BY <1>1 DEF SandboxType
<1>4. AllSane'
  BY <1>2 DEF AllSane, Sane
<1>5. Housed' /\ AllFaithful' /\ ForgottenWhenDown'
  BY <1>2 DEF Housed, AllFaithful, ForgottenWhenDown
<1>6. CachedRightly' /\ ProductionIsolates'
  BY <1>2 DEF CachedRightly, ProductionIsolates
<1> QED
  BY <1>3, <1>4, <1>5, <1>6

\* One that is over, with a verdict about it that is right.
LEMMA ExecutionOver ==
  ASSUME SandboxInv, NEW e \in Runs, NEW outcome \in Statuses,
         Faithful([status |-> outcome, of |-> run[e]]),
         Finish(e, outcome), UNCHANGED <<host, worker, jdk, isolation>>
  PROVE  SandboxInv'
<1> USE DEF SandboxInv
<1>1. /\ run' = [run EXCEPT ![e] = IdleRun]
      /\ workspace' = [workspace EXCEPT ![e] = "none"]
      /\ verdict' = [verdict EXCEPT ![e] = [status |-> outcome, of |-> run[e]]]
  BY DEF Finish, Answer
<1>2. SandboxType'
  BY <1>1 DEF SandboxType
<1>3. /\ run'[e] = IdleRun /\ \A x \in Runs : x # e => run'[x] = run[x] /\ workspace'[x] = workspace[x]
      /\ verdict'[e] = [status |-> outcome, of |-> run[e]]
      /\ \A x \in Runs : x # e => verdict'[x] = verdict[x]
  BY <1>1 DEF SandboxType
<1>4. IdleRun.pc \notin Steps
  BY IdleRunIs DEF Steps
<1>5. AllSane'
  BY <1>3, <1>4 DEF AllSane, Sane
<1>6. Housed' /\ ForgottenWhenDown'
  BY <1>3, <1>4 DEF Housed, ForgottenWhenDown
<1>7. AllFaithful'
  BY <1>3 DEF AllFaithful, Faithful
<1>8. CachedRightly' /\ ProductionIsolates'
  BY <1>3, <1>4 DEF CachedRightly, ProductionIsolates
<1> QED
  BY <1>2, <1>5, <1>6, <1>7, <1>8

LEMMA RefuseStep ==
  ASSUME SandboxInv, NEW e \in Runs, Refuse(e) \/ NoRoom(e)
  PROVE  SandboxInv'
<1> USE DEF SandboxInv
<1>1. PICK outcome \in Statuses : Answer(e, outcome, IdleRun)
  BY DEF Refuse, NoRoom, Statuses
<1>2. UNCHANGED <<host, worker, jdk, isolation, run, workspace>>
  BY DEF Refuse, NoRoom
<1>3. SandboxType'
  BY <1>1, <1>2 DEF SandboxType, Answer
<1>4. AllFaithful'
  BY <1>1, IdleRunIs DEF Answer, SandboxType, AllFaithful, Faithful
<1> QED
  BY <1>2, <1>3, <1>4 DEF AllSane, Sane, Housed, ForgottenWhenDown, CachedRightly, ProductionIsolates

LEMMA FreshIs ==
  ASSUME NEW s \in Steps, NEW b \in BOOLEAN
  PROVE  /\ Fresh(s, b) \in Processes /\ Sane(Fresh(s, b))
         /\ Fresh(s, b).pc = s /\ Fresh(s, b).isolated = b /\ ~Fresh(s, b).timedOut
<1>1. Fresh(s, b) \in Processes /\ Fresh(s, b).pc = s /\ Fresh(s, b).isolated = b
  BY DEF Fresh, Processes
<1>2. /\ Fresh(s, b).total = 0 /\ Fresh(s, b).wrote = 0 /\ Fresh(s, b).kept = 0
      /\ Fresh(s, b).over = FALSE /\ Fresh(s, b).killed = FALSE /\ Fresh(s, b).timedOut = FALSE
  BY DEF Fresh
<1>3. 0 <= 0 /\ ~(0 > MaxOutput)
  BY SandboxAssumption
<1> QED
  BY <1>1, <1>2, <1>3 DEF Sane

\* Whether a program is isolated is decided once and for all.
LEMMA BeginStep ==
  ASSUME SandboxInv, NEW e \in Runs, Begin(e)
  PROVE  SandboxInv'
<1> USE DEF SandboxInv
<1>1. Supported \in BOOLEAN /\ (host.production => Supported = host.unshare) /\ host.unshare \in BOOLEAN
  <2>1. host.unshare \in BOOLEAN /\ jdk.isolated \in BOOLEAN
    BY DEF SandboxType, Machines
  <2>2. host.production => jdk.isolated = host.unshare
    BY DEF Begin, ProductionIsolates
  <2> QED
    BY <2>1, <2>2 DEF Begin, Supported, CachedRightly
<1> DEFINE r == Fresh("compile", Supported)
<1>2. r \in Processes /\ Sane(r) /\ r.pc = "compile" /\ r.isolated = Supported /\ ~r.timedOut
  BY <1>1, FreshIs DEF Steps
<1>3. /\ host' = [host EXCEPT !.dir = "open"]
      /\ workspace' = [workspace EXCEPT ![e] = "fresh"]
      /\ isolation' = IF Supported THEN "yes" ELSE "no"
      /\ run' = [run EXCEPT ![e] = r]
      /\ worker = "up" /\ UNCHANGED <<worker, jdk, verdict>>
  BY DEF Begin
<1> HIDE DEF r
<1>4. host' \in Machines /\ host'.production = host.production /\ host'.unshare = host.unshare
  BY <1>3 DEF SandboxType, Machines
<1>5. /\ run'[e] = r /\ workspace'[e] = "fresh"
      /\ \A x \in Runs : x # e => run'[x] = run[x] /\ workspace'[x] = workspace[x]
  BY <1>3 DEF SandboxType
<1>6. SandboxType'
  BY <1>2, <1>3, <1>4 DEF SandboxType, Identities
<1>7. AllSane'
  BY <1>2, <1>5 DEF AllSane, Sane
<1>8. Housed' /\ AllFaithful' /\ ForgottenWhenDown'
  BY <1>3, <1>5 DEF Housed, AllFaithful, ForgottenWhenDown
<1>9. CachedRightly' /\ ProductionIsolates'
  BY <1>1, <1>2, <1>3, <1>4, <1>5 DEF CachedRightly, ProductionIsolates
<1> QED
  BY <1>6, <1>7, <1>8, <1>9

LEMMA SpawnFailsStep ==
  ASSUME SandboxInv, NEW e \in Runs, SpawnFails(e)
  PROVE  SandboxInv'
<1>1. Faithful([status |-> "SANDBOX_ERROR", of |-> run[e]])
  BY DEF Faithful
<1>2. Finish(e, "SANDBOX_ERROR") /\ UNCHANGED <<host, worker, jdk, isolation>>
  BY DEF SpawnFails
<1> QED
  BY <1>1, <1>2, ExecutionOver DEF Statuses

LEMMA WriteStep ==
  ASSUME SandboxInv, NEW e \in Runs, Write(e)
  PROVE  SandboxInv'
<1> DEFINE r == [run[e] EXCEPT !.wrote = run[e].wrote + 1]
<1>1. run[e] \in Processes /\ (run[e].pc \in Steps => Sane(run[e]))
  BY StepsAreProcesses DEF Write, SandboxInv, AllSane
<1>2. run' = [run EXCEPT ![e] = r]
  BY DEF Write, SandboxInv, SandboxType
<1>3. /\ r \in Processes /\ r.pc = run[e].pc /\ r.isolated = run[e].isolated
      /\ r.timedOut = run[e].timedOut /\ r.over = run[e].over /\ r.killed = run[e].killed
      /\ r.total = run[e].total /\ r.kept = run[e].kept /\ r.wrote = run[e].wrote + 1
  BY <1>1 DEF Processes
<1> HIDE DEF r
<1>4. run[e].total \in Nat /\ run[e].wrote \in Nat
  BY <1>1 DEF Processes
<1>5. r.pc \in Steps => Sane(r)
  BY <1>1, <1>3, <1>4 DEF Sane
<1> QED
  BY <1>2, <1>3, <1>5, ProcessGoesOn DEF Write

LEMMA ExitStep ==
  ASSUME SandboxInv, NEW e \in Runs, NEW code \in Nat, Exit(e, code)
  PROVE  SandboxInv'
<1> USE DEF SandboxInv
<1>1. run[e] \in Processes /\ (run[e].pc \in Steps => Sane(run[e]))
  BY StepsAreProcesses DEF Exit, AllSane
<1>2. UNCHANGED <<host, worker, jdk, isolation, workspace, verdict>>
  BY DEF Exit
<1>3. CASE run[e].pc = "orphan"
  <2>1. run' = [run EXCEPT ![e] = IdleRun]
    BY <1>3 DEF Exit, SandboxType
  <2>2. IdleRun.pc \notin Steps /\ run'[e] = IdleRun /\ \A x \in Runs : x # e => run'[x] = run[x]
    BY <2>1, IdleRunIs DEF Steps, SandboxType
  <2>3. SandboxType'
    BY <1>2, <2>1 DEF SandboxType
  <2>4. AllSane' /\ Housed' /\ AllFaithful'
    BY <1>2, <2>2 DEF AllSane, Sane, Housed, AllFaithful
  <2>5. ForgottenWhenDown' /\ CachedRightly' /\ ProductionIsolates'
    BY <1>2, <2>2 DEF ForgottenWhenDown, CachedRightly, ProductionIsolates
  <2> QED
    BY <2>3, <2>4, <2>5
<1>4. CASE run[e].pc \in Steps
  <2> DEFINE c == IF run[e].killed THEN run[e].code ELSE code
             r == [run[e] EXCEPT !.alive = FALSE, !.code = c]
  <2>1. run' = [run EXCEPT ![e] = r]
    BY <1>4 DEF Exit, SandboxType, Steps
  <2>2. c \in Nat
    BY <1>1 DEF Processes
  <2> HIDE DEF c
  <2>3. /\ r \in Processes /\ r.pc = run[e].pc /\ r.isolated = run[e].isolated
        /\ r.timedOut = run[e].timedOut /\ r.over = run[e].over /\ r.killed = run[e].killed
        /\ r.total = run[e].total /\ r.kept = run[e].kept /\ r.wrote = run[e].wrote
    BY <1>1, <2>2 DEF Processes
  <2> HIDE DEF r
  <2>4. Sane(r)
    BY <1>1, <1>4, <2>3 DEF Sane
  <2> QED
    BY <1>2, <1>4, <2>1, <2>3, <2>4, ProcessGoesOn
<1> QED
  BY <1>3, <1>4 DEF Exit

\* executeFullCleanup kills what is over the limit or out of time, ...
LEMMA CleanedIs ==
  ASSUME host \in Machines, NEW r \in Processes
  PROVE  /\ Cleaned(r) \in Processes
         /\ Cleaned(r).pc = r.pc /\ Cleaned(r).isolated = r.isolated
         /\ Cleaned(r).timedOut = r.timedOut /\ Cleaned(r).over = r.over
         /\ Cleaned(r).total = r.total /\ Cleaned(r).kept = r.kept /\ Cleaned(r).wrote = r.wrote
         /\ Cleaned(r).killed = TRUE
<1>1. CASE r.killed
  BY <1>1 DEF Cleaned, Processes
<1>2. CASE ~r.killed
  <2> DEFINE a == r.alive /\ r.isolated /\ ~host.kill
             c == IF r.alive THEN Null ELSE r.code
  <2>1. a \in BOOLEAN /\ c \in Nat
    BY DEF Processes, Machines, Null
  <2>2. Cleaned(r) = [r EXCEPT !.killed = TRUE, !.alive = a, !.code = c]
    BY <1>2 DEF Cleaned
  <2> HIDE DEF a, c
  <2> QED
    BY <2>1, <2>2 DEF Processes
<1> QED
  BY <1>1, <1>2

\* ... and nothing else.
LEMMA OnDataStep ==
  ASSUME SandboxInv, NEW e \in Runs, OnData(e)
  PROVE  SandboxInv'
<1> USE DEF SandboxInv
<1> DEFINE r == [run[e] EXCEPT !.total = run[e].total + 1]
<1>1. run[e] \in Processes /\ Sane(run[e]) /\ run[e].pc \in Steps /\ host \in Machines
  BY StepsAreProcesses DEF OnData, AllSane, SandboxType
<1>2. /\ r \in Processes
      /\ r.total = run[e].total + 1 /\ r.wrote = run[e].wrote /\ r.kept = run[e].kept
      /\ r.over = run[e].over /\ r.killed = run[e].killed
      /\ r.timedOut = run[e].timedOut /\ r.pc = run[e].pc /\ r.isolated = run[e].isolated
  BY <1>1 DEF Processes
<1> DEFINE over == [r EXCEPT !.over = TRUE]
           fits == [r EXCEPT !.kept = r.kept + 1]
           new == IF r.total > MaxOutput THEN Cleaned(over) ELSE fits
<1>3. run' = [run EXCEPT ![e] = new]
  BY <1>1 DEF OnData
<1> HIDE DEF r
<1>4. over \in Processes /\ fits \in Processes
  <2>1. over \in Processes
    BY <1>2 DEF Processes
  <2>2. r \in Processes /\ r.kept + 1 \in Nat
    BY <1>2 DEF Processes
  <2>3. fits \in Processes
    BY <2>2 DEF Processes
  <2> QED
    BY <2>1, <2>3
<1>5. /\ run[e].total \in Nat /\ run[e].wrote \in Nat /\ run[e].kept \in Nat
      /\ run[e].total < run[e].wrote
  BY <1>1 DEF Processes, OnData
<1>6. /\ over.total = r.total /\ over.wrote = r.wrote /\ over.over = TRUE
      /\ over.timedOut = r.timedOut /\ over.pc = r.pc /\ over.isolated = r.isolated
  BY <1>4 DEF Processes
<1>7. /\ fits.total = r.total /\ fits.wrote = r.wrote /\ fits.over = r.over
      /\ fits.kept = r.kept + 1 /\ fits.killed = r.killed
      /\ fits.timedOut = r.timedOut /\ fits.pc = r.pc /\ fits.isolated = r.isolated
  BY <1>4 DEF Processes
<1> HIDE DEF over, fits
<1>8. CASE r.total > MaxOutput
  <2> DEFINE c == Cleaned(over)
  <2>1. /\ c \in Processes /\ c.pc = run[e].pc /\ c.isolated = run[e].isolated
        /\ c.timedOut = run[e].timedOut
        /\ c.over = TRUE /\ c.total = r.total /\ c.wrote = run[e].wrote /\ c.killed = TRUE
    BY <1>1, <1>4, <1>2, <1>6, CleanedIs
  <2>2. r.total <= run[e].wrote
    BY <1>5, <1>2
  <2>3. run' = [run EXCEPT ![e] = Cleaned(over)]
    BY <1>3, <1>8
  <2> HIDE DEF c
  <2>4. Sane(c)
    BY <1>8, <2>1, <2>2 DEF Sane
  <2> QED
    BY <1>1, <2>1, <2>3, <2>4, ProcessGoesOn DEF OnData, c
<1>9. CASE ~(r.total > MaxOutput)
  <2>1. ~run[e].over
    BY <1>1, <1>5, <1>2, <1>9, SandboxAssumption DEF Sane
  <2>2. r.total <= run[e].wrote
    BY <1>5, <1>2
  <2>3. Sane(fits)
    BY <1>1, <1>5, <1>2, <1>9, <1>7, <2>1, <2>2 DEF Sane
  <2>4. run' = [run EXCEPT ![e] = fits]
    BY <1>3, <1>9
  <2> QED
    BY <1>1, <1>4, <1>2, <1>7, <2>3, <2>4, ProcessGoesOn DEF OnData
<1> QED
  BY <1>8, <1>9

LEMMA WatchdogStep ==
  ASSUME SandboxInv, NEW e \in Runs, Watchdog(e)
  PROVE  SandboxInv'
<1> USE DEF SandboxInv
<1> DEFINE r == [run[e] EXCEPT !.timedOut = TRUE]
<1>1. run[e] \in Processes /\ Sane(run[e]) /\ run[e].pc \in Steps /\ host \in Machines
  BY StepsAreProcesses DEF Watchdog, AllSane, SandboxType
<1>2. run' = [run EXCEPT ![e] = Cleaned(r)]
  BY <1>1 DEF Watchdog, SandboxType
<1>3. /\ r \in Processes /\ r.pc = run[e].pc /\ r.isolated = run[e].isolated /\ r.timedOut = TRUE
      /\ r.over = run[e].over /\ r.total = run[e].total /\ r.kept = run[e].kept
      /\ r.wrote = run[e].wrote
  BY <1>1 DEF Processes
<1> HIDE DEF r
<1>4. Cleaned(r) \in Processes /\ Sane(Cleaned(r)) /\ Cleaned(r).pc = run[e].pc
      /\ Cleaned(r).isolated = run[e].isolated /\ Cleaned(r).timedOut = TRUE
  BY ZenonT(40), <1>1, <1>3, CleanedIs DEF Sane
<1> QED
  BY <1>1, <1>2, <1>4, ProcessGoesOn DEF Watchdog

LEMMA OnCloseStep ==
  ASSUME SandboxInv, NEW e \in Runs, OnClose(e)
  PROVE  SandboxInv'
<1> USE DEF SandboxInv
<1>1. /\ run[e] \in Processes /\ Sane(run[e]) /\ run[e].pc \in Steps
      /\ ~run[e].alive /\ run[e].total = run[e].wrote
      /\ UNCHANGED <<host, worker, jdk, isolation>>
  BY StepsAreProcesses DEF OnClose, AllSane, HasClosed
<1>2. CASE run[e].pc = "compile" /\ Finish(e, "COMPILE_ERROR")
  <2>1. Faithful([status |-> "COMPILE_ERROR", of |-> run[e]])
    BY <1>2 DEF Faithful
  <2> QED
    BY <1>1, <1>2, <2>1, ExecutionOver DEF Statuses
<1>3. CASE /\ run[e].pc = "compile" /\ ~run[e].timedOut
           /\ run' = [run EXCEPT ![e] = Fresh("java", @.isolated)]
           /\ UNCHANGED <<workspace, verdict>>
  <2> DEFINE r == Fresh("java", run[e].isolated)
  <2>1. r \in Processes /\ Sane(r) /\ r.pc = "java" /\ r.isolated = run[e].isolated /\ ~r.timedOut
    BY <1>1, FreshIs DEF Processes, Steps
  <2>2. run' = [run EXCEPT ![e] = r]
    BY <1>3 DEF SandboxType
  <2> HIDE DEF r
  <2>3. run'[e] = r /\ \A x \in Runs : x # e => run'[x] = run[x]
    BY <2>2 DEF SandboxType
  <2>4. SandboxType'
    BY <1>1, <1>3, <2>1, <2>2 DEF SandboxType
  <2>5. AllSane'
    BY <2>1, <2>3 DEF AllSane, Sane
  <2>6. Housed' /\ AllFaithful' /\ ForgottenWhenDown'
    BY <1>1, <1>3, <2>1, <2>3 DEF Housed, AllFaithful, ForgottenWhenDown
  <2>7. CachedRightly' /\ ProductionIsolates'
    BY <1>1, <2>1, <2>3 DEF CachedRightly, ProductionIsolates
  <2> QED
    BY <2>4, <2>5, <2>6, <2>7
<1>4. CASE run[e].pc = "java" /\ Finish(e, Judged(run[e]))
  <2> DEFINE r == run[e]
             v == [status |-> Judged(r), of |-> r]
  <2>1. Judged(r) \in Statuses
    BY DEF Judged, Statuses
  <2>2. r.over => Judged(r) = "OUTPUT_LIMIT"
    BY DEF Judged
  <2>3. ~r.over => Judged(r) # "OUTPUT_LIMIT" /\ (r.timedOut => Judged(r) = "TIMEOUT")
    BY DEF Judged
  <2>4. Judged(r) = "SUCCESS" => ~r.over /\ ~r.timedOut /\ r.code = 0
    BY DEF Judged, ExitCode
  <2> HIDE DEF r
  <2>5. v.status = Judged(r) /\ v.of = r
    OBVIOUS
  <2>6. r.total = r.wrote /\ ~r.alive /\ Sane(r)
    BY <1>1 DEF r
  <2> HIDE DEF v
  <2>7. Faithful(v)
    BY <2>2, <2>3, <2>4, <2>5, <2>6 DEF Faithful, Sane
  <2> QED
    BY <1>1, <1>4, <2>1, <2>7, ExecutionOver DEF r, v
<1> QED
  BY <1>2, <1>3, <1>4 DEF OnClose

\* Workspaces grow old and are swept behind executions that have no time left.
LEMMA SweepStep ==
  ASSUME SandboxInv, Sweep \/ \E e \in Runs : Grow(e)
  PROVE  SandboxInv'
<1> USE DEF SandboxInv
<1>1. UNCHANGED <<host, worker, jdk, isolation, run, verdict>>
  BY DEF Sweep, Grow
<1>2. workspace' \in [Runs -> {"none", "fresh", "old"}] /\ Housed'
  BY DEF Sweep, Grow, Swept, SandboxType, Housed
<1> QED
  BY <1>1, <1>2 DEF SandboxType, AllSane, Sane, AllFaithful, ForgottenWhenDown, CachedRightly,
                    ProductionIsolates

LEMMA SandboxStep == SandboxInv /\ [SandboxNext]_sandboxVars => SandboxInv'
<1> SUFFICES ASSUME SandboxInv, [SandboxNext]_sandboxVars
             PROVE  SandboxInv'
  OBVIOUS
<1>1. CASE UNCHANGED sandboxVars
  BY <1>1 DEF sandboxVars, SandboxInv, SandboxType, AllSane, Sane, Housed, AllFaithful,
              ForgottenWhenDown, CachedRightly, ProductionIsolates
<1>2. {0, 1, Aborted, Null} \subseteq Nat
  BY DEF Aborted, Null
<1> QED
  BY <1>1, <1>2, WorkerStarts, WorkerStops, SweepStep, RefuseStep, BeginStep, SpawnFailsStep,
     WriteStep, ExitStep, OnDataStep, WatchdogStep, OnCloseStep
  DEF SandboxNext, Execute

LEMMA SandboxAlways == SandboxSpec => []SandboxInv
  BY SandboxStarts, SandboxStep, PTL DEF SandboxSpec

\* A verdict says what has become of the program, in whatever order its output,
\* its end, the watchdog and the limit come, and no sweep takes its workspace.
THEOREM VerdictsAreFaithful == SandboxSpec => []VerdictFaithful
<1>1. SandboxInv => VerdictFaithful
  BY DEF SandboxInv, AllFaithful, Housed, VerdictFaithful
<1> QED
  BY <1>1, SandboxAlways, PTL

\* In production programs run as isolated as the kernel allows, on any machine.
THEOREM ProductionAlwaysIsolates == SandboxSpec => []ProductionIsolates
<1>1. SandboxInv => ProductionIsolates
  BY DEF SandboxInv
<1> QED
  BY <1>1, SandboxAlways, PTL
=============================================================================
