------------------------------- MODULE Execution -------------------------------
(***************************************************************************)
(* The life of a code execution: POST /run inserts a submission and        *)
(* enqueues it (handleRunExecution, ExecutionQueueManager.enqueue), a      *)
(* worker processes it (ExecutionWorkerService.processJob), and the stream *)
(* of an execution tells the browser (GET .../stream).                     *)
(*                                                                         *)
(* The queue is Redis, through BullMQ, or an array in the web process.     *)
(* Which of them a job goes to depends on a flag of the web process that   *)
(* connection events and health checks set.  The worker is in the web      *)
(* process or, as production/ installs it, in a daemon of its own.         *)
(*                                                                         *)
(* Order within a queue is left out: no property depends on it.            *)
(***************************************************************************)
EXTENDS Naturals, FiniteSets

CONSTANTS
  Jobs,      \* submissions there can be
  Streams,   \* streams that can be open
  MaxRunning \* MAX_CONCURRENT_EXECUTIONS

ASSUME ExecutionAssumption ==
  /\ IsFiniteSet(Jobs) /\ Jobs # {}
  /\ MaxRunning \in 1..8

VARIABLES
  deployment, \* no Redis; the worker in the web process; the worker on its own
  linked,     \* isRedisAvailable, in the web process
  status,     \* submissions.execution_status; DONE is any terminal status
  request,    \* inserted by a request that has not enqueued them yet
  waiting,    \* in Redis, waiting
  active,     \* in Redis, taken and not acknowledged
  stalled,    \* in Redis, given to a worker a second time
  memory,     \* inMemoryQueue
  slots,      \* inMemoryRunningCount
  task,       \* how far processJob is with a job
  stream,     \* the streams
  hit         \* history: jobs that a crash or a failed statement has lost

queueVars  == <<request, waiting, active, stalled, memory>>
workVars   == <<slots, task>>
vars == <<deployment, linked, status, queueVars, workVars, stream, hit>>

Deployments == {"development", "single", "split"}
WorkerInWeb == deployment # "split"

\* Jobs a process has taken, from Redis and from memory.
FromRedis  == {j \in active : task[j] # "none"}
FromMemory == {j \in Jobs \ active : task[j] # "none"}

Closed == [pc |-> "closed", job |-> CHOOSE j \in Jobs : TRUE, over |-> FALSE, missed |-> FALSE]

Init ==
  /\ deployment \in Deployments
  /\ linked = (deployment # "development")
  /\ status = [j \in Jobs |-> "NONE"]
  /\ request = {} /\ waiting = {} /\ active = {} /\ stalled = {} /\ memory = {}
  /\ slots = 0
  /\ task = [j \in Jobs |-> "none"]
  /\ stream = [s \in Streams |-> Closed]
  /\ hit = {}

-----------------------------------------------------------------------------
(* Enqueueing *)

\* recordExecutionSubmission.
Insert(j) ==
  /\ status[j] = "NONE"
  /\ status' = [status EXCEPT ![j] = "QUEUED"]
  /\ request' = request \cup {j}
  /\ UNCHANGED <<deployment, linked, waiting, active, stalled, memory, workVars, stream, hit>>

\* Without Redis the job is forgotten.
EnqueueRedisOnly(j) ==
  /\ j \in request
  /\ request' = request \ {j}
  /\ waiting' = IF linked THEN waiting \cup {j} ELSE waiting
  /\ UNCHANGED <<deployment, linked, status, active, stalled, memory, workVars, stream, hit>>

\* To Redis if it is thought to be there, else to the array of the process.
Enqueue(j) ==
  /\ j \in request
  /\ request' = request \ {j}
  /\ waiting' = IF linked THEN waiting \cup {j} ELSE waiting
  /\ memory' = IF linked THEN memory ELSE memory \cup {j}
  /\ UNCHANGED <<deployment, linked, status, active, stalled, workVars, stream, hit>>

\* Queue.add rejects: the request is answered with an error, the row stays.
EnqueueFails(j) ==
  /\ j \in request
  /\ linked
  /\ request' = request \ {j}
  /\ hit' = hit \cup {j}
  /\ UNCHANGED <<deployment, linked, status, waiting, active, stalled, memory, workVars, stream>>

\* The connection closes or opens, or a health check gets its answer or not.
Relink ==
  /\ deployment # "development"
  /\ linked' = ~linked
  /\ UNCHANGED <<deployment, status, queueVars, workVars, stream, hit>>

-----------------------------------------------------------------------------
(* Workers *)

\* BullMQ's Worker, with its concurrency.
TakeFromRedis(j) ==
  /\ j \in waiting
  /\ Cardinality(FromRedis) < MaxRunning
  /\ waiting' = waiting \ {j}
  /\ active' = active \cup {j}
  /\ task' = [task EXCEPT ![j] = "mark"]
  /\ UNCHANGED <<deployment, linked, status, request, stalled, memory, slots, stream, hit>>

\* Compares with <= instead of <.
TakeOneMore(j) ==
  /\ WorkerInWeb
  /\ j \in memory
  /\ slots <= MaxRunning
  /\ memory' = memory \ {j}
  /\ slots' = slots + 1
  /\ task' = [task EXCEPT ![j] = "mark"]
  /\ UNCHANGED <<deployment, linked, status, request, waiting, active, stalled, stream, hit>>

\* processNextInMemoryJob: nothing without a handler in this process.
TakeFromMemory(j) ==
  /\ WorkerInWeb
  /\ j \in memory
  /\ slots < MaxRunning
  /\ memory' = memory \ {j}
  /\ slots' = slots + 1
  /\ task' = [task EXCEPT ![j] = "mark"]
  /\ UNCHANGED <<deployment, linked, status, request, waiting, active, stalled, stream, hit>>

\* The row becomes RUNNING, unless the UPDATE fails, which is only logged.
Mark(j) ==
  /\ task[j] = "mark"
  /\ task' = [task EXCEPT ![j] = "run"]
  /\ status' \in {status, [status EXCEPT ![j] = "RUNNING"]}
  /\ UNCHANGED <<deployment, linked, queueVars, slots, stream, hit>>

\* Returns without the event.
RecordInSilence(j) ==
  /\ task[j] = "run"
  /\ task' = [task EXCEPT ![j] = IF j \in active THEN "ack" ELSE "none"]
  /\ slots' = IF j \in active THEN slots ELSE slots - 1
  /\ status' = [status EXCEPT ![j] = "DONE"]
  /\ UNCHANGED <<deployment, linked, queueVars, stream, hit>>

\* The sandbox has run, the result has been judged and is written to the row.
Record(j) ==
  /\ task[j] = "run"
  /\ task' = [task EXCEPT ![j] = "emit"]
  /\ status' = [status EXCEPT ![j] = "DONE"]
  /\ UNCHANGED <<deployment, linked, queueVars, slots, stream, hit>>

\* That UPDATE fails, which is only logged.
RecordFails(j) ==
  /\ task[j] = "run"
  /\ task' = [task EXCEPT ![j] = "emit"]
  /\ hit' = hit \cup {j}
  /\ UNCHANGED <<deployment, linked, status, queueVars, slots, stream>>

\* What job:completed does to a stream of this process.
Heard(s, j) ==
  IF s.job # j THEN s
  ELSE IF s.pc = "listening" THEN Closed
  ELSE [s EXCEPT !.missed = (s.pc = "opening")]

\* Gives a slot of the memory queue back for a job of Redis, too.
EmitFrees(j) ==
  /\ task[j] = "emit"
  /\ stream' = IF WorkerInWeb THEN [s \in Streams |-> Heard(stream[s], j)] ELSE stream
  /\ task' = [task EXCEPT ![j] = IF j \in active THEN "ack" ELSE "none"]
  /\ slots' = slots - 1
  /\ UNCHANGED <<deployment, linked, status, queueVars, hit>>

\* Keeps the slot when the job is done.
EmitKeeps(j) ==
  /\ task[j] = "emit"
  /\ stream' = IF WorkerInWeb THEN [s \in Streams |-> Heard(stream[s], j)] ELSE stream
  /\ task' = [task EXCEPT ![j] = IF j \in active THEN "ack" ELSE "none"]
  /\ UNCHANGED <<deployment, linked, status, queueVars, slots, hit>>

\* job:completed is emitted in the process of the worker, which returns: a slot
\* of the memory queue is given back, a job of Redis is to be acknowledged.
Emit(j) ==
  /\ task[j] = "emit"
  /\ stream' = IF WorkerInWeb THEN [s \in Streams |-> Heard(stream[s], j)] ELSE stream
  /\ task' = [task EXCEPT ![j] = IF j \in active THEN "ack" ELSE "none"]
  /\ slots' = IF j \in active THEN slots ELSE slots - 1
  /\ UNCHANGED <<deployment, linked, status, queueVars, hit>>

\* BullMQ removes the job ...
Ack(j) ==
  /\ task[j] = "ack"
  /\ task' = [task EXCEPT ![j] = "none"]
  /\ active' = active \ {j}
  /\ UNCHANGED <<deployment, linked, status, request, waiting, stalled, memory, slots, stream, hit>>

\* ... unless its lock has expired in an outage.
AckLost(j) ==
  /\ task[j] = "ack"
  /\ task' = [task EXCEPT ![j] = "none"]
  /\ UNCHANGED <<deployment, linked, status, queueVars, slots, stream, hit>>

\* A job nobody holds any more goes back once, attempts or not; the second
\* time it is dropped.
Redeliver(j) ==
  /\ j \in active /\ task[j] = "none"
  /\ active' = active \ {j}
  /\ stalled' = stalled \cup {j}
  /\ waiting' = IF j \in stalled THEN waiting ELSE waiting \cup {j}
  /\ hit' = IF j \in stalled THEN hit \cup {j} ELSE hit
  /\ UNCHANGED <<deployment, linked, status, request, memory, workVars, stream>>

-----------------------------------------------------------------------------
(* Streams *)

\* The row is read ...
Open(s, j) ==
  /\ stream[s].pc = "closed"
  /\ status[j] # "NONE"
  /\ stream' = [stream EXCEPT ![s] =
       [pc |-> "opening", job |-> j, over |-> status[j] = "DONE", missed |-> FALSE]]
  /\ UNCHANGED <<deployment, linked, status, queueVars, workVars, hit>>

\* ... and sent; the stream ends, or listens to the worker's events.
Listen(s) ==
  /\ stream[s].pc = "opening"
  /\ stream' = [stream EXCEPT ![s] =
       IF @.over THEN Closed ELSE [@ EXCEPT !.pc = "listening"]]
  /\ UNCHANGED <<deployment, linked, status, queueVars, workVars, hit>>

\* The browser goes away.
Close(s) ==
  /\ stream[s].pc # "closed"
  /\ stream' = [stream EXCEPT ![s] = Closed]
  /\ UNCHANGED <<deployment, linked, status, queueVars, workVars, hit>>

-----------------------------------------------------------------------------
(* Crashes *)

\* The web process restarts: requests, memory and streams are gone, and so is
\* what the worker in it was doing.
RestartWeb ==
  /\ linked' = (deployment # "development")
  /\ hit' = hit \cup request \cup memory \cup FromMemory
  /\ request' = {} /\ memory' = {} /\ slots' = 0
  /\ task' = [j \in Jobs |-> IF WorkerInWeb THEN "none" ELSE task[j]]
  /\ stream' = [s \in Streams |-> Closed]
  /\ UNCHANGED <<deployment, status, waiting, active, stalled>>

\* The daemon restarts.
RestartWorker ==
  /\ ~WorkerInWeb
  /\ task' = [j \in Jobs |-> "none"]
  /\ UNCHANGED <<deployment, linked, status, queueVars, slots, stream, hit>>

Crash == RestartWeb \/ RestartWorker

Process(j) == Mark(j) \/ Record(j) \/ RecordFails(j) \/ Emit(j) \/ Ack(j) \/ AckLost(j)

Next ==
  \/ \E j \in Jobs :
       \/ Insert(j) \/ Enqueue(j) \/ EnqueueFails(j)
       \/ TakeFromRedis(j) \/ TakeFromMemory(j)
       \/ Process(j) \/ Redeliver(j)
  \/ \E s \in Streams : Listen(s) \/ Close(s) \/ \E j \in Jobs : Open(s, j)
  \/ Relink
  \/ Crash

Spec == Init /\ [][Next]_vars

-----------------------------------------------------------------------------
(* Properties *)

StreamRec == [pc : {"closed", "opening", "listening"}, job : Jobs, over : BOOLEAN, missed : BOOLEAN]

\* The types of the variables; a worker daemon takes no job from memory.
TypeOK ==
  /\ deployment \in Deployments
  /\ linked \in BOOLEAN
  /\ status \in [Jobs -> {"NONE", "QUEUED", "RUNNING", "DONE"}]
  /\ request \subseteq Jobs /\ waiting \subseteq Jobs /\ active \subseteq Jobs
  /\ stalled \subseteq Jobs /\ memory \subseteq Jobs
  /\ slots \in Nat
  /\ task \in [Jobs -> {"none", "mark", "run", "emit", "ack"}]
  /\ stream \in [Streams -> StreamRec]
  /\ hit \subseteq Jobs

\* The count of running jobs is exact: neither failures nor crashes leak a
\* slot, so that as many jobs as allowed, and no more, run from each queue.
SlotsExact ==
  /\ slots = Cardinality(FromMemory)
  /\ slots <= MaxRunning
  /\ Cardinality(FromRedis) <= MaxRunning

Places == <<request, waiting, active, memory, FromMemory>>

\* A job is in one place at most: in a request, in Redis, or in memory, waiting
\* or taken.
Apart ==
  \A p, q \in 1..5 : p # q => Places[p] \cap Places[q] = {}

\* A submission that has not finished is still on its way, in exactly one
\* place, unless a crash or a failed statement has lost it.
NothingLost ==
  /\ Apart
  /\ \A j \in Jobs :
       status[j] \in {"QUEUED", "RUNNING"} /\ j \notin hit =>
         \E p \in 1..5 : j \in Places[p]

\* With the worker in the web process, a stream listens for the end of a job
\* that is over only if the end came while the stream was being opened.
StreamHears ==
  WorkerInWeb => \A s \in Streams :
    stream[s].pc = "listening" /\ status[stream[s].job] = "DONE" =>
      task[stream[s].job] = "emit" \/ stream[s].missed

-----------------------------------------------------------------------------
(* Fairness: a request that has inserted its row goes on to enqueue it,     *)
(* workers take what waits and get on with it, stalled jobs are looked for, *)
(* and the processes do not crash for ever.                                 *)

Fairness ==
  /\ \A j \in Jobs :
       /\ WF_vars(Enqueue(j)) /\ WF_vars(TakeFromRedis(j)) /\ WF_vars(TakeFromMemory(j))
       /\ WF_vars(Process(j)) /\ WF_vars(Redeliver(j))
  /\ <>[][~Crash]_vars

FairSpec == Spec /\ Fairness

\* Every queued submission comes to an end, but for those lost to a crash or a
\* failed statement, and those that wait in the memory of a process that has no
\* worker.
Finishes ==
  \A j \in Jobs :
    status[j] = "QUEUED" ~>
      \/ status[j] = "DONE" \/ j \in hit
      \/ deployment = "split" /\ j \in memory
=============================================================================
