------------------------------- MODULE Sandbox -------------------------------
(***************************************************************************)
(* The worker's start on a machine (verifyExecutionEnvironmentOrThrow) and *)
(* what it does with a program (IsolatedJavaSandbox.execute): a workspace, *)
(* javac and java in it, each a process of its own that a watchdog and a   *)
(* limit on its output kill, and a verdict.                                *)
(*                                                                         *)
(* Output is counted in chunks, stdout and stderr together.  A process has *)
(* closed when it is gone and all it wrote has been read, which is when    *)
(* Node emits 'close'.  What a result says besides its status is left out. *)
(***************************************************************************)
EXTENDS Naturals

CONSTANTS
  Hosts,    \* the machines the worker is started on
  Runs,     \* executions at once
  MaxOutput \* maxOutputBytes, in chunks

Machines ==
  [production : BOOLEAN,                 \* NODE_ENV, and systemd ends what it started
   root       : BOOLEAN,
   user       : {"none", "other", "right"}, \* the sandbox user, and its uid and gid
   dir        : {"none", "shut", "open"},   \* /tmp/sandboxes; shut if not writable
   tools      : BOOLEAN,                 \* unshare and setpriv are installed
   unshare    : BOOLEAN,                 \* ... and may be used
   kill       : BOOLEAN,                 \* CAP_KILL, over processes of the sandbox user
   java       : {"none", "old", "21"}]

ASSUME SandboxAssumption ==
  /\ Hosts \subseteq {m \in Machines : m.root => m.dir # "shut"}
  /\ Hosts # {}
  /\ MaxOutput \in Nat

VARIABLES
  host,      \* the machine
  worker,    \* executionWorker, once its start succeeds
  jdk,       \* cachedJdkInfo
  isolation, \* hasUnshareAndSandboxUser
  run,       \* executions
  workspace, \* their directories; old after ten minutes
  verdict    \* the last result of each, and the process it is about

sandboxVars == <<host, worker, jdk, isolation, run, workspace, verdict>>

NoInfo    == [java |-> "none", isolated |-> FALSE]
IdleRun   == [pc |-> "idle"]
NoVerdict == [status |-> "NONE", of |-> IdleRun]

\* A process that has just been started.
Fresh(step, isolated) ==
  [pc |-> step, isolated |-> isolated, alive |-> TRUE, code |-> 0,
   wrote |-> 0, total |-> 0, kept |-> 0,
   timedOut |-> FALSE, over |-> FALSE, killed |-> FALSE]

SandboxInit ==
  /\ host \in Hosts
  /\ worker = "down" /\ jdk = NoInfo /\ isolation = "unknown"
  /\ run = [e \in Runs |-> IdleRun]
  /\ workspace = [e \in Runs |-> "none"]
  /\ verdict = [e \in Runs |-> NoVerdict]

-----------------------------------------------------------------------------
(* The environment *)

\* verifySandboxIdentity: .valid asks for the directory, too.
Valid(h) == h.user = "right" /\ h.dir = "open"

With(h, u, j) == [h EXCEPT !.user = u, !.java = j]

\* ensureSandboxUser and ensureJdkInstalled: root adds what is missing, which
\* may fail.
Provisioned(h) ==
  {With(h, u, j) :
     u \in {h.user} \cup (IF h.root THEN {"right"} ELSE {}),
     j \in {h.java} \cup (IF h.root /\ h.java = "none" THEN {"21"} ELSE {})}

\* resolveJdkEnvironment
Resolved(h) ==
  [java     |-> h.java,
   isolated |-> h.java # "none" /\ h.tools /\ Valid(h) /\ h.unshare]

\* Does not ask for the directory.
PreflightOfUser(h) ==
  /\ h.java # "none"
  /\ h.production => h.java = "21" /\ h.tools /\ h.user = "right"

\* What verifyExecutionEnvironmentOrThrow lets through.
Preflight(h) ==
  /\ h.java # "none"
  /\ h.production => h.java = "21" /\ h.tools /\ Valid(h)

\* Leaves the directory to the next start.
DirectoryMissing(h) == h

\* ensureSandboxDirectory, after the identity has been looked at
DirectoryEnsured(h) == [h EXCEPT !.dir = IF @ = "none" THEN "open" ELSE @]

Swept == [e \in Runs |-> IF workspace[e] = "old" THEN "none" ELSE workspace[e]]

\* The worker starts, or throws and its process ends.
StartWorker ==
  /\ worker = "down"
  /\ \E h \in Provisioned(host) :
       /\ host' = DirectoryEnsured(h)
       /\ IF Preflight(h)
          THEN worker' = "up" /\ jdk' = Resolved(h) /\ workspace' = Swept
          ELSE UNCHANGED <<worker, jdk, workspace>>
  /\ UNCHANGED <<isolation, run, verdict>>

\* The worker crashes, and what it has started goes on unless systemd ends it.
CrashWorker ==
  /\ worker = "up"
  /\ worker' = "down" /\ jdk' = NoInfo /\ isolation' = "unknown"
  /\ run' = [e \in Runs |->
       IF run[e].pc \in {"compile", "java"} /\ run[e].alive /\ ~host.production
       THEN [run[e] EXCEPT !.pc = "orphan"] ELSE IF run[e].pc = "orphan" THEN run[e] ELSE IdleRun]
  /\ UNCHANGED <<host, workspace, verdict>>

\* The machine restarts, with an empty /tmp.
Reboot ==
  /\ host' = [host EXCEPT !.dir = "none"]
  /\ worker' = "down" /\ jdk' = NoInfo /\ isolation' = "unknown"
  /\ run' = [e \in Runs |-> IdleRun]
  /\ workspace' = [e \in Runs |-> "none"]
  /\ UNCHANGED verdict

-----------------------------------------------------------------------------
(* An execution *)

\* isIsolationSupported: asked once
Supported == IF isolation = "unknown" THEN jdk.isolated ELSE isolation = "yes"

Answer(e, status, of) ==
  verdict' = [verdict EXCEPT ![e] = [status |-> status, of |-> of]]

\* validateSource refuses, before there is a workspace.
Refuse(e) ==
  /\ worker = "up" /\ run[e].pc = "idle"
  /\ Answer(e, "COMPILE_ERROR", IdleRun)
  /\ UNCHANGED <<host, worker, jdk, isolation, run, workspace>>

\* A workspace cannot be made: the disk is full or the directory not writable.
NoRoom(e) ==
  /\ worker = "up" /\ run[e].pc = "idle"
  /\ Answer(e, "SANDBOX_ERROR", IdleRun)
  /\ UNCHANGED <<host, worker, jdk, isolation, run, workspace>>

\* The workspace is made, with /tmp/sandboxes if need be, and javac started.
Begin(e) ==
  /\ worker = "up" /\ run[e].pc = "idle" /\ workspace[e] = "none"
  /\ host.dir # "shut"
  /\ host' = [host EXCEPT !.dir = "open"]
  /\ workspace' = [workspace EXCEPT ![e] = "fresh"]
  /\ isolation' = IF Supported THEN "yes" ELSE "no"
  /\ run' = [run EXCEPT ![e] = Fresh("compile", Supported)]
  /\ UNCHANGED <<worker, jdk, verdict>>

Steps == {"compile", "java"}

\* A result, and the workspace goes.
Finish(e, status) ==
  /\ Answer(e, status, run[e])
  /\ run' = [run EXCEPT ![e] = IdleRun]
  /\ workspace' = [workspace EXCEPT ![e] = "none"]

\* 'error': there is no such program, or no process can be had.
SpawnFails(e) ==
  /\ run[e] \in {Fresh(s, b) : s \in Steps, b \in BOOLEAN}
  /\ Finish(e, "SANDBOX_ERROR")
  /\ UNCHANGED <<host, worker, jdk, isolation>>

\* The process writes; the bound is the first chunk too many.
Write(e) ==
  /\ run[e].pc \in Steps \cup {"orphan"} /\ run[e].alive
  /\ run[e].wrote <= MaxOutput
  /\ run' = [run EXCEPT ![e].wrote = @ + 1]
  /\ UNCHANGED <<host, worker, jdk, isolation, workspace, verdict>>

\* The process ends by itself, or the kernel ends it (null, for Node).  The
\* code of a killed one is that of unshare, which the signal always reaches.
Exit(e, code) ==
  /\ run[e].pc \in Steps \cup {"orphan"} /\ run[e].alive
  /\ run' = [run EXCEPT ![e] =
       IF @.pc = "orphan" THEN IdleRun
       ELSE [@ EXCEPT !.alive = FALSE, !.code = IF run[e].killed THEN run[e].code ELSE code]]
  /\ UNCHANGED <<host, worker, jdk, isolation, workspace, verdict>>

Null == 999

\* A SIGTERM, which a program may ignore.
CleanedPolitely(r) == IF r.killed THEN r ELSE [r EXCEPT !.killed = TRUE]

\* executeFullCleanup, once.  Without CAP_KILL only unshare is killed, and the
\* program in it goes on.
Cleaned(r) ==
  IF r.killed THEN r
  ELSE [r EXCEPT !.killed = TRUE,
                 !.alive = @ /\ r.isolated /\ ~host.kill,
                 !.code = IF r.alive THEN Null ELSE @]

\* A chunk arrives; the one that is too much is not kept.
OnData(e) ==
  /\ run[e].pc \in Steps
  /\ run[e].total < run[e].wrote
  /\ LET r == [run[e] EXCEPT !.total = @ + 1] IN
     run' = [run EXCEPT ![e] =
       IF r.total > MaxOutput THEN Cleaned([r EXCEPT !.over = TRUE])
       ELSE [r EXCEPT !.kept = @ + 1]]
  /\ UNCHANGED <<host, worker, jdk, isolation, workspace, verdict>>

\* The timer is cleared only when the process has closed.
Watchdog(e) ==
  /\ run[e].pc \in Steps /\ ~run[e].timedOut
  /\ run' = [run EXCEPT ![e] = Cleaned([@ EXCEPT !.timedOut = TRUE])]
  /\ UNCHANGED <<host, worker, jdk, isolation, workspace, verdict>>

ExitCode(r) ==
  IF r.code # Null THEN r.code ELSE IF r.timedOut \/ r.over THEN 137 ELSE 1

Aborted == 134

\* 134 also if the text of the output names an OutOfMemoryError.
Judged(r) ==
  IF r.over THEN "OUTPUT_LIMIT"
  ELSE IF r.timedOut THEN "TIMEOUT"
  ELSE IF ExitCode(r) = Aborted THEN "MEMORY_LIMIT"
  ELSE IF ExitCode(r) # 0 THEN "RUNTIME_ERROR"
  ELSE "SUCCESS"

\* 'exit': what is still in the pipe is lost.
HasExited(r) == ~r.alive

HasClosed(r) == ~r.alive /\ r.total = r.wrote

OnClose(e) ==
  /\ run[e].pc \in Steps /\ HasClosed(run[e])
  /\ \/ /\ run[e].pc = "compile" /\ (ExitCode(run[e]) # 0 \/ run[e].timedOut)
        /\ Finish(e, "COMPILE_ERROR")
     \/ /\ run[e].pc = "compile" /\ ExitCode(run[e]) = 0 /\ ~run[e].timedOut
        /\ run' = [run EXCEPT ![e] = Fresh("java", @.isolated)]
        /\ UNCHANGED <<workspace, verdict>>
     \/ run[e].pc = "java" /\ Finish(e, Judged(run[e]))
  /\ UNCHANGED <<host, worker, jdk, isolation>>

\* Ten minutes pass for a workspace, which the two watchdogs leave to those of
\* crashed workers and of programs they could not kill.
Grow(e) ==
  /\ workspace[e] = "fresh"
  /\ run[e].pc \in Steps => run[e].timedOut /\ run[e].alive
  /\ workspace' = [workspace EXCEPT ![e] = "old"]
  /\ UNCHANGED <<host, worker, jdk, isolation, run, verdict>>

\* cleanupStaleWorkspaces, every fifteen minutes
Sweep ==
  /\ worker = "up"
  /\ workspace' = Swept
  /\ UNCHANGED <<host, worker, jdk, isolation, run, verdict>>

Execute(e) == OnData(e) \/ Watchdog(e) \/ OnClose(e)

SandboxNext ==
  \/ StartWorker \/ CrashWorker \/ Reboot \/ Sweep
  \/ \E e \in Runs :
       \/ Refuse(e) \/ NoRoom(e) \/ Begin(e) \/ SpawnFails(e)
       \/ Write(e) \/ \E code \in {0, 1, Aborted, Null} : Exit(e, code)
       \/ Execute(e) \/ Grow(e)

SandboxSpec == SandboxInit /\ [][SandboxNext]_sandboxVars

-----------------------------------------------------------------------------
(* Properties *)

\* A verdict says what has become of the program: a success has ended by itself
\* with 0, and every result holds all that was written but for a program over the
\* limit, which is exactly what OUTPUT_LIMIT says.
Faithful(v) ==
  v.of.pc = "java" /\ v.status # "SANDBOX_ERROR" =>
    /\ ~v.of.alive
    /\ v.status = "OUTPUT_LIMIT" <=> v.of.wrote > MaxOutput
    /\ v.status # "OUTPUT_LIMIT" => v.of.kept = v.of.wrote
    /\ v.status = "SUCCESS" => v.of.code = 0 /\ ~v.of.killed
    /\ v.of.killed => v.status \in {"OUTPUT_LIMIT", "TIMEOUT"}

\* Verdicts are faithful, and a program that has its time yet has its workspace:
\* no sweep takes it away.
VerdictFaithful ==
  \A e \in Runs :
    /\ Faithful(verdict[e])
    /\ run[e].pc \in Steps /\ ~run[e].timedOut => workspace[e] # "none"

\* What production's preflight has let through is a JDK 21, and programs run
\* isolated there if the kernel allows it: neither a missing directory, nor a
\* user that has just been created, nor an answer cached before makes the worker
\* fall back to running them without.
ProductionIsolates ==
  host.production /\ worker = "up" =>
    /\ jdk = [java |-> "21", isolated |-> host.unshare]
    /\ \A e \in Runs : run[e].pc \in Steps => run[e].isolated = host.unshare

-----------------------------------------------------------------------------
(* Fairness: systemd starts the worker again, timers fire and Node's events  *)
(* are delivered.  A program need not end, nor a worker crash; the machine   *)
(* is not restarted for ever.                                                *)

SandboxFairness ==
  /\ WF_sandboxVars(StartWorker)
  /\ \A e \in Runs : WF_sandboxVars(Execute(e))
  /\ <>[][~Reboot]_sandboxVars

\* Every execution ends whatever its program does, if the worker may kill it.
ExecutionEnds ==
  \A e \in Runs :
    run[e].pc \in Steps /\ (host.kill \/ ~run[e].isolated) ~> run[e].pc \notin Steps

Fit(h) == Preflight([h EXCEPT !.dir = IF @ = "none" THEN "open" ELSE @])

\* On a machine that has what production asks for, the worker comes up, although
\* its first start after each restart of the machine fails for want of a
\* directory.
ComesUp == Fit(host) ~> worker = "up"
=============================================================================
