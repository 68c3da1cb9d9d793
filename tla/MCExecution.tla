----------------------------- MODULE MCExecution -----------------------------
(***************************************************************************)
(* Instances of Execution, where two jobs compete for one slot, and of     *)
(* Sandbox, where an execution runs on machines that lack this or that.    *)
(* They are explored apart, by the machine: on the bare one no worker      *)
(* starts, so that its jobs are Execution's alone.                         *)
(***************************************************************************)
EXTENDS Execution, Sandbox

Bare ==
  [production |-> FALSE, root |-> FALSE, user |-> "none", dir |-> "open",
   tools |-> FALSE, unshare |-> FALSE, kill |-> FALSE, java |-> "none"]

Production ==
  [production |-> TRUE, root |-> FALSE, user |-> "right", dir |-> "none",
   tools |-> TRUE, unshare |-> TRUE, kill |-> TRUE, java |-> "21"]

SomeHosts ==
  {Bare, Production,
   [Production EXCEPT !.kill = FALSE, !.dir = "open"],
   [Production EXCEPT !.unshare = FALSE],
   [Production EXCEPT !.java = "old"],
   [Production EXCEPT !.dir = "shut"],
   [Production EXCEPT !.user = "other", !.root = TRUE],
   [Production EXCEPT !.production = FALSE, !.root = TRUE, !.java = "none", !.user = "none"],
   [Production EXCEPT !.production = FALSE, !.tools = FALSE]}

OnBare == ~host.root /\ host.java = "none"

WorkerInit ==
  /\ Init /\ SandboxInit
  /\ ~OnBare => deployment = "single"

WorkerNext ==
  \/ OnBare /\ Next /\ UNCHANGED sandboxVars
  \/ ~OnBare /\ SandboxNext /\ UNCHANGED vars

WorkerSpec ==
  /\ WorkerInit /\ [][WorkerNext]_<<vars, sandboxVars>>
  /\ Fairness /\ SandboxFairness
=============================================================================
