--------------------------- MODULE MCEventLifecycle ---------------------------
(***************************************************************************)
(* Instances of EventLifecycle for TLC.  A second is two ticks, and the    *)
(* match lasts one second: a pause can be shorter or longer than a second, *)
(* before or after the time is up.                                         *)
(***************************************************************************)
EXTENDS EventLifecycle

CONSTANT a1

\* One match, with two requests, two pauses and four ticks ...
Closely ==
  /\ event.match = 1 /\ create.pc = "idle"
  /\ gated = {} /\ progress = {}

\* ... or two matches and a competitor's work, with one request, one pause and
\* two ticks.
Broadly ==
  /\ now <= 2 /\ pauses <= 1
  /\ \A a \in Requests \ {a1} : req[a] = IdleReq

\* The properties of the runs under this constraint promise nothing once a
\* handler has overwritten a row it had not read, or the seed has rewound the
\* match: TLC checks the step that does so and goes no further.
Orderly == ~stale /\ ~rewound /\ (Closely \/ Broadly)
=============================================================================
