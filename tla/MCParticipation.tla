--------------------------- MODULE MCParticipation ---------------------------
(***************************************************************************)
(* Instances of Participation for TLC: two sessions of one competitor with *)
(* two handlers in flight at most (a login, a request, an administrator's  *)
(* request, an end or a beginning of a match that is not yet complete); or *)
(* one session with two requests and a stream.                             *)
(***************************************************************************)
EXTENDS Participation, FiniteSets, TLC

Symmetric == Permutations(Sessions)

TwoInFlight ==
  Cardinality({s \in Sessions : login[s] # NotLoggingIn})
    + Cardinality({r \in Requests : req[r] # NoRequest})
    + Cardinality({admin} \ {NoAdmin}) + Cardinality(ending \cup ({opening} \ {0}))
  <= 2
=============================================================================
