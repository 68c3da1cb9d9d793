------------------------------- MODULE MCDoors -------------------------------
(***************************************************************************)
(* An instance of Gate, with two messages under way and besides their      *)
(* limiter the one of logins, which blocks, of Roster, with two imports,   *)
(* of Catalogue, with two official challenges, and of Director, with two   *)
(* polls.  The parts share nothing, so that they are explored one at a     *)
(* time, each while the others are as they were at first.                  *)
(***************************************************************************)
EXTENDS Gate, Roster, Catalogue, Director, FiniteSets, TLC

CONSTANT login

Limits == Ingest :> 3 @@ login :> 2
Blocks == Ingest :> 0 @@ login :> Window

\* Sound for what Catalogue and Director promise at last, too: the states of their
\* parts have no message and no import, so that no two of them are taken for one.
Symmetric == Permutations(Posts) \cup Permutations(Imports)

LoginAtRest == attempts[login] = NoRecord
GateAtRest ==
  /\ attempts[Ingest] = NoRecord /\ ~fullscreen /\ ~running
  /\ byOwner = Unknown /\ \A q \in Posts : post[q] = Nothing
RosterAtRest ==
  /\ roster = [c \in Codes |-> Absent] /\ standing = "NOT_STARTED"
  /\ \A i \in Imports : import[i] = NoImport
  /\ \A x \in Changes : change[x] = NoChange

ServerAtRest == CatalogueInit /\ setting.production /\ setting.configured

\* Director begins when the server has started for the first time: nothing of
\* Catalogue that is fair can happen then.
ServerReady ==
  /\ setting.production /\ server = "ready" /\ database = "up" /\ step = "none"
  /\ creating = NotCreating /\ faults = 0 /\ edits = 0
  /\ \A c \in Ids : ~challenge[c].tried

DoorsInit == Init /\ RosterInit /\ CatalogueInit /\ DirectorInit

DoorsNext ==
  \/ /\ RosterAtRest /\ ServerAtRest /\ DirectorInit
     /\ Next /\ UNCHANGED <<rosterVars, catalogueVars, directorVars>>
  \/ /\ LoginAtRest /\ GateAtRest /\ ServerAtRest /\ DirectorInit
     /\ RosterNext /\ UNCHANGED <<vars, catalogueVars, directorVars>>
  \/ /\ LoginAtRest /\ GateAtRest /\ RosterAtRest /\ DirectorInit
     /\ CatalogueNext /\ UNCHANGED <<vars, rosterVars, directorVars>>
  \/ /\ LoginAtRest /\ GateAtRest /\ RosterAtRest /\ ServerReady
     /\ DirectorNext /\ UNCHANGED <<vars, rosterVars, catalogueVars>>

DoorsSpec ==
  /\ DoorsInit /\ [][DoorsNext]_<<vars, rosterVars, catalogueVars, directorVars>>
  /\ CatalogueFairness /\ DirectorFairness

\* Two imports at once name two competitors, together, and a competitor is
\* changed while one import is under way.
Few ==
  \A i, j \in Imports :
    i # j /\ import[i] # NoImport /\ import[j] # NoImport
      => /\ Cardinality(Named(i)) + Cardinality(Named(j)) <= 2
         /\ \A x \in Changes : change[x] = NoChange

\* Director promises nothing after a race.
Bounds == (LoginAtRest \/ GateAtRest) /\ Few /\ ~raced
=============================================================================
