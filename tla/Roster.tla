------------------------------- MODULE Roster -------------------------------
(***************************************************************************)
(* The competitors, and the import of a list of them: validated first,     *)
(* then, in confirmCsvImport, validated again and written in a transaction *)
(* that looks every row up and does not lock what it only reads.  Besides, *)
(* single competitors are deactivated and reactivated, again in a          *)
(* transaction that does not repeat the check made before it.              *)
(*                                                                         *)
(* A row is found by its code. An address that is known under another code *)
(* only changes what the preview says.                                     *)
(***************************************************************************)
EXTENDS Naturals

CONSTANTS
  Codes,   \* participant codes, which the table keeps unique
  Details, \* name, address and college, as far as they are compared
  Imports, \* imports that can be under way at once
  Changes  \* deactivations and reactivations that can be under way at once

VARIABLES
  roster,   \* participants, by code
  standing, \* the event: NOT_STARTED, ACTIVE (running or paused) or ENDED
  import,   \* the imports under way
  change    \* the deactivations and reactivations under way

rosterVars == <<roster, standing, import, change>>

Absent == [active |-> FALSE]
Listed(d, b) == [details |-> d, active |-> b]

NoImport == [pc |-> "idle"]
NoChange == [under |-> FALSE]
Writing(i) == import[i].pc \in {"find", "write"}

RosterInit ==
  /\ roster = [c \in Codes |-> Absent]
  /\ standing = "NOT_STARTED"
  /\ import = [i \in Imports |-> NoImport]
  /\ change = [x \in Changes |-> NoChange]

-----------------------------------------------------------------------------
(* The administrator's list *)

\* Lists that are not empty, with each code once; any other is refused.
Lists == UNION {[cs -> Details] : cs \in SUBSET Codes \ {{}}}
Named(i) == DOMAIN import[i].list

Becomes(i, r) == import' = [import EXCEPT ![i] = r]

\* validateCsvImport: the event is read first, ...
Upload(i) ==
  /\ import[i] = NoImport
  /\ standing # "ACTIVE"
  /\ \E l \in Lists : Becomes(i,
       [pc |-> "read", list |-> l, same |-> {}, todo |-> {}, row |-> Absent,
        mine |-> [c \in Codes |-> Absent], touched |-> {}, late |-> FALSE])
  /\ UNCHANGED <<roster, standing, change>>

\* ... and then all competitors: a row is unchanged if it is active as it is.
Compare(i) ==
  /\ import[i].pc = "read"
  /\ Becomes(i, [import[i] EXCEPT
       !.pc = "begin", !.touched = {},
       !.same = {c \in Named(i) : roster[c] = Listed(import[i].list[c], TRUE)}])
  /\ UNCHANGED <<roster, standing, change>>

-----------------------------------------------------------------------------
(* The transaction *)

\* Does not look at the event again.
BeginUnchecked(i) ==
  /\ import[i].pc = "begin"
  /\ Becomes(i, [import[i] EXCEPT !.pc = "find", !.todo = Named(i)])
  /\ UNCHANGED <<roster, standing, change>>

Begin(i) ==
  /\ import[i].pc = "begin"
  /\ standing # "ACTIVE"
  /\ Becomes(i, [import[i] EXCEPT !.pc = "find", !.todo = Named(i)])
  /\ UNCHANGED <<roster, standing, change>>

RefuseActive(i) ==
  /\ import[i].pc = "begin"
  /\ standing = "ACTIVE"
  /\ Becomes(i, NoImport)
  /\ UNCHANGED <<roster, standing, change>>

\* What the others have not committed cannot be seen, but it is locked.
Locked(i, c) == \E j \in Imports \ {i} : Writing(j) /\ import[j].mine[c] # Absent

\* An active row is left as it is.
LeavesActive(i, c) == roster[c].active

\* An active row that was the same is left as it is.
Leaves(i, c) == roster[c].active /\ c \in import[i].same

\* The SELECT of a row.
FindRow(i) ==
  /\ import[i].pc = "find"
  /\ \E c \in import[i].todo : Becomes(i,
       IF Leaves(i, c)
       THEN [import[i] EXCEPT !.todo = @ \ {c}]
       ELSE [import[i] EXCEPT !.todo = @ \ {c}, !.pc = "write",
                              !.row = [code |-> c, insert |-> roster[c] = Absent]])
  /\ UNCHANGED <<roster, standing, change>>

\* The UPDATE or INSERT, which waits for whoever has written the row; an INSERT of
\* a code that has been committed meanwhile fails.
WriteRow(i) ==
  LET c == import[i].row.code
  IN /\ import[i].pc = "write"
     /\ ~Locked(i, c)
     /\ IF import[i].row.insert /\ roster[c] # Absent
        THEN Becomes(i, NoImport)
        ELSE Becomes(i, [import[i] EXCEPT
               !.pc = "find", !.row = Absent, !.mine[c] = Listed(import[i].list[c], TRUE)])
     /\ UNCHANGED <<roster, standing, change>>

\* An import, once others have written cs.
Touched(j, cs) == [import[j] EXCEPT !.touched = @ \cup (cs \cap Named(j))]

Written(i) == {c \in Codes : import[i].mine[c] # Absent}

CommitImport(i) ==
  /\ import[i].pc = "find" /\ import[i].todo = {}
  /\ roster' = [c \in Codes |-> IF c \in Written(i) THEN import[i].mine[c] ELSE roster[c]]
  /\ import' = [j \in Imports |->
       IF j = i \/ import[j] = NoImport THEN NoImport ELSE Touched(j, Written(i))]
  /\ UNCHANGED <<standing, change>>

\* Any statement may fail, as does one of two imports that wait for each other.
RollBack(i) ==
  /\ Writing(i)
  /\ Becomes(i, NoImport)
  /\ UNCHANGED <<roster, standing, change>>

\* The last statement, the audit row, may fail as well. That is caught, so that the
\* transaction is committed, which PostgreSQL turns into a rollback: nothing is
\* written, and the administrator is told that everything is.
AuditFails(i) ==
  /\ import[i].pc = "find" /\ import[i].todo = {}
  /\ Becomes(i, NoImport)
  /\ UNCHANGED <<roster, standing, change>>

-----------------------------------------------------------------------------
(* Around it *)

\* deactivateParticipant and reactivateParticipant look at the event and for the
\* competitor first: neither looks at what the competitor's status is.
CheckStatus(x, c, b) ==
  /\ change[x] = NoChange
  /\ standing = "NOT_STARTED"
  /\ roster[c] # Absent
  /\ change' = [change EXCEPT ![x] = [under |-> TRUE, code |-> c, active |-> b, late |-> FALSE]]
  /\ UNCHANGED <<roster, standing, import>>

\* Their transactions, which look at neither again, wait for an import that has
\* written the row.
SetActive(x) ==
  LET c == change[x].code
  IN /\ change[x] # NoChange
     /\ \A j \in Imports : ~(Writing(j) /\ import[j].mine[c] # Absent)
     /\ roster' = [roster EXCEPT ![c].active = change[x].active]
     /\ import' = [j \in Imports |-> IF import[j] = NoImport THEN NoImport ELSE Touched(j, {c})]
     /\ change' = [change EXCEPT ![x] = NoChange]
     /\ UNCHANGED standing

\* START needs a competitor, and takes no lock that an import would hold.
StartMatch ==
  /\ standing = "NOT_STARTED"
  /\ \E c \in Codes : roster[c].active
  /\ standing' = "ACTIVE"
  /\ import' = [i \in Imports |-> IF Writing(i) THEN [import[i] EXCEPT !.late = TRUE] ELSE import[i]]
  /\ change' = [x \in Changes |->
       IF change[x] = NoChange THEN NoChange ELSE [change[x] EXCEPT !.late = TRUE]]
  /\ UNCHANGED roster

EndMatch ==
  /\ standing = "ACTIVE"
  /\ standing' = "ENDED"
  /\ UNCHANGED <<roster, import, change>>

OpenMatch ==
  /\ standing = "ENDED"
  /\ standing' = "NOT_STARTED"
  /\ UNCHANGED <<roster, import, change>>

RosterNext ==
  \/ \E i \in Imports :
       \/ Upload(i) \/ Compare(i) \/ Begin(i) \/ RefuseActive(i)
       \/ FindRow(i) \/ WriteRow(i) \/ CommitImport(i) \/ RollBack(i) \/ AuditFails(i)
  \/ \E x \in Changes : SetActive(x) \/ \E c \in Codes, b \in BOOLEAN : CheckStatus(x, c, b)
  \/ StartMatch \/ EndMatch \/ OpenMatch

RosterSpec == RosterInit /\ [][RosterNext]_rosterVars

-----------------------------------------------------------------------------
(* Properties *)

RowRec == {Absent} \cup [details : Details, active : BOOLEAN]

ImportRec ==
  {NoImport} \cup
  [pc : {"read", "begin", "find", "write"},
   list : Lists,
   same : SUBSET Codes, todo : SUBSET Codes,
   row : {Absent} \cup [code : Codes, insert : BOOLEAN],
   mine : [Codes -> RowRec], touched : SUBSET Codes, late : BOOLEAN]

ChangeRec == {NoChange} \cup [under : {TRUE}, code : Codes, active : BOOLEAN, late : BOOLEAN]

\* The types of the variables.
RosterType ==
  /\ roster \in [Codes -> RowRec]
  /\ standing \in {"NOT_STARTED", "ACTIVE", "ENDED"}
  /\ import \in [Imports -> ImportRec]
  /\ change \in [Changes -> ChangeRec]

\* While a match runs the list of competitors is changed by nobody who came after the
\* start: only by an import whose transaction had begun before it, or a deactivation
\* or reactivation that had been checked before it.
Lockdown ==
  [][ standing = "ACTIVE" =>
        \/ UNCHANGED roster
        \/ \E i \in Imports : import[i] # NoImport /\ import[i].late /\ CommitImport(i)
        \/ \E x \in Changes : change[x] # NoChange /\ change[x].late /\ SetActive(x) ]_rosterVars

\* An import that commits leaves every competitor on its list active and as the
\* list says, unless somebody else has changed that competitor meanwhile.
Applied ==
  [][ \A i \in Imports : CommitImport(i) =>
        \A c \in Named(i) :
          roster'[c] = Listed(import[i].list[c], TRUE) \/ c \in import[i].touched ]_rosterVars
=============================================================================
