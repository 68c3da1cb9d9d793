------------------------ MODULE Administration_proofs ------------------------
(***************************************************************************)
(* Theorems about what administrators work with: Roster, for any           *)
(* competitors, details and number of imports at once; Catalogue, for any  *)
(* challenges, rounds, migrations, faults and edits; and Director, for any *)
(* number of matches and polls.                                            *)
(***************************************************************************)
EXTENDS Roster, Catalogue, Director, TLAPS

-----------------------------------------------------------------------------
(* Roster *)

RowType == roster \in [Codes -> RowRec]
EntryType == import \in [Imports -> ImportRec]

LEMMA ListedType ==
  ASSUME NEW d \in Details, NEW b \in BOOLEAN
  PROVE  /\ Listed(d, b) \in RowRec
         /\ Listed(d, b) # Absent
         /\ Listed(d, b).active = b
  BY DEF Listed, RowRec, Absent

LEMMA AbsentType == Absent \in RowRec /\ Absent.active = FALSE
  BY DEF Absent, RowRec

LEMMA ListType ==
  ASSUME NEW l \in Lists
  PROVE  /\ DOMAIN l \subseteq Codes
         /\ \A c \in DOMAIN l : l[c] \in Details
  BY DEF Lists

ChangeUnder == [under : {TRUE}, code : Codes, active : BOOLEAN, late : BOOLEAN]

LEMMA NoChangeType == ChangeRec = {NoChange} \cup ChangeUnder /\ NoChange \notin ChangeUnder
  BY DEF ChangeRec, ChangeUnder, NoChange

LEMMA NoImportType == NoImport \in ImportRec /\ NoImport.pc = "idle"
  BY DEF NoImport, ImportRec

\* An import under way, ...
UnderWay ==
  [pc : {"read", "begin", "find", "write"},
   list : Lists,
   same : SUBSET Codes, todo : SUBSET Codes,
   row : {Absent} \cup [code : Codes, insert : BOOLEAN],
   mine : [Codes -> RowRec], touched : SUBSET Codes, late : BOOLEAN]

LEMMA UnderWayType == ImportRec = {NoImport} \cup UnderWay /\ NoImport \notin UnderWay
  BY DEF ImportRec, UnderWay, NoImport

\* ... and what is known of it.
LEMMA Going ==
  ASSUME EntryType, NEW i \in Imports, import[i].pc # "idle" \/ import[i] # NoImport
  PROVE  /\ import[i] \in UnderWay
         /\ Named(i) \subseteq Codes
         /\ \A c \in Named(i) : import[i].list[c] \in Details
<1>1. import[i] \in UnderWay
  BY NoImportType, UnderWayType DEF EntryType
<1>2. import[i].list \in Lists
  BY <1>1 DEF UnderWay
<1> QED
  BY <1>1, <1>2, ListType DEF Named

-----------------------------------------------------------------------------
(* The invariant *)

\* An import that is under way has to do with the rows of its list only, has written
\* them as the list says, and has left only those that were the same; it is late
\* if a match runs while it writes.
Sound(r) ==
  /\ r.todo \subseteq DOMAIN r.list
  /\ r.pc = "write" => r.row.code \in DOMAIN r.list
  /\ \A c \in Codes : r.mine[c] # Absent => c \in DOMAIN r.list /\ r.mine[c] = Listed(r.list[c], TRUE)
  /\ r.pc # "read" =>
       /\ r.same \subseteq DOMAIN r.list
       /\ \A c \in r.same : roster[c] = Listed(r.list[c], TRUE) \/ c \in r.touched
  /\ r.pc \in {"find", "write"} =>
       /\ standing = "ACTIVE" => r.late
       /\ \A c \in DOMAIN r.list :
            c \in r.todo \/ (r.pc = "write" /\ r.row.code = c) \/ r.mine[c] # Absent \/ c \in r.same

StandingType == standing \in {"NOT_STARTED", "ACTIVE", "ENDED"}

ImportsSound == \A i \in Imports : import[i] # NoImport => Sound(import[i])

\* A change that is under way while a match runs was so before the start, and is of
\* a competitor who is on the list.
ChangeType == change \in [Changes -> ChangeRec]

ChangesSound ==
  \A x \in Changes : change[x] # NoChange =>
    /\ roster[change[x].code] # Absent
    /\ standing = "ACTIVE" => change[x].late

RosterInv ==
  RowType /\ StandingType /\ EntryType /\ ImportsSound /\ ChangeType /\ ChangesSound

LEMMA InvInit == RosterInit => RosterInv
  BY NoImportType, NoChangeType, AbsentType
  DEF RosterInit, RosterInv, RowType, StandingType, EntryType, ImportsSound, ChangeType, ChangesSound

\* A step of one import that touches nothing but itself.
LEMMA OwnMove ==
  ASSUME RosterInv, NEW i \in Imports, NEW r, r = NoImport \/ (r \in UnderWay /\ Sound(r)),
         Becomes(i, r), UNCHANGED <<roster, standing, change>>
  PROVE  RosterInv'
<1>1. EntryType'
  BY UnderWayType DEF RosterInv, EntryType, Becomes
<1>2. ASSUME NEW j \in Imports, import'[j] # NoImport PROVE Sound(import[j])'
  <2>1. Sound(import'[j])
    <3>1. CASE j = i
      BY <1>2, <3>1 DEF RosterInv, EntryType, Becomes
    <3>2. CASE j # i
      BY <1>2, <3>2 DEF RosterInv, EntryType, ImportsSound, Becomes
    <3> QED
      BY <3>1, <3>2
  <2> QED
    BY <2>1 DEF Sound
<1> QED
  BY <1>1, <1>2 DEF RosterInv, RowType, StandingType, ImportsSound, ChangeType, ChangesSound

LEMMA UploadStep ==
  ASSUME RosterInv, NEW i \in Imports, Upload(i) PROVE RosterInv'
<1>1. PICK l \in Lists : Becomes(i,
       [pc |-> "read", list |-> l, same |-> {}, todo |-> {}, row |-> Absent,
        mine |-> [c \in Codes |-> Absent], touched |-> {}, late |-> FALSE])
  BY DEF Upload
<1>2. [c \in Codes |-> Absent] \in [Codes -> RowRec]
  BY AbsentType
<1> DEFINE r == [pc |-> "read", list |-> l, same |-> {}, todo |-> {}, row |-> Absent,
       mine |-> [c \in Codes |-> Absent], touched |-> {}, late |-> FALSE]
<1>3. r \in UnderWay
  BY <1>2 DEF UnderWay
<1>4. Sound(r)
  BY DEF Sound
<1> QED
  BY <1>1, <1>3, <1>4, OwnMove DEF Upload

LEMMA CompareStep ==
  ASSUME RosterInv, NEW i \in Imports, Compare(i) PROVE RosterInv'
<1>0. import[i] \in UnderWay /\ Named(i) \subseteq Codes /\ Sound(import[i]) /\ import[i].pc = "read"
  BY Going, NoImportType DEF Compare, RosterInv, ImportsSound
<1> DEFINE r == [import[i] EXCEPT
       !.pc = "begin", !.touched = {},
       !.same = {c \in Named(i) : roster[c] = Listed(import[i].list[c], TRUE)}]
<1>1. r \in UnderWay
  BY <1>0 DEF UnderWay
<1>2. Sound(r)
  BY <1>0 DEF Sound, Named, UnderWay
<1>3. Becomes(i, r)
  BY DEF Compare
<1> QED
  BY <1>1, <1>2, <1>3, OwnMove DEF Compare

LEMMA BeginStep ==
  ASSUME RosterInv, NEW i \in Imports, Begin(i) PROVE RosterInv'
<1>0. import[i] \in UnderWay /\ Named(i) \subseteq Codes /\ Sound(import[i]) /\ import[i].pc = "begin"
  BY Going, NoImportType DEF Begin, RosterInv, ImportsSound
<1> DEFINE r == [import[i] EXCEPT !.pc = "find", !.todo = Named(i)]
<1>1. r \in UnderWay
  BY <1>0 DEF UnderWay
<1>2. Sound(r)
  BY <1>0 DEF Sound, Named, UnderWay, Begin
<1>3. Becomes(i, r)
  BY DEF Begin
<1> QED
  BY <1>1, <1>2, <1>3, OwnMove DEF Begin

LEMMA FindStep ==
  ASSUME RosterInv, NEW i \in Imports, FindRow(i) PROVE RosterInv'
<1>0. import[i] \in UnderWay /\ Sound(import[i]) /\ import[i].pc = "find"
  BY Going, NoImportType DEF FindRow, RosterInv, ImportsSound
<1>1. PICK c \in import[i].todo : Becomes(i,
       IF Leaves(i, c)
       THEN [import[i] EXCEPT !.todo = @ \ {c}]
       ELSE [import[i] EXCEPT !.todo = @ \ {c}, !.pc = "write",
                              !.row = [code |-> c, insert |-> roster[c] = Absent]])
  BY DEF FindRow
<1>2. c \in Codes /\ c \in DOMAIN import[i].list
  BY <1>0 DEF UnderWay, Sound
<1>3. CASE Leaves(i, c)
  <2> DEFINE r == [import[i] EXCEPT !.todo = @ \ {c}]
  <2>1. r \in UnderWay
    BY <1>0 DEF UnderWay
  <2>2. Sound(r)
    BY <1>0, <1>3 DEF Sound, UnderWay, Leaves
  <2> QED
    BY <1>1, <1>3, <2>1, <2>2, OwnMove DEF FindRow
<1>4. CASE ~Leaves(i, c)
  <2> DEFINE r == [import[i] EXCEPT !.todo = @ \ {c}, !.pc = "write",
                                    !.row = [code |-> c, insert |-> roster[c] = Absent]]
  <2>1. r \in UnderWay
    BY <1>0, <1>2 DEF UnderWay
  <2>2. Sound(r)
    BY <1>0, <1>2 DEF Sound, UnderWay
  <2> QED
    BY <1>1, <1>4, <2>1, <2>2, OwnMove DEF FindRow
<1> QED
  BY <1>3, <1>4

LEMMA WriteStep ==
  ASSUME RosterInv, NEW i \in Imports, WriteRow(i) PROVE RosterInv'
<1>0. /\ import[i] \in UnderWay /\ Sound(import[i]) /\ import[i].pc = "write"
      /\ \A c \in Named(i) : import[i].list[c] \in Details
      /\ Named(i) \subseteq Codes
  BY Going, NoImportType DEF WriteRow, RosterInv, ImportsSound
<1> DEFINE c == import[i].row.code
           new == Listed(import[i].list[c], TRUE)
           r == [import[i] EXCEPT !.pc = "find", !.row = Absent, !.mine[c] = new]
<1>1. c \in Codes /\ c \in Named(i)
  BY <1>0 DEF Sound, Named
<1>2. new \in RowRec /\ new # Absent
  BY <1>0, <1>1, ListedType
<1>3. CASE Becomes(i, NoImport)
  BY <1>3, OwnMove DEF WriteRow
<1>4. CASE Becomes(i, r)
  <2> HIDE DEF c
  <2>1. r \in UnderWay
    BY <1>0, <1>1, <1>2 DEF UnderWay
  <2>2. /\ r.pc = "find" /\ r.list = import[i].list /\ r.todo = import[i].todo
        /\ r.same = import[i].same /\ r.touched = import[i].touched /\ r.late = import[i].late
        /\ r.mine = [import[i].mine EXCEPT ![c] = new]
        /\ import[i].mine \in [Codes -> RowRec]
    BY <1>0 DEF UnderWay
  <2>c. import[i].row.code = c
    BY DEF c
  <2> HIDE DEF r, new
  <2>3. Sound(r)
    <3>1. \A d \in Codes : r.mine[d] = IF d = c THEN new ELSE import[i].mine[d]
      BY <2>2
    <3>2. \A d \in Codes : r.mine[d] # Absent =>
            d \in DOMAIN r.list /\ r.mine[d] = Listed(r.list[d], TRUE)
      BY <1>0, <1>1, <2>2, <3>1 DEF Sound, Named, new
    <3>3. \A d \in DOMAIN r.list : d \in r.todo \/ r.mine[d] # Absent \/ d \in r.same
      BY <1>0, <1>1, <1>2, <2>2, <2>c, <3>1 DEF Sound, Named
    <3> QED
      BY <1>0, <2>2, <3>2, <3>3 DEF Sound
  <2> QED
    BY <1>4, <2>1, <2>3, OwnMove DEF WriteRow
<1> QED
  BY <1>3, <1>4 DEF WriteRow

LEMMA TouchedType ==
  ASSUME EntryType, NEW i \in Imports, NEW cs \in SUBSET Codes, import[i] # NoImport
  PROVE  Touched(i, cs) \in UnderWay
<1>1. import[i] \in UnderWay
  BY Going
<1> QED
  BY <1>1 DEF Touched, UnderWay

\* Others write some rows, and take back nobody's lateness.
LEMMA OthersMove ==
  ASSUME RosterInv, NEW i \in Imports, import[i] # NoImport, NEW cs \in SUBSET Codes,
         \A c \in Codes \ cs : roster'[c] = roster[c],
         standing' = standing, import'[i] = Touched(i, cs)
  PROVE  Sound(import[i])'
<1>1. import[i] \in UnderWay /\ Sound(import[i])
  BY Going DEF RosterInv, ImportsSound
<1>2. /\ import'[i] = [import[i] EXCEPT !.touched = @ \cup (cs \cap DOMAIN import[i].list)]
  BY DEF Touched, Named
<1>3. /\ import'[i].pc = import[i].pc /\ import'[i].list = import[i].list
      /\ import'[i].todo = import[i].todo /\ import'[i].row = import[i].row
      /\ import'[i].same = import[i].same /\ import'[i].mine = import[i].mine
      /\ import'[i].late = import[i].late
      /\ import'[i].touched = import[i].touched \cup (cs \cap DOMAIN import[i].list)
  BY <1>1, <1>2 DEF UnderWay
<1>4. import[i].pc # "read" =>
        \A c \in import[i].same :
          roster'[c] = Listed(import[i].list[c], TRUE) \/ c \in import'[i].touched
  BY <1>1, <1>3 DEF Sound, UnderWay
<1> QED
  BY <1>1, <1>3, <1>4 DEF Sound

LEMMA CommitStep ==
  ASSUME RosterInv, NEW i \in Imports, CommitImport(i) PROVE RosterInv'
<1>0. import[i] \in UnderWay
  BY Going, NoImportType DEF CommitImport, RosterInv
<1>1. RowType'
  BY <1>0 DEF CommitImport, RosterInv, RowType, Written, UnderWay
<1>2. EntryType'
  BY TouchedType, UnderWayType DEF CommitImport, RosterInv, EntryType, Written
<1>3. ASSUME NEW j \in Imports, import'[j] # NoImport PROVE Sound(import[j])'
  <2>1. import[j] # NoImport /\ import'[j] = Touched(j, Written(i))
    BY <1>3 DEF CommitImport
  <2>2. Written(i) \subseteq Codes /\ \A c \in Codes \ Written(i) : roster'[c] = roster[c]
    BY DEF CommitImport, Written
  <2> QED
    BY <2>1, <2>2, OthersMove DEF CommitImport
<1>4. \A c \in Codes : roster[c] # Absent => roster'[c] # Absent
  BY DEF CommitImport, Written
<1>5. ChangesSound'
  <2> SUFFICES ASSUME NEW x \in Changes, change[x] # NoChange
               PROVE  /\ roster'[change[x].code] # Absent
                      /\ standing = "ACTIVE" => change[x].late
    BY DEF CommitImport, ChangesSound
  <2>1. change[x].code \in Codes
    BY NoChangeType DEF RosterInv, ChangeType, ChangeUnder
  <2> QED
    BY <1>4, <2>1 DEF RosterInv, ChangesSound
<1> QED
  BY <1>1, <1>2, <1>3, <1>5 DEF RosterInv, StandingType, ImportsSound, ChangeType, CommitImport

LEMMA CheckStatusStep ==
  ASSUME RosterInv, NEW x \in Changes, NEW c \in Codes, NEW b \in BOOLEAN, CheckStatus(x, c, b)
  PROVE  RosterInv'
<1> DEFINE r == [under |-> TRUE, code |-> c, active |-> b, late |-> FALSE]
<1>1. r \in ChangeUnder /\ r.code = c
  BY DEF ChangeUnder
<1>2. /\ change' = [change EXCEPT ![x] = r] /\ UNCHANGED <<roster, standing, import>>
      /\ standing = "NOT_STARTED" /\ roster[c] # Absent
  BY DEF CheckStatus
<1> HIDE DEF r
<1>3. ChangeType' /\ ChangesSound'
  BY <1>1, <1>2, NoChangeType DEF RosterInv, ChangeType, ChangesSound
<1>4. ImportsSound'
  BY <1>2 DEF RosterInv, ImportsSound, Sound
<1> QED
  BY <1>2, <1>3, <1>4 DEF RosterInv, RowType, StandingType, EntryType

LEMMA SetActiveStep ==
  ASSUME RosterInv, NEW x \in Changes, SetActive(x) PROVE RosterInv'
<1> DEFINE c == change[x].code
<1>0. /\ c \in Codes /\ change[x].active \in BOOLEAN /\ roster[c] # Absent
  BY NoChangeType DEF SetActive, RosterInv, ChangeType, ChangesSound, ChangeUnder
<1>1. /\ roster' = [roster EXCEPT ![c].active = change[x].active]
      /\ import' = [j \in Imports |-> IF import[j] = NoImport THEN NoImport ELSE Touched(j, {c})]
      /\ change' = [change EXCEPT ![x] = NoChange] /\ UNCHANGED standing
  BY DEF SetActive
<1> HIDE DEF c
<1>2. roster[c] \in RowRec /\ roster[c] # Absent /\ roster \in [Codes -> RowRec]
  BY <1>0 DEF RosterInv, RowType
<1>3. [roster[c] EXCEPT !.active = change[x].active] \in RowRec \ {Absent}
  BY <1>0, <1>2 DEF RowRec, Absent
<1>4. RowType' /\ \A d \in Codes : roster[d] # Absent => roster'[d] # Absent
  BY <1>0, <1>1, <1>2, <1>3 DEF RowType
<1>5. EntryType'
  BY <1>0, <1>1, TouchedType, UnderWayType DEF RosterInv, EntryType
<1>6. ASSUME NEW j \in Imports, import'[j] # NoImport PROVE Sound(import[j])'
  <2>1. import[j] # NoImport /\ import'[j] = Touched(j, {c})
    BY <1>1, <1>6
  <2>2. \A d \in Codes \ {c} : roster'[d] = roster[d]
    BY <1>1 DEF RosterInv, RowType
  <2> QED
    BY <1>0, <1>1, <2>1, <2>2, OthersMove
<1>7. ChangeType'
  BY <1>1, NoChangeType DEF RosterInv, ChangeType
<1>8. ChangesSound'
  <2> SUFFICES ASSUME NEW y \in Changes, change'[y] # NoChange
               PROVE  /\ roster'[change'[y].code] # Absent
                      /\ standing' = "ACTIVE" => change'[y].late
    BY DEF ChangesSound
  <2>1. change'[y] = change[y] /\ change[y].code \in Codes
    BY <1>1, NoChangeType DEF RosterInv, ChangeType, ChangeUnder
  <2> QED
    BY <1>1, <1>4, <2>1 DEF RosterInv, ChangesSound
<1> QED
  BY <1>1, <1>4, <1>5, <1>6, <1>7, <1>8 DEF RosterInv, StandingType, ImportsSound

LEMMA StartStep ==
  ASSUME RosterInv, StartMatch PROVE RosterInv'
<1>1. ASSUME NEW i \in Imports, import[i] # NoImport
      PROVE  /\ import'[i] \in UnderWay /\ Sound(import[i])'
  <2>0. import[i] \in UnderWay /\ Sound(import[i])
    BY <1>1, Going DEF RosterInv, ImportsSound
  <2>1. CASE Writing(i)
    <3>1. import'[i] = [import[i] EXCEPT !.late = TRUE]
      BY <2>1 DEF StartMatch
    <3>2. import'[i] \in UnderWay
      BY <2>0, <3>1 DEF UnderWay
    <3>3. Sound(import[i])'
      BY <2>0, <3>1 DEF Sound, StartMatch, UnderWay
    <3> QED
      BY <3>2, <3>3
  <2>2. CASE ~Writing(i)
    BY <2>0, <2>2 DEF StartMatch, Writing, Sound
  <2> QED
    BY <2>1, <2>2
<1>2. ASSUME NEW i \in Imports, import[i] = NoImport PROVE import'[i] = NoImport
  BY <1>2, NoImportType DEF StartMatch, Writing
<1>3. EntryType'
  BY <1>1, <1>2, UnderWayType DEF StartMatch, RosterInv, EntryType
<1>4. ASSUME NEW x \in Changes
      PROVE  /\ change'[x] \in ChangeRec
             /\ change'[x] # NoChange => change'[x].code = change[x].code /\ change[x] # NoChange
                                           /\ change'[x].late
  <2>1. CASE change[x] = NoChange
    BY <2>1, NoChangeType DEF StartMatch
  <2>2. CASE change[x] # NoChange
    <3>1. change[x] \in ChangeUnder /\ change'[x] = [change[x] EXCEPT !.late = TRUE]
      BY <2>2, NoChangeType DEF StartMatch, RosterInv, ChangeType
    <3> QED
      BY <2>2, <3>1, NoChangeType DEF ChangeUnder
  <2> QED
    BY <2>1, <2>2
<1>5. ChangeType' /\ ChangesSound'
  BY <1>4 DEF StartMatch, RosterInv, ChangeType, ChangesSound
<1> QED
  BY <1>1, <1>2, <1>3, <1>5 DEF RosterInv, RowType, StandingType, ImportsSound, StartMatch

LEMMA InvStep == RosterInv /\ [RosterNext]_rosterVars => RosterInv'
<1> SUFFICES ASSUME RosterInv, [RosterNext]_rosterVars PROVE RosterInv'
  OBVIOUS
<1>1. ASSUME NEW i \in Imports, RefuseActive(i) \/ RollBack(i) \/ AuditFails(i) PROVE RosterInv'
  BY <1>1, OwnMove DEF RefuseActive, RollBack, AuditFails
<1>2. CASE EndMatch \/ OpenMatch \/ UNCHANGED rosterVars
  BY <1>2 DEF EndMatch, OpenMatch, rosterVars, RosterInv, RowType, StandingType, EntryType,
              ImportsSound, Sound, ChangeType, ChangesSound
<1> QED
  BY <1>1, <1>2, UploadStep, CompareStep, BeginStep, FindStep, WriteStep, CommitStep,
     CheckStatusStep, SetActiveStep, StartStep
  DEF RosterNext

-----------------------------------------------------------------------------
(* Theorems *)

\* Every variable of the import keeps its type.
THEOREM RosterTypeCorrect == RosterSpec => []RosterType
<1>1. RosterInv => RosterType
  BY DEF RosterInv, RosterType, RowType, StandingType, EntryType, ChangeType
<1> QED
  BY <1>1, InvInit, InvStep, PTL DEF RosterSpec

\* While a match runs, nothing changes the list of competitors but an import that had
\* begun to write before the start, and a deactivation or reactivation that had been
\* checked before it.
THEOREM ListIsLocked == RosterSpec => Lockdown
<1>1. RosterInv /\ [RosterNext]_rosterVars =>
        [ standing = "ACTIVE" =>
            \/ UNCHANGED roster
            \/ \E i \in Imports : import[i] # NoImport /\ import[i].late /\ CommitImport(i)
            \/ \E x \in Changes : change[x] # NoChange /\ change[x].late /\ SetActive(x) ]_rosterVars
  <2> SUFFICES ASSUME RosterInv, [RosterNext]_rosterVars, standing = "ACTIVE", ~UNCHANGED roster
               PROVE  \/ \E i \in Imports : import[i] # NoImport /\ import[i].late /\ CommitImport(i)
                      \/ \E x \in Changes : change[x] # NoChange /\ change[x].late /\ SetActive(x)
    OBVIOUS
  <2>1. (\E i \in Imports : CommitImport(i)) \/ (\E x \in Changes : SetActive(x))
    BY DEF RosterNext, Upload, Compare, Begin, RefuseActive, FindRow, WriteRow, RollBack,
           AuditFails, CheckStatus, StartMatch, EndMatch, OpenMatch, rosterVars
  <2>2. ASSUME NEW i \in Imports, CommitImport(i)
        PROVE  import[i] # NoImport /\ import[i].late
    BY <2>2, NoImportType DEF CommitImport, RosterInv, ImportsSound, Sound
  <2>3. ASSUME NEW x \in Changes, SetActive(x)
        PROVE  change[x] # NoChange /\ change[x].late
    BY <2>3 DEF SetActive, RosterInv, ChangesSound
  <2> QED
    BY <2>1, <2>2, <2>3
<1> QED
  BY <1>1, InvInit, InvStep, PTL DEF RosterSpec, Lockdown

\* An import leaves what it names as it says, but for what others have changed.
THEOREM ImportIsApplied == RosterSpec => Applied
<1>1. RosterInv /\ [RosterNext]_rosterVars =>
        [ \A i \in Imports : CommitImport(i) =>
            \A c \in Named(i) :
              roster'[c] = Listed(import[i].list[c], TRUE) \/ c \in import[i].touched ]_rosterVars
  <2> SUFFICES ASSUME RosterInv, NEW i \in Imports, CommitImport(i), NEW c \in Named(i)
               PROVE  roster'[c] = Listed(import[i].list[c], TRUE) \/ c \in import[i].touched
    OBVIOUS
  <2>1. import[i].pc = "find" /\ import[i] # NoImport /\ import[i].todo = {} /\ c \in Codes
    BY Going, NoImportType DEF CommitImport, RosterInv
  <2>2. Sound(import[i])
    BY <2>1 DEF RosterInv, ImportsSound
  <2>3. CASE import[i].mine[c] # Absent
    BY <2>1, <2>2, <2>3 DEF Sound, CommitImport, Written
  <2>4. CASE import[i].mine[c] = Absent
    BY <2>1, <2>2, <2>4 DEF Sound, CommitImport, Written, Named
  <2> QED
    BY <2>3, <2>4
<1> QED
  BY <1>1, InvInit, InvStep, PTL DEF RosterSpec, Applied

-----------------------------------------------------------------------------
(* Catalogue *)

Rows ==
  [there : BOOLEAN, slug : Ids \cup {""}, active : BOOLEAN,
   flag : {"", "official", "admin"}, tests : 0..AllTests, tried : BOOLEAN]

\* The seed is at the official challenges, or done with them; ...
Sowing == {"challenge", "flag", "clear tests", "tests", "worker"}

\* ... the migrations are behind it.
SeedSteps == {"rounds", "purge tests", "purge flags", "purge rows"} \cup Sowing

CatalogueType ==
  /\ server \in {"down", "starting", "ready", "degraded"}
  /\ step \in {"none", "connect", "migrate", "record"} \cup SeedSteps
  /\ left \subseteq Official
  /\ challenge \in [Ids -> Rows]
  /\ wiped \in BOOLEAN

\* A file that was executed and not recorded, which a crash leaves behind, is the
\* next one to be executed.
MigrationsKept ==
  /\ migrated \in Nat /\ migrated <= Migrations
  /\ schema \in {migrated, migrated + 1} /\ schema <= Migrations
  /\ step = "record" => schema = migrated + 1
  /\ step \in SeedSteps => migrated = Migrations /\ schema = Migrations

Full(c) ==
  challenge[c].there /\ challenge[c].flag = "official" /\ challenge[c].tests = AllTests

First == CHOOSE x \in left : TRUE

\* What the seed is through with is in full, and what it is at in the order in which
\* it writes: whoever creates the same challenge meanwhile finds that taken.
FullSoFar ==
  step \in Sowing =>
    /\ \A c \in Official \ left : Full(c)
    /\ step \in {"flag", "clear tests", "tests"} => First \in left /\ challenge[First].there
    /\ step \in {"clear tests", "tests"} => challenge[First].flag = "official"
    /\ step = "worker" => left = {}

\* No script is at work behind a server that is ready, but on a new database.
StaysFurnished == server = "ready" /\ ~wiped => step = "none" /\ Furnished

CatalogueInv == CatalogueType /\ MigrationsKept /\ FullSoFar /\ StaysFurnished

LEMMA NoChallengeType == NoChallenge \in Rows
  BY DEF NoChallenge, Rows, AllTests

LEMMA CatalogueStarts == CatalogueInit => CatalogueInv
<1> SUFFICES ASSUME CatalogueInit
             PROVE  CatalogueInv
  OBVIOUS
<1>1. CatalogueType
  BY NoChallengeType DEF CatalogueInit, CatalogueType
<1>2. MigrationsKept
  BY CatalogueAssumption DEF CatalogueInit, MigrationsKept, SeedSteps, Sowing
<1> QED
  BY <1>1, <1>2 DEF CatalogueInit, CatalogueInv, FullSoFar, StaysFurnished, Sowing

\* The script is not at the challenges, and no server works with them.
LEMMA NothingFurnished ==
  ASSUME CatalogueType', MigrationsKept', step' \notin Sowing, server' = "ready" => wiped'
  PROVE  CatalogueInv'
  BY DEF CatalogueInv, FullSoFar, StaysFurnished

\* Nothing that is in full is taken away.
Grows(c) ==
  challenge[c].there =>
    /\ challenge'[c].there
    /\ challenge[c].flag = "official" => challenge'[c].flag = "official"
    /\ challenge[c].tests = AllTests => challenge'[c].tests = AllTests

LEMMA EditsKeep ==
  ASSUME CatalogueInv, UNCHANGED <<server, step, left, schema, migrated, wiped>>,
         challenge' \in [Ids -> Rows], \A c \in Official : Grows(c)
  PROVE  CatalogueInv'
<1>1. CatalogueType' /\ MigrationsKept'
  BY DEF CatalogueInv, CatalogueType, MigrationsKept
<1>2. \A c \in Official : Full(c) => Full(c)'
  BY DEF Full, Grows
<1>3. FullSoFar'
  <2>1. UNCHANGED First
    BY DEF First
  <2>2. First \in left => First \in Official
    BY DEF CatalogueInv, CatalogueType
  <2> QED
    BY <1>2, <2>1, <2>2 DEF CatalogueInv, FullSoFar, Grows
<1>4. StaysFurnished'
  <2> SUFFICES ASSUME server = "ready", ~wiped
               PROVE  step = "none" /\ Furnished'
    BY DEF StaysFurnished
  <2>1. step = "none" /\ Furnished
    BY DEF CatalogueInv, StaysFurnished
  <2> QED
    BY <2>1, <1>2 DEF Furnished, Full
<1> QED
  BY <1>1, <1>3, <1>4 DEF CatalogueInv

\* What a script does to a server that is not starting is a recovery.
LEMMA RecoveryIsWiped ==
  ASSUME CatalogueInv, step # "none"
  PROVE  server = "ready" => wiped
  BY DEF CatalogueInv, StaysFurnished

LEMMA TestCounts ==
  /\ 0 \in 0..AllTests /\ AllTests \in 0..AllTests
  /\ \A n \in 0..AllTests : n < AllTests => n + 1 \in 0..AllTests
  BY DEF AllTests

\* The migrations, and the seed until it comes to the challenges.
LEMMA EarlyStep ==
  ASSUME CatalogueInv,
         \/ Boot \/ Connect \/ ApplyMigration \/ RecordMigration \/ Migrated
         \/ (\E r \in Slugs : SeedRound(r)) \/ SeedAdmin
         \/ Purge /\ ~At("purge rows")
  PROVE  CatalogueInv'
<1>1. step' \in {"connect", "migrate", "record", "rounds", "purge tests", "purge flags", "purge rows"}
  BY DEF Boot, Connect, ApplyMigration, RecordMigration, Migrated, SeedRound, SeedAdmin, Purge, At
<1>2. server' = "ready" => wiped'
  <2>1. CASE Boot
    BY <2>1 DEF Boot
  <2>2. CASE ~Boot
    <3>1. step # "none" /\ UNCHANGED <<server, wiped>>
      BY <2>2 DEF Boot, Connect, ApplyMigration, RecordMigration, Migrated, SeedRound, SeedAdmin,
                  Purge, At
    <3> QED
      BY <3>1, RecoveryIsWiped
  <2> QED
    BY <2>1, <2>2
<1>3. MigrationsKept'
  <2>1. CASE ApplyMigration
    BY <2>1, CatalogueAssumption
    DEF ApplyMigration, At, CatalogueInv, MigrationsKept, SeedSteps, Sowing
  <2>2. CASE RecordMigration
    BY <2>2, CatalogueAssumption
    DEF RecordMigration, At, CatalogueInv, MigrationsKept, SeedSteps, Sowing
  <2>3. CASE Migrated
    BY <2>3, CatalogueAssumption
    DEF Migrated, At, stored, CatalogueInv, MigrationsKept, SeedSteps, Sowing
  <2>4. CASE Boot \/ Connect
    BY <2>4 DEF Boot, Connect, stored, CatalogueInv, MigrationsKept, SeedSteps, Sowing
  <2>5. CASE (\E r \in Slugs : SeedRound(r)) \/ SeedAdmin \/ (Purge /\ ~At("purge rows"))
    <3>1. step \in SeedSteps /\ step' # "record" /\ UNCHANGED <<schema, migrated>>
      BY <2>5 DEF SeedRound, SeedAdmin, Purge, At, stored, SeedSteps
    <3> QED
      BY <3>1 DEF CatalogueInv, MigrationsKept
  <2> QED
    BY <2>1, <2>2, <2>3, <2>4, <2>5
<1>4. CatalogueType'
  <2>1. server' \in {"down", "starting", "ready", "degraded"} /\ left' \subseteq Official /\ wiped' \in BOOLEAN
    BY DEF Boot, Connect, ApplyMigration, RecordMigration, Migrated, SeedRound, SeedAdmin, Purge,
           At, CatalogueInv, CatalogueType
  <2>2. challenge' \in [Ids -> Rows]
    <3>1. CASE Purge /\ ~At("purge rows")
      <4>1. PICK f \in {<<"tests", 0>>, <<"flag", "">>} : Purged(f[1], f[2])
        BY <3>1 DEF Purge
      <4>2. CASE f = <<"tests", 0>>
        <5>1. \A c \in Ids : [challenge[c] EXCEPT !["tests"] = 0] \in Rows
          BY TestCounts DEF CatalogueInv, CatalogueType, Rows
        <5>2. Purged("tests", 0)
          BY <4>1, <4>2
        <5> QED
          BY <5>1, <5>2 DEF Purged, CatalogueInv, CatalogueType
      <4>3. CASE f = <<"flag", "">>
        <5>1. \A c \in Ids : [challenge[c] EXCEPT !["flag"] = ""] \in Rows
          BY DEF CatalogueInv, CatalogueType, Rows
        <5>2. Purged("flag", "")
          BY <4>1, <4>3
        <5> QED
          BY <5>1, <5>2 DEF Purged, CatalogueInv, CatalogueType
      <4> QED
        BY <4>1, <4>2, <4>3
    <3>2. CASE ~(Purge /\ ~At("purge rows"))
      BY <3>2 DEF Boot, Connect, ApplyMigration, RecordMigration, Migrated, SeedRound, SeedAdmin,
                  stored, CatalogueInv, CatalogueType
    <3> QED
      BY <3>1, <3>2
  <2> QED
    BY <1>1, <2>1, <2>2 DEF CatalogueType, SeedSteps
<1>5. step' \notin Sowing
  BY <1>1 DEF Sowing
<1> QED
  BY <1>2, <1>3, <1>4, <1>5, NothingFurnished

\* A step of the seed at the challenges: what it has to keep.
LEMMA SowingStep ==
  ASSUME CatalogueInv, step \in SeedSteps, step' \in Sowing,
         UNCHANGED <<server, schema, migrated, wiped>>,
         left' \subseteq Official, challenge' \in [Ids -> Rows], FullSoFar'
  PROVE  CatalogueInv'
<1>1. server' = "ready" => wiped'
  BY RecoveryIsWiped DEF SeedSteps, Sowing
<1>2. CatalogueType' /\ MigrationsKept'
  BY DEF CatalogueInv, CatalogueType, MigrationsKept, SeedSteps, Sowing
<1> QED
  BY <1>1, <1>2 DEF CatalogueInv, StaysFurnished

LEMMA PurgeRowsStep ==
  ASSUME CatalogueInv, Purge, At("purge rows")
  PROVE  CatalogueInv'
<1>1. /\ step = "purge rows" /\ step' = "challenge" /\ left' = Official
      /\ challenge' = [c \in Ids |-> IF c \in Own THEN NoChallenge ELSE challenge[c]]
      /\ UNCHANGED <<server, schema, migrated, wiped>>
  BY DEF Purge, At
<1>2. challenge' \in [Ids -> Rows]
  BY <1>1, NoChallengeType DEF CatalogueInv, CatalogueType
<1>3. FullSoFar'
  BY <1>1 DEF FullSoFar
<1> QED
  BY <1>1, <1>2, <1>3, SowingStep DEF SeedSteps, Sowing

\* The first challenge is written over, and is the first still.
LEMMA FirstIsWritten ==
  ASSUME CatalogueInv, NEW c \in Official, NEW s \in Sowing, NEW r \in Rows,
         Seeding(c, step), step \in Sowing,
         challenge' = [challenge EXCEPT ![c] = r], UNCHANGED <<server, schema, migrated, wiped>>,
         step' = s, s # "worker",
         s \in {"flag", "clear tests", "tests"} => r.there,
         s \in {"clear tests", "tests"} => r.flag = "official",
         \/ left' = left
         \/ /\ left' = left \ {c} /\ s = "challenge"
            /\ r.there /\ r.flag = "official" /\ r.tests = AllTests
  PROVE  CatalogueInv'
<1>1. c = First /\ c \in left /\ left \subseteq Official /\ c \in Ids /\ challenge \in [Ids -> Rows]
  BY DEF Seeding, First, CatalogueInv, CatalogueType, Ids
<1>2. left' \subseteq Official /\ challenge' \in [Ids -> Rows]
  BY <1>1
<1>3. challenge'[c] = r /\ \A d \in Official \ {c} : challenge'[d] = challenge[d]
  BY <1>1 DEF Ids
<1>4. \A d \in Official \ left' : Full(d)'
  <2> SUFFICES ASSUME NEW d \in Official \ left'
               PROVE  Full(d)'
    OBVIOUS
  <2>1. CASE d # c
    BY <1>3, <2>1 DEF CatalogueInv, FullSoFar, Full
  <2>2. CASE d = c
    BY <1>1, <1>3, <2>2 DEF Full
  <2> QED
    BY <2>1, <2>2
<1>5. s \in {"flag", "clear tests", "tests"} => First' = c /\ c \in left'
  BY <1>1 DEF First
<1>6. FullSoFar'
  BY <1>3, <1>4, <1>5 DEF FullSoFar
<1> QED
  BY <1>2, <1>6, SowingStep DEF SeedSteps

LEMMA SeedStep ==
  ASSUME CatalogueInv, NEW c \in Official,
         SeedRow(c) \/ SeedFlag(c) \/ ClearTests(c) \/ SeedTest(c)
  PROVE  CatalogueInv'
<1>1. /\ c = First /\ c \in left /\ challenge[c] \in Rows
      /\ UNCHANGED <<server, schema, migrated, wiped>>
  BY DEF SeedRow, SeedFlag, ClearTests, SeedTest, Seeding, First, CatalogueInv, CatalogueType, Ids
<1>2. CASE SeedRow(c)
  <2> DEFINE r == [challenge[c] EXCEPT !.there = TRUE, !.slug = c, !.active = TRUE]
  <2>1. /\ r \in Rows /\ r.there
    BY <1>1 DEF Rows, Ids
  <2>2. /\ challenge' = [challenge EXCEPT ![c] = r] /\ step' = "flag" /\ left' = left
        /\ Seeding(c, step) /\ step \in Sowing
    BY <1>2 DEF SeedRow, Seeding, At, Sowing
  <2> HIDE DEF r
  <2> QED
    BY <1>1, <2>1, <2>2, FirstIsWritten DEF Sowing
<1>3. CASE SeedFlag(c)
  <2> DEFINE r == [challenge[c] EXCEPT !.flag = "official"]
  <2>1. /\ r \in Rows /\ r.there = challenge[c].there /\ r.flag = "official"
    BY <1>1 DEF Rows
  <2>2. /\ challenge' = [challenge EXCEPT ![c] = r] /\ step' = "clear tests" /\ left' = left
        /\ Seeding(c, step) /\ step = "flag"
    BY <1>3 DEF SeedFlag, Seeding, At
  <2>3. challenge[c].there
    BY <1>1, <2>2 DEF CatalogueInv, FullSoFar, Sowing
  <2> HIDE DEF r
  <2> QED
    BY <1>1, <2>1, <2>2, <2>3, FirstIsWritten DEF Sowing
<1>4. CASE ClearTests(c)
  <2> DEFINE r == [challenge[c] EXCEPT !.tests = 0]
  <2>1. /\ r \in Rows /\ r.there = challenge[c].there /\ r.flag = challenge[c].flag
    BY <1>1, TestCounts DEF Rows
  <2>2. /\ challenge' = [challenge EXCEPT ![c] = r] /\ step' = "tests" /\ left' = left
        /\ Seeding(c, step) /\ step = "clear tests"
    BY <1>4 DEF ClearTests, Seeding, At
  <2>3. challenge[c].there /\ challenge[c].flag = "official"
    BY <1>1, <2>2 DEF CatalogueInv, FullSoFar, Sowing
  <2> HIDE DEF r
  <2> QED
    BY <1>1, <2>1, <2>2, <2>3, FirstIsWritten DEF Sowing
<1>5. CASE SeedTest(c)
  <2> DEFINE n == challenge[c].tests + 1
             r == [challenge[c] EXCEPT !.tests = n]
  <2>1. n \in 0..AllTests
    BY <1>1, <1>5, TestCounts DEF SeedTest, Rows
  <2>2. challenge' = [challenge EXCEPT ![c] = r] /\ Seeding(c, step) /\ step = "tests"
    BY <1>1, <1>5 DEF SeedTest, Seeding, At, CatalogueInv, CatalogueType, Ids
  <2>3. IF n = AllTests THEN step' = "challenge" /\ left' = left \ {c}
                        ELSE UNCHANGED <<step, left>>
    BY <1>5 DEF SeedTest
  <2> HIDE DEF n
  <2>4. /\ r \in Rows /\ r.there = challenge[c].there /\ r.flag = challenge[c].flag /\ r.tests = n
    BY <1>1, <2>1 DEF Rows
  <2>5. challenge[c].there /\ challenge[c].flag = "official"
    BY <1>1, <2>2 DEF CatalogueInv, FullSoFar, Sowing
  <2> HIDE DEF r
  <2> QED
    BY <1>1, <2>2, <2>3, <2>4, <2>5, FirstIsWritten DEF Sowing
<1> QED
  BY <1>2, <1>3, <1>4, <1>5

\* The script comes to its end: that of a recovery, or of a start.
LEMMA ScriptEnds ==
  ASSUME CatalogueInv, Seeded \/ BringUpWorker
  PROVE  CatalogueInv'
<1>1. /\ step \in SeedSteps /\ step \in Sowing /\ left = {} /\ left' = {}
      /\ UNCHANGED <<schema, migrated, challenge>>
  BY DEF Seeded, BringUpWorker, At, stored, CatalogueInv, FullSoFar, SeedSteps, Sowing
<1>2. migrated = Migrations /\ schema = Migrations /\ \A c \in Official : Full(c)
  BY <1>1 DEF CatalogueInv, MigrationsKept, FullSoFar
<1>3. CatalogueType' /\ MigrationsKept'
  BY <1>1, <1>2 DEF Seeded, BringUpWorker, CatalogueInv, CatalogueType, MigrationsKept, SeedSteps,
                    Sowing
<1>4. step' \in {"none", "worker"} /\ (server' = "ready" => step' = "none" \/ wiped')
  BY RecoveryIsWiped DEF Seeded, BringUpWorker, At
<1>5. FullSoFar'
  BY <1>1, <1>2, <1>4 DEF FullSoFar, Full
<1>6. Furnished'
  BY <1>1, <1>2 DEF Furnished, Full
<1> QED
  BY <1>3, <1>4, <1>5, <1>6 DEF CatalogueInv, StaysFurnished

\* A step fails or the process dies: the script is over, and no server is ready
\* that was not.
LEMMA BreaksOff ==
  ASSUME CatalogueInv, StepFails \/ ServerCrash \/ ServerRestart
  PROVE  CatalogueInv'
<1>1. /\ step' = "none" /\ left' = {} /\ UNCHANGED <<schema, migrated, challenge, wiped>>
      /\ server' \in {"down", "degraded", server}
      /\ server' = "ready" => step # "none" /\ server = "ready"
  BY DEF StepFails, ServerCrash, ServerRestart, Die, stored
<1>2. CatalogueType' /\ MigrationsKept'
  BY <1>1 DEF CatalogueInv, CatalogueType, MigrationsKept, SeedSteps, Sowing
<1> QED
  BY <1>1, <1>2, RecoveryIsWiped, NothingFurnished DEF Sowing

LEMMA RecoverStep ==
  ASSUME CatalogueInv, Recover
  PROVE  CatalogueInv'
<1>1. CatalogueType'
  BY NoChallengeType DEF Recover, CatalogueInv, CatalogueType
<1>2. MigrationsKept'
  BY CatalogueAssumption DEF Recover, MigrationsKept, SeedSteps, Sowing
<1> QED
  BY <1>1, <1>2, NothingFurnished DEF Recover, Sowing

\* Where an administrator puts tests or a flag there were none.
LEMMA OneRowGrows ==
  ASSUME CatalogueInv, NEW c \in Ids, NEW r \in Rows, challenge' = [challenge EXCEPT ![c] = r],
         UNCHANGED <<server, step, left, schema, migrated, wiped>>,
         challenge[c].there =>
           /\ r.there
           /\ challenge[c].flag = "official" => r.flag = "official"
           /\ challenge[c].tests = AllTests => r.tests = AllTests
  PROVE  CatalogueInv'
<1>1. challenge' \in [Ids -> Rows] /\ \A d \in Official : Grows(d)
  BY DEF CatalogueInv, CatalogueType, Grows, Ids
<1> QED
  BY <1>1, EditsKeep

LEMMA EditStep ==
  ASSUME CatalogueInv, NEW c \in Ids, NEW s \in Ids, NEW active \in BOOLEAN,
         \/ CreateChallenge(c, s) \/ UpdateChallenge(c, s) \/ CreateTests(c) \/ CreateFlag(c)
         \/ SetChallengeActive(c, active) \/ Try(c) \/ ClearTries(c)
  PROVE  CatalogueInv'
<1>1. challenge[c] \in Rows /\ UNCHANGED <<server, step, left, schema, migrated, wiped>>
  BY DEF CatalogueInv, CatalogueType, CreateChallenge, UpdateChallenge, CreateTests, CreateFlag,
         SetChallengeActive, Try, ClearTries
<1>2. CASE CreateChallenge(c, s)
  <2> DEFINE r == [NoChallenge EXCEPT !.there = TRUE, !.slug = s, !.active = TRUE]
  <2>1. r \in Rows
    BY NoChallengeType DEF Rows
  <2> QED
    BY <1>1, <1>2, <2>1, OneRowGrows DEF CreateChallenge
<1>3. CASE UpdateChallenge(c, s)
  <2> DEFINE r == [challenge[c] EXCEPT !.slug = s]
  <2>1. /\ r \in Rows /\ r.there = challenge[c].there /\ r.flag = challenge[c].flag
        /\ r.tests = challenge[c].tests
    BY <1>1 DEF Rows
  <2>2. challenge' = [challenge EXCEPT ![c] = r]
    BY <1>3 DEF UpdateChallenge
  <2> HIDE DEF r
  <2> QED
    BY <1>1, <2>1, <2>2, OneRowGrows
<1>4. CASE CreateTests(c)
  <2> DEFINE r == [challenge[c] EXCEPT !.tests = AllTests]
  <2>1. /\ r \in Rows /\ r.there = challenge[c].there /\ r.flag = challenge[c].flag
        /\ r.tests = AllTests
    BY <1>1, TestCounts DEF Rows
  <2>2. challenge' = [challenge EXCEPT ![c] = r]
    BY <1>4 DEF CreateTests
  <2> HIDE DEF r
  <2> QED
    BY <1>1, <2>1, <2>2, OneRowGrows
<1>5. CASE CreateFlag(c)
  <2> DEFINE r == [challenge[c] EXCEPT !.flag = "admin"]
  <2>1. /\ r \in Rows /\ r.there = challenge[c].there /\ r.tests = challenge[c].tests
    BY <1>1 DEF Rows
  <2>2. challenge' = [challenge EXCEPT ![c] = r] /\ challenge[c].flag # "official"
    BY <1>5 DEF CreateFlag, Taken
  <2> HIDE DEF r
  <2> QED
    BY <1>1, <2>1, <2>2, OneRowGrows
<1>6. CASE SetChallengeActive(c, active)
  <2> DEFINE r == [challenge[c] EXCEPT !.active = active]
  <2>1. /\ r \in Rows /\ r.there = challenge[c].there /\ r.flag = challenge[c].flag
        /\ r.tests = challenge[c].tests
    BY <1>1 DEF Rows
  <2>2. challenge' = [challenge EXCEPT ![c] = r]
    BY <1>6 DEF SetChallengeActive
  <2> HIDE DEF r
  <2> QED
    BY <1>1, <2>1, <2>2, OneRowGrows
<1>7. CASE Try(c) \/ ClearTries(c)
  <2>1. PICK b \in BOOLEAN : challenge' = [challenge EXCEPT ![c].tried = b]
    BY <1>7 DEF Try, ClearTries
  <2> DEFINE r == [challenge[c] EXCEPT !.tried = b]
  <2>2. /\ r \in Rows /\ r.there = challenge[c].there /\ r.flag = challenge[c].flag
        /\ r.tests = challenge[c].tests
    BY <1>1 DEF Rows
  <2>3. challenge' = [challenge EXCEPT ![c] = r]
    BY <2>1
  <2> HIDE DEF r
  <2> QED
    BY <1>1, <2>2, <2>3, OneRowGrows
<1> QED
  BY <1>2, <1>3, <1>4, <1>5, <1>6, <1>7

LEMMA OthersStep ==
  ASSUME CatalogueInv,
         \/ Outage \/ Return \/ Reopen \/ CreateFails \/ UNCHANGED catalogueVars
         \/ \E r \in Slugs : CreateRound(r) \/ \E s \in Slugs : UpdateRound(r, s)
  PROVE  CatalogueInv'
<1>1. UNCHANGED <<server, step, left, schema, migrated, wiped, challenge>>
  BY DEF Outage, Return, Reopen, CreateFails, CreateRound, UpdateRound, catalogueVars, stored
<1>2. challenge' \in [Ids -> Rows] /\ \A c \in Official : Grows(c)
  BY <1>1 DEF CatalogueInv, CatalogueType, Grows
<1> QED
  BY <1>1, <1>2, EditsKeep

LEMMA CatalogueStep == CatalogueInv /\ [CatalogueNext]_catalogueVars => CatalogueInv'
<1> SUFFICES ASSUME CatalogueInv, [CatalogueNext]_catalogueVars
             PROVE  CatalogueInv'
  OBVIOUS
<1>1. CASE Script
  BY <1>1, EarlyStep, PurgeRowsStep, SeedStep, ScriptEnds DEF Script, Seed
<1>2. CASE Administer
  <2>1. ASSUME NEW c \in Ids, NEW s \in Ids, CreateChallenge(c, s) \/ UpdateChallenge(c, s)
        PROVE  CatalogueInv'
    BY <2>1, EditStep
  <2>2. ASSUME NEW c \in Ids, CreateTests(c) \/ CreateFlag(c) \/ Try(c) \/ ClearTries(c)
        PROVE  CatalogueInv'
    BY <2>2, EditStep
  <2>3. ASSUME NEW c \in Ids, NEW active \in BOOLEAN, SetChallengeActive(c, active)
        PROVE  CatalogueInv'
    BY <2>3, EditStep
  <2>4. Own \subseteq Ids
    BY DEF Ids
  <2> QED
    BY <1>2, <2>1, <2>2, <2>3, <2>4, OthersStep DEF Administer
<1>3. CASE UNCHANGED catalogueVars \/ Outage \/ Return \/ Reopen
  BY <1>3, OthersStep
<1> QED
  BY <1>1, <1>2, <1>3, EarlyStep, BreaksOff, RecoverStep DEF CatalogueNext

LEMMA CatalogueAlways == CatalogueSpec => []CatalogueInv
  BY CatalogueStarts, CatalogueStep, PTL DEF CatalogueSpec

\* startServer, wherever the starts and recoveries before it broke off and whatever
\* administrators did meanwhile: a server that is ready has the whole schema and every
\* official challenge with its flag and all its tests.
THEOREM ReadyIsFurnished == CatalogueSpec => []Furnished
<1>1. CatalogueInv => Furnished
  <2> SUFFICES ASSUME CatalogueInv, server = "ready", ~wiped
               PROVE  Furnished
    BY DEF Furnished
  <2> QED
    BY DEF CatalogueInv, StaysFurnished
<1> QED
  BY <1>1, CatalogueAlways, PTL

-----------------------------------------------------------------------------
(* Director *)

DirectorType ==
  /\ settings \in [match : Rounds, status : Phases]
  /\ clearing \in {0} \cup Rounds
  /\ raced \in BOOLEAN

DirectorInv == DirectorType /\ ActiveKept

LEMMA DirectorStarts == DirectorInit => DirectorInv
<1>1. 1 \in Rounds
  BY DirectorAssumption DEF Rounds
<1> SUFFICES ASSUME DirectorInit
             PROVE  DirectorInv
  OBVIOUS
<1>2. settings \in [match : Rounds, status : Phases] /\ settings.match = 1
  BY <1>1 DEF DirectorInit, Phases
<1>3. clearing \in {0} \cup Rounds /\ raced \in BOOLEAN /\ rows = {1}
  BY DEF DirectorInit
<1> QED
  BY <1>2, <1>3 DEF DirectorInv, DirectorType, ActiveKept

\* What the server does for an action, of this page or of another.
LEMMA ObeyedKeeps ==
  ASSUME DirectorInv, NEW d, Obeyed(d)
  PROVE  DirectorInv'
<1>1. ASSUME NEW to \in Phases, Transit(to)
      PROVE  DirectorInv'
  BY <1>1 DEF Transit, DirectorInv, DirectorType, ActiveKept
<1>2. CASE CreateNewMatch
  <2>1. settings.match + 1 \in Rounds
    BY <1>2, DirectorAssumption DEF CreateNewMatch, DirectorInv, DirectorType, Rounds
  <2> QED
    BY <1>2, <2>1 DEF CreateNewMatch, DirectorInv, DirectorType, ActiveKept, Phases
<1>3. ASSUME NEW m, DeleteOldMatch(m)
      PROVE  DirectorInv'
  BY <1>3 DEF DeleteOldMatch, DirectorInv, DirectorType, ActiveKept
<1>4. CASE ClearReads
  BY <1>4 DEF ClearReads, DirectorInv, DirectorType, ActiveKept
<1> QED
  BY <1>1, <1>2, <1>3, <1>4 DEF Obeyed, Phases

\* The history that is cleared is that of the match read: if another is active by
\* then, a match was created in between.
LEMMA ClearKeeps ==
  ASSUME DirectorInv, ClearDeletes
  PROVE  DirectorInv'
  BY DEF ClearDeletes, DirectorInv, DirectorType, ActiveKept

LEMMA DirectorStep == DirectorInv /\ [DirectorNext]_directorVars => DirectorInv'
<1> SUFFICES ASSUME DirectorInv, [DirectorNext]_directorVars
             PROVE  DirectorInv'
  OBVIOUS
<1>1. CASE UNCHANGED recordVars
  BY <1>1 DEF recordVars, DirectorInv, DirectorType, ActiveKept
<1>2. CASE ~UNCHANGED recordVars
  <2>1. OthersAct \/ FinishClear \/ Obey
    BY <1>2 DEF DirectorNext, directorVars, recordVars, OpenScreen, CloseScreen, SurveyAgain,
                ServeStatus, ServeMatch, HearStatus, HearMatch, Press, AskToMoveOn, AskToDelete, Cancel,
                MoveOn, DeleteHistory, Refuses
  <2> QED
    BY <1>2, <2>1, ObeyedKeeps, ClearKeeps DEF OthersAct, FinishClear, Obey
<1> QED
  BY <1>1, <1>2

\* deleteMatch, clearArchivedMatches and createNewMatch, however old what any page shows
\* is: the active match stays on record, unless the one is created while the others are
\* cleared.
THEOREM ActiveMatchIsKept == DirectorSpec => []ActiveKept
<1>1. DirectorInv => ActiveKept
  BY DEF DirectorInv
<1> QED
  BY <1>1, DirectorStarts, DirectorStep, PTL DEF DirectorSpec
=============================================================================
