----------------------------- MODULE Gate_proofs -----------------------------
(***************************************************************************)
(* Theorems about Gate and the limiters: for any number of messages under  *)
(* way and of limiters, any limits and any length of a window.             *)
(***************************************************************************)
EXTENDS Gate, TLAPS

-----------------------------------------------------------------------------
(* The limiters *)

AttemptRec == [count : Nat, age : 0..Window + 1, left : 0..Window]

\* A window is at least as old as the silence, and a block is over with it.
QuietOf(l) ==
  /\ idle[l] <= attempts[l].age
  /\ attempts[l].left > 0 => attempts[l].left + idle[l] <= Window

LimiterInv == LimiterType /\ \A l \in Limiters : QuietOf(l)

LEMMA NoRecordType ==
  NoRecord \in AttemptRec /\ NoRecord.count = 0 /\ NoRecord.age = Window + 1 /\ NoRecord.left = 0
  BY LimiterAssumption DEF NoRecord, AttemptRec

LEMMA LimiterInitInv == LimiterInit => LimiterInv
  BY NoRecordType, LimiterAssumption
  DEF LimiterInit, LimiterInv, LimiterType, QuietOf, AttemptRec

LEMMA CountedType ==
  ASSUME LimiterInv, NEW l \in Limiters, Opens(l)
  PROVE  /\ Counted(l) \in AttemptRec
         /\ Counted(l).count <= MaxAttempts[l]
         /\ Counted(l).left = 0
         /\ Counted(l).age >= 0
  BY LimiterAssumption
  DEF LimiterInv, LimiterType, Opens, Blocked, Expired, Within, Counted, AttemptRec

AttemptType == attempts \in [Limiters -> AttemptRec] /\ idle \in [Limiters -> 0..Window + 1]
RecentType == recent \in [Limiters -> [0..Window -> Nat]]
LimitOf(l) == attempts[l].count <= MaxAttempts[l] /\ QuietOf(l)

LEMMA LimiterParts ==
  LimiterInv <=> AttemptType /\ RecentType /\ \A l \in Limiters : LimitOf(l)
  BY DEF LimiterInv, LimiterType, AttemptType, RecentType, LimitOf, AttemptRec

LEMMA AdmitStep ==
  ASSUME LimiterInv, NEW l \in Limiters, Admit(l)
  PROVE  AttemptType' /\ RecentType' /\ \A k \in Limiters : LimitOf(k)'
<1>0. AttemptType /\ RecentType /\ \A k \in Limiters : LimitOf(k)
  BY LimiterParts
<1>1. /\ attempts' = [attempts EXCEPT ![l] = Counted(l)]
      /\ recent' = [recent EXCEPT ![l] = [a \in 0..Window |-> @[a] + 1]]
      /\ idle' = [idle EXCEPT ![l] = 0]
      /\ Opens(l)
  BY DEF Admit
<1>2. AttemptType'
  BY <1>0, <1>1, CountedType, LimiterAssumption DEF AttemptType
<1>3. RecentType'
  BY <1>0, <1>1, LimiterAssumption DEF RecentType
<1>4. ASSUME NEW k \in Limiters PROVE LimitOf(k)'
  BY <1>0, <1>1, CountedType DEF LimitOf, QuietOf, AttemptType
<1> QED
  BY <1>2, <1>3, <1>4

LEMMA RefuseStep ==
  ASSUME LimiterInv, NEW l \in Limiters, Refuse(l)
  PROVE  AttemptType' /\ RecentType' /\ \A k \in Limiters : LimitOf(k)'
<1>0. AttemptType /\ RecentType /\ \A k \in Limiters : LimitOf(k)
  BY LimiterParts
<1>1. attempts[l] \in AttemptRec /\ BlockTime[l] \in 0..Window
  BY <1>0, LimiterAssumption DEF AttemptType
<1> DEFINE r == [attempts[l] EXCEPT !.left = IF Blocked(l) THEN @ ELSE BlockTime[l]]
<1>2. /\ r \in AttemptRec /\ r.count = attempts[l].count /\ r.age = attempts[l].age
      /\ r.left \in 0..Window
  BY <1>1 DEF AttemptRec
<1>3. attempts' = [attempts EXCEPT ![l] = r] /\ idle' = [idle EXCEPT ![l] = 0] /\ recent' = recent
  BY DEF Refuse
<1> HIDE DEF r
<1>4. AttemptType'
  BY <1>0, <1>2, <1>3, LimiterAssumption DEF AttemptType
<1>5. ASSUME NEW k \in Limiters PROVE LimitOf(k)'
  BY <1>0, <1>1, <1>2, <1>3, LimiterAssumption DEF LimitOf, QuietOf, AttemptType, AttemptRec
<1> QED
  BY <1>0, <1>3, <1>4, <1>5 DEF RecentType

LEMMA NewKeyStep ==
  ASSUME LimiterInv, NEW l \in Limiters, NewKey(l)
  PROVE  AttemptType' /\ RecentType' /\ \A k \in Limiters : LimitOf(k)'
<1>0. AttemptType /\ RecentType /\ \A k \in Limiters : LimitOf(k)
  BY LimiterParts
<1>1. [a \in 0..Window |-> 0] \in [0..Window -> Nat]
  OBVIOUS
<1>2. /\ attempts' = [attempts EXCEPT ![l] = NoRecord]
      /\ recent' = [recent EXCEPT ![l] = [a \in 0..Window |-> 0]]
      /\ idle' = [idle EXCEPT ![l] = Window + 1]
  BY DEF NewKey
<1>3. AttemptType'
  BY <1>0, <1>2, NoRecordType, LimiterAssumption DEF AttemptType
<1>4. RecentType'
  BY <1>0, <1>1, <1>2 DEF RecentType
<1>5. ASSUME NEW k \in Limiters PROVE LimitOf(k)'
  <2>1. CASE k = l
    <3>1. attempts'[k] = NoRecord /\ idle'[k] = Window + 1
      BY <1>0, <1>2, <2>1 DEF AttemptType
    <3> QED
      BY <3>1, NoRecordType, LimiterAssumption DEF LimitOf, QuietOf
  <2>2. CASE k # l
    <3>1. attempts'[k] = attempts[k] /\ idle'[k] = idle[k]
      BY <1>0, <1>2, <2>2 DEF AttemptType
    <3> QED
      BY <1>0, <3>1 DEF LimitOf, QuietOf
  <2> QED
    BY <2>1, <2>2
<1> QED
  BY <1>3, <1>4, <1>5

LEMMA AgeStep ==
  ASSUME LimiterInv, LimitersAge
  PROVE  AttemptType' /\ RecentType' /\ \A k \in Limiters : LimitOf(k)'
<1>0. AttemptType /\ RecentType /\ \A k \in Limiters : LimitOf(k)
  BY LimiterParts
<1>1. ASSUME NEW l \in Limiters
      PROVE  /\ attempts'[l] \in AttemptRec
             /\ attempts'[l].count = attempts[l].count
             /\ attempts'[l].age = IF attempts[l].age > Window THEN attempts[l].age ELSE attempts[l].age + 1
             /\ attempts'[l].left = IF attempts[l].left > 0 THEN attempts[l].left - 1 ELSE 0
  <2>1. attempts[l] \in AttemptRec
    BY <1>0 DEF AttemptType
  <2>2. attempts'[l] = [count |-> attempts[l].count,
                        age |-> IF attempts[l].age > Window THEN attempts[l].age ELSE attempts[l].age + 1,
                        left |-> IF attempts[l].left > 0 THEN attempts[l].left - 1 ELSE 0]
    BY DEF LimitersAge, Expired, Blocked
  <2> QED
    BY <2>1, <2>2, LimiterAssumption DEF AttemptRec
<1>2. AttemptType'
  <2>1. attempts' \in [Limiters -> AttemptRec]
    BY <1>1 DEF LimitersAge
  <2>2. idle' \in [Limiters -> 0..Window + 1]
    BY <1>0, LimiterAssumption DEF LimitersAge, AttemptType
  <2> QED
    BY <2>1, <2>2 DEF AttemptType
<1>3. RecentType'
  <2>1. ASSUME NEW l \in Limiters
        PROVE  [a \in 0..Window |-> IF a = 0 THEN 0 ELSE recent[l][a - 1]] \in [0..Window -> Nat]
    BY <1>0, LimiterAssumption DEF RecentType
  <2> QED
    BY <2>1 DEF LimitersAge, RecentType
<1>4. ASSUME NEW l \in Limiters PROVE LimitOf(l)'
  <2>1. /\ attempts[l].age \in Nat /\ attempts[l].left \in 0..Window /\ idle[l] \in Nat
        /\ idle'[l] = IF idle[l] > Window THEN idle[l] ELSE idle[l] + 1
    BY <1>0, LimiterAssumption DEF AttemptType, AttemptRec, LimitersAge
  <2> QED
    BY <1>0, <1>1, <2>1, LimiterAssumption DEF LimitOf, QuietOf
<1> QED
  BY <1>2, <1>3, <1>4

LEMMA LimiterStep ==
  ASSUME LimiterInv,
         \/ UNCHANGED limiterVars
         \/ \E l \in Limiters : Admit(l) \/ Refuse(l) \/ NewKey(l)
         \/ LimitersAge
         \/ LimitersRestart
  PROVE  LimiterInv'
<1>1. CASE UNCHANGED limiterVars
  BY <1>1 DEF limiterVars, LimiterInv, LimiterType, QuietOf
<1>2. CASE LimitersRestart
  BY <1>2, NoRecordType, LimiterAssumption
  DEF LimitersRestart, LimiterInv, LimiterType, QuietOf, AttemptRec
<1>3. CASE LimitersAge \/ \E l \in Limiters : Admit(l) \/ Refuse(l) \/ NewKey(l)
  <2>1. AttemptType' /\ RecentType' /\ \A k \in Limiters : LimitOf(k)'
    BY <1>3, AdmitStep, RefuseStep, NewKeyStep, AgeStep
  <2> QED
    BY <2>1 DEF LimiterInv, LimiterType, AttemptType, RecentType, LimitOf, AttemptRec
<1> QED
  BY <1>1, <1>2, <1>3

\* The limiters take part in the steps of Gate as that lemma has it.
LEMMA LimiterMoves ==
  ASSUME [Next]_vars
  PROVE  \/ UNCHANGED limiterVars
         \/ \E l \in Limiters : Admit(l) \/ Refuse(l) \/ NewKey(l)
         \/ LimitersAge
         \/ LimitersRestart
  BY GateAssumption
  DEF Next, vars, ToggleFullscreen, StatusChanges, SelectChallenge, Reload, Relogin, Arrive,
      ArriveLate, Lose, Attempt, Tick, Restart

\* Whoever keeps still for longer than a window is let through.
THEOREM PatienceAlwaysHelps == Spec => []PatienceHelps
<1>1. Init => LimiterInv
  BY LimiterInitInv DEF Init
<1>2. LimiterInv /\ [Next]_vars => LimiterInv'
  BY LimiterMoves, LimiterStep
<1>3. LimiterInv => PatienceHelps
  BY LimiterAssumption
  DEF LimiterInv, LimiterType, QuietOf, PatienceHelps, Opens, Blocked, Expired
<1> QED
  BY <1>1, <1>2, <1>3, PTL DEF Spec

\* Attempts of the window under way are counted; those of the one before it, which are
\* older than it is, are no more than its limit let through.
LetThrough(l) ==
  /\ \A a \in 0..Window : /\ recent[l][a] <= attempts[l].count + MaxAttempts[l]
                          /\ a <= attempts[l].age => recent[l][a] <= attempts[l].count
  /\ attempts[l].age > Window => recent[l][0] = 0

\* The types of what one limiter keeps.
LEMMA LimiterIs ==
  ASSUME LimiterInv, NEW l \in Limiters
  PROVE  /\ attempts[l].count \in Nat /\ attempts[l].age \in Nat /\ attempts[l].age <= Window + 1
         /\ attempts[l].count <= MaxAttempts[l] /\ MaxAttempts[l] \in Nat \ {0} /\ Window \in Nat
         /\ recent[l] \in [0..Window -> Nat]
  BY LimiterAssumption DEF LimiterInv, LimiterType

LEMMA NothingLetThrough ==
  ASSUME NEW l \in Limiters,
         attempts'[l] = NoRecord, recent'[l] = [a \in 0..Window |-> 0]
  PROVE  LetThrough(l)'
  BY NoRecordType, LimiterAssumption DEF LetThrough

LEMMA AdmitLetsThrough ==
  ASSUME LimiterInv, NEW l \in Limiters, Admit(l), LetThrough(l)
  PROVE  LetThrough(l)'
<1>1. /\ attempts[l].count \in Nat /\ attempts[l].age \in Nat
      /\ attempts[l].count <= MaxAttempts[l] /\ MaxAttempts[l] \in Nat \ {0} /\ Window \in Nat
      /\ recent[l] \in [0..Window -> Nat]
  BY LimiterIs
<1>2. /\ attempts'[l] = Counted(l)
      /\ \A a \in 0..Window : recent'[l][a] = recent[l][a] + 1
  BY <1>1 DEF Admit, LimiterInv, LimiterType
<1>3. CASE attempts[l].age > Window
  <2>1. attempts'[l].count = 1 /\ attempts'[l].age = 0
    BY <1>2, <1>3 DEF Counted, Expired
  <2> QED
    BY <1>1, <1>2, <1>3, <2>1 DEF LetThrough
<1>4. CASE ~(attempts[l].age > Window)
  <2>1. attempts'[l].count = attempts[l].count + 1 /\ attempts'[l].age = attempts[l].age
    BY <1>2, <1>4 DEF Counted, Expired
  <2>2. ASSUME NEW a \in 0..Window
        PROVE  /\ recent'[l][a] <= attempts[l].count + 1 + MaxAttempts[l]
               /\ a <= attempts[l].age => recent'[l][a] <= attempts[l].count + 1
    <3>1. recent[l][a] \in Nat /\ recent'[l][a] = recent[l][a] + 1
      BY <1>1, <1>2
    <3>2. /\ recent[l][a] <= attempts[l].count + MaxAttempts[l]
          /\ a <= attempts[l].age => recent[l][a] <= attempts[l].count
      BY DEF LetThrough
    <3>3. attempts[l].count \in Nat /\ MaxAttempts[l] \in Nat
      BY <1>1
    <3>4. \A x, c, m \in Nat : (x <= c + m => x + 1 <= c + 1 + m) /\ (x <= c => x + 1 <= c + 1)
      OBVIOUS
    <3> QED
      BY <3>1, <3>2, <3>3, <3>4
  <2> QED
    BY <1>4, <2>1, <2>2 DEF LetThrough
<1> QED
  BY <1>3, <1>4

LEMMA AgeLetsThrough ==
  ASSUME LimiterInv, LimitersAge, NEW l \in Limiters, LetThrough(l)
  PROVE  LetThrough(l)'
<1>1. /\ attempts[l].count \in Nat /\ attempts[l].age \in Nat
      /\ attempts[l].count <= MaxAttempts[l] /\ MaxAttempts[l] \in Nat \ {0} /\ Window \in Nat
      /\ recent[l] \in [0..Window -> Nat]
  BY LimiterIs
<1>2. /\ attempts'[l].count = attempts[l].count
      /\ attempts'[l].age = IF attempts[l].age > Window THEN attempts[l].age ELSE attempts[l].age + 1
  BY DEF LimitersAge, Expired
<1>3. \A a \in 0..Window : recent'[l][a] = IF a = 0 THEN 0 ELSE recent[l][a - 1]
  BY DEF LimitersAge
<1>4. ASSUME NEW a \in 0..Window
      PROVE  /\ recent'[l][a] <= attempts[l].count + MaxAttempts[l]
             /\ a <= attempts'[l].age => recent'[l][a] <= attempts[l].count
  <2>1. CASE a = 0
    BY <1>1, <1>3, <2>1
  <2>2. CASE a # 0
    <3>0. a - 1 \in 0..Window
      BY <1>1, <2>2
    <3>1. a - 1 \in 0..Window /\ recent'[l][a] = recent[l][a - 1]
      BY <1>3, <2>2, <3>0
    <3>2. a <= attempts'[l].age => a - 1 <= attempts[l].age
      BY <1>1, <1>2, <2>2
    <3> QED
      BY <3>1, <3>2 DEF LetThrough
  <2> QED
    BY <2>1, <2>2
<1>5. 0 \in 0..Window
  BY <1>1
<1> QED
  BY <1>2, <1>3, <1>4, <1>5 DEF LetThrough

LEMMA BurstStep ==
  ASSUME LimiterInv, \A k \in Limiters : LetThrough(k), NEW l \in Limiters,
         \/ UNCHANGED limiterVars
         \/ \E k \in Limiters : Admit(k) \/ Refuse(k) \/ NewKey(k)
         \/ LimitersAge
         \/ LimitersRestart
  PROVE  LetThrough(l)'
<1>1. attempts \in [Limiters -> AttemptRec] /\ recent \in [Limiters -> [0..Window -> Nat]]
  BY DEF LimiterInv, LimiterType, AttemptRec
<1>2. CASE attempts'[l] = attempts[l] /\ recent'[l] = recent[l]
  BY <1>2 DEF LetThrough
<1>3. ASSUME NEW k \in Limiters, Admit(k) \/ Refuse(k) \/ NewKey(k)
      PROVE  LetThrough(l)'
  <2>1. CASE k # l
    BY <1>1, <1>2, <1>3, <2>1 DEF Admit, Refuse, NewKey
  <2>2. CASE k = l /\ Admit(k)
    BY <2>2, AdmitLetsThrough
  <2>3. CASE k = l /\ Refuse(k)
    <3> DEFINE r == [attempts[l] EXCEPT !.left = IF Blocked(l) THEN @ ELSE BlockTime[l]]
    <3>1. r.count = attempts[l].count /\ r.age = attempts[l].age
      BY <1>1 DEF AttemptRec
    <3>2. attempts'[l] = r /\ recent' = recent
      BY <1>1, <2>3 DEF Refuse
    <3> HIDE DEF r
    <3> QED
      BY <3>1, <3>2 DEF LetThrough
  <2>4. CASE k = l /\ NewKey(k)
    BY <1>1, <2>4, LimiterAssumption, NothingLetThrough DEF NewKey
  <2> QED
    BY <1>3, <2>1, <2>2, <2>3, <2>4
<1>4. CASE UNCHANGED limiterVars
  BY <1>2, <1>4 DEF limiterVars
<1>5. CASE LimitersAge
  BY <1>5, AgeLetsThrough
<1>6. CASE LimitersRestart
  BY <1>6, LimiterAssumption, NothingLetThrough DEF LimitersRestart
<1> QED
  BY <1>3, <1>4, <1>5, <1>6

\* Within the length of one window, no more than twice the limit is let through, whenever
\* the attempts come.
THEOREM BurstsAreBounded == Spec => []Burst
<1> DEFINE Inv == LimiterInv /\ \A l \in Limiters : LetThrough(l)
<1>1. Init => Inv
  <2>1. ASSUME LimiterInit, NEW l \in Limiters
        PROVE  LetThrough(l)
    BY <2>1, NoRecordType, LimiterAssumption DEF LimiterInit, LetThrough
  <2> QED
    BY <2>1, LimiterInitInv DEF Init
<1>2. Inv /\ [Next]_vars => Inv'
  <2>1. LimiterInv /\ [Next]_vars => LimiterInv'
    BY LimiterMoves, LimiterStep
  <2>2. ASSUME Inv, [Next]_vars, NEW l \in Limiters
        PROVE  LetThrough(l)'
    BY <2>2, LimiterMoves, BurstStep
  <2> QED
    BY <2>1, <2>2
<1>3. Inv => Burst
  <2>1. ASSUME LimiterInv, NEW l \in Limiters, LetThrough(l)
        PROVE  recent[l][Window] <= 2 * MaxAttempts[l]
    <3>1. /\ attempts[l].count \in Nat /\ attempts[l].count <= MaxAttempts[l]
          /\ MaxAttempts[l] \in Nat /\ Window \in Nat /\ recent[l] \in [0..Window -> Nat]
      BY <2>1, LimiterIs
    <3>2. recent[l][Window] <= attempts[l].count + MaxAttempts[l] /\ recent[l][Window] \in Nat
      BY <2>1, <3>1 DEF LetThrough
    <3> QED
      BY <3>1, <3>2
  <2> QED
    BY <2>1 DEF Burst
<1> QED
  BY <1>1, <1>2, <1>3, PTL DEF Spec

-----------------------------------------------------------------------------
(* Types *)

PostType == post \in [Posts -> PostRec \cup {Nothing}]
ThrottleType == throttle \in [Types -> EntryRec \cup {Nothing}]
ViewType ==
  /\ fullscreen \in BOOLEAN /\ running \in BOOLEAN
  /\ bySession \in Verdicts \cup {Unknown} /\ byOwner \in Verdicts \cup {Unknown}
  /\ heard \in BOOLEAN

LEMMA NothingIsNoRecord == Nothing \notin PostRec /\ Nothing \notin EntryRec
  BY DEF Nothing, PostRec, EntryRec, Types

LEMMA SaysType ==
  ASSUME NEW fs \in BOOLEAN
  PROVE  /\ Says(fs) \in PostRec
         /\ Says(fs).type = IF fs THEN "ENTER" ELSE "EXIT"
         /\ Says(fs).now = TRUE
  BY DEF Says, PostRec, Types

\* Taking messages for those of another time leaves them messages.
LEMMA OutdatedType ==
  ASSUME PostType
  PROVE  /\ Outdated \in [Posts -> PostRec \cup {Nothing}]
         /\ \A q \in Posts : Outdated[q] # Nothing => Outdated[q].now = FALSE
         /\ Orphaned \in [Posts -> PostRec \cup {Nothing}]
         /\ \A q \in Posts : Orphaned[q] # Nothing => Orphaned[q].now = FALSE
<1> SUFFICES ASSUME NEW q \in Posts
             PROVE  /\ Outdated[q] \in PostRec \cup {Nothing}
                    /\ Outdated[q] # Nothing => Outdated[q].now = FALSE
                    /\ Orphaned[q] \in PostRec \cup {Nothing}
                    /\ Orphaned[q] # Nothing => Orphaned[q].now = FALSE
  BY DEF Outdated, Orphaned
<1>1. CASE post[q] = Nothing
  BY <1>1 DEF Outdated, Orphaned
<1>2. CASE post[q] # Nothing
  BY <1>2, NothingIsNoRecord DEF Outdated, Orphaned, PostType, PostRec
<1> QED
  BY <1>1, <1>2

\* What recording a message does to the throttle keeps its type: what is over
\* the limit of a burst is held back.
LEMMA RecordType ==
  ASSUME ThrottleType, ViewType, NEW q \in Posts, post[q] \in PostRec, Record(q)
  PROVE  ThrottleType' /\ bySession' \in Verdicts \cup {Unknown}
         /\ byOwner' \in Verdicts \cup {Unknown} /\ heard' \in BOOLEAN
<1> DEFINE t == post[q].type
<1>0. t \in Types
  BY DEF PostRec
<1>1. CASE Throttled(t)
  BY <1>1 DEF Record, ThrottleType, ViewType, registryVars
<1>2. CASE ~Throttled(t)
  <2>1. throttle' = [throttle EXCEPT ![t] =
               IF NewBurst(t) THEN [last |-> 0, age |-> 0, count |-> 1]
               ELSE [last |-> 0, age |-> @.age, count |-> @.count + 1]]
        /\ Register(t) /\ heard' = post[q].now
    BY <1>2 DEF Record
  <2>2. CASE NewBurst(t)
    <3>1. [last |-> 0, age |-> 0, count |-> 1] \in EntryRec
      BY GateAssumption, LimiterAssumption DEF EntryRec
    <3> QED
      BY <1>0, <2>1, <2>2, <3>1 DEF ThrottleType, Register, Verdict, Verdicts, PostRec
  <2>3. CASE ~NewBurst(t)
    <3>1. throttle[t] \in EntryRec /\ throttle[t].count < MaxBurst
      BY <1>0, <1>2, <2>3, GateAssumption DEF ThrottleType, NewBurst, Throttled, EntryRec
    <3>2. [last |-> 0, age |-> throttle[t].age, count |-> throttle[t].count + 1] \in EntryRec
      BY <3>1, GateAssumption, LimiterAssumption DEF EntryRec
    <3> QED
      BY <1>0, <2>1, <2>3, <3>2 DEF ThrottleType, Register, Verdict, Verdicts, PostRec
  <2> QED
    BY <2>2, <2>3
<1> QED
  BY <1>1, <1>2

-----------------------------------------------------------------------------
(* The registry *)

\* A message that says how the page is says so rightly.
NowIsNow ==
  \A q \in Posts :
    post[q] # Nothing /\ post[q].now => (post[q].type = "ENTER" <=> fullscreen)

\* What has been heard is in the session's own entry.
HeardHere == heard => bySession = Verdict(IF fullscreen THEN "ENTER" ELSE "EXIT")

PageInv == PostType /\ ThrottleType /\ ViewType /\ NowIsNow /\ HeardHere

LEMMA PageInit == Init => PageInv
  BY NothingIsNoRecord
  DEF Init, PageInv, PostType, ThrottleType, ViewType, NowIsNow, HeardHere

LEMMA RecordHere ==
  ASSUME PageInv, NEW q \in Posts, post[q] # Nothing, Record(q), UNCHANGED pageVars
  PROVE  HeardHere'
<1> DEFINE t == post[q].type
<1>0. post[q] \in PostRec
  BY DEF PageInv, PostType
<1>1. CASE Throttled(t)
  BY <1>1 DEF Record, PageInv, HeardHere, registryVars, pageVars, Verdict
<1>2. CASE ~Throttled(t)
  <2>1. bySession' = Verdict(t) /\ heard' = post[q].now
    BY <1>2 DEF Record, Register
  <2>2. post[q].now => t = IF fullscreen THEN "ENTER" ELSE "EXIT"
    BY <1>0 DEF PageInv, NowIsNow, PostRec, Types
  <2> QED
    BY <2>1, <2>2 DEF HeardHere, pageVars, Verdict
<1> QED
  BY <1>1, <1>2

LEMMA PageStep == PageInv /\ [Next]_vars => PageInv'
<1> SUFFICES ASSUME PageInv, [Next]_vars PROVE PageInv'
  OBVIOUS
<1> USE NothingIsNoRecord DEF PageInv, PostType, ThrottleType, ViewType, NowIsNow, HeardHere,
                              pageVars, registryVars, Verdict
<1>1. CASE ToggleFullscreen
  <2>1. fullscreen' \in BOOLEAN /\ fullscreen' # fullscreen
    BY <1>1 DEF ToggleFullscreen
  <2>2. PostType' /\ NowIsNow'
    <3>1. CASE running
      <4> PICK q \in Posts : post' = [Outdated EXCEPT ![q] = Says(fullscreen')]
        BY <1>1, <3>1 DEF ToggleFullscreen
      <4> QED
        BY <2>1, OutdatedType, SaysType
    <3>2. CASE ~running
      BY <1>1, <3>2, OutdatedType DEF ToggleFullscreen
    <3> QED
      BY <3>1, <3>2
  <2> QED
    BY <1>1, <2>1, <2>2 DEF ToggleFullscreen
<1>2. ASSUME NEW r \in BOOLEAN, Registers(r), UNCHANGED fullscreen
      PROVE  PostType' /\ NowIsNow'
  <2>1. CASE r /\ fullscreen
    <3> PICK q \in Posts : post' = [post EXCEPT ![q] = Says(TRUE)]
      BY <1>2, <2>1 DEF Registers
    <3> QED
      BY <1>2, <2>1, SaysType
  <2>2. CASE ~(r /\ fullscreen)
    BY <1>2, <2>2 DEF Registers
  <2> QED
    BY <2>1, <2>2
<1>3. CASE StatusChanges
  BY <1>2, <1>3 DEF StatusChanges
<1>4. CASE SelectChallenge
  BY <1>2, <1>4 DEF SelectChallenge
<1>5. CASE Reload
  BY <1>5, OutdatedType DEF Reload
<1>6. CASE Relogin
  BY <1>6, OutdatedType DEF Relogin
<1>7. ASSUME NEW q \in Posts, Arrive(q) PROVE PageInv'
  <2>0. post[q] # Nothing /\ post[q] \in PostRec /\ UNCHANGED pageVars
    BY <1>7 DEF Arrive
  <2>1. PostType' /\ NowIsNow' /\ UNCHANGED <<fullscreen, running>>
    BY <1>7 DEF Arrive
  <2>2. CASE Record(q)
    BY <2>0, <2>1, <2>2, RecordType, RecordHere
  <2>3. CASE UNCHANGED <<registryVars, heard>>
    BY <2>1, <2>3
  <2> QED
    BY <1>7, <2>2, <2>3 DEF Arrive
<1>8. ASSUME NEW q \in Posts, ArriveLate(q) PROVE PageInv'
  BY <1>8 DEF ArriveLate, Verdicts
<1>9. ASSUME NEW q \in Posts, Lose(q) PROVE PageInv'
  BY <1>9 DEF Lose
<1>10. ASSUME NEW l \in Limiters, Attempt(l) PROVE PageInv'
  BY <1>10 DEF Attempt
<1>11. CASE Tick
  <2>1. ThrottleType'
    <3> SUFFICES ASSUME NEW t \in Types PROVE throttle'[t] \in EntryRec \cup {Nothing}
      BY <1>11 DEF Tick
    <3>1. CASE throttle[t] = Nothing
      BY <1>11, <3>1 DEF Tick
    <3>2. CASE throttle[t] # Nothing
      <4>1. throttle[t] \in EntryRec
        BY <3>2
      <4>2. throttle'[t] = Later(throttle[t])
        BY <1>11, <3>2 DEF Tick
      <4> QED
        BY <4>1, <4>2, GateAssumption, LimiterAssumption DEF EntryRec, Later
    <3> QED
      BY <3>1, <3>2
  <2> QED
    BY <1>11, <2>1 DEF Tick
<1>12. CASE Restart
  BY <1>12 DEF Restart
<1>13. CASE UNCHANGED vars
  BY <1>13 DEF vars
<1> QED
  BY <1>1, <1>3, <1>4, <1>5, <1>6, <1>7, <1>8, <1>9, <1>10, <1>11, <1>12, <1>13 DEF Next

\* Every variable keeps its type: no limiter and no burst counts past its limit.
THEOREM TypeCorrect == Spec => []TypeOK
<1>1. Init => LimiterInv /\ PageInv
  BY LimiterInitInv, PageInit DEF Init
<1>2. LimiterInv /\ PageInv /\ [Next]_vars => (LimiterInv /\ PageInv)'
  BY LimiterMoves, LimiterStep, PageStep
<1>3. LimiterInv /\ PageInv => TypeOK
  BY DEF LimiterInv, PageInv, PostType, ThrottleType, ViewType, TypeOK
<1> QED
  BY <1>1, <1>2, <1>3, PTL DEF Spec

\* What the gate has heard of the page as it is, it keeps to until the page
\* changes, in whatever order messages come, get lost or are throttled.
THEOREM GateStaysHonest == Spec => []GateHonest
<1>1. PageInv => GateHonest
  BY DEF PageInv, ViewType, HeardHere, GateHonest, Verified, Verdict, Unknown
<1> QED
  BY <1>1, PageInit, PageStep, PTL DEF Spec
=============================================================================
