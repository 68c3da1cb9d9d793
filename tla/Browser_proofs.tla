--------------------------- MODULE Browser_proofs ----------------------------
(***************************************************************************)
(* Theorems about Browser: for any number of challenges, matches and       *)
(* requests under way, and any bounds on messages and drafts.              *)
(***************************************************************************)
EXTENDS Browser, TLAPS

EventAt == [match : Matches, status : Statuses]
Texts == [chal : Challenges, match : Matches]
Requests == [chal : Challenges, match : {0} \cup Matches, current : BOOLEAN, home : BOOLEAN]
Messages == [type : {"status"}, status : Statuses] \cup [type : {"reset"}, match : Matches]

EventType == match \in Matches /\ phase \in Statuses /\ (opening => match < MaxMatch)
PageType ==
  route \in {"waiting", "arena"} /\ parent \in EventAt /\ store \in EventAt /\ wire \in Seq(Messages)
AskType == answer \in [Asks -> EventAt \cup {Nothing}]
LoadType == load \in [Loads -> Requests \cup {Nothing}]
WorkType ==
  /\ active \in Challenges \cup {Nothing} /\ loading \in BOOLEAN
  /\ details \in Texts \cup {Nothing} /\ editor \in Texts \cup {Nothing}
DraftType == drafts \in [Matches -> [Challenges -> Texts \cup {Nothing}]]

BrowserType == EventType /\ PageType /\ AskType /\ LoadType /\ WorkType /\ DraftType

\* The page is in the match in which it was loaded, and each rendering of the arena
\* brings the store back to that.
InItsMatch ==
  /\ parent.match <= match
  /\ route = "arena" => store.match = parent.match

\* Messages to the waiting room end with it; requests of the arena that is on the
\* screen were made by it, and were answered since the page was loaded.
OnTheirWay ==
  /\ \A n \in Notes : answer[n] # Nothing => route = "waiting"
  /\ \A l \in Loads : load[l] # Nothing => (load[l].home => route = "arena")

Served == \A l \in Loads : load[l] # Nothing /\ load[l].match # 0 =>
            load[l].match >= parent.match /\ load[l].match <= match

\* The answer will be shown.
Wanted(l) == load[l] # Nothing /\ load[l].current /\ load[l].home

\* At most one answer will be shown, and the editor is closed until it has come.
OneWanted ==
  \A l \in Loads : Wanted(l) =>
    /\ load[l].chal = active /\ loading
    /\ \A k \in Loads : Wanted(k) => k = l

OnScreen ==
  ~loading /\ details # Nothing =>
    /\ details.chal = active /\ details.match >= parent.match /\ details.match <= match
    /\ editor # Nothing /\ editor.chal = active /\ editor.match = details.match

\* A draft grew from the starter code of the match it is kept in or, on a page that
\* was not loaded since, of a later one; but not of one after that of the answer that
\* will be shown.
Drafted ==
  \A m \in Matches, c \in Challenges : drafts[m][c] # Nothing =>
    /\ drafts[m][c].chal = c /\ m <= parent.match
    /\ m <= drafts[m][c].match /\ drafts[m][c].match <= match
    /\ \A l \in Loads : Wanted(l) /\ load[l].match # 0 => drafts[m][c].match <= load[l].match

BrowserInv ==
  BrowserType /\ InItsMatch /\ OnTheirWay /\ Served /\ OneWanted /\ OnScreen /\ Drafted

-----------------------------------------------------------------------------
LEMMA MatchesAreNumbers == Matches \subseteq Nat /\ {0} \cup Matches \subseteq Nat /\ 1 \in Matches /\ 0 \notin Matches
  BY BrowserAssumption DEF Matches

LEMMA AtType ==
  ASSUME NEW m \in Matches, NEW s \in Statuses
  PROVE  At(m, s) \in EventAt /\ At(m, s).match = m /\ At(m, s).status = s
  BY DEF At, EventAt

LEMMA HookType ==
  ASSUME NEW st \in EventAt, NEW p \in EventAt
  PROVE  Hook(st, p) \in EventAt /\ Hook(st, p).match = p.match
  BY DEF Hook

LEMMA BrowserStarts == Init => BrowserInv
<1> SUFFICES ASSUME Init
             PROVE  BrowserInv
  OBVIOUS
<1>1. At(1, "NOT_STARTED") \in EventAt /\ parent.match = 1 /\ store = parent /\ match = 1
  BY AtType, MatchesAreNumbers DEF Init, Statuses
<1>2. EventType /\ PageType
  BY <1>1, MatchesAreNumbers DEF Init, EventType, PageType, Statuses
<1>3. AskType /\ LoadType /\ WorkType /\ DraftType
  BY DEF Init, AskType, LoadType, WorkType, DraftType
<1>4. InItsMatch
  BY <1>1 DEF InItsMatch
<1>5. OnTheirWay /\ Served /\ OneWanted /\ OnScreen /\ Drafted
  BY DEF Init, OnTheirWay, Served, OneWanted, OnScreen, Drafted, Wanted
<1> QED
  BY <1>2, <1>3, <1>4, <1>5 DEF BrowserInv, BrowserType

\* No step makes a request another one; some end it, answer it, or make it out of date.
Older(l) ==
  load'[l] # Nothing =>
    /\ load[l] # Nothing /\ load'[l].chal = load[l].chal
    /\ load'[l].match = load[l].match
    /\ load'[l].current => load[l].current
    /\ load'[l].home => load[l].home

LEMMA RequestType ==
  ASSUME LoadType, NEW l \in Loads, load[l] # Nothing
  PROVE  load[l] \in Requests /\ load[l].match \in Nat
<1>1. load[l] \in Requests
  BY DEF LoadType
<1>2. load[l].match \in {0} \cup Matches
  BY <1>1 DEF Requests
<1> QED
  BY <1>1, <1>2, MatchesAreNumbers

\* Nothing changes of what the competitor works on.
LEMMA WorkStays ==
  ASSUME BrowserInv, BrowserType', UNCHANGED <<workVars, drafts>>,
         match' >= match, parent'.match = parent.match,
         InItsMatch', OnTheirWay', \A l \in Loads : Older(l)
  PROVE  BrowserInv'
<1>1. match \in Nat /\ match' \in Nat /\ parent.match \in Nat /\ parent.match <= match
  BY MatchesAreNumbers DEF BrowserInv, BrowserType, EventType, PageType, EventAt, InItsMatch
<1>2. \A l \in Loads : load[l] # Nothing => load[l].match \in Nat
  BY RequestType DEF BrowserInv, BrowserType
<1>3. Served'
  BY <1>1, <1>2 DEF BrowserInv, Served, Older
<1>4. \A l \in Loads : Wanted(l)' => Wanted(l) /\ load'[l].chal = load[l].chal
  BY DEF Wanted, Older
<1>5. OneWanted'
  BY <1>4 DEF workVars, BrowserInv, OneWanted
<1>6. OnScreen'
  <2>1. details # Nothing => details.match \in Nat
    BY MatchesAreNumbers DEF BrowserInv, BrowserType, WorkType, Texts
  <2> QED
    BY <1>1, <2>1 DEF workVars, BrowserInv, OnScreen
<1>7. Drafted'
  <2> SUFFICES ASSUME NEW m \in Matches, NEW c \in Challenges, drafts[m][c] # Nothing
               PROVE  /\ drafts[m][c].chal = c /\ m <= parent.match
                      /\ m <= drafts[m][c].match /\ drafts[m][c].match <= match'
                      /\ \A l \in Loads : Wanted(l)' /\ load'[l].match # 0 =>
                           drafts[m][c].match <= load'[l].match
    BY DEF Drafted
  <2>1. drafts[m][c].match \in Nat
    BY ZenonT(40), MatchesAreNumbers DEF BrowserInv, BrowserType, DraftType, Texts
  <2>2. drafts[m][c].match <= match'
    BY <1>1, <2>1 DEF BrowserInv, Drafted
  <2> QED
    BY <1>4, <2>2 DEF BrowserInv, Drafted, Older, Wanted
<1> QED
  BY <1>3, <1>5, <1>6, <1>7 DEF BrowserInv

\* What the competitor works on is given up, with all requests.
LEMMA WorkEnds ==
  ASSUME BrowserInv, BrowserType', ClearWork, UNCHANGED <<match, drafts>>,
         parent'.match = parent.match, InItsMatch', OnTheirWay',
         \A l \in Loads : Older(l) /\ ~Wanted(l)'
  PROVE  BrowserInv'
<1>1. Served'
  BY DEF BrowserInv, Served, Older
<1>2. OneWanted' /\ OnScreen'
  BY DEF OneWanted, OnScreen, ClearWork
<1>3. Drafted'
  BY DEF BrowserInv, Drafted
<1> QED
  BY <1>1, <1>2, <1>3 DEF BrowserInv

LEMMA RequestsStay ==
  ASSUME NEW l \in Loads, UNCHANGED load
  PROVE  Older(l)
  BY DEF Older

\* What is said over the stream.
LEMMA TellType ==
  ASSUME PageType, NEW m \in Messages, Tell(m)
  PROVE  wire' \in Seq(Messages)
  BY DEF PageType, Tell

LEMMA EventStep ==
  ASSUME BrowserInv, Event
  PROVE  BrowserInv'
<1>1. UNCHANGED <<route, parent, store, stream, answer, load, workVars, drafts>>
  BY DEF Event, Transitions, Transition, Announce, Commit, Abort, pageVars
<1>2. EventType' /\ match' >= match
  <2>1. match \in Nat /\ (Commit => match + 1 \in Matches /\ match < MaxMatch)
    BY BrowserAssumption DEF Commit, BrowserInv, BrowserType, EventType, Matches
  <2>2. CASE Commit
    BY <2>1, <2>2 DEF Commit, EventType, Statuses
  <2>3. CASE ~Commit
    <3>1. match' = match /\ phase' \in Statuses /\ (opening' => match < MaxMatch)
      BY <2>3 DEF Event, Transitions, Transition, Announce, Commit, Abort, BrowserInv, BrowserType,
                  EventType, Statuses
    <3> QED
      BY <2>1, <3>1 DEF BrowserInv, BrowserType, EventType
  <2> QED
    BY <2>2, <2>3
<1>3. wire' \in Seq(Messages)
  <2>1. ASSUME NEW s \in Statuses
        PROVE  [type |-> "status", status |-> s] \in Messages
    BY DEF Messages
  <2>2. CASE Announce
    <3>1. match + 1 \in Matches
      BY <2>2, BrowserAssumption DEF Announce, BrowserInv, BrowserType, EventType, Matches
    <3>2. [type |-> "reset", match |-> match + 1] \in Messages
      BY <3>1 DEF Messages
    <3> QED
      BY <2>2, <3>2, TellType DEF Announce, BrowserInv, BrowserType
  <2>3. CASE Transitions
    BY <2>1, <2>3, TellType DEF Transitions, Transition, BrowserInv, BrowserType, Statuses
  <2>4. CASE Commit \/ Abort
    BY <2>4 DEF Commit, Abort, pageVars, BrowserInv, BrowserType, PageType
  <2> QED
    BY <2>2, <2>3, <2>4 DEF Event
<1>4. BrowserType'
  BY <1>1, <1>2, <1>3
  DEF workVars, BrowserInv, BrowserType, PageType, AskType, LoadType, WorkType, DraftType
<1>5. InItsMatch'
  <2>1. parent.match \in Nat /\ match \in Nat /\ match' \in Nat
    BY <1>2, MatchesAreNumbers DEF BrowserInv, BrowserType, PageType, EventType, EventAt
  <2> QED
    BY <1>1, <1>2, <2>1 DEF BrowserInv, InItsMatch
<1>6. OnTheirWay'
  BY <1>1 DEF BrowserInv, OnTheirWay
<1> QED
  BY <1>1, <1>2, <1>4, <1>5, <1>6, WorkStays, RequestsStay

LEMMA AskStep ==
  ASSUME BrowserInv, Poll \/ Wait
  PROVE  BrowserInv'
<1>1. PICK a \in Asks : Ask(a) /\ (a \in Notes => route = "waiting")
  BY BrowserAssumption DEF Poll, Wait, AskSync, AskProgress, SendNote, SendBeat, Asks
<1>2. /\ answer' = [answer EXCEPT ![a] = At(match, phase)]
      /\ UNCHANGED <<eventVars, pageVars, load, workVars, drafts>>
  BY <1>1 DEF Ask
<1>3. At(match, phase) \in EventAt
  BY AtType DEF BrowserInv, BrowserType, EventType
<1>4. BrowserType'
  BY <1>2, <1>3 DEF eventVars, pageVars, workVars, BrowserInv, BrowserType, EventType, PageType,
                    AskType, LoadType, WorkType, DraftType
<1>5. InItsMatch' /\ OnTheirWay'
  BY <1>1, <1>2 DEF eventVars, pageVars, BrowserInv, BrowserType, AskType, InItsMatch, OnTheirWay
<1>6. match \in Nat
  BY MatchesAreNumbers DEF BrowserInv, BrowserType, EventType
<1> QED
  BY <1>2, <1>4, <1>5, <1>6, WorkStays, RequestsStay DEF eventVars, pageVars

\* The page returns to the waiting room.
LEMMA LeaveStep ==
  ASSUME BrowserInv, NEW st \in EventAt, Leave(st), UNCHANGED <<eventVars, drafts>>,
         AskType', \A a \in Asks : answer'[a] # Nothing => answer[a] # Nothing,
         LoadType', \A l \in Loads : Older(l) /\ (load'[l] # Nothing => ~load'[l].home)
  PROVE  BrowserInv'
<1>1. parent' \in EventAt /\ parent'.match = parent.match
  BY DEF Leave, BrowserInv, BrowserType, PageType, EventAt, Statuses
<1>2. BrowserType'
  <2>1. PageType'
    BY <1>1 DEF Leave, PageType
  <2>2. WorkType'
    BY DEF Leave, ClearWork, WorkType
  <2> QED
    BY <2>1, <2>2 DEF eventVars, BrowserInv, BrowserType, EventType, DraftType
<1>3. InItsMatch' /\ OnTheirWay'
  BY <1>1 DEF Leave, eventVars, BrowserInv, InItsMatch, OnTheirWay
<1>4. \A l \in Loads : ~Wanted(l)'
  BY DEF Wanted
<1> QED
  BY <1>1, <1>2, <1>3, <1>4, WorkEnds DEF Leave, eventVars

LEMMA AbandonIs ==
  ASSUME LoadType, NEW bump \in BOOLEAN, Abandon(bump)
  PROVE  LoadType' /\ \A l \in Loads : Older(l) /\ (load'[l] # Nothing => ~load'[l].home)
<1>1. \A l \in Loads : load'[l] = IF load[l] = Nothing THEN Nothing
        ELSE [load[l] EXCEPT !.home = FALSE, !.current = load[l].current /\ ~bump]
  BY DEF Abandon
<1>2. ASSUME NEW l \in Loads, load[l] # Nothing
      PROVE  /\ load'[l] \in Requests /\ load'[l].chal = load[l].chal
             /\ load'[l].match = load[l].match /\ load'[l].home = FALSE
             /\ load'[l].current => load[l].current
  BY <1>1, <1>2, RequestType DEF Requests
<1>3. DOMAIN load' = Loads /\ load' = [l \in Loads |-> load'[l]]
  BY DEF Abandon
<1> QED
  BY <1>1, <1>2, <1>3 DEF LoadType, Older

\* The page opens the arena.
LEMMA EnterStep ==
  ASSUME BrowserInv, route = "waiting", NEW st \in EventAt, NEW p \in EventAt,
         p.match = parent.match, Enter(p, st), ClearWork, UNCHANGED <<eventVars, load, drafts>>,
         AskType', \A n \in Notes : answer'[n] = Nothing
  PROVE  BrowserInv'
<1>1. parent' = p /\ store' \in EventAt /\ store'.match = p.match
  BY HookType DEF Enter
<1>2. BrowserType'
  <2>1. PageType'
    BY <1>1 DEF Enter, PageType
  <2>2. WorkType'
    BY DEF ClearWork, WorkType
  <2> QED
    BY <2>1, <2>2 DEF eventVars, BrowserInv, BrowserType, EventType, LoadType, DraftType
<1>3. \A l \in Loads : load'[l] # Nothing => ~load'[l].home
  BY DEF BrowserInv, OnTheirWay
<1>4. InItsMatch' /\ OnTheirWay'
  BY <1>1, <1>3 DEF eventVars, BrowserInv, InItsMatch, OnTheirWay
<1>5. \A l \in Loads : ~Wanted(l)'
  BY <1>3 DEF Wanted
<1> QED
  BY <1>1, <1>2, <1>4, <1>5, WorkEnds, RequestsStay DEF eventVars

\* The store, the status of the parent and the stream change, and answers are heard.
LEMMA StoreStep ==
  ASSUME BrowserInv, UNCHANGED <<eventVars, route, load, workVars, drafts>>,
         store' \in EventAt, parent' \in EventAt, parent'.match = parent.match,
         route = "arena" => store'.match = parent.match, wire' \in Seq(Messages),
         AskType', \A a \in Asks : answer'[a] # Nothing => answer[a] # Nothing
  PROVE  BrowserInv'
<1>1. BrowserType'
  BY DEF eventVars, workVars, BrowserInv, BrowserType, EventType, PageType, LoadType, WorkType,
         DraftType
<1>2. InItsMatch'
  BY DEF eventVars, BrowserInv, InItsMatch
<1>3. OnTheirWay'
  BY DEF BrowserInv, OnTheirWay, Asks
<1>4. match \in Nat
  BY MatchesAreNumbers DEF BrowserInv, BrowserType, EventType
<1> QED
  BY <1>1, <1>2, <1>3, <1>4, WorkStays, RequestsStay DEF eventVars

LEMMA ForgetIs ==
  ASSUME AskType, NEW a \in Asks, Forget(a)
  PROVE  AskType' /\ answer'[a] = Nothing /\ \A b \in Asks : answer'[b] # Nothing => answer[b] # Nothing
  BY DEF AskType, Forget

LEMMA HeardType ==
  ASSUME BrowserInv, NEW a \in Asks, answer[a] # Nothing
  PROVE  answer[a] \in EventAt
  BY DEF BrowserInv, BrowserType, AskType

LEMMA HearPollStep ==
  ASSUME BrowserInv, NEW a \in Asks, HearSync(a) \/ HearProgress(a)
  PROVE  BrowserInv'
<1>1. /\ AskType' /\ \A b \in Asks : answer'[b] # Nothing => answer[b] # Nothing
      /\ answer[a] \in EventAt /\ store \in EventAt /\ parent \in EventAt
  BY ForgetIs, HeardType DEF HearSync, HearProgress, BrowserInv, BrowserType, PageType
<1>2. CASE HearProgress(a) \/ answer[a].status = "NOT_STARTED"
  <2>1. (Leave(answer[a]) \/ Leave(store)) /\ Abandon(FALSE) /\ UNCHANGED <<eventVars, drafts>>
    BY <1>2 DEF HearSync, HearProgress
  <2>2. LoadType' /\ \A l \in Loads : Older(l) /\ (load'[l] # Nothing => ~load'[l].home)
    BY <2>1, AbandonIs DEF BrowserInv, BrowserType
  <2> QED
    BY <1>1, <2>1, <2>2, LeaveStep
<1>3. CASE HearSync(a) /\ answer[a].status # "NOT_STARTED"
  <2>1. store' \in EventAt /\ (route = "arena" => store'.match = parent.match)
    BY <1>1, <1>3, HookType DEF HearSync
  <2>2. wire \in Seq(Messages)
    BY DEF BrowserInv, BrowserType, PageType
  <2>3. UNCHANGED <<eventVars, route, parent, wire, load, workVars, drafts>>
    BY <1>3 DEF HearSync
  <2> QED
    BY <1>1, <2>1, <2>2, <2>3, StoreStep
<1> QED
  BY <1>2, <1>3

LEMMA HearNoteStep ==
  ASSUME BrowserInv, NEW n \in Notes, HearNote(n)
  PROVE  BrowserInv'
<1>1. /\ n \in Asks /\ answer[n] \in EventAt /\ route = "waiting" /\ parent \in EventAt
      /\ wire \in Seq(Messages)
  BY HeardType DEF HearNote, Asks, BrowserInv, BrowserType, PageType, OnTheirWay
<1>2. CASE answer[n].status = "RUNNING"
  <2> DEFINE p == [parent EXCEPT !.status = "RUNNING"]
  <2>1. p \in EventAt /\ p.match = parent.match
    BY <1>1 DEF EventAt, Statuses
  <2>2. /\ Enter(p, answer[n]) /\ ClearWork /\ UNCHANGED <<eventVars, load, drafts>>
        /\ answer' = [a \in Asks |-> IF a \in Notes THEN Nothing ELSE answer[a]]
    BY <1>2 DEF HearNote, EventStart
  <2>3. AskType' /\ \A m \in Notes : answer'[m] = Nothing
    BY <2>2 DEF AskType, Asks, BrowserInv, BrowserType
  <2> HIDE DEF p
  <2> QED
    BY <1>1, <2>1, <2>2, <2>3, EnterStep
<1>3. CASE answer[n].status # "RUNNING"
  <2>1. /\ store' = answer[n] /\ Forget(n)
        /\ UNCHANGED <<eventVars, route, parent, wire, load, workVars, drafts>>
    BY <1>3 DEF HearNote
  <2>2. AskType' /\ \A b \in Asks : answer'[b] # Nothing => answer[b] # Nothing
    BY <1>1, <2>1, ForgetIs DEF BrowserInv, BrowserType
  <2> QED
    BY <1>1, <2>1, <2>2, StoreStep
<1> QED
  BY <1>2, <1>3

LEMMA HearBeatStep ==
  ASSUME BrowserInv, NEW b \in Beats, HearBeat(b)
  PROVE  BrowserInv'
<1> DEFINE p == [parent EXCEPT !.status = "RUNNING"]
           started == At(store.match, "RUNNING")
<1>1. /\ b \in Asks /\ p \in EventAt /\ p.match = parent.match /\ wire \in Seq(Messages)
  BY DEF Asks, BrowserInv, BrowserType, PageType, EventAt, Statuses
<1>2. started \in EventAt /\ started.match = store.match
  <2>1. store.match \in Matches
    BY DEF BrowserInv, BrowserType, PageType, EventAt
  <2> QED
    BY <2>1, AtType DEF Statuses
<1>3. UNCHANGED <<eventVars, load, drafts>>
  BY DEF HearBeat
<1>4. CASE route = "waiting"
  <2>1. /\ Enter(p, started) /\ ClearWork
        /\ answer' = [a \in Asks |-> IF a \in Notes \cup {b} THEN Nothing ELSE answer[a]]
    BY <1>4 DEF HearBeat
  <2>2. AskType' /\ \A m \in Notes : answer'[m] = Nothing
    BY <2>1 DEF AskType, Asks, BrowserInv, BrowserType
  <2> HIDE DEF p, started
  <2> QED
    BY <1>1, <1>2, <1>3, <1>4, <2>1, <2>2, EnterStep
<1>5. CASE route # "waiting"
  <2>1. /\ parent' = p /\ store' = started /\ Forget(b)
        /\ UNCHANGED <<route, wire, workVars>>
    BY <1>5 DEF HearBeat
  <2>2. AskType' /\ \A a \in Asks : answer'[a] # Nothing => answer[a] # Nothing
    BY <1>1, <2>1, ForgetIs DEF BrowserInv, BrowserType
  <2>3. route = "arena" => store.match = parent.match
    BY DEF BrowserInv, InItsMatch
  <2> HIDE DEF p, started
  <2> QED
    BY <1>1, <1>2, <1>3, <2>1, <2>2, <2>3, StoreStep
<1> QED
  BY <1>4, <1>5

LEMMA StreamStep ==
  ASSUME BrowserInv, Connect \/ Break \/ HearStatus
  PROVE  BrowserInv'
<1>1. /\ UNCHANGED <<eventVars, route, parent, answer, load, workVars, drafts>>
      /\ HearStatus => wire # <<>> /\ wire' = Tail(wire)
      /\ ~HearStatus => (wire' = wire \/ wire' = <<>>) /\ store' = store
  BY DEF Connect, Break, HearStatus
<1>2. wire' \in Seq(Messages)
  <2>1. wire \in Seq(Messages)
    BY DEF BrowserInv, BrowserType, PageType
  <2>2. CASE HearStatus
    BY <1>1, <2>1, <2>2
  <2>3. CASE ~HearStatus
    <3>1. <<>> \in Seq(Messages)
      OBVIOUS
    <3>2. wire' = wire \/ wire' = <<>>
      BY <1>1, <2>3
    <3> QED
      BY <2>1, <3>1, <3>2
  <2> QED
    BY <2>2, <2>3
<1>3. store' \in EventAt /\ store'.match = store.match
  <2>1. CASE HearStatus
    <3>1. Head(wire) \in Messages /\ Head(wire).type = "status"
      BY <2>1 DEF HearStatus, BrowserInv, BrowserType, PageType
    <3>2. Head(wire).status \in Statuses
      BY <3>1 DEF Messages
    <3>3. store' = [store EXCEPT !.status = Head(wire).status] /\ store \in EventAt
      BY <2>1 DEF HearStatus, BrowserInv, BrowserType, PageType
    <3> QED
      BY <3>2, <3>3 DEF EventAt
  <2>2. CASE ~HearStatus
    BY <1>1, <2>2 DEF BrowserInv, BrowserType, PageType
  <2> QED
    BY <2>1, <2>2
<1>4. /\ parent' \in EventAt /\ (route = "arena" => store'.match = parent.match)
      /\ AskType' /\ \A a \in Asks : answer'[a] # Nothing => answer[a] # Nothing
  BY <1>1, <1>3 DEF BrowserInv, BrowserType, PageType, AskType, InItsMatch
<1> QED
  BY <1>1, <1>2, <1>3, <1>4, StoreStep

LEMMA HearResetStep ==
  ASSUME BrowserInv, HearReset
  PROVE  BrowserInv'
<1>1. Head(wire) \in Messages /\ Head(wire).type = "reset"
  BY DEF HearReset, BrowserInv, BrowserType, PageType
<1>2. Head(wire).match \in Matches
  BY <1>1 DEF Messages
<1>3. At(Head(wire).match, "NOT_STARTED") \in EventAt
  BY <1>2, AtType DEF Statuses
<1>4. PICK bump \in BOOLEAN : Abandon(bump)
  BY DEF HearReset
<1>5. LoadType' /\ \A l \in Loads : Older(l) /\ (load'[l] # Nothing => ~load'[l].home)
  BY <1>4, AbandonIs DEF BrowserInv, BrowserType
<1>6. AskType' /\ UNCHANGED answer
  BY DEF HearReset, BrowserInv, BrowserType, AskType
<1> QED
  BY <1>3, <1>5, <1>6, LeaveStep DEF HearReset

LEMMA ReloadStep ==
  ASSUME BrowserInv, Reload
  PROVE  BrowserInv'
<1>1. At(match, phase) \in EventAt /\ At(match, phase).match = match
  BY AtType DEF BrowserInv, BrowserType, EventType
<1>2. /\ parent' = At(match, phase) /\ store' = parent' /\ wire' = <<>>
      /\ route' \in {"waiting", "arena"} /\ ClearWork /\ UNCHANGED <<eventVars, drafts>>
      /\ answer' = [a \in Asks |-> Nothing] /\ load' = [l \in Loads |-> Nothing]
  BY DEF Reload, Restored
<1>3. BrowserType'
  <2>1. PageType'
    BY <1>1, <1>2 DEF PageType
  <2>2. WorkType'
    BY <1>2 DEF ClearWork, WorkType
  <2> QED
    BY <1>2, <2>1, <2>2
    DEF eventVars, BrowserInv, BrowserType, EventType, AskType, LoadType, DraftType
<1>4. match \in Nat
  BY MatchesAreNumbers DEF BrowserInv, BrowserType, EventType
<1>5. InItsMatch' /\ OnTheirWay' /\ Served' /\ OneWanted' /\ OnScreen'
  BY <1>1, <1>2, <1>4
  DEF eventVars, ClearWork, InItsMatch, OnTheirWay, Served, OneWanted, OnScreen, Wanted, Asks
<1>6. Drafted'
  <2>1. ASSUME NEW m \in Matches, NEW c \in Challenges, drafts[m][c] # Nothing
        PROVE  /\ drafts[m][c].chal = c /\ m <= match
               /\ m <= drafts[m][c].match /\ drafts[m][c].match <= match
    <3>1. drafts[m][c] \in Texts
      BY <2>1 DEF BrowserInv, BrowserType, DraftType
    <3>2. drafts[m][c].match \in Nat /\ m \in Nat
      BY <3>1, MatchesAreNumbers DEF Texts
    <3> QED
      BY <1>4, <2>1, <3>2 DEF BrowserInv, Drafted
  <2>2. parent'.match = match /\ \A l \in Loads : ~Wanted(l)'
    BY <1>1, <1>2 DEF Wanted
  <2> QED
    BY <1>2, <2>1, <2>2 DEF eventVars, Drafted
<1> QED
  BY <1>3, <1>5, <1>6 DEF BrowserInv

-----------------------------------------------------------------------------
(* Challenges *)

LEMMA EndIs ==
  ASSUME LoadType, NEW l \in Loads, End(l)
  PROVE  LoadType' /\ load'[l] = Nothing /\ \A k \in Loads : Older(k) /\ (k # l => load'[k] = load[k])
  BY DEF LoadType, End, Older

\* Requests that are not wanted come to their end.
LEMMA UnwantedEnd ==
  ASSUME BrowserInv, NEW l \in Loads, End(l), UNCHANGED <<eventVars, workVars, answer, drafts>>,
         PageType', InItsMatch', parent' = parent, route' = route
  PROVE  BrowserInv'
<1>1. LoadType' /\ \A k \in Loads : Older(k)
  BY EndIs DEF BrowserInv, BrowserType
<1>2. BrowserType'
  BY <1>1 DEF eventVars, workVars, BrowserInv, BrowserType, EventType, AskType, WorkType, DraftType
<1>3. OnTheirWay'
  BY <1>1 DEF BrowserInv, OnTheirWay, Older
<1>4. match \in Nat
  BY MatchesAreNumbers DEF BrowserInv, BrowserType, EventType
<1> QED
  BY <1>1, <1>2, <1>3, <1>4, WorkStays DEF eventVars

LEMMA LoadStep ==
  ASSUME BrowserInv, NEW l \in Loads, NEW c \in Challenges, LoadChallenge(l, c)
  PROVE  BrowserInv'
<1> DEFINE q == [chal |-> c, match |-> 0, current |-> TRUE, home |-> TRUE]
           old(k) == [load[k] EXCEPT !.current = FALSE]
<1>1. /\ route = "arena" /\ load[l] = Nothing /\ active' = c /\ loading' = TRUE
      /\ UNCHANGED <<eventVars, pageVars, answer, details, editor, drafts>>
      /\ load' = [k \in Loads |-> IF k = l THEN q
                    ELSE IF load[k] # Nothing /\ load[k].home THEN old(k) ELSE load[k]]
  BY DEF LoadChallenge
<1>2. q \in Requests
  BY DEF Requests
<1>3. ASSUME NEW k \in Loads, load[k] # Nothing
      PROVE  /\ old(k) \in Requests /\ old(k).chal = load[k].chal /\ old(k).match = load[k].match
             /\ old(k).current = FALSE /\ old(k).home = load[k].home
  BY <1>3, RequestType DEF Requests, BrowserInv, BrowserType
<1> HIDE DEF old
<1>4. ASSUME NEW k \in Loads, k # l
      PROVE  /\ load'[k] \in Requests \cup {Nothing}
             /\ load'[k] # Nothing => load[k] # Nothing /\ load'[k].match = load[k].match
             /\ ~Wanted(k)'
  BY <1>1, <1>3, <1>4 DEF Wanted, BrowserInv, BrowserType, LoadType
<1>5. load'[l] = q
  BY <1>1
<1>6. BrowserType'
  <2>1. LoadType'
    <3>1. load' = [k \in Loads |-> load'[k]]
      BY <1>1
    <3> HIDE DEF q
    <3> QED
      BY <1>2, <1>4, <1>5, <3>1 DEF LoadType
  <2> QED
    BY <1>1, <2>1 DEF eventVars, pageVars, BrowserInv, BrowserType, EventType, PageType, AskType,
                      WorkType, DraftType
<1>7. InItsMatch' /\ OnTheirWay'
  BY <1>1 DEF eventVars, pageVars, BrowserInv, InItsMatch, OnTheirWay
<1>8. Served'
  BY <1>1, <1>4, <1>5 DEF eventVars, pageVars, BrowserInv, Served
<1>9. OneWanted' /\ OnScreen'
  BY <1>1, <1>4, <1>5 DEF OneWanted, OnScreen
<1>10. Drafted'
  BY <1>1, <1>4, <1>5 DEF eventVars, pageVars, BrowserInv, Drafted
<1> QED
  BY <1>6, <1>7, <1>8, <1>9, <1>10 DEF BrowserInv

LEMMA ServeStep ==
  ASSUME BrowserInv, NEW l \in Loads, ServeChallenge(l)
  PROVE  BrowserInv'
<1> DEFINE q == [load[l] EXCEPT !.match = match]
<1>1. /\ load[l] # Nothing /\ load[l].match = 0 /\ load' = [load EXCEPT ![l] = q]
      /\ UNCHANGED <<eventVars, pageVars, answer, workVars, drafts>>
  BY DEF ServeChallenge
<1>2. match \in Matches /\ match \in Nat /\ parent.match <= match
  BY MatchesAreNumbers DEF BrowserInv, BrowserType, EventType, InItsMatch
<1>3. /\ q \in Requests /\ q.chal = load[l].chal /\ q.match = match
      /\ q.current = load[l].current /\ q.home = load[l].home
  BY <1>1, <1>2, RequestType DEF Requests, BrowserInv, BrowserType
<1> HIDE DEF q
<1>4. LoadType' /\ load'[l] = q /\ \A k \in Loads \ {l} : load'[k] = load[k]
  BY <1>1, <1>3 DEF BrowserInv, BrowserType, LoadType
<1>5. BrowserType'
  BY <1>1, <1>4 DEF eventVars, pageVars, workVars, BrowserInv, BrowserType, EventType, PageType,
                    AskType, WorkType, DraftType
<1>6. InItsMatch' /\ OnScreen'
  BY <1>1 DEF eventVars, pageVars, workVars, BrowserInv, InItsMatch, OnScreen
<1>7. OnTheirWay' /\ Served'
  BY <1>1, <1>2, <1>3, <1>4 DEF eventVars, pageVars, BrowserInv, OnTheirWay, Served
<1>8. \A k \in Loads : Wanted(k)' => Wanted(k) /\ load'[k].chal = load[k].chal
  BY <1>1, <1>3, <1>4 DEF Wanted
<1>9. OneWanted'
  BY <1>1, <1>8 DEF workVars, BrowserInv, OneWanted
<1>10. Drafted'
  <2>1. \A m \in Matches, c \in Challenges : drafts[m][c] # Nothing => drafts[m][c].match <= match
    BY DEF BrowserInv, Drafted
  <2> QED
    BY <1>1, <1>3, <1>4, <1>8, <2>1 DEF eventVars, pageVars, BrowserInv, Drafted
<1> QED
  BY <1>5, <1>6, <1>7, <1>9, <1>10 DEF BrowserInv

LEMMA RefuseStep ==
  ASSUME BrowserInv, NEW l \in Loads, Refuse(l)
  PROVE  BrowserInv'
<1>1. load[l] # Nothing /\ UNCHANGED <<eventVars, answer, drafts>>
  BY DEF Refuse
<1>2. CASE load[l].current
  <2> DEFINE away(k) == [load[k] EXCEPT !.home = FALSE]
  <2>1. /\ Leave(store)
        /\ load' = [k \in Loads |-> IF k = l \/ load[k] = Nothing THEN Nothing ELSE away(k)]
    BY <1>2 DEF Refuse
  <2>2. ASSUME NEW k \in Loads, load[k] # Nothing
        PROVE  /\ away(k) \in Requests /\ away(k).chal = load[k].chal
               /\ away(k).match = load[k].match /\ away(k).current = load[k].current
               /\ away(k).home = FALSE
    BY <2>2, RequestType DEF Requests, BrowserInv, BrowserType
  <2> HIDE DEF away
  <2>3. LoadType' /\ \A k \in Loads : Older(k) /\ (load'[k] # Nothing => ~load'[k].home)
    BY <2>1, <2>2 DEF LoadType, Older
  <2>4. store \in EventAt /\ AskType'
    BY <1>1 DEF BrowserInv, BrowserType, PageType, AskType
  <2> QED
    BY <1>1, <2>1, <2>3, <2>4, LeaveStep
<1>3. CASE ~load[l].current
  <2>1. End(l) /\ UNCHANGED <<pageVars, workVars>>
    BY <1>3 DEF Refuse
  <2>2. PageType' /\ InItsMatch'
    BY <1>1, <2>1 DEF eventVars, pageVars, BrowserInv, BrowserType, PageType, InItsMatch
  <2> QED
    BY <1>1, <2>1, <2>2, UnwantedEnd DEF pageVars
<1> QED
  BY <1>2, <1>3

\* What is shown of a challenge, and whether there is one, is settled by the one
\* answer that is wanted.
LEMMA WantedEnds ==
  ASSUME BrowserInv, NEW l \in Loads, Wanted(l), End(l),
         UNCHANGED <<eventVars, answer, active, drafts>>, PageType', InItsMatch',
         parent' = parent, route' = route, WorkType',
         details' # Nothing =>
           /\ details'.chal = active /\ details'.match >= parent.match /\ details'.match <= match
           /\ editor' # Nothing /\ editor'.chal = active /\ editor'.match = details'.match
  PROVE  BrowserInv'
<1>1. /\ LoadType' /\ load'[l] = Nothing
      /\ \A k \in Loads : Older(k) /\ (k # l => load'[k] = load[k])
  BY EndIs DEF BrowserInv, BrowserType
<1>2. \A k \in Loads : ~Wanted(k)'
  BY <1>1 DEF Wanted, BrowserInv, OneWanted
<1>3. BrowserType'
  BY <1>1 DEF eventVars, BrowserInv, BrowserType, EventType, AskType, DraftType
<1>4. OnTheirWay' /\ Served'
  BY <1>1 DEF eventVars, BrowserInv, OnTheirWay, Served, Older
<1>5. OneWanted' /\ OnScreen'
  BY <1>2 DEF eventVars, OneWanted, OnScreen
<1>6. Drafted'
  BY <1>2 DEF eventVars, BrowserInv, Drafted
<1> QED
  BY <1>3, <1>4, <1>5, <1>6 DEF BrowserInv

LEMMA LoadedStep ==
  ASSUME BrowserInv, NEW l \in Loads, Loaded(l)
  PROVE  BrowserInv'
<1>1. /\ load[l] # Nothing /\ load[l].match # 0 /\ End(l)
      /\ UNCHANGED <<eventVars, route, parent, stream, wire, answer, drafts>>
      /\ load[l] \in Requests
  BY RequestType DEF Loaded, BrowserInv, BrowserType
<1>2. load[l].match \in Matches /\ load[l].chal \in Challenges
  BY <1>1 DEF Requests
<1>3. store' \in EventAt /\ (route = "arena" => store'.match = parent.match)
  <2>1. store \in EventAt /\ parent \in EventAt
    BY DEF BrowserInv, BrowserType, PageType
  <2>2. Switch(store, load[l].match) \in EventAt
    BY <1>2, <2>1, AtType DEF Switch, Statuses
  <2>3. \/ store' = store \/ (route = "arena" /\ store' = Hook(Switch(store, load[l].match), parent))
        \/ (route # "arena" /\ store' = Switch(store, load[l].match))
    BY DEF Loaded
  <2> QED
    BY <2>1, <2>2, <2>3, HookType DEF BrowserInv, InItsMatch
<1>4. PageType' /\ InItsMatch'
  BY <1>1, <1>3 DEF eventVars, BrowserInv, BrowserType, PageType, InItsMatch
<1>5. CASE load[l].current /\ load[l].home
  <2> DEFINE c == load[l].chal
             starter == Text(c, load[l].match)
             kept == drafts[load[l].match][c]
  <2>1. Wanted(l) /\ c = active
    BY <1>1, <1>5 DEF Wanted, BrowserInv, OneWanted
  <2>2. /\ active' = active /\ loading' = FALSE /\ details' = starter
        /\ editor' = IF kept # Nothing THEN kept ELSE starter
    BY <1>1, <1>5 DEF Loaded, Shown
  <2>3. starter \in Texts /\ starter.chal = c /\ starter.match = load[l].match
    BY <1>2 DEF Text, Texts
  <2>4. load[l].match >= parent.match /\ load[l].match <= match
    BY <1>1 DEF BrowserInv, Served
  <2>5. CASE kept # Nothing
    <3>1. kept \in Texts /\ kept.match \in Nat /\ load[l].match \in Nat
      BY ZenonT(40), <1>2, <2>5, MatchesAreNumbers DEF Texts, BrowserInv, BrowserType, DraftType
    <3>2. /\ kept.chal = c /\ load[l].match <= kept.match /\ kept.match <= load[l].match
      BY <1>1, <1>2, <2>1, <2>5 DEF BrowserInv, Drafted
    <3>3. kept.match = load[l].match
      BY <3>1, <3>2
    <3>4. editor' = kept
      BY <2>2, <2>5
    <3> HIDE DEF kept, starter, c
    <3>5. WorkType'
      BY <2>2, <2>3, <3>1, <3>4 DEF WorkType, BrowserInv, BrowserType
    <3> QED
      BY <1>1, <1>4, <2>1, <2>2, <2>3, <2>4, <2>5, <3>2, <3>3, <3>4, <3>5, WantedEnds
  <2>6. CASE kept = Nothing
    <3>1. editor' = starter
      BY <2>2, <2>6
    <3> HIDE DEF kept, starter, c
    <3>2. WorkType'
      BY <2>2, <2>3, <3>1 DEF WorkType, BrowserInv, BrowserType
    <3>3. CASE starter # Nothing
      BY <1>1, <1>4, <2>1, <2>2, <2>3, <2>4, <3>1, <3>2, <3>3, WantedEnds
    <3>4. CASE starter = Nothing
      BY <1>1, <1>4, <2>1, <2>2, <3>2, <3>4, WantedEnds
    <3> QED
      BY <3>3, <3>4
  <2> QED
    BY <2>5, <2>6
<1>6. CASE ~(load[l].current /\ load[l].home)
  <2>1. UNCHANGED workVars
    BY <1>6 DEF Loaded
  <2> QED
    BY <1>1, <1>4, <2>1, UnwantedEnd
<1> QED
  BY <1>5, <1>6

LEMMA LoadFailsStep ==
  ASSUME BrowserInv, NEW l \in Loads, LoadFails(l)
  PROVE  BrowserInv'
<1>1. load[l] # Nothing /\ End(l) /\ UNCHANGED <<eventVars, pageVars, answer, drafts>>
  BY DEF LoadFails
<1>2. PageType' /\ InItsMatch'
  BY <1>1 DEF eventVars, pageVars, BrowserInv, BrowserType, PageType, InItsMatch
<1>3. CASE load[l].current /\ load[l].home
  <2>1. details' = Nothing /\ loading' = FALSE /\ UNCHANGED <<active, editor>>
    BY <1>3 DEF LoadFails
  <2>2. WorkType'
    BY <2>1 DEF WorkType, BrowserInv, BrowserType
  <2> QED
    BY <1>1, <1>2, <1>3, <2>1, <2>2, WantedEnds DEF Wanted, pageVars
<1>4. CASE ~(load[l].current /\ load[l].home)
  <2>1. UNCHANGED workVars
    BY <1>4 DEF LoadFails
  <2> QED
    BY <1>1, <1>2, <2>1, UnwantedEnd DEF pageVars
<1> QED
  BY <1>3, <1>4

\* What is typed, or dropped, is kept for the match in which the page was loaded;
\* nothing is on its way then to be shown.
LEMMA WriteDraft ==
  ASSUME BrowserInv, Visible, NEW d, d = Nothing \/ d = editor,
         drafts' = [drafts EXCEPT ![store.match][active] = d],
         editor' \in {editor, details}, UNCHANGED <<active, details, loading>>,
         UNCHANGED <<eventVars, pageVars, answer, load>>
  PROVE  BrowserInv'
<1>1. /\ store.match = parent.match /\ parent.match \in Matches /\ match \in Matches
      /\ parent.match <= match
  BY DEF Visible, BrowserInv, BrowserType, PageType, EventType, EventAt, InItsMatch
<1>2. /\ active \in Challenges /\ details \in Texts /\ editor \in Texts
      /\ details.chal = active /\ editor.chal = active /\ editor.match = details.match
      /\ parent.match <= editor.match /\ editor.match <= match
  BY DEF Visible, BrowserInv, BrowserType, WorkType, OnScreen
<1>3. \A l \in Loads : ~Wanted(l) /\ ~Wanted(l)'
  BY DEF Visible, BrowserInv, OneWanted, Wanted
<1>4. /\ drafts'[parent.match][active] = d
      /\ \A m \in Matches, c \in Challenges :
           m # parent.match \/ c # active => drafts'[m][c] = drafts[m][c]
      /\ DraftType'
  BY <1>1, <1>2 DEF BrowserInv, BrowserType, DraftType
<1>5. BrowserType'
  BY <1>2, <1>4 DEF eventVars, pageVars, BrowserInv, BrowserType, EventType, PageType, AskType,
                    LoadType, WorkType
<1>6. InItsMatch' /\ OnTheirWay' /\ Served' /\ OneWanted'
  BY <1>3 DEF eventVars, pageVars, BrowserInv, InItsMatch, OnTheirWay, Served, OneWanted
<1>7. OnScreen'
  BY <1>2 DEF Visible, eventVars, pageVars, BrowserInv, OnScreen
<1>8. Drafted'
  <2> SUFFICES ASSUME NEW m \in Matches, NEW c \in Challenges, drafts'[m][c] # Nothing
               PROVE  /\ drafts'[m][c].chal = c /\ m <= parent.match
                      /\ m <= drafts'[m][c].match /\ drafts'[m][c].match <= match
    BY <1>3 DEF eventVars, pageVars, Drafted
  <2>1. CASE m = parent.match /\ c = active
    BY <1>1, <1>2, <1>4, <2>1, MatchesAreNumbers
  <2>2. CASE m # parent.match \/ c # active
    BY <1>4, <2>2 DEF BrowserInv, Drafted
  <2> QED
    BY <2>1, <2>2
<1> QED
  BY <1>5, <1>6, <1>7, <1>8 DEF BrowserInv

LEMMA EditStep ==
  ASSUME BrowserInv, Type \/ ResetStarterCode
  PROVE  BrowserInv'
<1>1. CASE Type
  BY <1>1, WriteDraft DEF Type, workVars
<1>2. CASE ResetStarterCode
  BY <1>2, WriteDraft DEF ResetStarterCode
<1> QED
  BY <1>1, <1>2

-----------------------------------------------------------------------------
LEMMA BrowserStep == BrowserInv /\ [Next]_vars => BrowserInv'
<1> SUFFICES ASSUME BrowserInv, [Next]_vars
             PROVE  BrowserInv'
  OBVIOUS
<1>1. CASE UNCHANGED vars
  BY <1>1 DEF vars, eventVars, pageVars, workVars, BrowserInv, BrowserType, EventType, PageType,
              AskType, LoadType, WorkType, DraftType, InItsMatch, OnTheirWay, Served, OneWanted,
              Wanted, OnScreen, Drafted
<1>2. CASE Work
  BY <1>2, LoadStep, ServeStep, RefuseStep, LoadedStep, LoadFailsStep, EditStep DEF Work
<1>3. ASSUME NEW a \in Asks, Hear(a)
      PROVE  BrowserInv'
  BY <1>3, HearPollStep, HearNoteStep, HearBeatStep DEF Hear
<1> QED
  BY <1>1, <1>2, <1>3, EventStep, AskStep, StreamStep, HearResetStep, ReloadStep DEF Next, Listen

LEMMA BrowserAlways == Spec => []BrowserInv
  BY BrowserStarts, BrowserStep, PTL DEF Spec

\* Every variable of the page keeps its type.
THEOREM PageTypeCorrect == Spec => []BrowserType
<1>1. BrowserInv => BrowserType
  BY DEF BrowserInv
<1> QED
  BY <1>1, BrowserAlways, PTL

\* loadChallenge with its generations and handleEditorChange: whatever order answers
\* come in, the statement, the text and every draft are of the challenge they are
\* shown or kept for.
THEOREM EditorAlwaysMatches == Spec => []EditorMatches
<1>1. BrowserInv => EditorMatches
  BY DEF BrowserInv, OnScreen, Drafted, EditorMatches, Visible
<1> QED
  BY <1>1, BrowserAlways, PTL

\* The scope of the drafts and the match in the answer to a load: no text of an earlier
\* match is shown or kept in a later one, for any number of matches.
THEOREM WorkIsNeverCarried == Spec => []NoWorkCarried
<1>1. ASSUME BrowserInv
      PROVE  NoWorkCarried
  <2>1. Visible => editor.match = details.match
    BY <1>1 DEF BrowserInv, OnScreen, Visible
  <2>2. ASSUME NEW c \in Challenges, drafts[match][c] # Nothing
        PROVE  drafts[match][c].match = match
    <3>1. match \in Matches /\ drafts[match][c] \in Texts
      BY <1>1, <2>2 DEF BrowserInv, BrowserType, EventType, DraftType
    <3>2. match \in Nat /\ drafts[match][c].match \in Nat
      BY <3>1, MatchesAreNumbers DEF Texts
    <3>3. match <= drafts[match][c].match /\ drafts[match][c].match <= match
      BY <1>1, <2>2, <3>1 DEF BrowserInv, Drafted
    <3> QED
      BY <3>2, <3>3
  <2> QED
    BY <2>1, <2>2 DEF NoWorkCarried
<1> QED
  BY <1>1, BrowserAlways, PTL
=============================================================================
