---------------------------- MODULE RateLimiter -----------------------------
(***************************************************************************)
(* rateLimiter: five counters of the web process over one fixed window,    *)
(* each for its own routes, two of which also block for a while whoever    *)
(* goes over the limit.  Keys (addresses, sessions) have nothing to do     *)
(* with each other: one key of each limiter stands for all.                *)
(*                                                                         *)
(* Times are ages: only how long ago something was matters, and only up to *)
(* the point where it has expired.                                         *)
(***************************************************************************)
EXTENDS Naturals

CONSTANTS
  Limiters,
  MaxAttempts, \* the limit of each
  BlockTime,   \* how long each blocks; 0 for those that do not
  Window       \* WINDOW_MS, the same for all

ASSUME LimiterAssumption ==
  /\ Window \in Nat
  /\ MaxAttempts \in [Limiters -> Nat \ {0}]
  /\ BlockTime \in [Limiters -> {0, Window}]

VARIABLES
  attempts, \* the record of each limiter
  recent,   \* history: how many attempts no older than an age were let through
  idle      \* history: time since the last attempt

limiterVars == <<attempts, recent, idle>>

\* No record is as good as an expired one.
NoRecord == [count |-> 0, age |-> Window + 1, left |-> 0]

LimiterInit ==
  /\ attempts = [l \in Limiters |-> NoRecord]
  /\ recent = [l \in Limiters |-> [a \in 0..Window |-> 0]]
  /\ idle = [l \in Limiters |-> Window + 1]

Blocked(l) == attempts[l].left > 0
Expired(l) == attempts[l].age > Window
Within(l) == attempts[l].count < MaxAttempts[l]

\* Whether an attempt is let through.
Opens(l) == ~Blocked(l) /\ (Expired(l) \/ Within(l))

\* The attempt that opens a window is not counted.
CountedFromZero(l) ==
  IF Expired(l) THEN [count |-> 0, age |-> 0, left |-> 0]
  ELSE [count |-> attempts[l].count + 1, age |-> attempts[l].age, left |-> 0]

Counted(l) ==
  IF Expired(l) THEN [count |-> 1, age |-> 0, left |-> 0]
  ELSE [count |-> attempts[l].count + 1, age |-> attempts[l].age, left |-> 0]

Admit(l) ==
  /\ Opens(l)
  /\ attempts' = [attempts EXCEPT ![l] = Counted(l)]
  /\ recent' = [recent EXCEPT ![l] = [a \in 0..Window |-> @[a] + 1]]
  /\ idle' = [idle EXCEPT ![l] = 0]

\* Too many, which counts what is over the limit as the limit; or blocked already.
Refuse(l) ==
  /\ ~Opens(l)
  /\ attempts' = [attempts EXCEPT ![l].left = IF Blocked(l) THEN @ ELSE BlockTime[l]]
  /\ idle' = [idle EXCEPT ![l] = 0]
  /\ UNCHANGED recent

LimitersAge ==
  /\ attempts' = [l \in Limiters |->
       [count |-> attempts[l].count,
        age |-> IF Expired(l) THEN attempts[l].age ELSE attempts[l].age + 1,
        left |-> IF Blocked(l) THEN attempts[l].left - 1 ELSE 0]]
  /\ recent' = [l \in Limiters |->
       [a \in 0..Window |-> IF a = 0 THEN 0 ELSE recent[l][a - 1]]]
  /\ idle' = [l \in Limiters |-> IF idle[l] > Window THEN idle[l] ELSE idle[l] + 1]

\* The process starts again.
LimitersRestart ==
  /\ attempts' = [l \in Limiters |-> NoRecord]
  /\ recent' = [l \in Limiters |-> [a \in 0..Window |-> 0]]
  /\ idle' = [l \in Limiters |-> Window + 1]

\* Another key takes the place of the one of l.
NewKey(l) ==
  /\ attempts' = [attempts EXCEPT ![l] = NoRecord]
  /\ recent' = [recent EXCEPT ![l] = [a \in 0..Window |-> 0]]
  /\ idle' = [idle EXCEPT ![l] = Window + 1]

-----------------------------------------------------------------------------
LimiterType ==
  /\ attempts \in [Limiters -> [count : Nat, age : 0..Window + 1, left : 0..Window]]
  /\ recent \in [Limiters -> [0..Window -> Nat]]
  /\ idle \in [Limiters -> 0..Window + 1]
  /\ \A l \in Limiters : attempts[l].count <= MaxAttempts[l]

\* The windows are fixed, not sliding: within the length of one, an end and a
\* beginning can meet, but never more.
Burst ==
  \A l \in Limiters : recent[l][Window] <= 2 * MaxAttempts[l]

\* Whoever keeps still for longer than a window is let through, blocked or not.
PatienceHelps == \A l \in Limiters : idle[l] > Window => Opens(l)
=============================================================================
