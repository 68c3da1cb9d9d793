SPECIFICATION Spec
CONSTANTS
  TicksPerSecond = 2
  a1 = a1
  Requests = {a1, a2}
  Tickers = {t1}
  Solves = {s1}
  TeamSolves = {s1}
  CustomSolves = {s1}
  MaxMatch = 2
  MaxTime = 4
  MaxCopies = 2
  MaxPauses = 2
  StandardDuration = 1
  Durations = {1}
CONSTRAINT Orderly
INVARIANTS
  RowSound
  TimerHonest
PROPERTIES
  NextMatchStartsClean
  ImplementsCompetition
