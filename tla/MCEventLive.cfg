SPECIFICATION FairSpec
CONSTANTS
  TicksPerSecond = 2
  a1 = a1
  Requests = {a1}
  Tickers = {t1}
  Solves = {}
  TeamSolves = {}
  CustomSolves = {}
  MaxMatch = 2
  MaxTime = 2
  MaxCopies = 2
  MaxPauses = 1
  StandardDuration = 1
  Durations = {1}
PROPERTIES ExpiredMatchStops LockReleased
