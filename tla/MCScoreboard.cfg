SPECIFICATION DisplaysSpec
CONSTANTS
  Notifies = {n1, n2}
  Fetches = {f1}
  MaxBoard = 2
  MaxEvent = 1
  MaxWire = 1
  MaxBreaks = 1
  Incidents = {i1}
  Asks = {q1, q2}
  LastMatch = 2
  MaxFailures = 1
  Tasks = {t1, t2}
  Runs = {r1, r2}
  NoTask = NoTask
CONSTRAINT NoSlip
INVARIANTS
  
  OneMatch
  ConsoleHonest
PROPERTIES
  Delivered
  IncidentsShown
  ConsoleSettles
CHECK_DEADLOCK FALSE
