SPECIFICATION DoorsSpec
CONSTANTS
  login = login
  Ingest = event
  Limiters = {event, login}
  MaxAttempts <- Limits
  BlockTime <- Blocks
  Window = 2
  Posts = {q1, q2}
  Debounce = 1
  MaxBurst = 2
  Codes = {c1, c2}
  Details = {d1, d2}
  Imports = {i1, i2}
  Changes = {x1}
  Official = {o1, o2}
  Own = {x}
  OfficialRounds = {"easy"}
  Slugs = {"easy", "own"}
  Migrations = 2
  MaxFaults = 1
  MaxEdits = 2
  Surveys = {follow, v1}
  Afterwards = follow
  Unread = Unread
  Nobody = Nobody
  FinalMatch = 2
CONSTRAINT Bounds
SYMMETRY Symmetric
INVARIANTS
  GateHonest
  Burst
  Furnished
  ActiveKept
PROPERTIES
  Lockdown
  Applied
  StartsAgain
  DirectorFollows
