SPECIFICATION FairSpec
CONSTANTS
  Participants = {p1}
  Sessions = {s1}
  Conns = {c1}
  Requests = {r1, r2}
  Kinds = {"beat", "stream", "logout"}
  Matches = {1}
  OnlineLimit = 0
  ConnLimit = 0
  StaleLimit = 1
  MaxAge = 1
INVARIANTS
  ToldTruth
PROPERTIES
  GhostsGo
  OfflineFollows
