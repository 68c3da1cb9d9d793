SPECIFICATION Spec
CONSTANTS
  Participants = {p1}
  Sessions = {s1, s2}
  Conns = {}
  Requests = {r1}
  Kinds = {"beat", "logout"}
  Matches = {1, 2}
  OnlineLimit = 0
  ConnLimit = 0
  StaleLimit = 1
  MaxAge = 1
SYMMETRY Symmetric
CONSTRAINT TwoInFlight
INVARIANTS
  OneSession
  NoneInactive
