SPECIFICATION Spec
CONSTANTS
  p = p
  c1 = c1
  Everyone = everyone
  all = all
  Everything = all
  Participants = {p}
  Teams = {p}
  Challenges = {c1}
  Custom = {c1}
  NRounds = 2
  RoundOf <- InSecond
  InitialNeed <- NeedNone
  Thresholds = {1}
  Calls = {a, b}
  Workers = {a, b}
  Overrides = {}
  MaxAccepted = 2
  MaxMatch = 2
SYMMETRY Symmetry
CONSTRAINT Simply
INVARIANTS
  SolvedIffAccepted
PROPERTIES
  NoWorkAhead
