SPECIFICATION Spec
CONSTANTS
  p = p
  c1 = c1
  Everyone = everyone
  all = all
  Everything = all
  Participants = {p}
  Teams = {}
  Challenges = {c1}
  Custom = {c1}
  NRounds = 2
  RoundOf <- InFirst
  InitialNeed <- NeedOne
  Thresholds = {2}
  Calls = {a, b}
  Workers = {a}
  Overrides <- ToGrant
  MaxAccepted = 1
  MaxMatch = 1
CONSTRAINT Straight
INVARIANTS
  EarnedUnlocks
