SPECIFICATION Spec
CONSTANTS
  p = p
  c1 = c1
  Everyone = everyone
  all = all
  Everything = all
  Participants = {p}
  Teams = {p}
  Challenges = {c1}
  Custom = {}
  NRounds = 2
  RoundOf <- InFirst
  InitialNeed <- NeedOne
  Thresholds = {2}
  Calls = {a}
  Workers = {a}
  Overrides <- ToAny
  MaxAccepted = 2
  MaxMatch = 1
CONSTRAINT Straight
INVARIANTS
  UnlockedStays
