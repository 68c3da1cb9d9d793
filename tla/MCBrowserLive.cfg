SPECIFICATION FairSpec
CONSTANTS
  Nothing = Nothing
  Challenges = {c1}
  Syncs = {s1, s2}
  Progresses = {g1}
  Notes = {n1}
  Beats = {b1}
  Loads = {l1}
  MaxMatch = 2
  MaxWire = 1
  MaxAnswers = 2
  MaxDrafts = 0
PROPERTIES
  FollowsEvent
