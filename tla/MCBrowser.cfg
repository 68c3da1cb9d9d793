SPECIFICATION Spec
CONSTANTS
  Nothing = Nothing
  Challenges = {c1, c2}
  Syncs = {s1}
  Progresses = {g1}
  Notes = {n1}
  Beats = {b1}
  Loads = {l1, l2}
  MaxMatch = 2
  MaxWire = 1
  MaxAnswers = 2
  MaxDrafts = 2
INVARIANTS
  EditorMatches
  NoWorkCarried
CONSTRAINT OneElse
SYMMETRY Symmetric
