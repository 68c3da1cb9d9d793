----------------------------- MODULE MCBrowser ------------------------------
(***************************************************************************)
(* Instances of Browser for TLC: a page in two matches.                    *)
(***************************************************************************)
EXTENDS Browser, TLC

Symmetric == Permutations(Challenges) \cup Permutations(Loads)

\* At most two of polls and loads are on the way at once.
OneElse ==
  Cardinality({a \in Asks : answer[a] # Nothing} \cup {l \in Loads : load[l] # Nothing}) <= 2
=============================================================================
