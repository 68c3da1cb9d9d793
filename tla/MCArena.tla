------------------------------- MODULE MCArena -------------------------------
(***************************************************************************)
(* Instances of Arena for TLC: one competitor, in one table or in both, two *)
(* rounds and a challenge in the first of them or in the second.            *)
(***************************************************************************)
EXTENDS Arena, TLC

CONSTANTS p, c1, all

Symmetry == Permutations(Calls)

\* The passing properties promise nothing once a request of an earlier match has
\* written into this one: TLC checks the step that does and goes no further.
Straight == ~straddled

\* A raised threshold, a purge and a second match are explored one at a time: the
\* second match, with one request, shows what is left over from the first, and
\* nothing that is in flight survives a restart.
Simply ==
  /\ Straight
  /\ undone = {} \/ need = InitialNeed
  /\ match = 2 => /\ undone = {} /\ need = InitialNeed
                  /\ \E k \in Calls : call[k].pc = "idle"

InFirst    == c1 :> 1
InSecond   == c1 :> 2
NeedNone   == [r \in 1..2 |-> 0]
NeedOne    == [r \in 1..2 |-> r - 1]
ToGrant    == {<<p, 2>>}
ToAny      == {<<p, 2>>, <<p, c1>>, <<Everyone, 2>>, <<Everyone, all>>}
=============================================================================
