------------------------------- MODULE MCLoop -------------------------------
(* Instances of Loop for TLC. *)
EXTENDS Loop, TLC

CONSTANTS h1, h2, r1, r2, r3

TwoHandles == {h1, h2}
TwoReqs == {r1, r2}
ThreeReqs == {r1, r2, r3}

AnyClient == {}
CarefulClient == AllRules
ClosesBusy == AllRules \ {"idle"}

Symmetry == Permutations(Handles) \union Permutations(Reqs)
=============================================================================
