----------------------------- MODULE MCChannel -----------------------------
(* Instances of Channel for TLC. *)
EXTENDS Channel, TLC

CONSTANTS s1, s2

TwoSubs == {s1, s2}

Symmetry == Permutations(Subs)
=============================================================================
