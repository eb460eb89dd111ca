----------------------------- MODULE MCShutdown -----------------------------
(* Instances of Shutdown for TLC. *)
EXTENDS Shutdown

CONSTANTS h1, h2, h3

ThreeHandles == {h1, h2, h3}
ThreeNodes == ThreeHandles \union {Anchor}
=============================================================================
