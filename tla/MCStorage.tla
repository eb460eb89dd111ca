----------------------------- MODULE MCStorage -----------------------------
(* Instances of Storage for TLC: one block size too small for a link. *)
EXTENDS Storage

MCPSizes == {7, 512}
=============================================================================
