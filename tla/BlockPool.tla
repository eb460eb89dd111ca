----------------------------- MODULE BlockPool -----------------------------
(***************************************************************************)
(* What utils/storage.c promises: an allocation hands out a block nobody   *)
(* holds, and NULL exactly when there is none; a freed block can be handed *)
(* out again.                                                              *)
(***************************************************************************)
CONSTANTS Blocks, NULL

VARIABLES
  free,  (* blocks nobody holds *)
  ret    (* what the last allocation returned *)

Init ==
  /\ free = Blocks
  /\ ret = NULL

Take(b) ==
  /\ b \in free
  /\ free' = free \ {b}
  /\ ret' = b

TakeNone ==
  /\ free = {}
  /\ ret' = NULL
  /\ UNCHANGED free

Give(b) ==
  /\ b \in Blocks \ free
  /\ free' = free \union {b}
  /\ UNCHANGED ret

Next ==
  \/ \E b \in Blocks : Take(b) \/ Give(b)
  \/ TakeNone

Spec == Init /\ [][Next]_<<free, ret>>
=============================================================================
