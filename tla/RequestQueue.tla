---------------------------- MODULE RequestQueue ----------------------------
(***************************************************************************)
(* What the request list of a handle promises its callers: requests are    *)
(* completed in the order they were made, one at a time, and none is       *)
(* dropped unless the handle is closed with all it has.                    *)
(***************************************************************************)
EXTENDS Sequences, FiniteSets

CONSTANTS Handles, Reqs

VARIABLE queue

Elements(s) == {s[i] : i \in DOMAIN s}

Init == queue = [h \in Handles |-> <<>>]

Submit(h, r) ==
  /\ \A g \in Handles : r \notin Elements(queue[g])
  /\ queue' = [queue EXCEPT ![h] = Append(@, r)]

Complete(h) ==
  /\ queue[h] # <<>>
  /\ queue' = [queue EXCEPT ![h] = Tail(@)]

GiveUp(h) == queue' = [queue EXCEPT ![h] = <<>>]

Next ==
  \E h \in Handles :
    \/ \E r \in Reqs : Submit(h, r)
    \/ Complete(h)
    \/ GiveUp(h)

Spec == Init /\ [][Next]_queue
=============================================================================
