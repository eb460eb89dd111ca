------------------------------- MODULE Handle -------------------------------
(***************************************************************************)
(* io/handle.c: what an io_handle_t waits for, and how that is mirrored in *)
(* the epoll instance of its loop.                                         *)
(*                                                                         *)
(* A handle waits for EV_READ on behalf of its task (every task the code   *)
(* creates has event EV_READ: read, listen, splice, watch, publish) and    *)
(* for EV_WRITE on behalf of its requests (every request the code creates  *)
(* has event EV_WRITE: write, send).  Requests hang off handle->req and    *)
(* are linked by req->next.                                                *)
(*                                                                         *)
(* The actions below are the handle functions alone; who calls them, and   *)
(* when, is module Loop's business.                                        *)
(***************************************************************************)
EXTENDS Integers, FiniteSets

CONSTANTS
  Handles,  (* io_handle_t objects of the program, statically allocated    *)
  Reqs,     (* io_req_t blocks the heap can hand out                       *)
  NULL

ASSUME HandleAssumption ==
  /\ IsFiniteSet(Handles)
  /\ NULL \notin Reqs

VARIABLES
  active,        (* handles on loop->active_handles                        *)
  handle_count,  (* loop->handle_count                                     *)
  events,        (* handle->events                                         *)
  interest,      (* the mask epoll holds for handle->fd; {}: not registered *)
  task,          (* is handle->task non-NULL?                              *)
  req,           (* handle->req                                            *)
  next,          (* req->next                                              *)
  heap           (* is a request block free, waiting, or done (req->done)? *)

handleVars == <<active, handle_count, events, interest, task, req, next, heap>>

(***************************************************************************)
(* epoll_ctl, as handle.c uses it: ADD when handle->events is 0, MOD       *)
(* otherwise, DEL when nothing is left.  ADD is refused for an fd that is  *)
(* registered, MOD and DEL for one that is not.                            *)
(***************************************************************************)
Registered(h) == interest[h] # {}

AddOrModOK(h) == Registered(h) <=> events[h] # {}

(* The requests a walk from handle->req along req->next meets. *)
Chain(h) ==
  {r \in Reqs : \A S \in SUBSET Reqs :
     /\ req[h] # NULL => req[h] \in S
     /\ \A x \in S : next[x] # NULL => next[x] \in S
     => r \in S}

HandleInit ==
  /\ active = {}
  /\ handle_count = 0
  /\ events = [h \in Handles |-> {}]
  /\ interest = [h \in Handles |-> {}]
  /\ task = [h \in Handles |-> FALSE]
  /\ req = [h \in Handles |-> NULL]
  /\ next = [r \in Reqs |-> NULL]
  /\ heap = [r \in Reqs |-> "free"]
-----------------------------------------------------------------------------
(* A slip the runs must notice: the count is not kept. *)
InitUncounted(h) ==
  /\ active' = active \union {h}
  /\ events' = [events EXCEPT ![h] = {}]
  /\ task' = [task EXCEPT ![h] = FALSE]
  /\ req' = [req EXCEPT ![h] = NULL]
  /\ UNCHANGED <<handle_count, interest, next, heap>>

(* The constructors (io_tcp_accept, io_serial, ...) hand it a fresh fd. *)
io__handle_init(h) ==
  /\ active' = active \union {h}
  /\ handle_count' = handle_count + 1
  /\ events' = [events EXCEPT ![h] = {}]
  /\ task' = [task EXCEPT ![h] = FALSE]
  /\ req' = [req EXCEPT ![h] = NULL]
  /\ UNCHANGED <<interest, next, heap>>

(* A refused epoll_ctl returns -1, the caller frees the task it built, and *)
(* nothing has changed: that outcome is a stuttering step.                 *)
io__handle_start(h) ==
  /\ AddOrModOK(h)
  /\ events' = [events EXCEPT ![h] = @ \union {"READ"}]
  /\ interest' = [interest EXCEPT ![h] = events'[h]]
  /\ task' = [task EXCEPT ![h] = TRUE]
  /\ UNCHANGED <<active, handle_count, req, next, heap>>

(* A slip the runs must notice: epoll is not told that the task is gone. *)
StopUntold(h) ==
  /\ Registered(h)
  /\ events' = [events EXCEPT ![h] = @ \ {"READ"}]
  /\ task' = [task EXCEPT ![h] = FALSE]
  /\ UNCHANGED <<active, handle_count, interest, req, next, heap>>

(* A refused epoll_ctl restores handle->events and keeps the task. *)
io__handle_stop(h) ==
  /\ Registered(h)
  /\ events' = [events EXCEPT ![h] = @ \ {"READ"}]
  /\ interest' = [interest EXCEPT ![h] = events'[h]]
  /\ task' = [task EXCEPT ![h] = FALSE]
  /\ UNCHANGED <<active, handle_count, req, next, heap>>

(* A slip the runs must notice: the next of a new block is not cleared. *)
ReqUncleared(h, r) ==
  /\ heap' = [heap EXCEPT ![r] = "waiting"]
  /\ \/ /\ req[h] = NULL
        /\ events' = [events EXCEPT ![h] = @ \union {"WRITE"}]
        /\ interest' = [interest EXCEPT ![h] = events'[h]]
        /\ req' = [req EXCEPT ![h] = r]
        /\ UNCHANGED next
     \/ /\ req[h] # NULL
        /\ next' = [next EXCEPT ![req[h]] = r]
        /\ UNCHANGED <<events, interest, req>>
  /\ UNCHANGED <<active, handle_count, task>>

(* A slip the runs must notice: a new request goes to the front. *)
ReqAtFront(h, r) ==
  /\ heap' = [heap EXCEPT ![r] = "waiting"]
  /\ events' = [events EXCEPT ![h] = @ \union {"WRITE"}]
  /\ interest' = [interest EXCEPT ![h] = events'[h]]
  /\ req' = [req EXCEPT ![h] = r]
  /\ next' = [next EXCEPT ![r] = req[h]]
  /\ UNCHANGED <<active, handle_count, task>>

(* r comes from calloc: next is NULL and done is 0.  A handle that already *)
(* has a request gets r as that request's successor, whatever successor it *)
(* had.                                                                    *)
io__handle_req(h, r) ==
  /\ heap' = [heap EXCEPT ![r] = "waiting"]
  /\ \/ /\ req[h] = NULL
        /\ AddOrModOK(h)
        /\ events' = [events EXCEPT ![h] = @ \union {"WRITE"}]
        /\ interest' = [interest EXCEPT ![h] = events'[h]]
        /\ req' = [req EXCEPT ![h] = r]
        /\ next' = [next EXCEPT ![r] = NULL]
     \/ /\ req[h] # NULL
        /\ next' = [next EXCEPT ![r] = NULL, ![req[h]] = r]
        /\ UNCHANGED <<events, interest, req>>
  /\ UNCHANGED <<active, handle_count, task>>

(* Slips the runs must notice: the mask is kept after the last request, or *)
(* dropped before it, or the whole list is dropped with the first.         *)
DoneStaysArmed(h) ==
  /\ req' = [req EXCEPT ![h] = next[req[h]]]
  /\ heap' = [heap EXCEPT ![req[h]] = "free"]
  /\ UNCHANGED <<active, handle_count, events, interest, task, next>>

DoneDisarms(h) ==
  /\ events' = [events EXCEPT ![h] = @ \ {"WRITE"}]
  /\ interest' = [interest EXCEPT ![h] = events'[h]]
  /\ req' = [req EXCEPT ![h] = next[req[h]]]
  /\ heap' = [heap EXCEPT ![req[h]] = "free"]
  /\ UNCHANGED <<active, handle_count, task, next>>

DoneDropsAll(h) ==
  /\ events' = [events EXCEPT ![h] = @ \ {"WRITE"}]
  /\ interest' = [interest EXCEPT ![h] = events'[h]]
  /\ req' = [req EXCEPT ![h] = NULL]
  /\ heap' = [heap EXCEPT ![req[h]] = "free"]
  /\ UNCHANGED <<active, handle_count, task, next>>

(* Retires the first request.  Its successor waits for the same event, so  *)
(* the mask changes only when there is none; epoll_ctl's result is ignored.*)
io__handle_done(h) ==
  LET curr == req[h]
      succ == next[curr]
  IN  /\ events' = IF succ = NULL THEN [events EXCEPT ![h] = @ \ {"WRITE"}]
                                  ELSE events
      /\ interest' = IF succ = NULL /\ Registered(h)
                       THEN [interest EXCEPT ![h] = events'[h]] ELSE interest
      /\ req' = [req EXCEPT ![h] = succ]
      /\ heap' = [heap EXCEPT ![curr] = "free"]
      /\ UNCHANGED <<active, handle_count, task, next>>

(* io__handle_close and the close(handle->fd) of io_tcp_close and its      *)
(* siblings: stop the task, give the requests up, leave the loop's list.   *)
(* handle->req is left pointing at the freed requests.  Closing the fd     *)
(* removes whatever epoll still holds for it.                              *)
io__handle_close(h) ==
  LET stopped == task[h] /\ Registered(h)
      left    == IF stopped THEN events[h] \ {"READ"} ELSE events[h]
      gaveup  == req[h] # NULL /\ Registered(h) /\ left # {}
  IN  /\ events' = [events EXCEPT ![h] = IF gaveup THEN left \ {"WRITE"} ELSE left]
      /\ task' = [task EXCEPT ![h] = task[h] /\ ~stopped]
      /\ heap' = [r \in Reqs |-> IF gaveup /\ r \in Chain(h) THEN "free" ELSE heap[r]]
      /\ interest' = [interest EXCEPT ![h] = {}]
      /\ active' = active \ {h}
      /\ handle_count' = handle_count - 1
      /\ UNCHANGED <<req, next>>
=============================================================================
