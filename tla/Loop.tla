-------------------------------- MODULE Loop --------------------------------
(***************************************************************************)
(* io/loop.c: io_loop_run dispatching epoll's reports to the tasks and the *)
(* requests of the handles, with the user callbacks it runs in between.    *)
(*                                                                         *)
(* The loop is one thread.  A callback is the client's code: while one     *)
(* runs, the client may call any function of the library, on the handle    *)
(* the callback is about or on another one.  What the loop keeps across a  *)
(* callback are its local variables: the rest of the batch epoll_wait      *)
(* filled, and the request pointer it read before the callback.            *)
(*                                                                         *)
(* Rules is the set of restrictions the client respects; {} is a client    *)
(* that only obeys the functions' own preconditions.                       *)
(*   "own"    while the loop runs, a handle is stopped or closed only from *)
(*            a callback about that handle;                                *)
(*   "idle"   a handle is stopped or closed only when it has no request;   *)
(*   "tasked" requests are made only on a handle that has a task;          *)
(*   "two"    no request is made on a handle that has two already;         *)
(*   "calm"   no request is made on a handle from the callback of one of   *)
(*            its requests: the loop would go on with it at once, and with *)
(*            a client that always does, never get to another handle.      *)
(* io_loop_break and signals are not in this module.                       *)
(***************************************************************************)
EXTENDS Handle, Sequences

CONSTANTS
  MaxEvent,  (* EPOLL_MAXEVENT, the length of the event array              *)
  Rules,
  Dangling   (* the value of a request pointer whose block was freed       *)

AllRules == {"own", "idle", "tasked", "two", "calm"}

ASSUME LoopAssumption ==
  /\ MaxEvent \in Nat \ {0}
  /\ Rules \subseteq AllRules
  /\ Dangling \notin Reqs \union {NULL}

VARIABLES
  pc,      (* where io_loop_run is                                         *)
  batch,   (* the part of event[0..n-1] not yet handled, current one first *)
  lreq,    (* the local variable req                                       *)
  closed,  (* history: handles closed since the batch was filled           *)
  stopped  (* history: handles whose task was stopped since then           *)

loopVars == <<pc, batch, lreq, closed, stopped>>
vars == <<active, handle_count, events, interest, task, req, next, heap,
          pc, batch, lreq, closed, stopped>>

(* "null_task": task->event was read with task NULL.  "freed_req": req was *)
(* read after its block had been freed.  Nothing is claimed afterwards.    *)
Faults == {"null_task", "freed_req"}
Callbacks == {"task_cb", "req_cb"}
PCs == {"main", "wait", "dispatch", "reqs", "exit"} \union Callbacks \union Faults

Events == {"READ", "WRITE", "ERR"}
Reports == [h : Handles, ev : SUBSET Events]

cur == Head(batch).h   (* the local variable handle *)
ev  == Head(batch).ev  (* event[i].events           *)

Init ==
  /\ HandleInit
  /\ pc = "main"
  /\ batch = <<>>
  /\ lreq = NULL
  /\ closed = {}
  /\ stopped = {}
-----------------------------------------------------------------------------
(* The client: main() before io_loop_run, and the callbacks. *)

ClientRuns == pc \in {"main"} \union Callbacks

MayDetach(h) ==
  /\ "own" \in Rules /\ pc \in Callbacks => h = cur
  /\ "idle" \in Rules => req[h] = NULL

MayRequest(h) ==
  /\ "tasked" \in Rules => task[h]
  /\ "two" \in Rules /\ req[h] # NULL => next[req[h]] = NULL
  /\ "calm" \in Rules /\ pc = "req_cb" => h # cur

Open(h) ==
  /\ ClientRuns
  /\ h \notin active
  /\ io__handle_init(h)
  /\ UNCHANGED loopVars

(* io_read_start, io_listen_start, io_splice_start, io_watch_start and *)
(* io_publish_start.                                                   *)
StartTask(h) ==
  /\ ClientRuns
  /\ h \in active /\ ~task[h]
  /\ io__handle_start(h)
  /\ UNCHANGED loopVars

StopTask(h) ==
  /\ ClientRuns
  /\ h \in active /\ task[h]
  /\ MayDetach(h)
  /\ io__handle_stop(h)
  /\ stopped' = stopped \union {h}
  /\ UNCHANGED <<pc, batch, lreq, closed>>

(* io_write and io_sendall when the first write(2) or sendfile(2) does not *)
(* take everything.                                                        *)
Request(h, r) ==
  /\ ClientRuns
  /\ h \in active /\ heap[r] = "free"
  /\ MayRequest(h)
  /\ io__handle_req(h, r)
  /\ UNCHANGED loopVars

Close(h) ==
  /\ ClientRuns
  /\ h \in active
  /\ MayDetach(h)
  /\ io__handle_close(h)
  /\ lreq' = IF lreq \in Reqs /\ heap'[lreq] = "free" THEN Dangling ELSE lreq
  /\ closed' = closed \union {h}
  /\ UNCHANGED <<pc, batch, stopped>>

Client ==
  \E h \in Handles :
    \/ Open(h)
    \/ StartTask(h)
    \/ StopTask(h)
    \/ \E r \in Reqs : Request(h, r)
    \/ Close(h)
-----------------------------------------------------------------------------
(* io_loop_run *)

Run ==
  /\ pc = "main"
  /\ pc' = "wait"
  /\ UNCHANGED <<handleVars, batch, lreq, closed, stopped>>

(* epoll is level-triggered, reports a handle once per call, and reports   *)
(* errors whether asked to or not.  An interrupted epoll_wait is retried.  *)
MayReport(rep) ==
  /\ Registered(rep.h)
  /\ rep.ev # {}
  /\ rep.ev \subseteq interest[rep.h] \union {"ERR"}

Ready == {rep \in Reports : MayReport(rep)}

Fill(b) ==
  /\ pc = "wait"
  /\ handle_count # 0
  /\ \A i, j \in DOMAIN b : b[i].h = b[j].h => i = j
  /\ batch' = b
  /\ closed' = {}
  /\ stopped' = {}
  /\ pc' = "dispatch"
  /\ UNCHANGED <<handleVars, lreq>>

EpollWait == \E n \in 1..MaxEvent : \E b \in [1..n -> Ready] : Fill(b)

ExitOneLeft ==
  /\ pc = "wait"
  /\ handle_count <= 1
  /\ pc' = "exit"
  /\ UNCHANGED <<handleVars, batch, lreq, closed, stopped>>

Exit ==
  /\ pc = "wait"
  /\ handle_count = 0
  /\ pc' = "exit"
  /\ UNCHANGED <<handleVars, batch, lreq, closed, stopped>>

(* task->event is read before anything else, whatever was reported. *)
Dispatch ==
  /\ pc = "dispatch"
  /\ IF task[cur]
       THEN /\ pc' = IF ev \intersect {"READ", "ERR"} # {} THEN "task_cb" ELSE "reqs"
            /\ lreq' = req[cur]
       ELSE pc' = "null_task" /\ UNCHANGED lreq
  /\ UNCHANGED <<handleVars, batch, closed, stopped>>

TaskReturns ==
  /\ pc = "task_cb"
  /\ pc' = "reqs"
  /\ UNCHANGED <<handleVars, batch, lreq, closed, stopped>>

NextEvent ==
  /\ batch' = Tail(batch)
  /\ pc' = IF Tail(batch) = <<>> THEN "wait" ELSE "dispatch"
  /\ lreq' = NULL

NoMoreRequests ==
  /\ pc = "reqs"
  /\ lreq = NULL
  /\ NextEvent
  /\ UNCHANGED <<handleVars, closed, stopped>>

SkipRequest ==
  /\ pc = "reqs"
  /\ lreq \in Reqs
  /\ "WRITE" \notin ev
  /\ lreq' = next[lreq]
  /\ UNCHANGED <<handleVars, pc, batch, closed, stopped>>

(* The break after a partial write is forgotten. *)
PartialGoesOn ==
  /\ pc = "reqs"
  /\ lreq \in Reqs
  /\ "WRITE" \in ev
  /\ lreq' = next[lreq]
  /\ UNCHANGED <<handleVars, pc, batch, closed, stopped>>

(* progress_cb wrote a part of the data, or nothing. *)
PartialProgress ==
  /\ pc = "reqs"
  /\ lreq \in Reqs
  /\ "WRITE" \in ev
  /\ NextEvent
  /\ UNCHANGED <<handleVars, closed, stopped>>

(* progress_cb wrote the rest or failed: it sets done and calls the user. *)
FinalProgress ==
  /\ pc = "reqs"
  /\ lreq \in Reqs
  /\ "WRITE" \in ev
  /\ heap' = [heap EXCEPT ![lreq] = "done"]
  /\ pc' = "req_cb"
  /\ UNCHANGED <<active, handle_count, events, interest, task, req, next,
                 batch, lreq, closed, stopped>>

(* Back from progress_cb: req->done is set, so the first request retires. *)
RequestReturns ==
  /\ pc = "req_cb"
  /\ lreq \in Reqs
  /\ io__handle_done(cur)
  /\ lreq' = req'[cur]
  /\ pc' = "reqs"
  /\ UNCHANGED <<batch, closed, stopped>>

ReadFreedRequest ==
  /\ pc \in {"reqs", "req_cb"}
  /\ lreq = Dangling
  /\ pc' = "freed_req"
  /\ UNCHANGED <<handleVars, batch, lreq, closed, stopped>>

LoopStep ==
  \/ Run
  \/ EpollWait
  \/ Exit
  \/ Dispatch
  \/ TaskReturns
  \/ NoMoreRequests
  \/ SkipRequest
  \/ PartialProgress
  \/ FinalProgress
  \/ RequestReturns
  \/ ReadFreedRequest

Next == Client \/ LoopStep

Spec == Init /\ [][Next]_vars

(* Fairness of the liveness runs.  The thread keeps running and callbacks  *)
(* return; epoll rotates its ready list, so a handle that stays writable is *)
(* reported again and again; a peer that keeps reading lets a request that *)
(* is attempted again and again finish.                                    *)
ReportsWritable(h) ==
  EpollWait /\ \E i \in DOMAIN batch' : batch'[i].h = h /\ "WRITE" \in batch'[i].ev

FairSpec ==
  /\ Spec
  /\ WF_vars(LoopStep)
  /\ \A h \in Handles :
       /\ SF_vars(ReportsWritable(h))
       /\ SF_vars(FinalProgress /\ cur = h)
-----------------------------------------------------------------------------
TypeOK ==
  /\ active \subseteq Handles
  /\ handle_count \in Nat
  /\ events \in [Handles -> SUBSET {"READ", "WRITE"}]
  /\ interest \in [Handles -> SUBSET {"READ", "WRITE"}]
  /\ task \in [Handles -> BOOLEAN]
  /\ req \in [Handles -> Reqs \union {NULL}]
  /\ next \in [Reqs -> Reqs \union {NULL}]
  /\ heap \in [Reqs -> {"free", "waiting", "done"}]
  /\ pc \in PCs
  /\ batch \in Seq(Reports)
  /\ lreq \in Reqs \union {NULL, Dangling}
  /\ closed \subseteq Handles
  /\ stopped \subseteq Handles

Work(h) ==
  (IF task[h] THEN {"READ"} ELSE {}) \union (IF req[h] # NULL THEN {"WRITE"} ELSE {})

(* handle.c keeps handle->events and epoll's mask by hand in five places.  *)
(* Together they make epoll watch an open handle for exactly what it has   *)
(* work for: a pending request is never left without EPOLLOUT (it would    *)
(* hang), an idle handle is never left with it (the loop would spin), and  *)
(* a closed handle is not watched at all; and the mask kept in an open     *)
(* handle is the one epoll holds.                                          *)
ArmedForWork ==
  /\ \A h \in Handles : interest[h] = IF h \in active THEN Work(h) ELSE {}
  /\ \A h \in active : events[h] = interest[h]

(* The pointers of the request lists are sound: what an open handle's list *)
(* meets is allocated, is on no other open handle's list, has completed    *)
(* only if it is first, and is at most two requests long.                  *)
QueuesSound ==
  \A h \in active :
    /\ \A r \in Chain(h) :
         /\ heap[r] # "free"
         /\ heap[r] = "done" => r = req[h]
         /\ r # req[h] => next[req[h]] = r /\ next[r] = NULL
    /\ \A g \in active \ {h} : Chain(h) \intersect Chain(g) = {}

(* io_loop_run runs until handle_count is 0: it counts the open handles,   *)
(* so the loop ends when, and only when, the last of them is closed, and   *)
(* then leaves nothing registered with epoll.                              *)
CountsOpenHandles ==
  /\ handle_count = Cardinality(active)
  /\ pc = "exit" => \A h \in Handles : interest[h] = {}

(* io__handle_done retires handle->req, not the request the loop has just  *)
(* completed: whatever the callbacks did in between, the two are the same. *)
CompletesTheFirst ==
  pc \in {"reqs", "req_cb"} /\ lreq \in Reqs /\ "WRITE" \in ev
    => cur \in active /\ lreq = req[cur]

(* A request leaves the list of a handle that stays open only when it has  *)
(* completed, or when it is second and a third is made.                    *)
DropsOnlyTheSecond ==
  [][\A h \in active \intersect active' :
       \A r \in Chain(h) \ Chain(h)' :
          heap[r] = "done" \/ (r # req[h] /\ \E x \in Chain(h)' : heap[x] = "free")]_vars

(* Every request made and not completed is on the list of an open handle.  *)
(* (The echo tests free the data of a request in its callback only.)       *)
NoRequestLost ==
  \A r \in Reqs : heap[r] # "free" => \E h \in active : r \in Chain(h)

(* No NULL task and no freed request is ever read by io_loop_run. *)
NoFault == pc \notin Faults

(* Whatever the client does, io_loop_run reads a freed request only when a *)
(* callback has closed the handle the request was on, and a NULL task only *)
(* of a handle that was closed or stopped after epoll had reported it, or  *)
(* that was given requests and no task.  It needs the masks to be right:   *)
(* epoll never reports an open handle that has nothing to wait for, and no *)
(* callback about one handle empties the list of another one.              *)
FaultsExplained ==
  /\ pc = "freed_req" => cur \in closed
  /\ pc = "null_task" =>
       \/ cur \in closed \union stopped
       \/ cur \in active /\ req[cur] # NULL

(* A request made on a handle completes, or its handle is closed. *)
RequestServed == \A r \in Reqs : heap[r] # "free" ~> heap[r] = "free"

(* The pointers implement, for each handle, a queue of requests that drops *)
(* none until the handle is closed.                                        *)
QueueOf(h) ==
  IF h \notin active \/ req[h] = NULL THEN <<>>
  ELSE IF next[req[h]] = NULL THEN <<req[h]>> ELSE <<req[h], next[req[h]]>>

RQ == INSTANCE RequestQueue WITH queue <- [h \in Handles |-> QueueOf(h)]
ImplementsQueue == RQ!Spec
=============================================================================
