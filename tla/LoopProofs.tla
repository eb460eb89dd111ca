----------------------------- MODULE LoopProofs -----------------------------
(***************************************************************************)
(* Proofs about Loop for any number of handles, requests and events, and   *)
(* for clients that respect any of the rules, or none.                     *)
(***************************************************************************)
EXTENDS Loop, FiniteSetTheorems, TLAPS

(* Chain(h) without the closure: what is left of it once lists are short. *)
Listed(h) ==
  IF req[h] = NULL THEN {} ELSE {req[h], next[req[h]]} \ {NULL}

Counted == handle_count = Cardinality(active)

(* A list is at most two long, does not loop, and lies in allocated blocks. *)
Links ==
  \A h \in active : req[h] # NULL =>
    /\ heap[req[h]] # "free"
    /\ next[req[h]] # NULL =>
         /\ next[req[h]] # req[h]
         /\ heap[next[req[h]]] # "free"
         /\ next[next[req[h]]] = NULL

Disjoint == \A g, h \in active : g # h => Listed(g) \intersect Listed(h) = {}

(* io__handle_close has stopped the task of a closed handle.               *)
ClosedIdle == \A h \in Handles \ active : ~task[h]

(* What the loop knows of the request pointer it holds. *)
LocalReq ==
  /\ pc \in {"dispatch", "reqs"} \union Callbacks => batch # <<>>
  /\ pc \in {"main", "wait", "dispatch", "exit"} => lreq = NULL
  /\ lreq \in Reqs => pc \in Callbacks \union {"reqs"} /\ cur \in active /\ lreq \in Listed(cur)
  /\ lreq \in Reqs /\ (pc = "task_cb" \/ "WRITE" \in ev) => lreq = req[cur]
  /\ pc = "req_cb" => "WRITE" \in ev
  /\ pc = "req_cb" /\ lreq \in Reqs => heap[lreq] = "done"
  /\ \A r \in Reqs : heap[r] = "done" => pc = "req_cb" /\ lreq = r

(* The two halves of ArmedForWork.                                         *)
Watched == \A h \in Handles : interest[h] = IF h \in active THEN Work(h) ELSE {}
MaskMirrored == \A h \in active : events[h] = interest[h]

IInv ==
  /\ TypeOK
  /\ Watched
  /\ MaskMirrored
  /\ Counted
  /\ Links
  /\ Disjoint
  /\ ClosedIdle
  /\ LocalReq
-----------------------------------------------------------------------------
(* The first event of a non-empty batch is a report, and so is the rest.   *)
LEMMA BatchFacts ==
  ASSUME TypeOK, batch # <<>>
  PROVE  /\ cur \in Handles
         /\ ev \in SUBSET Events
         /\ Tail(batch) \in Seq(Reports)
<1>1. Head(batch) \in Reports
  BY DEF TypeOK
<1>2. QED
  BY <1>1 DEF TypeOK, cur, ev, Reports

(* The handles are finitely many, so the open ones can be counted.         *)
LEMMA ActiveIsFinite ==
  ASSUME TypeOK
  PROVE  IsFiniteSet(active)
BY HandleAssumption, FS_Subset DEF TypeOK

(* On short lists the closure that defines Chain is the list itself.       *)
LEMMA ChainIsListed ==
  ASSUME TypeOK, Links, NEW h \in active
  PROVE  Chain(h) = Listed(h)
<1>1. h \in Handles /\ Listed(h) \subseteq Reqs
  BY HandleAssumption DEF TypeOK, Listed
<1>2. Listed(h) \subseteq Chain(h)
  BY <1>1, HandleAssumption DEF TypeOK, Listed, Chain
<1>3. /\ req[h] # NULL => req[h] \in Listed(h)
      /\ \A x \in Listed(h) : next[x] # NULL => next[x] \in Listed(h)
  BY <1>1, HandleAssumption DEF TypeOK, Listed, Links
<1>4. Chain(h) \subseteq Listed(h)
  BY <1>1, <1>3 DEF Chain
<1>5. QED
  BY <1>2, <1>4

LEMMA InitIInv == Init => IInv
<1> SUFFICES ASSUME Init PROVE IInv
  OBVIOUS
<1> USE DEF Init, HandleInit
<1>1. TypeOK
  BY DEF TypeOK, PCs
<1>2. Counted
  BY FS_EmptySet DEF Counted
<1>3. QED
  BY <1>1, <1>2, HandleAssumption, LoopAssumption
     DEF IInv, Watched, MaskMirrored, Links, Disjoint, ClosedIdle, LocalReq, Callbacks, Events

LEMMA OpenIInv ==
  ASSUME IInv, NEW h \in Handles, Open(h)
  PROVE  IInv'
<1> USE HandleAssumption, LoopAssumption DEF IInv, Open, io__handle_init, loopVars
<1>1. TypeOK'
  BY DEF TypeOK
<1>2. Watched' /\ MaskMirrored'
  <2>1. Work(h)' = {} /\ interest'[h] = {} /\ events'[h] = {}
    BY DEF TypeOK, Watched, Work
  <2>2. \A g \in Handles \ {h} : Work(g)' = Work(g) /\ events'[g] = events[g]
    BY DEF TypeOK, Work
  <2>3. QED
    BY <2>1, <2>2 DEF TypeOK, Watched, MaskMirrored
<1>3. Counted'
  BY ActiveIsFinite, FS_AddElement DEF TypeOK, Counted
<1>4. Links' /\ Disjoint'
  <2>1. Listed(h)' = {} /\ req'[h] = NULL
    BY DEF TypeOK, Listed
  <2>2. \A g \in active : g # h /\ req'[g] = req[g] /\ Listed(g)' = Listed(g)
    BY DEF TypeOK, Listed
  <2>3. QED
    BY <2>1, <2>2 DEF TypeOK, Links, Disjoint
<1>5. cur' = cur /\ ev' = ev
  BY DEF cur, ev
<1>6. LocalReq'
  BY <1>5 DEF TypeOK, LocalReq, Listed, ClientRuns, Callbacks
<1>7. ClosedIdle'
  BY DEF TypeOK, ClosedIdle
<1>8. QED
  BY <1>1, <1>2, <1>3, <1>4, <1>6, <1>7

LEMMA StartTaskIInv ==
  ASSUME IInv, NEW h \in Handles, StartTask(h)
  PROVE  IInv'
<1> USE HandleAssumption, LoopAssumption DEF IInv, StartTask, io__handle_start, AddOrModOK, Registered, loopVars
<1>1. TypeOK'
  BY DEF TypeOK
<1>2. Watched' /\ MaskMirrored'
  BY ZenonT(60) DEF TypeOK, Watched, MaskMirrored, Work
<1>3. Counted'
  BY DEF Counted
<1>4. Links' /\ Disjoint'
  BY ZenonT(60) DEF TypeOK, Links, Disjoint, Listed
<1>5. cur' = cur /\ ev' = ev
  BY DEF cur, ev
<1>6. LocalReq'
  BY <1>5 DEF TypeOK, LocalReq, Listed, ClientRuns, Callbacks
<1>7. ClosedIdle'
  BY DEF TypeOK, ClosedIdle
<1>8. QED
  BY <1>1, <1>2, <1>3, <1>4, <1>6, <1>7

LEMMA StopTaskIInv ==
  ASSUME IInv, NEW h \in Handles, StopTask(h)
  PROVE  IInv'
<1> USE HandleAssumption, LoopAssumption DEF IInv, StopTask, io__handle_stop, Registered, loopVars
<1>1. TypeOK'
  BY DEF TypeOK
<1>2. Watched' /\ MaskMirrored'
  BY ZenonT(60) DEF TypeOK, Watched, MaskMirrored, Work
<1>3. Counted'
  BY DEF Counted
<1>4. Links' /\ Disjoint'
  BY DEF Links, Disjoint, Listed
<1>5. cur' = cur /\ ev' = ev
  BY DEF cur, ev
<1>6. LocalReq'
  BY <1>5 DEF TypeOK, LocalReq, Listed, ClientRuns, Callbacks
<1>7. ClosedIdle'
  BY DEF TypeOK, ClosedIdle
<1>8. QED
  BY <1>1, <1>2, <1>3, <1>4, <1>6, <1>7
(* What io__handle_req does to the lists: r becomes the only request of h, *)
(* or the successor of its first one.                                      *)
LEMMA RequestLists ==
  ASSUME IInv, NEW h \in Handles, NEW r \in Reqs, Request(h, r)
  PROVE  /\ h \in active /\ active' = active
         /\ \A x \in Reqs : heap'[x] = IF x = r THEN "waiting" ELSE heap[x]
         /\ \A g \in active : r \notin Listed(g) /\ (req[g] # NULL => req[g] \in Reqs \ {r})
         /\ next'[r] = NULL
         /\ req[h] # NULL => next'[req[h]] = r
         /\ \A x \in Reqs : x # r /\ x # req[h] => next'[x] = next[x]
         /\ \A g \in active \ {h} : req[g] # NULL => next'[req[g]] = next[req[g]]
         /\ \A g \in active \ {h} : Listed(g)' = Listed(g)
         /\ Listed(h)' = IF req[h] = NULL THEN {r} ELSE {req[h], r}
<1> USE HandleAssumption, LoopAssumption DEF IInv
<1>1. /\ h \in active /\ heap[r] = "free"
      /\ active' = active
      /\ \A x \in Reqs : heap'[x] = IF x = r THEN "waiting" ELSE heap[x]
  BY DEF TypeOK, Request, io__handle_req, loopVars
<1>3. /\ \A g \in Handles \ {h} : req'[g] = req[g]
      /\ req'[h] = IF req[h] = NULL THEN r ELSE req[h]
  BY DEF TypeOK, Request, io__handle_req
<1>6. \A g \in active : r \notin Listed(g) /\ (req[g] # NULL => req[g] \in Reqs \ {r})
  BY <1>1 DEF TypeOK, Links, Listed
<1>7. /\ next'[r] = NULL
      /\ req[h] # NULL => next'[req[h]] = r
      /\ \A x \in Reqs : x # r /\ x # req[h] => next'[x] = next[x]
  BY <1>1, <1>6 DEF TypeOK, Request, io__handle_req
<1>8. ASSUME NEW g \in active, g # h, req[g] # NULL
      PROVE  next'[req[g]] = next[req[g]]
  <2>1. req[g] \in Listed(g) /\ (req[h] # NULL => req[h] \in Listed(h))
    BY <1>1, <1>6, <1>8 DEF TypeOK, Listed
  <2>2. req[g] # req[h]
    BY <1>1, <1>8, <2>1 DEF Disjoint
  <2>3. QED
    BY <1>6, <1>7, <1>8, <2>2 DEF TypeOK
<1>9. /\ \A g \in active \ {h} : Listed(g)' = Listed(g)
      /\ Listed(h)' = IF req[h] = NULL THEN {r} ELSE {req[h], r}
  <2>1. ASSUME NEW g \in active \ {h}
        PROVE  Listed(g)' = Listed(g)
    BY <1>3, <1>8 DEF TypeOK, Listed
  <2>2. r # NULL /\ (req[h] # NULL => next'[req'[h]] = r)
    BY <1>3, <1>7
  <2>3. Listed(h)' = IF req'[h] = NULL THEN {} ELSE {req'[h], next'[req'[h]]} \ {NULL}
    BY DEF Listed
  <2>4. CASE req[h] = NULL
    <3>1. req'[h] = r /\ next'[req'[h]] = NULL
      BY <1>3, <1>7, <2>4
    <3>2. Listed(h)' = {r, NULL} \ {NULL}
      BY <2>2, <2>3, <3>1
    <3>3. QED
      BY <2>1, <2>2, <2>4, <3>2
  <2>5. CASE req[h] # NULL
    <3>1. req'[h] = req[h] /\ next'[req'[h]] = r
      BY <1>3, <2>2, <2>5
    <3>2. Listed(h)' = {req[h], r} \ {NULL}
      BY <2>3, <2>5, <3>1
    <3>3. QED
      BY <2>1, <2>2, <2>5, <3>2
  <2>6. QED
    BY <2>4, <2>5
<1>10. QED
  BY <1>1, <1>6, <1>7, <1>8, <1>9

LEMMA RequestIInv ==
  ASSUME IInv, NEW h \in Handles, NEW r \in Reqs, Request(h, r)
  PROVE  IInv'
<1> USE HandleAssumption, LoopAssumption DEF IInv
<1>1. /\ h \in active /\ ClientRuns /\ heap[r] = "free"
      /\ UNCHANGED <<active, handle_count, task, pc, batch, lreq, closed, stopped>>
      /\ \A x \in Reqs : heap'[x] = IF x = r THEN "waiting" ELSE heap[x]
  BY DEF TypeOK, Request, io__handle_req, loopVars
<1>2. TypeOK'
  <2>1. /\ events' \in [Handles -> SUBSET {"READ", "WRITE"}]
        /\ interest' \in [Handles -> SUBSET {"READ", "WRITE"}]
        /\ req' \in [Handles -> Reqs \union {NULL}]
    BY DEF TypeOK, Request, io__handle_req
  <2>2. next' \in [Reqs -> Reqs \union {NULL}]
    BY DEF TypeOK, Request, io__handle_req
  <2>3. heap' \in [Reqs -> {"free", "waiting", "done"}]
    BY DEF TypeOK, Request, io__handle_req
  <2>4. QED
    BY <1>1, <2>1, <2>2, <2>3 DEF TypeOK
<1>3. /\ \A g \in Handles \ {h} :
           req'[g] = req[g] /\ events'[g] = events[g] /\ interest'[g] = interest[g]
      /\ req'[h] = IF req[h] = NULL THEN r ELSE req[h]
      /\ events'[h] = (IF req[h] = NULL THEN events[h] \union {"WRITE"} ELSE events[h])
      /\ interest'[h] = IF req[h] = NULL THEN events'[h] ELSE interest[h]
  BY DEF TypeOK, Request, io__handle_req
<1>4. Watched' /\ MaskMirrored'
  <2>1. \A g \in Handles \ {h} : Work(g)' = Work(g)
    BY <1>1, <1>3 DEF Work
  <2>2. Work(h)' = Work(h) \union {"WRITE"} /\ (req[h] # NULL => "WRITE" \in Work(h))
    BY <1>1, <1>3 DEF TypeOK, Work
  <2>3. events[h] = Work(h) /\ interest[h] = Work(h)
    BY <1>1 DEF Watched, MaskMirrored
  <2>4. interest'[h] = Work(h)' /\ events'[h] = Work(h)'
    BY <1>3, <2>2, <2>3
  <2>5. QED
    BY <1>1, <1>3, <2>1, <2>4 DEF TypeOK, Watched, MaskMirrored
<1>5. Counted' /\ ClosedIdle'
  BY <1>1 DEF Counted, ClosedIdle
<1>6. \A g \in active : r \notin Listed(g) /\ (req[g] # NULL => req[g] \in Reqs \ {r})
  BY RequestLists
<1>7. /\ next'[r] = NULL
      /\ req[h] # NULL => next'[req[h]] = r
      /\ \A x \in Reqs : x # r /\ x # req[h] => next'[x] = next[x]
  BY RequestLists
<1>8. \A g \in active \ {h} : req[g] # NULL => next'[req[g]] = next[req[g]]
  BY RequestLists
<1>9. /\ \A g \in active \ {h} : Listed(g)' = Listed(g)
      /\ Listed(h)' = IF req[h] = NULL THEN {r} ELSE {req[h], r}
  BY RequestLists
<1>10. Disjoint'
  <2>1. Listed(h)' \subseteq Listed(h) \union {r}
    BY <1>1, <1>6, <1>9 DEF Listed
  <2>2. QED
    BY <1>1, <1>6, <1>9, <2>1 DEF Disjoint
<1>11. Links'
  <2>1. ASSUME NEW g \in active, g # h, req[g] # NULL, next[req[g]] # NULL
        PROVE  next[req[g]] \in Reqs \ {r} /\ next'[next[req[g]]] = next[next[req[g]]]
    <3>1. next[req[g]] \in Listed(g) /\ next[req[g]] \in Reqs
      BY <1>6, <2>1 DEF TypeOK, Listed
    <3>2. next[req[g]] # r /\ next[req[g]] # req[h]
      BY <1>1, <1>6, <2>1, <3>1 DEF Disjoint, Listed
    <3>3. QED
      BY <1>7, <3>1, <3>2
  <2>2. QED
    BY <1>1, <1>3, <1>6, <1>7, <1>8, <2>1 DEF TypeOK, Links
<1>12. cur' = cur /\ ev' = ev
  BY <1>1 DEF cur, ev
<1>13. LocalReq'
  <2>1. ASSUME lreq \in Reqs, pc = "task_cb" \/ "WRITE" \in ev
        PROVE  cur \in active /\ lreq = req[cur] /\ lreq = req'[cur]
    BY <1>1, <1>3, <2>1 DEF TypeOK, LocalReq
  <2>2. ASSUME lreq \in Reqs
        PROVE  cur \in active /\ pc \in Callbacks /\ lreq \in Listed(cur)' /\ lreq = req'[cur]
    <3>1. pc \in Callbacks /\ cur \in active
      BY <1>1, <2>2 DEF LocalReq, ClientRuns, Callbacks
    <3>2. lreq = req'[cur]
      BY <2>1, <2>2, <3>1 DEF LocalReq, Callbacks
    <3>3. QED
      BY <1>1, <1>12, <2>2, <3>1, <3>2 DEF Listed
  <2>3. \A x \in Reqs : heap'[x] = "done" <=> heap[x] = "done"
    BY <1>1
  <2>4. QED
    BY <1>1, <1>12, <2>2, <2>3 DEF TypeOK, LocalReq, ClientRuns, Callbacks
<1>14. QED
  BY <1>2, <1>4, <1>5, <1>10, <1>11, <1>13

(* io__handle_close frees exactly the list of the handle it closes.        *)
LEMMA CloseGivesUp ==
  ASSUME IInv, NEW h \in active, io__handle_close(h)
  PROVE  /\ \A r \in Reqs : heap'[r] = IF r \in Listed(h) THEN "free" ELSE heap[r]
         /\ task'[h] = FALSE
<1> USE DEF IInv
<1>1. h \in Handles /\ events[h] = interest[h] /\ interest[h] = Work(h)
  BY DEF TypeOK, Watched, MaskMirrored
<1>2. Chain(h) = Listed(h)
  BY ChainIsListed
<1>3. task[h] => Registered(h)
  BY <1>1 DEF Registered, Work
<1>4. req[h] # NULL => Registered(h) /\ events[h] # {} /\ events[h] \ {"READ"} # {}
  BY <1>1 DEF Registered, Work
<1>5. req[h] = NULL => Listed(h) = {}
  BY DEF Listed
<1>6. QED
  BY <1>1, <1>2, <1>3, <1>4, <1>5 DEF TypeOK, io__handle_close

LEMMA CloseIInv ==
  ASSUME IInv, NEW h \in Handles, Close(h)
  PROVE  IInv'
<1> USE HandleAssumption, LoopAssumption DEF IInv
<1>1. /\ h \in active
      /\ \A r \in Reqs : heap'[r] = IF r \in Listed(h) THEN "free" ELSE heap[r]
      /\ task'[h] = FALSE
  BY CloseGivesUp DEF Close
<1>2. TypeOK'
  <2>1. events' \in [Handles -> SUBSET {"READ", "WRITE"}]
    BY DEF TypeOK, Close, io__handle_close
  <2>2. heap' \in [Reqs -> {"free", "waiting", "done"}] /\ task' \in [Handles -> BOOLEAN]
    BY DEF TypeOK, Close, io__handle_close
  <2>3. handle_count' \in Nat
    BY <1>1, ActiveIsFinite, FS_EmptySet DEF TypeOK, Counted, Close, io__handle_close
  <2>4. QED
    BY <2>1, <2>2, <2>3 DEF TypeOK, Close, io__handle_close
<1>3. Watched' /\ MaskMirrored' /\ ClosedIdle'
  <2>1. \A g \in Handles \ {h} : Work(g)' = Work(g) /\ events'[g] = events[g]
          /\ interest'[g] = interest[g] /\ task'[g] = task[g]
    BY DEF TypeOK, Close, io__handle_close, Work
  <2>2. active' = active \ {h} /\ interest'[h] = {}
    BY DEF TypeOK, Close, io__handle_close
  <2>3. QED
    BY <1>1, <2>1, <2>2 DEF TypeOK, Watched, MaskMirrored, ClosedIdle
<1>4. Counted'
  BY <1>1, ActiveIsFinite, FS_RemoveElement DEF TypeOK, Counted, Close, io__handle_close
<1>5. active' = active \ {h} /\ UNCHANGED <<req, next, pc, batch>>
  BY DEF Close, io__handle_close
<1>6. \A g \in active' : Listed(g)' = Listed(g) /\ \A r \in Listed(g) \cap Reqs : heap'[r] = heap[r]
  BY <1>1, <1>5 DEF Listed, Disjoint
<1>7. Links' /\ Disjoint'
  <2>1. Disjoint'
    BY <1>5, <1>6 DEF Disjoint
  <2>2. ASSUME NEW g \in active', req[g] # NULL
        PROVE  /\ heap'[req[g]] = heap[req[g]]
               /\ next[req[g]] # NULL => heap'[next[req[g]]] = heap[next[req[g]]]
    BY <1>5, <1>6, <2>2 DEF TypeOK, Listed
  <2>3. QED
    BY <1>5, <2>1, <2>2 DEF Links
<1>8. cur' = cur /\ ev' = ev
  BY <1>5 DEF cur, ev
<1>9. LocalReq'
  <2>1. ASSUME lreq' \in Reqs
        PROVE  lreq' = lreq /\ heap'[lreq] # "free" /\ cur \in active' /\ lreq \in Listed(cur)
    BY <2>1, <1>1, <1>5 DEF Close, LocalReq
  <2>2. lreq = NULL => lreq' = NULL
    BY DEF Close
  <2>3. ASSUME NEW r \in Reqs, heap'[r] = "done"
        PROVE  heap[r] = "done" /\ heap'[r] # "free"
    BY <2>3, <1>1 DEF TypeOK
  <2>4. \A r \in Reqs : lreq = r /\ heap'[r] # "free" => lreq' = r
    BY DEF Close
  <2>5. QED
    BY <1>1, <1>5, <1>6, <1>8, <2>1, <2>2, <2>3, <2>4
       DEF LocalReq, Close, ClientRuns, Callbacks
<1>10. QED
  BY <1>2, <1>3, <1>4, <1>7, <1>9
(* The steps of io_loop_run that touch no handle disturb only its locals.  *)
LEMMA HandlesKept ==
  ASSUME IInv, UNCHANGED handleVars
  PROVE  Watched' /\ MaskMirrored' /\ Counted' /\ Links' /\ Disjoint' /\ ClosedIdle'
<1> USE DEF IInv, handleVars
<1>1. Watched' /\ MaskMirrored'
  BY DEF Watched, MaskMirrored, Work
<1>2. Counted' /\ ClosedIdle'
  BY DEF Counted, ClosedIdle
<1>3. Links' /\ Disjoint'
  BY DEF Links, Disjoint, Listed
<1>4. QED
  BY <1>1, <1>2, <1>3

LEMMA FillIInv ==
  ASSUME IInv, NEW n \in 1..MaxEvent, NEW b \in [1..n -> Ready], Fill(b)
  PROVE  IInv'
<1> USE HandleAssumption, LoopAssumption DEF IInv
<1>1. b \in Seq(Reports) /\ b # <<>>
  <2>1. b \in [1..n -> Reports] /\ n \in Nat
    BY DEF Ready
  <2>2. Len(b) = n /\ n # 0
    BY <2>1
  <2>3. QED
    BY <2>1, <2>2
<1>2. TypeOK'
  BY <1>1 DEF TypeOK, Fill, handleVars, PCs
<1>3. LocalReq'
  BY <1>1 DEF TypeOK, LocalReq, Fill, handleVars, Callbacks
<1>4. QED
  BY <1>2, <1>3, HandlesKept DEF Fill

LEMMA IdleStepsIInv ==
  ASSUME IInv, Run \/ Exit \/ TaskReturns \/ ReadFreedRequest
  PROVE  IInv'
<1> USE HandleAssumption, LoopAssumption DEF IInv
<1>1. UNCHANGED handleVars /\ UNCHANGED <<batch, lreq, closed, stopped>>
  BY DEF Run, Exit, TaskReturns, ReadFreedRequest
<1>2. TypeOK'
  BY <1>1 DEF TypeOK, handleVars, PCs, Faults, Run, Exit, TaskReturns, ReadFreedRequest
<1>3. cur' = cur /\ ev' = ev
  BY <1>1 DEF cur, ev
<1>4. LocalReq'
  BY <1>1, <1>3 DEF TypeOK, LocalReq, Listed, handleVars, Callbacks,
     Run, Exit, TaskReturns, ReadFreedRequest
<1>5. QED
  BY <1>1, <1>2, <1>4, HandlesKept

LEMMA DispatchIInv ==
  ASSUME IInv, Dispatch
  PROVE  IInv'
<1> USE HandleAssumption, LoopAssumption DEF IInv
<1>1. UNCHANGED handleVars /\ batch # <<>> /\ UNCHANGED <<batch, closed, stopped>>
  BY DEF Dispatch, LocalReq, Callbacks
<1>2. cur \in Handles /\ cur' = cur /\ ev' = ev
  BY <1>1, BatchFacts DEF cur, ev
<1>3. TypeOK'
  BY <1>1, <1>2 DEF TypeOK, handleVars, PCs, Callbacks, Faults, Dispatch
<1>4. CASE task[cur]
  <2>1. cur \in active /\ lreq' = req[cur] /\ pc' \in {"task_cb", "reqs"}
    BY <1>2, <1>4 DEF Dispatch, ClosedIdle
  <2>2. lreq' \in Reqs => lreq' \in Listed(cur)
    BY <2>1 DEF Listed
  <2>3. Listed(cur)' = Listed(cur) /\ req'[cur'] = req[cur]
    BY <1>1, <1>2 DEF Listed, handleVars
  <2>4. \A r \in Reqs : heap'[r] # "done"
    BY <1>1 DEF Dispatch, LocalReq, handleVars
  <2>5. QED
    BY <1>1, <1>2, <1>3, <2>1, <2>2, <2>3, <2>4, HandlesKept
       DEF LocalReq, handleVars, Callbacks
<1>5. CASE ~task[cur]
  <2>1. pc' = "null_task" /\ lreq' = NULL
    BY <1>5 DEF Dispatch, LocalReq
  <2>2. \A r \in Reqs : heap'[r] # "done"
    BY <1>1 DEF Dispatch, LocalReq, handleVars
  <2>3. QED
    BY <1>1, <1>3, <2>1, <2>2, HandlesKept DEF LocalReq, handleVars, Callbacks
<1>6. QED
  BY <1>4, <1>5

LEMMA NextEventIInv ==
  ASSUME IInv, NoMoreRequests \/ PartialProgress
  PROVE  IInv'
<1> USE HandleAssumption, LoopAssumption DEF IInv
<1>1. UNCHANGED handleVars /\ pc = "reqs" /\ batch # <<>> /\ UNCHANGED <<closed, stopped>>
  BY DEF NoMoreRequests, PartialProgress, LocalReq
<1>2. NextEvent
  BY DEF NoMoreRequests, PartialProgress
<1>3. TypeOK'
  BY <1>1, <1>2, BatchFacts DEF TypeOK, NextEvent, handleVars, PCs
<1>4. LocalReq'
  BY <1>1, <1>2 DEF LocalReq, NextEvent, handleVars, Callbacks
<1>5. QED
  BY <1>1, <1>3, <1>4, HandlesKept

LEMMA SkipRequestIInv ==
  ASSUME IInv, SkipRequest
  PROVE  IInv'
<1> USE HandleAssumption, LoopAssumption DEF IInv
<1>1. UNCHANGED handleVars /\ pc = "reqs" /\ UNCHANGED <<pc, batch, closed, stopped>>
      /\ lreq \in Reqs /\ "WRITE" \notin ev /\ lreq' = next[lreq]
  BY DEF SkipRequest
<1>2. TypeOK'
  BY <1>1 DEF TypeOK, handleVars
<1>3. cur' = cur /\ ev' = ev /\ cur \in active /\ lreq \in Listed(cur)
  BY <1>1 DEF cur, ev, LocalReq
<1>4. lreq' # NULL => lreq' \in Listed(cur)
  BY <1>1, <1>3 DEF Links, Listed
<1>5. LocalReq'
  BY <1>1, <1>3, <1>4 DEF LocalReq, Listed, handleVars, Callbacks
<1>6. QED
  BY <1>1, <1>2, <1>5, HandlesKept

LEMMA FinalProgressIInv ==
  ASSUME IInv, FinalProgress
  PROVE  IInv'
<1> USE HandleAssumption, LoopAssumption DEF IInv
<1>1. /\ pc = "reqs" /\ pc' = "req_cb" /\ lreq \in Reqs /\ "WRITE" \in ev
      /\ \A r \in Reqs : heap'[r] = IF r = lreq THEN "done" ELSE heap[r]
      /\ UNCHANGED <<active, handle_count, events, interest, task, req, next, batch, lreq, closed, stopped>>
  BY DEF TypeOK, FinalProgress
<1>2. TypeOK'
  BY DEF TypeOK, FinalProgress, PCs, Callbacks
<1>3. Watched' /\ MaskMirrored' /\ Counted' /\ ClosedIdle'
  BY <1>1 DEF Watched, MaskMirrored, Work, Counted, ClosedIdle
<1>4. Disjoint'
  BY <1>1 DEF Disjoint, Listed
<1>5. Links'
  BY <1>1 DEF TypeOK, Links
<1>6. cur' = cur /\ ev' = ev
  BY <1>1 DEF cur, ev
<1>7. LocalReq'
  BY <1>1, <1>6 DEF LocalReq, Listed, Callbacks
<1>8. QED
  BY <1>2, <1>3, <1>4, <1>5, <1>7
(* What io__handle_done does to the lists: the current handle's loses the  *)
(* request that has completed.                                             *)
LEMMA RequestReturnsLists ==
  ASSUME IInv, RequestReturns
  PROVE  /\ cur \in active /\ active' = active
         /\ lreq \in Reqs
         /\ \A r \in Reqs : heap'[r] = IF r = lreq THEN "free" ELSE heap[r]
         /\ \A g \in active \ {cur} : Listed(g)' = Listed(g)
         /\ \A h \in active : h = cur => Listed(h)' = Listed(h) \ {lreq}
<1> USE HandleAssumption, LoopAssumption DEF IInv
<1>a. PICK h : h = cur
  OBVIOUS
<1>b. PICK succ : succ = next[lreq]
  OBVIOUS
<1>1. /\ pc = "req_cb" /\ lreq \in Reqs
      /\ h \in active /\ h \in Handles /\ lreq = req[h]
  BY <1>a DEF RequestReturns, LocalReq, TypeOK
<1>2. /\ UNCHANGED <<active, next>>
      /\ \A g \in Handles \ {h} : req'[g] = req[g]
      /\ req'[h] = succ
      /\ \A r \in Reqs : heap'[r] = IF r = lreq THEN "free" ELSE heap[r]
  BY <1>1, <1>a, <1>b DEF TypeOK, RequestReturns, io__handle_done
<1>3. \A g \in active \ {h} : Listed(g)' = Listed(g)
  BY <1>1, <1>2 DEF TypeOK, Listed
<1>4. Listed(h)' = Listed(h) \ {lreq}
  <2>1. succ # NULL => succ # lreq /\ succ \in Reqs /\ next[succ] = NULL
    BY <1>1, <1>b DEF TypeOK, Links
  <2>2. lreq # NULL /\ Listed(h) = {lreq, succ} \ {NULL}
    BY <1>1, <1>b DEF Listed
  <2>3. (IF req'[h] = NULL THEN {} ELSE {req'[h], next'[req'[h]]} \ {NULL}) = Listed(h) \ {lreq}
    BY <1>2, <2>1, <2>2
  <2>4. QED
    BY <2>3 DEF Listed
<1>5. QED
  BY <1>1, <1>2, <1>3, <1>4, <1>a

LEMMA RequestReturnsIInv ==
  ASSUME IInv, RequestReturns
  PROVE  IInv'
<1> USE HandleAssumption, LoopAssumption DEF IInv
<1>a. PICK h : h = cur
  OBVIOUS
<1>b. PICK succ : succ = next[lreq]
  OBVIOUS
<1>1. /\ pc = "req_cb" /\ lreq \in Reqs /\ "WRITE" \in ev
      /\ h \in active /\ h \in Handles /\ lreq = req[h]
      /\ pc' = "reqs" /\ UNCHANGED <<batch, closed, stopped>>
  BY <1>a DEF RequestReturns, LocalReq, TypeOK
<1>2. cur' = cur /\ ev' = ev
  BY <1>1 DEF cur, ev
<1>3. events[h] = Work(h) /\ interest[h] = Work(h) /\ "WRITE" \in Work(h)
  BY <1>1 DEF Watched, MaskMirrored, Work
<1>4. /\ UNCHANGED <<active, handle_count, task, next>>
      /\ \A g \in Handles \ {h} :
           req'[g] = req[g] /\ events'[g] = events[g] /\ interest'[g] = interest[g]
      /\ req'[h] = succ
      /\ events'[h] = IF succ = NULL THEN events[h] \ {"WRITE"} ELSE events[h]
      /\ interest'[h] = events'[h]
      /\ \A r \in Reqs : heap'[r] = IF r = lreq THEN "free" ELSE heap[r]
      /\ lreq' = succ
  BY <1>1, <1>3, <1>a, <1>b DEF TypeOK, RequestReturns, io__handle_done, Registered
<1>5. TypeOK'
  <2>1. succ \in Reqs \union {NULL}
    BY <1>1, <1>b DEF TypeOK
  <2>2. /\ events' \in [Handles -> SUBSET {"READ", "WRITE"}]
        /\ interest' \in [Handles -> SUBSET {"READ", "WRITE"}]
    BY <1>1, <1>3, <1>a, <1>b DEF TypeOK, RequestReturns, io__handle_done
  <2>3. req' \in [Handles -> Reqs \union {NULL}] /\ heap' \in [Reqs -> {"free", "waiting", "done"}]
    BY <1>1, <1>a, <1>b, <2>1 DEF TypeOK, RequestReturns, io__handle_done
  <2>4. QED
    BY <1>1, <1>4, <2>1, <2>2, <2>3 DEF TypeOK, PCs
<1>6. Watched' /\ MaskMirrored'
  <2>1. \A g \in Handles \ {h} : Work(g)' = Work(g)
    BY <1>4 DEF Work
  <2>2. Work(h)' = IF succ = NULL THEN Work(h) \ {"WRITE"} ELSE Work(h)
    BY <1>1, <1>2, <1>4 DEF Work
  <2>3. QED
    BY <1>1, <1>3, <1>4, <2>1, <2>2, ZenonT(60) DEF Watched, MaskMirrored, TypeOK
<1>7. Counted' /\ ClosedIdle'
  BY <1>4 DEF Counted, ClosedIdle
<1>8. /\ \A g \in active \ {h} : Listed(g)' = Listed(g)
      /\ Listed(h) \ {lreq} = IF succ = NULL THEN {} ELSE {succ}
      /\ succ # NULL => succ \in Reqs /\ next[succ] = NULL /\ heap'[succ] # "free"
  <2>1. \A g \in active \ {h} : Listed(g)' = Listed(g)
    BY <1>1, <1>4 DEF TypeOK, Listed
  <2>2. succ # NULL => succ # lreq /\ succ \in Reqs /\ next[succ] = NULL /\ heap[succ] # "free"
    BY <1>1, <1>b DEF TypeOK, Links
  <2>3. lreq # NULL /\ Listed(h) = {lreq, succ} \ {NULL}
    BY <1>1, <1>b DEF Listed
  <2>4. QED
    BY <1>4, <2>1, <2>2, <2>3
<1>9. (IF req'[h] = NULL THEN {} ELSE {req'[h], next'[req'[h]]} \ {NULL}) = Listed(h) \ {lreq}
  BY <1>4, <1>8
<1>10. Disjoint'
  <2>1. Listed(h)' = Listed(h) \ {lreq}
    BY <1>2, <1>9 DEF Listed
  <2>2. QED
    BY <1>1, <1>4, <1>8, <2>1 DEF Disjoint
<1>11. Links'
  <2>1. lreq \in Listed(h)
    BY <1>1 DEF Listed
  <2>2. ASSUME NEW g \in active, g # h, req[g] # NULL
        PROVE  /\ heap'[req[g]] = heap[req[g]]
               /\ next[req[g]] # NULL => heap'[next[req[g]]] = heap[next[req[g]]]
    <3>1. lreq \notin Listed(g)
      BY <1>1, <2>1, <2>2 DEF Disjoint
    <3>2. req[g] \in Reqs /\ (next[req[g]] # NULL => next[req[g]] \in Reqs)
      BY <2>2 DEF TypeOK
    <3>3. QED
      BY <1>4, <2>2, <3>1, <3>2 DEF Listed
  <2>3. QED
    BY <1>1, <1>4, <1>8, <2>2 DEF TypeOK, Links
<1>12. LocalReq'
  <2>1. lreq' # NULL => /\ lreq' \in Reqs
                        /\ lreq' = req'[h]
                        /\ lreq' \in Listed(h) \ {lreq}
    BY <1>4, <1>8
  <2>2. Listed(h)' = Listed(h) \ {lreq}
    BY <1>2, <1>9 DEF Listed
  <2>3. \A r \in Reqs : heap'[r] # "done"
    BY <1>1, <1>4 DEF LocalReq
  <2>4. QED
    BY <1>1, <1>2, <1>4, <1>a, <2>1, <2>2, <2>3 DEF LocalReq, Callbacks
<1>13. QED
  BY <1>5, <1>6, <1>7, <1>10, <1>11, <1>12

LEMMA NextIInv == IInv /\ [Next]_vars => IInv'
<1> SUFFICES ASSUME IInv, [Next]_vars PROVE IInv'
  OBVIOUS
<1>1. CASE Client
  BY <1>1, OpenIInv, StartTaskIInv, StopTaskIInv, RequestIInv, CloseIInv DEF Client
<1>2. CASE EpollWait
  BY <1>2, FillIInv DEF EpollWait
<1>3. CASE LoopStep /\ ~EpollWait
  BY <1>3, IdleStepsIInv, DispatchIInv, NextEventIInv, SkipRequestIInv, FinalProgressIInv,
     RequestReturnsIInv DEF LoopStep
<1>4. CASE UNCHANGED vars
  <2>1. UNCHANGED handleVars /\ UNCHANGED <<pc, batch, lreq, closed, stopped>>
    BY <1>4 DEF vars, handleVars
  <2>2. TypeOK'
    BY <2>1 DEF IInv, TypeOK, handleVars
  <2>3. cur' = cur /\ ev' = ev
    BY <2>1 DEF cur, ev
  <2>4. LocalReq'
    BY <2>1, <2>3 DEF IInv, LocalReq, Listed, handleVars
  <2>5. QED
    BY <2>1, <2>2, <2>4, HandlesKept DEF IInv
<1>5. QED
  BY <1>1, <1>2, <1>3, <1>4 DEF Next

LEMMA SpecIInv == Spec => []IInv
BY InitIInv, NextIInv, PTL DEF Spec
-----------------------------------------------------------------------------
(* The variables of handles, requests and loop keep their types, however   *)
(* the client interleaves its calls with the callbacks; handle_count does  *)
(* not go below zero (handle.c:152).                                       *)
THEOREM TypeCorrect == Spec => []TypeOK
<1>1. IInv => TypeOK
  BY DEF IInv
<1>2. QED
  BY <1>1, SpecIInv, PTL

(* The five functions of handle.c that maintain the masks keep every open  *)
(* handle watched for exactly its work, and no closed one watched at all,  *)
(* and the mask in the handle equal to epoll's, although io__handle_done   *)
(* does not look at the result of epoll_ctl (handle.c:105).                *)
THEOREM WatchedForWork == Spec => []ArmedForWork
<1>1. IInv => ArmedForWork
  BY DEF IInv, Watched, MaskMirrored, ArmedForWork
<1>2. QED
  BY <1>1, SpecIInv, PTL

(* The request lists keep their shape (handle.c:62-114): allocated blocks, *)
(* shared by no two handles, at most two long, completed first only.       *)
THEOREM ListsSound == Spec => []QueuesSound
<1>1. IInv => QueuesSound
  <2> SUFFICES ASSUME IInv, NEW h \in active
               PROVE  /\ \A r \in Chain(h) :
                           /\ heap[r] # "free"
                           /\ heap[r] = "done" => r = req[h]
                           /\ r # req[h] => next[req[h]] = r /\ next[r] = NULL
                      /\ \A g \in active \ {h} : Chain(h) \intersect Chain(g) = {}
    BY DEF QueuesSound
  <2>1. \A g \in active : Chain(g) = Listed(g)
    BY ChainIsListed DEF IInv
  <2>2. \A g \in active \ {h} : Chain(h) \intersect Chain(g) = {}
    BY <2>1 DEF IInv, Disjoint
  <2>3. ASSUME NEW r \in Chain(h), heap[r] = "done"
        PROVE  r = req[h]
    <3>1. r \in Reqs /\ pc = "req_cb" /\ lreq = r
      BY <2>3 DEF IInv, LocalReq, Chain
    <3>2. cur \in active /\ r = req[cur] /\ r \in Listed(cur) /\ r \in Listed(h)
      BY <2>1, <3>1 DEF IInv, LocalReq
    <3>3. cur = h
      BY <3>2 DEF IInv, Disjoint
    <3>4. QED
      BY <3>2, <3>3
  <2>4. ASSUME NEW r \in Chain(h)
        PROVE  heap[r] # "free" /\ (r # req[h] => next[req[h]] = r /\ next[r] = NULL)
    BY <2>1 DEF IInv, Links, Listed
  <2>5. QED
    BY <2>2, <2>3, <2>4
<1>2. QED
  BY <1>1, SpecIInv, PTL

(* io_loop_run counts the open handles, and once it has left its loop      *)
(* nothing is registered with epoll (loop.c:21, handle.c:14, 152).         *)
THEOREM CountsOpen == Spec => []CountsOpenHandles
<1> DEFINE Left == pc = "exit" => active = {}
<1>1. IInv /\ Left => CountsOpenHandles
  BY DEF IInv, Counted, Watched, CountsOpenHandles
<1>2. Init => Left
  BY DEF Init
<1>3. IInv /\ Left /\ [Next]_vars => Left'
  <2> SUFFICES ASSUME IInv, Left, [Next]_vars, pc' = "exit" PROVE active' = {}
    OBVIOUS
  <2>1. CASE Exit
    <3>1. Cardinality(active) = 0 /\ IsFiniteSet(active) /\ active' = active
      BY <2>1, ActiveIsFinite DEF IInv, Counted, Exit, handleVars
    <3>2. QED
      BY <3>1, FS_EmptySet
  <2>2. CASE Client
    BY <2>2 DEF Client, ClientRuns, Callbacks, Open, StartTask, StopTask, Request, Close, loopVars
  <2>3. CASE LoopStep /\ ~Exit
    BY <2>3 DEF LoopStep, Run, EpollWait, Fill, Dispatch, TaskReturns, NoMoreRequests, NextEvent,
       SkipRequest, PartialProgress, FinalProgress, RequestReturns, ReadFreedRequest
  <2>4. CASE UNCHANGED vars
    BY <2>4 DEF vars
  <2>5. QED
    BY <2>1, <2>2, <2>3, <2>4 DEF Next
<1>4. QED
  BY <1>1, <1>2, <1>3, SpecIInv, PTL DEF Spec

(* The request io__handle_done retires is the one the loop has completed.  *)
THEOREM CompletesFirst == Spec => []CompletesTheFirst
<1>1. IInv => CompletesTheFirst
  BY DEF IInv, LocalReq, CompletesTheFirst
<1>2. QED
  BY <1>1, SpecIInv, PTL
-----------------------------------------------------------------------------
(* What io_loop_run may still find when a callback has run: the rest of    *)
(* the batch is about handles that were reported because they had work,    *)
(* and have it still unless they were closed or stopped in between.        *)
BatchDistinct == \A i, j \in DOMAIN batch : batch[i].h = batch[j].h => i = j

Busy(h) == h \in active /\ (task[h] \/ req[h] # NULL)

BatchBusy ==
  \A i \in DOMAIN batch :
    (i > 1 \/ pc = "dispatch") /\ batch[i].h \notin closed \union stopped => Busy(batch[i].h)

Explained ==
  /\ pc = "main" => batch = <<>>
  /\ BatchDistinct
  /\ BatchBusy
  /\ lreq = Dangling => cur \in closed
  /\ FaultsExplained

LEMMA BatchCallback ==
  ASSUME IInv, Explained, ClientRuns, NEW i \in DOMAIN batch
  PROVE  /\ pc \in Callbacks /\ 1 \in DOMAIN batch /\ cur = batch[1].h
         /\ i > 1 => batch[i].h # cur
         /\ i \in Nat \ {0}
<1>1. batch \in Seq(Reports) /\ batch # <<>>
  BY DEF IInv, TypeOK
<1>2. pc \in Callbacks
  BY <1>1 DEF Explained, ClientRuns
<1>3. 1 \in DOMAIN batch /\ Head(batch) = batch[1] /\ i \in Nat \ {0}
  BY <1>1
<1>4. QED
  BY <1>2, <1>3 DEF Explained, BatchDistinct, cur

(* A call of the client takes the work of a handle away only by closing or *)
(* stopping it, and then the history says so.                              *)
LEMMA ClientLeavesBusy ==
  ASSUME IInv, Client, NEW g \in Handles, Busy(g), g \notin closed'
  PROVE  Busy(g)' \/ g \in stopped'
<1> USE HandleAssumption DEF IInv, Busy
<1>1. PICK h \in Handles : Open(h) \/ StartTask(h) \/ StopTask(h)
                           \/ (\E r \in Reqs : Request(h, r)) \/ Close(h)
  BY DEF Client
<1>2. CASE Open(h)
  BY <1>2 DEF TypeOK, Open, io__handle_init
<1>3. CASE StartTask(h)
  BY <1>3 DEF TypeOK, StartTask, io__handle_start
<1>4. CASE StopTask(h)
  BY <1>4 DEF TypeOK, StopTask, io__handle_stop
<1>5. ASSUME NEW r \in Reqs, Request(h, r)
      PROVE  Busy(g)'
  BY <1>5 DEF TypeOK, Request, io__handle_req
<1>6. CASE Close(h)
  BY <1>6 DEF TypeOK, Close, io__handle_close
<1>7. QED
  BY <1>1, <1>2, <1>3, <1>4, <1>5, <1>6

LEMMA ClientExplained ==
  ASSUME IInv, Explained, Client
  PROVE  Explained'
<1> USE DEF IInv
<1>1. PICK h \in Handles : Open(h) \/ StartTask(h) \/ StopTask(h)
                           \/ (\E r \in Reqs : Request(h, r)) \/ Close(h)
  BY DEF Client
<1>2. /\ ClientRuns /\ UNCHANGED <<pc, batch>>
      /\ closed \subseteq closed' /\ stopped \subseteq stopped'
  BY <1>1 DEF Open, StartTask, StopTask, Request, Close, loopVars
<1>3. cur' = cur
  BY <1>2 DEF cur
<1>4. pc' \notin Faults \union {"dispatch"}
  BY <1>2 DEF ClientRuns, Callbacks, Faults
<1>5. (pc' = "main" => batch' = <<>>) /\ BatchDistinct'
  BY <1>2 DEF Explained, BatchDistinct
<1>6. BatchBusy'
  <2> SUFFICES ASSUME NEW i \in DOMAIN batch, i > 1, batch[i].h \notin closed' \union stopped'
               PROVE  Busy(batch[i].h)'
    BY <1>2, <1>4 DEF BatchBusy, Busy
  <2>1. PICK g \in Handles : g = batch[i].h
    <3>1. batch \in Seq(Reports)
      BY DEF TypeOK
    <3>2. batch[i] \in Reports
      BY <3>1
    <3>3. QED
      BY <3>2 DEF Reports
  <2>2. Busy(g)
    BY <1>2, <2>1 DEF Explained, BatchBusy
  <2>3. Busy(g)'
    BY <2>1, <2>2, ClientLeavesBusy
  <2>4. QED
    BY <1>2, <2>1, <2>3 DEF Busy
<1>7. lreq' = Dangling => cur' \in closed'
  <2>1. CASE Close(h)
    <3>1. h \in active /\ \A r \in Reqs : heap'[r] = IF r \in Listed(h) THEN "free" ELSE heap[r]
      BY <2>1, CloseGivesUp DEF Close
    <3>2. CASE lreq \in Reqs /\ heap'[lreq] = "free"
      <4>1. cur \in active /\ lreq \in Listed(cur) /\ heap[lreq] # "free"
        BY <3>2, HandleAssumption DEF LocalReq, Links, Listed
      <4>2. cur = h
        BY <3>1, <3>2, <4>1 DEF Disjoint
      <4>3. QED
        BY <1>3, <2>1, <4>2 DEF Close
    <3>3. CASE ~(lreq \in Reqs /\ heap'[lreq] = "free")
      BY <1>2, <1>3, <2>1, <3>3 DEF Close, Explained
    <3>4. QED
      BY <3>2, <3>3
  <2>2. CASE ~Close(h)
    BY <1>1, <1>2, <1>3, <2>2 DEF Open, StartTask, StopTask, Request, loopVars, Explained
  <2>3. QED
    BY <2>1, <2>2
<1>8. FaultsExplained'
  BY <1>4 DEF FaultsExplained, Faults
<1>9. QED
  BY <1>5, <1>6, <1>7, <1>8 DEF Explained

LEMMA FillExplained ==
  ASSUME IInv, Explained, NEW n \in 1..MaxEvent, NEW b \in [1..n -> Ready], Fill(b)
  PROVE  Explained'
<1>1. \A i \in DOMAIN b : b[i].h \in Handles /\ Busy(b[i].h)
  <2>1. \A rep \in Ready : rep.h \in Handles /\ interest[rep.h] # {}
    BY DEF Ready, Reports, MayReport, Registered
  <2>2. \A h \in Handles : interest[h] # {} => Busy(h)
    BY DEF IInv, Watched, Work, Busy
  <2>3. QED
    BY <2>1, <2>2
<1>2. BatchDistinct' /\ BatchBusy'
  BY <1>1 DEF Fill, handleVars, BatchDistinct, BatchBusy, Busy
<1>3. lreq' # Dangling
  BY LoopAssumption DEF IInv, LocalReq, Fill
<1>4. QED
  BY <1>2, <1>3 DEF Fill, Explained, FaultsExplained

LEMMA LoopStepExplained ==
  ASSUME IInv, Explained, LoopStep, ~EpollWait
  PROVE  Explained'
<1> USE DEF IInv
<1>1. CASE Run \/ Exit \/ TaskReturns
  <2>1. UNCHANGED handleVars /\ UNCHANGED <<batch, lreq, closed, stopped>>
        /\ pc' \in {"wait", "exit", "reqs"}
    BY <1>1 DEF Run, Exit, TaskReturns
  <2>2. cur' = cur
    BY <2>1 DEF cur
  <2>3. QED
    BY <2>1, <2>2 DEF handleVars, Explained, BatchDistinct, BatchBusy, Busy, FaultsExplained
<1>2. CASE ReadFreedRequest
  <2>1. UNCHANGED handleVars /\ UNCHANGED <<batch, lreq, closed, stopped>>
        /\ pc' = "freed_req" /\ lreq = Dangling
    BY <1>2 DEF ReadFreedRequest
  <2>2. cur' = cur
    BY <2>1 DEF cur
  <2>3. QED
    BY <2>1, <2>2 DEF handleVars, Explained, BatchDistinct, BatchBusy, Busy, FaultsExplained
<1>3. CASE Dispatch
  <2>1. batch \in Seq(Reports) /\ 1 \in DOMAIN batch /\ cur = batch[1].h /\ cur \in Handles
    BY <1>3, BatchFacts DEF Dispatch, LocalReq, TypeOK, cur
  <2>2. UNCHANGED handleVars /\ UNCHANGED <<batch, closed, stopped>> /\ cur' = cur
    BY <1>3 DEF Dispatch, cur
  <2>3. lreq' # Dangling
    BY <1>3, <2>1, LoopAssumption DEF Dispatch, LocalReq, TypeOK
  <2>4. cur \notin closed \union stopped => Busy(cur)
    BY <1>3, <2>1 DEF Dispatch, Explained, BatchBusy
  <2>5. pc' \in {"task_cb", "reqs", "null_task"} /\ (pc' = "null_task" => ~task[cur])
    BY <1>3 DEF Dispatch
  <2>6. BatchBusy' /\ BatchDistinct'
    BY <2>2, <2>5 DEF Explained, BatchDistinct, BatchBusy, Busy, handleVars
  <2>7. FaultsExplained'
    BY <2>2, <2>4, <2>5 DEF FaultsExplained, Busy, handleVars
  <2>8. QED
    BY <2>3, <2>5, <2>6, <2>7 DEF Explained
<1>4. CASE NoMoreRequests \/ PartialProgress
  <2>1. NextEvent /\ UNCHANGED handleVars /\ UNCHANGED <<closed, stopped>> /\ pc = "reqs"
    BY <1>4 DEF NoMoreRequests, PartialProgress
  <2>2. batch \in Seq(Reports) /\ batch # <<>> /\ batch' = Tail(batch)
    BY <2>1 DEF LocalReq, TypeOK, NextEvent
  <2>3. \A i \in DOMAIN batch' : /\ i \in Nat /\ i + 1 \in DOMAIN batch /\ i + 1 > 1
                                 /\ batch'[i] = batch[i + 1]
    BY <2>2
  <2>4. BatchDistinct'
    BY <2>3 DEF Explained, BatchDistinct
  <2>5. BatchBusy'
    BY <2>1, <2>3 DEF Explained, BatchBusy, Busy, handleVars
  <2>6. pc' \in {"wait", "dispatch"} /\ lreq' # Dangling
    BY <2>1, LoopAssumption DEF NextEvent
  <2>7. QED
    BY <2>4, <2>5, <2>6 DEF Explained, FaultsExplained
<1>5. CASE SkipRequest
  <2>1. pc' = "reqs" /\ UNCHANGED handleVars /\ UNCHANGED <<pc, batch, closed, stopped>>
    BY <1>5 DEF SkipRequest
  <2>2. lreq' # Dangling
    BY <1>5, LoopAssumption DEF SkipRequest, TypeOK
  <2>3. QED
    BY <2>1, <2>2 DEF handleVars, Explained, BatchDistinct, BatchBusy, Busy, FaultsExplained
<1>6. CASE FinalProgress
  <2>1. pc = "reqs" /\ pc' = "req_cb" /\ lreq' # Dangling
        /\ UNCHANGED <<active, task, req, batch, closed, stopped>>
    BY <1>6, LoopAssumption DEF FinalProgress
  <2>2. QED
    BY <2>1 DEF Explained, BatchDistinct, BatchBusy, Busy, FaultsExplained
<1>7. CASE RequestReturns
  <2>1. /\ cur \in Handles /\ batch \in Seq(Reports) /\ batch # <<>>
        /\ pc = "req_cb" /\ pc' = "reqs" /\ UNCHANGED <<active, task, batch, closed, stopped>>
    BY <1>7 DEF RequestReturns, io__handle_done, LocalReq, TypeOK, Callbacks
  <2>2. \A g \in Handles : g # cur => req'[g] = req[g]
    BY <1>7, <2>1 DEF RequestReturns, io__handle_done, TypeOK
  <2>3. lreq' # Dangling
    <3>1. lreq' = next[req[cur]] /\ req[cur] \in Reqs
      BY <1>7, <2>1 DEF RequestReturns, io__handle_done, LocalReq, TypeOK
    <3>2. QED
      BY <3>1, LoopAssumption DEF TypeOK
  <2>4. BatchBusy'
    <3> SUFFICES ASSUME NEW i \in DOMAIN batch, i > 1, batch[i].h \notin closed \union stopped
                 PROVE  Busy(batch[i].h)'
      BY <2>1 DEF BatchBusy, Busy
    <3>1. batch[i].h \in Handles /\ batch[i].h # cur
      <4>1. i \in Nat \ {0} /\ 1 \in DOMAIN batch /\ cur = batch[1].h /\ batch[i] \in Reports
        BY <2>1 DEF cur
      <4>2. QED
        BY <4>1 DEF Explained, BatchDistinct, Reports
    <3>2. Busy(batch[i].h)
      BY DEF Explained, BatchBusy
    <3>3. QED
      BY <2>1, <2>2, <3>1, <3>2 DEF Busy
  <2>5. QED
    BY <2>1, <2>3, <2>4 DEF Explained, BatchDistinct, FaultsExplained
<1>8. QED
  BY <1>1, <1>2, <1>3, <1>4, <1>5, <1>6, <1>7 DEF LoopStep

LEMMA AlwaysExplained == Spec => []Explained
<1>1. Init => Explained
  BY LoopAssumption DEF Init, Explained, BatchDistinct, BatchBusy, FaultsExplained
<1>2. IInv /\ Explained /\ [Next]_vars => Explained'
  <2>1. CASE UNCHANGED vars
    BY <2>1 DEF vars, Explained, BatchDistinct, BatchBusy, Busy, FaultsExplained, cur
  <2>2. QED
    BY <2>1, ClientExplained, FillExplained, LoopStepExplained DEF Next, EpollWait, LoopStep
<1>3. QED
  BY <1>1, <1>2, SpecIInv, PTL DEF Spec

(* Of a client that respects no rule: io_loop_run reads a freed request    *)
(* only of a handle a callback has closed since it was reported, and a     *)
(* NULL task only of a handle closed or stopped since then, or one with    *)
(* requests and no task (loop.c:25-42).  The other handles of the batch    *)
(* cannot be the cause: the masks of handle.c are right when epoll_wait    *)
(* reads them, and the callbacks of one handle leave the lists of the      *)
(* others alone.                                                           *)
THEOREM FaultsAreExplained == Spec => []FaultsExplained
<1>1. Explained => FaultsExplained
  BY DEF Explained
<1>2. QED
  BY <1>1, AlwaysExplained, PTL
-----------------------------------------------------------------------------
(* A client that respects three of the rules.  The rest of the batch is    *)
(* about handles that still have the task they had when they were reported. *)
SafeRules == {"own", "idle", "tasked"}

BatchTasked == \A i \in DOMAIN batch : i > 1 \/ pc = "dispatch" => task[batch[i].h]

RequestsTasked == \A h \in active : req[h] # NULL => task[h]

Careful ==
  /\ pc \notin Faults
  /\ lreq # Dangling
  /\ BatchTasked
  /\ RequestsTasked

LEMMA ClientCareful ==
  ASSUME SafeRules \subseteq Rules, IInv, Explained, Careful, Client
  PROVE  Careful'
<1> USE DEF IInv
<1>1. PICK h \in Handles : Open(h) \/ StartTask(h) \/ StopTask(h)
                           \/ (\E r \in Reqs : Request(h, r)) \/ Close(h)
  BY DEF Client
<1>2. ClientRuns /\ UNCHANGED <<pc, batch>>
  BY <1>1 DEF Open, StartTask, StopTask, Request, Close, loopVars
<1>3. pc' \notin Faults
  BY <1>2 DEF Careful
<1>4. pc # "dispatch" /\ pc' # "dispatch"
  BY <1>2 DEF ClientRuns, Callbacks
<1>5. ASSUME NEW i \in DOMAIN batch, i > 1
      PROVE  task'[batch[i].h]
  <2>1. task[batch[i].h] /\ batch[i].h \in Handles /\ batch[i].h \in active
    <3>1. batch \in Seq(Reports)
      BY DEF TypeOK
    <3>2. batch[i] \in Reports
      BY <1>5, <3>1
    <3>3. QED
      BY <1>5, <3>2 DEF Careful, BatchTasked, ClosedIdle, Reports
  <2>2. StopTask(h) \/ Close(h) => h # batch[i].h
    BY <1>2, <1>5, BatchCallback DEF StopTask, Close, MayDetach, SafeRules
  <2>3. task'[batch[i].h] = task[batch[i].h] \/ task'[batch[i].h] = TRUE
    BY <1>1, <2>1, <2>2, ZenonT(60) DEF TypeOK, Open, StartTask, StopTask, Request, Close, io__handle_init,
       io__handle_start, io__handle_stop, io__handle_req, io__handle_close
  <2>4. QED
    BY <2>1, <2>2, <2>3
<1>6. BatchTasked'
  BY <1>2, <1>4, <1>5 DEF BatchTasked, TypeOK
<1>8. RequestsTasked'
  <2>1. CASE Open(h)
    BY <2>1 DEF Open, io__handle_init, RequestsTasked, Careful, TypeOK
  <2>2. CASE StartTask(h)
    BY <2>2 DEF StartTask, io__handle_start, RequestsTasked, Careful, TypeOK
  <2>3. CASE StopTask(h)
    BY <2>3 DEF StopTask, io__handle_stop, MayDetach, SafeRules, RequestsTasked, Careful, TypeOK
  <2>4. ASSUME NEW r \in Reqs, Request(h, r)
        PROVE  RequestsTasked'
    BY <2>4 DEF Request, io__handle_req, MayRequest, SafeRules, RequestsTasked, Careful, TypeOK
  <2>5. CASE Close(h)
    BY <2>5 DEF Close, io__handle_close, RequestsTasked, Careful, TypeOK
  <2>6. QED
    BY <1>1, <2>1, <2>2, <2>3, <2>4, <2>5
<1>9. lreq' # Dangling
  <2>1. CASE Close(h)
    <3>1. h \in active /\ req[h] = NULL /\ io__handle_close(h)
      BY <2>1 DEF Close, MayDetach, SafeRules
    <3>2. \A r \in Reqs : heap'[r] = heap[r]
      BY <3>1, CloseGivesUp DEF Listed
    <3>3. lreq \in Reqs => heap[lreq] # "free"
      BY DEF LocalReq, Listed, Links
    <3>4. QED
      BY <2>1, <3>2, <3>3 DEF Close, Careful
  <2>2. CASE ~Close(h)
    BY <1>1, <2>2 DEF Open, StartTask, StopTask, Request, loopVars, Careful
  <2>3. QED
    BY <2>1, <2>2
<1>10. QED
  BY <1>3, <1>6, <1>8, <1>9 DEF Careful

LEMMA FillCareful ==
  ASSUME IInv, Careful, NEW n \in 1..MaxEvent, NEW b \in [1..n -> Ready], Fill(b)
  PROVE  Careful'
<1>1. \A i \in DOMAIN b : b[i] \in Reports /\ task[b[i].h]
  <2>1. \A rep \in Ready : rep.h \in Handles /\ interest[rep.h] # {}
    BY DEF Ready, Reports, MayReport, Registered
  <2>2. \A h \in Handles : interest[h] # {} => task[h]
    BY DEF IInv, Watched, Work, Careful, RequestsTasked
  <2>3. QED
    BY <2>1, <2>2 DEF Ready
<1>2. QED
  BY <1>1, LoopAssumption DEF Fill, handleVars, Careful, BatchTasked, RequestsTasked, Faults

LEMMA LoopStepCareful ==
  ASSUME IInv, Careful, LoopStep, ~EpollWait
  PROVE  Careful'
<1> USE DEF IInv
<1>1. CASE Run \/ Exit \/ TaskReturns \/ ReadFreedRequest
  <2>1. ~ReadFreedRequest
    BY DEF ReadFreedRequest, Careful
  <2>2. UNCHANGED handleVars /\ UNCHANGED <<batch, lreq, closed, stopped>>
        /\ pc' \in {"wait", "exit", "reqs"}
    BY <1>1, <2>1 DEF Run, Exit, TaskReturns
  <2>3. QED
    BY <2>2 DEF handleVars, Careful, BatchTasked, RequestsTasked, Faults
<1>2. CASE Dispatch
  <2>1. batch \in Seq(Reports) /\ batch # <<>> /\ 1 \in DOMAIN batch /\ cur = batch[1].h
    BY <1>2 DEF Dispatch, LocalReq, TypeOK, cur
  <2>2. task[cur] /\ cur \in Handles
    BY <1>2, <2>1, BatchFacts DEF Dispatch, Careful, BatchTasked
  <2>3. pc' \in {"task_cb", "reqs"} /\ lreq' = req[cur] /\ UNCHANGED <<batch, closed, handleVars>>
    BY <1>2, <2>2 DEF Dispatch
  <2>4. QED
    BY <2>2, <2>3, HandleAssumption, LoopAssumption DEF handleVars, Careful, BatchTasked, RequestsTasked, Faults, TypeOK
<1>3. CASE NoMoreRequests \/ PartialProgress
  <2>1. NextEvent /\ UNCHANGED handleVars /\ closed' = closed /\ pc = "reqs"
    BY <1>3 DEF NoMoreRequests, PartialProgress
  <2>2. batch \in Seq(Reports) /\ batch # <<>> /\ batch' = Tail(batch)
    BY <2>1 DEF LocalReq, TypeOK, NextEvent
  <2>3. \A i \in DOMAIN batch' : i + 1 \in DOMAIN batch /\ i + 1 > 1 /\ batch'[i] = batch[i + 1]
    BY <2>2
  <2>5. BatchTasked'
    BY <2>1, <2>3 DEF Careful, BatchTasked, handleVars
  <2>6. pc' \in {"wait", "dispatch"} /\ lreq' = NULL
    BY <2>1 DEF NextEvent
  <2>7. QED
    BY <2>1, <2>5, <2>6, LoopAssumption DEF Careful, RequestsTasked, Faults, handleVars
<1>4. CASE SkipRequest
  BY <1>4, LoopAssumption DEF SkipRequest, TypeOK, handleVars, Careful, BatchTasked,
     RequestsTasked, Faults
<1>5. CASE FinalProgress
  BY <1>5, LoopAssumption DEF FinalProgress, Careful, BatchTasked,
     RequestsTasked, Faults
<1>6. CASE RequestReturns
  <2>1. /\ cur \in Handles /\ cur \in active /\ req[cur] # NULL
        /\ req' = [req EXCEPT ![cur] = next[req[cur]]]
        /\ lreq' = req'[cur]
        /\ pc' = "reqs" /\ UNCHANGED <<active, task, batch, closed, stopped>>
    BY <1>6, HandleAssumption DEF RequestReturns, io__handle_done, LocalReq, TypeOK
  <2>2. lreq' # Dangling
    BY <2>1, LoopAssumption DEF TypeOK
  <2>3. RequestsTasked'
    BY <2>1 DEF TypeOK, Careful, RequestsTasked
  <2>4. QED
    BY <2>1, <2>2, <2>3 DEF Careful, BatchTasked, Faults
<1>7. QED
  BY <1>1, <1>2, <1>3, <1>4, <1>5, <1>6 DEF LoopStep

LEMMA AlwaysCareful ==
  ASSUME SafeRules \subseteq Rules
  PROVE  Spec => []Careful
<1>1. Init => Careful
  BY HandleAssumption, LoopAssumption DEF Init, HandleInit, Careful, BatchTasked, RequestsTasked, Faults
<1>2. IInv /\ Explained /\ Careful /\ [Next]_vars => Careful'
  <2>1. CASE UNCHANGED vars
    BY <2>1 DEF vars, Careful, BatchTasked, RequestsTasked
  <2>2. QED
    BY <2>1, ClientCareful, FillCareful, LoopStepCareful DEF Next, EpollWait, LoopStep
<1>3. QED
  BY <1>1, <1>2, SpecIInv, AlwaysExplained, PTL DEF Spec

(* A client that detaches only the handle its callback is about, and only  *)
(* when that handle has no request, and that makes requests only on        *)
(* handles with a task, never makes io_loop_run read a NULL task or a      *)
(* freed request (loop.c:28-42).                                           *)
THEOREM CarefulClientSafe ==
  ASSUME SafeRules \subseteq Rules
  PROVE  Spec => []NoFault
<1>1. Careful => NoFault
  BY DEF Careful, NoFault
<1>2. QED
  BY <1>1, AlwaysCareful, PTL
-----------------------------------------------------------------------------
(* A client that never has more than two requests on a handle: every block *)
(* that is allocated is on the list of an open handle.                     *)
Kept == \A r \in Reqs : heap[r] # "free" => \E h \in active : r \in Listed(h)

LEMMA NextKept ==
  ASSUME "two" \in Rules, IInv, Kept, [Next]_vars
  PROVE  Kept'
<1> USE DEF IInv
<1>1. ASSUME UNCHANGED <<active, req, next, heap>>
      PROVE  Kept'
  BY <1>1 DEF Kept, Listed
<1>2. ASSUME NEW h \in Handles, Open(h)
      PROVE  Kept'
  <2>1. \A g \in active : g \in active' /\ Listed(g)' = Listed(g)
    BY <1>2 DEF Open, io__handle_init, TypeOK, Listed
  <2>2. heap' = heap
    BY <1>2 DEF Open, io__handle_init
  <2>3. QED
    BY <2>1, <2>2 DEF Kept
<1>3. ASSUME NEW h \in Handles, NEW r \in Reqs, Request(h, r)
      PROVE  Kept'
  <2>1. Listed(h) \subseteq Listed(h)' /\ r \in Listed(h)'
    <3>1. req[h] # NULL => next[req[h]] = NULL
      BY <1>3 DEF Request, MayRequest
    <3>2. Listed(h) = IF req[h] = NULL THEN {} ELSE {req[h]}
      BY <3>1 DEF Listed
    <3>3. Listed(h)' = IF req[h] = NULL THEN {r} ELSE {req[h], r}
      BY <1>3, RequestLists
    <3>4. QED
      BY <3>2, <3>3
  <2>2. \A g \in active : Listed(g) \subseteq Listed(g)'
    BY <1>3, <2>1, RequestLists
  <2>3. QED
    BY <1>3, <2>1, <2>2, RequestLists DEF Kept
<1>4. ASSUME NEW h \in Handles, Close(h)
      PROVE  Kept'
  <2>1. h \in active /\ \A r \in Reqs : heap'[r] = IF r \in Listed(h) THEN "free" ELSE heap[r]
    BY <1>4, CloseGivesUp DEF Close
  <2>2. active' = active \ {h} /\ \A g \in active : Listed(g)' = Listed(g)
    BY <1>4 DEF Close, io__handle_close, Listed
  <2>3. QED
    BY <2>1, <2>2 DEF Kept
<1>5. CASE RequestReturns
  BY <1>5, RequestReturnsLists DEF Kept
<1>6. CASE FinalProgress
  <2>1. lreq \in Reqs /\ heap[lreq] # "free" /\ UNCHANGED <<active, req, next>>
    BY <1>6 DEF FinalProgress, LocalReq, Links, Listed
  <2>2. \A r \in Reqs : heap'[r] # "free" => heap[r] # "free"
    BY <1>6, <2>1 DEF FinalProgress, TypeOK
  <2>3. QED
    BY <2>1, <2>2 DEF Kept, Listed
<1>7. CASE Client
  BY <1>1, <1>2, <1>3, <1>4, <1>7 DEF Client, StartTask, StopTask, io__handle_start, io__handle_stop
<1>8. CASE LoopStep
  BY <1>1, <1>5, <1>6, <1>8 DEF LoopStep, Run, EpollWait, Fill, Exit, Dispatch, TaskReturns,
     NoMoreRequests, SkipRequest, PartialProgress, ReadFreedRequest, handleVars
<1>9. QED
  BY <1>1, <1>7, <1>8 DEF Next, vars

(* io__handle_req loses no request (handle.c:78) of a client that has at   *)
(* most two on a handle, and neither does any other step: a request stays  *)
(* on the list of its handle until it has completed or is given up.        *)
THEOREM NoneLost ==
  ASSUME "two" \in Rules
  PROVE  Spec => []NoRequestLost
<1>1. Init => Kept
  BY DEF Init, HandleInit, Kept
<1>2. IInv /\ Kept /\ [Next]_vars => Kept'
  BY NextKept
<1>3. IInv /\ Kept => NoRequestLost
  BY ChainIsListed DEF IInv, Kept, NoRequestLost
<1>4. QED
  BY <1>1, <1>2, <1>3, SpecIInv, PTL DEF Spec
=============================================================================
