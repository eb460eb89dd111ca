---------------------------- MODULE QueueProofs ----------------------------
(***************************************************************************)
(* The request lists of Loop implement RequestQueue, and what any client   *)
(* at all can make them drop.                                              *)
(***************************************************************************)
EXTENDS LoopProofs

Queues == [h \in Handles |-> QueueOf(h)]

(* The queue of an open handle holds what its list does, first one first.  *)
LEMMA QueueFacts ==
  ASSUME IInv, NEW h \in active
  PROVE  /\ h \in Handles
         /\ req[h] = NULL => QueueOf(h) = <<>>
         /\ req[h] # NULL => req[h] \in Reqs
         /\ req[h] # NULL /\ next[req[h]] = NULL => QueueOf(h) = <<req[h]>>
         /\ req[h] # NULL /\ next[req[h]] # NULL => QueueOf(h) = <<req[h], next[req[h]]>>
         /\ RQ!Elements(QueueOf(h)) = Listed(h)
<1> USE HandleAssumption DEF IInv
<1>1. h \in Handles /\ (req[h] # NULL => req[h] \in Reqs)
  BY DEF TypeOK
<1>2. /\ req[h] = NULL => QueueOf(h) = <<>>
      /\ req[h] # NULL /\ next[req[h]] = NULL => QueueOf(h) = <<req[h]>>
      /\ req[h] # NULL /\ next[req[h]] # NULL => QueueOf(h) = <<req[h], next[req[h]]>>
  BY DEF QueueOf
<1>3. CASE req[h] = NULL
  BY <1>1, <1>2, <1>3 DEF Listed, RQ!Elements
<1>4. CASE req[h] # NULL /\ next[req[h]] = NULL
  BY <1>1, <1>2, <1>4 DEF Listed, RQ!Elements
<1>5. CASE req[h] # NULL /\ next[req[h]] # NULL
  <2>1. QueueOf(h) = <<req[h], next[req[h]]>> /\ Listed(h) = {req[h], next[req[h]]}
    BY <1>1, <1>2, <1>5 DEF Listed
  <2>2. QED
    BY <1>1, <1>2, <2>1 DEF RQ!Elements
<1>6. QED
  BY <1>1, <1>2, <1>3, <1>4, <1>5

LEMMA ClosedQueue ==
  ASSUME NEW h \in Handles, h \notin active
  PROVE  QueueOf(h) = <<>>
BY DEF QueueOf

(* A step that leaves the pointers alone leaves the queues alone. *)
LEMMA QueuesKept ==
  ASSUME UNCHANGED <<active, req, next>>
  PROVE  Queues' = Queues
BY DEF Queues, QueueOf

LEMMA OpenKeepsQueues ==
  ASSUME IInv, NEW h \in Handles, Open(h)
  PROVE  Queues' = Queues
<1>1. /\ h \notin active /\ active' = active \union {h} /\ next' = next
      /\ req'[h] = NULL /\ \A g \in Handles \ {h} : req'[g] = req[g]
  BY DEF IInv, TypeOK, Open, io__handle_init
<1>2. ASSUME NEW g \in Handles
      PROVE  QueueOf(g)' = QueueOf(g)
  BY <1>1, <1>2 DEF QueueOf
<1>3. QED
  BY <1>2 DEF Queues

(* A request made on a handle with fewer than two goes to the end.         *)
LEMMA RequestSubmits ==
  ASSUME "two" \in Rules, IInv, NEW h \in Handles, NEW r \in Reqs, Request(h, r)
  PROVE  /\ \A g \in Handles : r \notin RQ!Elements(Queues[g])
         /\ Queues' = [Queues EXCEPT ![h] = Append(@, r)]
<1> USE HandleAssumption
<1>1. /\ h \in active /\ active' = active
      /\ \A g \in active : r \notin Listed(g)
      /\ next'[r] = NULL
      /\ req[h] # NULL => next'[req[h]] = r
      /\ \A g \in active \ {h} : req[g] # NULL => next'[req[g]] = next[req[g]]
  BY RequestLists
<1>2. /\ \A g \in Handles \ {h} : req'[g] = req[g]
      /\ req'[h] = IF req[h] = NULL THEN r ELSE req[h]
      /\ req[h] # NULL => next[req[h]] = NULL
  BY DEF IInv, TypeOK, Request, MayRequest, io__handle_req
<1>3. ASSUME NEW g \in Handles
      PROVE  r \notin RQ!Elements(Queues[g])
  <2>1. Queues[g] = QueueOf(g)
    BY DEF Queues
  <2>2. CASE g \in active
    BY <1>1, <2>1, <2>2, QueueFacts
  <2>3. CASE g \notin active
    BY <2>1, <2>3, ClosedQueue DEF RQ!Elements
  <2>4. QED
    BY <2>2, <2>3
<1>4. ASSUME NEW g \in Handles \ {h}
      PROVE  QueueOf(g)' = QueueOf(g)
  BY <1>1, <1>2 DEF QueueOf
<1>5. QueueOf(h)' = Append(QueueOf(h), r)
  <2>1. CASE req[h] = NULL
    <3>1. QueueOf(h) = <<>> /\ req'[h] = r
      BY <1>1, <1>2, <2>1 DEF QueueOf
    <3>2. QueueOf(h)' = <<r>>
      BY <1>1, <3>1 DEF QueueOf
    <3>3. QED
      BY <3>1, <3>2
  <2>2. CASE req[h] # NULL
    <3>1. QueueOf(h) = <<req[h]>> /\ req'[h] = req[h] /\ next'[req[h]] = r
      BY <1>1, <1>2, <2>2 DEF QueueOf
    <3>2. QueueOf(h)' = <<req[h], r>>
      BY <1>1, <2>2, <3>1 DEF QueueOf
    <3>3. req[h] \in Reqs
      BY <2>2, <1>1, QueueFacts
    <3>4. QED
      BY <3>1, <3>2, <3>3
  <2>3. QED
    BY <2>1, <2>2
<1>6. QED
  BY <1>3, <1>4, <1>5 DEF Queues

(* io__handle_done takes the first one off the queue of the current handle. *)
LEMMA RequestReturnsCompletes ==
  ASSUME IInv, RequestReturns
  PROVE  \E h \in Handles : RQ!Complete(h)
<1> USE HandleAssumption, LoopAssumption
<1>a. PICK h : h = cur
  OBVIOUS
<1>1. /\ h \in active /\ h \in Handles /\ lreq = req[h] /\ lreq \in Reqs
  BY <1>a DEF IInv, TypeOK, RequestReturns, LocalReq
<1>2. /\ UNCHANGED <<active, next>>
      /\ \A g \in Handles \ {h} : req'[g] = req[g]
      /\ req'[h] = next[req[h]]
  BY <1>1, <1>a DEF IInv, TypeOK, RequestReturns, io__handle_done
<1>3. ASSUME NEW g \in Handles \ {h}
      PROVE  QueueOf(g)' = QueueOf(g)
  BY <1>2 DEF QueueOf
<1>4. QueueOf(h) # <<>> /\ QueueOf(h)' = Tail(QueueOf(h))
  <2>1. CASE next[req[h]] = NULL
    <3>1. QueueOf(h) = <<req[h]>>
      BY <1>1, <2>1 DEF QueueOf
    <3>2. QueueOf(h)' = <<>>
      BY <1>1, <1>2, <2>1 DEF QueueOf
    <3>3. QED
      BY <3>1, <3>2
  <2>2. CASE next[req[h]] # NULL
    <3>1. QueueOf(h) = <<req[h], next[req[h]]>>
      BY <1>1, <2>2 DEF QueueOf
    <3>2. next[next[req[h]]] = NULL /\ next[req[h]] \in Reqs
      BY <1>1, <2>2 DEF IInv, Links, TypeOK
    <3>3. QueueOf(h)' = <<next[req[h]]>>
      BY <1>1, <1>2, <2>2, <3>2 DEF QueueOf
    <3>4. Tail(<<req[h], next[req[h]]>>) = <<next[req[h]]>>
      BY <1>1, <3>2
    <3>5. QED
      BY <3>1, <3>3, <3>4
  <2>3. QED
    BY <2>1, <2>2
<1>5. Queues[h] # <<>> /\ Queues' = [Queues EXCEPT ![h] = Tail(@)]
  BY <1>1, <1>3, <1>4 DEF Queues
<1>6. QED
  BY <1>1, <1>5 DEF RQ!Complete, Queues

LEMMA CloseGivesUpAll ==
  ASSUME IInv, NEW h \in Handles, Close(h)
  PROVE  Queues' = [Queues EXCEPT ![h] = <<>>]
<1>1. active' = active \ {h} /\ UNCHANGED <<req, next>>
  BY DEF Close, io__handle_close
<1>2. QueueOf(h)' = <<>>
  BY <1>1 DEF QueueOf
<1>3. ASSUME NEW g \in Handles \ {h}
      PROVE  QueueOf(g)' = QueueOf(g)
  BY <1>1 DEF QueueOf
<1>4. QED
  BY <1>2, <1>3 DEF Queues

(* The pointers of handle.c:62-147 and the walk of loop.c:33-42 are, for   *)
(* every handle, a queue of requests: completed in the order they were     *)
(* made, one at a time, and dropped only when the handle is closed.  It    *)
(* takes a client that has at most two requests on a handle.               *)
THEOREM QueueImplemented ==
  ASSUME "two" \in Rules
  PROVE  Spec => ImplementsQueue
<1>1. Init => RQ!Init
  BY DEF Init, HandleInit, RQ!Init, QueueOf
<1>2. IInv /\ [Next]_vars => [RQ!Next]_Queues
  <2> SUFFICES ASSUME IInv, [Next]_vars
               PROVE  RQ!Next \/ Queues' = Queues
    OBVIOUS
  <2>1. ASSUME NEW h \in Handles, NEW r \in Reqs, Request(h, r)
        PROVE  RQ!Next
    BY <2>1, RequestSubmits DEF RQ!Next, RQ!Submit, Queues
  <2>2. ASSUME NEW h \in Handles, Close(h)
        PROVE  RQ!Next
    BY <2>2, CloseGivesUpAll DEF RQ!Next, RQ!GiveUp, Queues
  <2>3. CASE RequestReturns
    BY <2>3, RequestReturnsCompletes DEF RQ!Next
  <2>4. CASE Client
    BY <2>1, <2>2, <2>4, OpenKeepsQueues, QueuesKept
       DEF Client, StartTask, StopTask, io__handle_start, io__handle_stop
  <2>5. CASE LoopStep
    BY <2>3, <2>5, QueuesKept
       DEF LoopStep, Run, EpollWait, Fill, Exit, Dispatch, TaskReturns, NoMoreRequests, SkipRequest,
           PartialProgress, FinalProgress, ReadFreedRequest, handleVars
  <2>6. CASE UNCHANGED vars
    BY <2>6, QueuesKept DEF vars
  <2>7. QED
    BY <2>4, <2>5, <2>6 DEF Next
<1>3. QED
  BY <1>1, <1>2, SpecIInv, PTL DEF Spec, ImplementsQueue, RQ!Spec, Queues
-----------------------------------------------------------------------------
ChainsListed == \A h \in active : Chain(h) = Listed(h)

Dropped(h) == Listed(h) \ Listed(h)'

(* What one step drops from the list of a handle that stays open. *)
LEMMA StepDrops ==
  ASSUME IInv, [Next]_vars, NEW h \in active, h \in active', NEW r \in Dropped(h)
  PROVE  heap[r] = "done" \/ (r # req[h] /\ \E x \in Listed(h)' : heap[x] = "free")
<1>1. Listed(h)' # Listed(h)
  BY DEF Dropped
<1>2. ASSUME UNCHANGED <<req, next>>
      PROVE  FALSE
  BY <1>1, <1>2 DEF Listed
<1>3. ASSUME NEW g \in Handles, Open(g)
      PROVE  FALSE
  <2>1. g # h /\ req'[h] = req[h] /\ next' = next
    BY <1>3 DEF IInv, TypeOK, Open, io__handle_init
  <2>2. QED
    BY <1>1, <2>1 DEF Listed
<1>4. ASSUME NEW g \in Handles, Close(g)
      PROVE  FALSE
  BY <1>2, <1>4 DEF Close, io__handle_close
<1>5. ASSUME NEW g \in Handles, NEW x \in Reqs, Request(g, x)
      PROVE  r # req[h] /\ \E y \in Listed(h)' : heap[y] = "free"
  <2>1. g = h
    BY <1>1, <1>5, RequestLists
  <2>2. heap[x] = "free"
    BY <1>5 DEF Request
  <2>3. Listed(h)' = IF req[h] = NULL THEN {x} ELSE {req[h], x}
    BY <1>5, <2>1, RequestLists
  <2>4. r \in Listed(h) /\ r \notin Listed(h)'
    BY DEF Dropped
  <2>5. req[h] # NULL
    BY <2>4 DEF Listed
  <2>6. QED
    BY <2>2, <2>3, <2>4, <2>5
<1>6. CASE RequestReturns
  <2>1. r = lreq
    BY <1>1, <1>6, RequestReturnsLists DEF Dropped
  <2>2. heap[lreq] = "done"
    BY <1>6 DEF IInv, LocalReq, RequestReturns
  <2>3. QED
    BY <2>1, <2>2
<1>7. CASE Client
  BY <1>2, <1>3, <1>4, <1>5, <1>7 DEF Client, StartTask, StopTask, io__handle_start, io__handle_stop
<1>8. CASE LoopStep
  BY <1>2, <1>6, <1>8
     DEF LoopStep, Run, EpollWait, Fill, Exit, Dispatch, TaskReturns, NoMoreRequests, SkipRequest,
         PartialProgress, FinalProgress, ReadFreedRequest, handleVars
<1>9. CASE UNCHANGED vars
  BY <1>2, <1>9 DEF vars
<1>10. QED
  BY <1>7, <1>8, <1>9 DEF Next

(* Whatever the client does, a request leaves the list of a handle that    *)
(* stays open only when it has completed (handle.c:111), or when it is the *)
(* second and a third is made (handle.c:78).                               *)
THEOREM OnlyTheSecondIsDropped == Spec => DropsOnlyTheSecond
<1>1. IInv => ChainsListed
  BY ChainIsListed DEF IInv, ChainsListed
<1>2. IInv /\ ChainsListed /\ ChainsListed' /\ [Next]_vars =>
        [\A h \in active \intersect active' :
           \A r \in Chain(h) \ Chain(h)' :
              heap[r] = "done" \/ (r # req[h] /\ \E x \in Chain(h)' : heap[x] = "free")]_vars
  BY StepDrops DEF ChainsListed, Dropped
<1>3. QED
  BY <1>1, <1>2, SpecIInv, PTL DEF Spec, DropsOnlyTheSecond
=============================================================================
