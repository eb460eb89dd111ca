------------------------------ MODULE Shutdown ------------------------------
(***************************************************************************)
(* How a loop ends: io_loop_break, io_loop_close and io_loop_foreach of    *)
(* io/loop.c, and the handler of SIGINT that reactive.c (and every test    *)
(* server) installs, which closes every handle of the loop's list.         *)
(*                                                                         *)
(* Two threads of control share the loop: the main one, which may be       *)
(* interrupted between any two of its steps, and the handler, which runs   *)
(* to its end before the main one goes on.  The steps of opening and       *)
(* closing a handle are the loads and stores of io__handle_init and        *)
(* io__handle_close on the list and the count, in the order of the code.   *)
(* (A compiler may choose another order; nothing declares them volatile.)  *)
(*                                                                         *)
(* Callbacks follow the rule "own" of module Loop.  Requests do not        *)
(* matter here.                                                            *)
(***************************************************************************)
EXTENDS Ring

CONSTANTS
  Handles,
  Anchor,      (* &loop->active_handles                                    *)
  MaxOpens,    (* bound: handles opened in a behaviour                     *)
  MaxSignals   (* bound: SIGINTs in a behaviour                            *)

ASSUME ShutdownAssumption ==
  /\ Nodes = Handles \union {Anchor} /\ Anchor \notin Handles
  /\ MaxOpens \in Nat /\ MaxSignals \in Nat

VARIABLES
  L,         (* the links of the list of handles                           *)
  count,     (* loop->handle_count                                         *)
  running,   (* loop->running                                              *)
  thread,    (* is loop->thread set?                                       *)
  pc,        (* where the main thread is                                   *)
  batch,     (* handles epoll_wait has reported and that are not served yet *)
  cur,       (* the handle whose callback runs, until it closes it         *)
  open,      (* handles with a task, which epoll watches                   *)
  op,        (* the list operation under way                               *)
  opens,     (* handles opened so far                                      *)
  pos, n,    (* io_loop_foreach, when the handler runs it; NULL: it does not *)
  signals,   (* SIGINTs so far                                             *)
  brk,       (* io_loop_break, called by another thread: where it is       *)
  usr1,      (* has the program a handler for SIGUSR1?  None here has.     *)
  told,      (* history: has the loop been told to end?                    *)
  untimely   (* history: at which bad moments it was told                  *)

loopVars == <<running, thread, told>>
opVars == <<L, count, open, op, opens>>
sigVars == <<pos, n, signals, untimely>>
brkVars == <<brk, usr1>>
vars == <<L, count, running, thread, pc, batch, cur, open, op, opens,
          pos, n, signals, brk, usr1, told, untimely>>

NoOp == [kind |-> "none", h |-> NULL, k |-> 0, p |-> NULL, n |-> NULL, c |-> 0]
Ended == {"exit", "crashed", "killed"}
InHandler == pos # NULL
MainRuns == ~InHandler /\ pc \notin Ended

Init ==
  /\ L = INIT_LIST_HEAD([next |-> [x \in Nodes |-> NULL], prev |-> [x \in Nodes |-> NULL]], Anchor)
  /\ count = 0 /\ running = FALSE /\ thread = FALSE
  /\ pc = "main" /\ batch = {} /\ cur = NULL
  /\ open = {} /\ op = NoOp /\ opens = 0
  /\ pos = NULL /\ n = NULL /\ signals = 0
  /\ brk = "no" /\ usr1 \in BOOLEAN
  /\ told = FALSE /\ untimely = {}
-----------------------------------------------------------------------------
(* The main thread, before the loop and in callbacks. *)

(* A constructor calls io__handle_init, and the task is started. *)
Open(h) ==
  /\ MainRuns /\ op = NoOp /\ pc \in {"main", "cb"}
  /\ h \notin open /\ h # cur
  /\ opens < MaxOpens /\ opens' = opens + 1
  /\ op' = [kind |-> "add", h |-> h, k |-> 1, p |-> Anchor, n |-> L.next[Anchor], c |-> 0]
  /\ untimely' = IF told THEN untimely \union {"reopened"} ELSE untimely
  /\ UNCHANGED <<L, count, open, loopVars, pc, batch, cur, pos, n, signals, brkVars>>

(* io_tcp_close: io__handle_stop, if there is a task, and then ... *)
Close ==
  /\ MainRuns /\ op = NoOp /\ pc = "cb" /\ cur # NULL
  /\ op' = [NoOp EXCEPT !.kind = "del", !.h = cur, !.k = 1]
  /\ open' = open \ {cur}
  /\ UNCHANGED <<L, count, opens, loopVars, pc, batch, cur, sigVars, brkVars>>

Crash == pc' = "crashed" /\ UNCHANGED <<opVars, loopVars, batch, cur, sigVars, brkVars>>

(* A slip the runs must notice: handle_count++ is missing. *)
NotCounted(c) == c

Counted(c) == c + 1

(* list_add in four stores, and handle_count++ as a load and a store. *)
AddStep ==
  /\ MainRuns /\ op.kind = "add"
  /\ \/ /\ op.k <= 4
        /\ L' = AddStore(L, op.k, op.h, op.p, op.n)
        /\ op' = [op EXCEPT !.k = @ + 1]
        /\ UNCHANGED <<count, open>>
     \/ /\ op.k = 5
        /\ op' = [op EXCEPT !.k = 6, !.c = count]
        /\ UNCHANGED <<L, count, open>>
     \/ /\ op.k = 6
        /\ count' = Counted(op.c)
        /\ open' = open \union {op.h}
        /\ op' = NoOp
        /\ UNCHANGED L
  /\ UNCHANGED <<opens, loopVars, pc, batch, cur, sigVars, brkVars>>

(* ... handle_count-- and list_del. *)
DelStep ==
  /\ MainRuns /\ op.kind = "del"
  /\ \/ /\ op.k = 1
        /\ op' = [op EXCEPT !.k = 2, !.c = count]
        /\ UNCHANGED <<L, count, cur>>
     \/ /\ op.k = 2
        /\ count' = op.c - 1
        /\ op' = [op EXCEPT !.k = 3, !.p = L.prev[op.h], !.n = L.next[op.h]]
        /\ UNCHANGED <<L, cur>>
     \/ /\ op.k \in 3 .. 6
        /\ op.p # NULL /\ op.n # NULL
        /\ L' = DelStore(L, op.k - 2, op.h, op.p, op.n)
        /\ op' = IF op.k = 6 THEN NoOp ELSE [op EXCEPT !.k = @ + 1]
        /\ cur' = IF op.k = 6 THEN NULL ELSE cur
        /\ UNCHANGED count
  /\ UNCHANGED <<open, opens, loopVars, pc, batch, sigVars, brkVars>>

DelNothing ==
  /\ MainRuns /\ op.kind = "del" /\ op.k = 3
  /\ op.p = NULL \/ op.n = NULL
  /\ Crash
-----------------------------------------------------------------------------
(* io_loop_run *)

SetThread ==
  /\ MainRuns /\ op = NoOp /\ pc = "main"
  /\ thread' = TRUE
  /\ pc' = "starting"
  /\ UNCHANGED <<opVars, running, told, batch, cur, sigVars, brkVars>>

(* An io_loop_break that came before this store is undone. *)
SetRunning ==
  /\ MainRuns /\ pc = "starting"
  /\ running' = TRUE
  /\ pc' = "cond"
  /\ untimely' = IF brk # "no" THEN untimely \union {"early"} ELSE untimely
  /\ UNCHANGED <<opVars, thread, told, batch, cur, pos, n, signals, brkVars>>

(* A slip the runs must notice: loop->running is not looked at. *)
WhileCountOnly ==
  /\ MainRuns /\ pc = "cond"
  /\ pc' = IF count # 0 THEN "entering" ELSE "exit"
  /\ UNCHANGED <<opVars, loopVars, batch, cur, sigVars, brkVars>>

While ==
  /\ MainRuns /\ pc = "cond"
  /\ pc' = IF count # 0 /\ running THEN "entering" ELSE "exit"
  /\ UNCHANGED <<opVars, loopVars, batch, cur, sigVars, brkVars>>

(* From here on a signal interrupts epoll_wait; it came too late for the   *)
(* condition of the loop and too early for epoll_wait if it came before.   *)
Enter ==
  /\ MainRuns /\ pc = "entering"
  /\ pc' = "blocked"
  /\ UNCHANGED <<opVars, loopVars, batch, cur, sigVars, brkVars>>

EpollReturns ==
  /\ MainRuns /\ pc = "blocked"
  /\ \E b \in SUBSET open \ {{}} : batch' = b
  /\ pc' = "dispatch"
  /\ UNCHANGED <<opVars, loopVars, cur, sigVars, brkVars>>

(* A handle that was closed has no task: task->event is read through NULL. *)
Dispatch ==
  /\ MainRuns /\ pc = "dispatch" /\ batch # {}
  /\ \E h \in batch :
       \/ h \in open /\ cur' = h /\ batch' = batch \ {h} /\ pc' = "cb"
          /\ UNCHANGED <<opVars, loopVars, sigVars, brkVars>>
       \/ h \notin open /\ Crash

BatchDone ==
  /\ MainRuns /\ pc = "dispatch" /\ batch = {}
  /\ pc' = "cond"
  /\ UNCHANGED <<opVars, loopVars, batch, cur, sigVars, brkVars>>

CallbackReturns ==
  /\ MainRuns /\ op = NoOp /\ pc = "cb"
  /\ pc' = "dispatch" /\ cur' = NULL
  /\ UNCHANGED <<opVars, loopVars, batch, sigVars, brkVars>>

(* Called from a callback.  epoll_wait will fail, which only repeats the   *)
(* condition of the loop.                                                  *)
io_loop_close ==
  /\ MainRuns /\ op = NoOp /\ pc = "cb"
  /\ running' = FALSE /\ told' = TRUE
  /\ UNCHANGED <<opVars, thread, pc, batch, cur, sigVars, brkVars>>
-----------------------------------------------------------------------------
(* SIGINT: sigint_handler calls io_loop_foreach(&loop, close_all).         *)

(* The moments at which nothing good can be promised. *)
BadMoment ==
  (IF op # NoOp THEN {"torn"} ELSE {})
  \union (IF pc \in {"dispatch", "cb"} THEN {"stale"} ELSE {})
  \union (IF pc = "entering" THEN {"missed"} ELSE {})

Signal ==
  /\ MainRuns /\ pc # "main" /\ signals < MaxSignals
  /\ signals' = signals + 1
  /\ pos' = L.next[Anchor]
  /\ n' = L.next[L.next[Anchor]]
  /\ untimely' = untimely \union BadMoment
  /\ pc' = IF pc = "blocked" THEN "cond" ELSE pc
  /\ UNCHANGED <<opVars, loopVars, batch, cur, brkVars>>

CloseAt(next) ==
  /\ InHandler /\ pc \notin Ended
  /\ pos # Anchor /\ Linked(L, pos)
  /\ L' = list_del(L, pos)
  /\ count' = count - 1
  /\ open' = open \ {pos}
  /\ pos' = next
  /\ n' = IF next = NULL THEN NULL ELSE L'.next[next]
  /\ pc' = IF next = NULL THEN "crashed" ELSE pc
  /\ UNCHANGED <<op, opens, loopVars, batch, cur, signals, untimely, brkVars>>

(* Slips the runs must notice: the walk goes on from the entry that has    *)
(* just been deleted; it steps over one.                                   *)
WalkUnsafe == CloseAt(L'.next[pos])
WalkSkips == CloseAt(L'.next[n])

(* list_for_each_safe: close_all closes the handle at pos, and the walk    *)
(* goes on from n, which was read before.                                  *)
Walk == CloseAt(n)

WalkFails ==
  /\ InHandler /\ pc \notin Ended
  /\ pos # Anchor /\ ~Linked(L, pos)
  /\ Crash

WalkEnds ==
  /\ InHandler /\ pc \notin Ended
  /\ pos = Anchor
  /\ pos' = NULL /\ n' = NULL
  /\ told' = TRUE
  /\ UNCHANGED <<opVars, running, thread, pc, batch, cur, signals, untimely, brkVars>>
-----------------------------------------------------------------------------
(* io_loop_break, from another thread: running = 0, then SIGUSR1 for the   *)
(* loop's thread.                                                          *)
BreakStore ==
  /\ brk = "no" /\ thread /\ pc \notin Ended
  /\ running' = FALSE
  /\ brk' = "stored"
  /\ UNCHANGED <<opVars, thread, told, pc, batch, cur, sigVars, usr1>>

(* Without a handler for SIGUSR1 the process ends. *)
BreakKill ==
  /\ brk = "stored" /\ pc \notin Ended
  /\ brk' = "sent"
  /\ \/ /\ usr1
        /\ thread' = FALSE /\ told' = TRUE
        /\ pc' = IF pc = "blocked" THEN "cond" ELSE pc
        /\ untimely' = untimely \union (IF pc = "entering" THEN {"missed"} ELSE {})
     \/ /\ ~usr1
        /\ pc' = "killed"
        /\ UNCHANGED <<thread, told, untimely>>
  /\ UNCHANGED <<opVars, running, batch, cur, pos, n, signals, usr1>>

MainThread ==
  \/ AddStep \/ DelStep \/ DelNothing
  \/ SetRunning \/ While \/ Enter \/ Dispatch \/ BatchDone \/ CallbackReturns
Handler == Walk \/ WalkFails \/ WalkEnds

Next ==
  \/ \E h \in Handles : Open(h)
  \/ Close
  \/ SetThread
  \/ EpollReturns
  \/ io_loop_close
  \/ MainThread
  \/ Signal
  \/ Handler
  \/ BreakStore
  \/ BreakKill

Spec == Init /\ [][Next]_vars

(* The thread runs and callbacks return; events, signals and what a        *)
(* callback does need never happen.                                        *)
FairSpec == Spec /\ WF_vars(MainThread) /\ WF_vars(Handler) /\ WF_vars(BreakKill)
-----------------------------------------------------------------------------
Torn == "torn" \in untimely

TypeOK ==
  /\ L \in Links
  /\ "stale" \in untimely \/ count \in 0 .. Cardinality(Handles)
  /\ running \in BOOLEAN /\ thread \in BOOLEAN /\ told \in BOOLEAN /\ usr1 \in BOOLEAN
  /\ pc \in {"main", "starting", "cond", "entering", "blocked", "dispatch", "cb"} \union Ended
  /\ batch \subseteq Handles /\ cur \in Handles \union {NULL}
  /\ open \subseteq Handles
  /\ op.kind \in {"none", "add", "del"} /\ op.k \in 0 .. 6
  /\ pos \in Nodes \union {NULL} /\ n \in Nodes \union {NULL}
  /\ opens \in 0 .. MaxOpens /\ signals \in 0 .. MaxSignals
  /\ brk \in {"no", "stored", "sent"}
  /\ untimely \subseteq {"torn", "stale", "missed", "early", "reopened"}

(* Between two list operations the list is a ring of exactly the open      *)
(* handles, each once, handle_count of them, and a handle that is not on   *)
(* it has no links: unless a SIGINT came in the middle of an operation.    *)
RingWhole ==
  op = NoOp /\ ~InHandler /\ pc # "crashed" /\ ~Torn =>
    /\ count = Cardinality(open)
    /\ \E s \in [1 .. count -> open] : IsRing(L, Anchor, s) /\ ToSet(s) = open
    /\ \A h \in Handles \ open : L.next[h] = NULL /\ L.prev[h] = NULL

(* The functions of list.h, those the library does not call included, do   *)
(* to a ring what their comments say: applied to the list of handles, and  *)
(* to the list of one handle that is not on it.                            *)
ListFunctionsAgree ==
  op = NoOp /\ ~InHandler /\ pc # "crashed" /\ ~Torn =>
  \A s \in [1 .. count -> open] : IsRing(L, Anchor, s) =>
    /\ list_empty(L, Anchor) <=> s = <<>>
    /\ \A h \in Handles \ open :
         /\ IsRing(list_add(L, h, Anchor), Anchor, <<h>> \o s)
         /\ IsRing(list_add_tail(L, h, Anchor), Anchor, Append(s, h))
         /\ LET alone == INIT_LIST_HEAD(L, h)
                joined == list_splice_init(alone, Anchor, h)
            IN  /\ list_splice(alone, h, Anchor) = alone
                /\ IsRing(joined, h, s) /\ IsRing(joined, Anchor, <<>>)
                /\ IsRing(list_splice(joined, h, Anchor), Anchor, s)
    /\ \A i \in DOMAIN s :
         /\ IsRing(list_del_init(L, s[i]), Anchor, RemoveAt(s, i))
         /\ list_empty(list_del_init(L, s[i]), s[i])
         /\ IsRing(list_move(L, s[i], Anchor), Anchor, <<s[i]>> \o RemoveAt(s, i))
         /\ IsRing(list_move_tail(L, s[i], Anchor), Anchor, Append(RemoveAt(s, i), s[i]))

(* Nothing is read or written through NULL, unless SIGINT came in the      *)
(* middle of a batch, when a handle it closes may be the one whose         *)
(* callback runs or have an event still to be served.                      *)
NoCrash == pc = "crashed" => "stale" \in untimely

(* When the handler returns, no handle is open, listed or counted, unless  *)
(* it came in the middle of a list operation: closing the entry the walk   *)
(* is at does not make it miss one.                                        *)
ClosesAll ==
  [][InHandler /\ ~InHandler' /\ pc' # "crashed" /\ ~Torn
       => list_empty(L', Anchor) /\ count' = 0 /\ open' = {}]_vars

(* A loop that has been told to end, by SIGINT, io_loop_break or           *)
(* io_loop_close, ends: unless it was told before it started, in the       *)
(* middle of a list operation, or just before epoll_wait, or a callback    *)
(* opened another handle since.                                            *)
Stops ==
  told ~> pc \in Ended \/ untimely \intersect {"early", "torn", "missed", "reopened"} # {}
=============================================================================
