-------------------------------- MODULE Hub --------------------------------
(***************************************************************************)
(* reactive.c, the program the library was written for: the connections    *)
(* of four ports and a serial line, accepted, replaced and ended by the    *)
(* callbacks of one loop; the descriptors they have; and the blocks of the *)
(* pool that what Bluetooth sends is read into and written from.           *)
(*                                                                         *)
(* One step serves one event of a batch, with every callback it runs.  An  *)
(* operator named after a C function takes the program's state H and the   *)
(* function's arguments, and gives the state after the call, or the set of *)
(* states it may leave when the kernel or a peer decides.  The bytes that  *)
(* are forwarded are the subject of Splice, Channel and Stream; only where *)
(* they go matters here.                                                   *)
(***************************************************************************)
EXTENDS Integers, Sequences, FiniteSets, SequencesExt

CONSTANTS
  PCount,       (* the number of blocks of the pool: 12, reactive.c:221    *)
  LowByte,      (* the first byte in memory of the address of a block      *)
  MaxEvent,     (* EPOLL_MAXEVENT, the most events of a batch              *)
  Fds,          (* the descriptors there are for connections; those of the *)
                (* servers, pipes and files are left out                   *)
  MaxMishaps,   (* bound: calls that fail for another reason               *)
  Log,          (* a request to send the log                               *)
  NULL

(* On the little-endian Raspberry Pi the program was written for, the      *)
(* first byte of an address is its lowest.  malloc returns multiples of 8, *)
(* and the blocks are 512 bytes apart: that byte is the same for all       *)
(* blocks, and a multiple of 8.                                            *)
ASSUME HubAssumption ==
  /\ PCount \in Nat /\ PCount > 2
  /\ LowByte \in 0 .. 255 /\ LowByte % 8 = 0
  /\ Log \notin Int
  /\ Fds \subseteq Nat /\ IsFiniteSet(Fds)
  /\ MaxEvent \in Nat /\ MaxMishaps \in Nat
  /\ NULL \notin {"tcp1", "tcp2", "tcp3", "rfcm", "serl"}

Links == {"tcp1", "tcp2", "tcp3", "rfcm", "serl"}
Ports == Links \ {"serl"}

(* The blocks in the order of their addresses. *)
Blocks == 0 .. PCount - 1

(* 'L', 'C' and the newline. *)
LetterL == 76
LetterC == 67
Newline == 10

VARIABLES
  hub,   (* the state of the program, a record:                            *)
         (*   fd        handle.fd of each link                             *)
         (*   owner     what each descriptor is: the connection of a link, *)
         (*             or NULL: not open                                  *)
         (*   listed    links on the loop's list of handles                *)
         (*   task      links with a task, which epoll watches             *)
         (*   pend      requests: blocks to be written, or Log             *)
         (*   dangling  links whose handle.req points to freed requests    *)
         (*   free      blocks of the pool: the free list, first to last   *)
         (*   torn      does the list end in a damaged link, not in NULL?  *)
         (*   head      the first byte of each block                       *)
         (*   pc        "run", or how the program ended; of one that       *)
         (*             "crashed", by a use of memory that is not its own  *)
         (*             any more or was never, nothing is said afterwards  *)
         (*   stale     history: links whose accept failed after a close   *)
         (*   mishaps   history: "start", a task that could not be         *)
         (*             started; "busy", a link closed in its own callback *)
         (*             although it had requests; "freed", the read of the *)
         (*             task of the serial line after pub_cb has closed it *)
         (*   misled    history: for which link bytes went to another      *)
         (*   unasked   history: was a command obeyed that nobody sent?    *)
  batch, (* the events epoll_wait may have reported, less those served     *)
  left   (* how many of them the batch may still have                      *)

vars == <<hub, batch, left>>

BlocksIn(q) == ToSet(q) \intersect Blocks
Crashed(H) == [H EXCEPT !.pc = "crashed"]
Mishaps(H) == Cardinality(H.stale) + Cardinality(H.mishaps \ {"busy", "freed"})
MayFail(H) == Mishaps(H) < MaxMishaps
-----------------------------------------------------------------------------
(* The pool. *)

(* The first byte of storage.first. *)
FirstByte(H) == IF H.free # <<>> THEN LowByte ELSE IF H.torn THEN Newline ELSE 0

storage_alloc(H) == [H EXCEPT !.free = Tail(@)]

(* A slip the runs must notice: the block is left as it is. *)
FreeUntouched(H, b) == [H EXCEPT !.free = <<b>> \o @]

(* The link of the free list goes over the first bytes of the block.       *)
storage_free(H, b) == [H EXCEPT !.free = <<b>> \o @, !.head[b] = FirstByte(H)]

(* What is left of the free list q when the link of c is damaged.          *)
CutAfter(q, c) == IF c \in ToSet(q) THEN SubSeq(q, 1, CHOOSE i \in DOMAIN q : q[i] = c) ELSE q

(* The newline goes behind the bytes that were read into the block b.      *)
(* Behind 512 of them it falls on the first byte of the next block, and if *)
(* that is free, on its link: no address of a block, and not NULL, begins  *)
(* with a newline.  Behind the last block there is malloc's padding.       *)
WithNewline(H, b, status) ==
  CASE status = "end" -> [H EXCEPT !.head[b] = Newline]
    [] status = "full" /\ b + 1 \in Blocks ->
         [H EXCEPT !.head[b + 1] = Newline, !.free = CutAfter(@, b + 1),
                   !.torn = @ \/ b + 1 \in ToSet(H.free)]
    [] OTHER -> H
-----------------------------------------------------------------------------
(* Opening and closing. *)

(* A slip the runs must notice: the task is not stopped. *)
CloseKeepsTask(H, s) ==
  IF s \notin H.listed THEN Crashed(H)
  ELSE [H EXCEPT !.listed = @ \ {s}, !.owner[H.fd[s]] = NULL, !.pend[s] = <<>>]

(* A handle that is closed twice is not on the list: list_del writes       *)
(* through NULL.                                                           *)
io_tcp_close(H, s) ==
  IF s \notin H.listed THEN Crashed(H)
  ELSE [H EXCEPT !.listed = @ \ {s}, !.task = @ \ {s},
                 !.owner[H.fd[s]] = NULL,
                 !.pend[s] = <<>>,
                 !.dangling = IF H.pend[s] = <<>> THEN @ ELSE @ \union {s}]

io_rfcomm_close(H) == io_tcp_close(H, "rfcm")

io_serial_close(H) == io_tcp_close(H, "serl")

FreeFds(H) == {f \in Fds : H.owner[f] = NULL}

(* io__handle_init with a new descriptor: the lowest that is free. *)
Opened(H, s) ==
  {[H EXCEPT !.fd[s] = f, !.owner[f] = s,
             !.listed = @ \union {s}, !.dangling = @ \ {s}] :
   f \in {x \in FreeFds(H) : \A y \in FreeFds(H) : x <= y}}

(* accept(2) may fail: the peer has gone, or there are no descriptors      *)
(* left.  The handle keeps the number it had.                              *)
io_tcp_accept(H, s) ==
  Opened(H, s) \union
  (IF H.fd[s] = -1 THEN {H}
   ELSE IF MayFail(H) THEN {[H EXCEPT !.stale = @ \union {s}]} ELSE {})

io_rfcomm_accept(H) == io_tcp_accept(H, "rfcm")

(* When epoll_ctl fails, or pipe(2), the connection has no task. *)
Started(H, s) ==
  {[H EXCEPT !.task = @ \union {s}]} \union
  (IF MayFail(H) THEN {[H EXCEPT !.mishaps = @ \union {"start"}]} ELSE {})

io_splice_start(H, s) == Started(H, s)

io_read_start(H, s) == Started(H, s)

(* open(2) fails, or one of the calls that set the line up does, and the   *)
(* descriptor is closed again; or the line is open.                        *)
io_serial(H) == {H} \union Opened(H, "serl")

(* Another name is tried when the first does not open. *)
try_serial(H) == UNION {IF "serl" \in G.listed THEN {G} ELSE io_serial(G) : G \in io_serial(H)}
-----------------------------------------------------------------------------
(* Requests. *)

(* A slip the runs must notice: the request goes behind the last. *)
ReqBehindLast(H, s, x) == [H EXCEPT !.pend[s] = Append(@, x)]

(* The second of three requests is lost.  For a number that names a closed *)
(* file epoll_ctl fails, and for one that another handle has registered    *)
(* already.                                                                *)
io__handle_req(H, s, x) ==
  LET o == H.owner[H.fd[s]]
  IN  IF s \in H.dangling THEN Crashed(H)
      ELSE IF H.pend[s] # <<>> THEN [H EXCEPT !.pend[s] = <<Head(@), x>>]
      ELSE IF o = NULL \/ (o # s /\ o \in H.task) THEN H
      ELSE [H EXCEPT !.pend[s] = <<x>>]

Misled(H, s) ==
  IF H.owner[H.fd[s]] \in {s, NULL} THEN H ELSE [H EXCEPT !.misled = @ \union {s}]

(* The peer may have ended the connection: SIGPIPE, which the program does *)
(* not ignore.                                                             *)
BrokenPipe(H) == {[H EXCEPT !.pc = "killed"]}

(* A slip the runs must notice: the block is not given back. *)
WrittenKeeps(H, b) == H

rfcm_written(H, b) == storage_free(H, b)

(* Everything is taken at once and the callback is called; or a request    *)
(* is made of what is left.                                                *)
io_write(H, b) ==
  (IF H.owner[H.fd["tcp2"]] = NULL THEN {} ELSE {rfcm_written(Misled(H, "tcp2"), b)})
  \union {io__handle_req(Misled(H, "tcp2"), "tcp2", b)}
  \union BrokenPipe(H)

io_sendall(H, s) == {H, io__handle_req(H, s, Log)} \union BrokenPipe(H)

(* The first request of a link ends, well or badly, and its block is       *)
(* freed.                                                                  *)
FirstEnds(H, s) ==
  LET x == Head(H.pend[s])
      D == [H EXCEPT !.pend[s] = Tail(@)]
  IN  IF H.pend[s] = <<>> THEN {} ELSE IF x \in Blocks THEN {rfcm_written(D, x)} ELSE {D}

(* The requests of a link that is reported writable, two at most: the      *)
(* first may end, and then the second.                                     *)
write_progress(H, s) ==
  LET one == FirstEnds(H, s)
  IN  {H} \union BrokenPipe(H) \union one \union UNION {FirstEnds(G, s) : G \in one}
-----------------------------------------------------------------------------
(* The tasks of the links. *)

(* rfcm_alloc and tcp3_alloc. *)
rfcm_alloc(H) == storage_alloc(H)

(* A slip the runs must notice: the fd is left as it is. *)
Remembered(H, s) == H

Forgotten(H, s) == [H EXCEPT !.fd[s] = -1]

rfcm_read(H, b, status) ==
  IF status = "error" THEN {Forgotten(io_rfcomm_close(storage_free(H, b)), "rfcm")}
  ELSE IF H.fd["tcp2"] # -1 THEN io_write(WithNewline(H, b, status), b)
  ELSE {storage_free(H, b)}

(* ftruncate touches nothing modelled here. *)
tcp3_read(H, b, status) ==
  IF status = "error" THEN {Forgotten(io_tcp_close(storage_free(H, b), "tcp3"), "tcp3")}
  ELSE LET obeys == H.head[b] \in {LetterL, LetterC}
           A == [H EXCEPT !.unasked = @ \/ (obeys /\ status = "end")]
       IN  {storage_free(G, b) : G \in IF H.head[b] = LetterL THEN io_sendall(A, "tcp3") ELSE {A}}

read_cb(H, s, b, status) ==
  IF s = "tcp3" THEN tcp3_read(H, b, status) ELSE rfcm_read(H, b, status)

(* read(2) puts bytes into the block b, the first of them x.               *)
Filled(H, b, x) == [H EXCEPT !.head[b] = x]

(* A damaged link is taken for a block.  Its bytes are whatever is there:  *)
(* at the end of tcp3 they may be a command.                               *)
WildBlock(H, s) ==
  {Crashed(H)} \union
  (IF s = "tcp3" THEN {[Crashed(H) EXCEPT !.unasked = TRUE]} ELSE {})

(* What read(2) may give: an error, the end, some bytes or as many as the  *)
(* block holds, the first of which is a command or not; what rfcm's is     *)
(* does not matter.  A read that would have to wait, because a stale event *)
(* of the batch is served for a new connection, waits for the bytes.       *)
(* Without a block nothing is read.                                        *)
read_progress(H, s) ==
  LET b == Head(H.free)
      A == rfcm_alloc(H)
      first == IF s = "tcp3" THEN {LetterL, LetterC, Newline} ELSE {Newline}
  IN  IF H.free = <<>> THEN IF H.torn THEN WildBlock(H, s) ELSE {H}
      ELSE UNION ({read_cb(A, s, b, status) : status \in {"error", "end"}}
                  \union {read_cb(Filled(A, b, x), s, b, status) : x \in first, status \in {"some", "full"}})

(* Bytes of s go to the link to, if it is open, in one way or another. *)
Forward(H, s, to) ==
  IF H.fd[to] = -1 \/ H.owner[H.fd[to]] = NULL THEN {}
  ELSE {Misled(H, to)} \union BrokenPipe(H)

(* Slips the runs must notice: the fd is left as it is after the close. *)
Tcp1SplicedKeepsFd(H) ==
  {H, io_tcp_close(H, "tcp1")} \union Forward(H, "tcp1", "serl")

Tcp2SplicedKeepsFd(H) ==
  {H, io_tcp_close(H, "tcp2")} \union Forward(H, "tcp2", "rfcm")

tcp1_spliced(H) ==
  {H, Forgotten(io_tcp_close(H, "tcp1"), "tcp1")} \union Forward(H, "tcp1", "serl")

tcp2_spliced(H) ==
  {H, Forgotten(io_tcp_close(H, "tcp2"), "tcp2")} \union Forward(H, "tcp2", "rfcm")

(* What is published goes to the log, and to tcp1; the subscriber is       *)
(* &tcp1, whatever its descriptor is now.  The close has freed the task,   *)
(* from which publish_progress reads the pipe to splice nothing more from, *)
(* operation.c:120: the program goes on, or not (see module Channel).      *)
data_published(H) ==
  LET C == Forgotten(io_serial_close(H), "serl")
  IN  {H, C, [Crashed(C) EXCEPT !.mishaps = @ \union {"freed"}]} \union Forward(H, "serl", "tcp1")

progress_cb(H, s) ==
  CASE s = "tcp1" -> tcp1_spliced(H)
    [] s = "tcp2" -> tcp2_spliced(H)
    [] s \in {"tcp3", "rfcm"} -> read_progress(H, s)
    [] s = "serl" -> data_published(H)
-----------------------------------------------------------------------------
(* The listeners and the watch of /dev. *)

(* new_tcp1_conn, new_tcp2_conn, new_tcp3_conn and new_rfcm_conn: a newer  *)
(* connection takes the place of the one there is.                         *)
new_conn(H, s) ==
  LET C == IF H.fd[s] = -1 THEN H
           ELSE IF s = "rfcm" THEN io_rfcomm_close(H) ELSE io_tcp_close(H, s)
      accepted == IF s = "rfcm" THEN io_rfcomm_accept(C) ELSE io_tcp_accept(C, s)
  IN  IF C.pc # "run" THEN {C}
      ELSE UNION {IF s \notin G.listed THEN {G}
                  ELSE IF s \in {"tcp1", "tcp2"} THEN io_splice_start(G, s)
                  ELSE io_read_start(G, s) : G \in accepted}

listen_progress(H, s) == new_conn(H, s)

(* A device is plugged in while there is none; the program gives up when   *)
(* it cannot publish its data.                                             *)
file_changed(H) ==
  IF H.fd["serl"] # -1 THEN {H}
  ELSE UNION {IF "serl" \notin G.listed THEN {G}
              ELSE {[G EXCEPT !.task = @ \union {"serl"}]}
                   \union (IF MayFail(G) THEN {[G EXCEPT !.pc = "exit"]} ELSE {})
              : G \in io_serial(H)}

(* One read gives any number of changes; one that finds the line open, or  *)
(* is of another file, does nothing.                                       *)
watch_progress(H) == {H} \union UNION {file_changed(G) : G \in file_changed(H)}
-----------------------------------------------------------------------------
(* io_loop_run: the event of a link is its task's first, then its          *)
(* requests'.  A link without a task has its event compared with a mask    *)
(* read through NULL; requests that were freed meanwhile are read all the  *)
(* same.                                                                   *)
Served(H, s, ev) ==
  IF s \notin H.task THEN {Crashed(H)}
  ELSE UNION {IF G.pc # "run" \/ H.pend[s] = <<>> THEN {G}
              ELSE IF s \notin G.listed
                   THEN {[Crashed(G) EXCEPT !.mishaps = @ \union {"busy"}]}
              ELSE IF "out" \in ev THEN write_progress(G, s)
              ELSE {G}
              : G \in IF "in" \in ev THEN progress_cb(H, s) ELSE {H}}

Event(s, ev) == [at |-> s, ev |-> ev]

(* What epoll watches: a link with a task, or with requests if its         *)
(* descriptor is open.                                                     *)
Reportable(H) ==
  {Event(p, {"new"}) : p \in Ports} \union {Event("watcher", {"in"})}
  \union {Event(s, ev) : s \in H.task, ev \in {{"in"}}}
  \union {e \in {Event(s, ev) : s \in Links, ev \in {{"out"}, {"in", "out"}}} :
            /\ H.pend[e.at] # <<>> /\ H.owner[H.fd[e.at]] # NULL
            /\ "in" \in e.ev => e.at \in H.task}

(* main: the loop starts with the serial line, or without. *)
Init ==
  /\ \E H \in try_serial([fd |-> [s \in Links |-> -1],
                           owner |-> [f \in Fds |-> NULL],
                           listed |-> {}, task |-> {},
                           pend |-> [s \in Links |-> <<>>], dangling |-> {},
                           free |-> [i \in 1 .. PCount |-> PCount - i], torn |-> FALSE,
                           head |-> [b \in Blocks |-> IF b = 0 THEN 0 ELSE LowByte],
                           pc |-> "run",
                           stale |-> {}, mishaps |-> {}, misled |-> {}, unasked |-> FALSE]) :
       hub = [H EXCEPT !.task = H.listed]
  /\ batch = {}
  /\ left = 0

(* epoll_wait; the batch before may have had fewer events than it might.   *)
EpollReturns ==
  /\ hub.pc = "run"
  /\ left < MaxEvent
  /\ batch' = Reportable(hub)
  /\ left' = MaxEvent
  /\ UNCHANGED hub

(* Of the events that are left only those of links matter: a listener and  *)
(* the watch may be ready at any time, and what they do late in a batch    *)
(* they do as well first in the next.                                      *)
Serve(e) ==
  /\ hub.pc = "run"
  /\ e \in batch
  /\ left' = left - 1
  /\ batch' = IF left = 1 THEN {}
              ELSE {x \in batch : /\ x.at \in Links /\ "new" \notin x.ev
                                  /\ "new" \in e.ev \/ x.at # e.at}

ServeLink(e) == Serve(e) /\ e.at \in Links /\ "new" \notin e.ev /\ hub' \in Served(hub, e.at, e.ev)

ServePort(e) == Serve(e) /\ "new" \in e.ev /\ hub' \in listen_progress(hub, e.at)

ServeWatcher(e) == Serve(e) /\ e.at = "watcher" /\ hub' \in watch_progress(hub)

Next ==
  \/ EpollReturns
  \/ \E e \in batch : ServeLink(e) \/ ServePort(e) \/ ServeWatcher(e)

Spec == Init /\ [][Next]_vars
-----------------------------------------------------------------------------
TypeOK ==
  /\ hub.fd \in [Links -> Fds \union {-1}]
  /\ hub.owner \in [Fds -> Links \union {NULL}]
  /\ hub.listed \subseteq Links /\ hub.task \subseteq hub.listed
  /\ \A s \in Links : hub.pend[s] \in Seq(Blocks \union {Log})
  /\ \A s \in Links \ {"tcp2", "tcp3"} : hub.pend[s] = <<>>
  /\ hub.free \in Seq(Blocks) /\ hub.torn \in BOOLEAN
  /\ hub.head \in [Blocks -> {LowByte, 0, Newline, LetterL, LetterC}]
  /\ hub.pc \in {"run", "crashed", "killed", "exit"}
  /\ hub.dangling \union hub.stale \union hub.misled \subseteq Links
  /\ hub.mishaps \subseteq {"start", "busy", "freed"} /\ hub.unasked \in BOOLEAN
  /\ left \in 0 .. MaxEvent

(* Until an accept fails after the old connection was closed, the fd of a  *)
(* handle is -1 exactly when the handle is not on the list, and otherwise  *)
(* names that link's own connection, and no descriptor is open without a   *)
(* handle that names it.                                                   *)
FdTells ==
  hub.pc = "run" =>
    /\ \A s \in Links \ hub.stale :
         /\ hub.fd[s] = -1 <=> s \notin hub.listed
         /\ hub.fd[s] # -1 => hub.owner[hub.fd[s]] = s
    /\ \A f \in Fds : hub.owner[f] # NULL => hub.fd[hub.owner[f]] = f

(* Bytes meant for one link reach another only when an accept failed for   *)
(* that link, so that its handle has the number of a closed file, which    *)
(* the next connection gets.                                               *)
RightConnection == hub.misled \subseteq hub.stale

(* The blocks nobody has any more. *)
Lost(H) == Blocks \ (ToSet(H.free) \union BlocksIn(H.pend["tcp2"]))

Tcp2Closed == "tcp2" \in hub'.dangling \/ ServePort(Event("tcp2", {"new"}))

(* The blocks of the free list q after the one that is next in memory to   *)
(* its first: when a read has filled the first, the newline damages the    *)
(* link that leads to them.                                                *)
BehindNext(q) == {q[j] : j \in {k \in DOMAIN q : \E i \in 2 .. k - 1 : q[i] = q[1] + 1}}

(* The blocks that a step from H to G may lose although tcp2 stays: the    *)
(* second request, which a third one replaces; the block that was read     *)
(* into, when tcp2.fd is the number of a closed file; and the rest of a    *)
(* free list that the newline of rfcm_read cuts.                           *)
Mislaid(H, G) ==
  {H.pend["tcp2"][i] : i \in DOMAIN H.pend["tcp2"] \ {1}}
  \union (IF "tcp2" \in H.stale /\ H.free # <<>> THEN {Head(H.free)} ELSE {})
  \union (IF G.torn THEN BehindNext(H.free) ELSE {})

(* As long as the program runs, a block is free or waits for tcp2, not     *)
(* both, and not twice; and it is lost to the pool only when tcp2 is       *)
(* closed with requests, or in one of the three ways of Mislaid.           *)
BlocksKept ==
  [][hub'.pc = "run" =>
       /\ IsInjective(hub'.free) /\ IsInjective(hub'.pend["tcp2"])
       /\ ToSet(hub'.free) \intersect BlocksIn(hub'.pend["tcp2"]) = {}
       /\ Lost(hub') \subseteq Lost(hub) \union Mislaid(hub, hub')
            \union (IF Tcp2Closed THEN BlocksIn(hub.pend["tcp2"]) ELSE {})]_vars

(* Two requests at most wait for tcp2, so as long as no block was lost     *)
(* there is one for the next read: a link that is ready is never reported  *)
(* over and over because there is none.                                    *)
AlwaysABlock == hub.free = <<>> => Lost(hub) # {}

(* A command of tcp3's client is obeyed only if the client sent it,        *)
(* although at the end of the connection the block has whatever the pool   *)
(* left in it; unless the free list is damaged.                            *)
CommandsWereSent == hub.unasked => hub.torn

(* No handle is closed twice, no event is served without a task, and no    *)
(* request is made on freed ones, unless an accept or the start of a task  *)
(* has failed.  The other ends in memory that is not the program's are     *)
(* those of a link closed in its own callback with requests waiting, of    *)
(* the serial line's task, and of the damaged free list.                   *)
NoCrash == hub.pc = "crashed" => hub.stale # {} \/ hub.mishaps # {} \/ hub.torn
=============================================================================
