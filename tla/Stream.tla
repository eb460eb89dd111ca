------------------------------- MODULE Stream -------------------------------
(***************************************************************************)
(* io_write, io_sendall and the progress of the requests they make         *)
(* (io/operation.c): which bytes a handle takes, in which order, and what  *)
(* the callbacks are told.  One open handle; the loop that runs its        *)
(* requests is the one of module Loop, reduced to this handle.             *)
(*                                                                         *)
(* A byte is <<w, i>>: byte i of the w-th write or send.  Byte -1 of a     *)
(* write is whatever lies in front of its buffer.                          *)
(***************************************************************************)
EXTENDS Integers, Sequences

CONSTANTS
  MaxWrites,  (* bound: writes and sends in a behaviour                    *)
  MaxLen,     (* bound: the length of one                                  *)
  MaxAgain,   (* bound: EWOULDBLOCKs that one write meets                   *)
  None        (* no callback yet                                           *)

ASSUME StreamAssumption ==
  /\ MaxWrites \in Nat /\ MaxLen \in Nat /\ MaxAgain \in Nat
  /\ None \notin Int

VARIABLES
  pc,       (* "idle": the loop is elsewhere; "reqs": it is about to run   *)
            (* the first request; "cb": the callback of that one runs      *)
  q,        (* handle->req and its successors                              *)
  made,     (* number of writes and sends so far                           *)
  kind,     (* "write" or "send"                                           *)
  len,      (* buf->len, the length of a send                              *)
  progress, (* writet->progress, sendt->offset                             *)
  file,     (* history: the bytes the handle took                          *)
  told,     (* history: the status a callback was given                    *)
  broken,   (* has the connection failed?                                  *)
  again,    (* history: how often each write met EWOULDBLOCK               *)
  overtook  (* history: did a new write take bytes in front of older ones? *)

vars == <<pc, q, made, kind, len, progress, file, told, broken, again, overtook>>

Ids == 1 .. MaxWrites
Made == 1 .. made

(* The bytes of w from the a-th on, n of them. *)
Bytes(w, a, n) == [i \in 1 .. n |-> <<w, a + i - 1>>]

(* What write(2) and sendfile(2) may return for l bytes. *)
Results(l) == IF broken THEN {-1} ELSE {-1} \union (IF l = 0 THEN {0} ELSE 1 .. l)

Most(a, b) == IF a >= b THEN a ELSE b

Init ==
  /\ pc = "idle" /\ q = <<>> /\ made = 0
  /\ kind = [w \in Ids |-> "write"]
  /\ len = [w \in Ids |-> 0]
  /\ progress = [w \in Ids |-> 0]
  /\ file = <<>>
  /\ told = [w \in Ids |-> None]
  /\ broken = FALSE /\ again = [w \in Ids |-> 0] /\ overtook = FALSE
-----------------------------------------------------------------------------
(* io__handle_req hangs a new request behind the first, whatever was there. *)

(* Slips the runs must notice: it goes behind the last, or to the front.    *)
QueuedLast(w) == Append(q, w)

QueuedFirst(w) == IF Len(q) = 2 THEN <<w, Head(q)>> ELSE <<w>> \o q

Queued(w) == IF q = <<>> THEN <<w>> ELSE <<Head(q), w>>

(* io_write and io_sendall try at once, whether or not requests wait.  If  *)
(* the handle takes everything, the callback is called from inside;        *)
(* otherwise, and also for length 0, a request is made.                    *)
Submit(k, l, n) ==
  LET w == made + 1
  IN  /\ made' = w
      /\ kind' = [kind EXCEPT ![w] = k]
      /\ len' = [len EXCEPT ![w] = l]
      /\ file' = file \o Bytes(w, 0, Most(n, 0))
      /\ overtook' = (overtook \/ (n > 0 /\ q # <<>>))
      /\ \/ /\ n > 0 /\ n = l
            /\ told' = [told EXCEPT ![w] = n]
            /\ UNCHANGED <<q, progress>>
         \/ /\ n <= 0 \/ n < l
            /\ q' = Queued(w)
            /\ progress' = [progress EXCEPT ![w] = Most(n, 0)]
            /\ UNCHANGED told

(* The client may call them from a callback of this handle (pc "cb") or    *)
(* from anywhere else.                                                     *)
io_write(l) ==
  /\ pc \in {"idle", "cb"}
  /\ made < MaxWrites
  /\ \E n \in Results(l) : Submit("write", l, n)
  /\ UNCHANGED <<pc, broken, again>>

io_sendall(l) ==
  /\ pc \in {"idle", "cb"}
  /\ made < MaxWrites
  /\ \E n \in Results(l) : Submit("send", l, n)
  /\ UNCHANGED <<pc, broken, again>>

Breaks == ~broken /\ broken' = TRUE /\ UNCHANGED <<pc, q, made, kind, len, progress, file, told, again, overtook>>
-----------------------------------------------------------------------------
(* io_loop_run, when epoll reports the handle writable *)

Reported ==
  /\ pc = "idle" /\ q # <<>>
  /\ pc' = "reqs"
  /\ UNCHANGED <<q, made, kind, len, progress, file, told, broken, again, overtook>>

(* req->done is set and the callback is told the whole length.             *)
Completed(w) == pc' = "cb" /\ told' = [told EXCEPT ![w] = len[w]]

(* A slip the runs must notice: write_progress does not skip what is written. *)
WriteRestarts(n) ==
  LET w == Head(q)
      left == len[w] - progress[w]
  IN  /\ pc = "reqs" /\ kind[w] = "write"
      /\ n \in Results(left) /\ n >= 0
      /\ file' = file \o Bytes(w, 0, n)
      /\ \/ n = left /\ Completed(w) /\ UNCHANGED progress
         \/ /\ n < left
            /\ progress' = [progress EXCEPT ![w] = @ + n]
            /\ pc' = "idle"
            /\ UNCHANGED told
      /\ UNCHANGED <<q, made, kind, len, broken, again, overtook>>

(* write_progress, when the handle takes n bytes. *)
WriteTakes(n) ==
  LET w == Head(q)
      left == len[w] - progress[w]
  IN  /\ pc = "reqs" /\ kind[w] = "write"
      /\ n \in Results(left) /\ n >= 0
      /\ file' = file \o Bytes(w, progress[w], n)
      /\ \/ n = left /\ Completed(w) /\ UNCHANGED progress
         \/ /\ n < left
            /\ progress' = [progress EXCEPT ![w] = @ + n]
            /\ pc' = "idle"
            /\ UNCHANGED told
      /\ UNCHANGED <<q, made, kind, len, broken, again, overtook>>

(* A slip the runs must notice: EWOULDBLOCK is taken for the end. *)
RefusedCompletes ==
  LET w == Head(q)
  IN  /\ pc = "reqs" /\ kind[w] = "write"
      /\ ~broken /\ len[w] # progress[w]
      /\ Completed(w)
      /\ UNCHANGED <<q, made, kind, len, progress, file, broken, again, overtook>>

(* write(2) returns -1 with EWOULDBLOCK, and -1 is added to the progress.  *)
WriteRefused ==
  LET w == Head(q)
  IN  /\ pc = "reqs" /\ kind[w] = "write"
      /\ ~broken /\ len[w] # progress[w]
      /\ again[w] < MaxAgain
      /\ progress' = [progress EXCEPT ![w] = @ - 1]
      /\ again' = [again EXCEPT ![w] = @ + 1]
      /\ pc' = "idle"
      /\ UNCHANGED <<q, made, kind, len, file, told, broken, overtook>>

(* Any other error completes the request. *)
WriteFails ==
  LET w == Head(q)
  IN  /\ pc = "reqs" /\ kind[w] = "write"
      /\ broken
      /\ Completed(w)
      /\ UNCHANGED <<q, made, kind, len, progress, file, broken, again, overtook>>

(* send_progress passes the offset where sendfile(2) takes a pointer.  Any *)
(* offset but 0 is no address: EFAULT.  0 is NULL, and means the position  *)
(* of the file, which io_sendall has left at its end: nothing is sent, and *)
(* errno, which sendfile(2) has not set, decides whether that is the end.  *)
SendFails ==
  LET w == Head(q)
  IN  /\ pc = "reqs" /\ kind[w] = "send"
      /\ \/ Completed(w)
         \/ progress[w] = 0 /\ len[w] # 0 /\ pc' = "idle" /\ UNCHANGED told
      /\ UNCHANGED <<q, made, kind, len, progress, file, broken, again, overtook>>

(* A slip the runs must notice: the request is kept. *)
CallbackKeeps ==
  /\ pc = "cb"
  /\ pc' = "idle"
  /\ UNCHANGED <<q, made, kind, len, progress, file, told, broken, again, overtook>>

(* The callback returns, io__handle_done retires the request, and the loop *)
(* goes on with the next one at once.                                      *)
CallbackReturns ==
  /\ pc = "cb"
  /\ q' = Tail(q)
  /\ pc' = IF Tail(q) = <<>> THEN "idle" ELSE "reqs"
  /\ UNCHANGED <<made, kind, len, progress, file, told, broken, again, overtook>>

Next ==
  \/ \E l \in 0 .. MaxLen : io_write(l) \/ io_sendall(l)
  \/ Breaks
  \/ Reported
  \/ \E n \in 0 .. MaxLen + MaxAgain : WriteTakes(n)
  \/ WriteRefused
  \/ WriteFails
  \/ SendFails
  \/ CallbackReturns

Spec == Init /\ [][Next]_vars
-----------------------------------------------------------------------------
(* Where in the file the bytes of w are, and which of them are there.      *)
Where(w) == {i \in DOMAIN file : file[i][1] = w}
Taken(w) == {file[i][2] : i \in Where(w)}

TypeOK ==
  /\ pc \in {"idle", "reqs", "cb"}
  /\ q \in Seq(Made) /\ Len(q) <= 2
  /\ \A i, j \in DOMAIN q : q[i] = q[j] => i = j
  /\ pc # "idle" => q # <<>>
  /\ made \in 0 .. MaxWrites
  /\ kind \in [Ids -> {"write", "send"}]
  /\ len \in [Ids -> 0 .. MaxLen]
  /\ progress \in [Ids -> -MaxAgain .. MaxLen]
  /\ file \in Seq(Made \X (-MaxAgain .. MaxLen))
  /\ told \in [Ids -> (0 .. MaxLen) \union {None}]
  /\ broken \in BOOLEAN /\ overtook \in BOOLEAN
  /\ again \in [Ids -> 0 .. MaxAgain]

(* What the handle has taken of one write is its bytes from the first on,  *)
(* each once and in order, and progress says how many: however many times  *)
(* it was cut short, and whatever other writes did, unless it met          *)
(* EWOULDBLOCK.                                                            *)
InOrderOnce ==
  \A w \in Made : again[w] = 0 =>
    /\ \A i, j \in Where(w) : i < j => file[i][2] < file[j][2]
    /\ \E k \in 0 .. MaxLen : /\ Taken(w) = 0 .. k - 1
                              /\ told[w] = None => k = progress[w]

(* When the callback of a write runs and the connection is whole, the      *)
(* handle has taken every byte, and the callback is told how many: also    *)
(* after EWOULDBLOCK, which only adds bytes that do not belong there.      *)
TakenWhenTold ==
  \A w \in Made : told[w] # None /\ kind[w] = "write" /\ ~broken
    => told[w] = len[w] /\ 0 .. len[w] - 1 \subseteq Taken(w)

(* As long as no write takes bytes while older ones wait, the handle gets  *)
(* the writes one after the other, although a third pending one replaces   *)
(* the second.                                                             *)
InTurn == ~overtook => \A i, j \in DOMAIN file : i < j => file[i][1] <= file[j][1]

(* The client gives the buffer back in the callback (rfcm_written, and     *)
(* echo_sent of the tests): once it has run it does not run again, and no  *)
(* byte is taken from that buffer.                                         *)
NothingAfterTold ==
  [][\A w \in Made : told[w] # None => told'[w] = told[w] /\ Where(w)' = Where(w)]_vars
=============================================================================
