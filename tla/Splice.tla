------------------------------- MODULE Splice -------------------------------
(***************************************************************************)
(* io_splice_start and splice_progress of io/operation.c, as reactive.c    *)
(* uses them to forward a TCP connection (`from') to the serial line or    *)
(* the Bluetooth connection (`to') through a pipe of the kernel.           *)
(*                                                                         *)
(* Data are units numbered in the order they are read from `from'.  One    *)
(* unit stands for any number of bytes that the kernel moves together.     *)
(***************************************************************************)
EXTENDS Integers, Sequences

CONSTANTS
  SpliceSize,  (* SPLICE_SIZE, the most one splice(2) moves                *)
  PipeCap,     (* what a pipe holds                                        *)
  FdLimit,     (* the open files the process may have for this job         *)
  MaxUnits     (* bound: units read in a behaviour                         *)

ASSUME SpliceAssumption ==
  /\ SpliceSize \in Nat \ {0}
  /\ PipeCap \in Nat /\ SpliceSize <= PipeCap
  /\ FdLimit \in Nat /\ MaxUnits \in Nat

VARIABLES
  conn,     (* `from': not connected (its fd is -1), connected, stale (its  *)
            (* fd names a file that was closed), or what is left after     *)
            (* closing it again ("broken")                                 *)
  task,     (* does `from' have its splice task?                           *)
  to,       (* is `to' open?  If not, its fd is -1                         *)
  pipe,     (* the units in the pipe of the task                           *)
  read,     (* number of units read from `from' so far                     *)
  out,      (* history: the units `to' took                                *)
  drained,  (* history: the units io_splice_drain discarded                *)
  leaked,   (* pipes that are open although their task is gone             *)
  faltered  (* history: has `to', while open, taken less than it was given? *)

vars == <<conn, task, to, pipe, read, out, drained, leaked, faltered>>

UnitsOf(s) == {s[i] : i \in DOMAIN s}
Least(a, b) == IF a <= b THEN a ELSE b
Rest(s, n) == SubSeq(s, n + 1, Len(s))

FdsInUse == (IF conn = "open" THEN 1 ELSE 0) + (IF task THEN 2 ELSE 0) + 2 * leaked

Init ==
  /\ conn = "none"
  /\ task = FALSE
  /\ to = FALSE
  /\ pipe = <<>>
  /\ read = 0
  /\ out = <<>>
  /\ drained = {}
  /\ leaked = 0
  /\ faltered = FALSE
-----------------------------------------------------------------------------
(* io_splice_start sets no end_cb: stopping the task, or closing the       *)
(* handle, frees the task and leaves both ends of its pipe open.           *)
Abandoned == leaked + (IF task THEN 1 ELSE 0)

(* A slip the runs must notice: pipe(2)'s result is not looked at. *)
NewConnectionUnchecked ==
  /\ conn \in {"none", "open"}
  /\ 2 * Abandoned + 1 <= FdLimit
  /\ conn' = "open"
  /\ task' = TRUE
  /\ leaked' = Abandoned
  /\ pipe' = <<>>
  /\ UNCHANGED <<to, read, out, drained, faltered>>

(* new_tcp1_conn: close the previous connection, accept, start the splice. *)
(* pipe(2) fails when there are no descriptors left.                       *)
NewConnection ==
  LET before == 2 * Abandoned
  IN  /\ conn \in {"none", "open"}
      /\ before + 1 <= FdLimit
      /\ conn' = "open"
      /\ task' = (before + 1 + 2 <= FdLimit)
      /\ leaked' = Abandoned
      /\ pipe' = <<>>
      /\ UNCHANGED <<to, read, out, drained, faltered>>

(* accept(2) fails, for want of a descriptor or because the peer has gone: *)
(* RET_IF_ERR returns before anything gives tcp1.fd a new value.           *)
AcceptFails ==
  /\ conn \in {"none", "open"}
  /\ conn' = IF conn = "open" THEN "stale" ELSE "none"
  /\ task' = FALSE
  /\ leaked' = Abandoned
  /\ pipe' = <<>>
  /\ UNCHANGED <<to, read, out, drained, faltered>>

(* tcp1.fd is not -1, so io_tcp_close takes the handle off the list of the *)
(* loop, and off handle_count, a second time; its links are NULL by now.   *)
ClosesAgain ==
  /\ conn = "stale"
  /\ conn' = "broken"
  /\ UNCHANGED <<task, to, pipe, read, out, drained, leaked, faltered>>

ToOpens  == ~to /\ to' = TRUE /\ UNCHANGED <<conn, task, pipe, read, out, drained, leaked, faltered>>
ToCloses == to /\ to' = FALSE /\ UNCHANGED <<conn, task, pipe, read, out, drained, leaked, faltered>>

(* A slip the runs must notice: the pipe is not drained, as io/mdp.c:24.   *)
FailedUndrained(p) ==
  /\ pipe' = p
  /\ UNCHANGED <<conn, task, to, out, drained, leaked>>

(* tcp1_spliced with status -1, the pipe holding p: drain it if `to' is not *)
(* connected, keep it otherwise.                                           *)
Failed(p) ==
  /\ IF to THEN pipe' = p /\ UNCHANGED drained
           ELSE /\ pipe' = Rest(p, SpliceSize)
                /\ drained' = drained \union UnitsOf(SubSeq(p, 1, Least(SpliceSize, Len(p))))
  /\ UNCHANGED <<conn, task, to, out, leaked>>

(* A slip the runs must notice: a failed read does not end the call, and   *)
(* the write gets -1, more than there is, as its length.                   *)
ReadFailsWrites ==
  /\ task
  /\ \/ /\ to
        /\ out' = out \o pipe
        /\ pipe' = <<>>
        /\ UNCHANGED <<conn, task, to, drained, leaked>>
     \/ ~to /\ Failed(pipe)
  /\ UNCHANGED <<read, faltered>>

(* The first splice(2) fails: no room in the pipe, or an error of `from'.  *)
ReadFails ==
  /\ task
  /\ Failed(pipe)
  /\ UNCHANGED <<read, faltered>>

(* The end of `from': the second splice(2) has nothing to do and returns 0 *)
(* like the first, and tcp1_spliced closes `from'.                         *)
ReadEnds ==
  /\ task
  /\ conn' = "none"
  /\ task' = FALSE
  /\ leaked' = Abandoned
  /\ pipe' = <<>>
  /\ UNCHANGED <<to, read, out, drained, faltered>>

(* A slip the runs must notice: data are copied where they should move.    *)
RelayCopies(k) ==
  LET n == Least(k, PipeCap - Len(pipe))
      p == pipe \o [i \in 1 .. n |-> read + i]
  IN  /\ task
      /\ n > 0 /\ read + n <= MaxUnits
      /\ read' = read + n
      /\ \/ /\ to
            /\ out' = out \o SubSeq(p, 1, n)
            /\ pipe' = p
            /\ UNCHANGED <<conn, task, to, drained, leaked, faltered>>
         \/ ~to /\ Failed(p) /\ UNCHANGED faltered

(* splice_progress: k units are there to be read, the pipe takes n of them, *)
(* and `to' takes up to n of what is in the pipe, oldest first.            *)
Relay(k) ==
  LET n == Least(k, PipeCap - Len(pipe))
      p == pipe \o [i \in 1 .. n |-> read + i]
  IN  /\ task
      /\ n > 0 /\ read + n <= MaxUnits
      /\ read' = read + n
      /\ \/ \E w \in 1 .. n :
              /\ to
              /\ out' = out \o SubSeq(p, 1, w)
              /\ pipe' = Rest(p, w)
              /\ faltered' = (faltered \/ w < n)
              /\ UNCHANGED <<conn, task, to, drained, leaked>>
         \/ Failed(p) /\ faltered' = (faltered \/ to)

Next ==
  \/ NewConnection
  \/ AcceptFails
  \/ ClosesAgain
  \/ ToOpens
  \/ ToCloses
  \/ ReadFails
  \/ ReadEnds
  \/ \E k \in 1 .. SpliceSize : Relay(k)

Spec == Init /\ [][Next]_vars
-----------------------------------------------------------------------------
TypeOK ==
  /\ conn \in {"none", "open", "stale", "broken"}
  /\ task \in BOOLEAN /\ to \in BOOLEAN
  /\ task => conn = "open"
  /\ pipe \in Seq(1 .. MaxUnits) /\ Len(pipe) <= PipeCap
  /\ read \in 0 .. MaxUnits
  /\ out \in Seq(1 .. MaxUnits)
  /\ drained \subseteq 1 .. MaxUnits
  /\ leaked \in Nat /\ faltered \in BOOLEAN
  /\ FdsInUse <= FdLimit

(* Whatever is left over in the pipe from one call to the next, `to' takes *)
(* units in the order they were sent and takes none twice.                 *)
InOrder ==
  LET s == out \o pipe IN \A i, j \in DOMAIN s : i < j => s[i] < s[j]

(* As long as `to' takes all it is given while it is open, coming and      *)
(* going as it likes, the pipe carries nothing over from one call to the   *)
(* next, and every unit read, over all connections, went to `to' or was    *)
(* discarded by io_splice_drain because `to' was not connected, not both.  *)
NothingLost ==
  ~faltered => /\ pipe = <<>>
               /\ 1 .. read = UnitsOf(out) \union drained
               /\ UnitsOf(out) \intersect drained = {}

(* splice_progress reads before it writes, and a read into a full pipe     *)
(* fails: in front of an open `to' a full pipe stays as it is for as long  *)
(* as the task lives.  Nothing is delivered any more, nothing is lost.     *)
StuckWhenFull ==
  [][Len(pipe) = PipeCap /\ to /\ task' /\ leaked' = leaked => pipe' = pipe]_vars

(* An open connection is being forwarded. *)
ConnectionServed == conn = "open" => task
=============================================================================
