------------------------------ MODULE Channel ------------------------------
(***************************************************************************)
(* io_publish_start and publish_progress of io/operation.c with the        *)
(* channel they publish to: what is read from one handle (reactive.c: the  *)
(* serial line) is copied with tee(2) into a pipe per subscriber, and from *)
(* there moved to the subscriber's handle.                                 *)
(*                                                                         *)
(* Data are units numbered in the order they are read.  One unit stands    *)
(* for any number of bytes that the kernel moves together.                 *)
(***************************************************************************)
EXTENDS Integers, Sequences

CONSTANTS
  Subs,        (* the handles that may join the channel                    *)
  SpliceSize,  (* SPLICE_SIZE, the most one splice(2) or tee(2) moves      *)
  PipeCap,     (* what a pipe holds                                        *)
  MaxUnits,    (* bound: units read in a behaviour                         *)
  Falters,     (* may a subscriber take less than it is given?             *)
  EndsItself   (* does pub_cb close the published handle when it ended, as *)
               (* reactive.c:179 does?                                     *)

ASSUME ChannelAssumption ==
  /\ SpliceSize \in Nat \ {0}
  /\ PipeCap \in Nat /\ SpliceSize <= PipeCap
  /\ MaxUnits \in Nat
  /\ Falters \in BOOLEAN /\ EndsItself \in BOOLEAN

VARIABLES
  pc,      (* where publish_progress is, "idle" when it is not running     *)
  n,       (* its local variable n, what the first splice(2) moved         *)
  todo,    (* the subscribers list_for_each has still to visit             *)
  task,    (* is the handle's publish task running?                        *)
  ppipe,   (* the units in the pipe of the task                            *)
  joined,  (* channel->subscribers                                         *)
  fd,      (* is the subscriber's handle open?                             *)
  spipe,   (* the units in the pipe of each subscription                   *)
  read,    (* number of units read so far                                  *)
  got,     (* history: the units each subscriber's handle took             *)
  since,   (* history: what had been read when the subscriber joined       *)
  keptUp   (* history: subscribers that since took all they were given     *)

vars == <<pc, n, todo, task, ppipe, joined, fd, spipe, read, got, since, keptUp>>

Least(a, b) == IF a <= b THEN a ELSE b
First(s, k) == SubSeq(s, 1, Least(k, Len(s)))
Rest(s, k) == SubSeq(s, k + 1, Len(s))
Numbers(a, b) == [i \in 1 .. b - a |-> a + i]

Init ==
  /\ pc = "idle" /\ n = 0 /\ todo = {}
  /\ task = FALSE /\ ppipe = <<>>
  /\ joined = {}
  /\ fd = [s \in Subs |-> FALSE]
  /\ spipe = [s \in Subs |-> <<>>]
  /\ read = 0
  /\ got = [s \in Subs |-> <<>>]
  /\ since = [s \in Subs |-> 0]
  /\ keptUp = {}
-----------------------------------------------------------------------------
(* The client.  It joins before the handle is open, as reactive.c:235-236  *)
(* does, or after.                                                         *)

io_channel_join(s) ==
  /\ pc = "idle"
  /\ s \notin joined
  /\ joined' = joined \union {s}
  /\ spipe' = [spipe EXCEPT ![s] = <<>>]
  /\ got' = [got EXCEPT ![s] = <<>>]
  /\ since' = [since EXCEPT ![s] = read]
  /\ keptUp' = keptUp \union {s}
  /\ UNCHANGED <<pc, n, todo, task, ppipe, fd, read>>

io_channel_close ==
  /\ pc = "idle"
  /\ joined # {}
  /\ joined' = {}
  /\ UNCHANGED <<pc, n, todo, task, ppipe, fd, spipe, read, got, since, keptUp>>

io_publish_start ==
  /\ pc = "idle"
  /\ ~task
  /\ task' = TRUE
  /\ ppipe' = <<>>
  /\ UNCHANGED <<pc, n, todo, joined, fd, spipe, read, got, since, keptUp>>

io_publish_stop ==
  /\ pc = "idle"
  /\ task
  /\ task' = FALSE
  /\ UNCHANGED <<pc, n, todo, ppipe, joined, fd, spipe, read, got, since, keptUp>>

OpenClose(s) ==
  /\ pc = "idle"
  /\ fd' = [fd EXCEPT ![s] = ~@]
  /\ UNCHANGED <<pc, n, todo, task, ppipe, joined, spipe, read, got, since, keptUp>>
-----------------------------------------------------------------------------
(* publish_progress *)

(* k units, or the end of the handle (k = 0); an error returns at once. *)
SpliceIn(k) ==
  /\ pc = "idle"
  /\ task
  /\ LET moved == Least(k, PipeCap - Len(ppipe))
     IN  /\ k > 0 => moved > 0
         /\ read + moved <= MaxUnits
         /\ n' = moved
         /\ ppipe' = ppipe \o Numbers(read, read + moved)
         /\ read' = read + moved
  /\ todo' = joined
  /\ pc' = IF joined = {} THEN "published" ELSE "subs"
  /\ UNCHANGED <<task, joined, fd, spipe, got, since, keptUp>>

Visited(s) ==
  /\ todo' = todo \ {s}
  /\ pc' = IF todo = {s} THEN "published" ELSE "subs"

(* Slips the runs must notice: the loop ends when a tee(2) fails, ...      *)
ReturnsEarly(s) ==
  /\ pc = "subs" /\ s \in todo
  /\ n > 0 /\ Len(spipe[s]) = PipeCap
  /\ todo' = {} /\ pc' = "published"
  /\ keptUp' = keptUp \ {s}
  /\ UNCHANGED <<n, task, ppipe, joined, fd, spipe, read, got, since>>

(* ... or the write is tried although tee(2) failed.                       *)
WritesAnyway(s) ==
  /\ pc = "subs" /\ s \in todo
  /\ n > 0 /\ Len(spipe[s]) = PipeCap
  /\ fd[s]
  /\ Visited(s)
  /\ got' = [got EXCEPT ![s] = @ \o First(spipe[s], n)]
  /\ spipe' = [spipe EXCEPT ![s] = Rest(@, n)]
  /\ keptUp' = keptUp \ {s}
  /\ UNCHANGED <<n, task, ppipe, joined, fd, read, since>>

(* tee(2) into a full pipe fails, and `goto sub_cb' passes over the write. *)
TeeFails(s) ==
  /\ pc = "subs" /\ s \in todo
  /\ n > 0 /\ Len(spipe[s]) = PipeCap
  /\ Visited(s)
  /\ keptUp' = keptUp \ {s}
  /\ UNCHANGED <<n, task, ppipe, joined, fd, spipe, read, got, since>>

(* A slip the runs must notice: room in the pipe is taken for granted. *)
TeedAll(s) == spipe[s] \o First(ppipe, n)

(* The subscription's pipe after tee(2), which copies what there is room for. *)
Teed(s) == spipe[s] \o First(ppipe, Least(n, PipeCap - Len(spipe[s])))

(* The handle takes up to n units, oldest first. *)
TeeWrite(s) ==
  /\ pc = "subs" /\ s \in todo
  /\ n = 0 \/ Len(spipe[s]) < PipeCap
  /\ fd[s]
  /\ LET most == Least(n, Len(Teed(s)))
     IN  \E w \in (IF Falters THEN 1 .. most ELSE {most}) :
           /\ got' = [got EXCEPT ![s] = @ \o First(Teed(s), w)]
           /\ spipe' = [spipe EXCEPT ![s] = Rest(Teed(s), w)]
           /\ keptUp' = IF w < most THEN keptUp \ {s} ELSE keptUp
  /\ Visited(s)
  /\ UNCHANGED <<n, task, ppipe, joined, fd, read, since>>

(* The handle is closed (its fd is -1), or takes nothing: the copy stays.  *)
TeeKeep(s) ==
  /\ pc = "subs" /\ s \in todo
  /\ n = 0 \/ Len(spipe[s]) < PipeCap
  /\ ~fd[s] \/ Falters
  /\ spipe' = [spipe EXCEPT ![s] = Teed(s)]
  /\ keptUp' = IF n = 0 THEN keptUp ELSE keptUp \ {s}
  /\ Visited(s)
  /\ UNCHANGED <<n, task, ppipe, joined, fd, read, got, since>>

(* What publish_progress has read is left in its pipe. *)
Undrained ==
  /\ pc = "published"
  /\ IF n = 0 /\ EndsItself THEN task' = FALSE /\ pc' = "freed_task" ELSE pc' = "idle" /\ UNCHANGED task
  /\ UNCHANGED <<n, todo, ppipe, joined, fd, spipe, read, got, since, keptUp>>

(* pub_cb, then the last splice(2) empties the pipe of the task: after     *)
(* pub_cb closed the handle it reads a task that has been freed.           *)
Drain ==
  /\ pc = "published"
  /\ IF n = 0 /\ EndsItself
       THEN task' = FALSE /\ pc' = "freed_task" /\ UNCHANGED ppipe
       ELSE pc' = "idle" /\ ppipe' = Rest(ppipe, n) /\ UNCHANGED task
  /\ UNCHANGED <<n, todo, joined, fd, spipe, read, got, since, keptUp>>

Next ==
  \/ \E s \in Subs :
       \/ io_channel_join(s)
       \/ OpenClose(s)
       \/ TeeFails(s)
       \/ TeeWrite(s)
       \/ TeeKeep(s)
  \/ io_channel_close
  \/ io_publish_start
  \/ io_publish_stop
  \/ \E k \in 0 .. SpliceSize : SpliceIn(k)
  \/ Drain

Spec == Init /\ [][Next]_vars
-----------------------------------------------------------------------------
Units == 1 .. MaxUnits

TypeOK ==
  /\ pc \in {"idle", "subs", "published", "freed_task"}
  /\ n \in 0 .. SpliceSize
  /\ todo \subseteq joined
  /\ task \in BOOLEAN
  /\ ppipe \in Seq(Units) /\ Len(ppipe) <= PipeCap
  /\ joined \subseteq Subs
  /\ fd \in [Subs -> BOOLEAN]
  /\ spipe \in [Subs -> Seq(Units)] /\ \A s \in Subs : Len(spipe[s]) <= PipeCap
  /\ got \in [Subs -> Seq(Units)]
  /\ read \in 0 .. MaxUnits
  /\ since \in [Subs -> 0 .. MaxUnits]
  /\ keptUp \subseteq Subs

(* Whatever a subscriber misses because it was closed or slow, what it gets *)
(* comes in the order it was published, and nothing comes twice.           *)
InOrder ==
  \A s \in joined :
    LET q == got[s] \o spipe[s] IN \A i, j \in DOMAIN q : i < j => q[i] < q[j]

(* A subscriber that has taken what it was given, every time, has got all  *)
(* that was published since it joined, however the others fared.           *)
KeptUpGotAll ==
  \A s \in joined \ todo :
    s \in keptUp => got[s] = Numbers(since[s], read) /\ spipe[s] = <<>>

(* No task is read after it has been freed. *)
NoFreedTask == pc # "freed_task"

(* A tee(2) into a full pipe fails, and nothing but a successful tee(2)    *)
(* leads to a read from that pipe: a subscriber whose pipe has filled up,  *)
(* because it was closed or slow, gets nothing any more until the channel  *)
(* is closed, even when it is open again.                                  *)
CutOffWhenFull ==
  [][\A s \in joined \intersect joined' :
       Len(spipe[s]) = PipeCap => spipe'[s] = spipe[s] /\ got'[s] = got[s]]_vars
=============================================================================
