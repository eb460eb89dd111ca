----------------------------- MODULE HubProofs -----------------------------
(***************************************************************************)
(* Proofs about Hub for any pool of more than two blocks, wherever malloc  *)
(* puts it, any finite set of descriptors, any size of a batch and any     *)
(* number of mishaps.                                                      *)
(***************************************************************************)
EXTENDS Hub, FiniteSetTheorems, SequenceTheorems, TLAPS

Fields == {"fd", "owner", "listed", "task", "pend", "dangling", "free", "torn", "head", "pc",
           "stale", "mishaps", "misled", "unasked"}

(* The first bytes of a link, and of any block. *)
LinkBytes == {LowByte, 0, Newline}

Bytes == {LowByte, 0, Newline, LetterL, LetterC}

(* H is a state of the program. *)
Shape(H) == H = [f \in Fields |-> H[f]]

Typed(H) ==
  /\ H.fd \in [Links -> Fds \union {-1}]
  /\ H.owner \in [Fds -> Links \union {NULL}]
  /\ H.listed \subseteq Links /\ H.task \subseteq H.listed
  /\ H.pend \in [Links -> Seq(Blocks \union {Log})]
  /\ H.dangling \subseteq Links
  /\ H.free \in Seq(Blocks) /\ H.torn \in BOOLEAN
  /\ H.head \in [Blocks -> Bytes]
  /\ H.pc \in {"run", "crashed", "killed", "exit"}
  /\ H.stale \subseteq Links /\ H.mishaps \subseteq {"start", "busy", "freed"} /\ H.unasked \in BOOLEAN

(* A handle on the list and the descriptor it has name each other, and     *)
(* every open descriptor has such a handle.                                *)
Named(H) ==
  /\ \A s \in H.listed : H.fd[s] \in Fds /\ H.owner[H.fd[s]] = s
  /\ \A f \in Fds : H.owner[f] # NULL => H.owner[f] \in H.listed /\ H.fd[H.owner[f]] = f

(* Outside the callbacks of the links X, a handle that is not on the list  *)
(* says so, and one on the list has its task, but for the mishaps.         *)
Settled(H, X) ==
  H.pc = "run" =>
    \A s \in Links \ X : /\ s \in H.listed \/ s \in H.stale \/ H.fd[s] = -1
                         /\ s \in H.listed => s \in H.task \/ "start" \in H.mishaps

(* Requests are made on handles of the list, or of a failed accept.        *)
Waits(H) ==
  /\ H.dangling \intersect H.listed = {}
  /\ \A s \in Links : H.pend[s] # <<>> => s \in H.listed \/ s \in H.stale
  /\ \A s \in {"tcp1", "rfcm", "serl"} : H.pend[s] = <<>>
  /\ H.pend["tcp2"] \in Seq(Blocks) /\ Len(H.pend["tcp2"]) <= 2
  /\ H.pend["tcp3"] \in Seq({Log})

(* A free block is waiting for nobody and begins with a link, which the    *)
(* newline may have damaged; and no block is free or waits twice.          *)
Pool(H) ==
  /\ \A i, j \in DOMAIN H.free : H.free[i] = H.free[j] => i = j
  /\ \A b \in ToSet(H.free) : H.head[b] \in LinkBytes
  /\ \A i \in DOMAIN H.pend["tcp2"] : H.pend["tcp2"][i] \notin ToSet(H.free)
  /\ \A i, j \in DOMAIN H.pend["tcp2"] : H.pend["tcp2"][i] = H.pend["tcp2"][j] => i = j

Excused(H) ==
  /\ H.misled \subseteq H.stale /\ (H.unasked => H.torn)
  /\ H.pc = "crashed" => H.stale # {} \/ H.mishaps # {} \/ H.torn

Good(H, X) ==
  Shape(H) /\ Typed(H) /\ Named(H) /\ Settled(H, X) /\ Waits(H) /\ Pool(H) /\ Excused(H)

(* The events left of a batch: links without a task only after a mishap.   *)
BatchSound ==
  \A e \in batch :
    /\ e.at \in Links \union {"watcher"}
    /\ "new" \in e.ev => e.at \in Ports /\ e = Event(e.at, {"new"})
    /\ "new" \notin e.ev /\ e.at \in Links
         => e.at \in hub.task \/ hub.stale # {} \/ hub.mishaps # {}

IInv ==
  /\ Good(hub, {})
  /\ left \in 0 .. MaxEvent /\ (left = 0 => batch = {})
  /\ BatchSound

(* What no callback of the links X takes back. *)
Later(H, G, X) ==
  /\ H.stale \subseteq G.stale /\ H.mishaps \subseteq G.mishaps /\ (H.torn => G.torn)
  /\ H.task \ X \subseteq G.task

SameBlocks(H, G) == G.free = H.free /\ G.pend["tcp2"] = H.pend["tcp2"]
-----------------------------------------------------------------------------
(* Opening and closing. *)

LEMMA CrashGood ==
  ASSUME NEW H, NEW X, Good(H, X), H.stale # {} \/ H.mishaps # {} \/ H.torn
  PROVE  Good(Crashed(H), X)
<1>1. PICK G : G = Crashed(H)
  OBVIOUS
<1>2. /\ Shape(G) /\ G.fd = H.fd /\ G.owner = H.owner /\ G.listed = H.listed /\ G.task = H.task
      /\ G.pend = H.pend /\ G.dangling = H.dangling /\ G.free = H.free /\ G.head = H.head
      /\ G.pc = "crashed" /\ G.stale = H.stale /\ G.mishaps = H.mishaps /\ G.misled = H.misled
      /\ G.unasked = H.unasked /\ G.torn = H.torn
  BY <1>1 DEF Crashed, Good, Shape, Fields
<1>3. Good(G, X)
  BY <1>2 DEF Good, Typed, Named, Settled, Waits, Pool, Excused
<1>4. QED
  BY <1>1, <1>3

LEMMA CloseGood ==
  ASSUME NEW H, Good(H, {}), NEW s \in Links, s \in H.listed,
         NEW G, G = io_tcp_close(H, s)
  PROVE  /\ Good(G, {s}) /\ Later(H, G, {s}) /\ s \notin G.listed /\ G.pc = H.pc /\ G.fd = H.fd
         /\ G.free = H.free /\ \A r \in Links : r # s => G.pend[r] = H.pend[r]
         /\ G.pend[s] = <<>> /\ (H.pend[s] # <<>> => s \in G.dangling)
         /\ G.stale = H.stale
<1>1. /\ Shape(G) /\ G.fd = H.fd /\ G.owner = [H.owner EXCEPT ![H.fd[s]] = NULL]
      /\ G.listed = H.listed \ {s} /\ G.task = H.task \ {s}
      /\ G.pend = [H.pend EXCEPT ![s] = <<>>]
      /\ G.dangling = (IF H.pend[s] = <<>> THEN H.dangling ELSE H.dangling \union {s})
      /\ G.free = H.free /\ G.head = H.head /\ G.pc = H.pc
      /\ G.stale = H.stale /\ G.mishaps = H.mishaps /\ G.misled = H.misled
      /\ G.unasked = H.unasked /\ G.torn = H.torn
  BY DEF Good, io_tcp_close, Shape, Fields
<1>2. /\ G.pend \in [Links -> Seq(Blocks \union {Log})] /\ G.pend[s] = <<>>
      /\ \A r \in Links : r # s => G.pend[r] = H.pend[r]
  BY <1>1 DEF Good, Typed
<1>3. /\ G.owner \in [Fds -> Links \union {NULL}] /\ H.fd[s] \in Fds /\ G.owner[H.fd[s]] = NULL
      /\ \A f \in Fds : f # H.fd[s] => G.owner[f] = H.owner[f]
  BY <1>1 DEF Good, Typed, Named
<1>4. Typed(G)
  BY <1>1, <1>2, <1>3 DEF Good, Typed
<1>5. Named(G)
  BY <1>1, <1>3 DEF Good, Named
<1>6. Settled(G, {s})
  BY <1>1 DEF Good, Settled
<1>7. Waits(G)
  <2>1. /\ G.dangling \intersect G.listed = {}
        /\ \A r \in Links : G.pend[r] # <<>> => r \in G.listed \/ r \in G.stale
        /\ \A r \in {"tcp1", "rfcm", "serl"} : G.pend[r] = <<>>
    BY <1>1, <1>2 DEF Good, Waits, Links
  <2>2. <<>> \in Seq(Blocks) /\ <<>> \in Seq({Log}) /\ Len(<<>>) <= 2
    OBVIOUS
  <2>3. G.pend["tcp2"] \in Seq(Blocks) /\ Len(G.pend["tcp2"]) <= 2 /\ G.pend["tcp3"] \in Seq({Log})
    BY <1>2, <2>2 DEF Good, Waits, Links
  <2>4. QED
    BY <2>1, <2>3 DEF Waits
<1>8. Pool(G)
  <2>1. G.pend["tcp2"] = H.pend["tcp2"] \/ G.pend["tcp2"] = <<>>
    BY <1>2 DEF Links
  <2>2. CASE G.pend["tcp2"] = H.pend["tcp2"]
    BY <1>1, <2>2 DEF Good, Pool
  <2>3. CASE G.pend["tcp2"] = <<>>
    <3>1. DOMAIN G.pend["tcp2"] = {}
      BY <2>3
    <3>2. QED
      BY <1>1, <3>1 DEF Good, Pool
  <2>4. QED
    BY <2>1, <2>2, <2>3
<1>9. Excused(G)
  BY <1>1 DEF Good, Excused
<1>10. QED
  BY <1>1, <1>2, <1>4, <1>5, <1>6, <1>7, <1>8, <1>9 DEF Good, Later

LEMMA ForgottenGood ==
  ASSUME NEW H, NEW s \in Links, Good(H, {s}), s \notin H.listed,
         NEW G, G = Forgotten(H, s)
  PROVE  /\ Good(G, {}) /\ Later(H, G, {s}) /\ G.pc = H.pc /\ SameBlocks(H, G)
         /\ G.dangling = H.dangling /\ G.listed = H.listed /\ G.pend = H.pend
<1>1. /\ Shape(G) /\ G.fd = [H.fd EXCEPT ![s] = -1] /\ G.owner = H.owner
      /\ G.listed = H.listed /\ G.task = H.task /\ G.pend = H.pend /\ G.dangling = H.dangling
      /\ G.free = H.free /\ G.head = H.head /\ G.pc = H.pc /\ G.stale = H.stale
      /\ G.mishaps = H.mishaps /\ G.misled = H.misled /\ G.unasked = H.unasked /\ G.torn = H.torn
  BY DEF Forgotten, Good, Shape, Fields
<1>2. /\ G.fd \in [Links -> Fds \union {-1}] /\ G.fd[s] = -1
      /\ \A r \in Links : r # s => G.fd[r] = H.fd[r]
  BY <1>1 DEF Good, Typed
<1>3. Typed(G) /\ Waits(G) /\ Pool(G) /\ Excused(G)
  BY <1>1, <1>2 DEF Good, Typed, Waits, Pool, Excused
<1>4. Named(G) /\ Settled(G, {})
  BY <1>1, <1>2 DEF Good, Named, Settled, Typed
<1>5. QED
  BY <1>1, <1>3, <1>4 DEF Good, Later, SameBlocks

(* The callback of a link closes it and forgets its descriptor. *)
LEMMA EndGood ==
  ASSUME NEW H, Good(H, {}), NEW s \in Links, s \in H.listed,
         NEW G, G = Forgotten(io_tcp_close(H, s), s)
  PROVE  /\ Good(G, {}) /\ Later(H, G, {s}) /\ s \notin G.listed /\ G.pc = H.pc
         /\ G.free = H.free /\ \A r \in Links : r # s => G.pend[r] = H.pend[r]
         /\ G.pend[s] = <<>> /\ (H.pend[s] # <<>> => s \in G.dangling)
<1>1. PICK C : C = io_tcp_close(H, s)
  OBVIOUS
<1>2. /\ Good(C, {s}) /\ Later(H, C, {s}) /\ s \notin C.listed /\ C.pc = H.pc
      /\ C.free = H.free /\ \A r \in Links : r # s => C.pend[r] = H.pend[r]
      /\ C.pend[s] = <<>> /\ (H.pend[s] # <<>> => s \in C.dangling)
  BY <1>1, CloseGood
<1>3. G = Forgotten(C, s)
  BY <1>1
<1>4. /\ Good(G, {}) /\ Later(C, G, {s}) /\ G.pc = C.pc /\ SameBlocks(C, G)
      /\ G.dangling = C.dangling /\ G.listed = C.listed /\ G.pend = C.pend
  BY <1>2, <1>3, ForgottenGood
<1>5. QED
  BY <1>2, <1>4 DEF Later, SameBlocks

(* A handle that is not on the list gets a descriptor nobody has. *)
LEMMA OpenedGood ==
  ASSUME NEW H, NEW s \in Links, Good(H, {s}), s \notin H.listed, NEW G \in Opened(H, s)
  PROVE  /\ Good(G, {s}) /\ Later(H, G, {}) /\ s \in G.listed /\ G.pc = H.pc
         /\ SameBlocks(H, G) /\ G.pend = H.pend
<1>1. PICK f \in FreeFds(H) : G = [H EXCEPT !.fd[s] = f, !.owner[f] = s,
                                           !.listed = @ \union {s}, !.dangling = @ \ {s}]
  BY DEF Opened
<1>2. /\ Shape(G) /\ G.fd = [H.fd EXCEPT ![s] = f] /\ G.owner = [H.owner EXCEPT ![f] = s]
      /\ G.listed = H.listed \union {s} /\ G.task = H.task /\ G.pend = H.pend
      /\ G.dangling = H.dangling \ {s}
      /\ G.free = H.free /\ G.head = H.head /\ G.pc = H.pc /\ G.stale = H.stale
      /\ G.mishaps = H.mishaps /\ G.misled = H.misled /\ G.unasked = H.unasked /\ G.torn = H.torn
  BY <1>1 DEF Good, Shape, Fields
<1>3. f \in Fds /\ H.owner[f] = NULL /\ NULL \notin Links
  BY HubAssumption DEF FreeFds, Links
<1>4. /\ G.fd \in [Links -> Fds \union {-1}] /\ G.fd[s] = f
      /\ \A r \in Links : r # s => G.fd[r] = H.fd[r]
      /\ G.owner \in [Fds -> Links \union {NULL}] /\ G.owner[f] = s
      /\ \A g \in Fds : g # f => G.owner[g] = H.owner[g]
  BY <1>2, <1>3 DEF Good, Typed
<1>5. Typed(G) /\ Pool(G) /\ Excused(G)
  BY <1>2, <1>4 DEF Good, Typed, Pool, Excused
<1>6. Waits(G)
  BY <1>2, <1>4 DEF Good, Waits
<1>7. Named(G)
  <2>1. \A r \in H.listed : r # s /\ r \in Links /\ H.fd[r] \in Fds /\ H.owner[H.fd[r]] = r /\ H.fd[r] # f
    BY <1>3 DEF Good, Named, Typed
  <2>2. QED
    BY <1>2, <1>3, <1>4, <2>1 DEF Good, Named, Typed
<1>8. Settled(G, {s})
  BY <1>2, <1>4 DEF Good, Settled
<1>9. QED
  BY <1>2, <1>5, <1>6, <1>7, <1>8 DEF Good, Later, SameBlocks

(* accept(2) for a handle that is closed: it is open, or it is as it was   *)
(* and says so, or it says the wrong thing and that is remembered.         *)
LEMMA AcceptGood ==
  ASSUME NEW H, NEW s \in Links, Good(H, {s}), s \notin H.listed, NEW G \in io_tcp_accept(H, s)
  PROVE  /\ Good(G, {s}) /\ Later(H, G, {}) /\ G.pc = H.pc
         /\ SameBlocks(H, G) /\ G.pend = H.pend
         /\ s \in G.listed \/ s \in G.stale \/ (H.fd[s] = -1 /\ G = H)
<1>1. CASE G \in Opened(H, s)
  BY <1>1, OpenedGood
<1>2. CASE H.fd[s] = -1 /\ G = H
  BY <1>2 DEF Later, SameBlocks
<1>3. CASE G = [H EXCEPT !.stale = @ \union {s}]
  <2>1. /\ Shape(G) /\ G.fd = H.fd /\ G.owner = H.owner /\ G.listed = H.listed
        /\ G.task = H.task /\ G.pend = H.pend /\ G.dangling = H.dangling
        /\ G.free = H.free /\ G.head = H.head /\ G.pc = H.pc
        /\ G.stale = H.stale \union {s}
        /\ G.mishaps = H.mishaps /\ G.misled = H.misled /\ G.unasked = H.unasked /\ G.torn = H.torn
    BY <1>3 DEF Good, Shape, Fields
  <2>2. Good(G, {s})
    BY <2>1 DEF Good, Typed, Named, Settled, Waits, Pool, Excused
  <2>3. QED
    BY <2>1, <2>2 DEF Later, SameBlocks
<1>4. QED
  BY <1>1, <1>2, <1>3 DEF io_tcp_accept

(* The start of a task of an open handle. *)
LEMMA StartedGood ==
  ASSUME NEW H, NEW s \in Links, Good(H, {s}), s \in H.listed, NEW G \in Started(H, s)
  PROVE  /\ Good(G, {}) /\ Later(H, G, {}) /\ G.pc = H.pc
         /\ SameBlocks(H, G) /\ G.pend = H.pend
         /\ s \in G.task \/ G.mishaps # {}
<1>1. CASE G = [H EXCEPT !.task = @ \union {s}]
  <2>1. /\ Shape(G) /\ G.fd = H.fd /\ G.owner = H.owner /\ G.listed = H.listed
        /\ G.task = H.task \union {s} /\ G.pend = H.pend /\ G.dangling = H.dangling
        /\ G.free = H.free /\ G.head = H.head /\ G.pc = H.pc /\ G.stale = H.stale
        /\ G.mishaps = H.mishaps /\ G.misled = H.misled /\ G.unasked = H.unasked /\ G.torn = H.torn
    BY <1>1 DEF Good, Shape, Fields
  <2>2. Good(G, {})
    BY <2>1 DEF Good, Typed, Named, Settled, Waits, Pool, Excused
  <2>3. QED
    BY <2>1, <2>2 DEF Later, SameBlocks
<1>2. CASE G = [H EXCEPT !.mishaps = @ \union {"start"}]
  <2>1. /\ Shape(G) /\ G.fd = H.fd /\ G.owner = H.owner /\ G.listed = H.listed
        /\ G.task = H.task /\ G.pend = H.pend /\ G.dangling = H.dangling
        /\ G.free = H.free /\ G.head = H.head /\ G.pc = H.pc /\ G.stale = H.stale
        /\ G.mishaps = H.mishaps \union {"start"} /\ G.misled = H.misled
        /\ G.unasked = H.unasked /\ G.torn = H.torn
    BY <1>2 DEF Good, Shape, Fields
  <2>2. Good(G, {})
    BY <2>1 DEF Good, Typed, Named, Settled, Waits, Pool, Excused
  <2>3. QED
    BY <2>1, <2>2 DEF Later, SameBlocks
<1>3. QED
  BY <1>1, <1>2 DEF Started

LEMMA SettledGood ==
  ASSUME NEW H, NEW s \in Links, Good(H, {s}), s \notin H.listed,
         s \in H.stale \/ H.fd[s] = -1
  PROVE  Good(H, {})
<1>1. Settled(H, {})
  BY DEF Good, Settled
<1>2. QED
  BY <1>1 DEF Good

LEMMA ButFor ==
  ASSUME NEW H, Good(H, {}), NEW X
  PROVE  Good(H, X)
BY DEF Good, Settled

(* A handle that says it is closed is not on the list, and one that is not *)
(* on the list but says it is open had an accept that failed.              *)
LEMMA FdSays ==
  ASSUME NEW H, Good(H, {}), NEW s \in Links
  PROVE  /\ H.fd[s] = -1 => s \notin H.listed
         /\ s \notin H.listed /\ H.fd[s] # -1 /\ H.pc = "run" => s \in H.stale
         /\ s \in H.listed => H.fd[s] # -1 /\ H.owner[H.fd[s]] = s
<1>1. \A f \in Fds : f \in Nat /\ f # -1
  BY HubAssumption
<1>2. QED
  BY <1>1 DEF Good, Named, Settled
-----------------------------------------------------------------------------
(* The listeners and the watch of /dev. *)

(* A port puts its new connection in the place of the old one. *)
LEMMA ConnGood ==
  ASSUME NEW H, Good(H, {}), H.pc = "run", NEW s \in Ports, NEW G \in new_conn(H, s)
  PROVE  /\ Good(G, {}) /\ Later(H, G, {s})
         /\ s \in H.task => s \in G.task \/ G.stale # {} \/ G.mishaps # {}
         /\ G.free = H.free /\ \A r \in Links : r # s => G.pend[r] = H.pend[r]
         /\ G.pend[s] \in {H.pend[s], <<>>}
<1>1. s \in Links
  BY DEF Ports
<1>2. PICK C : C = IF H.fd[s] = -1 THEN H ELSE io_tcp_close(H, s)
  OBVIOUS
<1>3. \/ C.pc # "run" /\ G = C
      \/ \E A \in io_tcp_accept(C, s) : IF s \notin A.listed THEN G = A ELSE G \in Started(A, s)
  BY <1>2 DEF new_conn, io_rfcomm_close, io_rfcomm_accept, io_splice_start, io_read_start
<1>4. CASE H.fd[s] # -1 /\ s \notin H.listed
  <2>1. C = Crashed(H) /\ s \in H.stale
    BY <1>1, <1>2, <1>4, FdSays DEF io_tcp_close
  <2>2. Good(C, {}) /\ C.pc = "crashed" /\ C.task = H.task /\ C.free = H.free /\ C.pend = H.pend
        /\ C.stale = H.stale /\ C.mishaps = H.mishaps /\ C.torn = H.torn
    <3>1. Good(C, {})
      BY <2>1, CrashGood
    <3>2. QED
      BY <2>1, <3>1 DEF Crashed, Good, Shape, Fields
  <2>3. G = C
    BY <1>2, <2>2 DEF new_conn, io_rfcomm_close
  <2>4. QED
    BY <2>2, <2>3 DEF Later
<1>5. CASE H.fd[s] = -1 \/ s \in H.listed
  <2>1. /\ Good(C, {s}) /\ Later(H, C, {s}) /\ s \notin C.listed /\ C.pc = "run" /\ C.fd = H.fd
        /\ C.free = H.free /\ \A r \in Links : r # s => C.pend[r] = H.pend[r]
        /\ C.pend[s] \in {H.pend[s], <<>>}
        /\ ((C = H /\ C.fd[s] = -1) \/ C.fd[s] # -1)
    <3>1. CASE H.fd[s] = -1
      BY <1>1, <1>2, <3>1, FdSays, ButFor DEF Later
    <3>2. CASE H.fd[s] # -1 /\ s \in H.listed
      <4>1. C = io_tcp_close(H, s)
        BY <1>2, <3>2
      <4>2. QED
        BY <1>1, <4>1, <3>2, CloseGood
    <3>3. QED
      BY <1>5, <3>1, <3>2
  <2>2. PICK A \in io_tcp_accept(C, s) : IF s \notin A.listed THEN G = A ELSE G \in Started(A, s)
    BY <1>3, <2>1
  <2>3. /\ Good(A, {s}) /\ Later(C, A, {}) /\ A.pc = C.pc
        /\ SameBlocks(C, A) /\ A.pend = C.pend
        /\ s \in A.listed \/ s \in A.stale \/ (C.fd[s] = -1 /\ A = C)
    BY <1>1, <2>1, <2>2, AcceptGood
  <2>4. /\ Good(G, {}) /\ Later(A, G, {}) /\ SameBlocks(A, G) /\ G.pend = A.pend
        /\ s \in G.task \/ G.mishaps # {} \/ G.stale # {} \/ (s \notin H.listed)
    <3>1. CASE s \in A.listed
      BY <1>1, <2>2, <2>3, <3>1, StartedGood
    <3>2. CASE s \notin A.listed
      <4>1. G = A /\ (s \in A.stale \/ (A.fd[s] = -1 /\ C.fd[s] = -1))
        BY <2>2, <2>3, <3>2
      <4>2. Good(G, {})
        BY <1>1, <2>3, <3>2, <4>1, SettledGood
      <4>3. s \in G.stale \/ s \notin H.listed
        BY <1>1, <2>1, <4>1, FdSays
      <4>4. QED
        BY <4>1, <4>2, <4>3 DEF Later, SameBlocks
    <3>3. QED
      BY <3>1, <3>2
  <2>5. s \in H.task => s \in H.listed
    BY DEF Good, Typed
  <2>6. QED
    BY <2>1, <2>3, <2>4, <2>5 DEF Later, SameBlocks
<1>6. QED
  BY <1>4, <1>5

(* Another name is tried for the serial line. *)
LEMMA SerialGood ==
  ASSUME NEW H, Good(H, {"serl"}), "serl" \notin H.listed, H.fd["serl"] = -1,
         NEW G \in io_serial(H)
  PROVE  /\ Good(G, {"serl"}) /\ Later(H, G, {}) /\ G.pc = H.pc
         /\ SameBlocks(H, G) /\ G.pend = H.pend
         /\ "serl" \in G.listed \/ G = H
<1>1. CASE G = H
  BY <1>1 DEF Later, SameBlocks
<1>2. CASE G \in Opened(H, "serl")
  <2>1. "serl" \in Links
    BY DEF Links
  <2>2. QED
    BY <1>2, <2>1, OpenedGood
<1>3. QED
  BY <1>1, <1>2 DEF io_serial

LEMMA ChangeGood ==
  ASSUME NEW H, Good(H, {}), H.pc = "run", NEW G \in file_changed(H)
  PROVE  /\ Good(G, {}) /\ Later(H, G, {}) /\ SameBlocks(H, G) /\ G.pend = H.pend
         /\ G.pc = "run" \/ "serl" \in G.listed
<1>1. CASE H.fd["serl"] # -1
  BY <1>1 DEF file_changed, Later, SameBlocks
<1>2. CASE H.fd["serl"] = -1
  <2>1. "serl" \in Links /\ "serl" \notin H.listed /\ Good(H, {"serl"})
    <3>1. "serl" \in Links
      BY DEF Links
    <3>2. QED
      BY <1>2, <3>1, FdSays, ButFor
  <2>2. PICK A \in io_serial(H) : \/ "serl" \notin A.listed /\ G = A
                                  \/ "serl" \in A.listed /\ G = [A EXCEPT !.task = @ \union {"serl"}]
                                  \/ "serl" \in A.listed /\ G = [A EXCEPT !.pc = "exit"]
    BY <1>2 DEF file_changed
  <2>3. /\ Good(A, {"serl"}) /\ Later(H, A, {}) /\ A.pc = H.pc
        /\ SameBlocks(H, A) /\ A.pend = H.pend
        /\ "serl" \in A.listed \/ A = H
    BY <1>2, <2>1, SerialGood
  <2>4. CASE "serl" \notin A.listed /\ G = A
    BY <2>3, <2>4
  <2>5. CASE "serl" \in A.listed /\ G = [A EXCEPT !.task = @ \union {"serl"}]
    <3>1. G \in Started(A, "serl")
      BY <2>5 DEF Started
    <3>2. /\ Good(G, {}) /\ Later(A, G, {}) /\ G.pc = A.pc /\ SameBlocks(A, G) /\ G.pend = A.pend
      BY <2>1, <2>3, <2>5, <3>1, StartedGood
    <3>3. QED
      BY <2>3, <3>2 DEF Later, SameBlocks
  <2>6. CASE "serl" \in A.listed /\ G = [A EXCEPT !.pc = "exit"]
    <3>1. /\ Shape(G) /\ G.fd = A.fd /\ G.owner = A.owner /\ G.listed = A.listed
          /\ G.task = A.task /\ G.pend = A.pend /\ G.dangling = A.dangling
          /\ G.free = A.free /\ G.head = A.head /\ G.pc = "exit"
          /\ G.stale = A.stale /\ G.mishaps = A.mishaps /\ G.misled = A.misled
          /\ G.unasked = A.unasked /\ G.torn = A.torn
      BY <2>3, <2>6 DEF Good, Shape, Fields
    <3>2. Good(G, {})
      BY <2>3, <3>1 DEF Good, Typed, Named, Settled, Waits, Pool, Excused
    <3>3. QED
      BY <2>3, <2>6, <3>1, <3>2 DEF Later, SameBlocks
  <2>7. QED
    BY <2>2, <2>4, <2>5, <2>6
<1>3. QED
  BY <1>1, <1>2

(* A second change finds the line open, or the program gone. *)
LEMMA WatchGood ==
  ASSUME NEW H, Good(H, {}), H.pc = "run", NEW G \in watch_progress(H)
  PROVE  Good(G, {}) /\ Later(H, G, {}) /\ SameBlocks(H, G) /\ G.pend = H.pend
<1>1. CASE G = H
  BY <1>1 DEF Later, SameBlocks
<1>2. CASE \E A \in file_changed(H) : G \in file_changed(A)
  <2>1. PICK A \in file_changed(H) : G \in file_changed(A)
    BY <1>2
  <2>2. /\ Good(A, {}) /\ Later(H, A, {}) /\ SameBlocks(H, A) /\ A.pend = H.pend
        /\ A.pc = "run" \/ "serl" \in A.listed
    BY ChangeGood
  <2>3. CASE A.pc = "run"
    <3>1. Good(G, {}) /\ Later(A, G, {}) /\ SameBlocks(A, G) /\ G.pend = A.pend
      BY <2>1, <2>2, <2>3, ChangeGood
    <3>2. QED
      BY <2>2, <3>1 DEF Later, SameBlocks
  <2>4. CASE "serl" \in A.listed
    <3>1. "serl" \in Links
      BY DEF Links
    <3>2. A.fd["serl"] # -1
      BY <2>2, <2>4, <3>1, FdSays
    <3>3. G = A
      BY <2>1, <3>2 DEF file_changed
    <3>4. QED
      BY <2>2, <3>3
  <2>5. QED
    BY <2>2, <2>3, <2>4
<1>3. QED
  BY <1>1, <1>2 DEF watch_progress
-----------------------------------------------------------------------------
(* Requests and blocks. *)

(* A block in use that waits for nobody yet. *)
Out(H, b) ==
  /\ b \in Blocks /\ b \notin ToSet(H.free)
  /\ \A i \in DOMAIN H.pend["tcp2"] : H.pend["tcp2"][i] # b

LEMMA InBlocks ==
  ASSUME NEW q \in Seq(Blocks)
  PROVE  ToSet(q) \subseteq Blocks
BY DEF ToSet

(* A block is put before the free list. *)
LEMMA Pushed ==
  ASSUME NEW q \in Seq(Blocks), NEW b \in Blocks, b \notin ToSet(q),
         \A i, j \in DOMAIN q : q[i] = q[j] => i = j, NEW r, r = <<b>> \o q
  PROVE  /\ r \in Seq(Blocks) /\ ToSet(r) = ToSet(q) \union {b}
         /\ \A i, j \in DOMAIN r : r[i] = r[j] => i = j
<1>1. /\ r \in Seq(Blocks) /\ Len(q) \in Nat /\ DOMAIN q = 1 .. Len(q) /\ DOMAIN r = 1 .. Len(q) + 1
      /\ r[1] = b /\ \A i \in 1 .. Len(q) : r[i + 1] = q[i]
  OBVIOUS
<1>2. \A i \in DOMAIN r : (i = 1 /\ r[i] = b) \/ (i # 1 /\ i - 1 \in DOMAIN q /\ r[i] = q[i - 1])
  BY <1>1
<1>3. ToSet(r) = ToSet(q) \union {b}
  <2>1. \A i \in DOMAIN q : i + 1 \in DOMAIN r /\ r[i + 1] = q[i]
    BY <1>1
  <2>2. ToSet(q) \union {b} \subseteq ToSet(r)
    <3>1. 1 \in DOMAIN r /\ r[1] = b
      BY <1>1
    <3>2. b \in ToSet(r)
      BY <3>1 DEF ToSet
    <3>3. ASSUME NEW c \in ToSet(q)
          PROVE  c \in ToSet(r)
      <4>1. PICK i \in DOMAIN q : c = q[i]
        BY <3>3 DEF ToSet
      <4>2. i + 1 \in DOMAIN r /\ c = r[i + 1]
        BY <2>1, <4>1
      <4>3. \A j \in DOMAIN r : r[j] \in ToSet(r)
        BY DEF ToSet
      <4>4. QED
        BY <4>2, <4>3
    <3>4. QED
      BY <3>2, <3>3
  <2>3. ToSet(r) \subseteq ToSet(q) \union {b}
    BY <1>2 DEF ToSet
  <2>4. QED
    BY <2>2, <2>3
<1>4. \A i \in DOMAIN q : q[i] # b
  BY DEF ToSet
<1>5. ASSUME NEW i \in DOMAIN r, NEW j \in DOMAIN r, r[i] = r[j]
      PROVE  i = j
  <2>1. i \in Nat /\ j \in Nat
    BY <1>1
  <2>2. (i = 1 /\ j = 1) \/ (i # 1 /\ j # 1 /\ i - 1 \in DOMAIN q /\ j - 1 \in DOMAIN q /\ q[i - 1] = q[j - 1])
    BY <1>2, <1>4, <1>5
  <2>3. QED
    BY <2>1, <2>2
<1>6. QED
  BY <1>1, <1>3, <1>5

(* The first block of the free list is taken. *)
LEMMA Popped ==
  ASSUME NEW q \in Seq(Blocks), q # <<>>, \A i, j \in DOMAIN q : q[i] = q[j] => i = j,
         NEW r, r = Tail(q)
  PROVE  /\ r \in Seq(Blocks) /\ \A i, j \in DOMAIN r : r[i] = r[j] => i = j
         /\ Head(q) \in Blocks /\ Head(q) \in ToSet(q) /\ Head(q) = q[1]
         /\ Head(q) \notin ToSet(r) /\ ToSet(r) = ToSet(q) \ {Head(q)}
         /\ \A i \in DOMAIN r : i \in Nat /\ i > 0 /\ i + 1 \in DOMAIN q /\ r[i] = q[i + 1]
<1>1. /\ r \in Seq(Blocks) /\ Len(q) \in Nat /\ Len(q) > 0 /\ DOMAIN q = 1 .. Len(q)
      /\ DOMAIN r = 1 .. Len(q) - 1 /\ Head(q) = q[1] /\ \A i \in 1 .. Len(q) - 1 : r[i] = q[i + 1]
  OBVIOUS
<1>2. /\ 1 \in DOMAIN q /\ Head(q) \in Blocks
      /\ \A i \in DOMAIN r : i \in Nat /\ i > 0 /\ i + 1 \in DOMAIN q /\ i + 1 # 1 /\ r[i] = q[i + 1]
  BY <1>1
<1>3. \A i \in DOMAIN q : i = 1 \/ (i - 1 \in DOMAIN r /\ r[i - 1] = q[i])
  BY <1>1
<1>4. \A i \in DOMAIN r : r[i] # Head(q)
  BY <1>1, <1>2
<1>5. \A i, j \in DOMAIN r : i + 1 = j + 1 => i = j
  BY <1>1
<1>6. \A i, j \in DOMAIN r : r[i] = r[j] => i = j
  BY <1>2, <1>5
<1>7. ToSet(r) = ToSet(q) \ {Head(q)}
  <2>1. ToSet(r) \subseteq ToSet(q) \ {Head(q)}
    BY <1>2, <1>4 DEF ToSet
  <2>2. ToSet(q) \ {Head(q)} \subseteq ToSet(r)
    BY <1>1, <1>3 DEF ToSet
  <2>3. QED
    BY <2>1, <2>2
<1>8. QED
  BY <1>1, <1>2, <1>6, <1>7 DEF ToSet

(* A link of the free list is damaged, and the blocks behind it are gone.  *)
LEMMA Cut ==
  ASSUME NEW q \in Seq(Blocks), \A i, j \in DOMAIN q : q[i] = q[j] => i = j,
         NEW c, NEW r, r = CutAfter(q, c)
  PROVE  /\ r \in Seq(Blocks) /\ \A i, j \in DOMAIN r : r[i] = r[j] => i = j
         /\ ToSet(r) \subseteq ToSet(q) /\ (c \notin ToSet(q) => r = q)
         /\ \A j \in DOMAIN q : q[j] \in ToSet(r) \/ \E i \in 1 .. j - 1 : q[i] = c
<1>1. Len(q) \in Nat /\ DOMAIN q = 1 .. Len(q)
  OBVIOUS
<1>2. CASE c \notin ToSet(q)
  <2>1. r = q
    BY <1>2 DEF CutAfter
  <2>2. \A j \in DOMAIN q : q[j] \in ToSet(q)
    BY DEF ToSet
  <2>3. QED
    BY <2>1, <2>2
<1>3. CASE c \in ToSet(q)
  <2>1. PICK k \in DOMAIN q : q[k] = c /\ r = SubSeq(q, 1, k)
    <3>1. PICK k : k = CHOOSE i \in DOMAIN q : q[i] = c
      OBVIOUS
    <3>2. \E i \in DOMAIN q : q[i] = c
      BY <1>3 DEF ToSet
    <3>3. k \in DOMAIN q /\ q[k] = c
      BY <3>1, <3>2
    <3>4. r = SubSeq(q, 1, k)
      BY <1>3, <3>1 DEF CutAfter
    <3>5. QED
      BY <3>3, <3>4
  <2>2. k \in Nat /\ 1 <= k /\ k <= Len(q)
    BY <1>1, <2>1
  <2>3. /\ r \in Seq(Blocks) /\ Len(r) = k /\ DOMAIN r = 1 .. k
        /\ \A i \in 1 .. k : r[i] = q[i]
    BY <2>1, <2>2
  <2>4. \A i \in DOMAIN r : i \in DOMAIN q /\ r[i] = q[i]
    BY <1>1, <2>2, <2>3
  <2>5. \A i, j \in DOMAIN r : r[i] = r[j] => i = j
    BY <2>4
  <2>6. ToSet(r) \subseteq ToSet(q)
    BY <2>4 DEF ToSet
  <2>7. ASSUME NEW j \in DOMAIN q
        PROVE  q[j] \in ToSet(r) \/ \E i \in 1 .. j - 1 : q[i] = c
    <3>1. CASE j <= k
      <4>1. j \in DOMAIN r /\ r[j] = q[j]
        BY <1>1, <2>3, <3>1
      <4>2. QED
        BY <4>1 DEF ToSet
    <3>2. CASE ~(j <= k)
      <4>1. k \in 1 .. j - 1
        BY <1>1, <2>2, <3>2
      <4>2. QED
        BY <2>1, <4>1
    <3>3. QED
      BY <3>1, <3>2
  <2>8. QED
    BY <1>3, <2>3, <2>5, <2>6, <2>7
<1>4. QED
  BY <1>2, <1>3

LEMMA KilledGood ==
  ASSUME NEW H, Good(H, {}), NEW G \in BrokenPipe(H)
  PROVE  Good(G, {}) /\ Later(H, G, {}) /\ G.pc = "killed" /\ SameBlocks(H, G) /\ G.pend = H.pend
         /\ G.listed = H.listed
<1>1. /\ Shape(G) /\ G.fd = H.fd /\ G.owner = H.owner /\ G.listed = H.listed
      /\ G.task = H.task /\ G.pend = H.pend /\ G.dangling = H.dangling
      /\ G.free = H.free /\ G.head = H.head /\ G.pc = "killed"
      /\ G.stale = H.stale /\ G.mishaps = H.mishaps /\ G.misled = H.misled
      /\ G.unasked = H.unasked /\ G.torn = H.torn
  BY DEF BrokenPipe, Good, Shape, Fields
<1>2. Good(G, {})
  BY <1>1 DEF Good, Typed, Named, Settled, Waits, Pool, Excused
<1>3. QED
  BY <1>1, <1>2 DEF Later, SameBlocks

(* Bytes for a link whose handle says it is open go elsewhere only after   *)
(* an accept failed.                                                       *)
LEMMA MisledGood ==
  ASSUME NEW H, Good(H, {}), H.pc = "run", NEW s \in Links, H.fd[s] # -1,
         NEW G, G = Misled(H, s)
  PROVE  /\ Good(G, {}) /\ Later(H, G, {}) /\ SameBlocks(H, G)
         /\ G.fd = H.fd /\ G.owner = H.owner /\ G.listed = H.listed /\ G.pend = H.pend
         /\ G.pc = H.pc /\ G.stale = H.stale
<1>1. /\ Shape(G) /\ G.fd = H.fd /\ G.owner = H.owner /\ G.listed = H.listed
      /\ G.task = H.task /\ G.pend = H.pend /\ G.dangling = H.dangling
      /\ G.free = H.free /\ G.head = H.head /\ G.pc = H.pc
      /\ G.stale = H.stale /\ G.mishaps = H.mishaps /\ G.unasked = H.unasked /\ G.torn = H.torn
      /\ G.misled = H.misled \/ (G.misled = H.misled \union {s} /\ H.owner[H.fd[s]] # s)
  BY DEF Misled, Good, Shape, Fields
<1>2. G.misled \subseteq H.stale
  BY <1>1, FdSays DEF Good, Excused
<1>3. Good(G, {})
  BY <1>1, <1>2 DEF Good, Typed, Named, Settled, Waits, Pool, Excused
<1>4. QED
  BY <1>1, <1>3 DEF Later, SameBlocks

LEMMA FreeGood ==
  ASSUME NEW H, Good(H, {}), NEW b, Out(H, b), NEW G, G = storage_free(H, b)
  PROVE  /\ Good(G, {}) /\ Later(H, G, {}) /\ ToSet(G.free) = ToSet(H.free) \union {b} /\ G.pend = H.pend
         /\ G.fd = H.fd /\ G.listed = H.listed /\ G.pc = H.pc /\ G.stale = H.stale
<1>1. /\ Shape(G) /\ G.fd = H.fd /\ G.owner = H.owner /\ G.listed = H.listed
      /\ G.task = H.task /\ G.pend = H.pend /\ G.dangling = H.dangling
      /\ G.free = <<b>> \o H.free /\ G.head = [H.head EXCEPT ![b] = FirstByte(H)] /\ G.pc = H.pc
      /\ G.stale = H.stale /\ G.mishaps = H.mishaps /\ G.misled = H.misled
      /\ G.unasked = H.unasked /\ G.torn = H.torn
  BY DEF storage_free, Good, Shape, Fields
<1>2. FirstByte(H) \in LinkBytes /\ LinkBytes \subseteq Bytes
  BY DEF FirstByte, LinkBytes, Bytes
<1>3. /\ G.head \in [Blocks -> Bytes] /\ G.head[b] \in LinkBytes
      /\ \A c \in Blocks : c # b => G.head[c] = H.head[c]
  BY <1>1, <1>2 DEF Good, Typed, Out
<1>4. /\ G.free \in Seq(Blocks) /\ ToSet(G.free) = ToSet(H.free) \union {b}
      /\ \A i, j \in DOMAIN G.free : G.free[i] = G.free[j] => i = j
      /\ ToSet(H.free) \subseteq Blocks
  <2>1. /\ H.free \in Seq(Blocks) /\ b \in Blocks /\ b \notin ToSet(H.free)
        /\ \A i, j \in DOMAIN H.free : H.free[i] = H.free[j] => i = j
    BY DEF Good, Typed, Pool, Out
  <2>2. G.free = <<b>> \o H.free
    BY <1>1
  <2>3. QED
    BY <2>1, <2>2, Pushed, InBlocks
<1>5. Pool(G)
  BY <1>1, <1>3, <1>4 DEF Good, Pool, Out
<1>6. Good(G, {})
  BY <1>1, <1>3, <1>4, <1>5 DEF Good, Typed, Named, Settled, Waits, Excused
<1>7. QED
  BY <1>1, <1>4, <1>6 DEF Later

(* Blocks that may wait for tcp2. *)
MayWait(H, q) ==
  /\ q \in Seq(Blocks) /\ Len(q) <= 2
  /\ q # <<>> => "tcp2" \in H.listed \/ "tcp2" \in H.stale
  /\ \A i \in DOMAIN q : q[i] \notin ToSet(H.free)
  /\ \A i, j \in DOMAIN q : q[i] = q[j] => i = j

WithRequests(H, q) == [H EXCEPT !.pend["tcp2"] = q]

LEMMA PendGood ==
  ASSUME NEW H, Good(H, {}), NEW q, MayWait(H, q), NEW G, G = WithRequests(H, q)
  PROVE  /\ Good(G, {}) /\ Later(H, G, {}) /\ G.free = H.free /\ G.pend["tcp2"] = q
         /\ G.listed = H.listed /\ G.pc = H.pc /\ G.fd = H.fd /\ G.stale = H.stale
<1>1. /\ Shape(G) /\ G.fd = H.fd /\ G.owner = H.owner /\ G.listed = H.listed
      /\ G.task = H.task /\ G.pend = [H.pend EXCEPT !["tcp2"] = q] /\ G.dangling = H.dangling
      /\ G.free = H.free /\ G.head = H.head /\ G.pc = H.pc
      /\ G.stale = H.stale /\ G.mishaps = H.mishaps /\ G.misled = H.misled
      /\ G.unasked = H.unasked /\ G.torn = H.torn
  BY DEF WithRequests, Good, Shape, Fields
<1>2. q \in Seq(Blocks \union {Log})
  <2>1. \A i \in 1 .. Len(q) : q[i] \in Blocks
    BY ElementOfSeq DEF MayWait
  <2>2. QED
    BY <2>1, SeqDef DEF MayWait
<1>3. /\ G.pend \in [Links -> Seq(Blocks \union {Log})] /\ G.pend["tcp2"] = q
      /\ \A r \in Links : r # "tcp2" => G.pend[r] = H.pend[r]
  BY <1>1, <1>2 DEF Good, Typed, Links
<1>4. Waits(G)
  BY <1>1, <1>3 DEF Good, Waits, MayWait, Links
<1>5. Typed(G) /\ Named(G) /\ Settled(G, {}) /\ Excused(G)
  BY <1>1, <1>3 DEF Good, Typed, Named, Settled, Excused
<1>6. Pool(G)
  BY <1>1, <1>3, SMTT(60) DEF Good, Pool, MayWait
<1>7. QED
  BY <1>1, <1>3, <1>4, <1>5, <1>6 DEF Good, Later

LEMMA LostAre ==
  ASSUME NEW H, NEW b
  PROVE  b \in Lost(H) <=> /\ b \in Blocks /\ b \notin ToSet(H.free)
                            /\ \A i \in DOMAIN H.pend["tcp2"] : H.pend["tcp2"][i] # b
<1>1. b \in ToSet(H.pend["tcp2"]) <=> \E i \in DOMAIN H.pend["tcp2"] : H.pend["tcp2"][i] = b
  BY DEF ToSet
<1>2. QED
  BY <1>1 DEF Lost, BlocksIn

LEMMA SameLost ==
  ASSUME NEW H, NEW G, G.free = H.free, G.pend["tcp2"] = H.pend["tcp2"]
  PROVE  Lost(G) = Lost(H)
BY DEF Lost

(* What becomes of a block b that was read into: it is free again, or it   *)
(* waits for tcp2, whose second request may have to make way, or it is     *)
(* lost because tcp2.fd is the number of a closed file.                    *)
Put(H, G, b) ==
  Lost(G) \subseteq (Lost(H) \ {b})
                   \union {H.pend["tcp2"][i] : i \in DOMAIN H.pend["tcp2"] \ {1}}
                   \union (IF "tcp2" \in H.stale THEN {b} ELSE {})

LEMMA FreedPut ==
  ASSUME NEW H, NEW G, NEW b, ToSet(G.free) = ToSet(H.free) \union {b},
         G.pend["tcp2"] = H.pend["tcp2"]
  PROVE  Put(H, G, b)
BY DEF Put, Lost

LEMMA ReqGood ==
  ASSUME NEW H, Good(H, {}), H.pc = "run", H.fd["tcp2"] # -1, NEW b, Out(H, b),
         NEW G, G = io__handle_req(H, "tcp2", b)
  PROVE  /\ Good(G, {}) /\ Later(H, G, {}) /\ G.free = H.free /\ G.listed = H.listed
         /\ G.pc = "run" => Put(H, G, b)
<1>1. "tcp2" \in Links
  BY DEF Links
<1>2. CASE "tcp2" \in H.dangling
  <2>1. G = Crashed(H) /\ "tcp2" \in H.stale
    BY <1>1, <1>2, FdSays DEF io__handle_req, Good, Waits
  <2>2. Good(G, {})
    BY <2>1, CrashGood
  <2>3. G.pc = "crashed" /\ G.task = H.task /\ G.free = H.free
        /\ G.stale = H.stale /\ G.mishaps = H.mishaps /\ G.listed = H.listed /\ G.torn = H.torn
    BY <2>1 DEF Crashed, Good, Shape, Fields
  <2>4. QED
    BY <2>2, <2>3 DEF Later
<1>3. CASE "tcp2" \notin H.dangling /\ H.pend["tcp2"] # <<>>
  <2>1. PICK p : p = H.pend["tcp2"]
    OBVIOUS
  <2>2. /\ p \in Seq(Blocks) /\ p # <<>> /\ b \in Blocks /\ b \notin ToSet(H.free)
        /\ \A i \in DOMAIN p : p[i] # b /\ p[i] \notin ToSet(H.free)
    BY <1>3, <2>1 DEF Good, Waits, Pool, Out
  <2>3. Head(p) = p[1] /\ 1 \in DOMAIN p /\ Head(p) \in Blocks
    BY <2>2
  <2>4. PICK q : q = <<Head(p), b>>
    OBVIOUS
  <2>5. q \in Seq(Blocks) /\ Len(q) = 2 /\ q[1] = Head(p) /\ q[2] = b /\ DOMAIN q = 1 .. 2
    BY <2>2, <2>3, <2>4
  <2>6. \A i \in DOMAIN q : i = 1 \/ i = 2
    BY <2>5
  <2>7. /\ \A i \in DOMAIN q : q[i] \notin ToSet(H.free)
        /\ \A i, j \in DOMAIN q : q[i] = q[j] => i = j
    BY <2>2, <2>3, <2>5, <2>6
  <2>8. G = WithRequests(H, q)
    BY <1>3, <2>1, <2>4 DEF WithRequests, io__handle_req, Good, Shape, Fields
  <2>9. q # <<>> => "tcp2" \in H.listed \/ "tcp2" \in H.stale
    BY <1>1, <1>3 DEF Good, Waits
  <2>10. MayWait(H, q)
    BY <2>5, <2>7, <2>9 DEF MayWait
  <2>11. Good(G, {}) /\ Later(H, G, {}) /\ G.free = H.free /\ G.pend["tcp2"] = q /\ G.listed = H.listed
    BY <2>8, <2>10, PendGood
  <2>12. ASSUME NEW c \in Lost(G)
         PROVE  c \in (Lost(H) \ {b}) \union {p[i] : i \in DOMAIN p \ {1}}
    <3>1. c \in Blocks /\ c \notin ToSet(H.free) /\ \A i \in DOMAIN q : q[i] # c
      BY <2>11, <2>12, LostAre
    <3>2. c # p[1] /\ c # b
      <4>1. 1 \in DOMAIN q /\ 2 \in DOMAIN q
        BY <2>5
      <4>2. QED
        BY <2>3, <2>5, <3>1, <4>1
    <3>3. CASE \E i \in DOMAIN p : p[i] = c
      <4>1. PICK i \in DOMAIN p : p[i] = c
        BY <3>3
      <4>2. i \in DOMAIN p \ {1}
        BY <3>2, <4>1
      <4>3. QED
        BY <4>1, <4>2
    <3>4. CASE \A i \in DOMAIN p : p[i] # c
      BY <2>1, <3>1, <3>2, <3>4, LostAre
    <3>5. QED
      BY <3>3, <3>4
  <2>13. Put(H, G, b)
    BY <2>1, <2>12 DEF Put
  <2>14. QED
    BY <2>11, <2>13
<1>4. CASE G = H /\ "tcp2" \notin H.dangling /\ H.pend["tcp2"] = <<>> /\ H.owner[H.fd["tcp2"]] # "tcp2"
  <2>1. "tcp2" \in H.stale
    BY <1>1, <1>4, FdSays
  <2>2. QED
    BY <1>4, <2>1 DEF Later, Put
<1>5. CASE "tcp2" \notin H.dangling /\ H.pend["tcp2"] = <<>> /\ G = [H EXCEPT !.pend["tcp2"] = <<b>>]
  <2>1. PICK q : q = <<b>>
    OBVIOUS
  <2>2. q \in Seq(Blocks) /\ Len(q) = 1 /\ q[1] = b /\ DOMAIN q = 1 .. 1 /\ b \notin ToSet(H.free) /\ Len(q) <= 2
    BY <2>1 DEF Out
  <2>3. \A i \in DOMAIN q : i = 1
    BY <2>2
  <2>4. /\ \A i \in DOMAIN q : q[i] \notin ToSet(H.free)
        /\ \A i, j \in DOMAIN q : q[i] = q[j] => i = j
    BY <2>2, <2>3
  <2>5. q # <<>> => "tcp2" \in H.listed \/ "tcp2" \in H.stale
    BY <1>1, FdSays
  <2>6. MayWait(H, q)
    BY <2>2, <2>4, <2>5 DEF MayWait
  <2>7. G = WithRequests(H, q)
    BY <1>5, <2>1 DEF WithRequests
  <2>8. Good(G, {}) /\ Later(H, G, {}) /\ G.free = H.free /\ G.pend["tcp2"] = q /\ G.listed = H.listed
    BY <2>6, <2>7, PendGood
  <2>9. ASSUME NEW c \in Lost(G)
        PROVE  c \in Lost(H) \ {b}
    <3>1. c \in Blocks /\ c \notin ToSet(H.free) /\ \A i \in DOMAIN q : q[i] # c
      BY <2>8, <2>9, LostAre
    <3>2. c # b
      <4>1. 1 \in DOMAIN q
        BY <2>2
      <4>2. QED
        BY <2>2, <3>1, <4>1
    <3>3. DOMAIN H.pend["tcp2"] = {}
      BY <1>5
    <3>4. QED
      BY <3>1, <3>2, <3>3, LostAre
  <2>10. Put(H, G, b)
    BY <2>9 DEF Put
  <2>11. QED
    BY <2>8, <2>10
<1>6. QED
  <2>1. NULL # "tcp2"
    BY HubAssumption
  <2>2. QED
    BY <1>2, <1>3, <1>4, <1>5, <2>1 DEF io__handle_req

(* The requests of tcp3 are changed to q. *)
LEMMA LogPendGood ==
  ASSUME NEW H, Good(H, {}), NEW q \in Seq({Log}), "tcp3" \in H.listed \/ "tcp3" \in H.stale,
         NEW G, G = [H EXCEPT !.pend["tcp3"] = q]
  PROVE  Good(G, {}) /\ Later(H, G, {}) /\ SameBlocks(H, G) /\ G.listed = H.listed /\ G.stale = H.stale
<1>1. /\ Shape(G) /\ G.fd = H.fd /\ G.owner = H.owner /\ G.listed = H.listed
      /\ G.task = H.task /\ G.pend = [H.pend EXCEPT !["tcp3"] = q] /\ G.dangling = H.dangling
      /\ G.free = H.free /\ G.head = H.head /\ G.pc = H.pc
      /\ G.stale = H.stale /\ G.mishaps = H.mishaps /\ G.misled = H.misled
      /\ G.unasked = H.unasked /\ G.torn = H.torn
  BY DEF Good, Shape, Fields
<1>2. q \in Seq(Blocks \union {Log})
  <2>1. \A i \in 1 .. Len(q) : q[i] \in {Log}
    BY ElementOfSeq
  <2>2. QED
    BY <2>1, SeqDef
<1>3. /\ G.pend \in [Links -> Seq(Blocks \union {Log})] /\ G.pend["tcp3"] = q
      /\ \A r \in Links : r # "tcp3" => G.pend[r] = H.pend[r]
  <2>1. "tcp3" \in Links /\ H.pend \in [Links -> Seq(Blocks \union {Log})]
    BY DEF Good, Typed, Links
  <2>2. G.pend = [H.pend EXCEPT !["tcp3"] = q]
    BY <1>1
  <2>3. QED
    BY <1>2, <2>1, <2>2
<1>4. Waits(G)
  BY <1>1, <1>3 DEF Good, Waits, Links
<1>5. G.pend["tcp2"] = H.pend["tcp2"]
  BY <1>3 DEF Links
<1>6. Good(G, {})
  BY <1>1, <1>3, <1>4, <1>5 DEF Good, Typed, Named, Settled, Pool, Excused
<1>7. QED
  BY <1>1, <1>5, <1>6 DEF Later, SameBlocks

(* A log for tcp3. *)
LEMMA LogGood ==
  ASSUME NEW H, Good(H, {}), "tcp3" \in H.listed, NEW G, G = io__handle_req(H, "tcp3", Log)
  PROVE  Good(G, {}) /\ Later(H, G, {}) /\ SameBlocks(H, G) /\ G.listed = H.listed
<1>1. "tcp3" \notin H.dangling /\ ("tcp3" \in H.listed \/ "tcp3" \in H.stale)
  BY DEF Good, Waits
<1>2. CASE G = H
  BY <1>2 DEF Later, SameBlocks
<1>3. CASE H.pend["tcp3"] # <<>>
  <2>1. PICK p : p = H.pend["tcp3"]
    OBVIOUS
  <2>2. p \in Seq({Log}) /\ p # <<>>
    BY <1>3, <2>1 DEF Good, Waits
  <2>3. Head(p) \in {Log}
    BY <2>2
  <2>4. <<Head(p), Log>> \in Seq({Log})
    BY <2>3
  <2>5. G = [H EXCEPT !.pend["tcp3"] = <<Head(p), Log>>]
    BY <1>1, <1>3, <2>1 DEF io__handle_req, Good, Shape, Fields
  <2>6. QED
    BY <1>1, <2>4, <2>5, LogPendGood, ZenonT(60)
<1>4. CASE H.pend["tcp3"] = <<>> /\ G # H
  <2>1. <<Log>> \in Seq({Log})
    OBVIOUS
  <2>2. G = [H EXCEPT !.pend["tcp3"] = <<Log>>]
    BY <1>1, <1>4 DEF io__handle_req
  <2>3. QED
    BY <1>1, <2>1, <2>2, LogPendGood
<1>5. QED
  BY <1>2, <1>3, <1>4

(* The first request of a link ends. *)
LEMMA EndsGood ==
  ASSUME NEW H, Good(H, {}), NEW s \in Links, NEW G \in FirstEnds(H, s)
  PROVE  Good(G, {}) /\ Later(H, G, {}) /\ Lost(G) \subseteq Lost(H)
<1>1. PICK p : p = H.pend[s]
  OBVIOUS
<1>2. PICK D : D = [H EXCEPT !.pend[s] = Tail(p)]
  OBVIOUS
<1>3. p # <<>> /\ IF Head(p) \in Blocks THEN G = storage_free(D, Head(p)) ELSE G = D
  BY <1>1, <1>2 DEF FirstEnds, rfcm_written
<1>4. s \in {"tcp2", "tcp3"} /\ (s \in H.listed \/ s \in H.stale)
  BY <1>1, <1>3 DEF Good, Waits, Links
<1>5. CASE s = "tcp2"
  <2>1. /\ p \in Seq(Blocks) /\ Len(p) <= 2 /\ \A i \in DOMAIN p : p[i] \notin ToSet(H.free)
        /\ \A i, j \in DOMAIN p : p[i] = p[j] => i = j
    BY <1>1, <1>5 DEF Good, Waits, Pool
  <2>2. PICK q : q = Tail(p)
    OBVIOUS
  <2>3. PICK b : b = Head(p)
    OBVIOUS
  <2>4. /\ q \in Seq(Blocks) /\ Len(q) = Len(p) - 1 /\ Len(p) \in Nat /\ Len(q) <= 2
        /\ DOMAIN p = 1 .. Len(p) /\ DOMAIN q = 1 .. Len(q)
        /\ \A i \in 1 .. Len(q) : q[i] = p[i + 1]
        /\ b = p[1] /\ b \in Blocks /\ 1 \in DOMAIN p
    BY <1>3, <2>1, <2>2, <2>3
  <2>5. \A i \in DOMAIN q : i \in Int /\ i + 1 \in DOMAIN p /\ i + 1 # 1 /\ q[i] = p[i + 1]
    BY <2>4
  <2>6. \A i \in DOMAIN q : q[i] \notin ToSet(H.free)
    BY <2>1, <2>5
  <2>7. \A i, j \in DOMAIN q : q[i] = q[j] => i = j
    <3>1. \A i, j \in DOMAIN q : i + 1 = j + 1 => i = j
      BY <2>5
    <3>2. QED
      BY <2>1, <2>5, <3>1
  <2>8. q # <<>> => "tcp2" \in H.listed \/ "tcp2" \in H.stale
    BY <1>4, <1>5
  <2>9. MayWait(H, q)
    BY <2>4, <2>6, <2>7, <2>8 DEF MayWait
  <2>10. D = WithRequests(H, q)
    BY <1>2, <1>5, <2>2 DEF WithRequests
  <2>11. /\ Good(D, {}) /\ Later(H, D, {}) /\ D.free = H.free /\ D.pend["tcp2"] = q
    BY <2>9, <2>10, PendGood
  <2>12. Out(D, b)
    BY <2>1, <2>4, <2>5, <2>11 DEF Out
  <2>13. G = storage_free(D, b)
    BY <1>3, <2>3, <2>4
  <2>14. Good(G, {}) /\ Later(D, G, {}) /\ ToSet(G.free) = ToSet(D.free) \union {b} /\ G.pend = D.pend
    BY <2>11, <2>12, <2>13, FreeGood
  <2>15. ASSUME NEW c \in Lost(G)
         PROVE  c \in Lost(H)
    <3>1. c \in Blocks /\ c \notin ToSet(H.free) /\ c # b /\ \A i \in DOMAIN q : q[i] # c
      BY <2>11, <2>14, <2>15, LostAre
    <3>2. \A i \in DOMAIN p : i = 1 \/ (i - 1 \in DOMAIN q /\ p[i] = q[i - 1])
      BY <2>4
    <3>3. \A i \in DOMAIN p : p[i] # c
      BY <2>4, <3>1, <3>2
    <3>4. QED
      BY <1>1, <1>5, <3>1, <3>3, LostAre
  <2>16. QED
    BY <2>11, <2>14, <2>15 DEF Later
<1>6. CASE s = "tcp3"
  <2>1. p \in Seq({Log}) /\ p # <<>>
    BY <1>1, <1>3, <1>6 DEF Good, Waits
  <2>2. Head(p) \in {Log} /\ Tail(p) \in Seq({Log})
    BY <2>1
  <2>3. G = [H EXCEPT !.pend["tcp3"] = Tail(p)]
    <3>1. Log \notin Blocks
      BY HubAssumption DEF Blocks
    <3>2. QED
      BY <1>2, <1>3, <1>6, <2>2, <3>1
  <2>4. "tcp3" \in H.listed \/ "tcp3" \in H.stale
    BY <1>4, <1>6
  <2>5. Good(G, {}) /\ Later(H, G, {}) /\ SameBlocks(H, G)
    BY <2>2, <2>3, <2>4, LogPendGood
  <2>6. QED
    BY <2>5, SameLost DEF SameBlocks
<1>7. QED
  BY <1>4, <1>5, <1>6

LEMMA WritesGood ==
  ASSUME NEW H, Good(H, {}), NEW s \in Links, NEW G \in write_progress(H, s)
  PROVE  Good(G, {}) /\ Later(H, G, {}) /\ Lost(G) \subseteq Lost(H)
<1>1. CASE G = H
  BY <1>1 DEF Later
<1>2. CASE G \in FirstEnds(H, s)
  BY <1>2, EndsGood
<1>3. CASE \E A \in FirstEnds(H, s) : G \in FirstEnds(A, s)
  <2>1. PICK A \in FirstEnds(H, s) : G \in FirstEnds(A, s)
    BY <1>3
  <2>2. Good(A, {}) /\ Later(H, A, {}) /\ Lost(A) \subseteq Lost(H)
    BY EndsGood
  <2>3. Good(G, {}) /\ Later(A, G, {}) /\ Lost(G) \subseteq Lost(A)
    BY <2>1, <2>2, EndsGood
  <2>4. QED
    BY <2>2, <2>3 DEF Later
<1>4. CASE G \in BrokenPipe(H)
  BY <1>4, KilledGood, SameLost DEF SameBlocks
<1>5. G \in {H} \union BrokenPipe(H) \union FirstEnds(H, s)
          \union UNION {FirstEnds(A, s) : A \in FirstEnds(H, s)}
  BY DEF write_progress
<1>6. \/ G = H \/ G \in FirstEnds(H, s) \/ G \in BrokenPipe(H)
      \/ \E A \in FirstEnds(H, s) : G \in FirstEnds(A, s)
  BY <1>5
<1>7. QED
  BY <1>1, <1>2, <1>3, <1>4, <1>6, Zenon
-----------------------------------------------------------------------------
(* The tasks of the links. *)

LEMMA WriteGood ==
  ASSUME NEW H, Good(H, {}), H.pc = "run", H.fd["tcp2"] # -1, NEW b, Out(H, b),
         NEW G \in io_write(H, b)
  PROVE  Good(G, {}) /\ Later(H, G, {}) /\ (G.pc = "run" => Put(H, G, b))
<1>1. "tcp2" \in Links
  BY DEF Links
<1>2. PICK M : M = Misled(H, "tcp2")
  OBVIOUS
<1>3. /\ Good(M, {}) /\ Later(H, M, {}) /\ SameBlocks(H, M)
      /\ M.fd = H.fd /\ M.pend = H.pend /\ M.pc = H.pc /\ M.stale = H.stale
  BY <1>1, <1>2, MisledGood
<1>4. Out(M, b) /\ M.pc = "run" /\ M.fd["tcp2"] # -1
  BY <1>3 DEF Out, SameBlocks
<1>5. CASE G = storage_free(M, b)
  <2>1. Good(G, {}) /\ Later(M, G, {}) /\ ToSet(G.free) = ToSet(M.free) \union {b} /\ G.pend = M.pend
    BY <1>3, <1>4, <1>5, FreeGood
  <2>2. Put(H, G, b)
    BY <1>3, <2>1, FreedPut DEF SameBlocks
  <2>3. QED
    BY <1>3, <2>1, <2>2 DEF Later
<1>6. CASE G = io__handle_req(M, "tcp2", b)
  <2>1. Good(G, {}) /\ Later(M, G, {}) /\ G.free = M.free /\ (G.pc = "run" => Put(M, G, b))
    BY <1>3, <1>4, <1>6, ReqGood
  <2>2. Lost(M) = Lost(H)
    BY <1>3, SameLost DEF SameBlocks
  <2>3. QED
    BY <1>3, <2>1, <2>2 DEF Later, Put
<1>7. CASE G \in BrokenPipe(H)
  BY <1>7, KilledGood
<1>8. QED
  BY <1>2, <1>5, <1>6, <1>7 DEF io_write, rfcm_written

(* The blocks of the free list behind a link that is damaged when the      *)
(* newline follows 512 bytes in b.                                         *)
CutOff(H, b) == {H.free[j] : j \in {k \in DOMAIN H.free : \E i \in 1 .. k - 1 : H.free[i] = b + 1}}

(* The newline that rfcm_read stores behind what it was given.             *)
LEMMA NewlineGood ==
  ASSUME NEW H, Good(H, {}), NEW b, Out(H, b), NEW status, NEW N, N = WithNewline(H, b, status)
  PROVE  /\ Good(N, {}) /\ Later(H, N, {}) /\ Out(N, b) /\ N.pend = H.pend
         /\ N.fd = H.fd /\ N.listed = H.listed /\ N.pc = H.pc /\ N.stale = H.stale
         /\ Lost(N) \subseteq Lost(H) \union (IF N.torn THEN CutOff(H, b) ELSE {})
<1>1. PICK c : c = IF status = "end" THEN b ELSE b + 1
  OBVIOUS
<1>2. PICK q : q = IF status = "end" THEN H.free ELSE CutAfter(H.free, b + 1)
  OBVIOUS
<1>3. CASE N = H
  BY <1>3 DEF Later
<1>4. CASE N # H
  <2>1. /\ Shape(N) /\ N.fd = H.fd /\ N.owner = H.owner /\ N.listed = H.listed
        /\ N.task = H.task /\ N.pend = H.pend /\ N.dangling = H.dangling
        /\ N.free = q /\ N.head = [H.head EXCEPT ![c] = Newline] /\ N.pc = H.pc
        /\ N.stale = H.stale /\ N.mishaps = H.mishaps /\ N.misled = H.misled
        /\ N.unasked = H.unasked /\ c \in Blocks
        /\ N.torn = (H.torn \/ (status # "end" /\ b + 1 \in ToSet(H.free)))
    <3>1. CASE status = "end"
      BY <1>1, <1>2, <3>1 DEF WithNewline, Good, Shape, Fields, Typed, Out
    <3>2. CASE status = "full" /\ b + 1 \in Blocks
      BY <1>1, <1>2, <3>2 DEF WithNewline, Good, Shape, Fields, Typed
    <3>3. QED
      BY <1>4, <3>1, <3>2 DEF WithNewline
  <2>2. /\ H.free \in Seq(Blocks) /\ \A i, j \in DOMAIN H.free : H.free[i] = H.free[j] => i = j
    BY DEF Good, Typed, Pool
  <2>3. /\ q \in Seq(Blocks) /\ \A i, j \in DOMAIN q : q[i] = q[j] => i = j
        /\ ToSet(q) \subseteq ToSet(H.free)
    BY <1>2, <2>2, Cut
  <2>4. /\ N.head \in [Blocks -> Bytes] /\ N.head[c] \in LinkBytes
        /\ \A d \in Blocks : d # c => N.head[d] = H.head[d]
    BY <2>1 DEF Good, Typed, Bytes, LinkBytes
  <2>5. ToSet(H.free) \subseteq Blocks
    BY <2>2, InBlocks
  <2>6. Pool(N)
    BY <2>1, <2>3, <2>4, <2>5 DEF Good, Pool
  <2>7. N.torn \in BOOLEAN /\ (H.torn => N.torn)
    BY <2>1 DEF Good, Typed
  <2>8. Good(N, {})
    BY <2>1, <2>3, <2>4, <2>6, <2>7 DEF Good, Typed, Named, Settled, Waits, Excused
  <2>9. Out(N, b) /\ Later(H, N, {})
    BY <2>1, <2>3, <2>7 DEF Out, Later
  <2>10. ASSUME NEW d \in Lost(N), d \notin Lost(H)
         PROVE  N.torn /\ d \in CutOff(H, b)
    <3>1. d \in ToSet(H.free) /\ d \notin ToSet(q)
      BY <2>1, <2>10, LostAre
    <3>2. status # "end" /\ b + 1 \in ToSet(H.free)
      BY <1>2, <2>2, <3>1, Cut
    <3>3. PICK j \in DOMAIN H.free : H.free[j] = d
      BY <3>1 DEF ToSet
    <3>4. \E i \in 1 .. j - 1 : H.free[i] = b + 1
      BY <1>2, <2>2, <3>1, <3>2, <3>3, Cut
    <3>5. QED
      BY <2>1, <3>2, <3>3, <3>4 DEF CutOff
  <2>11. QED
    BY <2>1, <2>8, <2>9, <2>10
<1>5. QED
  BY <1>3, <1>4

(* What becomes of a block b that was read into, and of those behind a     *)
(* link that the newline damaged.                                          *)
Passed(H, G, b) ==
  Lost(G) \subseteq (Lost(H) \ {b})
                   \union {H.pend["tcp2"][i] : i \in DOMAIN H.pend["tcp2"] \ {1}}
                   \union (IF "tcp2" \in H.stale THEN {b} ELSE {})
                   \union (IF G.torn THEN CutOff(H, b) ELSE {})

LEMMA PutPassed ==
  ASSUME NEW H, NEW G, NEW b, Put(H, G, b)
  PROVE  Passed(H, G, b)
BY DEF Put, Passed

LEMMA RfcmReadGood ==
  ASSUME NEW H, Good(H, {}), H.pc = "run", "rfcm" \in H.listed, NEW b, Out(H, b),
         NEW status, NEW G \in rfcm_read(H, b, status)
  PROVE  Good(G, {}) /\ Later(H, G, {"rfcm"}) /\ (G.pc = "run" => Passed(H, G, b))
<1>1. "rfcm" \in Links /\ "tcp2" \in Links
  BY DEF Links
<1>2. PICK F : F = storage_free(H, b)
  OBVIOUS
<1>3. /\ Good(F, {}) /\ Later(H, F, {}) /\ ToSet(F.free) = ToSet(H.free) \union {b} /\ F.pend = H.pend
      /\ F.listed = H.listed /\ F.pc = H.pc
  BY <1>2, FreeGood
<1>4. CASE G = Forgotten(io_tcp_close(F, "rfcm"), "rfcm")
  <2>1. Good(G, {}) /\ Later(F, G, {"rfcm"}) /\ G.free = F.free
        /\ \A r \in Links : r # "rfcm" => G.pend[r] = F.pend[r]
    BY <1>1, <1>3, <1>4, EndGood
  <2>2. Passed(H, G, b)
    BY <1>1, <1>3, <2>1, FreedPut, PutPassed
  <2>3. QED
    BY <1>3, <2>1, <2>2 DEF Later
<1>5. CASE H.fd["tcp2"] # -1 /\ G \in io_write(WithNewline(H, b, status), b)
  <2>1. PICK N : N = WithNewline(H, b, status)
    OBVIOUS
  <2>2. /\ Good(N, {}) /\ Later(H, N, {}) /\ Out(N, b) /\ N.pend = H.pend
        /\ N.fd = H.fd /\ N.listed = H.listed /\ N.pc = H.pc /\ N.stale = H.stale
        /\ Lost(N) \subseteq Lost(H) \union (IF N.torn THEN CutOff(H, b) ELSE {})
    BY <2>1, NewlineGood
  <2>3. Good(G, {}) /\ Later(N, G, {}) /\ (G.pc = "run" => Put(N, G, b))
    BY <1>5, <2>1, <2>2, WriteGood
  <2>4. G.pc = "run" => Passed(H, G, b)
    BY <2>2, <2>3 DEF Put, Passed, Later
  <2>5. QED
    BY <2>2, <2>3, <2>4 DEF Later
<1>6. CASE G = F
  <2>1. Passed(H, G, b)
    BY <1>3, <1>6, FreedPut, PutPassed
  <2>2. QED
    BY <1>3, <1>6, <2>1 DEF Later
<1>7. QED
  BY <1>2, <1>4, <1>5, <1>6 DEF rfcm_read, io_rfcomm_close

(* A log is sent to tcp3, at once or later, or tcp3 is gone. *)
LEMMA SendGood ==
  ASSUME NEW H, Good(H, {}), "tcp3" \in H.listed, NEW G \in io_sendall(H, "tcp3")
  PROVE  Good(G, {}) /\ Later(H, G, {}) /\ SameBlocks(H, G)
<1>1. CASE G = H
  BY <1>1 DEF Later, SameBlocks
<1>2. CASE G = io__handle_req(H, "tcp3", Log)
  BY <1>2, LogGood
<1>3. CASE G \in BrokenPipe(H)
  BY <1>3, KilledGood
<1>4. QED
  BY <1>1, <1>2, <1>3 DEF io_sendall

(* No link begins with a command: the addresses of blocks are multiples of *)
(* 8, and 'L' and 'C' are not.                                             *)
LEMMA NoCommand ==
  ASSUME NEW x \in LinkBytes
  PROVE  x \notin {LetterL, LetterC}
BY HubAssumption DEF LinkBytes, Newline, LetterL, LetterC

LEMMA Tcp3ReadGood ==
  ASSUME NEW H, Good(H, {}), H.pc = "run", "tcp3" \in H.listed, NEW b, Out(H, b),
         NEW status, status = "end" => H.head[b] \in LinkBytes, NEW G \in tcp3_read(H, b, status)
  PROVE  Good(G, {}) /\ Later(H, G, {"tcp3"}) /\ Passed(H, G, b)
<1>1. "tcp3" \in Links /\ "tcp2" \in Links
  BY DEF Links
<1>2. CASE G = Forgotten(io_tcp_close(storage_free(H, b), "tcp3"), "tcp3")
  <2>1. PICK F : F = storage_free(H, b)
    OBVIOUS
  <2>2. /\ Good(F, {}) /\ Later(H, F, {}) /\ ToSet(F.free) = ToSet(H.free) \union {b} /\ F.pend = H.pend
        /\ F.listed = H.listed /\ F.pc = H.pc
    BY <2>1, FreeGood
  <2>3. G = Forgotten(io_tcp_close(F, "tcp3"), "tcp3")
    BY <1>2, <2>1
  <2>4. Good(G, {}) /\ Later(F, G, {"tcp3"}) /\ G.free = F.free
        /\ \A r \in Links : r # "tcp3" => G.pend[r] = F.pend[r]
    BY <1>1, <2>2, <2>3, EndGood
  <2>5. Passed(H, G, b)
    BY <1>1, <2>2, <2>4, FreedPut, PutPassed
  <2>6. QED
    BY <2>2, <2>4, <2>5 DEF Later
<1>3. CASE \E A : /\ A = [H EXCEPT !.unasked = @ \/ (H.head[b] \in {LetterL, LetterC} /\ status = "end")]
                  /\ \E B \in io_sendall(A, "tcp3") \union {A} : G = storage_free(B, b)
  <2>1. PICK A : /\ A = [H EXCEPT !.unasked = @ \/ (H.head[b] \in {LetterL, LetterC} /\ status = "end")]
                 /\ \E B \in io_sendall(A, "tcp3") \union {A} : G = storage_free(B, b)
    BY <1>3
  <2>2. /\ Shape(A) /\ A.fd = H.fd /\ A.owner = H.owner /\ A.listed = H.listed
        /\ A.task = H.task /\ A.pend = H.pend /\ A.dangling = H.dangling
        /\ A.free = H.free /\ A.head = H.head /\ A.pc = H.pc
        /\ A.stale = H.stale /\ A.mishaps = H.mishaps /\ A.misled = H.misled
        /\ A.torn = H.torn
        /\ A.unasked = (H.unasked \/ (H.head[b] \in {LetterL, LetterC} /\ status = "end"))
    BY <2>1 DEF Good, Shape, Fields
  <2>3. A.unasked = H.unasked
    <3>1. ~ (H.head[b] \in {LetterL, LetterC} /\ status = "end")
      BY NoCommand
    <3>2. QED
      BY <2>2, <3>1 DEF Good, Typed
  <2>4. Good(A, {})
    BY <2>2, <2>3 DEF Good, Typed, Named, Settled, Waits, Pool, Excused
  <2>5. Later(H, A, {}) /\ SameBlocks(H, A)
    BY <2>2 DEF Later, SameBlocks
  <2>6. PICK B \in io_sendall(A, "tcp3") \union {A} : G = storage_free(B, b)
    BY <2>1
  <2>7. Good(B, {}) /\ Later(A, B, {}) /\ SameBlocks(A, B)
    <3>1. CASE B = A
      BY <2>4, <3>1 DEF Later, SameBlocks
    <3>2. CASE B \in io_sendall(A, "tcp3")
      BY <2>2, <2>4, <3>2, SendGood
    <3>3. QED
      BY <2>6, <3>1, <3>2
  <2>8. Out(B, b)
    BY <2>5, <2>7 DEF Out, SameBlocks
  <2>9. Good(G, {}) /\ Later(B, G, {}) /\ ToSet(G.free) = ToSet(B.free) \union {b} /\ G.pend = B.pend
    BY <2>6, <2>7, <2>8, FreeGood
  <2>10. Passed(H, G, b)
    BY <2>5, <2>7, <2>9, FreedPut, PutPassed DEF SameBlocks
  <2>11. QED
    BY <2>5, <2>7, <2>9, <2>10 DEF Later
<1>4. QED
  BY <1>2, <1>3 DEF tcp3_read

(* The only ways in which a block is lost, but for the close of tcp2. *)
Kept(H, G) == Lost(G) \subseteq Lost(H) \union Mislaid(H, G)

(* A block is taken from the pool. *)
LEMMA TakenGood ==
  ASSUME NEW H, Good(H, {}), H.free # <<>>, NEW b, b = Head(H.free), NEW A, A = rfcm_alloc(H)
  PROVE  /\ Good(A, {}) /\ Later(H, A, {}) /\ Out(A, b) /\ A.free = Tail(H.free) /\ A.pend = H.pend
         /\ A.pc = H.pc /\ A.listed = H.listed /\ A.stale = H.stale /\ A.head[b] \in LinkBytes
<1>1. /\ Shape(A) /\ A.fd = H.fd /\ A.owner = H.owner /\ A.listed = H.listed
      /\ A.task = H.task /\ A.pend = H.pend /\ A.dangling = H.dangling
      /\ A.free = Tail(H.free) /\ A.head = H.head /\ A.pc = H.pc
      /\ A.stale = H.stale /\ A.mishaps = H.mishaps /\ A.misled = H.misled
      /\ A.unasked = H.unasked /\ A.torn = H.torn
  BY DEF rfcm_alloc, storage_alloc, Good, Shape, Fields
<1>2. /\ H.free \in Seq(Blocks) /\ \A i, j \in DOMAIN H.free : H.free[i] = H.free[j] => i = j
  BY DEF Good, Typed, Pool
<1>3. /\ A.free \in Seq(Blocks) /\ \A i, j \in DOMAIN A.free : A.free[i] = A.free[j] => i = j
      /\ b \in Blocks /\ b \in ToSet(H.free) /\ b \notin ToSet(A.free)
      /\ ToSet(A.free) = ToSet(H.free) \ {b}
  BY <1>1, <1>2, Popped
<1>4. Pool(A) /\ Out(A, b) /\ A.head[b] \in LinkBytes
  BY <1>1, <1>3 DEF Good, Pool, Out
<1>5. Good(A, {})
  BY <1>1, <1>3, <1>4 DEF Good, Typed, Named, Settled, Waits, Excused
<1>6. QED
  BY <1>1, <1>4, <1>5 DEF Later

LEMMA PassedKept ==
  ASSUME NEW H, Good(H, {}), H.free # <<>>, NEW b, b = Head(H.free), NEW A, NEW G,
         A.free = Tail(H.free), A.pend = H.pend, A.stale = H.stale, Passed(A, G, b)
  PROVE  Kept(H, G)
<1>1. /\ H.free \in Seq(Blocks) /\ \A i, j \in DOMAIN H.free : H.free[i] = H.free[j] => i = j
  BY DEF Good, Typed, Pool
<1>2. /\ b = H.free[1] /\ ToSet(A.free) = ToSet(H.free) \ {b}
      /\ \A i \in DOMAIN A.free : i \in Nat /\ i > 0 /\ i + 1 \in DOMAIN H.free /\ A.free[i] = H.free[i + 1]
  BY <1>1, Popped
<1>3. Lost(A) \ {b} \subseteq Lost(H)
  BY <1>2, LostAre
<1>4. ASSUME NEW d \in CutOff(A, b)
      PROVE  d \in BehindNext(H.free)
  <2>1. PICK k \in DOMAIN A.free : d = A.free[k] /\ \E i \in 1 .. k - 1 : A.free[i] = b + 1
    BY <1>4 DEF CutOff
  <2>2. PICK i \in 1 .. k - 1 : A.free[i] = b + 1
    BY <2>1
  <2>3. DOMAIN A.free = 1 .. Len(A.free) /\ Len(A.free) \in Nat
    BY <1>1
  <2>4. k \in Nat /\ i \in Nat /\ i \in DOMAIN A.free /\ i + 1 \in 2 .. (k + 1) - 1
    BY <1>2, <2>2, <2>3
  <2>5. /\ k + 1 \in DOMAIN H.free /\ d = H.free[k + 1]
        /\ H.free[i + 1] = H.free[1] + 1
    BY <1>2, <2>1, <2>2, <2>4
  <2>6. QED
    BY <2>4, <2>5 DEF BehindNext
<1>5. QED
  BY <1>3, <1>4 DEF Kept, Mislaid, Passed

LEMMA FilledGood ==
  ASSUME NEW H, Good(H, {}), NEW b, Out(H, b), NEW x \in Bytes, NEW A, A = Filled(H, b, x)
  PROVE  /\ Good(A, {}) /\ Later(H, A, {}) /\ Out(A, b) /\ A.free = H.free /\ A.pend = H.pend
         /\ A.pc = H.pc /\ A.listed = H.listed /\ A.stale = H.stale
<1>1. /\ Shape(A) /\ A.fd = H.fd /\ A.owner = H.owner /\ A.listed = H.listed
      /\ A.task = H.task /\ A.pend = H.pend /\ A.dangling = H.dangling
      /\ A.free = H.free /\ A.head = [H.head EXCEPT ![b] = x] /\ A.pc = H.pc
      /\ A.stale = H.stale /\ A.mishaps = H.mishaps /\ A.misled = H.misled
      /\ A.unasked = H.unasked /\ A.torn = H.torn
  BY DEF Filled, Good, Shape, Fields
<1>2. /\ A.head \in [Blocks -> Bytes] /\ ToSet(H.free) \subseteq Blocks
      /\ \A c \in Blocks : c # b => A.head[c] = H.head[c]
  BY <1>1, InBlocks DEF Good, Typed, Out
<1>3. Pool(A)
  BY <1>1, <1>2 DEF Good, Pool, Out
<1>4. Good(A, {})
  BY <1>1, <1>2, <1>3 DEF Good, Typed, Named, Settled, Waits, Excused
<1>5. QED
  BY <1>1, <1>4 DEF Later, Out

LEMMA ReadGood ==
  ASSUME NEW H, Good(H, {}), H.pc = "run", NEW s \in {"tcp3", "rfcm"}, s \in H.listed,
         NEW G \in read_progress(H, s)
  PROVE  Good(G, {}) /\ Later(H, G, {s}) /\ (G.pc = "run" => Kept(H, G))
<1>1. CASE G = H
  BY <1>1 DEF Later, Kept
<1>2. CASE H.torn /\ G \in WildBlock(H, s)
  <2>1. /\ Shape(G) /\ G.fd = H.fd /\ G.owner = H.owner /\ G.listed = H.listed
        /\ G.task = H.task /\ G.pend = H.pend /\ G.dangling = H.dangling
        /\ G.free = H.free /\ G.head = H.head /\ G.pc = "crashed"
        /\ G.stale = H.stale /\ G.mishaps = H.mishaps /\ G.misled = H.misled
        /\ G.unasked = H.unasked \/ G.unasked = TRUE
        /\ G.torn = H.torn
    BY <1>2 DEF WildBlock, Crashed, Good, Shape, Fields
  <2>2. Typed(G) /\ Excused(G)
    BY <1>2, <2>1 DEF Good, Typed, Excused
  <2>3. Good(G, {})
    BY <2>1, <2>2 DEF Good, Named, Settled, Waits, Pool
  <2>4. QED
    BY <2>1, <2>3 DEF Later
<1>3. CASE H.free # <<>> /\
           \/ \E status \in {"error", "end"} : G \in read_cb(rfcm_alloc(H), s, Head(H.free), status)
           \/ \E x \in {LetterL, LetterC, Newline}, status \in {"some", "full"} :
                G \in read_cb(Filled(rfcm_alloc(H), Head(H.free), x), s, Head(H.free), status)
  <2>1. PICK b : b = Head(H.free)
    OBVIOUS
  <2>2. PICK D : D = rfcm_alloc(H)
    OBVIOUS
  <2>3. /\ Good(D, {}) /\ Later(H, D, {}) /\ Out(D, b) /\ D.free = Tail(H.free) /\ D.pend = H.pend
        /\ D.pc = H.pc /\ D.listed = H.listed /\ D.stale = H.stale /\ D.head[b] \in LinkBytes
    BY <1>3, <2>1, <2>2, TakenGood
  <2>4. PICK A, status :
          /\ \/ status \in {"error", "end"} /\ A = D
             \/ status \in {"some", "full"} /\ \E x \in {LetterL, LetterC, Newline} : A = Filled(D, b, x)
          /\ G \in read_cb(A, s, b, status)
    BY <1>3, <2>1, <2>2
  <2>5. /\ Good(A, {}) /\ Later(D, A, {}) /\ Out(A, b) /\ A.free = D.free /\ A.pend = D.pend
        /\ A.pc = D.pc /\ A.listed = D.listed /\ A.stale = D.stale
        /\ status = "end" => A.head[b] \in LinkBytes
    <3>1. CASE A = D
      BY <2>3, <3>1 DEF Later
    <3>2. CASE status \in {"some", "full"} /\ \E x \in {LetterL, LetterC, Newline} : A = Filled(D, b, x)
      <4>1. PICK x \in Bytes : A = Filled(D, b, x)
        BY <3>2 DEF Bytes
      <4>2. Good(A, {}) /\ Later(D, A, {}) /\ Out(A, b) /\ A.free = D.free /\ A.pend = D.pend
            /\ A.pc = D.pc /\ A.listed = D.listed /\ A.stale = D.stale
        BY <2>3, <4>1, FilledGood
      <4>3. QED
        BY <3>2, <4>2
    <3>3. QED
      BY <2>4, <3>1, <3>2
  <2>6. A.pc = "run" /\ s \in A.listed
    BY <2>3, <2>5
  <2>7. Good(G, {}) /\ Later(A, G, {s}) /\ (G.pc = "run" => Passed(A, G, b))
    <3>1. CASE s = "tcp3"
      <4>1. G \in tcp3_read(A, b, status)
        BY <2>4, <3>1 DEF read_cb
      <4>2. QED
        BY <2>5, <2>6, <3>1, <4>1, Tcp3ReadGood
    <3>2. CASE s = "rfcm"
      <4>1. G \in rfcm_read(A, b, status)
        BY <2>4, <3>2 DEF read_cb
      <4>2. QED
        BY <2>5, <2>6, <3>2, <4>1, RfcmReadGood
    <3>3. QED
      BY <3>1, <3>2
  <2>8. A.free = Tail(H.free) /\ A.pend = H.pend /\ A.stale = H.stale
    BY <2>3, <2>5
  <2>9. G.pc = "run" => Kept(H, G)
    BY <1>3, <2>1, <2>7, <2>8, PassedKept
  <2>10. QED
    BY <2>3, <2>5, <2>7, <2>9 DEF Later
<1>4. QED
  BY <1>1, <1>2, <1>3 DEF read_progress

LEMMA ForwardGood ==
  ASSUME NEW H, Good(H, {}), H.pc = "run", NEW s, NEW to \in Links, NEW G \in Forward(H, s, to)
  PROVE  Good(G, {}) /\ Later(H, G, {}) /\ SameBlocks(H, G)
<1>1. H.fd[to] # -1 /\ (G = Misled(H, to) \/ G \in BrokenPipe(H))
  BY DEF Forward
<1>2. CASE G = Misled(H, to)
  BY <1>1, <1>2, MisledGood
<1>3. CASE G \in BrokenPipe(H)
  BY <1>3, KilledGood
<1>4. QED
  BY <1>1, <1>2, <1>3

(* The program ends in freed memory. *)
LEMMA MishapGood ==
  ASSUME NEW H, Good(H, {}), NEW why \in {"busy", "freed"},
         NEW G, G = [Crashed(H) EXCEPT !.mishaps = @ \union {why}]
  PROVE  Good(G, {}) /\ Later(H, G, {}) /\ G.pc = "crashed"
<1>1. /\ Shape(G) /\ G.fd = H.fd /\ G.owner = H.owner /\ G.listed = H.listed
      /\ G.task = H.task /\ G.pend = H.pend /\ G.dangling = H.dangling
      /\ G.free = H.free /\ G.head = H.head /\ G.pc = "crashed"
      /\ G.stale = H.stale /\ G.mishaps = H.mishaps \union {why} /\ G.misled = H.misled
      /\ G.unasked = H.unasked /\ G.torn = H.torn
  BY DEF Crashed, Good, Shape, Fields
<1>2. Good(G, {})
  BY <1>1 DEF Good, Typed, Named, Settled, Waits, Pool, Excused
<1>3. QED
  BY <1>1, <1>2 DEF Later

(* The task of a link runs.  If it closed the link although requests wait, *)
(* the loop reads them next, and that is the end.                          *)
LEMMA ProgressGood ==
  ASSUME NEW H, Good(H, {}), H.pc = "run", NEW s \in Links, s \in H.task,
         NEW G \in progress_cb(H, s)
  PROVE  /\ Good(G, {}) /\ Later(H, G, {s})
         /\ G.pc = "run" => Kept(H, G) \/ (s \notin G.listed /\ H.pend[s] # <<>>)
<1>1. s \in H.listed
  BY DEF Good, Typed
<1>2. CASE s \in {"tcp3", "rfcm"}
  <2>1. G \in read_progress(H, s)
    BY <1>2 DEF progress_cb
  <2>2. QED
    BY <1>1, <1>2, <2>1, ReadGood
<1>3. CASE s \in {"tcp1", "tcp2", "serl"}
  <2>1. PICK to \in {"serl", "rfcm", "tcp1"} :
          \/ G = H \/ G = Forgotten(io_tcp_close(H, s), s) \/ G \in Forward(H, s, to)
          \/ G = [Crashed(Forgotten(io_tcp_close(H, s), s)) EXCEPT !.mishaps = @ \union {"freed"}]
    <3>1. CASE s = "tcp1"
      BY <3>1 DEF progress_cb, tcp1_spliced
    <3>2. CASE s = "tcp2"
      BY <3>2 DEF progress_cb, tcp2_spliced
    <3>3. CASE s = "serl"
      BY <3>3 DEF progress_cb, data_published, io_serial_close
    <3>4. QED
      BY <1>3, <3>1, <3>2, <3>3
  <2>2. CASE G = H
    BY <2>2 DEF Later, Kept
  <2>3. CASE G = Forgotten(io_tcp_close(H, s), s)
    <3>1. /\ Good(G, {}) /\ Later(H, G, {s}) /\ s \notin G.listed
          /\ G.free = H.free /\ \A r \in Links : r # s => G.pend[r] = H.pend[r]
          /\ G.pend[s] = <<>>
      <4>1. \A L : Good(L, {}) /\ s \in L.listed /\ G = Forgotten(io_tcp_close(L, s), s) =>
               /\ Good(G, {}) /\ Later(L, G, {s}) /\ s \notin G.listed
               /\ G.free = L.free /\ \A r \in Links : r # s => G.pend[r] = L.pend[r]
               /\ G.pend[s] = <<>>
        BY EndGood
      <4>2. QED
        BY <1>1, <2>3, <4>1
    <3>2. CASE H.pend[s] # <<>>
      BY <3>1, <3>2
    <3>3. CASE H.pend[s] = <<>>
      <4>1. G.pend["tcp2"] = H.pend["tcp2"]
        BY <3>1, <3>3 DEF Links
      <4>2. QED
        BY <3>1, <4>1, SameLost DEF Kept
    <3>4. QED
      BY <3>2, <3>3
  <2>4. CASE G \in Forward(H, s, to)
    <3>1. to \in Links
      BY DEF Links
    <3>2. Good(G, {}) /\ Later(H, G, {}) /\ SameBlocks(H, G)
      BY <2>4, <3>1, ForwardGood
    <3>3. QED
      BY <3>2, SameLost DEF Later, SameBlocks, Kept
  <2>5. CASE G = [Crashed(Forgotten(io_tcp_close(H, s), s)) EXCEPT !.mishaps = @ \union {"freed"}]
    <3>1. PICK C : C = Forgotten(io_tcp_close(H, s), s)
      OBVIOUS
    <3>2. Good(C, {}) /\ Later(H, C, {s})
      BY <1>1, <3>1, EndGood
    <3>3. Good(G, {}) /\ Later(C, G, {}) /\ G.pc = "crashed"
      BY <2>5, <3>1, <3>2, MishapGood
    <3>4. QED
      BY <3>2, <3>3 DEF Later
  <2>6. QED
    BY <2>1, <2>2, <2>3, <2>4, <2>5
<1>4. QED
  BY <1>2, <1>3 DEF Links
-----------------------------------------------------------------------------
(* The loop. *)

LEMMA ServedGood ==
  ASSUME NEW H, Good(H, {}), H.pc = "run", NEW s \in Links, NEW ev,
         s \in H.task \/ H.stale # {} \/ H.mishaps # {}, NEW G \in Served(H, s, ev)
  PROVE  Good(G, {}) /\ Later(H, G, {s}) /\ (G.pc = "run" => Kept(H, G))
<1>1. CASE s \notin H.task
  <2>1. G = Crashed(H) /\ (H.stale # {} \/ H.mishaps # {})
    BY <1>1 DEF Served
  <2>2. Good(G, {})
    BY <2>1, CrashGood
  <2>3. G.pc = "crashed" /\ G.task = H.task /\ G.stale = H.stale /\ G.mishaps = H.mishaps /\ G.torn = H.torn
    BY <2>1 DEF Crashed, Good, Shape, Fields
  <2>4. QED
    BY <2>2, <2>3 DEF Later
<1>2. CASE s \in H.task
  <2>1. PICK A : /\ A \in progress_cb(H, s) \/ A = H
                 /\ \/ (A.pc # "run" \/ H.pend[s] = <<>>) /\ G = A
                    \/ H.pend[s] # <<>> /\ s \notin A.listed
                       /\ G = [Crashed(A) EXCEPT !.mishaps = @ \union {"busy"}]
                    \/ A.pc = "run" /\ H.pend[s] # <<>> /\ s \in A.listed
                       /\ (G \in write_progress(A, s) \/ G = A)
    BY <1>2 DEF Served
  <2>2. /\ Good(A, {}) /\ Later(H, A, {s})
        /\ A.pc = "run" => Kept(H, A) \/ (s \notin A.listed /\ H.pend[s] # <<>>)
    <3>1. CASE A = H
      BY <3>1 DEF Later, Kept
    <3>2. CASE A \in progress_cb(H, s)
      BY <1>2, <3>2, ProgressGood
    <3>3. QED
      BY <2>1, <3>1, <3>2
  <2>3. CASE (A.pc # "run" \/ H.pend[s] = <<>>) /\ G = A
    BY <2>2, <2>3
  <2>4. CASE G = [Crashed(A) EXCEPT !.mishaps = @ \union {"busy"}]
    <3>1. Good(G, {}) /\ Later(A, G, {}) /\ G.pc = "crashed"
      BY <2>2, <2>4, MishapGood
    <3>2. QED
      BY <2>2, <3>1 DEF Later
  <2>5. CASE A.pc = "run" /\ s \in A.listed /\ G \in write_progress(A, s)
    <3>1. Good(G, {}) /\ Later(A, G, {}) /\ Lost(G) \subseteq Lost(A)
      BY <2>2, <2>5, WritesGood
    <3>2. Mislaid(H, A) \subseteq Mislaid(H, G)
      BY <3>1 DEF Later, Mislaid
    <3>3. QED
      BY <2>2, <2>5, <3>1, <3>2 DEF Later, Kept
  <2>6. CASE A.pc = "run" /\ s \in A.listed /\ G = A
    BY <2>2, <2>6
  <2>7. QED
    BY <2>1, <2>3, <2>4, <2>5, <2>6
<1>3. QED
  BY <1>1, <1>2

LEMMA InitIInv ==
  ASSUME Init
  PROVE  IInv
<1>1. PICK H : H = [fd |-> [s \in Links |-> -1],
                    owner |-> [f \in Fds |-> NULL],
                    listed |-> {}, task |-> {},
                    pend |-> [s \in Links |-> <<>>], dangling |-> {},
                    free |-> [i \in 1 .. PCount |-> PCount - i], torn |-> FALSE,
                    head |-> [b \in Blocks |-> IF b = 0 THEN 0 ELSE LowByte],
                    pc |-> "run",
                    stale |-> {}, mishaps |-> {}, misled |-> {}, unasked |-> FALSE]
  OBVIOUS
<1>2. /\ Shape(H) /\ H.fd = [s \in Links |-> -1] /\ H.owner = [f \in Fds |-> NULL]
      /\ H.listed = {} /\ H.task = {} /\ H.pend = [s \in Links |-> <<>>] /\ H.dangling = {}
      /\ H.free = [i \in 1 .. PCount |-> PCount - i] /\ H.torn = FALSE
      /\ H.head = [b \in Blocks |-> IF b = 0 THEN 0 ELSE LowByte] /\ H.pc = "run"
      /\ H.stale = {} /\ H.mishaps = {} /\ H.misled = {} /\ H.unasked = FALSE
  BY <1>1 DEF Shape, Fields
<1>3. Good(H, {})
  <2>1. <<>> \in Seq(Blocks) /\ <<>> \in Seq({Log}) /\ <<>> \in Seq(Blocks \union {Log})
        /\ Len(<<>>) = 0 /\ DOMAIN <<>> = {}
    OBVIOUS
  <2>2. \A s \in Links : H.pend[s] = <<>>
    BY <1>2
  <2>3. /\ PCount \in Nat /\ \A i \in 1 .. PCount : H.free[i] = PCount - i /\ H.free[i] \in Blocks
        /\ DOMAIN H.free = 1 .. PCount
    BY <1>2, HubAssumption DEF Blocks
  <2>4. H.free \in Seq(Blocks)
    <3>1. H.free \in [1 .. PCount -> Blocks]
      BY <1>2, <2>3
    <3>2. QED
      BY <2>3, <3>1, SeqDef
  <2>5. /\ \A i, j \in DOMAIN H.free : H.free[i] = H.free[j] => i = j
        /\ ToSet(H.free) \subseteq Blocks
    BY <2>3, <2>4, InBlocks
  <2>6. H.head \in [Blocks -> Bytes] /\ \A b \in Blocks : H.head[b] \in LinkBytes
    BY <1>2 DEF Bytes, LinkBytes
  <2>7. Waits(H)
    BY <1>2, <2>1, <2>2 DEF Waits, Links
  <2>8. Pool(H)
    BY <2>1, <2>2, <2>5, <2>6 DEF Pool, Links
  <2>9. Typed(H)
    BY <1>2, <2>1, <2>4, <2>6 DEF Typed
  <2>10. Named(H) /\ Settled(H, {}) /\ Excused(H)
    BY <1>2 DEF Named, Settled, Excused
  <2>11. QED
    BY <1>2, <2>7, <2>8, <2>9, <2>10 DEF Good
<1>4. PICK A \in try_serial(H) : hub = [A EXCEPT !.task = A.listed]
  BY <1>1 DEF Init
<1>5. "serl" \in Links /\ "serl" \notin H.listed /\ H.fd["serl"] = -1 /\ Good(H, {"serl"})
  BY <1>2, <1>3, ButFor DEF Links
<1>6. /\ Good(A, {"serl"}) /\ A.pc = "run" /\ ("serl" \in A.listed \/ A = H)
  <2>1. PICK B \in io_serial(H) : IF "serl" \in B.listed THEN A = B ELSE A \in io_serial(B)
    BY <1>4 DEF try_serial
  <2>2. Good(B, {"serl"}) /\ B.pc = H.pc /\ ("serl" \in B.listed \/ B = H)
    BY <1>5, SerialGood
  <2>3. CASE "serl" \in B.listed
    BY <1>2, <2>1, <2>2, <2>3
  <2>4. CASE "serl" \notin B.listed
    <3>1. A \in io_serial(H)
      BY <2>1, <2>2, <2>4
    <3>2. QED
      BY <1>2, <1>5, <3>1, SerialGood
  <2>5. QED
    BY <2>3, <2>4
<1>7. Good(hub, {})
  <2>1. Good(A, {"serl"}) /\ ("serl" \in A.listed \/ A.fd["serl"] = -1)
    BY <1>5, <1>6
  <2>2. PICK G : G = [A EXCEPT !.task = A.listed]
    OBVIOUS
  <2>3. /\ Shape(G) /\ G.fd = A.fd /\ G.owner = A.owner /\ G.listed = A.listed
        /\ G.task = A.listed /\ G.pend = A.pend /\ G.dangling = A.dangling
        /\ G.free = A.free /\ G.head = A.head /\ G.pc = A.pc
        /\ G.stale = A.stale /\ G.mishaps = A.mishaps /\ G.misled = A.misled
        /\ G.unasked = A.unasked /\ G.torn = A.torn
    BY <2>1, <2>2 DEF Good, Shape, Fields
  <2>4. Typed(G) /\ Named(G) /\ Waits(G) /\ Pool(G) /\ Excused(G)
    BY <2>1, <2>3 DEF Good, Typed, Named, Waits, Pool, Excused
  <2>5. Settled(G, {})
    BY <2>1, <2>3 DEF Good, Settled
  <2>6. QED
    BY <1>4, <2>2, <2>3, <2>4, <2>5 DEF Good
<1>8. QED
  BY <1>7, HubAssumption DEF Init, IInv, BatchSound

(* What epoll reports at a link is of its task, of its requests, which an  *)
(* open handle has, or of the requests of a failed accept.                 *)
LEMMA ReportsSound ==
  ASSUME Good(hub, {}), hub.pc = "run", NEW e \in Reportable(hub)
  PROVE  /\ e.at \in Links \union {"watcher"}
         /\ "new" \in e.ev => e.at \in Ports /\ e = Event(e.at, {"new"})
         /\ "new" \notin e.ev /\ e.at \in Links
              => e.at \in hub.task \/ hub.stale # {} \/ hub.mishaps # {}
<1>1. CASE \E p \in Ports : e = Event(p, {"new"})
  BY <1>1 DEF Event, Ports
<1>2. CASE e = Event("watcher", {"in"})
  BY <1>2 DEF Event, Links
<1>3. CASE \E s \in hub.task : e = Event(s, {"in"})
  BY <1>3 DEF Event, Good, Typed
<1>4. CASE \E s \in Links, ev \in {{"out"}, {"in", "out"}} : e = Event(s, ev) /\ hub.pend[e.at] # <<>>
  <2>1. PICK s \in Links, ev \in {{"out"}, {"in", "out"}} : e = Event(s, ev) /\ hub.pend[e.at] # <<>>
    BY <1>4
  <2>2. e.at = s /\ e.ev = ev /\ hub.pend[s] # <<>> /\ "new" \notin ev
    BY <2>1 DEF Event
  <2>3. s \in hub.listed \/ s \in hub.stale
    BY <2>2 DEF Good, Waits
  <2>4. s \in hub.listed => s \in hub.task \/ "start" \in hub.mishaps
    BY DEF Good, Settled
  <2>5. QED
    BY <2>2, <2>3, <2>4
<1>5. QED
  BY <1>1, <1>2, <1>3, <1>4 DEF Reportable

LEMMA EpollIInv ==
  ASSUME IInv, EpollReturns
  PROVE  IInv'
<1>1. hub' = hub /\ batch' = Reportable(hub) /\ left' = MaxEvent /\ left < MaxEvent /\ hub.pc = "run"
  BY DEF EpollReturns
<1>2. left' \in 0 .. MaxEvent /\ left' # 0
  BY <1>1, HubAssumption DEF IInv
<1>3. BatchSound'
  BY <1>1, ReportsSound DEF IInv, BatchSound
<1>4. QED
  BY <1>1, <1>2, <1>3 DEF IInv

LEMMA LeftGoes ==
  ASSUME IInv, NEW e \in batch, Serve(e)
  PROVE  left' \in 0 .. MaxEvent /\ (left' = 0 => batch' = {}) /\ hub.pc = "run"
         /\ \A x \in batch' : x \in batch /\ x.at \in Links /\ "new" \notin x.ev
                              /\ ("new" \in e.ev \/ x.at # e.at)
<1>1. left \in 0 .. MaxEvent /\ left # 0 /\ left' = left - 1 /\ MaxEvent \in Nat
  BY HubAssumption DEF IInv, Serve
<1>2. left' \in 0 .. MaxEvent /\ (left' = 0 => left = 1)
  BY <1>1
<1>3. QED
  BY <1>2 DEF Serve

(* Events that are left keep their task, or there was a mishap.            *)
LEMMA BatchKept ==
  ASSUME IInv, NEW e \in batch, Serve(e), NEW X, Later(hub, hub', X),
         \A x \in batch' : x.at \in X /\ x.at \in hub.task
                         => x.at \in hub'.task \/ hub'.stale # {} \/ hub'.mishaps # {}
  PROVE  BatchSound'
<1>1. SUFFICES ASSUME NEW x \in batch'
               PROVE  /\ x.at \in Links /\ "new" \notin x.ev
                      /\ x.at \in hub'.task \/ hub'.stale # {} \/ hub'.mishaps # {}
  BY DEF BatchSound
<1>2. x \in batch /\ x.at \in Links /\ "new" \notin x.ev
  BY LeftGoes
<1>3. x.at \in hub.task \/ hub.stale # {} \/ hub.mishaps # {}
  BY <1>2 DEF IInv, BatchSound
<1>4. QED
  BY <1>2, <1>3 DEF Later

LEMMA LinkIInv ==
  ASSUME IInv, NEW e \in batch, ServeLink(e)
  PROVE  IInv' /\ (hub'.pc = "run" => Kept(hub, hub'))
<1>1. /\ Serve(e) /\ e.at \in Links /\ "new" \notin e.ev /\ hub' \in Served(hub, e.at, e.ev)
      /\ Good(hub, {})
  BY DEF ServeLink, IInv
<1>2. e.at \in hub.task \/ hub.stale # {} \/ hub.mishaps # {}
  BY <1>1 DEF IInv, BatchSound
<1>3. hub.pc = "run"
  BY <1>1 DEF Serve
<1>4. Good(hub', {}) /\ Later(hub, hub', {e.at}) /\ (hub'.pc = "run" => Kept(hub, hub'))
  BY <1>1, <1>2, <1>3, ServedGood
<1>5. \A x \in batch' : x.at \in {e.at} /\ x.at \in hub.task
                       => x.at \in hub'.task \/ hub'.stale # {} \/ hub'.mishaps # {}
  BY <1>1, LeftGoes
<1>6. BatchSound'
  BY <1>1, <1>4, <1>5, BatchKept
<1>7. left' \in 0 .. MaxEvent /\ (left' = 0 => batch' = {})
  BY <1>1, LeftGoes
<1>8. QED
  BY <1>4, <1>6, <1>7 DEF IInv

LEMMA PortIInv ==
  ASSUME IInv, NEW e \in batch, ServePort(e)
  PROVE  /\ IInv' /\ e.at \in Ports
         /\ hub'.free = hub.free /\ \A r \in Links : r # e.at => hub'.pend[r] = hub.pend[r]
         /\ hub'.pend[e.at] \in {hub.pend[e.at], <<>>}
<1>1. Serve(e) /\ "new" \in e.ev /\ hub' \in new_conn(hub, e.at) /\ Good(hub, {}) /\ e.at \in Ports
  BY DEF ServePort, listen_progress, IInv, BatchSound
<1>2. hub.pc = "run"
  BY <1>1 DEF Serve
<1>3. /\ Good(hub', {}) /\ Later(hub, hub', {e.at})
      /\ e.at \in hub.task => e.at \in hub'.task \/ hub'.stale # {} \/ hub'.mishaps # {}
      /\ hub'.free = hub.free /\ \A r \in Links : r # e.at => hub'.pend[r] = hub.pend[r]
      /\ hub'.pend[e.at] \in {hub.pend[e.at], <<>>}
  BY <1>1, <1>2, ConnGood
<1>4. \A x \in batch' : x.at \in {e.at} /\ x.at \in hub.task
                       => x.at \in hub'.task \/ hub'.stale # {} \/ hub'.mishaps # {}
  BY <1>3
<1>5. BatchSound'
  BY <1>1, <1>3, <1>4, BatchKept
<1>6. left' \in 0 .. MaxEvent /\ (left' = 0 => batch' = {})
  BY <1>1, LeftGoes
<1>7. QED
  BY <1>1, <1>3, <1>5, <1>6 DEF IInv

LEMMA WatcherIInv ==
  ASSUME IInv, NEW e \in batch, ServeWatcher(e)
  PROVE  IInv' /\ SameBlocks(hub, hub')
<1>1. Serve(e) /\ hub' \in watch_progress(hub) /\ Good(hub, {})
  BY DEF ServeWatcher, IInv
<1>2. hub.pc = "run"
  BY <1>1 DEF Serve
<1>3. Good(hub', {}) /\ Later(hub, hub', {}) /\ SameBlocks(hub, hub')
  BY <1>1, <1>2, WatchGood
<1>4. \A x \in batch' : x.at \in {} /\ x.at \in hub.task
                       => x.at \in hub'.task \/ hub'.stale # {} \/ hub'.mishaps # {}
  OBVIOUS
<1>5. BatchSound'
  BY <1>1, <1>3, <1>4, BatchKept
<1>6. left' \in 0 .. MaxEvent /\ (left' = 0 => batch' = {})
  BY <1>1, LeftGoes
<1>7. QED
  BY <1>3, <1>5, <1>6 DEF IInv

LEMMA NextIInv ==
  ASSUME IInv, [Next]_vars
  PROVE  IInv'
<1>1. CASE UNCHANGED vars
  BY <1>1 DEF vars, IInv, BatchSound
<1>2. CASE Next
  BY <1>2, EpollIInv, LinkIInv, PortIInv, WatcherIInv DEF Next
<1>3. QED
  BY <1>1, <1>2

LEMMA SpecIInv == Spec => []IInv
BY InitIInv, NextIInv, PTL DEF Spec
-----------------------------------------------------------------------------
(* The variables have their types; above all, the callbacks of reactive.c  *)
(* leave no task on a handle that is not on the loop's list, and make      *)
(* requests for tcp2 and tcp3 only.                                        *)
THEOREM TypeCorrect == Spec => []TypeOK
<1>1. IInv => TypeOK
  <2>1. SUFFICES ASSUME Typed(hub), Waits(hub), Excused(hub), left \in 0 .. MaxEvent
                 PROVE  TypeOK
    BY DEF IInv, Good
  <2>2. \A s \in Links : hub.pend[s] \in Seq(Blocks \union {Log})
    BY <2>1 DEF Typed
  <2>3. \A s \in Links \ {"tcp2", "tcp3"} : hub.pend[s] = <<>>
    BY <2>1 DEF Waits, Links
  <2>4. hub.misled \subseteq Links
    BY <2>1 DEF Typed, Excused
  <2>5. QED
    BY <2>1, <2>2, <2>3, <2>4 DEF Typed, TypeOK, Bytes
<1>2. QED
  BY <1>1, SpecIInv, PTL

(* The fd of reactive.c's handles is -1 exactly when they are closed, and  *)
(* otherwise names their own connection, but for those whose accept failed *)
(* after the close of the old connection (reactive.c:147-181).             *)
THEOREM FdIsTrue == Spec => []FdTells
<1>1. IInv => FdTells
  <2>1. SUFFICES ASSUME Good(hub, {}), hub.pc = "run"
                 PROVE  FdTells
    BY DEF IInv, FdTells
  <2>2. ASSUME NEW s \in Links \ hub.stale
        PROVE  /\ hub.fd[s] = -1 <=> s \notin hub.listed
               /\ hub.fd[s] # -1 => hub.owner[hub.fd[s]] = s
    BY <2>1, FdSays
  <2>3. \A f \in Fds : hub.owner[f] # NULL => hub.fd[hub.owner[f]] = f
    BY <2>1 DEF Good, Named
  <2>4. QED
    BY <2>2, <2>3 DEF FdTells
<1>2. QED
  BY <1>1, SpecIInv, PTL

(* What reactive.c sends to a link reaches another connection only if an   *)
(* accept for that link failed before, although descriptors are used again *)
(* as soon as they are closed.                                             *)
THEOREM BytesGoWhereMeant == Spec => []RightConnection
<1>1. IInv => RightConnection
  BY DEF IInv, Good, Excused, RightConnection
<1>2. QED
  BY <1>1, SpecIInv, PTL

(* tcp3_read (reactive.c:117-146) obeys no command that its client did not *)
(* send, although at the end of the connection it looks into a block with  *)
(* old contents: storage_free has written a link over the first byte, and  *)
(* the address of a block, a multiple of 8, begins with no command.  Once  *)
(* the newline of reactive.c:103 has damaged the free list, what is taken  *)
(* for a block may begin with anything.                                    *)
THEOREM OnlySentCommands == Spec => []CommandsWereSent
<1>1. IInv => CommandsWereSent
  BY DEF IInv, Good, Excused, CommandsWereSent
<1>2. QED
  BY <1>1, SpecIInv, PTL

(* As long as no accept and no start of a task has failed, reactive.c      *)
(* closes no handle twice, has no event served for a link without a task,  *)
(* and makes no request on a handle whose requests were freed: what is     *)
(* left are a link closed in its own callback with requests waiting, the   *)
(* read of the freed task of the serial line (operation.c:120), and the    *)
(* free list that the newline of reactive.c:103 has damaged.               *)
THEOREM CrashesAreExcused == Spec => []NoCrash
<1>1. IInv => NoCrash
  BY DEF IInv, Good, Excused, NoCrash
<1>2. QED
  BY <1>1, SpecIInv, PTL

(* With more than two blocks, of which reactive.c:221 makes twelve, the    *)
(* pool is empty only when blocks were lost: a link that is ready always   *)
(* finds one to be read into.                                              *)
THEOREM BlockForTheNext == Spec => []AlwaysABlock
<1>1. ASSUME IInv, hub.free = <<>>
      PROVE  Lost(hub) # {}
  <2>1. PICK p : p = hub.pend["tcp2"]
    OBVIOUS
  <2>2. p \in Seq(Blocks) /\ Len(p) <= 2
    BY <1>1, <2>1 DEF IInv, Good, Waits
  <2>3. PICK a, c : \A i \in DOMAIN p : p[i] \in {a, c}
    <3>1. \A i \in DOMAIN p : i = 1 \/ i = 2
      BY <2>2
    <3>2. \A i \in DOMAIN p : p[i] \in {p[1], p[2]}
      BY <3>1
    <3>3. QED
      BY <3>2
  <2>4. IsFiniteSet({a, c}) /\ Cardinality({a, c}) <= 2
    <3>1. IsFiniteSet({a}) /\ Cardinality({a}) = 1
      BY FS_Singleton
    <3>2. {a, c} = {a} \union {c}
      OBVIOUS
    <3>3. IsFiniteSet({a} \union {c})
          /\ Cardinality({a} \union {c}) = IF c \in {a} THEN Cardinality({a}) ELSE Cardinality({a}) + 1
      BY <3>1, FS_AddElement
    <3>4. QED
      BY <3>1, <3>2, <3>3
  <2>5. ~ (Blocks \subseteq {a, c})
    <3>1. SUFFICES ASSUME Blocks \subseteq {a, c}
                   PROVE  FALSE
      OBVIOUS
    <3>2. Cardinality(Blocks) <= Cardinality({a, c})
      BY <2>4, <3>1, FS_Subset
    <3>3. Cardinality(Blocks) = PCount /\ PCount > 2 /\ PCount \in Nat /\ Cardinality({a, c}) \in Nat
      <4>1. 0 \in Int /\ PCount - 1 \in Int /\ PCount \in Nat /\ PCount > 2
        BY HubAssumption
      <4>2. Cardinality(0 .. PCount - 1) = IF 0 > PCount - 1 THEN 0 ELSE (PCount - 1) - 0 + 1
        BY <4>1, FS_Interval
      <4>3. Cardinality(Blocks) = PCount
        BY <4>1, <4>2 DEF Blocks
      <4>4. QED
        BY <2>4, <4>1, <4>3, FS_CardinalityType
    <3>4. QED
      BY <2>4, <3>2, <3>3
  <2>6. PICK b \in Blocks : b \notin {a, c}
    BY <2>5
  <2>7. ToSet(hub.free) = {}
    BY <1>1 DEF ToSet
  <2>8. b \in Lost(hub)
    BY <2>1, <2>3, <2>6, <2>7, LostAre
  <2>9. QED
    BY <2>8
<1>2. IInv => AlwaysABlock
  BY <1>1 DEF AlwaysABlock
<1>3. QED
  BY <1>2, SpecIInv, PTL

(* A block of the pool is free or waits for tcp2, never both and never     *)
(* twice; and as long as the program runs it is lost only when tcp2 is     *)
(* closed with requests, when a third request replaces the second          *)
(* (handle.c:61-79), when tcp2.fd is the number of a closed file, or when  *)
(* the newline behind 512 bytes (reactive.c:103) cuts the free list.       *)
THEOREM BlocksAreKept == Spec => BlocksKept
<1>1. ASSUME IInv, IInv', [Next]_vars, hub'.pc = "run"
      PROVE  /\ IsInjective(hub'.free) /\ IsInjective(hub'.pend["tcp2"])
             /\ ToSet(hub'.free) \intersect BlocksIn(hub'.pend["tcp2"]) = {}
             /\ Lost(hub') \subseteq Lost(hub) \union Mislaid(hub, hub')
                  \union (IF Tcp2Closed THEN BlocksIn(hub.pend["tcp2"]) ELSE {})
  <2>1. Pool(hub')
    BY <1>1 DEF IInv, Good
  <2>2. /\ IsInjective(hub'.free) /\ IsInjective(hub'.pend["tcp2"])
        /\ ToSet(hub'.free) \intersect BlocksIn(hub'.pend["tcp2"]) = {}
    <3>1. IsInjective(hub'.free) /\ IsInjective(hub'.pend["tcp2"])
      BY <2>1 DEF Pool, IsInjective
    <3>2. ToSet(hub'.pend["tcp2"]) = {hub'.pend["tcp2"][i] : i \in DOMAIN hub'.pend["tcp2"]}
      BY DEF ToSet
    <3>3. QED
      BY <2>1, <3>1, <3>2 DEF Pool, BlocksIn
  <2>3. SUFFICES Lost(hub') \subseteq Lost(hub) \union Mislaid(hub, hub')
                   \union (IF Tcp2Closed THEN BlocksIn(hub.pend["tcp2"]) ELSE {})
    BY <2>2
  <2>4. CASE EpollReturns \/ UNCHANGED vars
    BY <2>4 DEF EpollReturns, vars
  <2>5. CASE \E e \in batch : ServeLink(e)
    BY <1>1, <2>5, LinkIInv DEF Kept
  <2>6. CASE \E e \in batch : ServeWatcher(e)
    BY <1>1, <2>6, WatcherIInv, SameLost DEF SameBlocks
  <2>7. CASE \E e \in batch : ServePort(e)
    <3>1. PICK e \in batch : ServePort(e)
      BY <2>7
    <3>2. /\ hub'.free = hub.free /\ \A r \in Links : r # e.at => hub'.pend[r] = hub.pend[r]
      BY <1>1, <3>1, PortIInv
    <3>3. CASE e.at # "tcp2"
      <4>1. hub'.pend["tcp2"] = hub.pend["tcp2"]
        BY <3>2, <3>3 DEF Links
      <4>2. QED
        BY <3>2, <4>1, SameLost
    <3>4. CASE e.at = "tcp2"
      <4>1. e = Event("tcp2", {"new"})
        BY <1>1, <3>1, <3>4 DEF ServePort, IInv, BatchSound
      <4>2. Tcp2Closed
        BY <3>1, <4>1 DEF Tcp2Closed
      <4>3. Lost(hub') \subseteq Lost(hub) \union BlocksIn(hub.pend["tcp2"])
        BY <3>2 DEF Lost
      <4>4. QED
        BY <4>2, <4>3
    <3>5. QED
      BY <3>3, <3>4
  <2>8. QED
    BY <1>1, <2>4, <2>5, <2>6, <2>7 DEF Next
<1>2. QED
  BY <1>1, SpecIInv, PTL DEF BlocksKept, Spec
=============================================================================
