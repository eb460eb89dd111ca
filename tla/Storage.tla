------------------------------ MODULE Storage ------------------------------
(***************************************************************************)
(* utils/storage.c: a region of pcount blocks of psize bytes, the free     *)
(* ones linked through their own first word.  The word of a held block is  *)
(* the client's data, so the list lives in memory the clients write to.    *)
(*                                                                         *)
(* A block is its index in the region: base + i * psize is block i.        *)
(***************************************************************************)
EXTENDS Integers, FiniteSets

CONSTANTS
  PCount,    (* number of blocks                                           *)
  PSizes,    (* block sizes storage_segregate is called with               *)
  WordSize,  (* the size of a pointer                                         *)
  NULL,
  Data,      (* a word that is the address of no block                     *)
  Overruns   (* do clients write one byte past the block they hold, as     *)
             (* reactive.c:103 does after a read that fills the block?     *)

Blocks == 0 .. PCount - 1

ASSUME StorageAssumption ==
  /\ PCount \in Nat \ {0}
  /\ PSizes \subseteq Nat
  /\ WordSize \in Nat
  /\ NULL \notin Int
  /\ Data \notin Int \union {NULL}
  /\ Overruns \in BOOLEAN

VARIABLES
  pc,    (* has the storage been segregated, and is it still there?        *)
  iter,  (* segregate: the block to be linked next                         *)
  old,   (* segregate: the block linked last                               *)
  word,  (* the first word of each block                                   *)
  first, (* storage->first                                                 *)
  held,  (* the blocks clients hold                                        *)
  ret    (* what the last storage_alloc returned                           *)

vars == <<pc, iter, old, word, first, held, ret>>

Words == Blocks \union {NULL, Data}

Init ==
  /\ pc = "new"
  /\ iter = 0
  /\ old = NULL
  /\ word \in [Blocks -> {Data}]
  /\ first = NULL
  /\ held = {}
  /\ ret = NULL
-----------------------------------------------------------------------------
(* A block must have room for the link. *)
storage_segregate(psize) ==
  /\ pc = "new"
  /\ pc' = IF psize < WordSize THEN "refused" ELSE "segregating"
  /\ UNCHANGED <<iter, old, word, first, held, ret>>

(* Slips the runs must notice: the loop runs past the last block, ... *)
LinkPast ==
  /\ pc = "segregating"
  /\ iter <= PCount
  /\ word' = [word EXCEPT ![iter] = old]
  /\ old' = iter
  /\ iter' = iter + 1
  /\ UNCHANGED <<pc, first, held, ret>>

(* The loop of segregate: every block up to `end' points to the one before.*)
Link ==
  /\ pc = "segregating"
  /\ iter <= PCount - 1
  /\ word' = [word EXCEPT ![iter] = old]
  /\ old' = iter
  /\ iter' = iter + 1
  /\ UNCHANGED <<pc, first, held, ret>>

Linked ==
  /\ pc = "segregating"
  /\ iter > PCount - 1
  /\ first' = iter - 1
  /\ pc' = "ready"
  /\ UNCHANGED <<iter, old, word, held, ret>>

(* ... the last free block is not handed out, ... *)
AllocKeepsLast ==
  /\ pc = "ready"
  /\ first \in Blocks \union {NULL}
  /\ IF first # NULL /\ word[first] # NULL
       THEN first' = word[first] /\ held' = held \union {first} /\ ret' = first
       ELSE ret' = NULL /\ UNCHANGED <<first, held>>
  /\ UNCHANGED <<pc, iter, old, word>>

(* What a first that is no block makes it read is not modelled. *)
storage_alloc ==
  /\ pc = "ready"
  /\ first \in Blocks \union {NULL}
  /\ ret' = first
  /\ IF first # NULL
       THEN first' = word[first] /\ held' = held \union {first}
       ELSE UNCHANGED <<first, held>>
  /\ UNCHANGED <<pc, iter, old, word>>

(* ... or a freed block forgets the free blocks behind it. *)
FreeUnlinked(b) ==
  /\ pc = "ready"
  /\ b \in held
  /\ word' = [word EXCEPT ![b] = IF first = NULL THEN NULL ELSE word[first]]
  /\ first' = b
  /\ held' = held \ {b}
  /\ UNCHANGED <<pc, iter, old, ret>>

(* storage_free(NULL) returns -1 and changes nothing. *)
storage_free(b) ==
  /\ pc = "ready"
  /\ b \in held
  /\ word' = [word EXCEPT ![b] = first]
  /\ first' = b
  /\ held' = held \ {b}
  /\ UNCHANGED <<pc, iter, old, ret>>

storage_collapse ==
  /\ pc = "ready"
  /\ pc' = "collapsed"
  /\ UNCHANGED <<iter, old, word, first, held, ret>>

(* A client puts its data in a block it holds: any word, or, past the end, *)
(* a byte into the word of the next block.                                 *)
Store(b) ==
  /\ pc = "ready"
  /\ b \in held
  /\ \/ \E w \in Words : word' = [word EXCEPT ![b] = w]
     \/ Overruns /\ b + 1 \in Blocks /\ word' = [word EXCEPT ![b + 1] = Data]
  /\ UNCHANGED <<pc, iter, old, first, held, ret>>

Next ==
  \/ \E psize \in PSizes : storage_segregate(psize)
  \/ Link
  \/ Linked
  \/ storage_alloc
  \/ \E b \in Blocks : storage_free(b) \/ Store(b)
  \/ storage_collapse

Spec == Init /\ [][Next]_vars
-----------------------------------------------------------------------------
TypeOK ==
  /\ pc \in {"new", "refused", "segregating", "ready", "collapsed"}
  /\ iter \in 0 .. PCount
  /\ old \in Blocks \union {NULL}
  /\ word \in [Blocks -> Words]
  /\ first \in Words
  /\ held \subseteq Blocks
  /\ ret \in Words

(* s walks the free list from storage->first to its NULL, and meets every  *)
(* block that nobody holds, once, and no other.                            *)
IsFreeList(s, n) ==
  /\ first = IF n = 0 THEN NULL ELSE s[1]
  /\ \A i \in 1 .. n : word[s[i]] = IF i = n THEN NULL ELSE s[i + 1]
  /\ \A i, j \in 1 .. n : s[i] = s[j] => i = j
  /\ {s[i] : i \in 1 .. n} = Blocks \ held

FreeCount == PCount - Cardinality(held)

(* However allocations, frees and the clients' own data interleave, the    *)
(* free list is the list of the blocks that nobody holds.                  *)
FreeListSound ==
  pc = "ready" => \E s \in [1 .. FreeCount -> Blocks] : IsFreeList(s, FreeCount)

(* storage.c implements the pool: no block is handed out twice, and NULL   *)
(* is returned only when every block is held.                              *)
Pool == INSTANCE BlockPool WITH free <- Blocks \ held
ImplementsPool == Pool!Spec
=============================================================================
