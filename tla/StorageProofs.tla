--------------------------- MODULE StorageProofs ---------------------------
(***************************************************************************)
(* Proofs about Storage for any number and size of blocks.                 *)
(***************************************************************************)
EXTENDS Storage, FiniteSetTheorems, TLAPS

(* What segregate has done so far, and that nobody holds a block before it *)
(* is done.                                                                *)
Linking ==
  /\ pc \in {"new", "refused", "segregating"} => held = {} /\ first = NULL
  /\ pc = "new" => iter = 0 /\ old = NULL
  /\ pc = "segregating" =>
       /\ old = IF iter = 0 THEN NULL ELSE iter - 1
       /\ \A i \in 0 .. iter - 1 : word[i] = IF i = 0 THEN NULL ELSE i - 1

IInv == TypeOK /\ Linking /\ FreeListSound
-----------------------------------------------------------------------------
LEMMA InitTypeOK == Init => TypeOK
BY StorageAssumption DEF Init, TypeOK, Words, Blocks

LEMMA NextTypeOK == TypeOK /\ [Next]_vars => TypeOK'
<1> SUFFICES ASSUME TypeOK, [Next]_vars PROVE TypeOK'
  OBVIOUS
<1> USE StorageAssumption DEF TypeOK, Words, Blocks
<1>1. ASSUME NEW psize \in PSizes, storage_segregate(psize) PROVE TypeOK'
  BY <1>1 DEF storage_segregate
<1>2. CASE Link
  BY <1>2 DEF Link
<1>3. CASE Linked
  BY <1>3 DEF Linked
<1>4. CASE storage_alloc
  BY <1>4 DEF storage_alloc
<1>5. ASSUME NEW b \in Blocks, storage_free(b) PROVE TypeOK'
  BY <1>5 DEF storage_free
<1>6. ASSUME NEW b \in Blocks, Store(b) PROVE TypeOK'
  BY <1>6 DEF Store
<1>7. CASE storage_collapse
  BY <1>7 DEF storage_collapse
<1>8. CASE UNCHANGED vars
  BY <1>8 DEF vars
<1>9. QED
  BY <1>1, <1>2, <1>3, <1>4, <1>5, <1>6, <1>7, <1>8 DEF Next

(* The variables keep their types; segregate never links outside the       *)
(* region (storage.c:12-15), whatever the clients write.                   *)
THEOREM TypeCorrect == Spec => []TypeOK
BY InitTypeOK, NextTypeOK, PTL DEF Spec
-----------------------------------------------------------------------------
LEMMA HeldIsFinite ==
  ASSUME TypeOK
  PROVE  /\ IsFiniteSet(held)
         /\ FreeCount \in Nat
         /\ held = {} => FreeCount = PCount
<1>1. IsFiniteSet(Blocks) /\ Cardinality(Blocks) = PCount
  BY StorageAssumption, FS_Interval DEF Blocks
<1>2. IsFiniteSet(held) /\ Cardinality(held) <= PCount /\ Cardinality(held) \in Nat
  BY <1>1, FS_Subset, FS_CardinalityType DEF TypeOK
<1>3. QED
  BY <1>2, FS_EmptySet, StorageAssumption DEF FreeCount

(* An initialised list starts at the last block and goes down to the first.*)
LEMMA LinkedSound ==
  ASSUME IInv, Linked
  PROVE  FreeListSound'
<1> USE StorageAssumption DEF IInv
<1> DEFINE s == [i \in 1 .. PCount |-> PCount - i]
<1>1. iter = PCount /\ first' = PCount - 1 /\ held' = {} /\ word' = word /\ FreeCount' = PCount
  BY HeldIsFinite DEF Linked, Linking, TypeOK, FreeCount
<1>2. \A i \in Blocks : word[i] = IF i = 0 THEN NULL ELSE i - 1
  BY <1>1 DEF Linked, Linking, Blocks
<1>3. s \in [1 .. PCount -> Blocks]
  BY DEF Blocks
<1>4. {s[i] : i \in 1 .. PCount} = Blocks
  <2>1. \A b \in Blocks : PCount - b \in 1 .. PCount /\ s[PCount - b] = b
    BY DEF Blocks
  <2>2. QED
    BY <1>3, <2>1
<1>5. IsFreeList(s, PCount)'
  BY <1>1, <1>2, <1>3, <1>4 DEF IsFreeList, Blocks
<1>6. QED
  BY <1>1, <1>3, <1>5 DEF FreeListSound

(* An allocation takes the first block off the list.                       *)
LEMMA AllocSound ==
  ASSUME IInv, storage_alloc
  PROVE  FreeListSound'
<1> USE StorageAssumption DEF IInv
<1>1. PICK m : m = FreeCount
  OBVIOUS
<1>2. PICK s \in [1 .. m -> Blocks] : IsFreeList(s, m)
  BY <1>1 DEF FreeListSound, storage_alloc
<1>3. m \in Nat /\ IsFiniteSet(held) /\ Cardinality(held) \in Nat /\ m = PCount - Cardinality(held)
  BY <1>1, HeldIsFinite, FS_CardinalityType DEF FreeCount
<1>4. CASE first = NULL
  BY <1>1, <1>2, <1>4 DEF FreeListSound, IsFreeList, FreeCount, storage_alloc
<1>5. CASE first # NULL
  <2>1. m # 0 /\ first = s[1] /\ first \in Blocks \ held
    BY <1>2, <1>3, <1>5 DEF IsFreeList
  <2>2. PICK n \in Nat : n = m - 1
    BY <1>3, <2>1
  <2>3. PICK t : t = [i \in 1 .. n |-> s[i + 1]]
    OBVIOUS
  <2>4. held' = held \union {first} /\ word' = word /\ first' = word[first]
    BY <1>5 DEF storage_alloc
  <2>5. FreeCount' = n
    <3>1. Cardinality(held') = Cardinality(held) + 1
      BY <1>3, <2>1, <2>4, FS_AddElement
    <3>2. QED
      BY <1>3, <2>2, <3>1 DEF FreeCount
  <2>6. \A i \in 1 .. n : i + 1 \in 1 .. m /\ t[i] = s[i + 1]
    BY <1>3, <2>2, <2>3
  <2>7. t \in [1 .. n -> Blocks]
    BY <2>3, <2>6
  <2>8. first' = IF n = 0 THEN NULL ELSE t[1]
    BY <1>2, <1>3, <2>1, <2>2, <2>4, <2>6 DEF IsFreeList
  <2>9. \A i \in 1 .. n : word'[t[i]] = IF i = n THEN NULL ELSE t[i + 1]
    <3>1. ASSUME NEW i \in 1 .. n
          PROVE  word'[t[i]] = IF i + 1 = m THEN NULL ELSE s[i + 2]
      <4>1. i + 1 \in 1 .. m /\ word'[t[i]] = word[s[i + 1]] /\ (i + 1) + 1 = i + 2
        BY <2>4, <2>6
      <4>2. QED
        BY <1>2, <4>1 DEF IsFreeList
    <3>2. ASSUME NEW i \in 1 .. n, i # n
          PROVE  t[i + 1] = s[i + 2]
      <4>1. i + 1 \in 1 .. n /\ (i + 1) + 1 = i + 2
        BY <3>2
      <4>2. QED
        BY <2>6, <4>1
    <3>3. QED
      BY <1>3, <2>2, <3>1, <3>2
  <2>10. \A i, j \in 1 .. n : t[i] = t[j] => i = j
    BY <1>2, <2>6 DEF IsFreeList
  <2>11. {t[i] : i \in 1 .. n} = Blocks \ held'
    <3>1. ASSUME NEW b \in Blocks \ held'
          PROVE  \E i \in 1 .. n : t[i] = b
      <4>1. PICK i \in 1 .. m : s[i] = b
        BY <1>2, <2>4 DEF IsFreeList
      <4>2. i # 1
        BY <2>1, <2>4, <4>1
      <4>3. i - 1 \in 1 .. n /\ t[i - 1] = b
        BY <1>3, <2>2, <2>6, <4>1, <4>2
      <4>4. QED
        BY <4>3
    <3>2. ASSUME NEW i \in 1 .. n
          PROVE  t[i] \in Blocks \ held'
      <4>1. t[i] \in Blocks \ held
        BY <1>2, <2>6 DEF IsFreeList
      <4>2. t[i] # s[1]
        BY <1>2, <1>3, <2>1, <2>6 DEF IsFreeList
      <4>3. QED
        BY <2>1, <2>4, <4>1, <4>2
    <3>3. QED
      BY <3>1, <3>2
  <2>12. IsFreeList(t, n)'
    BY <2>8, <2>9, <2>10, <2>11 DEF IsFreeList, Blocks
  <2>13. QED
    BY <2>5, <2>7, <2>12 DEF FreeListSound, Blocks
<1>6. QED
  BY <1>4, <1>5

(* A free puts the block in front of the list.                             *)
LEMMA FreeSound ==
  ASSUME IInv, NEW b \in Blocks, storage_free(b)
  PROVE  FreeListSound'
<1> USE StorageAssumption DEF IInv
<1>1. PICK m : m = FreeCount
  OBVIOUS
<1>2. PICK s \in [1 .. m -> Blocks] : IsFreeList(s, m)
  BY <1>1 DEF FreeListSound, storage_free
<1>3. m \in Nat /\ IsFiniteSet(held) /\ Cardinality(held) \in Nat /\ m = PCount - Cardinality(held)
  BY <1>1, HeldIsFinite, FS_CardinalityType DEF FreeCount
<1>4. PICK n \in Nat : n = m + 1
  BY <1>3
<1>5. PICK t : t = [i \in 1 .. n |-> IF i = 1 THEN b ELSE s[i - 1]]
  OBVIOUS
<1>6. b \in held /\ held' = held \ {b} /\ first' = b
  BY DEF storage_free
<1>7. FreeCount' = n
  <2>1. Cardinality(held') = Cardinality(held) - 1
    BY <1>3, <1>6, FS_RemoveElement
  <2>2. QED
    BY <1>3, <1>4, <2>1 DEF FreeCount
<1>8. \A i \in 1 .. m : s[i] \in Blocks \ held /\ s[i] # b
  BY <1>2, <1>6 DEF IsFreeList
<1>9. word'[b] = first /\ \A i \in 1 .. m : word'[s[i]] = word[s[i]]
  BY <1>8 DEF storage_free, TypeOK
<1>10. /\ t[1] = b /\ 1 \in 1 .. n
       /\ \A i \in 1 .. n : i # 1 => i - 1 \in 1 .. m /\ t[i] = s[i - 1]
  BY <1>3, <1>4, <1>5
<1>11. t \in [1 .. n -> Blocks]
  BY <1>5, <1>8, <1>10
<1>12. \A i \in 1 .. n : word'[t[i]] = IF i = n THEN NULL ELSE t[i + 1]
  <2>1. word'[t[1]] = IF n = 1 THEN NULL ELSE t[2]
    BY <1>2, <1>3, <1>4, <1>9, <1>10 DEF IsFreeList
  <2>2. ASSUME NEW i \in 1 .. n, i # 1
        PROVE  word'[t[i]] = IF i = n THEN NULL ELSE t[i + 1]
    <3>1. i - 1 \in 1 .. m /\ word'[t[i]] = word[s[i - 1]]
      BY <1>9, <1>10, <2>2
    <3>2. word[s[i - 1]] = IF i - 1 = m THEN NULL ELSE s[i]
      BY <1>2, <3>1 DEF IsFreeList
    <3>3. i # n => t[i + 1] = s[i]
      BY <1>4, <1>10, <2>2
    <3>4. QED
      BY <1>3, <1>4, <3>1, <3>2, <3>3
  <2>3. QED
    BY <2>1, <2>2
<1>13. \A i, j \in 1 .. n : t[i] = t[j] => i = j
  BY <1>2, <1>8, <1>10 DEF IsFreeList
<1>14. {t[i] : i \in 1 .. n} = Blocks \ held'
  <2>1. \A i \in 1 .. n : t[i] \in Blocks \ held'
    BY <1>6, <1>8, <1>10
  <2>2. ASSUME NEW x \in Blocks \ held', x # b
        PROVE  \E i \in 1 .. n : t[i] = x
    <3>1. PICK i \in 1 .. m : s[i] = x
      BY <1>2, <1>6, <2>2 DEF IsFreeList
    <3>2. i + 1 \in 1 .. n /\ t[i + 1] = x
      BY <1>3, <1>4, <1>10, <3>1
    <3>3. QED
      BY <3>2
  <2>3. QED
    BY <1>10, <2>1, <2>2
<1>15. IsFreeList(t, n)'
  BY <1>4, <1>3, <1>6, <1>10, <1>12, <1>13, <1>14 DEF IsFreeList, Blocks
<1>16. QED
  BY <1>7, <1>11, <1>15 DEF FreeListSound, Blocks

LEMMA NextIInv ==
  ASSUME Overruns = FALSE, IInv, [Next]_vars
  PROVE  IInv'
<1> USE StorageAssumption DEF IInv
<1>1. TypeOK'
  BY NextTypeOK
<1>2. Linking'
  <2>1. ASSUME NEW psize \in PSizes, storage_segregate(psize) PROVE Linking'
    BY <2>1 DEF Linking, TypeOK, storage_segregate
  <2>2. CASE Link
    BY <2>2 DEF Linking, TypeOK, Link, Blocks
  <2>3. CASE Linked \/ storage_alloc \/ storage_collapse
    BY <2>3 DEF Linking, Linked, storage_alloc, storage_collapse
  <2>4. ASSUME NEW b \in Blocks, storage_free(b) \/ Store(b) PROVE Linking'
    BY <2>4 DEF Linking, storage_free, Store
  <2>5. CASE UNCHANGED vars
    BY <2>5 DEF Linking, vars
  <2>6. QED
    BY <2>1, <2>2, <2>3, <2>4, <2>5 DEF Next
<1>3. FreeListSound'
  <2>1. ASSUME NEW b \in Blocks, Store(b) PROVE FreeListSound'
    <3>1. PICK m : m = FreeCount
      OBVIOUS
    <3>2. PICK s \in [1 .. m -> Blocks] : IsFreeList(s, m)
      BY <2>1, <3>1 DEF FreeListSound, Store
    <3>3. \A i \in 1 .. m : word'[s[i]] = word[s[i]]
      BY <2>1, <3>2 DEF IsFreeList, Store, TypeOK
    <3>4. FreeCount' = m /\ first' = first /\ held' = held
      BY <2>1, <3>1 DEF FreeCount, Store
    <3>5. IsFreeList(s, m)'
      BY <3>2, <3>3, <3>4 DEF IsFreeList
    <3>6. QED
      BY <3>2, <3>4, <3>5 DEF FreeListSound
  <2>2. CASE UNCHANGED vars
    BY <2>2 DEF vars, FreeListSound, IsFreeList, FreeCount
  <2>3. QED
    BY <2>1, <2>2, LinkedSound, AllocSound, FreeSound
       DEF Next, FreeListSound, storage_segregate, Link, storage_collapse
<1>4. QED
  BY <1>1, <1>2, <1>3

LEMMA SpecIInv ==
  ASSUME Overruns = FALSE
  PROVE  Spec => []IInv
<1>1. Init => IInv
  BY InitTypeOK DEF Init, IInv, Linking, FreeListSound
<1>2. IInv /\ [Next]_vars => IInv'
  BY NextIInv
<1>3. QED
  BY <1>1, <1>2, PTL DEF Spec

(* As long as clients write only inside the blocks they hold, the list of  *)
(* free blocks that runs through the region (storage.c:33-45) is whole.    *)
THEOREM FreeListIsSound ==
  ASSUME Overruns = FALSE
  PROVE  Spec => []FreeListSound
<1>1. IInv => FreeListSound
  BY DEF IInv
<1>2. QED
  BY <1>1, SpecIInv, PTL

(* Then storage_alloc and storage_free are a pool of blocks: no block is   *)
(* handed out twice, and NULL is returned only when all are held.          *)
THEOREM PoolImplemented ==
  ASSUME Overruns = FALSE
  PROVE  Spec => ImplementsPool
<1>1. Init => Pool!Init
  BY DEF Init, Pool!Init
<1>2. IInv /\ [Next]_vars => [Pool!Next]_<<Blocks \ held, ret>>
  <2> SUFFICES ASSUME IInv, [Next]_vars
               PROVE  Pool!Next \/ UNCHANGED <<Blocks \ held, ret>>
    OBVIOUS
  <2>1. CASE storage_alloc
    <3>1. PICK s \in [1 .. FreeCount -> Blocks] : IsFreeList(s, FreeCount)
      BY <2>1 DEF IInv, FreeListSound, storage_alloc
    <3>2. FreeCount \in Nat
      BY HeldIsFinite DEF IInv
    <3>3. CASE first = NULL
      <4>1. FreeCount = 0
        BY <3>1, <3>2, <3>3, StorageAssumption DEF IsFreeList, Blocks
      <4>2. Blocks \ held = {}
        BY <3>1, <4>1 DEF IsFreeList
      <4>3. QED
        BY <2>1, <3>3, <4>2 DEF storage_alloc, Pool!Next, Pool!TakeNone
    <3>4. CASE first # NULL
      <4>1. first \in Blocks \ held
        BY <3>1, <3>2, <3>4 DEF IsFreeList
      <4>2. Pool!Take(first)
        BY <2>1, <3>4, <4>1 DEF storage_alloc, Pool!Take
      <4>3. QED
        BY <4>1, <4>2 DEF Pool!Next
    <3>5. QED
      BY <3>3, <3>4
  <2>2. ASSUME NEW b \in Blocks, storage_free(b)
        PROVE  Pool!Next
    <3>1. Pool!Give(b)
      BY <2>2 DEF storage_free, Pool!Give
    <3>2. QED
      BY <3>1 DEF Pool!Next
  <2>3. CASE UNCHANGED <<held, ret>>
    BY <2>3
  <2>4. QED
    BY <2>1, <2>2, <2>3 DEF Next, vars, storage_segregate, Link, Linked, storage_collapse, Store
<1>3. QED
  BY <1>1, <1>2, SpecIInv, PTL DEF Spec, ImplementsPool, Pool!Spec
=============================================================================
