---------------------------- MODULE StreamProofs ----------------------------
(***************************************************************************)
(* Proofs about Stream for any number of writes and sends, of any lengths, *)
(* and any number of EWOULDBLOCKs.                                         *)
(***************************************************************************)
EXTENDS Stream, SequenceTheorems, TLAPS

(* What was not made yet has left no trace. *)
Fresh == \A w \in Ids \ Made : told[w] = None /\ progress[w] = 0 /\ again[w] = 0

(* The requests wait in the order they were made, and their callbacks have *)
(* not run, but for the first one when its callback is running.            *)
Waiting ==
  /\ \A i, j \in DOMAIN q : i < j => q[i] < q[j]
  /\ \A i \in DOMAIN q : told[q[i]] = None \/ (i = 1 /\ pc = "cb")

(* progress is between what the refusals took from it and the length, and  *)
(* what it says is written is written.                                     *)
ProgressTrue ==
  \A w \in Made : /\ -again[w] <= progress[w] /\ progress[w] <= len[w]
                  /\ 0 .. progress[w] - 1 \subseteq Taken(w)

(* Without overtaking, nothing newer than the first request was taken.     *)
TurnSoFar == ~overtook => \A i \in DOMAIN file : q # <<>> => file[i][1] <= q[1]

IInv == TypeOK /\ Fresh /\ Waiting /\ ProgressTrue /\ TurnSoFar
        /\ InOrderOnce /\ TakenWhenTold /\ InTurn

(* The bytes of w come in the order they have in its buffer. *)
Rising(w) == \A i, j \in Where(w) : i < j => file[i][2] < file[j][2]

Byte == Made \X (-MaxAgain .. MaxLen)
-----------------------------------------------------------------------------
(* The handle takes n bytes of w, from the a-th on.                        *)

LEMMA BytesAre ==
  ASSUME NEW U, NEW w, NEW a \in Int, NEW n \in Nat,
         \A i \in a .. a + n - 1 : <<w, i>> \in U
  PROVE  /\ Bytes(w, a, n) \in Seq(U) /\ Len(Bytes(w, a, n)) = n
         /\ \A i \in 1 .. n : Bytes(w, a, n)[i] = <<w, a + i - 1>>
<1>1. \A i \in 1 .. n : <<w, a + i - 1>> \in U
  <2> TAKE i \in 1 .. n
  <2>1. a + i - 1 \in a .. a + n - 1
    OBVIOUS
  <2>2. QED
    BY <2>1
<1>2. \A i \in 1 .. n : Bytes(w, a, n)[i] = <<w, a + i - 1>>
  BY DEF Bytes
<1>3. Bytes(w, a, n) \in [1 .. n -> U]
  BY <1>1 DEF Bytes
<1>4. QED
  BY <1>2, <1>3

Grown(w, a, n) ==
  /\ Len(file) \in Nat
  /\ DOMAIN file = 1 .. Len(file) /\ DOMAIN file' = 1 .. Len(file) + n
  /\ \A i \in 1 .. Len(file) : file'[i] = file[i]
  /\ \A i \in Len(file) + 1 .. Len(file) + n :
       file'[i][1] = w /\ file'[i][2] = a + (i - Len(file)) - 1

LEMMA Appended ==
  ASSUME NEW U, file \in Seq(U), NEW w, NEW a \in Int, NEW n \in Nat,
         \A i \in a .. a + n - 1 : <<w, i>> \in U,
         file' = file \o Bytes(w, a, n)
  PROVE  file' \in Seq(U) /\ Grown(w, a, n)
<1>1. PICK new : new = Bytes(w, a, n)
  OBVIOUS
<1>2. new \in Seq(U) /\ Len(new) = n /\ \A i \in 1 .. n : new[i] = <<w, a + i - 1>>
  BY <1>1, BytesAre
<1>3. Len(file) \in Nat /\ DOMAIN file = 1 .. Len(file)
  BY LenProperties
<1>4. /\ file' \in Seq(U) /\ Len(file') = Len(file) + n
      /\ \A i \in 1 .. Len(file) + n :
           file'[i] = IF i <= Len(file) THEN file[i] ELSE new[i - Len(file)]
  <2>1. /\ file \o new \in Seq(U) /\ Len(file \o new) = Len(file) + Len(new)
        /\ \A i \in 1 .. Len(file) + Len(new) :
             (file \o new)[i] = IF i <= Len(file) THEN file[i] ELSE new[i - Len(file)]
    BY <1>2, ConcatProperties
  <2>2. file' = file \o new
    BY <1>1
  <2>3. QED
    BY <1>2, <2>1, <2>2
<1>5. DOMAIN file' = 1 .. Len(file) + n
  BY <1>4, LenProperties
<1>6. \A i \in 1 .. Len(file) : file'[i] = file[i]
  BY <1>3, <1>4
<1>7. ASSUME NEW i \in Len(file) + 1 .. Len(file) + n
      PROVE  file'[i][1] = w /\ file'[i][2] = a + (i - Len(file)) - 1
  <2>1. i - Len(file) \in 1 .. n /\ file'[i] = new[i - Len(file)]
    BY <1>3, <1>4
  <2>2. new[i - Len(file)] = <<w, a + (i - Len(file)) - 1>>
    BY <1>2, <2>1
  <2>3. QED
    BY <2>1, <2>2
<1>8. QED
  BY <1>3, <1>4, <1>5, <1>6, <1>7 DEF Grown

(* It has no part in what other writes have in the file, and adds those n  *)
(* bytes to its own.                                                       *)
LEMMA WhereTaken ==
  ASSUME NEW U, file \in Seq(U), NEW w, NEW a \in Int, NEW n \in Nat,
         \A i \in a .. a + n - 1 : <<w, i>> \in U,
         file' = file \o Bytes(w, a, n)
  PROVE  /\ \A v : v # w => Where(v)' = Where(v) /\ Taken(v)' = Taken(v)
         /\ \A v : v # w => (Rising(v) => Rising(v)')
         /\ Where(w)' = Where(w) \union (Len(file) + 1 .. Len(file) + n)
         /\ Taken(w)' = Taken(w) \union (a .. a + n - 1)
<1>1. /\ Len(file) \in Nat
      /\ DOMAIN file = 1 .. Len(file) /\ DOMAIN file' = 1 .. Len(file) + n
      /\ \A i \in 1 .. Len(file) : file'[i] = file[i]
      /\ \A i \in Len(file) + 1 .. Len(file) + n :
           file'[i][1] = w /\ file'[i][2] = a + (i - Len(file)) - 1
  <2>1. Grown(w, a, n)
    BY Appended, SMTT(30)
  <2>2. QED
    BY <2>1 DEF Grown
<1>2. \A i \in 1 .. Len(file) + n : i \in 1 .. Len(file) \/ i \in Len(file) + 1 .. Len(file) + n
  BY <1>1
<1>3. /\ \A i \in 1 .. Len(file) : i \in 1 .. Len(file) + n
      /\ \A i \in Len(file) + 1 .. Len(file) + n : i \in 1 .. Len(file) + n
  BY <1>1
<1>4. ASSUME NEW v, v # w
      PROVE  Where(v)' = Where(v)
  BY <1>1, <1>2, <1>3, <1>4 DEF Where
<1>5. ASSUME NEW v, v # w
      PROVE  /\ Taken(v)' = Taken(v)
             /\ Rising(v) => Rising(v)'
  <2>1. \A i \in Where(v) : file'[i] = file[i]
    BY <1>1 DEF Where
  <2>2. QED
    BY <1>4, <1>5, <2>1 DEF Taken, Rising
<1>6. Where(w)' = Where(w) \union (Len(file) + 1 .. Len(file) + n)
  BY <1>1, <1>2, <1>3 DEF Where
<1>7. Taken(w)' = Taken(w) \union (a .. a + n - 1)
  <2>1. Taken(w)' = {file'[i][2] : i \in Where(w)'}
    BY DEF Taken
  <2>2. \A i \in Where(w) : file'[i] = file[i]
    BY <1>1 DEF Where
  <2>3. ASSUME NEW i \in Where(w)'
        PROVE  file'[i][2] \in Taken(w) \union (a .. a + n - 1)
    <3>1. CASE i \in Where(w)
      BY <2>2, <3>1 DEF Taken
    <3>2. CASE i \in Len(file) + 1 .. Len(file) + n
      BY <1>1, <3>2, SMTT(60)
    <3>3. QED
      BY <1>6, <3>1, <3>2
  <2>4. ASSUME NEW b \in Taken(w)
        PROVE  b \in Taken(w)'
    BY <1>6, <2>1, <2>2 DEF Taken
  <2>5. ASSUME NEW b \in a .. a + n - 1
        PROVE  b \in Taken(w)'
    <3>1. PICK i : i = Len(file) + (b - a) + 1
      OBVIOUS
    <3>2. i \in Len(file) + 1 .. Len(file) + n /\ a + (i - Len(file)) - 1 = b
      BY <1>1, <3>1
    <3>3. QED
      BY <1>1, <1>6, <2>1, <3>2
  <2>6. QED
    BY <2>1, <2>3, <2>4, <2>5
<1>8. QED
  BY <1>4, <1>5, <1>6, <1>7

(* Bytes that go on where the last ones ended. *)
LEMMA GoesOn ==
  ASSUME NEW U, file \in Seq(U), NEW w, NEW k \in Nat, NEW n \in Nat,
         \A i \in k .. k + n - 1 : <<w, i>> \in U,
         file' = file \o Bytes(w, k, n), Rising(w), Taken(w) = 0 .. k - 1
  PROVE  Rising(w)' /\ Taken(w)' = 0 .. k + n - 1
<1>1. /\ Len(file) \in Nat /\ DOMAIN file = 1 .. Len(file)
      /\ \A i \in 1 .. Len(file) : file'[i] = file[i]
      /\ \A i \in Len(file) + 1 .. Len(file) + n :
           file'[i][1] = w /\ file'[i][2] = k + (i - Len(file)) - 1
  <2>1. Grown(w, k, n)
    BY Appended, SMTT(30)
  <2>2. QED
    BY <2>1 DEF Grown
<1>2. /\ Where(w)' = Where(w) \union (Len(file) + 1 .. Len(file) + n)
      /\ Taken(w)' = Taken(w) \union (k .. k + n - 1)
  BY WhereTaken, SMTT(30)
<1>3. Taken(w)' = 0 .. k + n - 1
  BY <1>2
<1>4. \A i \in Where(w) : i \in 1 .. Len(file) /\ file[i][2] \in 0 .. k - 1
  BY <1>1 DEF Where, Taken
<1>5. ASSUME NEW i \in Where(w)', NEW j \in Where(w)', i < j
      PROVE  file'[i][2] < file'[j][2]
  <2>1. CASE i \in Where(w) /\ j \in Where(w)
    BY <1>1, <1>4, <1>5, <2>1 DEF Rising
  <2>2. CASE i \in Where(w) /\ j \in Len(file) + 1 .. Len(file) + n
    <3>1. file'[i][2] \in 0 .. k - 1
      BY <1>1, <1>4, <2>2
    <3>2. file'[j][2] = k + (j - Len(file)) - 1
      BY <1>1, <2>2
    <3>3. PICK d : d = j - Len(file)
      OBVIOUS
    <3>4. d \in Nat /\ d >= 1 /\ file'[j][2] = k + d - 1
      BY <1>1, <2>2, <3>2, <3>3
    <3>5. \A x \in 0 .. k - 1 : x < k + d - 1
      BY <3>4
    <3>6. QED
      BY <3>1, <3>4, <3>5
  <2>3. CASE i \in Len(file) + 1 .. Len(file) + n
    <3>1. j \in Len(file) + 1 .. Len(file) + n
      BY <1>1, <1>2, <1>4, <1>5, <2>3
    <3>2. /\ file'[i][2] = k + (i - Len(file)) - 1
          /\ file'[j][2] = k + (j - Len(file)) - 1
      BY <1>1, <2>3, <3>1
    <3>3. k + (i - Len(file)) - 1 < k + (j - Len(file)) - 1
      BY <1>1, <1>5, <2>3, <3>1
    <3>4. QED
      BY <3>2, <3>3
  <2>4. QED
    BY <1>2, <2>1, <2>2, <2>3
<1>6. QED
  BY <1>3, <1>5 DEF Rising

Ordered == \A i, j \in DOMAIN file : i < j => file[i][1] <= file[j][1]

(* Bytes of a write that nothing newer was taken before. *)
LEMMA StillOrdered ==
  ASSUME NEW U, file \in Seq(U), NEW w \in Nat, NEW a \in Int, NEW n \in Nat,
         \A i \in a .. a + n - 1 : <<w, i>> \in U,
         file' = file \o Bytes(w, a, n), Ordered,
         \A i \in DOMAIN file : file[i][1] <= w
  PROVE  Ordered' /\ \A i \in DOMAIN file' : file'[i][1] <= w
<1>1. /\ Len(file) \in Nat
      /\ DOMAIN file = 1 .. Len(file) /\ DOMAIN file' = 1 .. Len(file) + n
      /\ \A i \in 1 .. Len(file) : file'[i] = file[i]
      /\ \A i \in Len(file) + 1 .. Len(file) + n : file'[i][1] = w
  <2>1. Grown(w, a, n)
    BY Appended, SMTT(30)
  <2>2. QED
    BY <2>1 DEF Grown
<1>2. \A i \in 1 .. Len(file) + n : i \in 1 .. Len(file) \/ i \in Len(file) + 1 .. Len(file) + n
  BY <1>1
<1>3. \A i \in DOMAIN file' : file'[i][1] <= w
  BY <1>1, <1>2
<1>4. ASSUME NEW i \in DOMAIN file', NEW j \in DOMAIN file', i < j
      PROVE  file'[i][1] <= file'[j][1]
  <2>1. CASE j \in 1 .. Len(file)
    <3>1. i \in 1 .. Len(file)
      BY <1>1, <1>4, <2>1
    <3>2. QED
      BY <1>1, <1>4, <2>1, <3>1 DEF Ordered
  <2>2. CASE j \in Len(file) + 1 .. Len(file) + n
    BY <1>1, <1>3, <2>2
  <2>3. QED
    BY <1>1, <1>2, <2>1, <2>2
<1>5. QED
  BY <1>3, <1>4 DEF Ordered
-----------------------------------------------------------------------------
(* The request that is first when the loop is about to run it. *)
LEMMA FirstRequest ==
  ASSUME IInv, pc = "reqs", NEW w, w = Head(q)
  PROVE  /\ q # <<>> /\ 1 \in DOMAIN q /\ w = q[1] /\ w \in Made /\ w \in Ids
         /\ told[w] = None /\ \A i \in DOMAIN q : told[q[i]] = None
         /\ \A i \in DOMAIN q : i # 1 => q[i] # w
         /\ progress[w] \in Int /\ again[w] \in 0 .. MaxAgain /\ len[w] \in 0 .. MaxLen
         /\ -again[w] <= progress[w] /\ progress[w] <= len[w]
<1> USE StreamAssumption
<1>1. q # <<>> /\ q \in Seq(Made)
  BY DEF IInv, TypeOK
<1>2. 1 \in DOMAIN q /\ w = q[1]
  <2>1. Len(q) \in Nat \ {0}
    BY <1>1, EmptySeq
  <2>2. QED
    BY <1>1, <2>1, LenProperties
<1>3. w \in Made /\ w \in Ids
  <2>1. w \in Made
    BY <1>1, <1>2, LenProperties, ElementOfSeq
  <2>2. made \in 0 .. MaxWrites
    BY DEF IInv, TypeOK
  <2>3. QED
    BY <2>1, <2>2 DEF Made, Ids
<1>4. \A i \in DOMAIN q : told[q[i]] = None
  BY DEF IInv, Waiting
<1>5. \A i \in DOMAIN q : i # 1 => q[i] # w
  BY <1>2 DEF IInv, TypeOK
<1>6. progress[w] \in Int /\ again[w] \in 0 .. MaxAgain /\ len[w] \in 0 .. MaxLen
  BY <1>3 DEF IInv, TypeOK
<1>7. -again[w] <= progress[w] /\ progress[w] <= len[w]
  BY <1>3 DEF IInv, ProgressTrue
<1>8. QED
  BY <1>1, <1>2, <1>3, <1>4, <1>5, <1>6, <1>7

(* write_progress, when the handle takes n bytes of w. *)
LEMMA WriteTakesKeeps ==
  ASSUME IInv, NEW n \in Int, WriteTakes(n)
  PROVE  IInv'
<1> USE StreamAssumption
<1>1. PICK w : w = Head(q)
  OBVIOUS
<1>2. PICK a : a = progress[w]
  OBVIOUS
<1>3. /\ pc = "reqs" /\ kind[w] = "write" /\ n \in Results(len[w] - a) /\ n >= 0
      /\ file' = file \o Bytes(w, a, n)
      /\ \/ n = len[w] - a /\ pc' = "cb" /\ told' = [told EXCEPT ![w] = len[w]] /\ UNCHANGED progress
         \/ n < len[w] - a /\ progress' = [progress EXCEPT ![w] = @ + n] /\ pc' = "idle" /\ UNCHANGED told
      /\ UNCHANGED <<q, made, kind, len, broken, again, overtook>>
  BY <1>1, <1>2 DEF WriteTakes, Completed
<1>4. /\ q # <<>> /\ 1 \in DOMAIN q /\ w = q[1] /\ w \in Made /\ w \in Ids
      /\ told[w] = None /\ \A i \in DOMAIN q : told[q[i]] = None
      /\ \A i \in DOMAIN q : i # 1 => q[i] # w
      /\ a \in Int /\ again[w] \in 0 .. MaxAgain /\ len[w] \in 0 .. MaxLen
      /\ -again[w] <= a /\ a <= len[w]
  BY <1>1, <1>2, <1>3, FirstRequest, SMTT(30)
<1>5. n \in Nat /\ n <= len[w] - a
  BY <1>3, <1>4 DEF Results
<1>6. file \in Seq(Byte) /\ Byte' = Byte
  BY <1>3 DEF IInv, TypeOK, Byte, Made
<1>7. \A i \in a .. a + n - 1 : <<w, i>> \in Byte
  <2>1. ASSUME NEW i \in a .. a + n - 1
        PROVE  i \in -MaxAgain .. MaxLen
    BY <1>4, <1>5
  <2>2. QED
    BY <1>4, <2>1 DEF Byte
<1>8. /\ \A v : v # w => Where(v)' = Where(v) /\ Taken(v)' = Taken(v)
      /\ \A v : v # w => (Rising(v) => Rising(v)')
      /\ Taken(w)' = Taken(w) \union (a .. a + n - 1)
  <2>1. a \in Int /\ n \in Nat /\ file' = file \o Bytes(w, a, n) /\ file \in Seq(Byte)
    BY <1>3, <1>4, <1>5, <1>6
  <2>2. QED
    BY <2>1, <1>7, WhereTaken, SMTT(30)
<1>9. \A v \in Ids : v # w => told'[v] = told[v] /\ progress'[v] = progress[v]
  BY <1>3 DEF IInv, TypeOK
<1>10. \/ n = len[w] - a /\ pc' = "cb" /\ told'[w] = len[w] /\ progress'[w] = a
       \/ n < len[w] - a /\ pc' = "idle" /\ told'[w] = None /\ progress'[w] = a + n
  <2>1. told \in [Ids -> (0 .. MaxLen) \union {None}] /\ progress \in [Ids -> -MaxAgain .. MaxLen]
    BY DEF IInv, TypeOK
  <2>2. QED
    BY <1>2, <1>3, <1>4, <2>1
<1>11. Made' = Made /\ Made \subseteq Ids
  BY <1>3 DEF IInv, TypeOK, Made, Ids
<1>12. TypeOK'
  <2>1. file' \in Seq(Byte)
    BY <1>3, <1>4, <1>5, <1>6, <1>7, Appended, SMTT(30)
  <2>2. told' \in [Ids -> (0 .. MaxLen) \union {None}]
    BY <1>3, <1>4 DEF IInv, TypeOK
  <2>3. progress' \in [Ids -> -MaxAgain .. MaxLen]
    <3>1. a + n \in -MaxAgain .. MaxLen
      BY <1>4, <1>5
    <3>2. progress \in [Ids -> -MaxAgain .. MaxLen]
      BY DEF IInv, TypeOK
    <3>3. QED
      BY <1>2, <1>3, <1>4, <3>1, <3>2
  <2>4. pc' \in {"idle", "reqs", "cb"}
    BY <1>3
  <2>5. QED
    BY <1>3, <1>4, <1>6, <1>11, <2>1, <2>2, <2>3, <2>4 DEF IInv, TypeOK, Byte
<1>13. Fresh'
  BY <1>3, <1>4, <1>9, <1>11 DEF IInv, Fresh
<1>14. Waiting'
  <2>1. ASSUME NEW i \in DOMAIN q, i # 1
        PROVE  told'[q[i]] = None
    <3>1. q[i] \in Ids /\ q[i] # w
      BY <1>4, <1>11, <2>1, LenProperties, ElementOfSeq DEF IInv, TypeOK
    <3>2. QED
      BY <1>4, <1>9, <3>1
  <2>2. told'[q[1]] = None \/ pc' = "cb"
    BY <1>4, <1>10
  <2>3. QED
    BY <1>3, <2>1, <2>2 DEF IInv, Waiting
<1>15. ProgressTrue'
  <2>1. -again[w] <= progress'[w] /\ progress'[w] <= len[w]
    BY <1>4, <1>5, <1>10
  <2>2. 0 .. progress'[w] - 1 \subseteq Taken(w)'
    <3>1. 0 .. a - 1 \subseteq Taken(w)
      BY <1>2, <1>4 DEF IInv, ProgressTrue
    <3>2. progress'[w] \in Int /\ progress'[w] <= a + n
      BY <1>4, <1>5, <1>10
    <3>3. \A b \in 0 .. progress'[w] - 1 : b \in 0 .. a - 1 \/ b \in a .. a + n - 1
      BY <1>4, <1>5, <3>2
    <3>4. QED
      BY <1>8, <3>1, <3>3
  <2>3. ASSUME NEW v \in Made, v # w
        PROVE  /\ -again[v] <= progress'[v] /\ progress'[v] <= len[v]
               /\ 0 .. progress'[v] - 1 \subseteq Taken(v)'
    BY <1>8, <1>9, <1>11, <2>3 DEF IInv, ProgressTrue
  <2>4. QED
    BY <1>3, <1>11, <2>1, <2>2, <2>3 DEF ProgressTrue
<1>16. ASSUME ~overtook'
       PROVE  Ordered' /\ \A i \in DOMAIN file' : file'[i][1] <= w
  <2>1. Ordered /\ \A i \in DOMAIN file : file[i][1] <= w
    BY <1>3, <1>4, <1>16 DEF IInv, TurnSoFar, InTurn, Ordered
  <2>2. w \in Nat
    BY <1>4 DEF Ids
  <2>3. QED
    BY <1>3, <1>4, <1>5, <1>6, <1>7, <2>1, <2>2, StillOrdered, ZenonT(30)
<1>17. TurnSoFar' /\ InTurn'
  BY <1>3, <1>4, <1>16 DEF TurnSoFar, InTurn, Ordered
<1>18. InOrderOnce'
  <2>1. ASSUME NEW v \in Made, v # w, again[v] = 0
        PROVE  /\ Rising(v)'
               /\ \E k \in 0 .. MaxLen : Taken(v)' = 0 .. k - 1 /\ (told'[v] = None => k = progress'[v])
    <3>1. Rising(v) /\ \E k \in 0 .. MaxLen : Taken(v) = 0 .. k - 1 /\ (told[v] = None => k = progress[v])
      BY <2>1 DEF IInv, InOrderOnce, Rising
    <3>2. QED
      BY <1>8, <1>9, <1>11, <2>1, <3>1
  <2>2. ASSUME again[w] = 0
        PROVE  /\ Rising(w)'
               /\ \E k \in 0 .. MaxLen : Taken(w)' = 0 .. k - 1 /\ (told'[w] = None => k = progress'[w])
    <3>1. Rising(w) /\ Taken(w) = 0 .. a - 1 /\ a \in 0 .. MaxLen
      BY <1>2, <1>4, <2>2 DEF IInv, InOrderOnce, Rising
    <3>2. Rising(w)' /\ Taken(w)' = 0 .. a + n - 1
      <4>1. a \in Nat /\ n \in Nat /\ file' = file \o Bytes(w, a, n) /\ file \in Seq(Byte)
        BY <1>3, <1>5, <1>6, <3>1
      <4>2. QED
        BY <1>7, <3>1, <4>1, GoesOn, SMTT(30)
    <3>3. PICK k : k = a + n
      OBVIOUS
    <3>4. k \in 0 .. MaxLen /\ Taken(w)' = 0 .. k - 1
      BY <1>4, <1>5, <3>1, <3>2, <3>3
    <3>5. told'[w] = None => k = progress'[w]
      BY <1>4, <1>10, <3>3
    <3>6. QED
      BY <3>2, <3>4, <3>5
  <2>3. QED
    BY <1>3, <1>11, <2>1, <2>2 DEF InOrderOnce, Rising
<1>19. TakenWhenTold'
  <2>1. ASSUME told'[w] # None
        PROVE  told'[w] = len[w] /\ 0 .. len[w] - 1 \subseteq Taken(w)'
    <3>1. told'[w] = len[w] /\ a + n = len[w]
      BY <1>4, <1>5, <1>10, <2>1
    <3>2. 0 .. a - 1 \subseteq Taken(w)
      BY <1>2, <1>4 DEF IInv, ProgressTrue
    <3>3. \A b \in 0 .. len[w] - 1 : b \in 0 .. a - 1 \/ b \in a .. a + n - 1
      BY <1>4, <1>5, <3>1
    <3>4. QED
      BY <1>8, <3>1, <3>2, <3>3
  <2>2. ASSUME NEW v \in Made, v # w, told'[v] # None, kind[v] = "write", ~broken
        PROVE  told'[v] = len[v] /\ 0 .. len[v] - 1 \subseteq Taken(v)'
    <3>1. told'[v] = told[v] /\ Taken(v)' = Taken(v)
      BY <1>8, <1>9, <1>11, <2>2
    <3>2. QED
      BY <2>2, <3>1 DEF IInv, TakenWhenTold
  <2>3. QED
    BY <1>3, <1>11, <2>1, <2>2 DEF TakenWhenTold
<1>20. QED
  BY <1>12, <1>13, <1>14, <1>15, <1>17, <1>18, <1>19 DEF IInv
-----------------------------------------------------------------------------
(* What io__handle_req makes of the pending requests. *)
LEMMA QueuedIs ==
  ASSUME IInv, NEW w, w = made + 1
  PROVE  /\ Queued(w) \in Seq(Made \union {w}) /\ Queued(w) # <<>> /\ Len(Queued(w)) <= 2
         /\ \A i, j \in DOMAIN Queued(w) : i < j => Queued(w)[i] < Queued(w)[j]
         /\ Queued(w)[1] = IF q = <<>> THEN w ELSE q[1]
         /\ \A i \in DOMAIN Queued(w) : Queued(w)[i] = w \/ (i = 1 /\ q # <<>> /\ Queued(w)[i] = q[1])
<1> USE StreamAssumption
<1>1. made \in Nat /\ q \in Seq(Made)
  BY DEF IInv, TypeOK
<1>2. CASE q = <<>>
  <2>1. PICK r : r = <<w>>
    OBVIOUS
  <2>2. Queued(w) = r
    BY <1>2, <2>1 DEF Queued
  <2>3. r \in Seq(Made \union {w}) /\ Len(r) = 1 /\ r[1] = w /\ DOMAIN r = 1 .. 1
    BY <2>1
  <2>4. r # <<>>
    BY <2>3, EmptySeq
  <2>5. QED
    BY <1>2, <2>2, <2>3, <2>4
<1>3. CASE q # <<>>
  <2>1. PICK v : v = q[1]
    OBVIOUS
  <2>2. v \in Made /\ v = Head(q)
    <3>1. Len(q) \in Nat \ {0}
      BY <1>1, <1>3, EmptySeq
    <3>2. QED
      BY <1>1, <1>3, <2>1, <3>1, ElementOfSeq
  <2>3. PICK r : r = <<v, w>>
    OBVIOUS
  <2>4. Queued(w) = r
    BY <1>3, <2>2, <2>3 DEF Queued
  <2>5. /\ r \in Seq(Made \union {w}) /\ Len(r) = 2 /\ r[1] = v /\ r[2] = w /\ DOMAIN r = 1 .. 2
    BY <2>2, <2>3
  <2>6. v < w
    BY <1>1, <2>2 DEF Made
  <2>7. r # <<>>
    BY <2>5, EmptySeq
  <2>8. \A i \in DOMAIN r : i = 1 \/ i = 2
    BY <2>5
  <2>9. \A i, j \in DOMAIN r : i < j => r[i] < r[j]
    BY <2>5, <2>6, <2>8
  <2>10. \A i \in DOMAIN r : r[i] = w \/ (i = 1 /\ q # <<>> /\ r[i] = q[1])
    BY <1>3, <2>1, <2>5, <2>8
  <2>11. r[1] = IF q = <<>> THEN w ELSE q[1]
    BY <1>3, <2>1, <2>5
  <2>12. r \in Seq(Made \union {w}) /\ r # <<>> /\ Len(r) <= 2
    BY <2>5, <2>7
  <2>13. QED
    BY <2>4, <2>9, <2>10, <2>11, <2>12, Zenon
<1>4. QED
  BY <1>2, <1>3

(* io_write and io_sendall, when the first attempt returns n. *)
LEMMA SubmitKeeps ==
  ASSUME IInv, NEW k \in {"write", "send"}, NEW l \in 0 .. MaxLen, NEW n \in Results(l),
         made < MaxWrites, Submit(k, l, n), UNCHANGED <<pc, broken, again>>
  PROVE  IInv'
<1> USE StreamAssumption
<1>1. PICK w, m : w = made + 1 /\ m = Most(n, 0)
  OBVIOUS
<1>2. n \in Int /\ m \in 0 .. l /\ (n <= 0 => m = 0) /\ (n > 0 => m = n) /\ m \in Nat
  BY <1>1 DEF Results, Most
<1>3. /\ made' = w /\ kind' = [kind EXCEPT ![w] = k] /\ len' = [len EXCEPT ![w] = l]
      /\ file' = file \o Bytes(w, 0, m)
      /\ overtook' = (overtook \/ (n > 0 /\ q # <<>>))
      /\ \/ n > 0 /\ n = l /\ told' = [told EXCEPT ![w] = n] /\ UNCHANGED <<q, progress>>
         \/ (n <= 0 \/ n < l) /\ q' = Queued(w) /\ progress' = [progress EXCEPT ![w] = m] /\ UNCHANGED told
  BY <1>1, Zenon DEF Submit
<1>4. /\ made \in Nat /\ w \in Ids /\ w \in Nat /\ w \notin Made /\ Made' = Made \union {w} /\ Made \subseteq Ids
      /\ \A v \in Made : v \in Nat /\ v < w /\ v <= w
  <2>1. made \in Nat /\ w \in 1 .. MaxWrites
    BY <1>1 DEF IInv, TypeOK
  <2>2. Made' = 1 .. made + 1
    BY <1>1, <1>3 DEF Made
  <2>3. 1 .. made + 1 = (1 .. made) \union {made + 1}
    BY <2>1
  <2>4. Made' = Made \union {w}
    BY <1>1, <2>2, <2>3 DEF Made
  <2>5. w \in Ids /\ w \in Nat
    BY <2>1 DEF Ids
  <2>6. w \notin Made /\ Made \subseteq Ids /\ \A v \in Made : v \in Nat /\ v < w /\ v <= w
    BY <1>1, <2>1 DEF Made, Ids
  <2>7. QED
    BY <2>1, <2>4, <2>5, <2>6
<1>5. told[w] = None /\ progress[w] = 0 /\ again[w] = 0
  BY <1>4 DEF IInv, Fresh
<1>6. file \in Seq(Byte) /\ Byte \subseteq Byte'
  BY <1>4 DEF IInv, TypeOK, Byte
<1>7. PICK B, z : B = Byte' /\ z = 0
  OBVIOUS
<1>8. /\ file \in Seq(B) /\ file' = file \o Bytes(w, z, m) /\ z \in Int /\ z \in Nat /\ m \in Nat
      /\ \A i \in z .. z + m - 1 : <<w, i>> \in B
  <2>1. ASSUME NEW i \in z .. z + m - 1
        PROVE  i \in -MaxAgain .. MaxLen
    BY <1>2, <1>7
  <2>2. \A i \in z .. z + m - 1 : <<w, i>> \in B
    BY <1>4, <1>7, <2>1 DEF Byte
  <2>3. file \in Seq(B)
    BY <1>6, <1>7, SeqMonotonic
  <2>4. QED
    BY <1>2, <1>3, <1>7, <2>2, <2>3
<1>9. /\ \A v : v # w => Where(v)' = Where(v) /\ Taken(v)' = Taken(v)
      /\ \A v : v # w => (Rising(v) => Rising(v)')
  <2>1. \A i \in z .. z + m - 1 : <<w, i>> \in B
    BY <1>8
  <2>2. z \in Int /\ m \in Nat /\ file' = file \o Bytes(w, z, m) /\ file \in Seq(B)
    BY <1>8
  <2>3. \A v : v # w => Where(v)' = Where(v) /\ Taken(v)' = Taken(v)
    BY <2>1, <2>2, WhereTaken, SMTT(60)
  <2>4. \A v : v # w => (Rising(v) => Rising(v)')
    BY <2>1, <2>2, WhereTaken, SMTT(60)
  <2>5. QED
    BY <2>3, <2>4, Zenon
<1>10. Len(file) \in Nat /\ \A i \in DOMAIN file : file[i][1] \in Made
  <2>1. \A i \in DOMAIN file : file[i] \in Byte
    BY <1>6, LenProperties, ElementOfSeq
  <2>2. QED
    BY <1>6, <2>1, LenProperties DEF Byte
<1>11. Rising(w)' /\ Taken(w)' = 0 .. m - 1
  <2>1. Where(w) = {}
    BY <1>4, <1>10 DEF Where
  <2>2. Rising(w) /\ Taken(w) = 0 .. z - 1
    BY <1>7, <2>1 DEF Rising, Taken
  <2>3. Rising(w)' /\ Taken(w)' = 0 .. z + m - 1
    BY <1>8, <2>2, GoesOn, SMTT(30)
  <2>4. QED
    BY <1>2, <1>7, <2>3
<1>12. /\ \A v \in Made : /\ told'[v] = told[v] /\ progress'[v] = progress[v]
                          /\ kind'[v] = kind[v] /\ len'[v] = len[v]
       /\ len'[w] = l
       /\ \/ told'[w] = l /\ m = l /\ progress'[w] = 0
          \/ told'[w] = None /\ progress'[w] = m
  <2>1. /\ told \in [Ids -> (0 .. MaxLen) \union {None}] /\ progress \in [Ids -> -MaxAgain .. MaxLen]
        /\ kind \in [Ids -> {"write", "send"}] /\ len \in [Ids -> 0 .. MaxLen]
    BY DEF IInv, TypeOK
  <2>2. QED
    BY <1>2, <1>3, <1>4, <1>5, <2>1
<1>13. \A v \in Made : v # w
  BY <1>4
<1>14. /\ q' \in Seq(Made') /\ Len(q') <= 2
       /\ \A i, j \in DOMAIN q' : i < j => q'[i] < q'[j]
       /\ q # <<>> => q' # <<>> /\ q'[1] = q[1]
       /\ q = <<>> /\ q' # <<>> => q'[1] = w
       /\ \A i \in DOMAIN q' : \/ q'[i] = w /\ told'[w] = None
                               \/ i \in DOMAIN q /\ q'[i] = q[i]
  <2>1. CASE UNCHANGED q
    <3>1. q \in Seq(Made')
      <4>1. q \in Seq(Made) /\ Made \subseteq Made'
        BY <1>4 DEF IInv, TypeOK
      <4>2. QED
        BY <4>1, SeqMonotonic
    <3>2. QED
      BY <2>1, <3>1 DEF IInv, TypeOK, Waiting
  <2>2. CASE q' = Queued(w) /\ UNCHANGED told
    <3>1. q # <<>> => 1 \in DOMAIN q
      <4>1. q \in Seq(Made)
        BY DEF IInv, TypeOK
      <4>2. q # <<>> => Len(q) \in Nat \ {0}
        BY <4>1, EmptySeq
      <4>3. QED
        BY <4>1, <4>2, LenProperties
    <3>2. PICK r : r = Queued(w)
      OBVIOUS
    <3>3. /\ r \in Seq(Made \union {w}) /\ r # <<>> /\ Len(r) <= 2
          /\ \A i, j \in DOMAIN r : i < j => r[i] < r[j]
          /\ r[1] = IF q = <<>> THEN w ELSE q[1]
          /\ \A i \in DOMAIN r : r[i] = w \/ (i = 1 /\ q # <<>> /\ r[i] = q[1])
      BY <1>1, <3>2, QueuedIs, ZenonT(30)
    <3>4. q' = r /\ told'[w] = None
      BY <1>5, <2>2, <3>2
    <3>5. QED
      BY <1>4, <3>1, <3>3, <3>4
  <2>3. QED
    BY <1>3, <2>1, <2>2
<1>15. (overtook => overtook') /\ (n > 0 /\ q # <<>> => overtook') /\ overtook' \in BOOLEAN
  BY <1>3, Zenon
<1>16. TypeOK'
  <2>1. file' \in Seq(Byte')
    BY <1>7, <1>8, Appended, SMTT(30)
  <2>2. \A i, j \in DOMAIN q' : q'[i] = q'[j] => i = j
    <3>1. q' \in Seq(Made') /\ Made' \subseteq Nat
      BY <1>4, <1>14
    <3>2. \A i \in DOMAIN q' : i \in Nat /\ q'[i] \in Nat
      <4>1. Len(q') \in Nat /\ DOMAIN q' = 1 .. Len(q')
        BY <3>1, LenProperties
      <4>2. \A i \in 1 .. Len(q') : q'[i] \in Made'
        BY <3>1, ElementOfSeq
      <4>3. \A i \in 1 .. Len(q') : q'[i] \in Nat
        BY <3>1, <4>2
      <4>4. \A i \in 1 .. Len(q') : i \in Nat
        BY <4>1
      <4>5. QED
        BY <4>1, <4>3, <4>4, Zenon
    <3>3. QED
      BY <1>14, <3>2
  <2>3. pc' # "idle" => q' # <<>>
    BY <1>14 DEF IInv, TypeOK
  <2>4. told' \in [Ids -> (0 .. MaxLen) \union {None}]
    BY <1>3, <1>4 DEF IInv, TypeOK
  <2>5. progress' \in [Ids -> -MaxAgain .. MaxLen]
    <3>1. m \in -MaxAgain .. MaxLen
      BY <1>2
    <3>2. QED
      BY <1>3, <1>4, <3>1 DEF IInv, TypeOK
  <2>6. kind' \in [Ids -> {"write", "send"}] /\ len' \in [Ids -> 0 .. MaxLen]
    BY <1>3, <1>4 DEF IInv, TypeOK
  <2>7. made' \in 0 .. MaxWrites
    BY <1>1, <1>3, <1>4
  <2>8. QED
    BY <1>14, <1>15, <2>1, <2>2, <2>3, <2>4, <2>5, <2>6, <2>7 DEF IInv, TypeOK, Byte
<1>17. Fresh'
  <2>1. ASSUME NEW v \in Ids \ Made'
        PROVE  told'[v] = None /\ progress'[v] = 0 /\ again'[v] = 0
    <3>1. v \in Ids \ Made /\ v # w
      BY <1>4
    <3>2. told'[v] = told[v] /\ progress'[v] = progress[v]
      BY <1>3, <3>1 DEF IInv, TypeOK
    <3>3. QED
      BY <3>1, <3>2 DEF IInv, Fresh
  <2>2. QED
    BY <2>1 DEF Fresh
<1>18. Waiting'
  <2>1. ASSUME NEW i \in DOMAIN q'
        PROVE  told'[q'[i]] = None \/ (i = 1 /\ pc' = "cb")
    <3>1. CASE q'[i] = w /\ told'[w] = None
      BY <3>1
    <3>2. CASE i \in DOMAIN q /\ q'[i] = q[i]
      <4>1. q[i] \in Made
        BY <3>2, LenProperties, ElementOfSeq DEF IInv, TypeOK
      <4>2. QED
        BY <1>12, <3>2, <4>1 DEF IInv, Waiting
    <3>3. QED
      BY <1>14, <3>1, <3>2
  <2>2. QED
    BY <1>14, <2>1 DEF Waiting
<1>19. ProgressTrue'
  <2>1. ASSUME NEW v \in Made
        PROVE  /\ -again[v] <= progress'[v] /\ progress'[v] <= len'[v]
               /\ 0 .. progress'[v] - 1 \subseteq Taken(v)'
    BY <1>9, <1>12, <1>13 DEF IInv, ProgressTrue
  <2>2. /\ -again[w] <= progress'[w] /\ progress'[w] <= len'[w]
        /\ 0 .. progress'[w] - 1 \subseteq Taken(w)'
    BY <1>2, <1>5, <1>11, <1>12
  <2>3. QED
    BY <1>4, <2>1, <2>2 DEF ProgressTrue
<1>20. ASSUME ~overtook'
       PROVE  Ordered' /\ \A i \in DOMAIN file' : file'[i][1] <= w
  <2>1. Ordered
    BY <1>15, <1>20, Zenon DEF IInv, InTurn, Ordered
  <2>2. \A i \in DOMAIN file : file[i][1] <= w
    BY <1>4, <1>10
  <2>3. QED
    BY <1>4, <1>8, <2>1, <2>2, StillOrdered, ZenonT(30)
<1>21. InTurn'
  BY <1>20 DEF InTurn, Ordered
<1>22. TurnSoFar'
  <2> SUFFICES ASSUME ~overtook', q' # <<>>, NEW i \in DOMAIN file'
               PROVE  file'[i][1] <= q'[1]
    BY DEF TurnSoFar
  <2>1. CASE q = <<>>
    BY <1>14, <1>20, <2>1
  <2>2. CASE q # <<>>
    <3>1. ~overtook /\ m = 0
      BY <1>2, <1>15, <2>2
    <3>2. Grown(w, z, m)
      BY <1>8, Appended, SMTT(30)
    <3>3. i \in DOMAIN file /\ file'[i] = file[i]
      BY <1>10, <3>1, <3>2 DEF Grown
    <3>4. QED
      BY <1>14, <2>2, <3>1, <3>3 DEF IInv, TurnSoFar
  <2>3. QED
    BY <2>1, <2>2
<1>23. InOrderOnce'
  <2>1. ASSUME NEW v \in Made, again[v] = 0
        PROVE  /\ Rising(v)'
               /\ \E b \in 0 .. MaxLen : Taken(v)' = 0 .. b - 1 /\ (told'[v] = None => b = progress'[v])
    <3>1. Rising(v) /\ \E b \in 0 .. MaxLen : Taken(v) = 0 .. b - 1 /\ (told[v] = None => b = progress[v])
      BY <2>1 DEF IInv, InOrderOnce, Rising
    <3>2. QED
      BY <1>9, <1>12, <1>13, <3>1
  <2>2. Rising(w)' /\ \E b \in 0 .. MaxLen : Taken(w)' = 0 .. b - 1 /\ (told'[w] = None => b = progress'[w])
    <3>1. m \in 0 .. MaxLen /\ (told'[w] = None => m = progress'[w])
      BY <1>2, <1>12
    <3>2. QED
      BY <1>11, <3>1
  <2>3. QED
    BY <1>4, <2>1, <2>2 DEF InOrderOnce, Rising
<1>24. TakenWhenTold'
  <2>1. ASSUME NEW v \in Made, told'[v] # None, kind'[v] = "write", ~broken
        PROVE  told'[v] = len'[v] /\ 0 .. len'[v] - 1 \subseteq Taken(v)'
    BY <1>9, <1>12, <1>13, <2>1 DEF IInv, TakenWhenTold
  <2>2. ASSUME told'[w] # None
        PROVE  told'[w] = len'[w] /\ 0 .. len'[w] - 1 \subseteq Taken(w)'
    BY <1>11, <1>12, <2>2
  <2>3. QED
    BY <1>4, <2>1, <2>2 DEF TakenWhenTold
<1>25. QED
  BY <1>16, <1>17, <1>18, <1>19, <1>21, <1>22, <1>23, <1>24 DEF IInv

(* EWOULDBLOCK takes 1 from the progress of w. *)
LEMMA WriteRefusedKeeps ==
  ASSUME IInv, WriteRefused
  PROVE  IInv'
<1> USE StreamAssumption
<1>1. PICK w : w = Head(q)
  OBVIOUS
<1>2. /\ pc = "reqs" /\ again[w] < MaxAgain /\ pc' = "idle"
      /\ progress' = [progress EXCEPT ![w] = @ - 1] /\ again' = [again EXCEPT ![w] = @ + 1]
      /\ UNCHANGED <<q, made, kind, len, file, told, broken, overtook>>
  BY <1>1 DEF WriteRefused
<1>3. /\ w \in Made /\ w \in Ids /\ \A i \in DOMAIN q : told[q[i]] = None
      /\ progress[w] \in Int /\ again[w] \in 0 .. MaxAgain /\ len[w] \in 0 .. MaxLen
      /\ -again[w] <= progress[w] /\ progress[w] <= len[w]
  BY <1>1, <1>2, FirstRequest, SMTT(30)
<1>4. /\ progress'[w] = progress[w] - 1 /\ again'[w] = again[w] + 1
      /\ \A v \in Ids : v # w => progress'[v] = progress[v] /\ again'[v] = again[v]
  BY <1>2, <1>3 DEF IInv, TypeOK
<1>5. /\ Made' = Made /\ Made \subseteq Ids
      /\ \A v : Where(v)' = Where(v) /\ Taken(v)' = Taken(v)
  BY <1>2 DEF IInv, TypeOK, Made, Ids, Where, Taken
<1>6. TypeOK'
  <2>1. progress[w] - 1 \in -MaxAgain .. MaxLen /\ again[w] + 1 \in 0 .. MaxAgain
    BY <1>2, <1>3
  <2>2. progress' \in [Ids -> -MaxAgain .. MaxLen] /\ again' \in [Ids -> 0 .. MaxAgain]
    BY <1>2, <1>3, <2>1 DEF IInv, TypeOK
  <2>3. QED
    BY <1>2, <1>5, <2>2 DEF IInv, TypeOK
<1>7. Fresh'
  BY <1>2, <1>3, <1>4, <1>5 DEF IInv, Fresh
<1>8. Waiting'
  BY <1>2, <1>3 DEF IInv, Waiting
<1>9. ProgressTrue'
  <2>1. -again'[w] <= progress'[w] /\ progress'[w] <= len[w]
    BY <1>3, <1>4
  <2>2. 0 .. progress'[w] - 1 \subseteq Taken(w)
    <3>1. 0 .. progress[w] - 1 \subseteq Taken(w)
      BY <1>3 DEF IInv, ProgressTrue
    <3>2. \A b \in 0 .. progress'[w] - 1 : b \in 0 .. progress[w] - 1
      BY <1>3, <1>4
    <3>3. QED
      BY <3>1, <3>2
  <2>3. QED
    BY <1>2, <1>4, <1>5, <2>1, <2>2 DEF IInv, ProgressTrue
<1>10. TurnSoFar' /\ InTurn' /\ TakenWhenTold'
  BY <1>2, <1>5 DEF IInv, TurnSoFar, InTurn, TakenWhenTold
<1>11. InOrderOnce'
  <2>1. again'[w] # 0
    BY <1>3, <1>4
  <2>2. \A v \in Made : v # w /\ again'[v] = 0 => again[v] = 0 /\ progress'[v] = progress[v]
    BY <1>4, <1>5
  <2>3. QED
    BY <1>2, <1>5, <2>1, <2>2 DEF IInv, InOrderOnce
<1>12. QED
  BY <1>6, <1>7, <1>8, <1>9, <1>10, <1>11 DEF IInv

(* The callback of w is called although nothing more was taken: a failed   *)
(* connection, or a send, of which the client may not rely on anything.    *)
LEMMA CompletedKeeps ==
  ASSUME IInv, NEW w, w = Head(q), pc = "reqs", Completed(w), broken \/ kind[w] = "send",
         UNCHANGED <<q, made, kind, len, progress, file, broken, again, overtook>>
  PROVE  IInv'
<1> USE StreamAssumption
<1>1. /\ q # <<>> /\ w = q[1] /\ w \in Made /\ w \in Ids
      /\ told[w] = None /\ \A i \in DOMAIN q : told[q[i]] = None
      /\ \A i \in DOMAIN q : i # 1 => q[i] # w
      /\ len[w] \in 0 .. MaxLen
  BY FirstRequest, SMTT(30)
<1>2. pc' = "cb" /\ told' = [told EXCEPT ![w] = len[w]]
  BY DEF Completed
<1>3. told'[w] = len[w] /\ told'[w] # None /\ \A v \in Ids : v # w => told'[v] = told[v]
  <2>1. told \in [Ids -> (0 .. MaxLen) \union {None}]
    BY DEF IInv, TypeOK
  <2>2. QED
    BY <1>1, <1>2, <2>1
<1>4. /\ Made' = Made /\ Made \subseteq Ids
      /\ \A v : Where(v)' = Where(v) /\ Taken(v)' = Taken(v)
  BY DEF IInv, TypeOK, Made, Ids, Where, Taken
<1>5. TypeOK'
  BY <1>1, <1>2, <1>4 DEF IInv, TypeOK
<1>6. Fresh'
  BY <1>1, <1>3, <1>4 DEF IInv, Fresh
<1>7. Waiting'
  <2>1. ASSUME NEW i \in DOMAIN q, i # 1
        PROVE  told'[q[i]] = None
    <3>1. q[i] \in Ids
      BY <1>4, LenProperties, ElementOfSeq DEF IInv, TypeOK
    <3>2. QED
      BY <1>1, <1>3, <2>1, <3>1
  <2>2. QED
    BY <1>2, <2>1 DEF IInv, Waiting
<1>8. ProgressTrue' /\ TurnSoFar' /\ InTurn'
  BY <1>4 DEF IInv, ProgressTrue, TurnSoFar, InTurn
<1>9. InOrderOnce'
  <2>1. \A v \in Made : told'[v] = None => told[v] = None
    BY <1>3, <1>4
  <2>2. QED
    BY <1>4, <2>1 DEF IInv, InOrderOnce
<1>10. TakenWhenTold'
  <2>1. \A v \in Made : v # w => told'[v] = told[v]
    BY <1>3, <1>4
  <2>2. QED
    BY <1>4, <2>1 DEF IInv, TakenWhenTold
<1>11. QED
  BY <1>5, <1>6, <1>7, <1>8, <1>9, <1>10 DEF IInv

(* The callback returns, and the next request is the first. *)
LEMMA CallbackReturnsKeeps ==
  ASSUME IInv, CallbackReturns
  PROVE  IInv'
<1> USE StreamAssumption
<1>1. /\ pc = "cb" /\ q' = Tail(q) /\ pc' = IF Tail(q) = <<>> THEN "idle" ELSE "reqs"
      /\ UNCHANGED <<made, kind, len, progress, file, told, broken, again, overtook>>
  BY DEF CallbackReturns
<1>2. q # <<>> /\ q \in Seq(Made) /\ Len(q) <= 2
  BY <1>1 DEF IInv, TypeOK
<1>3. PICK r : r = Tail(q)
  OBVIOUS
<1>4. /\ r \in Seq(Made) /\ Len(r) = Len(q) - 1
      /\ \A i \in 1 .. Len(r) : r[i] = q[i + 1]
  BY <1>2, <1>3, HeadTailProperties
<1>5. /\ Len(q) \in Nat \ {0} /\ Len(r) \in Nat /\ DOMAIN q = 1 .. Len(q) /\ DOMAIN r = 1 .. Len(r)
  BY <1>2, <1>4, EmptySeq, LenProperties
<1>6. \A i \in DOMAIN r : i \in Nat /\ i + 1 \in DOMAIN q /\ i + 1 # 1 /\ r[i] = q[i + 1]
  BY <1>4, <1>5
<1>7. q' = r /\ pc' \in {"idle", "reqs"} /\ (pc' # "idle" => r # <<>>)
  BY <1>1, <1>3
<1>8. \A i, j \in DOMAIN r : r[i] = r[j] => i = j
  <2> SUFFICES ASSUME NEW i \in DOMAIN r, NEW j \in DOMAIN r, r[i] = r[j]
               PROVE  i = j
    OBVIOUS
  <2>1. i + 1 = j + 1
    BY <1>6 DEF IInv, TypeOK
  <2>2. QED
    BY <1>6, <2>1
<1>9. Made' = Made /\ \A v : Where(v)' = Where(v) /\ Taken(v)' = Taken(v)
  BY <1>1 DEF Made, Where, Taken
<1>10. TypeOK'
  <2>1. Len(r) <= 2
    BY <1>2, <1>4, <1>5
  <2>2. QED
    BY <1>1, <1>4, <1>7, <1>8, <1>9, <2>1 DEF IInv, TypeOK
<1>11. Fresh' /\ ProgressTrue' /\ InOrderOnce' /\ TakenWhenTold' /\ InTurn'
  BY <1>1, <1>9 DEF IInv, Fresh, ProgressTrue, InOrderOnce, TakenWhenTold, InTurn
<1>12. Waiting'
  <2>1. ASSUME NEW i \in DOMAIN r, NEW j \in DOMAIN r, i < j
        PROVE  r[i] < r[j]
    <3>1. i + 1 < j + 1 /\ i + 1 \in DOMAIN q /\ j + 1 \in DOMAIN q
      BY <1>6, <2>1
    <3>2. q[i + 1] < q[j + 1]
      BY <3>1 DEF IInv, Waiting
    <3>3. QED
      BY <1>6, <3>2
  <2>2. \A i \in DOMAIN r : told[r[i]] = None
    BY <1>6 DEF IInv, Waiting
  <2>3. QED
    BY <1>1, <1>7, <2>1, <2>2 DEF Waiting
<1>13. TurnSoFar'
  <2> SUFFICES ASSUME ~overtook, r # <<>>, NEW i \in DOMAIN file
               PROVE  file[i][1] <= r[1]
    BY <1>1, <1>7 DEF TurnSoFar
  <2>1. Len(r) \in Nat \ {0}
    BY <1>4, EmptySeq
  <2>2. 1 \in DOMAIN r /\ 1 \in DOMAIN q /\ 2 \in DOMAIN q /\ r[1] = q[2]
    BY <1>4, <1>5, <2>1
  <2>3. q[1] < q[2]
    BY <2>2 DEF IInv, Waiting
  <2>4. file[i][1] <= q[1]
    BY <1>2 DEF IInv, TurnSoFar
  <2>5. file[i][1] \in Int /\ q[1] \in Int /\ q[2] \in Int
    <3>1. q[1] \in Made /\ q[2] \in Made
      BY <1>2, <1>5, <2>2, ElementOfSeq
    <3>2. file \in Seq(Byte) /\ Made \subseteq Int
      BY DEF IInv, TypeOK, Byte, Made
    <3>3. file[i] \in Byte
      BY <3>2, LenProperties, ElementOfSeq
    <3>4. file[i][1] \in Made
      BY <3>3 DEF Byte
    <3>5. QED
      BY <3>1, <3>2, <3>4
  <2>6. q[1] <= q[2] /\ file[i][1] <= q[2]
    BY <2>3, <2>4, <2>5
  <2>7. QED
    BY <2>2, <2>6
<1>14. QED
  BY <1>10, <1>11, <1>12, <1>13 DEF IInv

(* Nothing but where the loop is, or whether the connection is whole. *)
LEMMA OtherStepsKeep ==
  ASSUME IInv, UNCHANGED <<q, made, kind, len, progress, file, told, again, overtook>>,
         pc' = pc \/ (pc # "cb" /\ pc' \in {"idle", "reqs"} /\ q # <<>>),
         broken' \in BOOLEAN, broken => broken'
  PROVE  IInv'
<1>1. Made' = Made /\ \A v : Where(v)' = Where(v) /\ Taken(v)' = Taken(v)
  BY DEF Made, Where, Taken
<1>2. TypeOK'
  BY <1>1 DEF IInv, TypeOK
<1>3. Waiting'
  BY DEF IInv, Waiting
<1>4. Fresh' /\ ProgressTrue' /\ InOrderOnce' /\ InTurn' /\ TurnSoFar' /\ TakenWhenTold'
  BY <1>1 DEF IInv, Fresh, ProgressTrue, InOrderOnce, InTurn, TurnSoFar, TakenWhenTold
<1>5. QED
  BY <1>2, <1>3, <1>4 DEF IInv

LEMMA InitIInv == Init => IInv
<1> USE StreamAssumption
<1> SUFFICES ASSUME Init PROVE IInv
  OBVIOUS
<1>1. <<>> \in Seq(Made) /\ <<>> \in Seq(Made \X (-MaxAgain .. MaxLen)) /\ Len(<<>>) = 0 /\ DOMAIN <<>> = {}
  OBVIOUS
<1>2. TypeOK
  <2>1. q \in Seq(Made) /\ Len(q) <= 2 /\ file \in Seq(Made \X (-MaxAgain .. MaxLen))
    BY <1>1 DEF Init
  <2>2. progress \in [Ids -> -MaxAgain .. MaxLen] /\ again \in [Ids -> 0 .. MaxAgain]
        /\ len \in [Ids -> 0 .. MaxLen] /\ told \in [Ids -> (0 .. MaxLen) \union {None}]
    BY DEF Init
  <2>3. QED
    BY <1>1, <2>1, <2>2 DEF Init, TypeOK
<1>3. Fresh
  BY DEF Init, Fresh
<1>4. Made = {}
  BY DEF Init, Made
<1>5. Waiting /\ TurnSoFar /\ InTurn
  BY <1>1 DEF Init, Waiting, TurnSoFar, InTurn
<1>6. ProgressTrue /\ InOrderOnce /\ TakenWhenTold
  BY <1>4 DEF ProgressTrue, InOrderOnce, TakenWhenTold
<1>7. QED
  BY <1>2, <1>3, <1>5, <1>6 DEF IInv

LEMMA NextIInv == IInv /\ [Next]_vars => IInv'
<1> USE StreamAssumption
<1> SUFFICES ASSUME IInv, [Next]_vars PROVE IInv'
  OBVIOUS
<1>1. CASE \E l \in 0 .. MaxLen : io_write(l) \/ io_sendall(l)
  <2>1. PICK l \in 0 .. MaxLen : io_write(l) \/ io_sendall(l)
    BY <1>1
  <2>2. PICK k \in {"write", "send"}, n \in Results(l) : Submit(k, l, n)
    BY <2>1 DEF io_write, io_sendall
  <2>3. made < MaxWrites /\ UNCHANGED <<pc, broken, again>>
    BY <2>1 DEF io_write, io_sendall
  <2>4. QED
    BY <2>2, <2>3, SubmitKeeps
<1>2. CASE \E n \in 0 .. MaxLen + MaxAgain : WriteTakes(n)
  BY <1>2, WriteTakesKeeps
<1>3. CASE WriteRefused
  BY <1>3, WriteRefusedKeeps
<1>4. CASE WriteFails
  BY <1>4, CompletedKeeps DEF WriteFails
<1>5. CASE SendFails
  <2>1. PICK w : w = Head(q)
    OBVIOUS
  <2>2. /\ pc = "reqs" /\ kind[w] = "send"
        /\ UNCHANGED <<q, made, kind, len, progress, file, broken, again, overtook>>
        /\ Completed(w) \/ (pc' = "idle" /\ UNCHANGED told)
    BY <1>5, <2>1 DEF SendFails
  <2>3. CASE Completed(w)
    BY <2>1, <2>2, <2>3, CompletedKeeps
  <2>4. CASE pc' = "idle" /\ UNCHANGED told
    <3>1. q # <<>> /\ broken \in BOOLEAN
      BY <2>2 DEF IInv, TypeOK
    <3>2. QED
      BY <2>2, <2>4, <3>1, OtherStepsKeep
  <2>5. QED
    BY <2>2, <2>3, <2>4
<1>6. CASE CallbackReturns
  BY <1>6, CallbackReturnsKeeps
<1>7. CASE Breaks
  <2>1. broken' = TRUE /\ UNCHANGED <<pc, q, made, kind, len, progress, file, told, again, overtook>>
    BY <1>7 DEF Breaks
  <2>2. QED
    BY <2>1, OtherStepsKeep
<1>8. CASE Reported \/ UNCHANGED vars
  <2>1. broken' = broken /\ broken \in BOOLEAN
        /\ UNCHANGED <<q, made, kind, len, progress, file, told, again, overtook>>
    BY <1>8 DEF Reported, vars, IInv, TypeOK
  <2>2. pc' = pc \/ (pc # "cb" /\ pc' \in {"idle", "reqs"} /\ q # <<>>)
    BY <1>8 DEF Reported, vars
  <2>3. QED
    BY <2>1, <2>2, OtherStepsKeep
<1>9. QED
  BY <1>1, <1>2, <1>3, <1>4, <1>5, <1>6, <1>7, <1>8 DEF Next

LEMMA SpecIInv == Spec => []IInv
BY InitIInv, NextIInv, PTL DEF Spec
-----------------------------------------------------------------------------
(* The variables have their types; above all, no more than two requests    *)
(* wait on a handle, none of them twice (handle.c:61-79).                  *)
THEOREM TypeCorrect == Spec => []TypeOK
<1>1. IInv => TypeOK
  BY DEF IInv
<1>2. QED
  BY <1>1, SpecIInv, PTL

(* io_write and write_progress (operation.c:26-44, 149-172) give the       *)
(* handle the bytes of a write that never met EWOULDBLOCK from the first   *)
(* on, each once and in order, and its progress counts them, however the   *)
(* handle cuts the write short and whatever other writes do meanwhile.     *)
THEOREM BytesInOrderOnce == Spec => []InOrderOnce
<1>1. IInv => InOrderOnce
  BY DEF IInv
<1>2. QED
  BY <1>1, SpecIInv, PTL

(* When the callback of operation.c:163 or of the request runs on a whole  *)
(* connection, every byte of the write has been taken and the callback is  *)
(* told the full length, also after any number of EWOULDBLOCKs.            *)
THEOREM ToldIsTaken == Spec => []TakenWhenTold
<1>1. IInv => TakenWhenTold
  BY DEF IInv
<1>2. QED
  BY <1>1, SpecIInv, PTL

(* The handle gets the writes one after the other, although handle.c:61-79 *)
(* drops a request when a third one is made, as long as no first attempt   *)
(* of io_write takes bytes while older requests wait.                      *)
THEOREM WritesInTurn == Spec => []InTurn
<1>1. IInv => InTurn
  BY DEF IInv
<1>2. QED
  BY <1>1, SpecIInv, PTL

(* Once the callback of a write has run, operation.c reads nothing more of *)
(* the buffer, which the client may have freed, and does not call it back  *)
(* again.                                                                  *)
THEOREM BufferIsClients == Spec => NothingAfterTold
<1> USE StreamAssumption
<1>1. ASSUME IInv, [Next]_vars, NEW w \in Made, told[w] # None
      PROVE  told'[w] = told[w] /\ Where(w)' = Where(w)
  <2>1. Made \subseteq Ids /\ made \in Nat /\ w # made + 1 /\ file \in Seq(Byte)
        /\ told \in [Ids -> (0 .. MaxLen) \union {None}]
    <3>1. made \in 0 .. MaxWrites /\ file \in Seq(Byte)
          /\ told \in [Ids -> (0 .. MaxLen) \union {None}]
      BY <1>1 DEF IInv, TypeOK, Byte
    <3>2. w \in 1 .. made
      BY DEF Made
    <3>3. QED
      BY <3>1, <3>2 DEF Made, Ids
  <2>2. CASE \E l \in 0 .. MaxLen : io_write(l) \/ io_sendall(l)
    <3>1. PICK l \in 0 .. MaxLen : io_write(l) \/ io_sendall(l)
      BY <2>2
    <3>2. PICK k \in {"write", "send"}, n \in Results(l) : Submit(k, l, n)
      BY <3>1 DEF io_write, io_sendall
    <3>3. PICK m : m = Most(n, 0)
      OBVIOUS
    <3>4. m \in Nat /\ file' = file \o Bytes(made + 1, 0, m)
      BY <3>2, <3>3 DEF Submit, Results, Most
    <3>5. told' = told \/ told' = [told EXCEPT ![made + 1] = n]
      BY <3>2 DEF Submit
    <3>6. PICK v, z, U : v = made + 1 /\ z = 0 /\ U = Byte \union {<<v, i>> : i \in Int}
      OBVIOUS
    <3>7. /\ z \in Int /\ file \in Seq(U) /\ file' = file \o Bytes(v, z, m) /\ v # w
      <4>1. Byte \subseteq U
        BY <3>6
      <4>2. file \in Seq(U)
        BY <2>1, <4>1, SeqMonotonic
      <4>3. QED
        BY <2>1, <3>4, <3>6, <4>2
    <3>8. \A i \in z .. z + m - 1 : <<v, i>> \in U
      BY <3>4, <3>6
    <3>9. Where(w)' = Where(w)
      <4>1. \A x : x # v => Where(x)' = Where(x)
        <5>1. z \in Int /\ m \in Nat /\ file' = file \o Bytes(v, z, m) /\ file \in Seq(U)
          BY <3>4, <3>7
        <5>2. QED
          BY <3>8, <5>1, WhereTaken, SMTT(30)
      <4>2. QED
        BY <3>7, <4>1
    <3>10. QED
      BY <2>1, <3>5, <3>9
  <2>3. CASE \E n \in 0 .. MaxLen + MaxAgain : WriteTakes(n)
    <3>1. PICK n \in 0 .. MaxLen + MaxAgain : WriteTakes(n)
      BY <2>3
    <3>2. PICK v, a : v = Head(q) /\ a = progress[v]
      OBVIOUS
    <3>3. /\ pc = "reqs" /\ file' = file \o Bytes(v, a, n)
          /\ told' = told \/ told' = [told EXCEPT ![v] = len[v]]
      BY <3>1, <3>2 DEF WriteTakes, Completed
    <3>4. v # w /\ a \in Int
      BY <1>1, <3>2, <3>3, FirstRequest, SMTT(30)
    <3>5. PICK U : U = Byte \union {<<v, i>> : i \in Int}
      OBVIOUS
    <3>6. file \in Seq(U)
      <4>1. Byte \subseteq U
        BY <3>5
      <4>2. QED
        BY <2>1, <4>1, SeqMonotonic
    <3>7. n \in Nat /\ \A i \in a .. a + n - 1 : <<v, i>> \in U
      BY <3>4, <3>5
    <3>8. Where(w)' = Where(w)
      BY <3>3, <3>4, <3>6, <3>7, WhereTaken, SMTT(30)
    <3>9. QED
      BY <2>1, <3>3, <3>4, <3>8
  <2>4. CASE WriteRefused \/ Breaks \/ Reported \/ CallbackReturns \/ UNCHANGED vars
    BY <2>4 DEF WriteRefused, Breaks, Reported, CallbackReturns, vars, Where
  <2>5. CASE WriteFails \/ SendFails
    <3>1. PICK v : v = Head(q)
      OBVIOUS
    <3>2. /\ pc = "reqs" /\ UNCHANGED file
          /\ told' = told \/ told' = [told EXCEPT ![v] = len[v]]
      BY <2>5, <3>1 DEF WriteFails, SendFails, Completed
    <3>3. v # w
      BY <1>1, <3>1, <3>2, FirstRequest, SMTT(30)
    <3>4. QED
      BY <2>1, <3>2, <3>3 DEF Where
  <2>6. QED
    BY <1>1, <2>2, <2>3, <2>4, <2>5 DEF Next
<1>2. IInv /\ [Next]_vars
        => [\A w \in Made : told[w] # None => told'[w] = told[w] /\ Where(w)' = Where(w)]_vars
  BY <1>1
<1>3. QED
  BY <1>2, SpecIInv, PTL DEF Spec, NothingAfterTold
=============================================================================
