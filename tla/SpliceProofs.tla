---------------------------- MODULE SpliceProofs ----------------------------
(***************************************************************************)
(* Proofs about Splice for any sizes of calls and pipes, any number of     *)
(* descriptors, and any number of units.                                   *)
(***************************************************************************)
EXTENDS Splice, SequenceTheorems, TLAPS

Units == 1 .. MaxUnits

(* No unit is ahead of what has been read. *)
Bounded ==
  /\ \A i \in DOMAIN out : out[i] <= read
  /\ \A i \in DOMAIN pipe : pipe[i] <= read

(* A pipe without its task is no longer this connection's. *)
IdleEmpty == ~task => pipe = <<>>

(* The two halves of NothingLost. *)
PipeEmptyBetween == ~faltered => pipe = <<>>
Accounted ==
  ~faltered => /\ 1 .. read = UnitsOf(out) \union drained
               /\ UnitsOf(out) \intersect drained = {}

IInv ==
  /\ TypeOK
  /\ InOrder
  /\ Bounded
  /\ IdleEmpty
  /\ PipeEmptyBetween
  /\ Accounted

Increasing(s) == \A i, j \in DOMAIN s : i < j => s[i] < s[j]
-----------------------------------------------------------------------------
(* Sequences that are cut in two, or joined.                               *)

LEMMA Cut ==
  ASSUME NEW U, NEW s \in Seq(U), NEW w \in Nat
  PROVE  /\ Rest(s, w) \in Seq(U)
         /\ Len(Rest(s, w)) = IF w <= Len(s) THEN Len(s) - w ELSE 0
         /\ \A i \in 1 .. Len(Rest(s, w)) : Rest(s, w)[i] = s[w + i]
<1>1. Len(s) \in Nat /\ \A i \in w + 1 .. Len(s) : s[i] \in U
  BY ElementOfSeq, LenProperties
<1>2. /\ SubSeq(s, w + 1, Len(s)) \in Seq(U)
      /\ Len(SubSeq(s, w + 1, Len(s))) = IF w + 1 <= Len(s) THEN Len(s) - (w + 1) + 1 ELSE 0
      /\ \A i \in 1 .. Len(s) - (w + 1) + 1 : SubSeq(s, w + 1, Len(s))[i] = s[w + 1 + i - 1]
  BY <1>1, SubSeqProperties
<1>3. QED
  BY <1>1, <1>2 DEF Rest

LEMMA Taken ==
  ASSUME NEW U, NEW s \in Seq(U), NEW w \in 0 .. Len(s)
  PROVE  /\ SubSeq(s, 1, w) \in Seq(U)
         /\ Len(SubSeq(s, 1, w)) = w
         /\ \A i \in 1 .. w : SubSeq(s, 1, w)[i] = s[i]
<1>1. Len(s) \in Nat /\ w \in Nat /\ \A i \in 1 .. w : s[i] \in U
  BY ElementOfSeq, LenProperties
<1>2. /\ SubSeq(s, 1, w) \in Seq(U)
      /\ Len(SubSeq(s, 1, w)) = IF 1 <= w THEN w - 1 + 1 ELSE 0
      /\ \A i \in 1 .. w - 1 + 1 : SubSeq(s, 1, w)[i] = s[1 + i - 1]
  BY <1>1, SubSeqProperties
<1>3. QED
  BY <1>1, <1>2

(* What is moved from the front of t to the end of s changes nothing of    *)
(* the two together.                                                       *)
LEMMA MovedOver ==
  ASSUME NEW U, NEW s \in Seq(U), NEW t \in Seq(U), NEW w \in 0 .. Len(t)
  PROVE  (s \o SubSeq(t, 1, w)) \o Rest(t, w) = s \o t
<1>1. Len(t) \in Nat
  BY LenProperties
<1>2. SubSeq(t, 1, w) \in Seq(U) /\ Rest(t, w) \in Seq(U)
  BY <1>1, Cut, Taken
<1>3. SubSeq(t, 1, w) \o SubSeq(t, w + 1, Len(t)) = SubSeq(t, 1, Len(t))
  <2>1. 1 \in 1 .. Len(t) + 1 /\ w \in 1 - 1 .. Len(t) /\ Len(t) \in w .. Len(t)
    BY <1>1
  <2>2. QED
    BY <2>1, ConcatAdjacentSubSeq, Zenon
<1>4. SubSeq(t, 1, w) \o Rest(t, w) = t
  BY <1>3, SubSeqFull DEF Rest
<1>5. (s \o SubSeq(t, 1, w)) \o Rest(t, w) = s \o (SubSeq(t, 1, w) \o Rest(t, w))
  <2>1. \A a, b, c \in Seq(U) : (a \o b) \o c = a \o (b \o c)
    BY ConcatAssociative, SMTT(60)
  <2>2. QED
    BY <1>2, <2>1
<1>6. QED
  BY <1>4, <1>5

LEMMA UnitsOfJoined ==
  ASSUME NEW U, NEW s \in Seq(U), NEW t \in Seq(U)
  PROVE  UnitsOf(s \o t) = UnitsOf(s) \union UnitsOf(t)
<1>1. Len(s) \in Nat /\ Len(t) \in Nat /\ DOMAIN s = 1 .. Len(s) /\ DOMAIN t = 1 .. Len(t)
  BY LenProperties
<1>2. /\ s \o t \in Seq(U) /\ Len(s \o t) = Len(s) + Len(t)
      /\ \A i \in 1 .. Len(s) + Len(t) : (s \o t)[i] = IF i <= Len(s) THEN s[i] ELSE t[i - Len(s)]
  BY ConcatProperties
<1>3. DOMAIN (s \o t) = 1 .. Len(s) + Len(t)
  BY <1>2, LenProperties
<1>4. UnitsOf(s \o t) \subseteq UnitsOf(s) \union UnitsOf(t)
  <2> SUFFICES ASSUME NEW i \in 1 .. Len(s) + Len(t)
               PROVE  (s \o t)[i] \in UnitsOf(s) \union UnitsOf(t)
    BY <1>3 DEF UnitsOf
  <2>1. CASE i <= Len(s)
    BY <1>1, <1>2, <2>1 DEF UnitsOf
  <2>2. CASE ~(i <= Len(s))
    <3>1. i - Len(s) \in 1 .. Len(t) /\ (s \o t)[i] = t[i - Len(s)]
      BY <1>1, <1>2, <2>2
    <3>2. QED
      BY <1>1, <3>1 DEF UnitsOf
  <2>3. QED
    BY <2>1, <2>2
<1>5. UnitsOf(s) \subseteq UnitsOf(s \o t)
  <2> SUFFICES ASSUME NEW i \in 1 .. Len(s)
               PROVE  s[i] \in UnitsOf(s \o t)
    BY <1>1 DEF UnitsOf
  <2>1. i \in 1 .. Len(s) + Len(t) /\ (s \o t)[i] = s[i]
    BY <1>1, <1>2
  <2>2. QED
    BY <1>3, <2>1 DEF UnitsOf
<1>6. UnitsOf(t) \subseteq UnitsOf(s \o t)
  <2> SUFFICES ASSUME NEW i \in 1 .. Len(t)
               PROVE  t[i] \in UnitsOf(s \o t)
    BY <1>1 DEF UnitsOf
  <2>1. Len(s) + i \in 1 .. Len(s) + Len(t) /\ (s \o t)[Len(s) + i] = t[i]
    BY <1>1, <1>2
  <2>2. QED
    BY <1>3, <2>1 DEF UnitsOf
<1>7. QED
  BY <1>4, <1>5, <1>6

(* A piece cut out of the middle of an increasing sequence leaves it so.   *)
LEMMA CutIncreasing ==
  ASSUME NEW s \in Seq(Units), NEW t \in Seq(Units), NEW w \in Nat, Increasing(s \o t)
  PROVE  Increasing(s \o Rest(t, w))
<1>1. Len(s) \in Nat /\ Len(t) \in Nat
  BY LenProperties
<1>2. PICK r : r = Rest(t, w)
  OBVIOUS
<1>3. /\ r \in Seq(Units)
      /\ Len(r) = IF w <= Len(t) THEN Len(t) - w ELSE 0
      /\ \A i \in 1 .. Len(r) : r[i] = t[w + i]
  BY <1>2, Cut
<1>4. /\ s \o t \in Seq(Units) /\ Len(s \o t) = Len(s) + Len(t)
      /\ \A i \in 1 .. Len(s) + Len(t) : (s \o t)[i] = IF i <= Len(s) THEN s[i] ELSE t[i - Len(s)]
  BY ConcatProperties
<1>5. /\ s \o r \in Seq(Units) /\ Len(s \o r) = Len(s) + Len(r)
      /\ \A i \in 1 .. Len(s) + Len(r) : (s \o r)[i] = IF i <= Len(s) THEN s[i] ELSE r[i - Len(s)]
  BY <1>3, ConcatProperties
<1>6. DOMAIN (s \o t) = 1 .. Len(s) + Len(t) /\ DOMAIN (s \o r) = 1 .. Len(s) + Len(r)
  BY <1>4, <1>5, LenProperties
<1>7. Len(r) \in Nat /\ (Len(r) > 0 => Len(r) = Len(t) - w)
  BY <1>1, <1>3
<1> DEFINE at(i) == IF i <= Len(s) THEN i ELSE i + w
<1>8. ASSUME NEW i \in 1 .. Len(s) + Len(r)
      PROVE  at(i) \in 1 .. Len(s) + Len(t) /\ (s \o r)[i] = (s \o t)[at(i)]
  <2>1. CASE i <= Len(s)
    BY <1>1, <1>4, <1>5, <2>1
  <2>2. CASE ~(i <= Len(s))
    <3>1. i - Len(s) \in 1 .. Len(r) /\ (s \o r)[i] = r[i - Len(s)]
      BY <1>1, <1>5, <1>7, <2>2
    <3>2. r[i - Len(s)] = t[w + (i - Len(s))] /\ Len(r) = Len(t) - w
      BY <1>3, <1>7, <3>1
    <3>3. at(i) \in 1 .. Len(s) + Len(t) /\ ~(at(i) <= Len(s)) /\ at(i) - Len(s) = w + (i - Len(s))
      BY <1>1, <1>7, <2>2, <3>1, <3>2
    <3>4. (s \o t)[at(i)] = t[at(i) - Len(s)]
      BY <1>4, <3>3
    <3>5. QED
      BY <3>1, <3>2, <3>3, <3>4
  <2>3. QED
    BY <2>1, <2>2
<1>9. ASSUME NEW i \in 1 .. Len(s) + Len(r), NEW j \in 1 .. Len(s) + Len(r), i < j
      PROVE  at(i) < at(j)
  BY <1>1, <1>7, <1>9
<1>10. Increasing(s \o r)
  <2> SUFFICES ASSUME NEW i \in 1 .. Len(s) + Len(r), NEW j \in 1 .. Len(s) + Len(r), i < j
               PROVE  (s \o r)[i] < (s \o r)[j]
    BY <1>6 DEF Increasing
  <2> HIDE DEF at
  <2>1. at(i) \in DOMAIN (s \o t) /\ at(j) \in DOMAIN (s \o t) /\ at(i) < at(j)
    BY <1>6, <1>8, <1>9
  <2>2. (s \o t)[at(i)] < (s \o t)[at(j)]
    BY <2>1 DEF Increasing
  <2>3. QED
    BY <1>8, <2>2
<1>11. QED
  BY <1>2, <1>10
-----------------------------------------------------------------------------
New(n) == [i \in 1 .. n |-> read + i]

(* The units that arrive go behind all others and are larger. *)
LEMMA Arrived ==
  ASSUME IInv, NEW n \in Nat, n > 0, read + n <= MaxUnits
  PROVE  /\ pipe \o New(n) \in Seq(Units)
         /\ Len(pipe \o New(n)) = Len(pipe) + n
         /\ Increasing(out \o (pipe \o New(n)))
         /\ \A i \in DOMAIN (pipe \o New(n)) : (pipe \o New(n))[i] <= read + n
         /\ UnitsOf(pipe \o New(n)) = UnitsOf(pipe) \union (read + 1 .. read + n)
<1> USE SpliceAssumption
<1>1. /\ out \in Seq(Units) /\ pipe \in Seq(Units) /\ read \in Nat
      /\ Len(out) \in Nat /\ Len(pipe) \in Nat
  BY LenProperties DEF IInv, TypeOK, Units
<1>2. New(n) \in Seq(Units) /\ Len(New(n)) = n /\ \A i \in 1 .. n : New(n)[i] = read + i
  <2>1. New(n) \in [1 .. n -> Units] /\ \A i \in 1 .. n : New(n)[i] = read + i
    BY <1>1 DEF New, Units
  <2>2. QED
    BY <2>1
<1>3. PICK old, new : old = out \o pipe /\ new = New(n)
  OBVIOUS
<1>4. /\ old \in Seq(Units) /\ Len(old) = Len(out) + Len(pipe) /\ Len(old) \in Nat
      /\ \A i \in 1 .. Len(old) : old[i] = IF i <= Len(out) THEN out[i] ELSE pipe[i - Len(out)]
  BY <1>1, <1>3, ConcatProperties
<1>5. ASSUME NEW i \in 1 .. Len(old)
      PROVE  old[i] \in Int /\ old[i] <= read
  <2>1. \A j \in 1 .. Len(out) : out[j] <= read
    BY <1>1, LenProperties DEF IInv, Bounded
  <2>2. \A j \in 1 .. Len(pipe) : pipe[j] <= read
    BY <1>1, LenProperties DEF IInv, Bounded
  <2>3. old[i] \in Int
    BY <1>4, ElementOfSeq DEF Units
  <2>4. CASE i <= Len(out)
    BY <1>1, <1>4, <2>1, <2>3, <2>4
  <2>5. CASE ~(i <= Len(out))
    <3>1. i - Len(out) \in 1 .. Len(pipe) /\ old[i] = pipe[i - Len(out)]
      BY <1>1, <1>4, <2>5
    <3>2. QED
      BY <2>2, <2>3, <3>1
  <2>6. QED
    BY <2>4, <2>5
<1>6. Increasing(old)
  BY <1>3 DEF IInv, InOrder, Increasing
<1>7. /\ old \o new \in Seq(Units) /\ Len(old \o new) = Len(old) + n
      /\ \A i \in 1 .. Len(old) + n :
           (old \o new)[i] = IF i <= Len(old) THEN old[i] ELSE new[i - Len(old)]
  <2>1. new \in Seq(Units) /\ Len(new) = n
    BY <1>2, <1>3
  <2>2. /\ old \o new \in Seq(Units) /\ Len(old \o new) = Len(old) + Len(new)
        /\ \A i \in 1 .. Len(old) + Len(new) :
             (old \o new)[i] = IF i <= Len(old) THEN old[i] ELSE new[i - Len(old)]
    BY <1>4, <2>1, ConcatProperties
  <2>3. QED
    BY <2>1, <2>2
<1>8. Increasing(old \o new)
  <2>1. DOMAIN (old \o new) = 1 .. Len(old) + n /\ DOMAIN old = 1 .. Len(old)
    BY <1>4, <1>7, LenProperties
  <2>2. ASSUME NEW i \in 1 .. Len(old) + n, ~(i <= Len(old))
        PROVE  (old \o new)[i] = read + (i - Len(old))
    <3>1. i - Len(old) \in 1 .. n /\ (old \o new)[i] = new[i - Len(old)]
      BY <1>4, <1>7, <2>2
    <3>2. QED
      BY <1>2, <1>3, <3>1
  <2> SUFFICES ASSUME NEW i \in 1 .. Len(old) + n, NEW j \in 1 .. Len(old) + n, i < j
               PROVE  (old \o new)[i] < (old \o new)[j]
    BY <2>1 DEF Increasing
  <2>3. CASE j <= Len(old)
    <3>1. i \in 1 .. Len(old) /\ j \in 1 .. Len(old)
      BY <1>4, <2>3
    <3>2. old[i] < old[j]
      BY <1>6, <2>1, <3>1 DEF Increasing
    <3>3. QED
      BY <1>4, <1>7, <3>1, <3>2
  <2>4. CASE i <= Len(old) /\ ~(j <= Len(old))
    <3>1. i \in 1 .. Len(old) /\ (old \o new)[i] = old[i]
      BY <1>4, <1>7, <2>4
    <3>2. old[i] \in Int /\ old[i] <= read /\ (old \o new)[j] = read + (j - Len(old))
      BY <1>5, <2>2, <2>4, <3>1
    <3>3. j - Len(old) > 0
      BY <1>4, <2>4
    <3>4. QED
      BY <1>1, <1>4, <3>1, <3>2, <3>3
  <2>5. CASE ~(i <= Len(old))
    <3>1. ~(j <= Len(old))
      BY <1>4, <2>5
    <3>2. (old \o new)[i] = read + (i - Len(old)) /\ (old \o new)[j] = read + (j - Len(old))
      BY <2>2, <2>5, <3>1
    <3>3. read + (i - Len(old)) < read + (j - Len(old))
      BY <1>1, <1>4
    <3>4. QED
      BY <3>2, <3>3
  <2>6. QED
    BY <2>3, <2>4, <2>5
<1>9. old \o new = out \o (pipe \o New(n))
  <2>1. \A a, b, c \in Seq(Units) : (a \o b) \o c = a \o (b \o c)
    BY ConcatAssociative, SMTT(60)
  <2>2. QED
    BY <1>1, <1>2, <1>3, <2>1
<1>10. /\ pipe \o New(n) \in Seq(Units) /\ Len(pipe \o New(n)) = Len(pipe) + n
       /\ \A i \in 1 .. Len(pipe) + n :
            (pipe \o New(n))[i] = IF i <= Len(pipe) THEN pipe[i] ELSE New(n)[i - Len(pipe)]
  <2>1. /\ pipe \o new \in Seq(Units) /\ Len(pipe \o new) = Len(pipe) + Len(new)
        /\ \A i \in 1 .. Len(pipe) + Len(new) :
             (pipe \o new)[i] = IF i <= Len(pipe) THEN pipe[i] ELSE new[i - Len(pipe)]
    BY <1>1, <1>2, <1>3, ConcatProperties
  <2>2. QED
    BY <1>2, <1>3, <2>1
<1>11. \A i \in DOMAIN (pipe \o New(n)) : (pipe \o New(n))[i] <= read + n
  <2>1. DOMAIN (pipe \o New(n)) = 1 .. Len(pipe) + n /\ DOMAIN pipe = 1 .. Len(pipe)
    BY <1>1, <1>10, LenProperties
  <2> SUFFICES ASSUME NEW i \in 1 .. Len(pipe) + n
               PROVE  (pipe \o New(n))[i] <= read + n
    BY <2>1
  <2>2. CASE i <= Len(pipe)
    <3>1. i \in 1 .. Len(pipe) /\ pipe[i] \in Units /\ pipe[i] <= read
      BY <1>1, <2>1, <2>2, ElementOfSeq DEF IInv, Bounded
    <3>2. QED
      BY <1>1, <1>10, <2>2, <3>1, SMTT(60) DEF Units
  <2>3. CASE ~(i <= Len(pipe))
    <3>1. i - Len(pipe) \in 1 .. n /\ (pipe \o New(n))[i] = New(n)[i - Len(pipe)]
      BY <1>1, <1>10, <2>3
    <3>2. (pipe \o New(n))[i] = read + (i - Len(pipe))
      BY <1>2, <3>1
    <3>3. QED
      BY <1>1, <3>1, <3>2
  <2>4. QED
    BY <2>2, <2>3
<1>12. UnitsOf(New(n)) = read + 1 .. read + n
  <2>1. DOMAIN New(n) = 1 .. n
    BY DEF New
  <2>2. UnitsOf(New(n)) = {read + i : i \in 1 .. n}
    BY <1>2, <2>1 DEF UnitsOf
  <2>3. ASSUME NEW u \in read + 1 .. read + n
        PROVE  u - read \in 1 .. n /\ u = read + (u - read)
    BY <1>1
  <2>4. \A i \in 1 .. n : read + i \in read + 1 .. read + n
    BY <1>1
  <2>5. QED
    BY <2>2, <2>3, <2>4
<1>13. UnitsOf(pipe \o New(n)) = UnitsOf(pipe) \union (read + 1 .. read + n)
  BY <1>1, <1>2, <1>12, UnitsOfJoined
<1>14. QED
  BY <1>8, <1>9, <1>10, <1>11, <1>13

LEMMA EmptyUnits == UnitsOf(<<>>) = {}
BY DEF UnitsOf

(* A connection that ends leaves an empty pipe to the next. *)
LEMMA Emptied ==
  ASSUME IInv, pipe' = <<>>, UNCHANGED <<read, out, drained, faltered>>
  PROVE  InOrder' /\ Bounded' /\ IdleEmpty' /\ PipeEmptyBetween' /\ Accounted'
<1>1. out \in Seq(Units) /\ pipe \in Seq(Units) /\ Len(pipe) \in Nat
  BY LenProperties DEF IInv, TypeOK, Units
<1>2. Rest(pipe, Len(pipe)) = <<>>
  BY <1>1, SubSeqEmpty DEF Rest
<1>3. Increasing(out \o <<>>)
  BY <1>1, <1>2, CutIncreasing DEF IInv, InOrder, Increasing
<1>4. InOrder'
  BY <1>3 DEF InOrder, Increasing
<1>5. QED
  BY <1>4 DEF IInv, Bounded, IdleEmpty, PipeEmptyBetween, Accounted

(* A call that delivers nothing, with p in the pipe, of which the last     *)
(* read' - read have just arrived.                                         *)
LEMMA FailedKeeps ==
  ASSUME IInv, task,
         NEW p \in Seq(Units), Len(p) <= PipeCap, Failed(p),
         read' \in read .. MaxUnits,
         Increasing(out \o p), \A i \in DOMAIN p : p[i] <= read',
         faltered' \in BOOLEAN, faltered => faltered',
         ~faltered' => /\ Len(p) <= SpliceSize
                       /\ UnitsOf(p) = read + 1 .. read'
                       /\ to => p = <<>>
  PROVE  IInv'
<1> USE SpliceAssumption
<1>1. /\ out \in Seq(Units) /\ pipe \in Seq(Units) /\ read \in Nat /\ Len(p) \in Nat
      /\ read' \in Nat /\ read <= read' /\ drained \subseteq 1 .. MaxUnits
  BY LenProperties DEF IInv, TypeOK, Units
<1>2. PICK d : d = Least(SpliceSize, Len(p))
  OBVIOUS
<1>3. d \in 0 .. Len(p) /\ (Len(p) <= SpliceSize => d = Len(p))
  BY <1>1, <1>2 DEF Least
<1>4. UNCHANGED <<conn, task, to, out, leaked>>
  BY DEF Failed
<1>6. /\ Rest(p, SpliceSize) \in Seq(Units)
      /\ Len(Rest(p, SpliceSize)) = IF SpliceSize <= Len(p) THEN Len(p) - SpliceSize ELSE 0
      /\ \A i \in 1 .. Len(Rest(p, SpliceSize)) : Rest(p, SpliceSize)[i] = p[SpliceSize + i]
      /\ Increasing(out \o Rest(p, SpliceSize))
  BY <1>1, Cut, CutIncreasing, ZenonT(60)
<1>7. SubSeq(p, 1, d) \in Seq(Units) /\ UnitsOf(SubSeq(p, 1, d)) \subseteq Units
  <2>1. SubSeq(p, 1, d) \in Seq(Units)
    BY <1>3, Taken
  <2>2. QED
    BY <2>1, LenProperties, ElementOfSeq DEF UnitsOf
<1>8. /\ pipe' \in Seq(Units) /\ Len(pipe') <= PipeCap /\ Increasing(out \o pipe')
      /\ \A i \in DOMAIN pipe' : pipe'[i] <= read'
  <2>1. CASE to
    BY <2>1 DEF Failed
  <2>2. CASE ~to
    <3>1. pipe' = Rest(p, SpliceSize)
      BY <2>2 DEF Failed
    <3>2. Len(pipe') <= Len(p)
      BY <1>1, <1>6, <3>1
    <3>3. ASSUME NEW i \in DOMAIN pipe'
          PROVE  pipe'[i] <= read'
      <4>1. i \in 1 .. Len(pipe')
        BY <1>6, <3>1, <3>3, LenProperties
      <4>2. SpliceSize + i \in 1 .. Len(p)
        BY <1>1, <1>6, <3>1, <4>1
      <4>3. SpliceSize + i \in DOMAIN p /\ pipe'[i] = p[SpliceSize + i]
        BY <1>6, <3>1, <4>1, <4>2, LenProperties
      <4>4. QED
        BY <4>3
    <3>4. Len(pipe') <= PipeCap
      BY <1>1, <1>6, <3>1, <3>2
    <3>5. QED
      BY <1>6, <3>1, <3>3, <3>4
  <2>3. QED
    BY <2>1, <2>2
<1>9. drained' \subseteq 1 .. MaxUnits
  <2>1. CASE to
    BY <1>1, <2>1 DEF Failed
  <2>2. CASE ~to
    <3>1. drained' = drained \union UnitsOf(SubSeq(p, 1, d))
      BY <1>2, <2>2 DEF Failed
    <3>2. QED
      BY <1>1, <1>7, <3>1 DEF Units
  <2>3. QED
    BY <2>1, <2>2
<1>10. TypeOK'
  BY <1>1, <1>4, <1>8, <1>9 DEF IInv, TypeOK, FdsInUse, Units
<1>11. InOrder' /\ IdleEmpty'
  BY <1>4, <1>8 DEF InOrder, IdleEmpty, Increasing
<1>12. Bounded'
  <2>1. \A i \in DOMAIN out : out[i] \in Int /\ out[i] <= read
    BY <1>1, LenProperties, ElementOfSeq DEF IInv, Bounded, Units
  <2>2. \A i \in DOMAIN out : out[i] <= read'
    BY <1>1, <2>1
  <2>3. QED
    BY <1>4, <1>8, <2>2 DEF Bounded
<1>13. ASSUME ~faltered'
       PROVE  pipe' = <<>> /\ drained' = drained \union UnitsOf(p)
  <2>1. CASE to
    BY <1>13, <2>1, EmptyUnits DEF Failed
  <2>2. CASE ~to
    <3>1. Len(p) <= SpliceSize /\ d = Len(p)
      BY <1>3, <1>13
    <3>2. Rest(p, SpliceSize) = <<>>
      BY <1>1, <3>1, SubSeqEmpty DEF Rest
    <3>3. SubSeq(p, 1, d) = p
      BY <3>1, SubSeqFull
    <3>4. QED
      BY <1>2, <2>2, <3>2, <3>3 DEF Failed
  <2>3. QED
    BY <2>1, <2>2
<1>14. PipeEmptyBetween'
  BY <1>13 DEF PipeEmptyBetween
<1>15. Accounted'
  <2> SUFFICES ASSUME ~faltered'
               PROVE  /\ 1 .. read' = UnitsOf(out) \union drained'
                      /\ UnitsOf(out) \intersect drained' = {}
    BY <1>4 DEF Accounted, UnitsOf
  <2>1. 1 .. read = UnitsOf(out) \union drained /\ UnitsOf(out) \intersect drained = {}
    BY DEF IInv, Accounted
  <2>2. drained' = drained \union (read + 1 .. read')
    BY <1>13
  <2>3. /\ 1 .. read' = (1 .. read) \union (read + 1 .. read')
        /\ (1 .. read) \intersect (read + 1 .. read') = {}
    BY <1>1
  <2>4. QED
    BY <2>1, <2>2, <2>3
<1>16. QED
  BY <1>10, <1>11, <1>12, <1>14, <1>15 DEF IInv

-----------------------------------------------------------------------------
(* The steps.                                                              *)

(* Both calls of splice(2) move something: n units arrive, w leave. *)
LEMMA DeliveredKeeps ==
  ASSUME IInv, task, to, NEW n \in 1 .. SpliceSize, NEW w \in 1 .. n,
         Len(pipe) + n <= PipeCap, read + n <= MaxUnits,
         read' = read + n,
         out' = out \o SubSeq(pipe \o New(n), 1, w),
         pipe' = Rest(pipe \o New(n), w),
         faltered' = (faltered \/ w < n),
         UNCHANGED <<conn, task, to, drained, leaked>>
  PROVE  IInv'
<1> USE SpliceAssumption
<1>1. /\ out \in Seq(Units) /\ pipe \in Seq(Units) /\ read \in Nat
      /\ Len(out) \in Nat /\ Len(pipe) \in Nat /\ MaxUnits \in Nat
      /\ n \in Nat /\ n > 0 /\ w \in Nat /\ w > 0 /\ w <= n /\ faltered \in BOOLEAN
      /\ drained \subseteq 1 .. MaxUnits
  BY LenProperties DEF IInv, TypeOK, Units
<1>2. PICK p : p = pipe \o New(n)
  OBVIOUS
<1>3. /\ p \in Seq(Units) /\ Len(p) = Len(pipe) + n /\ Increasing(out \o p)
      /\ \A i \in DOMAIN p : p[i] <= read + n
      /\ UnitsOf(p) = UnitsOf(pipe) \union (read + 1 .. read + n)
  BY <1>1, <1>2, Arrived
<1>4. w \in 0 .. Len(p)
  BY <1>1, <1>3
<1>5. PICK gone, kept : gone = SubSeq(p, 1, w) /\ kept = Rest(p, w)
  OBVIOUS
<1>6. /\ gone \in Seq(Units) /\ Len(gone) = w /\ \A i \in 1 .. w : gone[i] = p[i]
      /\ kept \in Seq(Units) /\ Len(kept) = Len(p) - w
      /\ \A i \in 1 .. Len(kept) : kept[i] = p[w + i]
  <2>1. gone \in Seq(Units) /\ Len(gone) = w /\ \A i \in 1 .. w : gone[i] = p[i]
    BY <1>3, <1>4, <1>5, Taken
  <2>2. /\ kept \in Seq(Units) /\ Len(kept) = IF w <= Len(p) THEN Len(p) - w ELSE 0
        /\ \A i \in 1 .. Len(kept) : kept[i] = p[w + i]
    BY <1>1, <1>3, <1>5, Cut, ZenonT(60)
  <2>3. QED
    BY <1>1, <1>3, <2>1, <2>2
<1>7. out' = out \o gone /\ pipe' = kept
  BY <1>2, <1>5
<1>8. /\ out \o gone \in Seq(Units) /\ Len(out \o gone) = Len(out) + w
      /\ \A i \in 1 .. Len(out) + w :
           (out \o gone)[i] = IF i <= Len(out) THEN out[i] ELSE gone[i - Len(out)]
  <2>1. /\ out \o gone \in Seq(Units) /\ Len(out \o gone) = Len(out) + Len(gone)
        /\ \A i \in 1 .. Len(out) + Len(gone) :
             (out \o gone)[i] = IF i <= Len(out) THEN out[i] ELSE gone[i - Len(out)]
    BY <1>1, <1>6, ConcatProperties, ZenonT(60)
  <2>2. QED
    BY <1>6, <2>1
<1>9. TypeOK'
  <2>1. Len(kept) <= PipeCap /\ read + n \in 0 .. MaxUnits
    BY <1>1, <1>3, <1>6
  <2>2. QED
    BY <1>1, <1>6, <1>7, <1>8, <2>1 DEF IInv, TypeOK, FdsInUse, Units
<1>10. InOrder'
  <2>1. (out \o gone) \o kept = out \o p
    BY <1>1, <1>3, <1>4, <1>5, MovedOver
  <2>2. QED
    BY <1>3, <1>7, <2>1 DEF InOrder, Increasing
<1>11. Bounded'
  <2>1. ASSUME NEW i \in DOMAIN (out \o gone)
        PROVE  (out \o gone)[i] <= read + n
    <3>1. i \in 1 .. Len(out) + w
      BY <1>8, LenProperties
    <3>2. CASE i <= Len(out)
      <4>1. i \in DOMAIN out
        BY <1>1, <3>1, <3>2, LenProperties
      <4>2. out[i] \in Int /\ out[i] <= read
        BY <1>1, <4>1, LenProperties, ElementOfSeq DEF IInv, Bounded, Units
      <4>3. (out \o gone)[i] = out[i]
        BY <1>8, <3>1, <3>2
      <4>4. QED
        BY <1>1, <4>2, <4>3, SMTT(60)
    <3>3. CASE ~(i <= Len(out))
      <4>1. i - Len(out) \in 1 .. w /\ i - Len(out) \in 1 .. Len(p)
        BY <1>1, <1>3, <3>1, <3>3, SMTT(60)
      <4>2. (out \o gone)[i] = gone[i - Len(out)]
        BY <1>8, <3>1, <3>3
      <4>3. gone[i - Len(out)] = p[i - Len(out)]
        BY <1>6, <4>1
      <4>4. i - Len(out) \in DOMAIN p
        BY <1>3, <4>1, LenProperties
      <4>5. QED
        BY <1>3, <4>2, <4>3, <4>4
    <3>4. QED
      BY <3>2, <3>3
  <2>2. ASSUME NEW i \in DOMAIN kept
        PROVE  kept[i] <= read + n
    <3>1. i \in 1 .. Len(kept)
      BY <1>6, LenProperties
    <3>2. w + i \in 1 .. Len(p)
      BY <1>1, <1>3, <1>6, <3>1, SMTT(60)
    <3>3. w + i \in DOMAIN p /\ kept[i] = p[w + i]
      BY <1>3, <1>6, <3>1, <3>2, LenProperties
    <3>4. QED
      BY <1>3, <3>3
  <2>3. QED
    BY <1>7, <2>1, <2>2 DEF Bounded
<1>12. IdleEmpty'
  BY DEF IdleEmpty
<1>13. ASSUME ~faltered'
       PROVE  ~faltered /\ pipe = <<>> /\ gone = p /\ kept = <<>>
  <2>1. ~faltered /\ w = n
    <3>1. ~(faltered \/ w < n)
      BY <1>13, Zenon
    <3>2. ~faltered /\ ~(w < n)
      BY <3>1, Zenon
    <3>3. QED
      BY <1>1, <3>2
  <2>2. pipe = <<>>
    BY <2>1 DEF IInv, PipeEmptyBetween
  <2>3. Len(p) = w
    BY <1>1, <1>3, <2>1, <2>2
  <2>4. gone = p
    <3>1. gone = SubSeq(p, 1, Len(p))
      BY <1>5, <2>3
    <3>2. QED
      BY <1>3, <3>1, SubSeqFull
  <2>5. kept = <<>>
    BY <1>1, <1>3, <1>5, <2>3, SubSeqEmpty DEF Rest
  <2>6. QED
    BY <2>1, <2>2, <2>4, <2>5
<1>14. PipeEmptyBetween'
  BY <1>7, <1>13 DEF PipeEmptyBetween
<1>15. Accounted'
  <2> SUFFICES ASSUME ~faltered'
               PROVE  /\ 1 .. read + n = UnitsOf(out \o gone) \union drained
                      /\ UnitsOf(out \o gone) \intersect drained = {}
    BY <1>7 DEF Accounted, UnitsOf
  <2>1. 1 .. read = UnitsOf(out) \union drained /\ UnitsOf(out) \intersect drained = {}
    BY <1>13 DEF IInv, Accounted
  <2>2. UnitsOf(out \o gone) = UnitsOf(out) \union (read + 1 .. read + n)
    <3>1. UnitsOf(out \o gone) = UnitsOf(out) \union UnitsOf(gone)
      BY <1>1, <1>6, UnitsOfJoined
    <3>2. UnitsOf(gone) = read + 1 .. read + n
      BY <1>3, <1>13, EmptyUnits
    <3>3. QED
      BY <3>1, <3>2
  <2>3. /\ 1 .. read + n = (1 .. read) \union (read + 1 .. read + n)
        /\ (1 .. read) \intersect (read + 1 .. read + n) = {}
    BY <1>1
  <2>4. QED
    BY <2>1, <2>2, <2>3
<1>16. QED
  BY <1>9, <1>10, <1>11, <1>12, <1>14, <1>15 DEF IInv

(* One call of splice_progress that finds something to read. *)
LEMMA RelayKeeps ==
  ASSUME IInv, NEW k \in 1 .. SpliceSize, Relay(k)
  PROVE  IInv'
<1> USE SpliceAssumption
<1>1. PICK n : n = Least(k, PipeCap - Len(pipe))
  OBVIOUS
<1>2. /\ pipe \in Seq(Units) /\ read \in Nat /\ Len(pipe) \in Nat
      /\ Len(pipe) <= PipeCap /\ faltered \in BOOLEAN /\ to \in BOOLEAN
  BY LenProperties DEF IInv, TypeOK, Units
<1>3. /\ task /\ n > 0 /\ read + n <= MaxUnits /\ read' = read + n
      /\ \/ \E w \in 1 .. n :
              /\ to
              /\ out' = out \o SubSeq(pipe \o New(n), 1, w)
              /\ pipe' = Rest(pipe \o New(n), w)
              /\ faltered' = (faltered \/ w < n)
              /\ UNCHANGED <<conn, task, to, drained, leaked>>
         \/ Failed(pipe \o New(n)) /\ faltered' = (faltered \/ to)
  BY <1>1, Zenon DEF Relay, New
<1>4. n \in 1 .. SpliceSize /\ n \in Nat /\ Len(pipe) + n <= PipeCap
  BY <1>1, <1>2, <1>3 DEF Least
<1>5. CASE \E w \in 1 .. n :
              /\ to
              /\ out' = out \o SubSeq(pipe \o New(n), 1, w)
              /\ pipe' = Rest(pipe \o New(n), w)
              /\ faltered' = (faltered \/ w < n)
              /\ UNCHANGED <<conn, task, to, drained, leaked>>
  BY <1>3, <1>4, <1>5, DeliveredKeeps
<1>6. CASE Failed(pipe \o New(n)) /\ faltered' = (faltered \/ to)
  <2>1. PICK p : p = pipe \o New(n)
    OBVIOUS
  <2>2. /\ p \in Seq(Units) /\ Len(p) = Len(pipe) + n /\ Increasing(out \o p)
        /\ \A i \in DOMAIN p : p[i] <= read + n
        /\ UnitsOf(p) = UnitsOf(pipe) \union (read + 1 .. read + n)
    BY <1>3, <1>4, <2>1, Arrived
  <2>3. Failed(p) /\ Len(p) <= PipeCap /\ read' \in read .. MaxUnits
    BY <1>2, <1>3, <1>4, <1>6, <2>1, <2>2
  <2>4. faltered' \in BOOLEAN /\ (faltered => faltered') /\ (to => faltered')
    BY <1>2, <1>6, Zenon
  <2>5. ASSUME ~faltered'
        PROVE  /\ Len(p) <= SpliceSize
               /\ UnitsOf(p) = read + 1 .. read'
               /\ to => p = <<>>
    <3>1. ~faltered /\ ~to
      BY <2>4, <2>5, Zenon
    <3>2. pipe = <<>>
      BY <3>1 DEF IInv, PipeEmptyBetween
    <3>3. UnitsOf(p) = read + 1 .. read'
      BY <1>3, <2>2, <3>2, EmptyUnits
    <3>4. Len(p) <= SpliceSize
      BY <1>4, <2>2, <3>2
    <3>5. QED
      BY <3>1, <3>3, <3>4
  <2>6. \A i \in DOMAIN p : p[i] <= read'
    BY <1>3, <2>2
  <2>7. QED
    BY <1>3, <2>2, <2>3, <2>4, <2>5, <2>6, FailedKeeps
<1>7. QED
  BY <1>3, <1>5, <1>6, Zenon

(* One that does not. *)
LEMMA ReadFailsKeeps ==
  ASSUME IInv, ReadFails
  PROVE  IInv'
<1> USE SpliceAssumption
<1>1. /\ pipe \in Seq(Units) /\ read \in Nat /\ read <= MaxUnits /\ Len(pipe) <= PipeCap
      /\ faltered \in BOOLEAN
      /\ task /\ Failed(pipe) /\ read' = read /\ faltered' = faltered
  BY DEF IInv, TypeOK, Units, ReadFails
<1>2. Increasing(out \o pipe) /\ \A i \in DOMAIN pipe : pipe[i] <= read'
  BY <1>1 DEF IInv, InOrder, Increasing, Bounded
<1>3. ASSUME ~faltered'
      PROVE  /\ Len(pipe) <= SpliceSize
             /\ UnitsOf(pipe) = read + 1 .. read'
             /\ to => pipe = <<>>
  <2>1. pipe = <<>>
    BY <1>1, <1>3 DEF IInv, PipeEmptyBetween
  <2>2. Len(pipe) <= SpliceSize
    BY <2>1, EmptySeq
  <2>3. UnitsOf(pipe) = read + 1 .. read'
    BY <1>1, <2>1, EmptyUnits
  <2>4. QED
    BY <2>1, <2>2, <2>3
<1>4. read' \in read .. MaxUnits
  BY <1>1
<1>5. QED
  BY <1>1, <1>2, <1>3, <1>4, FailedKeeps

(* The connection is replaced, closed, or lost. *)
LEMMA EndOfConnectionKeeps ==
  ASSUME IInv, NewConnection \/ AcceptFails \/ ReadEnds
  PROVE  IInv'
<1> USE SpliceAssumption
<1>1. pipe' = <<>> /\ UNCHANGED <<to, read, out, drained, faltered>>
  BY DEF NewConnection, AcceptFails, ReadEnds
<1>2. InOrder' /\ Bounded' /\ IdleEmpty' /\ PipeEmptyBetween' /\ Accounted'
  BY <1>1, Emptied
<1>3. TypeOK'
  <2>1. <<>> \in Seq(1 .. MaxUnits) /\ Len(<<>>) = 0
    OBVIOUS
  <2>2. Abandoned \in Nat /\ leaked' = Abandoned
    BY DEF IInv, TypeOK, Abandoned, NewConnection, AcceptFails, ReadEnds
  <2>3. 2 * Abandoned <= FdLimit
    BY DEF IInv, TypeOK, Abandoned, FdsInUse
  <2>4. NewConnection => \/ task' = TRUE /\ 2 * Abandoned + 1 + 2 <= FdLimit
                         \/ task' = FALSE /\ 2 * Abandoned + 1 <= FdLimit
    <3> SUFFICES ASSUME NewConnection
                 PROVE  \/ task' = TRUE /\ 2 * Abandoned + 1 + 2 <= FdLimit
                        \/ task' = FALSE /\ 2 * Abandoned + 1 <= FdLimit
      OBVIOUS
    <3>1. task' = (2 * Abandoned + 1 + 2 <= FdLimit) /\ 2 * Abandoned + 1 <= FdLimit
      BY Zenon DEF NewConnection
    <3>2. CASE 2 * Abandoned + 1 + 2 <= FdLimit
      BY <3>1, <3>2, Zenon
    <3>3. CASE ~(2 * Abandoned + 1 + 2 <= FdLimit)
      <4>1. (2 * Abandoned + 1 + 2 <= FdLimit) = FALSE
        BY <3>3
      <4>2. QED
        BY <3>1, <4>1, Zenon
    <3>4. QED
      BY <3>2, <3>3, Zenon
  <2>5. NewConnection => conn' = "open"
    BY Zenon DEF NewConnection
  <2>6. AcceptFails \/ ReadEnds => ~task' /\ task' \in BOOLEAN /\ conn' \in {"none", "stale"}
    BY DEF AcceptFails, ReadEnds
  <2>7. /\ conn' \in {"none", "open", "stale", "broken"}
        /\ task' \in BOOLEAN /\ (task' => conn' = "open")
    BY <2>4, <2>5, <2>6
  <2>8. FdsInUse' <= FdLimit
    <3>1. CASE NewConnection
      BY <2>2, <2>4, <2>5, <3>1 DEF FdsInUse
    <3>2. CASE AcceptFails \/ ReadEnds
      BY <2>2, <2>3, <2>6, <3>2 DEF FdsInUse
    <3>3. QED
      BY <3>1, <3>2
  <2>9. QED
    BY <1>1, <2>1, <2>2, <2>7, <2>8 DEF IInv, TypeOK
<1>4. QED
  BY <1>2, <1>3 DEF IInv

(* What happens to `to', and the second close of `from'. *)
LEMMA OtherStepsKeep ==
  ASSUME IInv, ClosesAgain \/ ToOpens \/ ToCloses \/ UNCHANGED vars
  PROVE  IInv'
<1>1. UNCHANGED <<task, pipe, read, out, drained, leaked, faltered>> /\ to' \in BOOLEAN
  BY DEF IInv, TypeOK, ClosesAgain, ToOpens, ToCloses, vars
<1>2. /\ conn' \in {"none", "open", "stale", "broken"}
      /\ conn' = "open" <=> conn = "open"
  BY DEF IInv, TypeOK, ClosesAgain, ToOpens, ToCloses, vars
<1>3. FdsInUse' = FdsInUse
  BY <1>1, <1>2 DEF FdsInUse
<1>4. TypeOK'
  BY <1>1, <1>2, <1>3 DEF IInv, TypeOK
<1>5. QED
  BY <1>1, <1>4 DEF IInv, InOrder, Bounded, IdleEmpty, PipeEmptyBetween, Accounted

LEMMA InitIInv == Init => IInv
<1> USE SpliceAssumption
<1> SUFFICES ASSUME Init PROVE IInv
  OBVIOUS
<1>1. TypeOK
  <2>1. <<>> \in Seq(1 .. MaxUnits) /\ Len(<<>>) = 0
    OBVIOUS
  <2>2. FdsInUse = 0
    BY DEF Init, FdsInUse
  <2>3. pipe \in Seq(1 .. MaxUnits) /\ Len(pipe) <= PipeCap /\ out \in Seq(1 .. MaxUnits)
    BY <2>1 DEF Init
  <2>4. task \in BOOLEAN /\ to \in BOOLEAN /\ faltered \in BOOLEAN /\ (task => conn = "open")
    BY Zenon DEF Init
  <2>5. conn \in {"none", "open", "stale", "broken"} /\ drained \subseteq 1 .. MaxUnits
    BY DEF Init
  <2>6. read \in 0 .. MaxUnits /\ leaked \in Nat /\ FdsInUse <= FdLimit
    BY <2>2 DEF Init
  <2>7. QED
    BY <2>3, <2>4, <2>5, <2>6 DEF TypeOK
<1>2. out \o pipe = <<>>
  <2>1. <<>> \in Seq(Units) /\ Len(<<>>) = 0
    OBVIOUS
  <2>2. <<>> \o <<>> = <<>>
    BY <2>1, ConcatEmptySeq
  <2>3. QED
    BY <2>2 DEF Init
<1>3. InOrder
  BY <1>2 DEF InOrder
<1>4. Accounted
  BY EmptyUnits DEF Init, Accounted
<1>5. QED
  BY <1>1, <1>3, <1>4 DEF Init, IInv, Bounded, IdleEmpty, PipeEmptyBetween

LEMMA NextIInv == IInv /\ [Next]_vars => IInv'
<1> SUFFICES ASSUME IInv, [Next]_vars PROVE IInv'
  OBVIOUS
<1>1. CASE \E k \in 1 .. SpliceSize : Relay(k)
  BY <1>1, RelayKeeps
<1>2. CASE ReadFails
  BY <1>2, ReadFailsKeeps
<1>3. CASE NewConnection \/ AcceptFails \/ ReadEnds
  BY <1>3, EndOfConnectionKeeps
<1>4. CASE ClosesAgain \/ ToOpens \/ ToCloses \/ UNCHANGED vars
  BY <1>4, OtherStepsKeep
<1>5. QED
  BY <1>1, <1>2, <1>3, <1>4 DEF Next

LEMMA SpecIInv == Spec => []IInv
BY InitIInv, NextIInv, PTL DEF Spec
-----------------------------------------------------------------------------
(* The variables have their types, and the pipes and connections of        *)
(* reactive.c:142-159 never hold more descriptors than there are.          *)
THEOREM TypeCorrect == Spec => []TypeOK
<1>1. IInv => TypeOK
  BY DEF IInv
<1>2. QED
  BY <1>1, SpecIInv, PTL

(* operation.c:66-84 delivers what it read in the order it was sent, and   *)
(* nothing twice, whatever the two calls of splice(2) move.                *)
THEOREM DeliveredInOrder == Spec => []InOrder
<1>1. IInv => InOrder
  BY DEF IInv
<1>2. QED
  BY <1>1, SpecIInv, PTL

(* Until the destination has taken less than it was given, a call of       *)
(* operation.c:66-84 and its callback, reactive.c:123-140, leave nothing   *)
(* in the pipe, and every unit read has been delivered, or discarded by    *)
(* operation.c:236-243 while the destination was closed, and not both.     *)
THEOREM NoneLeftBehind == Spec => []NothingLost
<1>1. IInv => NothingLost
  BY DEF IInv, NothingLost, PipeEmptyBetween, Accounted
<1>2. QED
  BY <1>1, SpecIInv, PTL

(* A pipe that is full in front of an open destination stays as it is for  *)
(* as long as its task lives: operation.c:66-84 reads before it writes.    *)
THEOREM StaysStuck == Spec => StuckWhenFull
<1> USE SpliceAssumption
<1>1. ASSUME IInv, [Next]_vars, Len(pipe) = PipeCap, to, task', leaked' = leaked
      PROVE  pipe' = pipe
  <2>1. task
    <3>1. CASE task
      BY <3>1
    <3>2. CASE ~task
      <4>1. pipe = <<>>
        BY <1>1, <3>2 DEF IInv, IdleEmpty
      <4>2. Len(<<>>) = 0
        OBVIOUS
      <4>3. QED
        BY <1>1, <4>1, <4>2
    <3>3. QED
      BY <3>1, <3>2
  <2>2. CASE NewConnection
    BY <1>1, <2>1, <2>2 DEF IInv, TypeOK, NewConnection, Abandoned
  <2>3. CASE AcceptFails \/ ReadEnds
    BY <1>1, <2>3 DEF AcceptFails, ReadEnds
  <2>4. CASE ReadFails
    BY <1>1, <2>4 DEF ReadFails, Failed
  <2>5. CASE \E k \in 1 .. SpliceSize : Relay(k)
    BY <1>1, <2>5 DEF Relay, Least
  <2>6. CASE ClosesAgain \/ ToOpens \/ ToCloses \/ UNCHANGED vars
    BY <2>6 DEF ClosesAgain, ToOpens, ToCloses, vars
  <2>7. QED
    BY <1>1, <2>2, <2>3, <2>4, <2>5, <2>6 DEF Next
<1>2. IInv /\ [Next]_vars
        => [Len(pipe) = PipeCap /\ to /\ task' /\ leaked' = leaked => pipe' = pipe]_vars
  BY <1>1
<1>3. QED
  BY <1>2, SpecIInv, PTL DEF Spec, StuckWhenFull
=============================================================================
