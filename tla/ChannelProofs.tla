---------------------------- MODULE ChannelProofs ----------------------------
(***************************************************************************)
(* Proofs about Channel for any set of subscribers, any sizes of calls and *)
(* pipes, and any number of units.                                         *)
(***************************************************************************)
EXTENDS Channel, SequenceTheorems, TLAPS

Increasing(q) == \A i, j \in DOMAIN q : i < j => q[i] < q[j]
UpTo(q, b) == \A i \in DOMAIN q : q[i] <= b

(* What list_for_each has offered to s: while s is to be visited, all but  *)
(* what the first splice(2) has just moved.                                *)
Offered(s) == IF s \in todo THEN read - n ELSE read

(* The list is walked, and the pipe of the task filled, only by            *)
(* publish_progress, and that pipe holds what was just read.               *)
PipeIsNews ==
  /\ pc # "subs" => todo = {}
  /\ pc = "idle" => ppipe = <<>>
  /\ pc \in {"subs", "published"} => n <= read /\ ppipe = Numbers(read - n, read)

(* g taken and p left over, out of the units after a that were offered up  *)
(* to b, all of them if nothing has gone wrong.                            *)
Served(g, p, a, b, kept) ==
  /\ Increasing(g \o p)
  /\ UpTo(g \o p, b)
  /\ a <= b
  /\ kept => g = Numbers(a, b) /\ p = <<>>

AllServed == \A s \in joined : Served(got[s], spipe[s], since[s], Offered(s), s \in keptUp)

IInv == TypeOK /\ PipeIsNews /\ AllServed
-----------------------------------------------------------------------------
(* What First, Rest and Numbers are.                                       *)

LEMMA FirstRest ==
  ASSUME NEW U, NEW s \in Seq(U), NEW w \in 0 .. Len(s)
  PROVE  /\ First(s, w) \in Seq(U) /\ Len(First(s, w)) = w
         /\ \A i \in 1 .. w : First(s, w)[i] = s[i]
         /\ Rest(s, w) \in Seq(U) /\ Len(Rest(s, w)) = Len(s) - w
<1>1. Len(s) \in Nat /\ w \in Nat /\ w <= Len(s) /\ \A i \in 1 .. Len(s) : s[i] \in U
  BY ElementOfSeq, LenProperties
<1>2. First(s, w) = SubSeq(s, 1, w)
  BY <1>1 DEF First, Least
<1>3. /\ SubSeq(s, 1, w) \in Seq(U)
      /\ Len(SubSeq(s, 1, w)) = IF 1 <= w THEN w - 1 + 1 ELSE 0
      /\ \A i \in 1 .. w - 1 + 1 : SubSeq(s, 1, w)[i] = s[1 + i - 1]
  <2>1. \A i \in 1 .. w : s[i] \in U
    BY <1>1
  <2>2. QED
    BY <1>1, <2>1, SubSeqProperties
<1>4. /\ SubSeq(s, w + 1, Len(s)) \in Seq(U)
      /\ Len(SubSeq(s, w + 1, Len(s))) = IF w + 1 <= Len(s) THEN Len(s) - (w + 1) + 1 ELSE 0
  <2>1. \A i \in w + 1 .. Len(s) : s[i] \in U
    BY <1>1
  <2>2. QED
    BY <1>1, <2>1, SubSeqProperties
<1>5. QED
  BY <1>1, <1>2, <1>3, <1>4 DEF Rest

(* What is moved from the front of t to the end of s changes nothing of    *)
(* the two together.                                                       *)
LEMMA MovedOver ==
  ASSUME NEW U, NEW s \in Seq(U), NEW t \in Seq(U), NEW w \in 0 .. Len(t)
  PROVE  (s \o First(t, w)) \o Rest(t, w) = s \o t
<1>1. Len(t) \in Nat
  BY LenProperties
<1>2. First(t, w) \in Seq(U) /\ Rest(t, w) \in Seq(U) /\ First(t, w) = SubSeq(t, 1, w)
  BY <1>1, FirstRest DEF First, Least
<1>3. SubSeq(t, 1, w) \o SubSeq(t, w + 1, Len(t)) = SubSeq(t, 1, Len(t))
  <2>1. 1 \in 1 .. Len(t) + 1 /\ w \in 1 - 1 .. Len(t) /\ Len(t) \in w .. Len(t)
    BY <1>1
  <2>2. QED
    BY <2>1, ConcatAdjacentSubSeq, Zenon
<1>4. First(t, w) \o Rest(t, w) = t
  BY <1>2, <1>3, SubSeqFull DEF Rest
<1>5. (s \o First(t, w)) \o Rest(t, w) = s \o (First(t, w) \o Rest(t, w))
  <2>1. \A a, b, c \in Seq(U) : (a \o b) \o c = a \o (b \o c)
    BY ConcatAssociative, SMTT(60)
  <2>2. QED
    BY <1>2, <2>1
<1>6. QED
  BY <1>4, <1>5

(* All of a sequence, and nothing of it. *)
LEMMA AllOrNothing ==
  ASSUME NEW U, NEW s \in Seq(U)
  PROVE  First(s, Len(s)) = s /\ Rest(s, Len(s)) = <<>> /\ First(s, 0) = <<>> /\ Rest(s, 0) = s
<1>1. Len(s) \in Nat
  BY LenProperties
<1>2. First(s, Len(s)) = SubSeq(s, 1, Len(s)) /\ First(s, 0) = SubSeq(s, 1, 0)
  BY <1>1 DEF First, Least
<1>3. SubSeq(s, 1, Len(s)) = s
  BY SubSeqFull
<1>4. SubSeq(s, 1, 0) = <<>> /\ SubSeq(s, Len(s) + 1, Len(s)) = <<>>
  BY <1>1, SubSeqEmpty
<1>5. QED
  BY <1>2, <1>3, <1>4 DEF Rest

LEMMA NumbersAre ==
  ASSUME NEW a \in Nat, NEW b \in a .. MaxUnits
  PROVE  /\ Numbers(a, b) \in Seq(Units) /\ Len(Numbers(a, b)) = b - a
         /\ \A i \in 1 .. b - a : Numbers(a, b)[i] = a + i
<1> USE ChannelAssumption
<1>1. /\ Numbers(a, b) \in [1 .. b - a -> Units]
      /\ \A i \in 1 .. b - a : Numbers(a, b)[i] = a + i
  BY DEF Numbers, Units
<1>2. b - a \in Nat
  OBVIOUS
<1>3. QED
  BY <1>1, <1>2

LEMMA NumbersJoined ==
  ASSUME NEW a \in Nat, NEW b \in a .. MaxUnits, NEW c \in b .. MaxUnits
  PROVE  Numbers(a, b) \o Numbers(b, c) = Numbers(a, c)
<1> USE ChannelAssumption
<1>0. c \in a .. MaxUnits /\ b \in Nat
  OBVIOUS
<1>1. PICK x, y, z : x = Numbers(a, b) /\ y = Numbers(b, c) /\ z = Numbers(a, c)
  OBVIOUS
<1>2. /\ x \in Seq(Units) /\ Len(x) = b - a /\ \A i \in 1 .. b - a : x[i] = a + i
      /\ y \in Seq(Units) /\ Len(y) = c - b /\ \A i \in 1 .. c - b : y[i] = b + i
      /\ z \in Seq(Units) /\ Len(z) = c - a /\ \A i \in 1 .. c - a : z[i] = a + i
  BY <1>0, <1>1, NumbersAre
<1>3. /\ x \o y \in Seq(Units) /\ Len(x \o y) = Len(x) + Len(y)
      /\ \A i \in 1 .. Len(x) + Len(y) : (x \o y)[i] = IF i <= Len(x) THEN x[i] ELSE y[i - Len(x)]
  BY <1>2, ConcatProperties
<1>4. Len(x \o y) = Len(z)
  BY <1>2, <1>3
<1>5. ASSUME NEW i \in 1 .. c - a
      PROVE  (x \o y)[i] = z[i]
  <2>1. z[i] = a + i /\ i \in 1 .. Len(x) + Len(y)
    BY <1>2
  <2>2. CASE i <= b - a
    BY <1>2, <1>3, <2>1, <2>2
  <2>3. CASE ~(i <= b - a)
    <3>1. i - (b - a) \in 1 .. c - b /\ (x \o y)[i] = y[i - (b - a)]
      BY <1>2, <1>3, <2>1, <2>3, SMTT(60)
    <3>2. y[i - (b - a)] = b + (i - (b - a))
      BY <1>2, <3>1
    <3>3. QED
      BY <2>1, <3>1, <3>2
  <2>4. QED
    BY <2>2, <2>3
<1>6. x \o y = z
  <2>1. \A i \in 1 .. Len(x \o y) : (x \o y)[i] = z[i]
    BY <1>2, <1>4, <1>5
  <2>2. QED
    BY <1>2, <1>3, <1>4, <2>1, SeqEqual
<1>7. QED
  BY <1>1, <1>6

LEMMA FirstNumbers ==
  ASSUME NEW a \in Nat, NEW b \in a .. MaxUnits, NEW m \in 0 .. b - a
  PROVE  First(Numbers(a, b), m) = Numbers(a, a + m)
<1> USE ChannelAssumption
<1>1. PICK x, y : x = Numbers(a, b) /\ y = Numbers(a, a + m)
  OBVIOUS
<1>2. a + m \in a .. MaxUnits
  OBVIOUS
<1>3. /\ x \in Seq(Units) /\ Len(x) = b - a /\ \A i \in 1 .. b - a : x[i] = a + i
  BY <1>1, NumbersAre
<1>4. /\ y \in Seq(Units) /\ Len(y) = m /\ \A i \in 1 .. m : y[i] = a + i
  <2>1. PICK c : c = a + m
    OBVIOUS
  <2>2. c \in a .. MaxUnits /\ c - a = m /\ y = Numbers(a, c)
    BY <1>1, <1>2, <2>1
  <2>3. QED
    BY <2>2, NumbersAre
<1>5. PICK f : f = First(x, m)
  OBVIOUS
<1>6. f \in Seq(Units) /\ Len(f) = m /\ \A i \in 1 .. m : f[i] = x[i]
  BY <1>3, <1>5, FirstRest
<1>7. \A i \in 1 .. m : f[i] = y[i]
  BY <1>3, <1>4, <1>6
<1>8. f = y
  BY <1>4, <1>6, <1>7, SeqEqual
<1>9. QED
  BY <1>1, <1>5, <1>8

LEMMA NoNumbers ==
  ASSUME NEW a \in 0 .. MaxUnits
  PROVE  Numbers(a, a) = <<>>
<1> USE ChannelAssumption
<1>1. Numbers(a, a) \in Seq(Units) /\ Len(Numbers(a, a)) = 0
  BY NumbersAre
<1>2. QED
  BY <1>1, EmptySeq
-----------------------------------------------------------------------------
(* Sequences that are in order and end at b, when more is put behind them. *)
LEMMA LaterBehind ==
  ASSUME NEW q \in Seq(Units), NEW a \in Nat, NEW b \in a .. MaxUnits,
         Increasing(q), UpTo(q, a)
  PROVE  /\ q \o Numbers(a, b) \in Seq(Units)
         /\ Increasing(q \o Numbers(a, b)) /\ UpTo(q \o Numbers(a, b), b)
<1> USE ChannelAssumption
<1>1. PICK r : r = Numbers(a, b)
  OBVIOUS
<1>2. r \in Seq(Units) /\ Len(r) = b - a /\ \A i \in 1 .. b - a : r[i] = a + i
  BY <1>1, NumbersAre
<1>3. Len(q) \in Nat /\ DOMAIN q = 1 .. Len(q) /\ \A i \in 1 .. Len(q) : q[i] \in Units
  BY ElementOfSeq, LenProperties
<1>4. PICK s : s = q \o r
  OBVIOUS
<1>5. /\ s \in Seq(Units) /\ Len(s) = Len(q) + Len(r)
      /\ \A i \in 1 .. Len(q) + Len(r) : s[i] = IF i <= Len(q) THEN q[i] ELSE r[i - Len(q)]
  BY <1>2, <1>4, ConcatProperties
<1>6. DOMAIN s = 1 .. Len(q) + (b - a)
  BY <1>2, <1>5, LenProperties
<1>7. ASSUME NEW i \in DOMAIN s
      PROVE  \/ i \in 1 .. Len(q) /\ s[i] = q[i] /\ s[i] \in Int /\ s[i] <= a
             \/ i > Len(q) /\ s[i] = a + (i - Len(q)) /\ s[i] <= b
  <2>1. CASE i <= Len(q)
    <3>1. i \in 1 .. Len(q) /\ s[i] = q[i] /\ q[i] \in Int /\ q[i] <= a
      BY <1>2, <1>3, <1>5, <1>6, <2>1 DEF UpTo, Units
    <3>2. QED
      BY <3>1
  <2>2. CASE ~(i <= Len(q))
    <3>1. i - Len(q) \in 1 .. b - a /\ s[i] = r[i - Len(q)] /\ i \in Int
      BY <1>2, <1>3, <1>5, <1>6, <2>2, SMTT(60)
    <3>2. r[i - Len(q)] = a + (i - Len(q))
      BY <1>2, <3>1
    <3>3. a + (i - Len(q)) <= b /\ i > Len(q)
      BY <1>3, <2>2, <3>1
    <3>4. QED
      BY <3>1, <3>2, <3>3
  <2>3. QED
    BY <2>1, <2>2
<1>8. UpTo(s, b)
  BY <1>7 DEF UpTo
<1>9. Increasing(s)
  <2> SUFFICES ASSUME NEW i \in DOMAIN s, NEW j \in DOMAIN s, i < j
               PROVE  s[i] < s[j]
    BY DEF Increasing
  <2>1. i \in Nat /\ j \in Nat
    BY <1>2, <1>3, <1>6
  <2>2. CASE i \in 1 .. Len(q) /\ s[i] = q[i] /\ s[i] \in Int /\ s[i] <= a
    <3>1. CASE j \in 1 .. Len(q) /\ s[j] = q[j]
      BY <1>3, <2>2, <3>1 DEF Increasing
    <3>2. CASE j > Len(q) /\ s[j] = a + (j - Len(q))
      BY <1>3, <2>1, <2>2, <3>2
    <3>3. QED
      BY <1>7, <3>1, <3>2
  <2>3. CASE i > Len(q) /\ s[i] = a + (i - Len(q))
    <3>1. j > Len(q)
      BY <1>3, <2>1, <2>3
    <3>2. s[j] = a + (j - Len(q))
      BY <1>3, <1>7, <3>1
    <3>3. QED
      BY <1>3, <2>1, <2>3, <3>2
  <2>4. QED
    BY <1>7, <2>2, <2>3
<1>10. QED
  BY <1>1, <1>4, <1>5, <1>8, <1>9

(* One that joins has nothing yet. *)
LEMMA ServedAtFirst ==
  ASSUME NEW a \in 0 .. MaxUnits, NEW kept \in BOOLEAN
  PROVE  Served(<<>>, <<>>, a, a, kept)
<1>1. <<>> \in Seq(Units) /\ Len(<<>>) = 0
  OBVIOUS
<1>2. <<>> \o <<>> = <<>> /\ DOMAIN (<<>> \o <<>>) = {}
  <2>1. <<>> \o <<>> = <<>>
    BY <1>1, ConcatEmptySeq
  <2>2. QED
    BY <2>1
<1>3. Numbers(a, a) = <<>>
  BY NoNumbers
<1>4. QED
  BY <1>2, <1>3, ChannelAssumption DEF Served, Increasing, UpTo

(* What is offered can only grow. *)
LEMMA ServedLater ==
  ASSUME NEW g \in Seq(Units), NEW p \in Seq(Units), NEW a \in Nat, NEW b \in Nat, NEW c \in Nat,
         b <= c, NEW kept, Served(g, p, a, b, kept)
  PROVE  Served(g, p, a, c, FALSE)
<1>1. g \o p \in Seq(Units) /\ \A i \in DOMAIN (g \o p) : (g \o p)[i] \in Int
  <2>1. PICK q : q = g \o p
    OBVIOUS
  <2>2. q \in Seq(Units)
    BY <2>1, ConcatProperties
  <2>3. \A i \in DOMAIN q : q[i] \in Units
    BY <2>2, LenProperties, ElementOfSeq
  <2>4. QED
    BY <2>1, <2>2, <2>3 DEF Units
<1>2. UpTo(g \o p, c)
  BY <1>1 DEF Served, UpTo
<1>3. QED
  BY <1>2 DEF Served
-----------------------------------------------------------------------------
(* The steps of publish_progress.                                          *)

(* What tee(2) leaves in the pipe of s fits there and is in order.         *)
LEMMA TeedIs ==
  ASSUME IInv, pc = "subs", NEW s \in todo
  PROVE  /\ s \in Subs /\ s \in joined /\ got[s] \in Seq(Units) /\ n \in Nat /\ read \in Nat
         /\ Teed(s) \in Seq(Units) /\ Len(Teed(s)) <= PipeCap
         /\ Increasing(got[s] \o Teed(s)) /\ UpTo(got[s] \o Teed(s), read)
         /\ since[s] \in Nat /\ since[s] <= read
         /\ n = 0 => Teed(s) = spipe[s]
         /\ s \in keptUp => Teed(s) = ppipe /\ Len(ppipe) = n /\ got[s] \o ppipe = Numbers(since[s], read)
<1> USE ChannelAssumption
<1>1. /\ s \in Subs /\ s \in joined /\ got[s] \in Seq(Units) /\ spipe[s] \in Seq(Units)
      /\ Len(spipe[s]) \in Nat /\ Len(spipe[s]) <= PipeCap
      /\ n \in Nat /\ n <= SpliceSize /\ read \in Nat /\ read <= MaxUnits /\ since[s] \in Nat
  BY LenProperties DEF IInv, TypeOK
<1>2. n <= read /\ ppipe = Numbers(read - n, read)
  BY DEF IInv, PipeIsNews
<1>3. PICK b, m : b = read - n /\ m = Least(n, PipeCap - Len(spipe[s]))
  OBVIOUS
<1>4. b \in Nat /\ m \in 0 .. read - b /\ m <= PipeCap - Len(spipe[s]) /\ b + m \in b .. MaxUnits
      /\ read \in b .. MaxUnits /\ b + n = read /\ read - b = n
  <2>1. b \in Nat /\ b + n = read /\ read - b = n
    BY <1>1, <1>2, <1>3
  <2>2. m \in Nat /\ m <= n /\ m <= PipeCap - Len(spipe[s])
    <3>1. PICK l : l = PipeCap - Len(spipe[s])
      OBVIOUS
    <3>2. l \in Nat /\ m = Least(n, l)
      BY <1>1, <1>3, <3>1
    <3>3. n \in Nat
      BY <1>1
    <3>4. m \in Nat /\ m <= n /\ m <= l
      BY <3>2, <3>3 DEF Least
    <3>5. QED
      BY <3>1, <3>4
  <2>3. QED
    BY <1>1, <2>1, <2>2
<1>5. Served(got[s], spipe[s], since[s], b, s \in keptUp)
  <2>1. Offered(s) = b
    BY <1>3 DEF Offered
  <2>2. QED
    BY <1>1, <2>1 DEF IInv, AllServed
<1>6. ppipe = Numbers(b, read)
  BY <1>2, <1>3
<1>7. Teed(s) = spipe[s] \o Numbers(b, b + m)
  <2>1. First(ppipe, m) = Numbers(b, b + m)
    BY <1>4, <1>6, FirstNumbers
  <2>2. QED
    BY <1>3, <2>1 DEF Teed
<1>8. PICK new : new = Numbers(b, b + m)
  OBVIOUS
<1>9. new \in Seq(Units) /\ Len(new) = m
  <2>1. PICK c : c = b + m
    OBVIOUS
  <2>2. c \in b .. MaxUnits /\ c - b = m /\ new = Numbers(b, c)
    BY <1>4, <1>8, <2>1
  <2>3. QED
    BY <1>4, <2>2, NumbersAre
<1>10. Teed(s) \in Seq(Units) /\ Len(Teed(s)) <= PipeCap
  <2>1. spipe[s] \o new \in Seq(Units) /\ Len(spipe[s] \o new) = Len(spipe[s]) + m
    BY <1>1, <1>9, ConcatProperties
  <2>2. Teed(s) = spipe[s] \o new
    BY <1>7, <1>8
  <2>3. Len(spipe[s]) + m <= PipeCap
    BY <1>1, <1>4
  <2>4. QED
    BY <2>1, <2>2, <2>3
<1>11. Increasing(got[s] \o Teed(s)) /\ UpTo(got[s] \o Teed(s), read)
  <2>1. PICK q : q = got[s] \o spipe[s]
    OBVIOUS
  <2>2. q \in Seq(Units) /\ Increasing(q) /\ UpTo(q, b)
    BY <1>1, <1>5, <2>1, ConcatProperties DEF Served
  <2>3. q \o new \in Seq(Units) /\ Increasing(q \o new) /\ UpTo(q \o new, b + m)
    BY <1>4, <1>8, <2>2, LaterBehind
  <2>4. got[s] \o Teed(s) = q \o new
    <3>1. \A x, y, z \in Seq(Units) : (x \o y) \o z = x \o (y \o z)
      BY ConcatAssociative
    <3>2. Teed(s) = spipe[s] \o new
      BY <1>7, <1>8
    <3>3. (got[s] \o spipe[s]) \o new = got[s] \o (spipe[s] \o new)
      BY <1>1, <1>9, <3>1
    <3>4. QED
      BY <2>1, <3>2, <3>3
  <2>5. PICK t : t = q \o new
    OBVIOUS
  <2>6. \A i \in DOMAIN t : t[i] \in Units
    BY <2>3, <2>5, LenProperties, ElementOfSeq
  <2>7. UpTo(t, read)
    <3>1. \A i \in DOMAIN t : t[i] \in Int /\ t[i] <= b + m
      BY <2>3, <2>5, <2>6 DEF UpTo, Units
    <3>2. b + m \in Int /\ b + m <= read /\ read \in Int
      BY <1>1, <1>4
    <3>3. QED
      BY <3>1, <3>2 DEF UpTo
  <2>8. QED
    BY <2>3, <2>4, <2>5, <2>7
<1>12. ASSUME n = 0
       PROVE  Teed(s) = spipe[s]
  <2>1. m = 0 /\ b \in 0 .. MaxUnits /\ b + m = b
    BY <1>1, <1>3, <1>4, <1>12 DEF Least
  <2>2. new = <<>>
    BY <1>8, <2>1, NoNumbers
  <2>3. QED
    BY <1>1, <1>7, <1>8, <2>2, ConcatEmptySeq
<1>13. ASSUME s \in keptUp
       PROVE  Teed(s) = ppipe /\ Len(ppipe) = n /\ got[s] \o ppipe = Numbers(since[s], read)
  <2>1. spipe[s] = <<>> /\ got[s] = Numbers(since[s], b) /\ since[s] <= b
    BY <1>5, <1>13 DEF Served
  <2>2. m = n /\ b + m = read
    <3>1. Len(spipe[s]) = 0
      BY <2>1, EmptySeq
    <3>2. QED
      BY <1>1, <1>3, <1>4, <3>1 DEF Least
  <2>3. new = ppipe
    BY <1>6, <1>8, <2>2
  <2>4. Teed(s) = ppipe
    <3>1. <<>> \o new = new
      BY <1>9, ConcatEmptySeq
    <3>2. QED
      BY <1>7, <1>8, <2>1, <2>3, <3>1
  <2>5. got[s] \o ppipe = Numbers(since[s], read)
    <3>1. b \in since[s] .. MaxUnits /\ read \in b .. MaxUnits
      BY <1>1, <1>4, <2>1
    <3>2. Numbers(since[s], b) \o Numbers(b, read) = Numbers(since[s], read)
      BY <1>1, <3>1, NumbersJoined
    <3>3. QED
      BY <1>6, <2>1, <3>2
  <2>6. QED
    BY <1>9, <2>2, <2>3, <2>4, <2>5
<1>14. since[s] <= read
  BY <1>1, <1>4, <1>5 DEF Served
<1>15. QED
  BY <1>1, <1>10, <1>11, <1>12, <1>13, <1>14

(* A step of list_for_each that leaves s with g taken and p in its pipe.   *)
LEMMA VisitKeeps ==
  ASSUME IInv, pc = "subs", NEW s \in todo, Visited(s),
         UNCHANGED <<n, task, ppipe, joined, fd, read, since>>,
         NEW g \in Seq(Units), NEW p \in Seq(Units), Len(p) <= PipeCap,
         got' = [got EXCEPT ![s] = g], spipe' = [spipe EXCEPT ![s] = p],
         keptUp' \subseteq keptUp, keptUp \ {s} \subseteq keptUp',
         Served(g, p, since[s], read, s \in keptUp')
  PROVE  IInv'
<1>1. todo' = todo \ {s} /\ pc' \in {"subs", "published"} /\ (pc' # "subs" => todo' = {})
  BY DEF Visited
<1>2. TypeOK'
  <2>1. spipe' \in [Subs -> Seq(Units)] /\ got' \in [Subs -> Seq(Units)]
    BY DEF IInv, TypeOK
  <2>2. \A r \in Subs : Len(spipe'[r]) <= PipeCap
    BY DEF IInv, TypeOK
  <2>3. QED
    BY <1>1, <2>1, <2>2 DEF IInv, TypeOK
<1>3. PipeIsNews'
  BY <1>1 DEF IInv, PipeIsNews
<1>4. ASSUME NEW r \in joined
      PROVE  Served(got'[r], spipe'[r], since'[r], Offered(r)', (r \in keptUp)')
  <2>1. CASE r = s
    <3>1. Offered(r)' = read
      BY <1>1, <2>1 DEF Offered
    <3>2. got'[r] = g /\ spipe'[r] = p
      BY <2>1 DEF IInv, TypeOK
    <3>3. QED
      BY <2>1, <3>1, <3>2 DEF Served
  <2>2. CASE r # s
    <3>1. Offered(r)' = Offered(r)
      BY <1>1, <2>2 DEF Offered
    <3>2. got'[r] = got[r] /\ spipe'[r] = spipe[r]
      BY <2>2 DEF IInv, TypeOK
    <3>3. (r \in keptUp)' <=> r \in keptUp
      BY <2>2
    <3>4. Served(got[r], spipe[r], since[r], Offered(r), r \in keptUp)
      BY DEF IInv, AllServed
    <3>5. QED
      BY <3>1, <3>2, <3>3, <3>4 DEF Served
  <2>3. QED
    BY <2>1, <2>2
<1>5. QED
  BY <1>2, <1>3, <1>4 DEF IInv, AllServed

(* tee(2) fails: s has missed something. *)
LEMMA TeeFailsKeeps ==
  ASSUME IInv, NEW s \in Subs, TeeFails(s)
  PROVE  IInv'
<1> USE ChannelAssumption
<1>1. /\ pc = "subs" /\ s \in todo /\ Visited(s) /\ keptUp' = keptUp \ {s}
      /\ UNCHANGED <<n, task, ppipe, joined, fd, read, since>> /\ got' = got /\ spipe' = spipe
  BY DEF TeeFails
<1>2. got[s] \in Seq(Units) /\ spipe[s] \in Seq(Units) /\ Len(spipe[s]) <= PipeCap /\ s \in joined
  BY <1>1 DEF IInv, TypeOK
<1>3. got' = [got EXCEPT ![s] = got[s]] /\ spipe' = [spipe EXCEPT ![s] = spipe[s]]
  BY <1>1 DEF IInv, TypeOK
<1>4. Served(got[s], spipe[s], since[s], read, s \in keptUp')
  <2>1. Served(got[s], spipe[s], since[s], Offered(s), s \in keptUp)
    BY <1>2 DEF IInv, AllServed
  <2>2. Offered(s) \in Nat /\ read \in Nat /\ Offered(s) <= read /\ since[s] \in Nat
    BY <1>1 DEF IInv, TypeOK, PipeIsNews, Offered
  <2>3. Served(got[s], spipe[s], since[s], read, FALSE)
    BY <1>2, <2>1, <2>2, ServedLater
  <2>4. QED
    BY <1>1, <2>3 DEF Served
<1>5. QED
  BY <1>1, <1>2, <1>3, <1>4, VisitKeeps

(* tee(2) copies what fits, and the handle of s takes nothing of it. *)
LEMMA TeeKeepKeeps ==
  ASSUME IInv, NEW s \in Subs, TeeKeep(s)
  PROVE  IInv'
<1> USE ChannelAssumption
<1>1. /\ pc = "subs" /\ s \in todo /\ Visited(s)
      /\ keptUp' = IF n = 0 THEN keptUp ELSE keptUp \ {s}
      /\ UNCHANGED <<n, task, ppipe, joined, fd, read, since>>
      /\ got' = got /\ spipe' = [spipe EXCEPT ![s] = Teed(s)]
  BY DEF TeeKeep
<1>2. /\ s \in joined /\ got[s] \in Seq(Units) /\ n \in Nat /\ read \in Nat
      /\ Teed(s) \in Seq(Units) /\ Len(Teed(s)) <= PipeCap
      /\ Increasing(got[s] \o Teed(s)) /\ UpTo(got[s] \o Teed(s), read)
      /\ since[s] <= read /\ (n = 0 => Teed(s) = spipe[s])
  BY <1>1, TeedIs
<1>3. got' = [got EXCEPT ![s] = got[s]]
  BY <1>1 DEF IInv, TypeOK
<1>4. ASSUME s \in keptUp'
      PROVE  got[s] = Numbers(since[s], read) /\ Teed(s) = <<>>
  <2>1. n = 0 /\ s \in keptUp
    BY <1>1, <1>4
  <2>2. Offered(s) = read
    BY <1>2, <2>1 DEF Offered
  <2>3. QED
    BY <1>2, <2>1, <2>2 DEF IInv, AllServed, Served
<1>5. Served(got[s], Teed(s), since[s], read, s \in keptUp')
  BY <1>2, <1>4 DEF Served
<1>6. keptUp' \subseteq keptUp /\ keptUp \ {s} \subseteq keptUp'
  BY <1>1
<1>7. QED
  BY <1>1, <1>2, <1>3, <1>5, <1>6, VisitKeeps

(* tee(2) copies what fits, and the handle of s takes w of it. *)
LEMMA TeeWriteKeeps ==
  ASSUME IInv, NEW s \in Subs, TeeWrite(s)
  PROVE  IInv'
<1> USE ChannelAssumption
<1>1. /\ pc = "subs" /\ s \in todo /\ Visited(s)
      /\ UNCHANGED <<n, task, ppipe, joined, fd, read, since>>
  BY DEF TeeWrite
<1>2. /\ s \in joined /\ got[s] \in Seq(Units) /\ n \in Nat /\ read \in Nat
      /\ Teed(s) \in Seq(Units) /\ Len(Teed(s)) <= PipeCap
      /\ Increasing(got[s] \o Teed(s)) /\ UpTo(got[s] \o Teed(s), read)
      /\ since[s] <= read
      /\ s \in keptUp => Teed(s) = ppipe /\ Len(ppipe) = n /\ got[s] \o ppipe = Numbers(since[s], read)
  BY <1>1, TeedIs
<1>3. PICK t : t = Teed(s)
  OBVIOUS
<1>4. PICK most : most = Least(n, Len(t))
  OBVIOUS
<1>5. t \in Seq(Units) /\ Len(t) \in Nat /\ most \in Nat /\ most <= n /\ most <= Len(t)
  <2>1. t \in Seq(Units) /\ Len(t) \in Nat
    BY <1>2, <1>3, LenProperties
  <2>2. n \in Nat
    BY <1>2
  <2>3. QED
    BY <1>4, <2>1, <2>2 DEF Least
<1>6. PICK w \in (IF Falters THEN 1 .. most ELSE {most}) :
           /\ got' = [got EXCEPT ![s] = @ \o First(t, w)]
           /\ spipe' = [spipe EXCEPT ![s] = Rest(t, w)]
           /\ keptUp' = IF w < most THEN keptUp \ {s} ELSE keptUp
  BY <1>3, <1>4, Zenon DEF TeeWrite
<1>7. w \in 0 .. Len(t) /\ w \in Nat /\ w <= most
  BY <1>5, <1>6
<1>8. PICK f, r : f = First(t, w) /\ r = Rest(t, w)
  OBVIOUS
<1>9. f \in Seq(Units) /\ r \in Seq(Units) /\ Len(r) = Len(t) - w
  BY <1>5, <1>7, <1>8, FirstRest
<1>10. Len(r) <= PipeCap
  BY <1>2, <1>3, <1>5, <1>7, <1>9
<1>11. (got[s] \o f) \o r = got[s] \o t /\ got[s] \o f \in Seq(Units)
  <2>1. got[s] \o f \in Seq(Units)
    BY <1>2, <1>9, ConcatProperties
  <2>2. (got[s] \o f) \o r = got[s] \o t
    BY <1>2, <1>5, <1>7, <1>8, MovedOver
  <2>3. QED
    BY <2>1, <2>2
<1>12. ASSUME s \in keptUp'
       PROVE  got[s] \o f = Numbers(since[s], read) /\ r = <<>>
  <2>1. ~(w < most) /\ s \in keptUp
    BY <1>6, <1>12
  <2>2. Len(t) = n /\ t = ppipe /\ got[s] \o t = Numbers(since[s], read)
    BY <1>2, <1>3, <2>1
  <2>3. most = Len(t)
    BY <1>4, <1>5, <2>2 DEF Least
  <2>4. w = Len(t)
    BY <1>5, <1>7, <2>1, <2>3
  <2>5. f = t /\ r = <<>>
    BY <1>5, <1>8, <2>4, AllOrNothing
  <2>6. QED
    BY <2>2, <2>5
<1>13. Served(got[s] \o f, r, since[s], read, s \in keptUp')
  BY <1>2, <1>3, <1>11, <1>12 DEF Served
<1>14. got' = [got EXCEPT ![s] = got[s] \o f] /\ spipe' = [spipe EXCEPT ![s] = r]
  BY <1>6, <1>8
<1>15. keptUp' \subseteq keptUp /\ keptUp \ {s} \subseteq keptUp'
  BY <1>6
<1>16. QED
  BY <1>1, <1>9, <1>10, <1>11, <1>13, <1>14, <1>15, VisitKeeps

(* The first splice(2): what it moves is the news for all subscribers. *)
LEMMA SpliceInKeeps ==
  ASSUME IInv, NEW k \in 0 .. SpliceSize, SpliceIn(k)
  PROVE  IInv'
<1> USE ChannelAssumption
<1>1. PICK m : m = Least(k, PipeCap - Len(ppipe))
  OBVIOUS
<1>2. /\ pc = "idle" /\ task /\ read + m <= MaxUnits /\ n' = m
      /\ ppipe' = ppipe \o Numbers(read, read + m) /\ read' = read + m
      /\ todo' = joined /\ pc' = IF joined = {} THEN "published" ELSE "subs"
      /\ UNCHANGED <<task, joined, fd, spipe, got, since, keptUp>>
  BY <1>1 DEF SpliceIn
<1>3. ppipe = <<>> /\ Len(ppipe) = 0 /\ todo = {} /\ read \in Nat
  BY <1>2, EmptySeq DEF IInv, TypeOK, PipeIsNews
<1>4. m \in Nat /\ m <= SpliceSize
  BY <1>1, <1>3 DEF Least
<1>5. PICK b : b = read + m
  OBVIOUS
<1>6. b \in read .. MaxUnits /\ b - m = read /\ b - read = m /\ b \in Nat
  BY <1>2, <1>3, <1>4, <1>5
<1>7. PICK new : new = Numbers(read, b)
  OBVIOUS
<1>8. new \in Seq(Units) /\ Len(new) = m
  BY <1>3, <1>6, <1>7, NumbersAre
<1>9. ppipe' = new
  <2>1. <<>> \o new = new
    BY <1>8, ConcatEmptySeq
  <2>2. QED
    BY <1>2, <1>3, <1>5, <1>7, <2>1
<1>10. TypeOK'
  <2>1. ppipe' \in Seq(Units) /\ Len(ppipe') <= PipeCap
    BY <1>4, <1>8, <1>9
  <2>2. n' \in 0 .. SpliceSize /\ read' \in 0 .. MaxUnits /\ todo' \subseteq joined'
    BY <1>2, <1>4, <1>5, <1>6
  <2>3. pc' \in {"idle", "subs", "published", "freed_task"}
    BY <1>2
  <2>4. QED
    BY <1>2, <2>1, <2>2, <2>3 DEF IInv, TypeOK
<1>11. PipeIsNews'
  <2>1. n' <= read' /\ ppipe' = Numbers(read' - n', read')
    BY <1>2, <1>3, <1>4, <1>5, <1>6, <1>7, <1>9
  <2>2. pc' \in {"subs", "published"} /\ (pc' # "subs" => todo' = {})
    BY <1>2
  <2>3. QED
    BY <2>1, <2>2 DEF PipeIsNews
<1>12. \A s \in joined : Offered(s) = read /\ Offered(s)' = read
  BY <1>2, <1>3, <1>5, <1>6 DEF Offered
<1>13. AllServed'
  BY <1>2, <1>12 DEF IInv, AllServed
<1>14. QED
  BY <1>10, <1>11, <1>13 DEF IInv

(* pub_cb and the last splice(2): the pipe of the task is empty again. *)
LEMMA DrainKeeps ==
  ASSUME IInv, Drain
  PROVE  IInv'
<1> USE ChannelAssumption
<1>1. /\ pc = "published" /\ task' \in BOOLEAN
      /\ \/ pc' = "freed_task" /\ ppipe' = ppipe
         \/ pc' = "idle" /\ ppipe' = Rest(ppipe, n)
      /\ UNCHANGED <<n, todo, joined, fd, spipe, read, got, since, keptUp>>
  BY DEF Drain, IInv, TypeOK
<1>2. todo = {} /\ n \in Nat /\ read \in Nat /\ read <= MaxUnits /\ n <= read
      /\ ppipe = Numbers(read - n, read) /\ ppipe \in Seq(Units)
  BY <1>1 DEF IInv, TypeOK, PipeIsNews
<1>3. Len(ppipe) = n
  <2>1. PICK b : b = read - n
    OBVIOUS
  <2>2. b \in Nat /\ read \in b .. MaxUnits /\ read - b = n /\ ppipe = Numbers(b, read)
    BY <1>2, <2>1
  <2>3. QED
    BY <2>2, NumbersAre
<1>4. Rest(ppipe, n) = <<>>
  BY <1>2, <1>3, AllOrNothing
<1>5. <<>> \in Seq(Units) /\ Len(<<>>) = 0
  OBVIOUS
<1>6. TypeOK'
  <2>1. ppipe' \in Seq(Units) /\ Len(ppipe') <= PipeCap
    <3>1. CASE ppipe' = ppipe
      BY <3>1 DEF IInv, TypeOK
    <3>2. CASE ppipe' = <<>>
      BY <1>5, <3>2, EmptySeq
    <3>3. QED
      BY <1>1, <1>4, <3>1, <3>2
  <2>2. QED
    BY <1>1, <2>1 DEF IInv, TypeOK
<1>7. PipeIsNews'
  BY <1>1, <1>2, <1>4 DEF PipeIsNews
<1>8. AllServed'
  BY <1>1 DEF IInv, AllServed, Offered
<1>9. QED
  BY <1>6, <1>7, <1>8 DEF IInv

LEMMA JoinKeeps ==
  ASSUME IInv, NEW s \in Subs, io_channel_join(s)
  PROVE  IInv'
<1> USE ChannelAssumption
<1>1. /\ pc = "idle" /\ joined' = joined \union {s} /\ spipe' = [spipe EXCEPT ![s] = <<>>]
      /\ got' = [got EXCEPT ![s] = <<>>] /\ since' = [since EXCEPT ![s] = read]
      /\ keptUp' = keptUp \union {s} /\ s \notin joined
      /\ UNCHANGED <<pc, n, todo, task, ppipe, fd, read>>
  BY DEF io_channel_join
<1>2. todo = {} /\ read \in 0 .. MaxUnits
  BY <1>1 DEF IInv, TypeOK, PipeIsNews
<1>3. TypeOK'
  <2>1. <<>> \in Seq(Units) /\ Len(<<>>) = 0
    OBVIOUS
  <2>2. /\ spipe' \in [Subs -> Seq(Units)] /\ got' \in [Subs -> Seq(Units)]
        /\ since' \in [Subs -> 0 .. MaxUnits]
    BY <1>1, <1>2, <2>1 DEF IInv, TypeOK
  <2>3. \A r \in Subs : Len(spipe'[r]) <= PipeCap
    BY <1>1, <2>1 DEF IInv, TypeOK
  <2>4. QED
    BY <1>1, <2>2, <2>3 DEF IInv, TypeOK
<1>4. PipeIsNews'
  BY <1>1 DEF IInv, PipeIsNews
<1>5. ASSUME NEW r \in joined'
      PROVE  Served(got'[r], spipe'[r], since'[r], Offered(r)', (r \in keptUp)')
  <2>1. Offered(r)' = read /\ Offered(r) = read
    BY <1>1, <1>2 DEF Offered
  <2>2. CASE r = s
    <3>1. got'[r] = <<>> /\ spipe'[r] = <<>> /\ since'[r] = read
      BY <1>1, <2>2 DEF IInv, TypeOK
    <3>2. Served(<<>>, <<>>, read, read, TRUE)
      BY <1>2, ServedAtFirst
    <3>3. QED
      BY <2>1, <3>1, <3>2 DEF Served
  <2>3. CASE r # s
    <3>1. r \in joined /\ got'[r] = got[r] /\ spipe'[r] = spipe[r] /\ since'[r] = since[r]
      BY <1>1, <2>3 DEF IInv, TypeOK
    <3>2. (r \in keptUp)' <=> r \in keptUp
      BY <1>1, <2>3
    <3>3. Served(got[r], spipe[r], since[r], Offered(r), r \in keptUp)
      BY <3>1 DEF IInv, AllServed
    <3>4. QED
      BY <2>1, <3>1, <3>2, <3>3 DEF Served
  <2>4. QED
    BY <2>2, <2>3
<1>6. QED
  BY <1>3, <1>4, <1>5 DEF IInv, AllServed

(* The other calls of the client touch neither pipes nor units. *)
LEMMA ClientKeeps ==
  ASSUME IInv,
         \/ io_channel_close \/ io_publish_start \/ io_publish_stop
         \/ \E s \in Subs : OpenClose(s)
         \/ UNCHANGED vars
  PROVE  IInv'
<1> USE ChannelAssumption
<1>1. UNCHANGED <<pc, n, todo, spipe, read, got, since, keptUp>> /\ joined' \subseteq joined
  BY DEF io_channel_close, io_publish_start, io_publish_stop, OpenClose, vars
<1>2. task' \in BOOLEAN
  BY DEF io_channel_close, io_publish_start, io_publish_stop, OpenClose, vars, IInv, TypeOK
<1>3. fd' \in [Subs -> BOOLEAN]
  <2>1. CASE \E s \in Subs : OpenClose(s)
    <3>1. PICK s \in Subs : fd' = [fd EXCEPT ![s] = ~fd[s]]
      BY <2>1 DEF OpenClose
    <3>2. fd[s] \in BOOLEAN /\ (~fd[s]) \in BOOLEAN
      BY DEF IInv, TypeOK
    <3>3. QED
      BY <3>1, <3>2 DEF IInv, TypeOK
  <2>2. CASE UNCHANGED fd
    BY <2>2 DEF IInv, TypeOK
  <2>3. QED
    BY <2>1, <2>2 DEF io_channel_close, io_publish_start, io_publish_stop, vars
<1>4. ppipe' = ppipe \/ (ppipe' = <<>> /\ pc = "idle")
  BY DEF io_channel_close, io_publish_start, io_publish_stop, OpenClose, vars
<1>5. joined' = joined \/ pc = "idle"
  BY DEF io_channel_close, io_publish_start, io_publish_stop, OpenClose, vars
<1>6. TypeOK'
  <2>1. <<>> \in Seq(Units) /\ Len(<<>>) = 0
    OBVIOUS
  <2>2. ppipe' \in Seq(Units) /\ Len(ppipe') <= PipeCap
    <3>1. CASE ppipe' = ppipe
      BY <3>1 DEF IInv, TypeOK
    <3>2. CASE ppipe' = <<>>
      BY <2>1, <3>2, EmptySeq
    <3>3. QED
      BY <1>4, <3>1, <3>2
  <2>3. todo' \subseteq joined'
    BY <1>1, <1>5 DEF IInv, TypeOK, PipeIsNews
  <2>4. QED
    BY <1>1, <1>2, <1>3, <2>2, <2>3 DEF IInv, TypeOK
<1>7. PipeIsNews'
  BY <1>1, <1>4 DEF IInv, PipeIsNews
<1>8. AllServed'
  BY <1>1 DEF IInv, AllServed, Offered
<1>9. QED
  BY <1>6, <1>7, <1>8 DEF IInv

LEMMA InitIInv == Init => IInv
<1> USE ChannelAssumption
<1> SUFFICES ASSUME Init PROVE IInv
  OBVIOUS
<1>1. <<>> \in Seq(Units) /\ Len(<<>>) = 0
  OBVIOUS
<1>2. TypeOK
  <2>1. spipe \in [Subs -> Seq(Units)] /\ got \in [Subs -> Seq(Units)] /\ ppipe \in Seq(Units)
    BY <1>1 DEF Init
  <2>2. Len(ppipe) <= PipeCap /\ \A s \in Subs : Len(spipe[s]) <= PipeCap
    BY <1>1 DEF Init
  <2>3. n \in 0 .. SpliceSize /\ read \in 0 .. MaxUnits /\ since \in [Subs -> 0 .. MaxUnits]
    BY DEF Init
  <2>4. task \in BOOLEAN /\ fd \in [Subs -> BOOLEAN]
    BY DEF Init
  <2>5. QED
    BY <2>1, <2>2, <2>3, <2>4 DEF Init, TypeOK
<1>3. QED
  BY <1>2 DEF Init, IInv, PipeIsNews, AllServed

LEMMA NextIInv == IInv /\ [Next]_vars => IInv'
<1> SUFFICES ASSUME IInv, [Next]_vars PROVE IInv'
  OBVIOUS
<1>1. CASE \E s \in Subs : io_channel_join(s)
  BY <1>1, JoinKeeps
<1>2. CASE \E s \in Subs : TeeFails(s)
  BY <1>2, TeeFailsKeeps
<1>3. CASE \E s \in Subs : TeeWrite(s)
  BY <1>3, TeeWriteKeeps
<1>4. CASE \E s \in Subs : TeeKeep(s)
  BY <1>4, TeeKeepKeeps
<1>5. CASE \E k \in 0 .. SpliceSize : SpliceIn(k)
  BY <1>5, SpliceInKeeps
<1>6. CASE Drain
  BY <1>6, DrainKeeps
<1>7. CASE \/ io_channel_close \/ io_publish_start \/ io_publish_stop
           \/ \E s \in Subs : OpenClose(s)
           \/ UNCHANGED vars
  BY <1>7, ClientKeeps
<1>8. QED
  BY <1>1, <1>2, <1>3, <1>4, <1>5, <1>6, <1>7 DEF Next

LEMMA SpecIInv == Spec => []IInv
BY InitIInv, NextIInv, PTL DEF Spec
-----------------------------------------------------------------------------
(* The variables have their types, and no pipe of operation.c:103-121      *)
(* holds more than it has room for: tee(2) and splice(2) stop where it is  *)
(* full.                                                                   *)
THEOREM TypeCorrect == Spec => []TypeOK
<1>1. IInv => TypeOK
  BY DEF IInv
<1>2. QED
  BY <1>1, SpecIInv, PTL

(* What operation.c:103-121 gives to a subscriber, and what waits for it in *)
(* its pipe, is in the order in which it was published, and nothing comes  *)
(* twice, whatever the subscriber missed because it was closed or slow.    *)
THEOREM SubscribersInOrder == Spec => []InOrder
<1>1. IInv => InOrder
  BY DEF IInv, AllServed, Served, Increasing, InOrder
<1>2. QED
  BY <1>1, SpecIInv, PTL

(* A subscriber that took all it was given whenever operation.c:112-118    *)
(* came to it has got every unit published since it joined, whatever the   *)
(* subscribers before it in the list did.                                  *)
THEOREM KeptUpMissesNothing == Spec => []KeptUpGotAll
<1>1. IInv => KeptUpGotAll
  BY DEF IInv, AllServed, Served, Offered, KeptUpGotAll
<1>2. QED
  BY <1>1, SpecIInv, PTL

(* A subscriber whose pipe is full is passed over by the goto of           *)
(* operation.c:114-117 from then on: its pipe stays full, and it gets      *)
(* nothing, though it may have opened its handle again.                    *)
THEOREM FullIsForGood == Spec => CutOffWhenFull
<1> USE ChannelAssumption
<1>1. ASSUME IInv, [Next]_vars, NEW s \in joined \intersect joined', Len(spipe[s]) = PipeCap
      PROVE  spipe'[s] = spipe[s] /\ got'[s] = got[s]
  <2>1. /\ s \in Subs /\ spipe[s] \in Seq(Units) /\ got[s] \in Seq(Units) /\ n \in Nat
        /\ spipe \in [Subs -> Seq(Units)] /\ got \in [Subs -> Seq(Units)]
    BY <1>1 DEF IInv, TypeOK
  <2>2. CASE TeeWrite(s)
    <3>1. pc = "subs" /\ s \in todo /\ n = 0
      BY <1>1, <2>1, <2>2 DEF TeeWrite
    <3>2. Teed(s) = spipe[s]
      BY <1>1, <3>1, TeedIs
    <3>3. PICK most : most = Least(n, Len(Teed(s)))
      OBVIOUS
    <3>4. most = 0
      BY <1>1, <3>1, <3>2, <3>3 DEF Least
    <3>5. PICK w \in (IF Falters THEN 1 .. most ELSE {most}) :
           /\ got' = [got EXCEPT ![s] = @ \o First(Teed(s), w)]
           /\ spipe' = [spipe EXCEPT ![s] = Rest(Teed(s), w)]
      BY <2>2, <3>3, Zenon DEF TeeWrite
    <3>6. w = 0
      BY <3>4, <3>5
    <3>7. First(spipe[s], 0) = <<>> /\ Rest(spipe[s], 0) = spipe[s] /\ got[s] \o <<>> = got[s]
      BY <2>1, AllOrNothing, ConcatEmptySeq
    <3>8. QED
      BY <2>1, <3>2, <3>5, <3>6, <3>7
  <2>3. CASE TeeKeep(s)
    <3>1. pc = "subs" /\ s \in todo /\ n = 0
      BY <1>1, <2>1, <2>3 DEF TeeKeep
    <3>2. Teed(s) = spipe[s]
      BY <1>1, <3>1, TeedIs
    <3>3. QED
      BY <2>1, <2>3, <3>2 DEF TeeKeep
  <2>4. CASE \E r \in Subs : r # s /\ (TeeWrite(r) \/ TeeKeep(r) \/ io_channel_join(r))
    BY <2>1, <2>4 DEF TeeWrite, TeeKeep, io_channel_join
  <2>5. CASE \/ io_channel_join(s) \/ io_channel_close \/ io_publish_start \/ io_publish_stop
             \/ \E r \in Subs : OpenClose(r) \/ TeeFails(r)
             \/ \E k \in 0 .. SpliceSize : SpliceIn(k)
             \/ Drain \/ UNCHANGED vars
    BY <1>1, <2>5 DEF io_channel_join, io_channel_close, io_publish_start, io_publish_stop,
      OpenClose, TeeFails, SpliceIn, Drain, vars
  <2>6. QED
    BY <1>1, <2>2, <2>3, <2>4, <2>5 DEF Next
<1>2. IInv /\ [Next]_vars
        => [\A s \in joined \intersect joined' :
              Len(spipe[s]) = PipeCap => spipe'[s] = spipe[s] /\ got'[s] = got[s]]_vars
  BY <1>1
<1>3. QED
  BY <1>2, SpecIInv, PTL DEF Spec, CutOffWhenFull
=============================================================================
