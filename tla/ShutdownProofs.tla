--------------------------- MODULE ShutdownProofs ---------------------------
(***************************************************************************)
(* What is proved of Ring and Shutdown: the functions of list.h do to a    *)
(* ring what their comments say, the loop's list of handles stays a ring   *)
(* of the open ones whatever a signal handler interrupts, the walk of      *)
(* io_loop_foreach closes every handle, and nothing is read through NULL.  *)
(***************************************************************************)
EXTENDS Shutdown, FiniteSetTheorems, SequenceTheorems, TLAPS

(* r goes round the ring of the links M, from its head and back to it, past *)
(* m entries.                                                               *)
Circle(M, r, m) ==
  /\ M \in Links /\ m \in Nat /\ r \in [0 .. m + 1 -> Nodes]
  /\ r[0] = r[m + 1]
  /\ \A i, j \in 0 .. m : r[i] = r[j] => i = j
  /\ \A i \in 0 .. m : M.next[r[i]] = r[i + 1] /\ M.prev[r[i + 1]] = r[i]

On(r, m) == {r[i] : i \in 0 .. m}

(* h comes after position k. *)
Inserted(r, m, k, h) ==
  [i \in 0 .. m + 2 |-> IF i <= k THEN r[i] ELSE IF i = k + 1 THEN h ELSE r[i - 1]]

Removed(r, m, k) == [i \in 0 .. m |-> IF i < k THEN r[i] ELSE r[i + 1]]

(* A is M with h between p and q. *)
Between(A, M, h, p, q) ==
  /\ A \in Links
  /\ \A x \in Nodes : A.next[x] = IF x = p THEN h ELSE IF x = h THEN q ELSE M.next[x]
  /\ \A x \in Nodes : A.prev[x] = IF x = h THEN p ELSE IF x = q THEN h ELSE M.prev[x]

LEMMA AddLinks ==
  ASSUME NEW M \in Links, NEW h \in Nodes, NEW p \in Nodes, NEW q \in Nodes, h # p, h # q
  PROVE  Between(__list_add(M, h, p, q), M, h, p, q)
BY DEF __list_add, Links, Between

(* A is M with p and q next to each other. *)
Joined(A, M, p, q) ==
  /\ A \in Links
  /\ \A x \in Nodes : A.next[x] = IF x = p THEN q ELSE M.next[x]
  /\ \A x \in Nodes : A.prev[x] = IF x = q THEN p ELSE M.prev[x]

LEMMA DelLinks ==
  ASSUME NEW M \in Links, NEW p \in Nodes, NEW q \in Nodes
  PROVE  Joined(__list_del(M, p, q), M, p, q)
BY DEF __list_del, Links, Joined

LEMMA AddCircle ==
  ASSUME NEW M, NEW r, NEW m, Circle(M, r, m), NEW k \in 0 .. m,
         NEW h \in Nodes, h \notin On(r, m)
  PROVE  Circle(__list_add(M, h, r[k], r[k + 1]), Inserted(r, m, k, h), m + 1)
<1>. DEFINE A == __list_add(M, h, r[k], r[k + 1])
            R == Inserted(r, m, k, h)
<1>1. /\ m \in Nat /\ k \in Nat /\ k <= m /\ M \in Links
      /\ r \in [0 .. m + 1 -> Nodes] /\ r[0] = r[m + 1]
  BY DEF Circle
<1>2. \A i \in 0 .. m + 1 : r[i] # h
  BY <1>1 DEF On
<1>3. /\ A \in Links
      /\ \A x \in Nodes : A.next[x] = IF x = r[k] THEN h ELSE IF x = h THEN r[k + 1] ELSE M.next[x]
      /\ \A x \in Nodes : A.prev[x] = IF x = h THEN r[k] ELSE IF x = r[k + 1] THEN h ELSE M.prev[x]
  <2>1. r[k] \in Nodes /\ r[k + 1] \in Nodes /\ h # r[k] /\ h # r[k + 1]
    BY <1>1, <1>2
  <2>2. Between(A, M, h, r[k], r[k + 1])
    BY <1>1, <2>1, AddLinks
  <2>3. QED
    BY <2>2, Zenon DEF Between
<1>4. \A i, j \in 0 .. m : r[i] = r[j] => i = j
  BY DEF Circle
<1>5. \A i, j \in 0 .. m : r[i + 1] = r[j + 1] => i = j
  BY <1>1, <1>4
<1>6. \A i \in 0 .. m : M.next[r[i]] = r[i + 1] /\ M.prev[r[i + 1]] = r[i]
  BY DEF Circle
<1>. HIDE DEF A
<1>7. R \in [0 .. m + 2 -> Nodes] /\ R[0] = R[m + 2]
  BY <1>1 DEF Inserted
<1>8. \A i, j \in 0 .. m + 1 : R[i] = R[j] => i = j
  BY <1>1, <1>2, <1>4 DEF Inserted
<1>9. ASSUME NEW i \in 0 .. m + 1
      PROVE  A.next[R[i]] = R[i + 1] /\ A.prev[R[i + 1]] = R[i]
  <2>1. CASE i < k
    <3>1. R[i] = r[i] /\ R[i + 1] = r[i + 1] /\ i \in 0 .. m
      BY <2>1, <1>1 DEF Inserted
    <3>2. r[i] # r[k] /\ r[i + 1] # r[k + 1]
      BY <3>1, <2>1, <1>1, <1>4, <1>5
    <3>3. QED
      BY <3>1, <3>2, <1>1, <1>2, <1>3, <1>6
  <2>2. CASE i = k
    BY <2>2, <1>1, <1>2, <1>3 DEF Inserted
  <2>3. CASE i = k + 1
    BY <2>3, <1>1, <1>2, <1>3 DEF Inserted
  <2>4. CASE i > k + 1
    <3>1. R[i] = r[i - 1] /\ R[i + 1] = r[i] /\ i - 1 \in 0 .. m /\ (i - 1) + 1 = i /\ i \in 0 .. m + 1
      BY <2>4, <1>1 DEF Inserted
    <3>2. r[i - 1] # r[k] /\ r[i] # r[k + 1]
      BY <3>1, <2>4, <1>1, <1>4, <1>5
    <3>3. QED
      BY <3>1, <3>2, <1>1, <1>2, <1>3, <1>6, SMTT(60)
  <2>5. QED
    BY <2>1, <2>2, <2>3, <2>4, <1>1
<1>10. QED
  BY <1>1, <1>3, <1>7, <1>8, <1>9 DEF Circle, A

LEMMA DelCircle ==
  ASSUME NEW M, NEW r, NEW m, Circle(M, r, m), NEW k \in 1 .. m
  PROVE  Circle(__list_del(M, r[k - 1], r[k + 1]), Removed(r, m, k), m - 1)
<1>. DEFINE A == __list_del(M, r[k - 1], r[k + 1])
            R == Removed(r, m, k)
<1>1. /\ m \in Nat /\ k \in Nat /\ 1 <= k /\ k <= m /\ M \in Links
      /\ r \in [0 .. m + 1 -> Nodes] /\ r[0] = r[m + 1]
  BY DEF Circle
<1>3. /\ A \in Links
      /\ \A x \in Nodes : A.next[x] = IF x = r[k - 1] THEN r[k + 1] ELSE M.next[x]
      /\ \A x \in Nodes : A.prev[x] = IF x = r[k + 1] THEN r[k - 1] ELSE M.prev[x]
  <2>1. r[k - 1] \in Nodes /\ r[k + 1] \in Nodes
    BY <1>1
  <2>2. Joined(A, M, r[k - 1], r[k + 1])
    BY <1>1, <2>1, DelLinks
  <2>3. QED
    BY <2>2, Zenon DEF Joined
<1>4. \A i, j \in 0 .. m : r[i] = r[j] => i = j
  BY DEF Circle
<1>5. \A i, j \in 0 .. m : r[i + 1] = r[j + 1] => i = j
  BY <1>1, <1>4
<1>6. \A i \in 0 .. m : M.next[r[i]] = r[i + 1] /\ M.prev[r[i + 1]] = r[i]
  BY DEF Circle
<1>. HIDE DEF A
<1>7. R \in [0 .. m -> Nodes] /\ R[0] = R[m]
  BY <1>1 DEF Removed
<1>8. \A i, j \in 0 .. m - 1 : R[i] = R[j] => i = j
  BY <1>1, <1>4 DEF Removed
<1>9. ASSUME NEW i \in 0 .. m - 1
      PROVE  A.next[R[i]] = R[i + 1] /\ A.prev[R[i + 1]] = R[i]
  <2>1. CASE i < k - 1
    <3>1. R[i] = r[i] /\ R[i + 1] = r[i + 1] /\ i \in 0 .. m
      BY <2>1, <1>1 DEF Removed
    <3>2. r[i] # r[k - 1] /\ r[i + 1] # r[k + 1]
      BY <3>1, <2>1, <1>1, <1>4, <1>5
    <3>3. QED
      BY <3>1, <3>2, <1>1, <1>3, <1>6, SMTT(60)
  <2>2. CASE i = k - 1
    BY <2>2, <1>1, <1>3 DEF Removed
  <2>3. CASE i > k - 1
    <3>1. R[i] = r[i + 1] /\ R[i + 1] = r[i + 2] /\ i + 1 \in 0 .. m /\ i + 1 + 1 = i + 2
      BY <2>3, <1>1 DEF Removed
    <3>2. r[i + 1] # r[k - 1] /\ r[i + 2] # r[k + 1]
      BY <3>1, <2>3, <1>1, <1>4, <1>5
    <3>3. QED
      BY <3>1, <3>2, <1>1, <1>3, <1>6, SMTT(60)
  <2>4. QED
    BY <2>1, <2>2, <2>3, <1>1
<1>10. QED
  BY <1>1, <1>3, <1>7, <1>8, <1>9 DEF Circle, A

(* The list s of head, with the head before and after it. *)
Circ(head, s) == [i \in 0 .. Len(s) + 1 |-> At(head, s, i)]

LEMMA AtFacts ==
  ASSUME NEW head \in Nodes, NEW s \in Seq(Nodes)
  PROVE  /\ Len(s) \in Nat /\ DOMAIN s = 1 .. Len(s)
         /\ \A i \in 1 .. Len(s) : At(head, s, i) = s[i] /\ s[i] \in Nodes
         /\ At(head, s, 0) = head /\ At(head, s, Len(s) + 1) = head
BY DEF At

LEMMA ReverseAt ==
  ASSUME NEW head \in Nodes, NEW s \in Seq(Nodes)
  PROVE  /\ Reverse(s) \in Seq(Nodes) /\ Len(Reverse(s)) = Len(s)
         /\ ToSet(Reverse(s)) = ToSet(s)
         /\ \A i \in 0 .. Len(s) + 1 : At(head, Reverse(s), i) = At(head, s, Len(s) + 1 - i)
<1>. DEFINE m == Len(s)
<1>1. m \in Nat /\ DOMAIN s = 1 .. m /\ \A i \in 1 .. m : s[i] \in Nodes
  OBVIOUS
<1>2. Reverse(s) = [i \in 1 .. m |-> s[(m - i) + 1]]
  BY DEF Reverse
<1>. HIDE DEF m
<1>3. \A i \in 1 .. m : s[(m - i) + 1] \in Nodes
  BY <1>1
<1>4. Reverse(s) \in Seq(Nodes) /\ Len(Reverse(s)) = m /\ DOMAIN Reverse(s) = 1 .. m
  BY <1>1, <1>2, <1>3
<1>5. \A i \in 1 .. m : Reverse(s)[i] = s[(m - i) + 1] /\ s[i] = Reverse(s)[(m - i) + 1]
  BY <1>1, <1>2
<1>6. ToSet(Reverse(s)) = ToSet(s)
  <2>1. ASSUME NEW x \in ToSet(s)
        PROVE  x \in ToSet(Reverse(s))
    <3>1. PICK i \in 1 .. m : s[i] = x
      BY <1>1 DEF ToSet
    <3>2. (m - i) + 1 \in 1 .. m
      BY <1>1
    <3>3. QED
      BY <3>1, <3>2, <1>4, <1>5 DEF ToSet
  <2>2. ASSUME NEW x \in ToSet(Reverse(s))
        PROVE  x \in ToSet(s)
    <3>1. PICK i \in 1 .. m : Reverse(s)[i] = x
      BY <1>4 DEF ToSet
    <3>2. (m - i) + 1 \in 1 .. m
      BY <1>1
    <3>3. QED
      BY <3>1, <3>2, <1>1, <1>5 DEF ToSet
  <2>3. QED
    BY <2>1, <2>2
<1>7. \A i \in 0 .. m + 1 : At(head, Reverse(s), i) = At(head, s, m + 1 - i)
  BY <1>1, <1>4, <1>5 DEF At
<1>8. QED
  BY <1>4, <1>6, <1>7 DEF m

LEMMA RingIsCircle ==
  ASSUME NEW M \in Links, NEW head \in Nodes, NEW s \in Seq(Nodes), IsRing(M, head, s)
  PROVE  Circle(M, Circ(head, s), Len(s))
<1>. DEFINE m == Len(s)
            r == Circ(head, s)
            b == Reverse(s)
<1>1. /\ m \in Nat /\ DOMAIN s = 1 .. m
      /\ \A i \in 1 .. m : At(head, s, i) = s[i] /\ s[i] \in Nodes
      /\ At(head, s, 0) = head /\ At(head, s, m + 1) = head
  BY AtFacts
<1>2. \A i \in 0 .. m + 1 : r[i] = At(head, s, i)
  BY <1>1 DEF Circ
<1>3. r \in [0 .. m + 1 -> Nodes] /\ r[0] = head /\ r[m + 1] = head
  BY <1>1 DEF Circ
<1>4. /\ Len(b) = m /\ \A i \in 0 .. m + 1 : At(head, b, i) = At(head, s, m + 1 - i)
  BY ReverseAt
<1>5. \A i \in 1 .. m : r[i] # head
  BY <1>1, <1>2 DEF IsRing, list_for_each, Meets, ToSet
<1>6. \A i, j \in 0 .. m : r[i] = r[j] => i = j
  BY <1>1, <1>2, <1>3, <1>5 DEF IsRing, IsInjective
<1>7. \A i \in 0 .. m : M.next[r[i]] = r[i + 1]
  BY <1>1, <1>2 DEF IsRing, list_for_each, Meets
<1>8. \A i \in 0 .. m : M.prev[At(head, b, i)] = At(head, b, i + 1)
  BY <1>4 DEF IsRing, list_for_each_prev, Meets
<1>. HIDE DEF m, r, b
<1>9. ASSUME NEW i \in 0 .. m
      PROVE  M.prev[r[i + 1]] = r[i]
  <2>1. m - i \in 0 .. m /\ (m - i) + 1 \in 0 .. m + 1 /\ m + 1 - (m - i) = i + 1 /\ m + 1 - ((m - i) + 1) = i
    BY <1>1
  <2>2. M.prev[At(head, b, m - i)] = At(head, b, (m - i) + 1)
    BY <2>1, <1>8
  <2>3. At(head, b, m - i) = At(head, s, i + 1) /\ At(head, b, (m - i) + 1) = At(head, s, i)
    BY <2>1, <1>1, <1>4
  <2>4. QED
    BY <2>2, <2>3, <1>1, <1>2
<1>10. QED
  BY <1>1, <1>3, <1>6, <1>7, <1>9 DEF Circle, m, r

LEMMA CircleIsRing ==
  ASSUME NEW M, NEW r, NEW m, Circle(M, r, m), NEW s \in Seq(Nodes), Len(s) = m,
         \A i \in 1 .. m : s[i] = r[i]
  PROVE  IsRing(M, r[0], s)
<1>. DEFINE head == r[0]
            b == Reverse(s)
<1>1. /\ m \in Nat /\ M \in Links /\ r \in [0 .. m + 1 -> Nodes] /\ r[0] = r[m + 1]
      /\ \A i, j \in 0 .. m : r[i] = r[j] => i = j
      /\ \A i \in 0 .. m : M.next[r[i]] = r[i + 1] /\ M.prev[r[i + 1]] = r[i]
  BY DEF Circle
<1>2. head \in Nodes
  BY <1>1
<1>. HIDE DEF head
<1>3. DOMAIN s = 1 .. m
  OBVIOUS
<1>4. \A i \in 0 .. m + 1 : At(head, s, i) = r[i]
  BY <1>1, <1>3 DEF At, head
<1>5. head \notin ToSet(s)
  BY <1>1, <1>3 DEF ToSet, head
<1>6. IsInjective(s)
  BY <1>1, <1>3 DEF IsInjective
<1>7. list_for_each(M, head, s)
  BY <1>1, <1>4, <1>5 DEF list_for_each, Meets
<1>8. /\ Len(b) = m /\ ToSet(b) = ToSet(s)
      /\ \A i \in 0 .. m + 1 : At(head, b, i) = At(head, s, m + 1 - i)
  BY <1>2, ReverseAt
<1>. HIDE DEF b
<1>9. ASSUME NEW i \in 0 .. m
      PROVE  M.prev[At(head, b, i)] = At(head, b, i + 1)
  <2>1. m - i \in 0 .. m /\ (m - i) + 1 \in 0 .. m + 1 /\ m + 1 - (i + 1) = m - i /\ m + 1 - i = (m - i) + 1
    BY <1>1
  <2>2. At(head, b, i) = At(head, s, (m - i) + 1) /\ At(head, b, i + 1) = At(head, s, m - i)
    <3>1. i \in 0 .. m + 1 /\ i + 1 \in 0 .. m + 1
      BY <1>1
    <3>2. At(head, b, i) = At(head, s, m + 1 - i) /\ At(head, b, i + 1) = At(head, s, m + 1 - (i + 1))
      BY <3>1, <1>8, Zenon
    <3>3. QED
      BY <3>2, <2>1
  <2>3. At(head, s, (m - i) + 1) = r[(m - i) + 1] /\ At(head, s, m - i) = r[m - i]
    BY <2>1, <1>1, <1>4
  <2>4. QED
    BY <2>1, <2>2, <2>3, <1>1
<1>10. list_for_each_prev(M, head, b)
  BY <1>5, <1>8, <1>9 DEF list_for_each_prev, Meets
<1>11. QED
  BY <1>6, <1>7, <1>10 DEF IsRing, head, b

LEMMA RemoveAtFacts ==
  ASSUME NEW S, NEW s \in Seq(S), NEW k \in 1 .. Len(s)
  PROVE  /\ RemoveAt(s, k) \in Seq(S) /\ Len(RemoveAt(s, k)) = Len(s) - 1
         /\ \A i \in 1 .. Len(s) - 1 : RemoveAt(s, k)[i] = IF i < k THEN s[i] ELSE s[i + 1]
<1>. DEFINE a == SubSeq(s, 1, k - 1)
            b == SubSeq(s, k + 1, Len(s))
<1>1. /\ Len(s) \in Nat /\ \A i \in 1 .. Len(s) : s[i] \in S
  OBVIOUS
<1>2. a = [i \in 1 .. k - 1 |-> s[i]] /\ b = [i \in 1 .. Len(s) - k |-> s[i + k]]
  BY <1>1
<1>3. /\ a \in Seq(S) /\ Len(a) = k - 1 /\ \A i \in 1 .. k - 1 : a[i] = s[i]
      /\ b \in Seq(S) /\ Len(b) = Len(s) - k /\ \A i \in 1 .. Len(s) - k : b[i] = s[i + k]
  BY <1>1, <1>2
<1>. HIDE DEF a, b
<1>4. a \o b \in Seq(S) /\ Len(a \o b) = Len(s) - 1
  BY <1>1, <1>3
<1>5. ASSUME NEW i \in 1 .. Len(s) - 1
      PROVE  (a \o b)[i] = IF i < k THEN s[i] ELSE s[i + 1]
  <2>1. CASE i < k
    BY <2>1, <1>1, <1>3
  <2>2. CASE i >= k
    <3>1. (a \o b)[i] = b[i - (k - 1)]
      BY <2>2, <1>1, <1>3
    <3>2. i - (k - 1) \in 1 .. Len(s) - k /\ (i - (k - 1)) + k = i + 1
      BY <2>2, <1>1
    <3>3. b[i - (k - 1)] = s[(i - (k - 1)) + k]
      BY <3>2, <1>3
    <3>4. QED
      BY <3>1, <3>2, <3>3, <2>2
  <2>3. k \in Nat /\ i \in Nat
    BY <1>1
  <2>4. i < k \/ i >= k
    BY <2>3
  <2>5. QED
    BY <2>1, <2>2, <2>4, Zenon
<1>6. QED
  BY <1>4, <1>5 DEF RemoveAt, a, b

LEMMA RingAdd ==
  ASSUME NEW M \in Links, NEW head \in Nodes, NEW s \in Seq(Nodes), IsRing(M, head, s),
         NEW h \in Nodes, h \notin ToSet(s), h # head
  PROVE  /\ IsRing(list_add(M, h, head), head, <<h>> \o s)
         /\ IsRing(list_add_tail(M, h, head), head, Append(s, h))
<1>. DEFINE r == Circ(head, s)
            m == Len(s)
            f == <<h>> \o s
            e == Append(s, h)
<1>1. /\ m \in Nat /\ DOMAIN s = 1 .. m
      /\ \A i \in 1 .. m : At(head, s, i) = s[i] /\ s[i] \in Nodes
      /\ At(head, s, 0) = head /\ At(head, s, m + 1) = head
  BY AtFacts
<1>2. Circle(M, r, m)
  BY RingIsCircle
<1>3. \A i \in 1 .. m : r[i] = s[i]
  BY <1>1 DEF Circ
<1>4. r[0] = head /\ r[m + 1] = head
  BY <1>1 DEF Circ
<1>5. h \notin On(r, m)
  BY <1>1, <1>3, <1>4 DEF On, ToSet
<1>6. M.next[head] = r[1] /\ M.prev[head] = r[m]
  BY <1>1, <1>2, <1>4 DEF Circle
<1>7. f \in Seq(Nodes) /\ Len(f) = m + 1 /\ \A i \in 1 .. m + 1 : f[i] = IF i = 1 THEN h ELSE s[i - 1]
  BY <1>1
<1>8. e \in Seq(Nodes) /\ Len(e) = m + 1 /\ \A i \in 1 .. m + 1 : e[i] = IF i = m + 1 THEN h ELSE s[i]
  BY <1>1
<1>. HIDE DEF r, m, f, e
<1>9. IsRing(list_add(M, h, head), head, f)
  <2>. DEFINE A == __list_add(M, h, r[0], r[0 + 1])
              R == Inserted(r, m, 0, h)
  <2>1. Circle(A, R, m + 1)
    <3>1. 0 \in 0 .. m
      BY <1>1
    <3>2. QED
      BY <3>1, <1>2, <1>5, AddCircle
  <2>2. A = list_add(M, h, head)
    BY <1>4, <1>6 DEF list_add
  <2>3. R[0] = head /\ \A i \in 1 .. m + 1 : f[i] = R[i]
    BY <1>1, <1>3, <1>4, <1>7 DEF Inserted
  <2>. HIDE DEF A, R
  <2>4. QED
    BY <2>1, <2>2, <2>3, <1>7, CircleIsRing
<1>10. IsRing(list_add_tail(M, h, head), head, e)
  <2>. DEFINE A == __list_add(M, h, r[m], r[m + 1])
              R == Inserted(r, m, m, h)
  <2>1. Circle(A, R, m + 1)
    <3>1. m \in 0 .. m
      BY <1>1
    <3>2. QED
      BY <3>1, <1>2, <1>5, AddCircle
  <2>2. A = list_add_tail(M, h, head)
    BY <1>4, <1>6 DEF list_add_tail
  <2>3. R[0] = head /\ \A i \in 1 .. m + 1 : e[i] = R[i]
    BY <1>1, <1>3, <1>4, <1>8 DEF Inserted
  <2>. HIDE DEF A, R
  <2>4. QED
    BY <2>1, <2>2, <2>3, <1>8, CircleIsRing
<1>11. QED
  BY <1>9, <1>10 DEF f, e

LEMMA RingDel ==
  ASSUME NEW M \in Links, NEW head \in Nodes, NEW s \in Seq(Nodes), IsRing(M, head, s),
         NEW k \in 1 .. Len(s)
  PROVE  /\ M.prev[s[k]] \in Nodes /\ M.next[s[k]] \in Nodes
         /\ IsRing(__list_del(M, M.prev[s[k]], M.next[s[k]]), head, RemoveAt(s, k))
         /\ ToSet(RemoveAt(s, k)) = ToSet(s) \ {s[k]}
<1>. DEFINE r == Circ(head, s)
            m == Len(s)
            d == RemoveAt(s, k)
<1>1. /\ m \in Nat /\ DOMAIN s = 1 .. m
      /\ \A i \in 1 .. m : At(head, s, i) = s[i] /\ s[i] \in Nodes
      /\ At(head, s, 0) = head /\ At(head, s, m + 1) = head
  BY AtFacts
<1>2. Circle(M, r, m)
  BY RingIsCircle
<1>3. \A i \in 1 .. m : r[i] = s[i]
  BY <1>1 DEF Circ
<1>4. r[0] = head /\ r[m + 1] = head
  BY <1>1 DEF Circ
<1>5. d \in Seq(Nodes) /\ Len(d) = m - 1 /\ \A i \in 1 .. m - 1 : d[i] = IF i < k THEN s[i] ELSE s[i + 1]
  BY RemoveAtFacts
<1>6. k \in 1 .. m
  OBVIOUS
<1>. HIDE DEF r, m, d
<1>7. M.prev[s[k]] = r[k - 1] /\ M.next[s[k]] = r[k + 1] /\ r[k - 1] \in Nodes /\ r[k + 1] \in Nodes
  <2>1. k - 1 \in 0 .. m /\ k \in 0 .. m /\ (k - 1) + 1 = k /\ k - 1 \in 0 .. m + 1 /\ k + 1 \in 0 .. m + 1
    BY <1>1, <1>6
  <2>2. QED
    BY <2>1, <1>2, <1>3, <1>6 DEF Circle
<1>. DEFINE A == __list_del(M, r[k - 1], r[k + 1])
            R == Removed(r, m, k)
<1>8. Circle(A, R, m - 1)
  BY <1>2, <1>6, DelCircle
<1>9. R[0] = head /\ \A i \in 1 .. m - 1 : d[i] = R[i]
  BY <1>1, <1>3, <1>4, <1>5, <1>6 DEF Removed
<1>10. IsInjective(s)
  BY DEF IsRing
<1>11. ToSet(d) = ToSet(s) \ {s[k]}
  <2>1. DOMAIN d = 1 .. m - 1
    BY <1>5
  <2>2. ASSUME NEW x \in ToSet(d)
        PROVE  x \in ToSet(s) \ {s[k]}
    <3>1. PICK i \in 1 .. m - 1 : d[i] = x
      BY <2>1 DEF ToSet
    <3>2. PICK j \in 1 .. m : s[j] = x /\ j # k
      BY <3>1, <1>1, <1>5, <1>6
    <3>3. QED
      BY <3>2, <1>1, <1>6, <1>10 DEF ToSet, IsInjective
  <2>3. ASSUME NEW x \in ToSet(s) \ {s[k]}
        PROVE  x \in ToSet(d)
    <3>1. PICK j \in 1 .. m : s[j] = x
      BY <1>1 DEF ToSet
    <3>2. j # k
      BY <3>1
    <3>3. PICK i \in 1 .. m - 1 : d[i] = s[j]
      <4>1. CASE j < k
        BY <4>1, <1>1, <1>5, <1>6
      <4>2. CASE j > k
        <5>1. j - 1 \in 1 .. m - 1 /\ ~(j - 1 < k) /\ (j - 1) + 1 = j
          BY <4>2, <1>1, <1>6
        <5>2. QED
          BY <5>1, <1>5
      <4>3. QED
        BY <4>1, <4>2, <3>2, <1>6, <1>1
    <3>4. QED
      BY <3>1, <3>3, <2>1 DEF ToSet
  <2>4. QED
    BY <2>2, <2>3
<1>12. IsRing(A, head, d)
  <2>. HIDE DEF A, R
  <2>1. QED
    BY <1>5, <1>8, <1>9, CircleIsRing
<1>13. QED
  BY <1>7, <1>11, <1>12 DEF d

(* A ring does not change when links of other nodes do. *)
LEMMA Elsewhere ==
  ASSUME NEW M \in Links, NEW A \in Links, NEW head \in Nodes, NEW s \in Seq(Nodes),
         IsRing(M, head, s),
         \A x \in ToSet(s) \union {head} : A.next[x] = M.next[x] /\ A.prev[x] = M.prev[x]
  PROVE  IsRing(A, head, s)
<1>1. /\ Len(s) \in Nat /\ DOMAIN s = 1 .. Len(s)
  OBVIOUS
<1>2. \A i \in 0 .. Len(s) + 1 : At(head, s, i) \in ToSet(s) \union {head}
  BY <1>1 DEF At, ToSet
<1>3. /\ Len(Reverse(s)) = Len(s) /\ Reverse(s) \in Seq(Nodes) /\ ToSet(Reverse(s)) = ToSet(s)
  BY ReverseAt
<1>4. \A i \in 0 .. Len(s) + 1 : At(head, Reverse(s), i) \in ToSet(s) \union {head}
  BY <1>1, <1>3 DEF At, ToSet
<1>5. list_for_each(A, head, s)
  BY <1>1, <1>2 DEF IsRing, list_for_each, Meets
<1>6. list_for_each_prev(A, head, Reverse(s))
  <2>1. list_for_each_prev(M, head, Reverse(s))
    BY DEF IsRing
  <2>2. QED
    BY <2>1, <1>1, <1>3, <1>4 DEF list_for_each_prev, Meets
<1>7. QED
  BY <1>5, <1>6 DEF IsRing

(* list_empty is true of the head of an empty list only. *)
LEMMA EmptyRing ==
  ASSUME NEW M \in Links, NEW head \in Nodes, NEW s \in Seq(Nodes), IsRing(M, head, s)
  PROVE  list_empty(M, head) <=> s = <<>>
<1>1. /\ Len(s) \in Nat /\ DOMAIN s = 1 .. Len(s)
      /\ \A i \in 1 .. Len(s) : At(head, s, i) = s[i] /\ s[i] \in Nodes
      /\ At(head, s, 0) = head /\ At(head, s, Len(s) + 1) = head
  BY AtFacts
<1>2. M.next[head] = At(head, s, 1)
  BY <1>1 DEF IsRing, list_for_each, Meets
<1>3. CASE s = <<>>
  BY <1>1, <1>2, <1>3 DEF list_empty
<1>4. CASE s # <<>>
  <2>1. 1 \in 1 .. Len(s)
    BY <1>4, <1>1, EmptySeq
  <2>2. s[1] # head
    BY <2>1, <1>1 DEF IsRing, list_for_each, Meets, ToSet
  <2>3. QED
    BY <2>1, <2>2, <1>1, <1>2, <1>4 DEF list_empty
<1>5. QED
  BY <1>3, <1>4

(* The ring of an empty list. *)
LEMMA AloneRing ==
  ASSUME NEW M \in Links, NEW head \in Nodes, M.next[head] = head, M.prev[head] = head
  PROVE  IsRing(M, head, <<>>)
<1>1. Reverse(<<>>) = <<>>
  BY DEF Reverse
<1>2. \A i \in {0, 1} : At(head, <<>>, i) = head
  BY DEF At
<1>3. 0 .. Len(<<>>) = {0}
  OBVIOUS
<1>4. QED
  BY <1>1, <1>2, <1>3 DEF IsRing, IsInjective, list_for_each, list_for_each_prev, Meets, ToSet

(* The entries of a come to the head of b, whose list is empty. *)
LEMMA RingSplice ==
  ASSUME NEW M \in Links, NEW a \in Nodes, NEW b \in Nodes, NEW s \in Seq(Nodes),
         IsRing(M, a, s), s # <<>>, b \notin ToSet(s), b # a, M.next[b] = b
  PROVE  IsRing(__list_splice(M, a, b), b, s) /\ __list_splice(M, a, b) \in Links
<1>. DEFINE r == Circ(a, s)
            m == Len(s)
            A == __list_splice(M, a, b)
            R == [i \in 0 .. m + 1 |-> IF i \in {0, m + 1} THEN b ELSE r[i]]
<1>1. /\ m \in Nat /\ DOMAIN s = 1 .. m
      /\ \A i \in 1 .. m : At(a, s, i) = s[i] /\ s[i] \in Nodes
      /\ At(a, s, 0) = a /\ At(a, s, m + 1) = a
  BY AtFacts
<1>2. Circle(M, r, m)
  BY RingIsCircle
<1>3. \A i \in 1 .. m : r[i] = s[i]
  BY <1>1 DEF Circ
<1>4. r[0] = a /\ r[m + 1] = a
  BY <1>1 DEF Circ
<1>5. m >= 1
  BY <1>1, EmptySeq
<1>6. \A i \in 0 .. m + 1 : r[i] # b
  <2>1. \A i \in 1 .. m : s[i] # b
    BY <1>1 DEF ToSet
  <2>2. QED
    BY <2>1, <1>1, <1>3, <1>4
<1>. HIDE DEF r, m
<1>7. /\ r \in [0 .. m + 1 -> Nodes] /\ \A i, j \in 0 .. m : r[i] = r[j] => i = j
      /\ \A i \in 0 .. m : M.next[r[i]] = r[i + 1] /\ M.prev[r[i + 1]] = r[i]
  BY <1>2 DEF Circle
<1>8. M.next[a] = r[1] /\ M.prev[a] = r[m] /\ r[1] \in Nodes /\ r[m] \in Nodes
  <2>1. 0 \in 0 .. m /\ m \in 0 .. m /\ 0 + 1 = 1 /\ 1 \in 0 .. m + 1 /\ m \in 0 .. m + 1
    BY <1>1, <1>5
  <2>2. QED
    BY <2>1, <1>4, <1>7
<1>9. A = [M EXCEPT !.prev = [@ EXCEPT ![r[1]] = b, ![b] = r[m]],
                    !.next = [@ EXCEPT ![b] = r[1], ![r[m]] = b]]
  BY <1>8 DEF __list_splice
<1>10. PICK f \in Nodes, l \in Nodes : f = r[1] /\ l = r[m]
  BY <1>8
<1>11. /\ A \in Links
       /\ \A x \in Nodes : A.next[x] = IF x = l THEN b ELSE IF x = b THEN f ELSE M.next[x]
       /\ \A x \in Nodes : A.prev[x] = IF x = b THEN l ELSE IF x = f THEN b ELSE M.prev[x]
  <2>. HIDE DEF A
  <2>1. A = [M EXCEPT !.prev = [@ EXCEPT ![f] = b, ![b] = l], !.next = [@ EXCEPT ![b] = f, ![l] = b]]
    BY <1>9, <1>10, Zenon
  <2>2. M.next \in [Nodes -> Nodes \union {NULL}] /\ M.prev \in [Nodes -> Nodes \union {NULL}]
    BY DEF Links
  <2>3. /\ A.next = [M.next EXCEPT ![b] = f, ![l] = b]
        /\ A.prev = [M.prev EXCEPT ![f] = b, ![b] = l]
        /\ A = [next |-> A.next, prev |-> A.prev]
    BY <2>1 DEF Links
  <2>4. A \in Links
    BY <2>2, <2>3 DEF Links
  <2>5. QED
    BY <2>2, <2>3, <2>4
<1>. HIDE DEF A
<1>12. R \in [0 .. m + 1 -> Nodes] /\ R[0] = b /\ R[m + 1] = b
  BY <1>1, <1>7
<1>13. \A i \in 1 .. m : R[i] = r[i] /\ r[i] \in Nodes
  BY <1>1, <1>7
<1>. HIDE DEF R
<1>14. \A i, j \in 0 .. m : R[i] = R[j] => i = j
  <2>1. ASSUME NEW i \in 0 .. m, NEW j \in 0 .. m, R[i] = R[j]
        PROVE  i = j
    <3>1. CASE i # 0 /\ j # 0
      BY <3>1, <2>1, <1>1, <1>7, <1>13
    <3>2. CASE i = 0 \/ j = 0
      <4>1. \A x \in 1 .. m : R[x] # b
        BY <1>1, <1>6, <1>13
      <4>2. QED
        BY <3>2, <4>1, <2>1, <1>1, <1>12
    <3>3. QED
      BY <3>1, <3>2
  <2>2. QED
    BY <2>1
<1>15. ASSUME NEW i \in 0 .. m
       PROVE  A.next[R[i]] = R[i + 1]
  <2>1. CASE i = 0
    <3>1. R[i] = b /\ R[i + 1] = f
      BY <2>1, <1>1, <1>5, <1>10, <1>12, <1>13
    <3>2. l # b
      BY <1>1, <1>6, <1>10
    <3>3. QED
      BY <3>1, <3>2, <1>11
  <2>2. CASE i = m
    <3>1. R[i] = l /\ R[i + 1] = b
      BY <2>2, <1>1, <1>5, <1>10, <1>12, <1>13
    <3>2. QED
      BY <3>1, <1>10, <1>11
  <2>3. CASE i # 0 /\ i # m
    <3>1. R[i] = r[i] /\ R[i + 1] = r[i + 1] /\ r[i] \in Nodes
      BY <2>3, <1>1, <1>13
    <3>2. r[i] # l /\ r[i] # b
      BY <2>3, <1>1, <1>5, <1>6, <1>7, <1>10
    <3>3. QED
      BY <3>1, <3>2, <1>7, <1>11
  <2>4. QED
    BY <2>1, <2>2, <2>3
<1>16. ASSUME NEW i \in 0 .. m
       PROVE  A.prev[R[i + 1]] = R[i]
  <2>1. CASE i = 0
    <3>1. R[i] = b /\ R[i + 1] = f
      BY <2>1, <1>1, <1>5, <1>10, <1>12, <1>13
    <3>2. f # b
      BY <1>1, <1>5, <1>6, <1>10
    <3>3. QED
      BY <3>1, <3>2, <1>11
  <2>2. CASE i = m
    <3>1. R[i] = l /\ R[i + 1] = b
      BY <2>2, <1>1, <1>5, <1>10, <1>12, <1>13
    <3>2. QED
      BY <3>1, <1>10, <1>11
  <2>3. CASE i # 0 /\ i # m
    <3>1. R[i] = r[i] /\ R[i + 1] = r[i + 1] /\ r[i + 1] \in Nodes
      BY <2>3, <1>1, <1>13
    <3>2. r[i + 1] # f /\ r[i + 1] # b
      <4>1. i + 1 \in 0 .. m /\ 1 \in 0 .. m /\ i + 1 # 1 /\ i + 1 \in 0 .. m + 1
        BY <2>3, <1>1, <1>5
      <4>2. QED
        BY <4>1, <1>6, <1>7, <1>10
    <3>3. QED
      BY <3>1, <3>2, <1>7, <1>11
  <2>4. QED
    BY <2>1, <2>2, <2>3
<1>17. Circle(A, R, m)
  BY <1>1, <1>11, <1>12, <1>14, <1>15, <1>16 DEF Circle
<1>18. IsRing(A, R[0], s)
  <2>1. Len(s) = m /\ \A i \in 1 .. m : s[i] = R[i]
    BY <1>3, <1>13 DEF m
  <2>2. QED
    BY <2>1, <1>17, CircleIsRing
<1>19. QED
  BY <1>11, <1>12, <1>18 DEF A
(* next and prev of the nodes of a ring undo each other. *)
LEMMA RingLinks ==
  ASSUME NEW M \in Links, NEW head \in Nodes, NEW s \in Seq(Nodes), IsRing(M, head, s),
         NEW x \in ToSet(s) \union {head}
  PROVE  /\ M.next[x] \in Nodes /\ M.prev[M.next[x]] = x
         /\ M.prev[x] \in Nodes /\ M.next[M.prev[x]] = x
<1>. DEFINE r == Circ(head, s)
            m == Len(s)
<1>1. /\ m \in Nat /\ DOMAIN s = 1 .. m
      /\ \A i \in 1 .. m : At(head, s, i) = s[i] /\ s[i] \in Nodes
      /\ At(head, s, 0) = head /\ At(head, s, m + 1) = head
  BY AtFacts
<1>2. Circle(M, r, m)
  BY RingIsCircle
<1>3. \A i \in 0 .. m + 1 : r[i] = At(head, s, i)
  BY <1>1 DEF Circ
<1>4. \E i \in 0 .. m : r[i] = x
  BY <1>1, <1>3 DEF ToSet
<1>5. \E i \in 0 .. m : r[i + 1] = x
  <2>1. CASE x = head
    BY <2>1, <1>1, <1>3
  <2>2. CASE x # head
    <3>1. PICK i \in 1 .. m : r[i] = x
      BY <2>2, <1>1, <1>3 DEF ToSet
    <3>2. i - 1 \in 0 .. m /\ (i - 1) + 1 = i
      BY <1>1
    <3>3. QED
      BY <3>1, <3>2
  <2>3. QED
    BY <2>1, <2>2
<1>. HIDE DEF r, m
<1>6. QED
  BY <1>1, <1>2, <1>4, <1>5 DEF Circle
-----------------------------------------------------------------------------
(* The list of the loop: a ring of S, counted c, and no links elsewhere.   *)
Whole(M, S, c) ==
  /\ M \in Links
  /\ \E s \in Seq(Nodes) : IsRing(M, Anchor, s) /\ ToSet(s) = S /\ Len(s) = c
  /\ \A x \in Handles \ S : M.next[x] = NULL /\ M.prev[x] = NULL

LEMMA NodesAre == /\ Handles \subseteq Nodes /\ Anchor \in Nodes /\ Anchor \notin Handles
                  /\ Nodes = Handles \union {Anchor} /\ NULL \notin Nodes
                  /\ IsFiniteSet(Handles)
BY RingAssumption, ShutdownAssumption, FS_Subset

(* The ends of a ring: the first entry has the head before it.             *)
LEMMA WholeFirst ==
  ASSUME NEW M, NEW S, S \subseteq Handles, NEW c, Whole(M, S, c)
  PROVE  /\ M.next[Anchor] \in S \union {Anchor}
         /\ M.prev[M.next[Anchor]] = Anchor
         /\ M.next[Anchor] = Anchor => S = {} /\ c = 0
<1>1. PICK s \in Seq(Nodes) : IsRing(M, Anchor, s) /\ ToSet(s) = S /\ Len(s) = c
  BY DEF Whole
<1>2. M \in Links
  BY DEF Whole
<1>3. Circle(M, Circ(Anchor, s), Len(s))
  BY <1>1, <1>2, NodesAre, RingIsCircle
<1>4. /\ Len(s) \in Nat /\ DOMAIN s = 1 .. Len(s)
      /\ \A i \in 1 .. Len(s) : At(Anchor, s, i) = s[i] /\ s[i] \in Nodes
      /\ At(Anchor, s, 0) = Anchor /\ At(Anchor, s, Len(s) + 1) = Anchor
  BY <1>1, NodesAre, AtFacts
<1>5. \A i \in 0 .. Len(s) + 1 : Circ(Anchor, s)[i] = At(Anchor, s, i)
  BY <1>4 DEF Circ
<1>6. M.next[Anchor] = At(Anchor, s, 1) /\ M.prev[At(Anchor, s, 1)] = Anchor
  <2>1. 0 \in 0 .. Len(s) /\ 0 + 1 = 1 /\ 0 \in 0 .. Len(s) + 1 /\ 1 \in 0 .. Len(s) + 1
    BY <1>4
  <2>2. QED
    BY <2>1, <1>3, <1>4, <1>5 DEF Circle
<1>7. CASE s = <<>>
  BY <1>7, <1>1, <1>4, <1>6 DEF ToSet
<1>8. CASE s # <<>>
  <2>1. 1 \in 1 .. Len(s)
    BY <1>8, <1>1, <1>4, EmptySeq
  <2>2. M.next[Anchor] \in S
    BY <2>1, <1>1, <1>4, <1>6 DEF ToSet
  <2>3. QED
    BY <2>2, <1>6, NodesAre
<1>9. QED
  BY <1>7, <1>8

(* One more, at the front. *)
LEMMA WholeAdd ==
  ASSUME NEW M, NEW S, S \subseteq Handles, NEW c, Whole(M, S, c), NEW h \in Handles \ S
  PROVE  Whole(list_add(M, h, Anchor), S \union {h}, c + 1)
<1>1. PICK s \in Seq(Nodes) : IsRing(M, Anchor, s) /\ ToSet(s) = S /\ Len(s) = c
  BY DEF Whole
<1>2. M \in Links
  BY DEF Whole
<1>. DEFINE A == list_add(M, h, Anchor)
            q == M.next[Anchor]
<1>3. q \in S \union {Anchor}
  BY WholeFirst
<1>4. Between(A, M, h, Anchor, q)
  BY <1>2, <1>3, NodesAre, AddLinks DEF list_add
<1>5. IsRing(A, Anchor, <<h>> \o s)
  BY <1>1, <1>2, NodesAre, RingAdd
<1>6. <<h>> \o s \in Seq(Nodes) /\ Len(<<h>> \o s) = c + 1
  BY <1>1, NodesAre
<1>7. ToSet(<<h>> \o s) = S \union {h}
  <2>1. /\ Len(s) \in Nat /\ DOMAIN s = 1 .. Len(s) /\ DOMAIN (<<h>> \o s) = 1 .. Len(s) + 1
        /\ \A i \in 1 .. Len(s) + 1 : (<<h>> \o s)[i] = IF i = 1 THEN h ELSE s[i - 1]
    BY <1>1, NodesAre
  <2>2. ASSUME NEW x \in ToSet(<<h>> \o s)
        PROVE  x \in S \union {h}
    <3>1. PICK i \in 1 .. Len(s) + 1 : x = IF i = 1 THEN h ELSE s[i - 1]
      BY <2>1 DEF ToSet
    <3>2. CASE i = 1
      BY <3>1, <3>2
    <3>3. CASE i # 1
      <4>1. i - 1 \in DOMAIN s
        BY <3>3, <2>1
      <4>2. QED
        BY <4>1, <3>1, <3>3, <1>1 DEF ToSet
    <3>4. QED
      BY <3>2, <3>3
  <2>3. ASSUME NEW x \in S
        PROVE  x \in ToSet(<<h>> \o s)
    <3>1. PICK i \in 1 .. Len(s) : x = s[i]
      BY <1>1, <2>1 DEF ToSet
    <3>2. i + 1 \in 1 .. Len(s) + 1 /\ i + 1 # 1 /\ (i + 1) - 1 = i
      BY <2>1
    <3>3. (<<h>> \o s)[i + 1] = x
      BY <3>1, <3>2, <2>1
    <3>4. QED
      BY <3>2, <3>3, <2>1 DEF ToSet
  <2>4. h \in ToSet(<<h>> \o s)
    <3>1. 1 \in 1 .. Len(s) + 1
      BY <2>1
    <3>2. QED
      BY <3>1, <2>1 DEF ToSet
  <2>5. QED
    BY <2>2, <2>3, <2>4
<1>8. A \in Links /\ \A x \in Nodes \ {h, Anchor} : A.next[x] = M.next[x]
  BY <1>4 DEF Between
<1>9. \A x \in Nodes \ {h, q} : A.prev[x] = M.prev[x]
  BY <1>4 DEF Between
<1>10. \A x \in Handles \ (S \union {h}) : A.next[x] = NULL /\ A.prev[x] = NULL
  BY <1>3, <1>8, <1>9, NodesAre DEF Whole
<1>. HIDE DEF A
<1>11. QED
  BY <1>5, <1>6, <1>7, <1>8, <1>10 DEF Whole, A

(* One less, from wherever it is. *)
LEMMA WholeDel ==
  ASSUME NEW M, NEW S, S \subseteq Handles, NEW c, Whole(M, S, c), NEW h \in S
  PROVE  /\ M.next[h] \in Nodes /\ M.prev[h] \in Nodes
         /\ Whole(list_del(M, h), S \ {h}, c - 1)
<1>1. PICK s \in Seq(Nodes) : IsRing(M, Anchor, s) /\ ToSet(s) = S /\ Len(s) = c
  BY DEF Whole
<1>2. M \in Links
  BY DEF Whole
<1>3. PICK k \in 1 .. Len(s) : s[k] = h
  BY <1>1 DEF ToSet
<1>. DEFINE p == M.prev[h]
            q == M.next[h]
            D == __list_del(M, p, q)
            A == list_del(M, h)
            d == RemoveAt(s, k)
<1>4. /\ p \in Nodes /\ q \in Nodes
      /\ IsRing(D, Anchor, d) /\ ToSet(d) = S \ {h}
  BY <1>1, <1>2, <1>3, NodesAre, RingDel
<1>5. d \in Seq(Nodes) /\ Len(d) = c - 1
  BY <1>1, RemoveAtFacts
<1>6. Joined(D, M, p, q)
  BY <1>2, <1>4, DelLinks
<1>7. D \in Links /\ \A x \in Nodes \ {p} : D.next[x] = M.next[x]
  BY <1>6 DEF Joined
<1>8. \A x \in Nodes \ {q} : D.prev[x] = M.prev[x]
  BY <1>6 DEF Joined
<1>9. A = [D EXCEPT !.next[h] = NULL, !.prev[h] = NULL]
  BY DEF list_del
<1>. HIDE DEF p, q, D, A, d
<1>10. h \in Nodes
  BY NodesAre
<1>11. /\ A \in Links /\ A.next[h] = NULL /\ A.prev[h] = NULL
       /\ \A x \in Nodes \ {h} : A.next[x] = D.next[x] /\ A.prev[x] = D.prev[x]
  BY <1>7, <1>9, <1>10 DEF Links
<1>12. IsRing(A, Anchor, d)
  <2>1. \A x \in ToSet(d) \union {Anchor} : A.next[x] = D.next[x] /\ A.prev[x] = D.prev[x]
    BY <1>4, <1>11, NodesAre
  <2>2. QED
    BY <2>1, <1>4, <1>5, <1>7, <1>11, NodesAre, Elsewhere
<1>13. ASSUME NEW x \in Handles \ S
       PROVE  A.next[x] = NULL /\ A.prev[x] = NULL
  <2>1. M.next[x] = NULL /\ M.prev[x] = NULL
    BY <1>13 DEF Whole
  <2>2. M.next[p] = h /\ M.prev[q] = h
    BY <1>1, <1>2, NodesAre, RingLinks DEF p, q
  <2>3. x # p /\ x # q /\ x # h
    BY <2>1, <2>2, <1>10, <1>13, NodesAre
  <2>4. D.next[x] = NULL /\ D.prev[x] = NULL
    BY <2>1, <2>3, <1>7, <1>8, <1>13, NodesAre
  <2>5. QED
    BY <2>3, <2>4, <1>11, <1>13, NodesAre
<1>14. QED
  BY <1>4, <1>5, <1>11, <1>12, <1>13 DEF Whole, A, p, q

(* What is counted is how many there are. *)
LEMMA WholeCount ==
  ASSUME NEW M, NEW S, S \subseteq Handles, NEW c, Whole(M, S, c)
  PROVE  /\ c = Cardinality(S) /\ c \in 0 .. Cardinality(Handles)
         /\ \E s \in [1 .. c -> S] : IsRing(M, Anchor, s) /\ ToSet(s) = S
<1>1. PICK s \in Seq(Nodes) : IsRing(M, Anchor, s) /\ ToSet(s) = S /\ Len(s) = c
  BY DEF Whole
<1>2. c \in Nat /\ DOMAIN s = 1 .. c
  BY <1>1
<1>3. s \in [1 .. c -> S] /\ \A x \in S : \E i \in 1 .. c : s[i] = x
  BY <1>1, <1>2 DEF ToSet
<1>4. \A i, j \in 1 .. c : s[i] = s[j] => i = j
  BY <1>1, <1>2 DEF IsRing, IsInjective
<1>5. ExistsBijection(1 .. c, S)
  BY <1>3, <1>4 DEF ExistsBijection, Bijection, Injection, Surjection, IsInjective
<1>6. c = Cardinality(S)
  BY <1>2, <1>5, FS_CountingElements
<1>7. IsFiniteSet(Handles) /\ Cardinality(S) <= Cardinality(Handles) /\ Cardinality(Handles) \in Nat
  BY NodesAre, FS_Subset, FS_CardinalityType
<1>8. QED
  BY <1>1, <1>2, <1>3, <1>6, <1>7
-----------------------------------------------------------------------------
(* The stores of list_add and list_del, one after the other, make up the   *)
(* functions.                                                              *)

Stale == "stale" \in untimely

(* K is M after the stores of list_add before the k-th. *)
AddedUpTo(K, M, k, h, q) ==
  LET a1 == AddStore(M, 1, h, Anchor, q)
      a2 == AddStore(a1, 2, h, Anchor, q)
      a3 == AddStore(a2, 3, h, Anchor, q)
  IN  /\ k = 1 => K = M
      /\ k = 2 => K = a1
      /\ k = 3 => K = a2
      /\ k = 4 => K = a3
      /\ k \in {5, 6} => K = __list_add(M, h, Anchor, q)

(* K is M after the stores of list_del before the (k-2)-th. *)
DeletedUpTo(K, M, k, h, p, q) ==
  LET d1 == DelStore(M, 1, h, p, q)
      d2 == DelStore(d1, 2, h, p, q)
      d3 == DelStore(d2, 3, h, p, q)
  IN  /\ k \in {1, 2, 3} => K = M
      /\ k = 4 => K = d1
      /\ k = 5 => K = d2
      /\ k = 6 => K = d3

LEMMA AddStores ==
  ASSUME NEW M \in Links, NEW h \in Nodes, NEW q \in Nodes, NEW K, h # Anchor, h # q,
         NEW k \in 1 .. 4, AddedUpTo(K, M, k, h, q)
  PROVE  AddedUpTo(AddStore(K, k, h, Anchor, q), M, k + 1, h, q)
<1>1. CASE k \in 1 .. 3
  BY <1>1 DEF AddedUpTo
<1>2. CASE k = 4
  <2>. DEFINE a1 == AddStore(M, 1, h, Anchor, q)
              a2 == AddStore(a1, 2, h, Anchor, q)
              a3 == AddStore(a2, 3, h, Anchor, q)
              a4 == AddStore(a3, 4, h, Anchor, q)
  <2>1. a1 = [M EXCEPT !.prev[q] = h]
    BY DEF AddStore
  <2>2. a2 = [a1 EXCEPT !.next[h] = q]
    BY DEF AddStore
  <2>3. a3 = [a2 EXCEPT !.prev[h] = Anchor]
    BY DEF AddStore
  <2>4. a4 = [a3 EXCEPT !.next[Anchor] = h]
    BY DEF AddStore
  <2>. HIDE DEF a1, a2, a3, a4
  <2>5. M = [next |-> M.next, prev |-> M.prev]
    BY DEF Links
  <2>6. a4 = [next |-> [M.next EXCEPT ![h] = q, ![Anchor] = h],
              prev |-> [M.prev EXCEPT ![q] = h, ![h] = Anchor]]
    BY <2>1, <2>2, <2>3, <2>4, <2>5
  <2>7. a4 = __list_add(M, h, Anchor, q)
    <3>1. PICK A : A = __list_add(M, h, Anchor, q)
      OBVIOUS
    <3>2. Between(A, M, h, Anchor, q)
      BY <3>1, NodesAre, AddLinks
    <3>3. /\ A.next = [M.next EXCEPT ![h] = q, ![Anchor] = h]
          /\ A.prev = [M.prev EXCEPT ![q] = h, ![h] = Anchor]
          /\ A = [next |-> A.next, prev |-> A.prev]
      BY <3>2, NodesAre DEF Between, Links
    <3>4. QED
      BY <3>1, <3>3, <2>6
  <2>8. K = a3
    BY <1>2 DEF AddedUpTo, a1, a2, a3
  <2>9. AddStore(K, k, h, Anchor, q) = a4
    BY <2>8, <1>2 DEF a4
  <2>10. QED
    BY <2>7, <2>9, <1>2 DEF AddedUpTo
<1>3. QED
  BY <1>1, <1>2

LEMMA DelStores ==
  ASSUME NEW M \in Links, NEW h \in Nodes, NEW p \in Nodes, NEW q \in Nodes, NEW K,
         p = M.prev[h], q = M.next[h],
         NEW k \in 3 .. 6, DeletedUpTo(K, M, k, h, p, q)
  PROVE  IF k = 6 THEN DelStore(K, 4, h, p, q) = list_del(M, h)
         ELSE DeletedUpTo(DelStore(K, k - 2, h, p, q), M, k + 1, h, p, q)
<1>1. CASE k \in 3 .. 5
  BY <1>1 DEF DeletedUpTo
<1>2. CASE k = 6
  <2>. DEFINE d1 == DelStore(M, 1, h, p, q)
              d2 == DelStore(d1, 2, h, p, q)
              d3 == DelStore(d2, 3, h, p, q)
              d4 == DelStore(d3, 4, h, p, q)
  <2>1. d1 = [M EXCEPT !.prev[q] = p]
    BY DEF DelStore
  <2>2. d2 = [d1 EXCEPT !.next[p] = q]
    BY DEF DelStore
  <2>3. d3 = [d2 EXCEPT !.next[h] = NULL]
    BY SMTT(60) DEF DelStore
  <2>4. d4 = [d3 EXCEPT !.prev[h] = NULL]
    BY DEF DelStore
  <2>. HIDE DEF d1, d2, d3, d4
  <2>5. M = [next |-> M.next, prev |-> M.prev]
    BY DEF Links
  <2>6. d4 = [next |-> [M.next EXCEPT ![p] = q, ![h] = NULL],
              prev |-> [M.prev EXCEPT ![q] = p, ![h] = NULL]]
    BY <2>1, <2>2, <2>3, <2>4, <2>5
  <2>7. d4 = list_del(M, h)
    <3>1. PICK A, D : A = list_del(M, h) /\ D = __list_del(M, p, q)
      OBVIOUS
    <3>2. A = [D EXCEPT !.next[h] = NULL, !.prev[h] = NULL]
      BY <3>1 DEF list_del
    <3>3. Joined(D, M, p, q)
      BY <3>1, DelLinks
    <3>4. /\ D.next = [M.next EXCEPT ![p] = q] /\ D.prev = [M.prev EXCEPT ![q] = p]
          /\ D = [next |-> D.next, prev |-> D.prev]
      BY <3>3 DEF Joined, Links
    <3>5. A = [next |-> [D.next EXCEPT ![h] = NULL], prev |-> [D.prev EXCEPT ![h] = NULL]]
      BY <3>2, <3>4
    <3>6. QED
      BY <3>1, <3>4, <3>5, <2>6
  <2>8. K = d3
    BY <1>2 DEF DeletedUpTo, d1, d2, d3
  <2>9. DelStore(K, 4, h, p, q) = d4
    BY <2>8 DEF d4
  <2>10. QED
    BY <2>7, <2>9, <1>2
<1>3. QED
  BY <1>1, <1>2

(* Every store leaves links, and something behind the head. *)
HeadGoesOn(K) == K \in Links /\ K.next[Anchor] \in Nodes

LEMMA AddStoreLinks ==
  ASSUME NEW K, HeadGoesOn(K), NEW h \in Nodes, NEW q \in Nodes, NEW k \in 1 .. 4
  PROVE  HeadGoesOn(AddStore(K, k, h, Anchor, q))
<1>1. CASE k = 1
  BY <1>1, NodesAre DEF AddStore, Links, HeadGoesOn
<1>2. CASE k = 2
  BY <1>2, NodesAre DEF AddStore, Links, HeadGoesOn
<1>3. CASE k = 3
  BY <1>3, NodesAre DEF AddStore, Links, HeadGoesOn
<1>4. CASE k = 4
  BY <1>4, NodesAre DEF AddStore, Links, HeadGoesOn
<1>5. QED
  BY <1>1, <1>2, <1>3, <1>4

LEMMA DelStoreLinks ==
  ASSUME NEW K, HeadGoesOn(K), NEW h \in Handles, NEW p \in Nodes, NEW q \in Nodes, NEW k \in 1 .. 4
  PROVE  HeadGoesOn(DelStore(K, k, h, p, q))
<1>1. CASE k = 1
  BY <1>1, NodesAre DEF DelStore, Links, HeadGoesOn
<1>2. CASE k = 2
  BY <1>2, NodesAre DEF DelStore, Links, HeadGoesOn
<1>3. CASE k = 3
  BY <1>3, NodesAre DEF DelStore, Links, HeadGoesOn
<1>4. CASE k = 4
  BY <1>4, NodesAre DEF DelStore, Links, HeadGoesOn
<1>5. QED
  BY <1>1, <1>2, <1>3, <1>4

LEMMA ListDelLinks ==
  ASSUME NEW K, HeadGoesOn(K), NEW h \in Handles, Linked(K, h)
  PROVE  HeadGoesOn(list_del(K, h))
<1>. DEFINE p == K.prev[h]
            q == K.next[h]
            D == __list_del(K, p, q)
<1>1. p \in Nodes /\ q \in Nodes
  BY NodesAre DEF HeadGoesOn, Links, Linked
<1>2. Joined(D, K, p, q)
  BY <1>1, DelLinks DEF HeadGoesOn
<1>3. list_del(K, h) = [D EXCEPT !.next[h] = NULL, !.prev[h] = NULL]
  BY DEF list_del
<1>. HIDE DEF p, q, D
<1>4. D \in Links /\ D.next[Anchor] \in Nodes
  BY <1>1, <1>2, NodesAre DEF Joined, HeadGoesOn
<1>5. PICK A : A = list_del(K, h)
  OBVIOUS
<1>6. /\ A.next = [D.next EXCEPT ![h] = NULL] /\ A.prev = [D.prev EXCEPT ![h] = NULL]
      /\ A = [next |-> A.next, prev |-> A.prev]
  BY <1>3, <1>4, <1>5 DEF Links
<1>7. A \in Links /\ A.next[Anchor] \in Nodes
  BY <1>4, <1>6, NodesAre DEF Links
<1>8. QED
  BY <1>5, <1>7 DEF HeadGoesOn
-----------------------------------------------------------------------------
(* The invariant. *)

(* Opening: M is the list before. *)
Adding(M) ==
  /\ Whole(M, open, count)
  /\ op.n = M.next[Anchor]
  /\ AddedUpTo(L, M, op.k, op.h, op.n)
  /\ op.k = 6 => op.c = count

(* Closing: M is the list before, on which the handle still is. *)
Deleting(M) ==
  /\ Whole(M, open \union {op.h}, IF op.k <= 2 THEN count ELSE count + 1)
  /\ op.k = 2 => op.c = count
  /\ op.k >= 3 => op.p = M.prev[op.h] /\ op.n = M.next[op.h]
  /\ DeletedUpTo(L, M, op.k, op.h, op.p, op.n)

(* Closing what the signal handler has closed: it has no links. *)
DeletingAgain ==
  /\ Stale
  /\ op.k \in {1, 2} => Whole(L, open, count)
  /\ op.k \in {1, 2, 3}
  /\ op.k = 3 => op.p = NULL

ListSound ==
  ~Torn /\ pc # "crashed" =>
    /\ op = NoOp => Whole(L, open, count)
    /\ op.kind = "add" => \E M : Adding(M)
    /\ op.kind = "del" => (\E M : Deleting(M)) \/ DeletingAgain
    /\ InHandler => op = NoOp /\ pos = L.next[Anchor] /\ n = L.next[pos]

OpSound ==
  /\ op.kind \in {"none", "add", "del"} /\ op.h \in Handles \union {NULL} /\ op.k \in 0 .. 6
  /\ op.p \in Nodes \union {NULL} /\ op.n \in Nodes \union {NULL} /\ op.c \in Int
  /\ op = [kind |-> op.kind, h |-> op.h, k |-> op.k, p |-> op.p, n |-> op.n, c |-> op.c]
  /\ op.kind = "none" <=> op = NoOp
  /\ op.kind # "none" => op.h \in Handles \ open /\ op.k >= 1
  /\ op.kind = "add" => op.p = Anchor /\ op.n \in Nodes
  /\ op.kind = "del" => op.h = cur

(* When the two threads of control may be where. *)
Moments ==
  /\ Torn => Stale
  /\ op # NoOp => pc \in {"main", "cb"} \union Ended
  /\ op # NoOp /\ InHandler => Torn
  /\ InHandler /\ pc \in {"dispatch", "cb"} => Stale
  /\ pc = "crashed" => Stale

(* The batch and the handle served have been open since epoll_wait. *)
BatchOpen ==
  /\ batch \subseteq open \/ Stale
  /\ cur \notin batch
  /\ cur # NULL => pc \in {"cb"} \union Ended
  /\ cur # NULL => cur \in open \/ Stale \/ op.kind = "del"
  /\ pc \in {"dispatch", "cb"} \union Ended \/ batch = {}

Typed ==
  /\ running \in BOOLEAN /\ thread \in BOOLEAN /\ told \in BOOLEAN /\ usr1 \in BOOLEAN
  /\ pc \in {"main", "starting", "cond", "entering", "blocked", "dispatch", "cb"} \union Ended
  /\ batch \subseteq Handles /\ cur \in Handles \union {NULL}
  /\ open \subseteq Handles /\ count \in Int
  /\ pos \in Nodes \union {NULL} /\ n \in Nodes \union {NULL}
  /\ opens \in 0 .. MaxOpens /\ signals \in 0 .. MaxSignals
  /\ brk \in {"no", "stored", "sent"}
  /\ untimely \subseteq {"torn", "stale", "missed", "early", "reopened"}

IInv == Typed /\ HeadGoesOn(L) /\ OpSound /\ ListSound /\ Moments /\ BatchOpen

LEMMA InitIInv == Init => IInv
<1>. SUFFICES ASSUME Init
              PROVE  IInv
  OBVIOUS
<1>1. /\ L \in Links /\ L.next[Anchor] = Anchor /\ L.prev[Anchor] = Anchor
      /\ \A x \in Handles : L.next[x] = NULL /\ L.prev[x] = NULL
  BY NodesAre DEF Init, INIT_LIST_HEAD, Links
<1>2. IsRing(L, Anchor, <<>>)
  BY <1>1, NodesAre, AloneRing
<1>3. Whole(L, open, count)
  <2>1. <<>> \in Seq(Nodes) /\ ToSet(<<>>) = {} /\ Len(<<>>) = 0
    BY DEF ToSet
  <2>2. QED
    BY <1>1, <1>2, <2>1 DEF Init, Whole
<1>4. Typed
  <2>1. running \in BOOLEAN /\ thread \in BOOLEAN /\ told \in BOOLEAN /\ usr1 \in BOOLEAN
    BY Zenon DEF Init
  <2>2. QED
    BY <2>1, ShutdownAssumption DEF Init, Typed
<1>5. OpSound
  BY DEF Init, NoOp, OpSound
<1>6. ListSound
  BY <1>3 DEF Init, NoOp, ListSound, InHandler
<1>7. Moments /\ BatchOpen
  BY DEF Init, NoOp, Moments, BatchOpen, Torn, InHandler, Ended
<1>8. QED
  BY <1>1, <1>4, <1>5, <1>6, <1>7, NodesAre DEF IInv, HeadGoesOn
-----------------------------------------------------------------------------
(* The steps. *)

LEMMA ListKept ==
  ASSUME ListSound, UNCHANGED <<L, count, open, op, pos, n>>,
         untimely \subseteq untimely', pc = "crashed" => pc' = "crashed"
  PROVE  ListSound'
<1>1. Torn => Torn'
  BY DEF Torn
<1>2. Stale => Stale'
  BY DEF Stale
<1>3. SUFFICES ASSUME ~Torn', pc' # "crashed"
               PROVE  /\ op' = NoOp => Whole(L', open', count')
                      /\ op'.kind = "add" => \E M : Adding(M)'
                      /\ op'.kind = "del" => (\E M : Deleting(M)') \/ DeletingAgain'
                      /\ InHandler' => op' = NoOp /\ pos' = L'.next[Anchor] /\ n' = L'.next[pos']
  BY DEF ListSound, NoOp
<1>4. /\ op = NoOp => Whole(L, open, count)
      /\ op.kind = "add" => \E M : Adding(M)
      /\ op.kind = "del" => (\E M : Deleting(M)) \/ DeletingAgain
      /\ InHandler => op = NoOp /\ pos = L.next[Anchor] /\ n = L.next[pos]
  BY <1>1, <1>3 DEF ListSound
<1>5. \A M : Adding(M) => Adding(M)'
  BY DEF Adding
<1>6. \A M : Deleting(M) => Deleting(M)'
  BY DEF Deleting
<1>7. DeletingAgain => DeletingAgain'
  BY <1>2 DEF DeletingAgain
<1>8. InHandler' => InHandler
  BY DEF InHandler
<1>9. QED
  BY <1>4, <1>5, <1>6, <1>7, <1>8

LEMMA OpKept ==
  ASSUME OpSound, UNCHANGED <<open, op>>, op.kind = "del" => cur' = cur
  PROVE  OpSound'
BY DEF OpSound, NoOp

(* The steps that only move the main thread. *)
Moves ==
  /\ UNCHANGED <<L, count, open, op, opens, usr1, pos, n, signals>>
  /\ UNCHANGED cur \/ op = NoOp

LEMMA MovesKeep ==
  ASSUME IInv, Moves, untimely \subseteq untimely', pc = "crashed" => pc' = "crashed",
         Typed', Moments', BatchOpen'
  PROVE  IInv'
<1>1. ListSound'
  BY ListKept DEF IInv, Moves
<1>2. op.kind = "del" => cur' = cur
  BY DEF Moves, NoOp
<1>3. OpSound'
  BY <1>2, OpKept DEF IInv, Moves
<1>4. HeadGoesOn(L)'
  BY DEF IInv, Moves
<1>5. QED
  BY <1>1, <1>3, <1>4 DEF IInv

LEMMA OpenIInv ==
  ASSUME IInv, NEW h \in Handles, Open(h)
  PROVE  IInv'
<1>. USE DEF opVars, loopVars, sigVars, brkVars
<1>1. /\ op = NoOp /\ ~InHandler /\ pc \notin Ended /\ pc \in {"main", "cb"}
      /\ h \notin open /\ h # cur
      /\ op' = [kind |-> "add", h |-> h, k |-> 1, p |-> Anchor, n |-> L.next[Anchor], c |-> 0]
      /\ UNCHANGED <<L, count, open, running, thread, told, pc, batch, cur, pos, n, signals, brk, usr1>>
      /\ opens < MaxOpens /\ opens' = opens + 1
      /\ untimely' = IF told THEN untimely \union {"reopened"} ELSE untimely
  BY DEF Open, MainRuns
<1>2. Typed /\ HeadGoesOn(L) /\ OpSound /\ ListSound /\ Moments /\ BatchOpen
  BY DEF IInv
<1>3. /\ Torn' <=> Torn
      /\ Stale' <=> Stale
      /\ untimely' \subseteq {"torn", "stale", "missed", "early", "reopened"}
  BY <1>1, <1>2 DEF Torn, Stale, Typed
<1>4. op' # NoOp /\ op'.kind = "add" /\ op'.kind # "del" /\ op'.kind # "none" /\ op'.k = 1
      /\ op'.h = h /\ op'.p = Anchor /\ op'.n = L.next[Anchor] /\ op'.c = 0
  BY <1>1 DEF NoOp
<1>5. Typed'
  BY <1>1, <1>2, <1>3, ShutdownAssumption DEF Typed
<1>6. HeadGoesOn(L)'
  BY <1>1, <1>2
<1>7. OpSound'
  BY <1>1, <1>2, <1>4, NodesAre DEF OpSound, HeadGoesOn
<1>8. ListSound'
  <2>1. SUFFICES ASSUME ~Torn, pc # "crashed"
                 PROVE  Adding(L)'
    BY <1>1, <1>3, <1>4 DEF ListSound, InHandler
  <2>2. Whole(L, open, count)
    BY <2>1, <1>1, <1>2 DEF ListSound
  <2>3. AddedUpTo(L, L, 1, h, L.next[Anchor])
    BY DEF AddedUpTo
  <2>4. QED
    BY <2>2, <2>3, <1>1, <1>4 DEF Adding
<1>9. Moments' /\ BatchOpen'
  BY <1>1, <1>2, <1>3, <1>4 DEF Moments, BatchOpen, InHandler, NoOp
<1>10. QED
  BY <1>5, <1>6, <1>7, <1>8, <1>9 DEF IInv

LEMMA CloseIInv ==
  ASSUME IInv, Close
  PROVE  IInv'
<1>. USE DEF opVars, loopVars, sigVars, brkVars
<1>1. /\ op = NoOp /\ ~InHandler /\ pc = "cb" /\ cur # NULL
      /\ op' = [kind |-> "del", h |-> cur, k |-> 1, p |-> NULL, n |-> NULL, c |-> 0]
      /\ open' = open \ {cur}
      /\ UNCHANGED <<L, count, opens, running, thread, told, pc, batch, cur, pos, n, signals, untimely, brk, usr1>>
  BY DEF Close, MainRuns, NoOp
<1>2. Typed /\ HeadGoesOn(L) /\ OpSound /\ ListSound /\ Moments /\ BatchOpen
  BY DEF IInv
<1>3. (Torn' <=> Torn) /\ (Stale' <=> Stale)
  BY <1>1 DEF Torn, Stale
<1>4. /\ op' # NoOp /\ op'.kind = "del" /\ op'.k = 1
      /\ op'.h = cur /\ op'.p = NULL /\ op'.n = NULL /\ op'.c = 0
  BY <1>1 DEF NoOp
<1>5. Typed'
  BY <1>1, <1>2 DEF Typed
<1>6. HeadGoesOn(L)'
  BY <1>1, <1>2
<1>7. OpSound'
  BY <1>1, <1>2, <1>4 DEF OpSound, Typed
<1>8. ListSound'
  <2>1. SUFFICES ASSUME ~Torn
                 PROVE  Deleting(L)' \/ DeletingAgain'
    BY <1>1, <1>3, <1>4 DEF ListSound, InHandler
  <2>2. Whole(L, open, count)
    BY <2>1, <1>1, <1>2 DEF ListSound
  <2>3. CASE cur \in open
    <3>1. open' \union {cur} = open
      BY <2>3, <1>1
    <3>2. DeletedUpTo(L, L, 1, cur, NULL, NULL)
      BY DEF DeletedUpTo
    <3>3. Deleting(L)'
      BY <2>2, <3>1, <3>2, <1>1, <1>4 DEF Deleting
    <3>4. QED
      BY <3>3
  <2>4. CASE cur \notin open
    <3>1. open' = open /\ Stale
      BY <2>4, <1>1, <1>2 DEF BatchOpen, NoOp
    <3>2. DeletingAgain'
      BY <2>2, <3>1, <1>1, <1>3, <1>4 DEF DeletingAgain
    <3>3. QED
      BY <3>2
  <2>5. QED
    BY <2>3, <2>4
<1>9. Moments'
  BY <1>1, <1>2, <1>3 DEF Moments, InHandler
<1>10. BatchOpen'
  BY <1>1, <1>2, <1>3, <1>4 DEF BatchOpen
<1>11. QED
  BY <1>5, <1>6, <1>7, <1>8, <1>9, <1>10 DEF IInv

LEMMA NoOpSound ==
  ASSUME OpSound, op' = NoOp
  PROVE  OpSound'
BY DEF OpSound, NoOp

LEMMA AddIInv ==
  ASSUME IInv, AddStep
  PROVE  IInv'
<1>. USE DEF opVars, loopVars, sigVars, brkVars
<1>1. /\ ~InHandler /\ pc \notin Ended /\ op.kind = "add"
      /\ UNCHANGED <<opens, running, thread, told, pc, batch, cur, pos, n, signals, untimely, brk, usr1>>
  BY DEF AddStep, MainRuns
<1>2. Typed /\ HeadGoesOn(L) /\ OpSound /\ ListSound /\ Moments /\ BatchOpen
  BY DEF IInv
<1>3. (Torn' <=> Torn) /\ (Stale' <=> Stale) /\ ~InHandler' /\ pc # "crashed"
  BY <1>1 DEF Torn, Stale, InHandler, Ended
<1>4. /\ op.h \in Handles /\ op.h \in Nodes /\ op.h \notin open /\ op.p = Anchor /\ op.n \in Nodes
      /\ op.k \in 1 .. 6 /\ op.c \in Int /\ op # NoOp
      /\ op = [kind |-> op.kind, h |-> op.h, k |-> op.k, p |-> op.p, n |-> op.n, c |-> op.c]
  BY <1>1, <1>2, NodesAre DEF OpSound, NoOp
<1>5. ~Torn => \E M : Adding(M)
  BY <1>1, <1>2, <1>3 DEF ListSound
<1>6. pc \in {"main", "cb"}
  BY <1>1, <1>2, <1>4 DEF Moments
<1>7. CASE /\ op.k <= 4
           /\ L' = AddStore(L, op.k, op.h, op.p, op.n)
           /\ op' = [op EXCEPT !.k = @ + 1]
           /\ UNCHANGED <<count, open>>
  <2>1. /\ op'.kind = "add" /\ op'.h = op.h /\ op'.k = op.k + 1 /\ op'.p = op.p /\ op'.n = op.n
        /\ op'.c = op.c /\ op' # NoOp /\ op.k \in 1 .. 4 /\ op'.k \in 2 .. 5
        /\ op' = [kind |-> op'.kind, h |-> op'.h, k |-> op'.k, p |-> op'.p, n |-> op'.n, c |-> op'.c]
    BY <1>1, <1>4, <1>7 DEF NoOp
  <2>2. HeadGoesOn(L)'
    <3>1. HeadGoesOn(AddStore(L, op.k, op.h, Anchor, op.n))
      BY <1>2, <1>4, <2>1, AddStoreLinks
    <3>2. QED
      BY <3>1, <1>4, <1>7 DEF HeadGoesOn
  <2>3. ListSound'
    <3>1. SUFFICES ASSUME ~Torn
                   PROVE  \E M : Adding(M)'
      BY <1>3, <2>1 DEF ListSound
    <3>2. PICK M : Adding(M)
      BY <3>1, <1>5
    <3>3. Whole(M, open, count) /\ M \in Links /\ op.n = M.next[Anchor] /\ AddedUpTo(L, M, op.k, op.h, op.n)
      BY <3>2 DEF Adding, Whole
    <3>4. op.n \in open \union {Anchor}
      BY <3>3, <1>2, WholeFirst DEF Typed
    <3>5. op.h # Anchor /\ op.h # op.n
      BY <3>4, <1>4, NodesAre
    <3>6. AddedUpTo(AddStore(L, op.k, op.h, Anchor, op.n), M, op.k + 1, op.h, op.n)
      BY <3>3, <3>5, <1>4, <2>1, AddStores
    <3>7. Adding(M)'
      BY <3>3, <3>6, <1>4, <1>7, <2>1 DEF Adding
    <3>8. QED
      BY <3>7
  <2>4. Typed'
    BY <1>1, <1>2, <1>7 DEF Typed
  <2>5. OpSound'
    BY <1>2, <1>4, <1>7, <2>1 DEF OpSound
  <2>6. Moments' /\ BatchOpen'
    BY <1>1, <1>2, <1>3, <1>4, <1>6, <1>7, <2>1 DEF Moments, BatchOpen
  <2>7. QED
    BY <2>2, <2>3, <2>4, <2>5, <2>6 DEF IInv
<1>8. CASE op.k = 5 /\ op' = [op EXCEPT !.k = 6, !.c = count] /\ UNCHANGED <<L, count, open>>
  <2>1. /\ op'.kind = "add" /\ op'.h = op.h /\ op'.k = 6 /\ op'.p = op.p /\ op'.n = op.n
        /\ op'.c = count /\ op' # NoOp
        /\ op' = [kind |-> op'.kind, h |-> op'.h, k |-> op'.k, p |-> op'.p, n |-> op'.n, c |-> op'.c]
    BY <1>1, <1>4, <1>8 DEF NoOp
  <2>2. ListSound'
    <3>1. SUFFICES ASSUME ~Torn
                   PROVE  \E M : Adding(M)'
      BY <1>3, <2>1 DEF ListSound
    <3>2. PICK M : Adding(M)
      BY <3>1, <1>5
    <3>3. AddedUpTo(L, M, 6, op.h, op.n)
      BY <3>2, <1>8 DEF Adding, AddedUpTo
    <3>4. Adding(M)'
      BY <3>2, <3>3, <1>8, <2>1 DEF Adding
    <3>5. QED
      BY <3>4
  <2>3. Typed' /\ HeadGoesOn(L)'
    BY <1>1, <1>2, <1>8 DEF Typed
  <2>4. OpSound'
    BY <1>2, <1>4, <1>8, <2>1 DEF OpSound, Typed
  <2>5. Moments' /\ BatchOpen'
    BY <1>1, <1>2, <1>3, <1>4, <1>6, <1>8, <2>1 DEF Moments, BatchOpen
  <2>6. QED
    BY <2>2, <2>3, <2>4, <2>5 DEF IInv
<1>9. CASE /\ op.k = 6
           /\ count' = Counted(op.c) /\ open' = open \union {op.h}
           /\ op' = NoOp
           /\ UNCHANGED L
  <2>1. ListSound'
    <3>1. SUFFICES ASSUME ~Torn
                   PROVE  Whole(L, open', count')
      BY <1>3, <1>9 DEF ListSound, NoOp
    <3>2. PICK M : Adding(M)
      BY <3>1, <1>5
    <3>3. Whole(M, open, count) /\ L = list_add(M, op.h, Anchor) /\ count' = count + 1
      BY <3>2, <1>9 DEF Adding, AddedUpTo, Counted, list_add
    <3>4. QED
      BY <3>3, <1>2, <1>4, <1>9, WholeAdd DEF Typed
  <2>2. Typed'
    BY <1>1, <1>2, <1>4, <1>9 DEF Typed, Counted
  <2>3. HeadGoesOn(L)'
    BY <1>2, <1>9
  <2>4. OpSound'
    BY <1>2, <1>9, NoOpSound
  <2>5. Moments' /\ BatchOpen'
    BY <1>1, <1>2, <1>3, <1>9 DEF Moments, BatchOpen
  <2>6. QED
    BY <2>1, <2>2, <2>3, <2>4, <2>5 DEF IInv
<1>10. QED
  BY <1>7, <1>8, <1>9 DEF AddStep

LEMMA DelIInv ==
  ASSUME IInv, DelStep
  PROVE  IInv'
<1>. USE DEF opVars, loopVars, sigVars, brkVars
<1>1. /\ ~InHandler /\ pc \notin Ended /\ op.kind = "del"
      /\ UNCHANGED <<open, opens, running, thread, told, pc, batch, pos, n, signals, untimely, brk, usr1>>
  BY DEF DelStep, MainRuns
<1>2. Typed /\ HeadGoesOn(L) /\ OpSound /\ ListSound /\ Moments /\ BatchOpen
  BY DEF IInv
<1>3. (Torn' <=> Torn) /\ (Stale' <=> Stale) /\ ~InHandler' /\ pc # "crashed"
  BY <1>1 DEF Torn, Stale, InHandler, Ended
<1>4. /\ op.h \in Handles /\ op.h \in Nodes /\ op.h \notin open /\ op.h = cur
      /\ op.k \in 1 .. 6 /\ op.c \in Int /\ op # NoOp
      /\ op.p \in Nodes \union {NULL} /\ op.n \in Nodes \union {NULL}
      /\ op = [kind |-> op.kind, h |-> op.h, k |-> op.k, p |-> op.p, n |-> op.n, c |-> op.c]
  BY <1>1, <1>2, NodesAre DEF OpSound, NoOp
<1>5. ~Torn => (\E M : Deleting(M)) \/ DeletingAgain
  BY <1>1, <1>2, <1>3 DEF ListSound
<1>6. pc = "cb"
  BY <1>1, <1>2, <1>4, NodesAre DEF BatchOpen
<1>7. CASE op.k = 1 /\ op' = [op EXCEPT !.k = 2, !.c = count] /\ UNCHANGED <<L, count, cur>>
  <2>1. /\ op'.kind = "del" /\ op'.h = op.h /\ op'.k = 2 /\ op'.p = op.p /\ op'.n = op.n
        /\ op'.c = count /\ op' # NoOp
        /\ op' = [kind |-> op'.kind, h |-> op'.h, k |-> op'.k, p |-> op'.p, n |-> op'.n, c |-> op'.c]
    BY <1>1, <1>4, <1>7 DEF NoOp
  <2>2. ListSound'
    <3>1. SUFFICES ASSUME ~Torn
                   PROVE  (\E M : Deleting(M)') \/ DeletingAgain'
      BY <1>3, <2>1 DEF ListSound
    <3>2. CASE DeletingAgain
      BY <3>2, <1>1, <1>3, <1>7, <2>1 DEF DeletingAgain
    <3>3. ASSUME NEW M, Deleting(M)
          PROVE  Deleting(M)'
      <4>1. DeletedUpTo(L, M, 2, op.h, op.p, op.n)
        BY <3>3, <1>7 DEF Deleting, DeletedUpTo
      <4>2. QED
        BY <3>3, <4>1, <1>1, <1>7, <2>1 DEF Deleting
    <3>4. QED
      BY <3>1, <3>2, <3>3, <1>5
  <2>3. Typed' /\ HeadGoesOn(L)'
    BY <1>1, <1>2, <1>7 DEF Typed
  <2>4. OpSound'
    BY <1>1, <1>2, <1>4, <1>7, <2>1 DEF OpSound, Typed
  <2>5. Moments' /\ BatchOpen'
    BY <1>1, <1>2, <1>3, <1>6, <1>7, <2>1 DEF Moments, BatchOpen
  <2>6. QED
    BY <2>2, <2>3, <2>4, <2>5 DEF IInv
<1>8. CASE /\ op.k = 2
           /\ count' = op.c - 1
           /\ op' = [op EXCEPT !.k = 3, !.p = L.prev[op.h], !.n = L.next[op.h]]
           /\ UNCHANGED <<L, cur>>
  <2>1. /\ op'.kind = "del" /\ op'.h = op.h /\ op'.k = 3 /\ op'.p = L.prev[op.h] /\ op'.n = L.next[op.h]
        /\ op'.c = op.c /\ op' # NoOp
        /\ op' = [kind |-> op'.kind, h |-> op'.h, k |-> op'.k, p |-> op'.p, n |-> op'.n, c |-> op'.c]
    BY <1>1, <1>4, <1>8 DEF NoOp
  <2>2. ListSound'
    <3>1. SUFFICES ASSUME ~Torn
                   PROVE  (\E M : Deleting(M)') \/ DeletingAgain'
      BY <1>3, <2>1 DEF ListSound
    <3>2. CASE DeletingAgain
      <4>1. Whole(L, open, count)
        BY <3>2, <1>8 DEF DeletingAgain
      <4>2. L.prev[op.h] = NULL
        BY <4>1, <1>4 DEF Whole
      <4>3. QED
        BY <3>2, <4>2, <1>3, <1>8, <2>1 DEF DeletingAgain
    <3>3. ASSUME NEW M, Deleting(M)
          PROVE  Deleting(M)'
      <4>1. L = M
        BY <3>3, <1>8 DEF Deleting, DeletedUpTo
      <4>2. DeletedUpTo(L, M, 3, op.h, L.prev[op.h], L.next[op.h])
        BY <4>1 DEF DeletedUpTo
      <4>3. Whole(M, open \union {op.h}, count' + 1)
        <5>1. Whole(M, open \union {op.h}, count) /\ op.c = count
          BY <3>3, <1>8 DEF Deleting
        <5>2. count' + 1 = count
          BY <5>1, <1>2, <1>8 DEF Typed
        <5>3. QED
          BY <5>1, <5>2
      <4>4. QED
        BY <4>1, <4>2, <4>3, <1>1, <1>8, <2>1 DEF Deleting
    <3>4. QED
      BY <3>1, <3>2, <3>3, <1>5
  <2>3. Typed' /\ HeadGoesOn(L)'
    BY <1>1, <1>2, <1>4, <1>8 DEF Typed
  <2>4. OpSound'
    <3>1. L.prev[op.h] \in Nodes \union {NULL} /\ L.next[op.h] \in Nodes \union {NULL}
      BY <1>2, <1>4 DEF HeadGoesOn, Links
    <3>2. QED
      BY <3>1, <1>1, <1>2, <1>4, <1>8, <2>1 DEF OpSound
  <2>5. Moments' /\ BatchOpen'
    BY <1>1, <1>2, <1>3, <1>6, <1>8, <2>1 DEF Moments, BatchOpen
  <2>6. QED
    BY <2>2, <2>3, <2>4, <2>5 DEF IInv
<1>9. CASE /\ op.k \in 3 .. 6
           /\ op.p # NULL /\ op.n # NULL
           /\ L' = DelStore(L, op.k - 2, op.h, op.p, op.n)
           /\ op' = IF op.k = 6 THEN NoOp ELSE [op EXCEPT !.k = @ + 1]
           /\ cur' = IF op.k = 6 THEN NULL ELSE cur
           /\ UNCHANGED count
  <2>1. op.p \in Nodes /\ op.n \in Nodes
    BY <1>4, <1>9
  <2>2. HeadGoesOn(L)'
    <3>1. op.k - 2 \in 1 .. 4
      BY <1>4, <1>9
    <3>2. HeadGoesOn(DelStore(L, op.k - 2, op.h, op.p, op.n))
      BY <1>2, <1>4, <2>1, <3>1, DelStoreLinks
    <3>3. QED
      BY <3>2, <1>9 DEF HeadGoesOn
  <2>3. Typed'
    BY <1>1, <1>2, <1>9 DEF Typed
  <2>4. ASSUME ~Torn
        PROVE  \E M : /\ Whole(M, open \union {op.h}, count + 1)
                      /\ M \in Links /\ op.p = M.prev[op.h] /\ op.n = M.next[op.h]
                      /\ IF op.k = 6 THEN L' = list_del(M, op.h)
                         ELSE DeletedUpTo(L', M, op.k + 1, op.h, op.p, op.n)
    <3>1. ~DeletingAgain
      BY <1>9 DEF DeletingAgain
    <3>2. PICK M : Deleting(M)
      BY <2>4, <3>1, <1>5
    <3>3. /\ Whole(M, open \union {op.h}, count + 1) /\ M \in Links
          /\ op.p = M.prev[op.h] /\ op.n = M.next[op.h]
          /\ DeletedUpTo(L, M, op.k, op.h, op.p, op.n)
      BY <3>2, <1>9 DEF Deleting, Whole
    <3>4. IF op.k = 6 THEN DelStore(L, 4, op.h, op.p, op.n) = list_del(M, op.h)
          ELSE DeletedUpTo(DelStore(L, op.k - 2, op.h, op.p, op.n), M, op.k + 1, op.h, op.p, op.n)
      BY <3>3, <1>4, <1>9, <2>1, DelStores
    <3>5. IF op.k = 6 THEN L' = list_del(M, op.h)
          ELSE DeletedUpTo(L', M, op.k + 1, op.h, op.p, op.n)
      BY <3>4, <1>9
    <3>6. QED
      BY <3>3, <3>5
  <2>5. CASE op.k = 6
    <3>1. op' = NoOp /\ cur' = NULL
      BY <2>5, <1>9
    <3>2. ListSound'
      <4>1. SUFFICES ASSUME ~Torn
                     PROVE  Whole(L', open, count)
        BY <3>1, <1>1, <1>3, <1>9 DEF ListSound, NoOp
      <4>2. PICK M : Whole(M, open \union {op.h}, count + 1) /\ L' = list_del(M, op.h)
        BY <4>1, <2>4, <2>5
      <4>3. Whole(L', (open \union {op.h}) \ {op.h}, (count + 1) - 1)
        BY <4>2, <1>2, <1>4, WholeDel DEF Typed
      <4>4. (open \union {op.h}) \ {op.h} = open /\ (count + 1) - 1 = count
        BY <1>2, <1>4 DEF Typed
      <4>5. QED
        BY <4>3, <4>4
    <3>3. OpSound'
      BY <3>1, <1>2, NoOpSound
    <3>4. Moments' /\ BatchOpen'
      BY <3>1, <1>1, <1>2, <1>3, NodesAre DEF Moments, BatchOpen, Typed
    <3>5. QED
      BY <2>2, <2>3, <3>2, <3>3, <3>4 DEF IInv
  <2>6. CASE op.k # 6
    <3>1. /\ op'.kind = "del" /\ op'.h = op.h /\ op'.k = op.k + 1 /\ op'.p = op.p /\ op'.n = op.n
          /\ op'.c = op.c /\ op' # NoOp /\ op'.k \in 4 .. 6 /\ cur' = cur
          /\ op' = [kind |-> op'.kind, h |-> op'.h, k |-> op'.k, p |-> op'.p, n |-> op'.n, c |-> op'.c]
      BY <2>6, <1>1, <1>4, <1>9 DEF NoOp
    <3>2. ListSound'
      <4>1. SUFFICES ASSUME ~Torn
                     PROVE  \E M : Deleting(M)'
        BY <3>1, <1>3 DEF ListSound
      <4>2. PICK M : /\ Whole(M, open \union {op.h}, count + 1)
                     /\ op.p = M.prev[op.h] /\ op.n = M.next[op.h]
                     /\ DeletedUpTo(L', M, op.k + 1, op.h, op.p, op.n)
        BY <4>1, <2>4, <2>6
      <4>3. Deleting(M)'
        BY <4>2, <3>1, <1>1, <1>9 DEF Deleting
      <4>4. QED
        BY <4>3
    <3>3. OpSound'
      BY <3>1, <1>1, <1>2, <1>4 DEF OpSound
    <3>4. Moments' /\ BatchOpen'
      BY <3>1, <1>1, <1>2, <1>3, <1>6 DEF Moments, BatchOpen
    <3>5. QED
      BY <2>2, <2>3, <3>2, <3>3, <3>4 DEF IInv
  <2>7. QED
    BY <2>5, <2>6
<1>10. QED
  BY <1>7, <1>8, <1>9 DEF DelStep

(* A step that fails leaves everything else as it is. *)
LEMMA CrashIInv ==
  ASSUME IInv, Crash, Stale
  PROVE  IInv'
<1>. USE DEF opVars, loopVars, sigVars, brkVars
<1>1. /\ pc' = "crashed"
      /\ UNCHANGED <<L, count, open, op, opens, running, thread, told, batch, cur, pos, n, signals, untimely, brk, usr1>>
  BY DEF Crash
<1>2. Moves /\ untimely \subseteq untimely'
  BY <1>1 DEF Moves
<1>3. Typed'
  BY <1>1 DEF IInv, Typed, Ended
<1>4. Moments' /\ BatchOpen'
  BY <1>1 DEF IInv, Moments, BatchOpen, Torn, Stale, InHandler, Ended
<1>5. QED
  BY <1>1, <1>2, <1>3, <1>4, MovesKeep

LEMMA DelNothingIInv ==
  ASSUME IInv, DelNothing
  PROVE  IInv'
<1>1. /\ ~InHandler /\ pc \notin Ended /\ op.kind = "del" /\ op.k = 3 /\ (op.p = NULL \/ op.n = NULL) /\ Crash
  BY DEF DelNothing, MainRuns
<1>2. Typed /\ OpSound /\ ListSound /\ Moments
  BY DEF IInv
<1>3. Stale
  <2>1. SUFFICES ASSUME ~Torn
                 PROVE  Stale
    BY <1>2 DEF Moments
  <2>2. (\E M : Deleting(M)) \/ DeletingAgain
    BY <1>1, <1>2, <2>1 DEF ListSound, Ended
  <2>3. ASSUME NEW M, Deleting(M)
        PROVE  FALSE
    <3>1. /\ Whole(M, open \union {op.h}, count + 1)
          /\ op.p = M.prev[op.h] /\ op.n = M.next[op.h]
      BY <2>3, <1>1 DEF Deleting
    <3>2. op.h \in Handles /\ open \subseteq Handles
      BY <1>1, <1>2 DEF OpSound, Typed
    <3>3. M.next[op.h] \in Nodes /\ M.prev[op.h] \in Nodes
      BY <3>1, <3>2, WholeDel
    <3>4. QED
      BY <3>1, <3>3, <1>1, NodesAre
  <2>4. QED
    BY <2>2, <2>3 DEF DeletingAgain
<1>4. QED
  BY <1>1, <1>3, CrashIInv

LEMMA RunIInv ==
  ASSUME IInv, SetThread \/ SetRunning \/ While \/ Enter \/ io_loop_close
  PROVE  IInv'
<1>. USE DEF opVars, loopVars, sigVars, brkVars
<1>1. /\ pc \notin Ended /\ ~InHandler
      /\ UNCHANGED <<L, count, open, op, opens, batch, cur, pos, n, signals, brk, usr1>>
      /\ thread' \in {thread, TRUE} /\ running' \in {running, TRUE, FALSE} /\ told' \in {told, TRUE}
      /\ untimely' \in {untimely, untimely \union {"early"}}
      /\ \/ pc = "main" /\ op = NoOp /\ pc' = "starting"
         \/ pc = "starting" /\ pc' = "cond"
         \/ pc = "cond" /\ pc' \in {"entering", "exit"}
         \/ pc = "entering" /\ pc' = "blocked"
         \/ pc = "cb" /\ pc' = "cb"
  BY DEF SetThread, SetRunning, While, Enter, io_loop_close, MainRuns
<1>2. Typed /\ Moments /\ BatchOpen
  BY DEF IInv
<1>3. Moves /\ untimely \subseteq untimely'
  BY <1>1 DEF Moves
<1>4. (Torn' <=> Torn) /\ (Stale' <=> Stale) /\ ~InHandler'
  BY <1>1 DEF Torn, Stale, InHandler
<1>5. Typed'
  <2>1. running' \in BOOLEAN /\ thread' \in BOOLEAN /\ told' \in BOOLEAN /\ usr1' \in BOOLEAN
    BY <1>1, <1>2, Zenon DEF Typed
  <2>2. pc' \in {"main", "starting", "cond", "entering", "blocked", "dispatch", "cb"} \union Ended
    BY <1>1 DEF Ended
  <2>3. QED
    BY <2>1, <2>2, <1>1, <1>2 DEF Typed
<1>6. Moments'
  BY <1>1, <1>2, <1>4 DEF Moments, Ended
<1>7. BatchOpen'
  BY <1>1, <1>2, <1>4 DEF BatchOpen, Ended
<1>8. pc = "crashed" => pc' = "crashed"
  BY <1>1 DEF Ended
<1>9. QED
  BY <1>3, <1>5, <1>6, <1>7, <1>8, MovesKeep

LEMMA BatchIInv ==
  ASSUME IInv, EpollReturns \/ BatchDone \/ CallbackReturns
  PROVE  IInv'
<1>. USE DEF opVars, loopVars, sigVars, brkVars
<1>1. /\ pc \notin Ended /\ ~InHandler
      /\ UNCHANGED <<L, count, open, op, opens, running, thread, told, pos, n, signals, untimely, brk, usr1>>
      /\ \/ pc = "blocked" /\ pc' = "dispatch" /\ batch' \subseteq open /\ cur' = cur
         \/ pc = "dispatch" /\ batch = {} /\ pc' = "cond" /\ UNCHANGED <<batch, cur>>
         \/ pc = "cb" /\ op = NoOp /\ pc' = "dispatch" /\ cur' = NULL /\ batch' = batch
  BY DEF EpollReturns, BatchDone, CallbackReturns, MainRuns
<1>2. Typed /\ Moments /\ BatchOpen
  BY DEF IInv
<1>3. Moves /\ untimely \subseteq untimely'
  BY <1>1, <1>2 DEF Moves
<1>4. (Torn' <=> Torn) /\ (Stale' <=> Stale) /\ ~InHandler'
  BY <1>1 DEF Torn, Stale, InHandler
<1>5. Typed'
  BY <1>1, <1>2 DEF Typed
<1>6. Moments'
  BY <1>1, <1>2, <1>4 DEF Moments, Ended
<1>7. BatchOpen'
  BY <1>1, <1>2, <1>4, NodesAre DEF BatchOpen, Ended, Typed
<1>8. pc # "crashed"
  BY <1>1 DEF Ended
<1>9. QED
  BY <1>3, <1>5, <1>6, <1>7, <1>8, MovesKeep

LEMMA DispatchIInv ==
  ASSUME IInv, Dispatch
  PROVE  IInv'
<1>. USE DEF opVars, loopVars, sigVars, brkVars
<1>1. pc = "dispatch" /\ ~InHandler /\ pc \notin Ended
  BY DEF Dispatch, MainRuns
<1>2. Typed /\ Moments /\ BatchOpen
  BY DEF IInv
<1>3. PICK h \in batch :
        \/ /\ h \in open /\ cur' = h /\ batch' = batch \ {h} /\ pc' = "cb"
           /\ UNCHANGED <<L, count, open, op, opens, running, thread, told, pos, n, signals, untimely, brk, usr1>>
        \/ h \notin open /\ Crash
  BY DEF Dispatch
<1>4. CASE h \notin open /\ Crash
  BY <1>2, <1>3, <1>4, CrashIInv DEF BatchOpen
<1>5. CASE /\ h \in open /\ cur' = h /\ batch' = batch \ {h} /\ pc' = "cb"
           /\ UNCHANGED <<L, count, open, op, opens, running, thread, told, pos, n, signals, untimely, brk, usr1>>
  <2>1. op = NoOp
    BY <1>1, <1>2 DEF Moments, Ended
  <2>2. Moves /\ untimely \subseteq untimely'
    BY <1>5, <2>1 DEF Moves
  <2>3. (Torn' <=> Torn) /\ (Stale' <=> Stale) /\ ~InHandler'
    BY <1>1, <1>5 DEF Torn, Stale, InHandler
  <2>4. Typed' /\ Moments'
    BY <1>1, <1>2, <1>5, <2>1, <2>3 DEF Typed, Moments
  <2>5. BatchOpen'
    BY <1>2, <1>5, <2>3 DEF BatchOpen
  <2>6. QED
    BY <1>1, <2>2, <2>4, <2>5, MovesKeep DEF Ended
<1>6. QED
  BY <1>3, <1>4, <1>5

LEMMA BreakIInv ==
  ASSUME IInv, BreakStore \/ BreakKill
  PROVE  IInv'
<1>. USE DEF opVars, loopVars, sigVars, brkVars
<1>1. /\ pc \notin Ended
      /\ UNCHANGED <<L, count, open, op, opens, batch, cur, pos, n, signals, usr1>>
      /\ running' \in {running, FALSE} /\ thread' \in {thread, FALSE} /\ told' \in {told, TRUE}
      /\ brk' \in {"stored", "sent"}
      /\ untimely' \in {untimely, untimely \union {"missed"}}
      /\ pc' = pc \/ (pc = "blocked" /\ pc' = "cond") \/ pc' = "killed"
  BY DEF BreakStore, BreakKill
<1>2. Typed /\ Moments /\ BatchOpen
  BY DEF IInv
<1>3. Moves /\ untimely \subseteq untimely'
  BY <1>1 DEF Moves
<1>4. (Torn' <=> Torn) /\ (Stale' <=> Stale) /\ (InHandler' <=> InHandler)
  BY <1>1 DEF Torn, Stale, InHandler
<1>5. Typed'
  <2>1. running' \in BOOLEAN /\ thread' \in BOOLEAN /\ told' \in BOOLEAN /\ usr1' \in BOOLEAN
    BY <1>1, <1>2, Zenon DEF Typed
  <2>2. pc' \in {"main", "starting", "cond", "entering", "blocked", "dispatch", "cb"} \union Ended
    BY <1>1, <1>2 DEF Ended, Typed
  <2>3. QED
    BY <2>1, <2>2, <1>1, <1>2 DEF Typed
<1>6. Moments'
  BY <1>1, <1>2, <1>4 DEF Moments, Ended
<1>7. BatchOpen'
  BY <1>1, <1>2, <1>4 DEF BatchOpen, Ended
<1>8. pc # "crashed"
  BY <1>1 DEF Ended
<1>9. QED
  BY <1>3, <1>5, <1>6, <1>7, <1>8, MovesKeep

LEMMA SignalIInv ==
  ASSUME IInv, Signal
  PROVE  IInv'
<1>. USE DEF opVars, loopVars, sigVars, brkVars
<1>1. /\ ~InHandler /\ pc \notin Ended /\ pc # "main"
      /\ signals < MaxSignals /\ signals' = signals + 1
      /\ pos' = L.next[Anchor] /\ n' = L.next[L.next[Anchor]]
      /\ untimely' = untimely \union BadMoment
      /\ pc' = IF pc = "blocked" THEN "cond" ELSE pc
      /\ UNCHANGED <<L, count, open, op, opens, running, thread, told, batch, cur, brk, usr1>>
  BY DEF Signal, MainRuns
<1>2. Typed /\ HeadGoesOn(L) /\ OpSound /\ ListSound /\ Moments /\ BatchOpen
  BY DEF IInv
<1>3. /\ Torn' <=> Torn \/ op # NoOp
      /\ Stale' <=> Stale \/ pc \in {"dispatch", "cb"}
      /\ untimely' \subseteq {"torn", "stale", "missed", "early", "reopened"}
  BY <1>1, <1>2 DEF Torn, Stale, BadMoment, Typed
<1>4. /\ L' = L /\ pos' \in Nodes /\ n' \in Nodes \union {NULL}
  BY <1>1, <1>2, NodesAre DEF HeadGoesOn, Links
<1>5. Typed'
  BY <1>1, <1>2, <1>3, <1>4, ShutdownAssumption DEF Typed
<1>6. HeadGoesOn(L)'
  BY <1>2, <1>4
<1>7. OpSound'
  BY <1>1, <1>2, OpKept
<1>8. ListSound'
  BY <1>1, <1>2, <1>3 DEF ListSound, NoOp, Ended
<1>9. Moments'
  BY <1>1, <1>2, <1>3, <1>4 DEF Moments, Ended
<1>10. BatchOpen'
  BY <1>1, <1>2, <1>3 DEF BatchOpen, Ended
<1>11. QED
  BY <1>5, <1>6, <1>7, <1>8, <1>9, <1>10 DEF IInv

(* Where the walk is when the list is whole: at the first entry. *)
LEMMA WalkIsAtFirst ==
  ASSUME IInv, InHandler, pc \notin Ended, ~Torn
  PROVE  /\ op = NoOp /\ Whole(L, open, count)
         /\ pos = L.next[Anchor] /\ n = L.next[pos]
         /\ pos \in open \union {Anchor}
         /\ pos # Anchor => pos \in open /\ L.prev[pos] = Anchor /\ n \in Nodes /\ Linked(L, pos)
         /\ pos = Anchor => open = {} /\ count = 0
<1>1. Typed /\ ListSound /\ pc # "crashed"
  BY DEF IInv, Ended
<1>2. op = NoOp /\ Whole(L, open, count) /\ pos = L.next[Anchor] /\ n = L.next[pos] /\ open \subseteq Handles
  BY <1>1 DEF ListSound, Typed
<1>3. /\ pos \in open \union {Anchor} /\ L.prev[pos] = Anchor
      /\ pos = Anchor => open = {} /\ count = 0
  BY <1>2, WholeFirst
<1>4. ASSUME pos # Anchor
      PROVE  pos \in open /\ L.next[pos] \in Nodes /\ L.prev[pos] \in Nodes
  BY <1>2, <1>3, <1>4, WholeDel
<1>5. QED
  BY <1>2, <1>3, <1>4, NodesAre DEF Linked

LEMMA WalkIInv ==
  ASSUME IInv, Walk
  PROVE  IInv'
<1>. USE DEF opVars, loopVars, brkVars
<1>1. /\ InHandler /\ pc \notin Ended /\ pos # Anchor /\ Linked(L, pos)
      /\ L' = list_del(L, pos) /\ count' = count - 1 /\ open' = open \ {pos}
      /\ pos' = n
      /\ n' = IF n = NULL THEN NULL ELSE L'.next[n]
      /\ pc' = IF n = NULL THEN "crashed" ELSE pc
      /\ UNCHANGED <<op, opens, running, thread, told, batch, cur, signals, untimely, brk, usr1>>
  BY DEF Walk, CloseAt
<1>2. Typed /\ HeadGoesOn(L) /\ OpSound /\ ListSound /\ Moments /\ BatchOpen
  BY DEF IInv
<1>3. (Torn' <=> Torn) /\ (Stale' <=> Stale)
  BY <1>1 DEF Torn, Stale
<1>4. pos \in Handles
  BY <1>1, <1>2, NodesAre DEF Typed, InHandler
<1>5. HeadGoesOn(L')
  BY <1>1, <1>2, <1>4, ListDelLinks
<1>6. n' \in Nodes \union {NULL} /\ n \in Nodes \union {NULL}
  BY <1>1, <1>2, <1>5 DEF HeadGoesOn, Links, Typed
<1>7. Typed'
  BY <1>1, <1>2, <1>6 DEF Typed, Ended
<1>8. HeadGoesOn(L)'
  BY <1>5 DEF HeadGoesOn
<1>9. OpSound'
  BY <1>1, <1>2 DEF OpSound, NoOp
<1>10. ASSUME ~Torn
       PROVE  /\ op = NoOp /\ n # NULL /\ Whole(L', open', count')
              /\ n = L'.next[Anchor] /\ n' = L'.next[n]
  <2>1. /\ op = NoOp /\ Whole(L, open, count) /\ pos \in open
        /\ n = L.next[pos] /\ L.prev[pos] = Anchor /\ n \in Nodes
    BY <1>1, <1>10, WalkIsAtFirst
  <2>2. Whole(L', open', count')
    BY <2>1, <1>1, <1>2, WholeDel DEF Typed
  <2>3. L'.next[Anchor] = n
    <3>1. PICK D : D = __list_del(L, Anchor, n)
      OBVIOUS
    <3>2. Joined(D, L, Anchor, n)
      BY <3>1, <2>1, <1>2, NodesAre, DelLinks DEF HeadGoesOn
    <3>3. D \in Links /\ D.next[Anchor] = n
      BY <3>2, NodesAre DEF Joined
    <3>4. L' = [D EXCEPT !.next[pos] = NULL, !.prev[pos] = NULL]
      BY <3>1, <2>1, <1>1 DEF list_del
    <3>5. L'.next = [D.next EXCEPT ![pos] = NULL]
      BY <3>3, <3>4 DEF Links
    <3>6. QED
      BY <3>3, <3>5, <1>4, NodesAre DEF Links
  <2>4. QED
    BY <2>1, <2>2, <2>3, <1>1, NodesAre
<1>11. ListSound'
  BY <1>1, <1>3, <1>10 DEF ListSound, NoOp
<1>12. n = NULL => Stale
  BY <1>2, <1>10 DEF Moments
<1>13. Moments'
  BY <1>1, <1>2, <1>3, <1>12 DEF Moments, InHandler, Ended
<1>14. BatchOpen'
  BY <1>1, <1>2, <1>3 DEF BatchOpen, Moments, Ended
<1>15. QED
  BY <1>7, <1>8, <1>9, <1>11, <1>13, <1>14 DEF IInv

LEMMA WalkFailsIInv ==
  ASSUME IInv, WalkFails
  PROVE  IInv'
<1>1. InHandler /\ pc \notin Ended /\ pos # Anchor /\ ~Linked(L, pos) /\ Crash
  BY DEF WalkFails
<1>2. Torn
  BY <1>1, WalkIsAtFirst
<1>3. QED
  BY <1>1, <1>2, CrashIInv DEF IInv, Moments

LEMMA WalkEndsIInv ==
  ASSUME IInv, WalkEnds
  PROVE  IInv'
<1>. USE DEF opVars, loopVars, brkVars
<1>1. /\ InHandler /\ pc \notin Ended /\ pos = Anchor
      /\ pos' = NULL /\ n' = NULL /\ told' = TRUE
      /\ UNCHANGED <<L, count, open, op, opens, running, thread, pc, batch, cur, signals, untimely, brk, usr1>>
  BY DEF WalkEnds
<1>2. Typed /\ HeadGoesOn(L) /\ OpSound /\ ListSound /\ Moments /\ BatchOpen
  BY DEF IInv
<1>3. (Torn' <=> Torn) /\ (Stale' <=> Stale) /\ ~InHandler'
  BY <1>1 DEF Torn, Stale, InHandler
<1>4. Typed'
  BY <1>1, <1>2 DEF Typed
<1>5. OpSound'
  BY <1>1, <1>2, OpKept
<1>6. ListSound'
  <2>1. ASSUME ~Torn
        PROVE  op = NoOp /\ Whole(L, open, count)
    BY <2>1, <1>1, WalkIsAtFirst
  <2>2. QED
    BY <2>1, <1>1, <1>3 DEF ListSound, NoOp
<1>7. Moments' /\ BatchOpen'
  BY <1>1, <1>2, <1>3 DEF Moments, BatchOpen
<1>8. QED
  BY <1>1, <1>2, <1>4, <1>5, <1>6, <1>7 DEF IInv, HeadGoesOn

LEMMA NextIInv == IInv /\ [Next]_vars => IInv'
<1>. SUFFICES ASSUME IInv, [Next]_vars
              PROVE  IInv'
  OBVIOUS
<1>1. CASE UNCHANGED vars
  <2>1. Moves /\ untimely \subseteq untimely' /\ (pc = "crashed" => pc' = "crashed")
    BY <1>1 DEF vars, Moves
  <2>2. Typed' /\ Moments' /\ BatchOpen'
    BY <1>1 DEF vars, IInv, Typed, Moments, BatchOpen, Torn, Stale, InHandler
  <2>3. QED
    BY <2>1, <2>2, MovesKeep
<1>2. CASE \E h \in Handles : Open(h)
  BY <1>2, OpenIInv
<1>3. CASE Close
  BY <1>3, CloseIInv
<1>4. CASE MainThread
  BY <1>4, AddIInv, DelIInv, DelNothingIInv, RunIInv, BatchIInv, DispatchIInv DEF MainThread
<1>5. CASE SetThread \/ io_loop_close
  BY <1>5, RunIInv
<1>6. CASE EpollReturns
  BY <1>6, BatchIInv
<1>7. CASE Signal
  BY <1>7, SignalIInv
<1>8. CASE Handler
  BY <1>8, WalkIInv, WalkFailsIInv, WalkEndsIInv DEF Handler
<1>9. CASE BreakStore \/ BreakKill
  BY <1>9, BreakIInv
<1>10. QED
  BY <1>1, <1>2, <1>3, <1>4, <1>5, <1>6, <1>7, <1>8, <1>9 DEF Next

LEMMA SpecIInv == Spec => []IInv
BY InitIInv, NextIInv, PTL DEF Spec
-----------------------------------------------------------------------------
(* The variables have their types; above all, the links of the list lead   *)
(* to nodes or nowhere, and handle_count is a number of handles unless a   *)
(* signal came in the middle of a batch.                                   *)
THEOREM TypeCorrect == Spec => []TypeOK
<1>1. IInv => TypeOK
  <2>1. SUFFICES ASSUME Typed, HeadGoesOn(L), OpSound, ListSound, Moments
                 PROVE  TypeOK
    BY DEF IInv
  <2>2. Stale \/ count \in 0 .. Cardinality(Handles)
    <3>1. SUFFICES ASSUME ~Stale
                   PROVE  count \in 0 .. Cardinality(Handles)
      OBVIOUS
    <3>2. ~Torn /\ pc # "crashed"
      BY <2>1, <3>1 DEF Moments
    <3>3. CASE op = NoOp
      BY <3>2, <3>3, <2>1, WholeCount DEF ListSound, Typed
    <3>4. CASE op.kind = "add"
      BY <3>2, <3>4, <2>1, WholeCount DEF ListSound, Typed, Adding
    <3>5. CASE op.kind = "del"
      <4>1. PICK M : Deleting(M)
        BY <3>1, <3>2, <3>5, <2>1 DEF ListSound, DeletingAgain
      <4>2. op.h \in Handles \ open /\ open \subseteq Handles
        BY <3>5, <2>1 DEF OpSound, Typed
      <4>3. Whole(M, open \union {op.h}, IF op.k <= 2 THEN count ELSE count + 1)
        BY <4>1 DEF Deleting
      <4>4. CASE op.k <= 2
        BY <4>2, <4>3, <4>4, WholeCount
      <4>5. CASE ~(op.k <= 2)
        <5>1. count + 1 \in 0 .. Cardinality(Handles) /\ count + 1 = Cardinality(open \union {op.h})
          BY <4>2, <4>3, <4>5, WholeCount
        <5>2. Cardinality(open \union {op.h}) = Cardinality(open) + 1 /\ Cardinality(open) \in Nat
          BY <4>2, NodesAre, FS_AddElement, FS_Subset, FS_CardinalityType
        <5>3. Cardinality(Handles) \in Nat /\ count \in Int
          BY <2>1, NodesAre, FS_CardinalityType DEF Typed
        <5>4. QED
          BY <5>1, <5>2, <5>3
      <4>6. QED
        BY <4>4, <4>5
    <3>6. QED
      BY <3>3, <3>4, <3>5, <2>1 DEF OpSound
  <2>3. QED
    BY <2>1, <2>2 DEF TypeOK, Typed, HeadGoesOn, OpSound, Stale
<1>2. QED
  BY <1>1, SpecIInv, PTL

(* Between two operations on the loop's list (handle.c:7-16, 149-155) it   *)
(* is a ring of exactly the open handles, and handle_count is their        *)
(* number, unless SIGINT came in the middle of such an operation.          *)
THEOREM ListStaysWhole == Spec => []RingWhole
<1>1. IInv => RingWhole
  <2>1. SUFFICES ASSUME IInv, op = NoOp, ~InHandler, pc # "crashed", ~Torn
                 PROVE  /\ count = Cardinality(open)
                        /\ \E s \in [1 .. count -> open] : IsRing(L, Anchor, s) /\ ToSet(s) = open
                        /\ \A h \in Handles \ open : L.next[h] = NULL /\ L.prev[h] = NULL
    BY DEF RingWhole
  <2>2. Whole(L, open, count) /\ open \subseteq Handles
    BY <2>1 DEF IInv, ListSound, Typed
  <2>3. QED
    BY <2>2, WholeCount DEF Whole
<1>2. QED
  BY <1>1, SpecIInv, PTL

(* Neither the loop nor the walk of io_loop_foreach (loop.c:60-67) reads   *)
(* or writes through NULL, unless SIGINT came in the middle of a batch.    *)
THEOREM NothingThroughNull == Spec => []NoCrash
<1>1. IInv => NoCrash
  BY DEF IInv, Moments, Stale, NoCrash
<1>2. QED
  BY <1>1, SpecIInv, PTL

(* io_loop_foreach with a callback that closes the handle it is given      *)
(* (reactive.c:196-203) closes them all, because the walk has read the     *)
(* next link before.                                                       *)
THEOREM WalkClosesAll == Spec => ClosesAll
<1>1. ASSUME IInv, [Next]_vars, InHandler, ~InHandler', pc' # "crashed", ~Torn
      PROVE  list_empty(L', Anchor) /\ count' = 0 /\ open' = {}
  <2>1. CASE WalkEnds
    <3>1. /\ pc \notin Ended /\ pos = Anchor /\ UNCHANGED <<L, count, open>>
      BY <2>1 DEF WalkEnds, opVars
    <3>2. pos = L.next[Anchor] /\ open = {} /\ count = 0
      BY <3>1, <1>1, WalkIsAtFirst
    <3>3. QED
      BY <3>1, <3>2 DEF list_empty
  <2>2. CASE Walk
    BY <2>2, <1>1 DEF Walk, CloseAt, InHandler
  <2>3. CASE ~Walk /\ ~WalkEnds
    <3>1. UNCHANGED pos \/ MainRuns
      BY <2>3, <1>1 DEF Next, vars, MainThread, Handler, Open, Close, SetThread, EpollReturns,
         io_loop_close, AddStep, DelStep, DelNothing, Crash, SetRunning, While, Enter, Dispatch,
         BatchDone, CallbackReturns, Signal, WalkFails, BreakStore, BreakKill, sigVars
    <3>2. QED
      BY <3>1, <1>1 DEF MainRuns, InHandler
  <2>4. QED
    BY <2>1, <2>2, <2>3
<1>2. IInv /\ [Next]_vars =>
        (InHandler /\ ~InHandler' /\ pc' # "crashed" /\ ~Torn
           => list_empty(L', Anchor) /\ count' = 0 /\ open' = {})
  BY <1>1
<1>3. QED
  BY <1>2, SpecIInv, PTL DEF Spec, ClosesAll
-----------------------------------------------------------------------------
(* The functions of list.h that the library does not call. *)

(* INIT_LIST_HEAD of a node that is on no ring. *)
LEMMA InitAlone ==
  ASSUME NEW M \in Links, NEW head \in Nodes, NEW s \in Seq(Nodes), IsRing(M, head, s),
         NEW h \in Nodes, h \notin ToSet(s), h # head
  PROVE  /\ INIT_LIST_HEAD(M, h) \in Links
         /\ IsRing(INIT_LIST_HEAD(M, h), head, s)
         /\ IsRing(INIT_LIST_HEAD(M, h), h, <<>>)
         /\ INIT_LIST_HEAD(M, h).next[h] = h
<1>1. PICK A : A = INIT_LIST_HEAD(M, h)
  OBVIOUS
<1>2. /\ A.next = [M.next EXCEPT ![h] = h] /\ A.prev = [M.prev EXCEPT ![h] = h]
      /\ A = [next |-> A.next, prev |-> A.prev]
  BY <1>1 DEF INIT_LIST_HEAD, Links
<1>3. A \in Links /\ A.next[h] = h /\ A.prev[h] = h
  BY <1>2 DEF Links
<1>4. \A x \in Nodes \ {h} : A.next[x] = M.next[x] /\ A.prev[x] = M.prev[x]
  BY <1>2 DEF Links
<1>5. ToSet(s) \union {head} \subseteq Nodes \ {h}
  BY DEF ToSet
<1>6. IsRing(A, head, s)
  BY <1>3, <1>4, <1>5, Elsewhere
<1>7. IsRing(A, h, <<>>)
  BY <1>3, AloneRing
<1>8. QED
  BY <1>1, <1>3, <1>6, <1>7

(* An entry taken off a ring, and set up on its own or put back. *)
LEMMA RingDelInit ==
  ASSUME NEW M \in Links, NEW head \in Nodes, NEW s \in Seq(Nodes), IsRing(M, head, s),
         NEW k \in 1 .. Len(s)
  PROVE  /\ IsRing(list_del_init(M, s[k]), head, RemoveAt(s, k))
         /\ list_empty(list_del_init(M, s[k]), s[k])
         /\ IsRing(list_move(M, s[k], head), head, <<s[k]>> \o RemoveAt(s, k))
         /\ IsRing(list_move_tail(M, s[k], head), head, Append(RemoveAt(s, k), s[k]))
<1>. DEFINE h == s[k]
            d == RemoveAt(s, k)
            D == __list_del(M, M.prev[h], M.next[h])
<1>1. /\ M.prev[h] \in Nodes /\ M.next[h] \in Nodes
      /\ IsRing(D, head, d) /\ ToSet(d) = ToSet(s) \ {h}
  BY RingDel
<1>2. D \in Links
  <2>1. Joined(D, M, M.prev[h], M.next[h])
    BY <1>1, DelLinks
  <2>2. QED
    BY <2>1 DEF Joined
<1>3. d \in Seq(Nodes)
  BY RemoveAtFacts
<1>4. /\ Len(s) \in Nat /\ DOMAIN s = 1 .. Len(s) /\ h \in Nodes
  OBVIOUS
<1>5. h # head
  BY <1>4 DEF IsRing, list_for_each, Meets, ToSet
<1>6. /\ list_del_init(M, h) = INIT_LIST_HEAD(D, h)
      /\ list_move(M, h, head) = list_add(D, h, head)
      /\ list_move_tail(M, h, head) = list_add_tail(D, h, head)
  BY DEF list_del_init, list_move, list_move_tail
<1>. HIDE DEF h, d, D
<1>7. h \notin ToSet(d)
  BY <1>1
<1>8. IsRing(INIT_LIST_HEAD(D, h), head, d) /\ INIT_LIST_HEAD(D, h).next[h] = h
  BY <1>1, <1>2, <1>3, <1>4, <1>5, <1>7, InitAlone
<1>9. IsRing(list_add(D, h, head), head, <<h>> \o d) /\ IsRing(list_add_tail(D, h, head), head, Append(d, h))
  BY <1>1, <1>2, <1>3, <1>4, <1>5, <1>7, RingAdd
<1>10. QED
  BY <1>6, <1>8, <1>9 DEF h, d, list_empty

(* The entries of head go over to h, whose list is empty, and back. *)
LEMMA RingThereAndBack ==
  ASSUME NEW M \in Links, NEW head \in Nodes, NEW s \in Seq(Nodes), IsRing(M, head, s),
         NEW h \in Nodes, h \notin ToSet(s), h # head
  PROVE  LET alone == INIT_LIST_HEAD(M, h)
             joined == list_splice_init(alone, head, h)
         IN  /\ list_splice(alone, h, head) = alone
             /\ IsRing(joined, h, s) /\ IsRing(joined, head, <<>>)
             /\ IsRing(list_splice(joined, h, head), head, s)
<1>. DEFINE alone == INIT_LIST_HEAD(M, h)
            over == __list_splice(alone, head, h)
            joined == list_splice_init(alone, head, h)
            back == list_splice(joined, h, head)
<1>1. alone \in Links /\ IsRing(alone, head, s) /\ IsRing(alone, h, <<>>) /\ alone.next[h] = h
  BY InitAlone
<1>2. list_splice(alone, h, head) = alone
  BY <1>1 DEF list_splice, list_empty
<1>3. joined = IF list_empty(alone, head) THEN alone ELSE INIT_LIST_HEAD(over, head)
  BY DEF list_splice_init
<1>4. back = IF list_empty(joined, h) THEN joined ELSE __list_splice(joined, h, head)
  BY DEF list_splice
<1>. HIDE DEF alone, over, joined, back
<1>5. list_empty(alone, head) <=> s = <<>>
  BY <1>1, EmptyRing
<1>6. head \notin ToSet(s)
  BY DEF IsRing, list_for_each, Meets
<1>7. CASE s = <<>>
  <2>1. joined = alone
    BY <1>3, <1>5, <1>7
  <2>2. list_empty(joined, h)
    BY <2>1, <1>1 DEF list_empty
  <2>3. back = joined
    BY <1>4, <2>2
  <2>4. QED
    BY <1>1, <1>2, <1>7, <2>1, <2>3 DEF alone, joined, back
<1>8. CASE s # <<>>
  <2>1. IsRing(over, h, s) /\ over \in Links
    BY <1>1, <1>8, RingSplice DEF over
  <2>2. joined = INIT_LIST_HEAD(over, head)
    BY <1>3, <1>5, <1>8
  <2>3. joined \in Links /\ IsRing(joined, h, s) /\ IsRing(joined, head, <<>>) /\ joined.next[head] = head
    BY <2>1, <2>2, <1>6, InitAlone
  <2>4. ~list_empty(joined, h)
    BY <2>3, <1>8, EmptyRing
  <2>5. IsRing(__list_splice(joined, h, head), head, s)
    BY <2>3, <1>6, <1>8, RingSplice
  <2>6. IsRing(back, head, s)
    BY <1>4, <2>4, <2>5
  <2>7. QED
    BY <1>2, <2>3, <2>6 DEF alone, joined, back
<1>9. QED
  BY <1>7, <1>8

(* The functions of utils/list.h do to the loop's list, of any length,     *)
(* what their comments say: the entry is added at either end, taken off    *)
(* from anywhere, moved to either end; the whole list is joined to another *)
(* head.                                                                   *)
THEOREM ListFunctions == Spec => []ListFunctionsAgree
<1>1. IInv => ListFunctionsAgree
  <2>1. SUFFICES ASSUME L \in Links, open \subseteq Handles,
                        NEW s \in [1 .. count -> open], count \in Nat, IsRing(L, Anchor, s)
                 PROVE  /\ list_empty(L, Anchor) <=> s = <<>>
                        /\ \A h \in Handles \ open :
                             /\ IsRing(list_add(L, h, Anchor), Anchor, <<h>> \o s)
                             /\ IsRing(list_add_tail(L, h, Anchor), Anchor, Append(s, h))
                             /\ LET alone == INIT_LIST_HEAD(L, h)
                                    joined == list_splice_init(alone, Anchor, h)
                                IN  /\ list_splice(alone, h, Anchor) = alone
                                    /\ IsRing(joined, h, s) /\ IsRing(joined, Anchor, <<>>)
                                    /\ IsRing(list_splice(joined, h, Anchor), Anchor, s)
                        /\ \A i \in DOMAIN s :
                             /\ IsRing(list_del_init(L, s[i]), Anchor, RemoveAt(s, i))
                             /\ list_empty(list_del_init(L, s[i]), s[i])
                             /\ IsRing(list_move(L, s[i], Anchor), Anchor, <<s[i]>> \o RemoveAt(s, i))
                             /\ IsRing(list_move_tail(L, s[i], Anchor), Anchor, Append(RemoveAt(s, i), s[i]))
    <3>1. ASSUME IInv, op = NoOp, ~InHandler, pc # "crashed", ~Torn
          PROVE  L \in Links /\ open \subseteq Handles /\ count \in Nat
      <4>1. Whole(L, open, count) /\ open \subseteq Handles
        BY <3>1 DEF IInv, ListSound, Typed
      <4>2. count = Cardinality(open)
        BY <4>1, WholeCount
      <4>3. QED
        BY <4>1, <4>2, NodesAre, FS_Subset, FS_CardinalityType DEF Whole
    <3>2. QED
      BY <3>1, Zenon DEF ListFunctionsAgree
  <2>2. s \in Seq(Nodes) /\ ToSet(s) \subseteq open /\ DOMAIN s = 1 .. Len(s)
    BY <2>1, NodesAre DEF ToSet
  <2>3. list_empty(L, Anchor) <=> s = <<>>
    BY <2>1, <2>2, NodesAre, EmptyRing
  <2>4. ASSUME NEW h \in Handles \ open
        PROVE  /\ IsRing(list_add(L, h, Anchor), Anchor, <<h>> \o s)
               /\ IsRing(list_add_tail(L, h, Anchor), Anchor, Append(s, h))
               /\ LET alone == INIT_LIST_HEAD(L, h)
                      joined == list_splice_init(alone, Anchor, h)
                  IN  /\ list_splice(alone, h, Anchor) = alone
                      /\ IsRing(joined, h, s) /\ IsRing(joined, Anchor, <<>>)
                      /\ IsRing(list_splice(joined, h, Anchor), Anchor, s)
    <3>1. h \in Nodes /\ h \notin ToSet(s) /\ h # Anchor /\ Anchor \in Nodes
      BY <2>2, <2>4, NodesAre
    <3>2. QED
      BY <3>1, <2>1, <2>2, RingAdd, RingThereAndBack
  <2>5. ASSUME NEW i \in DOMAIN s
        PROVE  /\ IsRing(list_del_init(L, s[i]), Anchor, RemoveAt(s, i))
               /\ list_empty(list_del_init(L, s[i]), s[i])
               /\ IsRing(list_move(L, s[i], Anchor), Anchor, <<s[i]>> \o RemoveAt(s, i))
               /\ IsRing(list_move_tail(L, s[i], Anchor), Anchor, Append(RemoveAt(s, i), s[i]))
    BY <2>1, <2>2, <2>5, NodesAre, RingDelInit
  <2>6. QED
    BY <2>3, <2>4, <2>5
<1>2. QED
  BY <1>1, SpecIInv, PTL
=============================================================================
