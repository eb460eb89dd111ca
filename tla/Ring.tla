-------------------------------- MODULE Ring --------------------------------
(***************************************************************************)
(* utils/list.h: doubly linked rings of list_heads.  L is the memory they  *)
(* live in, a record of the two functions next and prev; an operator is    *)
(* the memory after the C function of its name.  The stores of list_add    *)
(* and list_del are also given one by one, because a signal handler may    *)
(* run between two of them.                                                *)
(***************************************************************************)
EXTENDS Integers, FiniteSets, SequencesExt

CONSTANTS
  Nodes,  (* every list_head, heads of lists included                      *)
  NULL

ASSUME RingAssumption == IsFiniteSet(Nodes) /\ NULL \notin Nodes

Links == [next : [Nodes -> Nodes \union {NULL}], prev : [Nodes -> Nodes \union {NULL}]]

INIT_LIST_HEAD(L, h) == [L EXCEPT !.next[h] = h, !.prev[h] = h]

(* __list_add(new, prev, next), store by store. *)
AddStore(L, k, new, p, n) ==
  CASE k = 1 -> [L EXCEPT !.prev[n] = new]
    [] k = 2 -> [L EXCEPT !.next[new] = n]
    [] k = 3 -> [L EXCEPT !.prev[new] = p]
    [] k = 4 -> [L EXCEPT !.next[p] = new]

__list_add(L, new, p, n) ==
  [L EXCEPT !.prev[n] = new, !.next[new] = n, !.prev[new] = p, !.next[p] = new]

list_add(L, new, head) == __list_add(L, new, head, L.next[head])

(* A slip the runs must notice: the new entry goes to the front. *)
AddTailInFront(L, new, head) == __list_add(L, new, head, L.next[head])

list_add_tail(L, new, head) == __list_add(L, new, L.prev[head], head)

__list_del(L, p, n) == [L EXCEPT !.prev[n] = p, !.next[p] = n]

(* list_del(e), store by store; p and n are e's links before the first.    *)
DelStore(L, k, e, p, n) ==
  CASE k = 1 -> [L EXCEPT !.prev[n] = p]
    [] k = 2 -> [L EXCEPT !.next[p] = n]
    [] k = 3 -> [L EXCEPT !.next[e] = NULL]
    [] k = 4 -> [L EXCEPT !.prev[e] = NULL]

(* list_del of an entry whose links are NULL writes through NULL. *)
Linked(L, e) == L.next[e] # NULL /\ L.prev[e] # NULL

(* A slip the runs must notice: the links of the entry are kept, so a walk *)
(* goes on from an entry that is gone, and a second list_del succeeds.     *)
DelKeepsLinks(L, e) == __list_del(L, L.prev[e], L.next[e])

list_del(L, e) ==
  [__list_del(L, L.prev[e], L.next[e]) EXCEPT !.next[e] = NULL, !.prev[e] = NULL]

list_del_init(L, e) == INIT_LIST_HEAD(__list_del(L, L.prev[e], L.next[e]), e)

list_move(L, e, head) == list_add(__list_del(L, L.prev[e], L.next[e]), e, head)

list_move_tail(L, e, head) == list_add_tail(__list_del(L, L.prev[e], L.next[e]), e, head)

list_empty(L, head) == L.next[head] = head

__list_splice(L, list, head) ==
  LET first == L.next[list]
      last  == L.prev[list]
      at    == L.next[head]
  IN  [L EXCEPT !.prev = [@ EXCEPT ![first] = head, ![at] = last],
                !.next = [@ EXCEPT ![head] = first, ![last] = at]]

list_splice(L, list, head) ==
  IF list_empty(L, list) THEN L ELSE __list_splice(L, list, head)

list_splice_init(L, list, head) ==
  IF list_empty(L, list) THEN L ELSE INIT_LIST_HEAD(__list_splice(L, list, head), list)
-----------------------------------------------------------------------------
(* Entry i of the list s of head; the head comes before and after them.    *)
At(head, s, i) == IF i \in DOMAIN s THEN s[i] ELSE head

(* A walk along the links from head meets s before it is at head again.    *)
Meets(link, head, s) ==
  /\ head \notin ToSet(s)
  /\ \A i \in 0 .. Len(s) : link[At(head, s, i)] = At(head, s, i + 1)

list_for_each(L, head, s) == Meets(L.next, head, s)

list_for_each_prev(L, head, s) == Meets(L.prev, head, s)

(* The list of head is a ring, and its entries in order are s, each once.  *)
IsRing(L, head, s) ==
  /\ IsInjective(s)
  /\ list_for_each(L, head, s)
  /\ list_for_each_prev(L, head, Reverse(s))
=============================================================================
