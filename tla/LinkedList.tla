----------------------------- MODULE LinkedList -----------------------------
(***************************************************************************)
(* list.c with its pointers.  A list is two sentinels with the elements    *)
(* between them; an element carries its own prev and next and keeps them,  *)
(* stale, when it is unlinked.  Insertion and removal run with interrupts  *)
(* disabled, and the walks are called with interrupts disabled, so that    *)
(* every function is one action.  A caller links an element that is in no  *)
(* list, unlinks one that is in a list and pops from a list that is not    *)
(* empty: the ASSERTs and tests of thread.c and sync.c.                    *)
(***************************************************************************)
EXTENDS Integers, FiniteSets, Sequences

CONSTANTS Lists, Elems, NULL

VARIABLES
  prev, next,      \* the two fields of every element and sentinel
  answer           \* what the last function returned, with its name

listVars == <<prev, next, answer>>

head(l) == <<l, "head">>
tail(l) == <<l, "tail">>
Sentinels == {head(l) : l \in Lists} \cup {tail(l) : l \in Lists}
Nodes == Elems \cup Sentinels

ASSUME ListAssumption == IsFiniteSet(Elems) /\ Elems \cap Sentinels = {}

(* The pointer `elem' of a walk from head.next, after k steps; the walk    *)
(* ends at the tail.                                                       *)
walk(l) ==
  LET elem[k \in 0..Cardinality(Elems)] ==
        IF k = 0 THEN next[head(l)]
        ELSE IF elem[k - 1] \in Elems THEN next[elem[k - 1]]
        ELSE elem[k - 1]
  IN elem

contents(l) ==
  LET elem == walk(l)
      len  == Cardinality({k \in DOMAIN elem : elem[k] # tail(l)})
  IN [i \in 1..len |-> elem[i - 1]]

linked(l, e) == LET c == contents(l) IN \E i \in DOMAIN c : c[i] = e

-----------------------------------------------------------------------------
ListInit ==
  /\ prev = [n \in Nodes |-> IF \E l \in Lists : n = tail(l) THEN <<n[1], "head">> ELSE NULL]
  /\ next = [n \in Nodes |-> IF \E l \in Lists : n = head(l) THEN <<n[1], "tail">> ELSE NULL]
  /\ answer = <<"none">>

insert_fault_one_way(before, elem) ==
  /\ next' = [next EXCEPT ![prev[before]] = elem, ![elem] = before]
  /\ prev' = [prev EXCEPT ![elem] = prev[before]]

insert(before, elem) ==
  /\ next' = [next EXCEPT ![prev[before]] = elem, ![elem] = before]
  /\ prev' = [prev EXCEPT ![elem] = prev[before], ![before] = elem]

unlink(elem) ==
  /\ next' = [next EXCEPT ![prev[elem]] = next[elem]]
  /\ prev' = [prev EXCEPT ![next[elem]] = prev[elem]]

list_insert_before(l, before, e) ==
  /\ linked(l, before)
  /\ insert(before, e)
  /\ answer' = <<"none">>

list_push(l, e) == insert(next[head(l)], e) /\ answer' = <<"none">>

list_append(l, e) == insert(tail(l), e) /\ answer' = <<"none">>

list_remove(e) == unlink(e) /\ answer' = <<"none">>

list_pop(l) ==
  /\ next[head(l)] # tail(l)
  /\ unlink(next[head(l)])
  /\ answer' = <<"pop", next[head(l)]>>

elem_find(l, e) == answer' = <<"find", linked(l, e)>> /\ UNCHANGED <<prev, next>>

(* hits are the elements for which the callback returns true. *)
list_traversal(l, hits) ==
  LET c == contents(l)
      found == {i \in DOMAIN c : c[i] \in hits}
  IN /\ answer' = IF next[head(l)] = tail(l) \/ found = {} THEN <<"traversal", NULL>>
                  ELSE <<"traversal", c[CHOOSE i \in found : \A j \in found : i <= j]>>
     /\ UNCHANGED <<prev, next>>

list_len(l) == answer' = <<"len", Cardinality(DOMAIN contents(l))>> /\ UNCHANGED <<prev, next>>

list_empty(l) == answer' = <<"empty", next[head(l)] = tail(l)>> /\ UNCHANGED <<prev, next>>

ListNext ==
  \/ \E e \in Elems :
       /\ \A l \in Lists : ~ linked(l, e)
       /\ \E l \in Lists : \/ list_push(l, e)
                           \/ list_append(l, e)
                           \/ \E before \in Elems : list_insert_before(l, before, e)
  \/ \E l \in Lists, e \in Elems : linked(l, e) /\ list_remove(e)
  \/ \E l \in Lists : list_pop(l)
  \/ \E l \in Lists, e \in Elems : elem_find(l, e)
  \/ \E l \in Lists, hits \in SUBSET Elems : list_traversal(l, hits)
  \/ \E l \in Lists : list_len(l)
  \/ \E l \in Lists : list_empty(l)

ListSpec == ListInit /\ [][ListNext]_listVars

-----------------------------------------------------------------------------
(* Properties *)

(* The pointers implement sequences: every insertion and removal changes   *)
(* exactly one list, at one place, whatever stale pointers the elements    *)
(* carry, and the walks answer what the sequence says.  Thread and Sync    *)
(* use lists as such sequences.                                            *)
Abs == INSTANCE AbstractList WITH lists <- [l \in Lists |-> contents(l)]
ListsImplemented == Abs!Spec

-----------------------------------------------------------------------------
(* Why this holds. *)

(* The i-th node of list l with elements s, from its head to its tail.     *)
node(l, s, i) == IF i = 0 THEN head(l) ELSE IF i \in 1..Len(s) THEN s[i] ELSE tail(l)

(* The pointers nx and pv link list l through s: they are inverse to each  *)
(* other along it, and it meets no element twice.                          *)
Chain(nx, pv, l, s) ==
  /\ s \in Seq(Elems)
  /\ \A i \in 0..Len(s) :
       nx[node(l, s, i)] = node(l, s, i + 1) /\ pv[node(l, s, i + 1)] = node(l, s, i)
  /\ \A i, j \in 1..Len(s) : s[i] = s[j] => i = j

(* They do so for every list l and its elements c[l], and no element is in *)
(* two of them.                                                            *)
Chains(nx, pv, c) ==
  /\ nx \in [Nodes -> Nodes \cup {NULL}] /\ pv \in [Nodes -> Nodes \cup {NULL}]
  /\ \A l \in Lists : Chain(nx, pv, l, c[l])
  /\ \A l, m \in Lists :
       l # m => \A i \in 1..Len(c[l]), j \in 1..Len(c[m]) : c[l][i] # c[m][j]

(* What a walk meets is linked both ways. *)
ListInv == Chains(next, prev, [l \in Lists |-> contents(l)])
=============================================================================
