---------------------------- MODULE AbstractList ----------------------------
(* What list.c promises: lists are sequences without repetition, changed   *)
(* and asked as the operators of List say.                                 *)
EXTENDS List

CONSTANTS Lists, Elems, NULL

VARIABLES lists, answer

free(e) == \A l \in Lists : ~ elem_find(lists[l], e)

become(l, s, a) == answer' = a /\ lists' = [lists EXCEPT ![l] = s]

say(a) == answer' = a /\ UNCHANGED lists

before(s, i, e) == SubSeq(s, 1, i - 1) \o <<e>> \o SubSeq(s, i, Len(s))

without(s, i) == SubSeq(s, 1, i - 1) \o SubSeq(s, i + 1, Len(s))

Put(l, e) ==
  /\ free(e)
  /\ \/ become(l, list_push(lists[l], e), <<"none">>)
     \/ become(l, list_append(lists[l], e), <<"none">>)
     \/ \E i \in 1..Len(lists[l]) : become(l, before(lists[l], i, e), <<"none">>)

Remove(l) == \E i \in 1..Len(lists[l]) : become(l, without(lists[l], i), <<"none">>)

Pop(l) ==
  /\ ~ list_empty(lists[l])
  /\ become(l, list_popped(lists[l]), <<"pop", list_pop(lists[l])>>)

Ask(l) ==
  \/ \E e \in Elems : say(<<"find", elem_find(lists[l], e)>>)
  \/ say(<<"len", Len(lists[l])>>)
  \/ say(<<"empty", list_empty(lists[l])>>)

(* The first element that is a hit, or NULL. *)
Traverse(l, hits) ==
  \/ /\ \A i \in 1..Len(lists[l]) : lists[l][i] \notin hits
     /\ say(<<"traversal", NULL>>)
  \/ \E i \in 1..Len(lists[l]) :
       /\ lists[l][i] \in hits
       /\ \A j \in 1..i - 1 : lists[l][j] \notin hits
       /\ say(<<"traversal", lists[l][i]>>)

Init == lists = [l \in Lists |-> list_init] /\ answer = <<"none">>

(* A question with the same answer again is a stuttering step. *)
Next ==
  /\ answer' # answer \/ lists' # lists
  /\ \E l \in Lists :
       \/ Ask(l)
       \/ \E hits \in SUBSET Elems : Traverse(l, hits)
       \/ Pop(l)
       \/ Remove(l)
       \/ \E e \in Elems : Put(l, e)

Spec == Init /\ [][Next]_<<lists, answer>>
=============================================================================
