-------------------------------- MODULE List --------------------------------
(***************************************************************************)
(* The kernel's doubly linked list (list.c), as the sequence of elements   *)
(* between its head and its tail sentinel.  Every list_insert_before and   *)
(* list_remove runs with interrupts disabled, so each operator below is    *)
(* one indivisible change of the list.  The walks (elem_find) do not       *)
(* disable interrupts; the modules that use them say why the caller does.  *)
(***************************************************************************)
EXTENDS Sequences, Integers

list_init == <<>>

list_empty(l) == l = <<>>

list_push(l, e) == <<e>> \o l

list_append(l, e) == Append(l, e)

(* list_pop returns the first element and unlinks it: list_pop is the      *)
(* element, list_popped the list that remains.                             *)
list_pop(l) == Head(l)

list_popped(l) == Tail(l)

elem_find(l, e) == \E i \in 1..Len(l) : l[i] = e

(* No element is linked twice: what list.c needs of its callers, since an  *)
(* element has one prev and one next field for each list.                  *)
NoDuplicates(l) == \A i, j \in 1..Len(l) : l[i] = l[j] => i = j
=============================================================================
