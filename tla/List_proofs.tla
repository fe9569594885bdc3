---------------------------- MODULE List_proofs ----------------------------
(***************************************************************************)
(* What the list operators do to the elements of a list and to the absence *)
(* of duplicates.  The proofs about threads and locks use these lemmas     *)
(* only and never look inside a list.                                      *)
(***************************************************************************)
EXTENDS List, TLAPS

(* A new list has no elements. *)
LEMMA NewList ==
  /\ NoDuplicates(list_init)
  /\ \A S : list_init \in Seq(S)
  /\ \A x : ~ elem_find(list_init, x)
<1>1. Len(list_init) = 0 /\ \A S : list_init \in Seq(S)
  BY DEF list_init
<1> QED
  BY <1>1 DEF elem_find, NoDuplicates

(* A list is empty if and only if it has no elements. *)
LEMMA EmptyList ==
  ASSUME NEW S, NEW l \in Seq(S)
  PROVE  list_empty(l) <=> \A x \in S : ~ elem_find(l, x)
<1>1. ASSUME ~ list_empty(l)
      PROVE  \E x \in S : elem_find(l, x)
  <2>1. Len(l) \in Nat /\ Len(l) # 0
    BY <1>1 DEF list_empty
  <2>2. 1 \in 1..Len(l) /\ l[1] \in S
    BY <2>1
  <2> QED
    BY <2>2 DEF elem_find
<1>2. ASSUME list_empty(l)
      PROVE  \A x \in S : ~ elem_find(l, x)
  BY <1>2 DEF elem_find, list_empty
<1> QED
  BY <1>1, <1>2

(* list_append adds one element and keeps the others. *)
LEMMA AppendElems ==
  ASSUME NEW S, NEW l \in Seq(S), NEW e \in S
  PROVE  /\ list_append(l, e) \in Seq(S)
         /\ \A x : elem_find(list_append(l, e), x) <=> elem_find(l, x) \/ x = e
         /\ NoDuplicates(l) /\ ~ elem_find(l, e) => NoDuplicates(list_append(l, e))
         /\ ~ list_empty(list_append(l, e))
<1> DEFINE k == list_append(l, e)
<1>1. /\ k \in Seq(S)
      /\ Len(l) \in Nat
      /\ Len(k) = Len(l) + 1
      /\ \A i \in 1..Len(l) : k[i] = l[i]
      /\ k[Len(l) + 1] = e
  BY DEF list_append
<1>2. 1..Len(k) = 1..Len(l) \cup {Len(l) + 1}
  BY <1>1
<1> HIDE DEF k
<1>3. \A x : elem_find(k, x) <=> elem_find(l, x) \/ x = e
  BY <1>1, <1>2 DEF elem_find
<1>4. NoDuplicates(l) /\ ~ elem_find(l, e) => NoDuplicates(k)
  BY <1>1, <1>2 DEF elem_find, NoDuplicates
<1>5. k # <<>>
  BY <1>1
<1> QED
  BY <1>1, <1>3, <1>4, <1>5 DEF k, list_empty

(* list_push adds one element and keeps the others. *)
LEMMA PushElems ==
  ASSUME NEW S, NEW l \in Seq(S), NEW e \in S
  PROVE  /\ list_push(l, e) \in Seq(S)
         /\ \A x : elem_find(list_push(l, e), x) <=> elem_find(l, x) \/ x = e
         /\ NoDuplicates(l) /\ ~ elem_find(l, e) => NoDuplicates(list_push(l, e))
<1> DEFINE k == list_push(l, e)
<1>1. /\ k \in Seq(S)
      /\ Len(l) \in Nat
      /\ Len(k) = Len(l) + 1
      /\ \A i \in 1..Len(l) : k[i + 1] = l[i]
      /\ k[1] = e
  BY DEF list_push
<1>2. \A j \in 1..Len(k) : j = 1 \/ (j - 1 \in 1..Len(l) /\ j = (j - 1) + 1)
  BY <1>1
<1>3. 1 \in 1..Len(k) /\ \A i \in 1..Len(l) : i + 1 \in 1..Len(k)
  BY <1>1
<1> HIDE DEF k
<1>4. \A x : elem_find(k, x) => elem_find(l, x) \/ x = e
  BY <1>1, <1>2, ZenonT(60) DEF elem_find
<1>5. \A x : elem_find(l, x) \/ x = e => elem_find(k, x)
  BY <1>1, <1>3 DEF elem_find
<1>6. ASSUME NoDuplicates(l), ~ elem_find(l, e),
             NEW i \in 1..Len(k), NEW j \in 1..Len(k), k[i] = k[j]
      PROVE  i = j
  <2>1. \A n \in 1..Len(k) : n # 1 => n - 1 \in 1..Len(l) /\ k[n] = l[n - 1]
    BY <1>1, <1>2
  <2>2. \A n \in 1..Len(l) : l[n] # e
    BY <1>6 DEF elem_find
  <2>3. CASE i = 1 \/ j = 1
    BY <2>1, <2>2, <2>3, <1>1, <1>6
  <2>4. CASE i # 1 /\ j # 1
    <3>1. l[i - 1] = l[j - 1] /\ i - 1 \in 1..Len(l) /\ j - 1 \in 1..Len(l)
      BY <2>1, <2>4, <1>6
    <3>2. i - 1 = j - 1
      BY <3>1, <1>6 DEF NoDuplicates
    <3> QED
      BY <3>2
  <2> QED
    BY <2>3, <2>4
<1>7. NoDuplicates(l) /\ ~ elem_find(l, e) => NoDuplicates(k)
  BY <1>6 DEF NoDuplicates
<1> QED
  BY <1>1, <1>4, <1>5, <1>7 DEF k

(* list_pop takes an element out of a list without duplicates. *)
LEMMA PopElems ==
  ASSUME NEW S, NEW l \in Seq(S), ~ list_empty(l), NoDuplicates(l)
  PROVE  /\ list_pop(l) \in S
         /\ elem_find(l, list_pop(l))
         /\ list_popped(l) \in Seq(S)
         /\ NoDuplicates(list_popped(l))
         /\ \A x : elem_find(list_popped(l), x) <=> elem_find(l, x) /\ x # list_pop(l)
<1> DEFINE k == list_popped(l)
<1>1. l # <<>>
  BY DEF list_empty
<1>2. /\ k \in Seq(S)
      /\ Len(l) \in Nat /\ Len(l) # 0
      /\ Len(k) = Len(l) - 1
      /\ \A i \in 1..Len(k) : k[i] = l[i + 1]
      /\ list_pop(l) = l[1]
      /\ l[1] \in S
  BY <1>1 DEF list_popped, list_pop
<1>3. /\ 1 \in 1..Len(l)
      /\ \A i \in 1..Len(k) : i + 1 \in 1..Len(l) /\ i + 1 # 1
      /\ \A j \in 1..Len(l) : j = 1 \/ (j - 1 \in 1..Len(k) /\ j = (j - 1) + 1)
  BY <1>2
<1> HIDE DEF k
<1>4. elem_find(l, list_pop(l))
  BY <1>2, <1>3 DEF elem_find
<1>5. \A i, j \in 1..Len(k) : k[i] = k[j] => i = j
  <2> SUFFICES ASSUME NEW i \in 1..Len(k), NEW j \in 1..Len(k), k[i] = k[j]
               PROVE  i = j
    OBVIOUS
  <2>1. l[i + 1] = l[j + 1] /\ i + 1 \in 1..Len(l) /\ j + 1 \in 1..Len(l)
    BY <1>2, <1>3
  <2>2. i + 1 = j + 1
    BY <2>1 DEF NoDuplicates
  <2> QED
    BY <2>2, <1>2
<1>6. ASSUME NEW x, elem_find(k, x)
      PROVE  elem_find(l, x) /\ x # list_pop(l)
  <2>1. PICK i \in 1..Len(k) : k[i] = x
    BY <1>6 DEF elem_find
  <2>2. l[i + 1] = x /\ i + 1 \in 1..Len(l) /\ i + 1 # 1
    BY <2>1, <1>2, <1>3
  <2>3. l[i + 1] # l[1]
    BY <2>2, <1>3 DEF NoDuplicates
  <2> QED
    BY <2>2, <2>3, <1>2 DEF elem_find
<1>7. ASSUME NEW x, elem_find(l, x), x # list_pop(l)
      PROVE  elem_find(k, x)
  <2>1. PICK j \in 1..Len(l) : l[j] = x
    BY <1>7 DEF elem_find
  <2>2. j # 1
    BY <2>1, <1>7, <1>2
  <2>3. j - 1 \in 1..Len(k) /\ k[j - 1] = x
    BY <2>1, <2>2, <1>2, <1>3
  <2> QED
    BY <2>3 DEF elem_find
<1> QED
  BY <1>2, <1>4, <1>5, <1>6, <1>7 DEF k, NoDuplicates
=============================================================================
