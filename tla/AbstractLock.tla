---------------------------- MODULE AbstractLock ----------------------------
(***************************************************************************)
(* What a lock of sync.c promises: at any time at most one thread owns it, *)
(* a thread becomes the owner of a free lock only, and a lock becomes free *)
(* only when its owner gives it up.                                        *)
(***************************************************************************)
CONSTANTS Threads, Locks

VARIABLE owners     \* for each lock, the set of threads that own it

Init == owners = [l \in Locks |-> {}]

Acquire(l, t) ==
  /\ owners[l] = {}
  /\ owners' = [owners EXCEPT ![l] = {t}]

Release(l, t) ==
  /\ owners[l] = {t}
  /\ owners' = [owners EXCEPT ![l] = {}]

Next == \E l \in Locks, t \in Threads : Acquire(l, t) \/ Release(l, t)

Spec == Init /\ [][Next]_owners
=============================================================================
