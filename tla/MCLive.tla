------------------------------- MODULE MCLive -------------------------------
(***************************************************************************)
(* What must eventually happen: a kernel thread and a process use a lock   *)
(* and sleep, or the kernel thread is the only reader of the keyboard's    *)
(* queue while the process takes the CPU from it.  A behaviour takes the   *)
(* steps, and is fair in the sense, of one of the two.                     *)
(***************************************************************************)
EXTENDS IoQueue

CONSTANTS a, b, m

VARIABLE subject     \* "locks" or "queue", the same in a whole behaviour

MCThreads == {m, a, b}
MCProcs == {b}
MCPriority == [t \in MCThreads |-> 1]
MCConsumers == {a}

Init == subject \in {"locks", "queue"} /\ IoInit

Next ==
  /\ UNCHANGED subject
  /\ \/ subject = "locks" /\ SyncNext /\ UNCHANGED ioVars
     \/ subject = "queue" /\ IoNext

Fairness ==
  \/ subject = "locks" /\ SyncFairness
  \/ subject = "queue" /\ IoFairness

Spec == Init /\ [][Next]_<<subject, allVars>> /\ Fairness
=============================================================================
