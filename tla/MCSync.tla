------------------------------- MODULE MCSync -------------------------------
(* Threads that use locks: two kernel threads and a process. *)
EXTENDS Sync, TLC

CONSTANTS a, b, c, m

MCThreads == {m, a, b, c}
MCProcs == {c}
MCPriority == [t \in MCThreads |-> IF t = c THEN 1 ELSE 0]
MCSymmetry == Permutations({a, b})
=============================================================================
