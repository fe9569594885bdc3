----------------------------- MODULE MCInterrupt -----------------------------
(* The main thread, a kernel thread and a user process. *)
EXTENDS Interrupt

CONSTANTS main, thread, process

MCThreads == {main, thread, process}
MCPriority == [x \in MCThreads |-> IF x = process THEN 1 ELSE 0]
=============================================================================
