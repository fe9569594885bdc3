----------------------------- MODULE MCMemory -----------------------------
(* Two kernel threads that allocate, or two processes, or one of each.     *)
EXTENDS Memory, TLC

CONSTANTS k, l, p, q

MCKernelThreads == {k, l}
MCProcs == {p, q}
MCApart == {{k, l}, {p, q}}
MCTogether == {{k, p}}
MCSymmetry == Permutations({k, l}) \cup Permutations({p, q})
=============================================================================
