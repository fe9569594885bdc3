CONSTANTS
  k = k
  l = l
  p = p
  q = q
  NULL = NULL
  ByteBits = 4
  FreeMemory = 17
  UserLength = 2
  TablePages = 3
  MaxCount = 4
  KernelThreads <- MCKernelThreads
  Procs <- MCProcs
  Allocators <- MCApart
SPECIFICATION Spec
SYMMETRY MCSymmetry
INVARIANTS
  MemoryTypeOK
  FramesExclusive
  NoPageLost
  UserBelowKernel
  PanicOnlyWhenFull
CHECK_DEADLOCK FALSE
