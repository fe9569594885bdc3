CONSTANTS
  a = a
  b = b
  c = c
  m = m
  NULL = NULL
  Main = m
  Locks = {1}
  MaxDepth = 2
  Threads <- MCThreads
  Procs <- MCProcs
  Priority <- MCPriority
SPECIFICATION SyncSafe
SYMMETRY MCSymmetry
INVARIANTS
  SyncTypeOK
  MutualExclusion
  HolderAgrees
  WaitersBlocked
  NoLostWakeup
  ReadyListed
  ContextActive
  NoPanic
PROPERTIES
  OnlyOwnerWrites
  LockImplemented
  SchedulerImplemented
  ReadyOrderKept
