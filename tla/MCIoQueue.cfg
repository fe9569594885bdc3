CONSTANTS
  a = a
  b = b
  p = p
  m = m
  NULL = NULL
  NoChar = NoChar
  Main = m
  Locks = {1}
  QLock = 1
  MaxDepth = 1
  BufSize = 3
  Serials = 4
  Threads <- MCThreads
  Procs = {}
  Priority <- MCPriority
  Consumers <- MCConsumers
  Producers <- MCProducers
  MaxDown = 2
  Backlog = 1
  Capacity = 1
  Keys <- MCKeys
SPECIFICATION Spec
SYMMETRY MCSymmetry
INVARIANTS
  IoTypeOK
  FifoDelivered
  SlotSleeps
  NoPanic
  KeyboardTypeOK
  NoStuckModifier
PROPERTIES
  LocksImplemented
  CharsAsTyped
