CONSTANTS
  a = a
  b = b
  m = m
  NULL = NULL
  Main = m
  Locks = {1}
  QLock = 1
  MaxDepth = 1
  BufSize = 3
  Serials = 4
  Threads <- MCThreads
  Procs <- MCProcs
  Priority <- MCPriority
  Consumers <- MCConsumers
  Producers = {}
SPECIFICATION Spec
INVARIANT
  SleepsOnlyWhenEmpty
PROPERTIES
  WaiterWoken
  ReadyRuns
  CharsDelivered
