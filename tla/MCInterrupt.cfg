CONSTANTS
  main = main
  thread = thread
  process = process
  NULL = NULL
  Threads <- MCThreads
  Main = main
  Procs = {process}
  Priority <- MCPriority
  PgWords = 176
  CFrame = 8
  Exceptions = {0, 12, 14}
SPECIFICATION Spec
INVARIANT
  FrameKept
PROPERTIES
  ClockTicks
  ThreadImplemented
