CONSTANTS
  N = 5
  FirstKernel = 2
  LowPages = 2
  PoolFrames = 10
  HeapPages = 5
  UserPages = {5, 6}
  Users = {1}
SPECIFICATION Spec
INVARIANT
  GdtMapped
