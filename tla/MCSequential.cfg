CONSTANTS
  e1 = e1
  e2 = e2
  e3 = e3
  u1 = u1
  u2 = u2
  NULL = NULL
  Lists = {1, 2}
  Elems <- MCElems
  ByteBits = 4
  Length = 2
  MaxRequest = 10
  Cells = 4
  Bytes <- MCBytes
  Ints <- MCInts
  Separators = {1}
  Word = 4096
  BufSize = 20
  Directives <- MCDirectives
  N = 5
  FirstKernel = 2
  LowPages = 2
  PoolFrames = 10
  HeapPages = 5
  UserPages = {5, 6}
  Users <- MCUsers
  Cols = 2
  Rows = 3
  Half = 8
  Chars = {"x", "y"}
  Blank = "y"
  MaxLines = 6
SPECIFICATION SequentialSpec
SYMMETRY MCSymmetry
INVARIANTS
  FirstFit
  StringsRight
  PrintsAsAsked
  KernelShared
  UserApart
  ScreenTypeOK
  ShowsLastLines
PROPERTY
  ListsImplemented
