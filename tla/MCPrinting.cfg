CONSTANTS
  a = a
  b = b
  x = x
  y = y
  z = z
  Writers = {a, b}
  Output <- MCOutput
  Message <- MCMessage
  Cols = 3
  Rows = 2
  Chars = {x, y, z}
  Blank = y
  Half = 8
SPECIFICATION Spec
INVARIANT
  PrintsItsText
