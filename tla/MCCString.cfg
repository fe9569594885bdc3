CONSTANTS
  Cells = 4
  Bytes <- MCBytes
  Ints <- MCInts
  Separators = {1}
SPECIFICATION Spec
INVARIANT
  MissIsNull
