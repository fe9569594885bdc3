CONSTANTS
  ByteBits = 4
  Length = 2
  MaxRequest = 10
SPECIFICATION Spec
INVARIANT
  FoundInBitmap
