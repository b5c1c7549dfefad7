SPECIFICATION Spec
CONSTANTS
  BytesPerDesc = 2
  Sizes = {1, 2, 3, 4, 5, 6}
INVARIANTS
  TypeOK
  FoundUsable
  InsideBuffer
  BufferInOrder
  LengthIsReal
