SPECIFICATION Spec
CONSTANTS
  Buffers = {"a", "b"}
  Byte = {0, 1}
  IDX_BEGIN = 2
  SizeOf <- MCSizeOf
  MaxPiece = 2
  MaxPut = 3
INVARIANTS
  InBounds
  BytesInOrder
