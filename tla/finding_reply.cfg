SPECIFICATION Spec
CONSTANTS
  BufferSize = 5
  WriteSizes = {0, 1, 2, 4}
  ReplySizes = {1, 5}
  Chunk = 2
  IdleLimit = 4
PROPERTIES
  RepliesWhole
