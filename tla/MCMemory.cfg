SPECIFICATION Spec
CONSTANTS
  Task = {t1, t2}
  None = None
  MaxChunks = 5
  CHUNK_SIZE = 32
  HEADER_SIZE = 16
  Word = 256
  Size = {15, 16, 60}
INVARIANT
  RoomForRequest
PROPERTY
  ImplementsPool
VIEW View
SYMMETRY TaskSymmetry
