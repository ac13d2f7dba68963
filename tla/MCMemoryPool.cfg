SPECIFICATION Spec
CONSTANTS
  N = 2
  MaxChunks = 6
INVARIANTS
  TypeOK
  ChunksSound
