\* Vectors of up to 5 chunks (5 pads to 8 and takes three layers), each
\* chunk in its own array or all cut in order out of one array, which may
\* hold a chunk's worth of further bytes after the last chunk.
CONSTANTS
  BytesPerChunk = 2
  BitsPerByte = 1
  LengthBytes = 1
  MaxChunks = 5
  Leaves <- MCLeaves
  Inputs <- MCInputs
SPECIFICATION Spec
INVARIANT TypeOK
PROPERTY ImplementsMerkleize
\* merkleize returns: its final states have no successor.
CHECK_DEADLOCK FALSE
