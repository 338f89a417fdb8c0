\* Vectors of up to 5 chunks cut in order out of one array that holds two
\* more bytes of the caller after the last chunk.
CONSTANTS
  BytesPerChunk = 2
  BitsPerByte = 1
  LengthBytes = 1
  MaxChunks = 5
  Leaves <- MCLeaves
  Inputs <- TailInputs
SPECIFICATION Spec
INVARIANT CallerBytesUnchanged
CHECK_DEADLOCK FALSE
