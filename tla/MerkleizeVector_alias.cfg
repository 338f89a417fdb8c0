\* Up to 3 one-byte chunks cut in any order out of a 3-byte array, each
\* with any capacity inside it.
CONSTANTS
  BytesPerChunk = 1
  BitsPerByte = 1
  LengthBytes = 1
  MaxChunks = 3
  Leaves <- AllLeaves
  Inputs <- AliasInputs
SPECIFICATION Spec
PROPERTY ImplementsMerkleize
CHECK_DEADLOCK FALSE
