\* Every supported type; encodings reach the decoder whole or with one byte
\* overwritten.
CONSTANTS
  ByteBase = 3
  MaxElems = 2
  MaxSlack = 1
  Nil = Nil
  Types <- SupportedTypes
  TargetKinds <- PtrTarget
  Tampers = {"corrupt"}
SPECIFICATION Spec
INVARIANT AcceptsOnlyEncodings
INVARIANT NeverPanics
