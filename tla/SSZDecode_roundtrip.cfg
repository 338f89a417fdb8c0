\* Every supported type, any val argument, and messages that may be cut,
\* extended or corrupted between the good ones.
CONSTANTS
  ByteBase = 3
  MaxElems = 2
  MaxSlack = 1
  Nil = Nil
  Types <- SupportedTypes
  TargetKinds <- AllTargetKinds
  Tampers = {"truncate", "extend", "corrupt"}
SPECIFICATION Spec
INVARIANT TypeOK
INVARIANT RoundTrip
\* A Go panic ends the program: the crashed state has no successor.
CHECK_DEADLOCK FALSE
