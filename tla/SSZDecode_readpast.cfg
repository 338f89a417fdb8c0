CONSTANTS
  ByteBase = 3
  MaxElems = 2
  MaxSlack = 0
  Nil = Nil
  Types <- StructTypes
  TargetKinds <- PtrTarget
  Tampers = {"truncate"}
SPECIFICATION Spec
INVARIANT ReadsWithinInput
