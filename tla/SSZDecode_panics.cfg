\* An int32, a []uint16, a uint8 and a bool decoded into a pointer target;
\* encodings may get an extra byte or lose their last one.  TLC reports the
\* int32 panic, the shortest trace.  With Types <- SliceTypes it reports an
\* odd-length []uint16, with Types <- EmptyInputTypes an empty input to
\* decodeBool.
CONSTANTS
  ByteBase = 3
  MaxElems = 2
  MaxSlack = 0
  Nil = Nil
  Types <- PanicTypes
  TargetKinds <- PtrTarget
  Tampers = {"extend", "truncate"}
SPECIFICATION Spec
INVARIANT NeverPanics
