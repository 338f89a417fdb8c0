\* A **uint16 and a list of 4-byte structs decoded into a pointer target,
\* untouched.  TLC reports the trace it meets first; with Types <- PtrTypes
\* it reports the nil pointer, with Types <- CompositeTypes the list.
CONSTANTS
  ByteBase = 3
  MaxElems = 2
  MaxSlack = 0
  Nil = Nil
  Types <- LostTypes
  TargetKinds <- PtrTarget
  Tampers = {}
SPECIFICATION Spec
INVARIANT RoundTrip
