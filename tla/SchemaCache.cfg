\* Three goroutines, each decoding into one of four types that share element
\* types, one of them unsupported and one recursive.
CONSTANTS
  Threads = {g1, g2, g3}
  Types <- MCTypes
  Schema <- MCSchema
  Targets <- MCTargets
SPECIFICATION Spec
INVARIANT TypeOK
INVARIANT SharedDescriptor
INVARIANT ResultIsClassification
PROPERTY AllLookupsReturn
\* Every goroutine's Decode call ends; the final states have no successor.
CHECK_DEADLOCK FALSE
