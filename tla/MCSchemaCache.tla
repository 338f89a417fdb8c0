---------------------------- MODULE MCSchemaCache ----------------------------
EXTENDS SchemaCache

(* A uint64; a []uint64; a struct {A uint64; B []uint64}; a struct with a  *)
(* map field, which makeDecoder refuses; and a linked node                 *)
(* type Node struct { Next *Node }, which reaches itself.                  *)
MCTypes == {"U64", "Slice", "Pair", "Map", "Bad", "Node", "PNode"}

MCSchema ==
  [t \in MCTypes |->
     CASE t = "U64"   -> [k |-> "basic"]
       [] t = "Slice" -> [k |-> "slice", elem |-> "U64"]
       [] t = "Pair"  -> [k |-> "struct", fields |-> <<"U64", "Slice">>]
       [] t = "Map"   -> [k |-> "other"]
       [] t = "Bad"   -> [k |-> "struct", fields |-> <<"U64", "Map">>]
       [] t = "Node"  -> [k |-> "struct", fields |-> <<"PNode">>]
       [] t = "PNode" -> [k |-> "ptr", elem |-> "Node"]]

MCTargets == {"Pair", "Slice", "Bad", "Node"}
=============================================================================
