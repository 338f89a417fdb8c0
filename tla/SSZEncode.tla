------------------------------ MODULE SSZEncode -----------------------------
(***************************************************************************)
(* The SSZ encoder for the fixed-size part of the type universe: booleans, *)
(* little-endian unsigned integers, byte collections, collections of basic *)
(* elements, structs of such fields and one level of pointer.  The         *)
(* encoder's source is not among the files modelled here; its definitions *)
(* follow the wire layout of spec section 4.2.                             *)
(***************************************************************************)
EXTENDS SSZTypes

(* The w low-order little-endian bytes of x.                               *)
LEBytes(x, w) == [i \in 1 .. w |-> (x \div (ByteBase ^ (i - 1))) % ByteBase]

(* encode(value, schema): an encoding is a sequence of bytes.  A nil       *)
(* pointer has no encoding (EncodeError NilReference) and is never encoded *)
(* by a caller in this model.                                              *)
RECURSIVE Enc(_, _)
Enc(t, v) ==
  CASE t.k = "bool"    -> <<IF v THEN 1 ELSE 0>>
    [] IsBasic(t)      -> LEBytes(v, BasicElementSize(t))
    [] IsByteSeq(t)    -> v
    [] t.k \in {"slice", "array"} ->
                          FlattenSeq([i \in DOMAIN v |-> Enc(t.elem, v[i])])
    [] t.k = "struct"  -> FlattenSeq([i \in DOMAIN v |-> Enc(t.fields[i], v[i])])
    [] t.k = "ptr"     -> Enc(t.elem, v[1])

=============================================================================
