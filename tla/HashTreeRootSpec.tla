--------------------------- MODULE HashTreeRootSpec --------------------------
(***************************************************************************)
(* The per-kind hashing rules of spec 4.4, the reference the state-root   *)
(* code is checked against.  A schema is a record whose field k names its *)
(* SSZ kind.  A value is a number (Uint64), a Boolean, a sequence of bytes *)
(* (ByteVector), a sequence of elements (Vector, List), a sequence of bits *)
(* (Bitlist) or a record with the container's field names.                *)
(***************************************************************************)
EXTENDS Merkle

UintT              == [k |-> "uint64"]
BoolT              == [k |-> "bool"]
ByteVectorT(n)     == [k |-> "bytevec", n |-> n]
VectorT(t, n)      == [k |-> "vector", elem |-> t, n |-> n]
ListT(t, max)      == [k |-> "list", elem |-> t, max |-> max]
BitlistT(max)      == [k |-> "bitlist", max |-> max]
ContainerT(ns, ts) == [k |-> "container", names |-> ns, types |-> ts]

(* Basic elements are packed; every other element contributes its root.   *)
IsBasicT(t) == t.k \in {"uint64", "bool"}

(* The serialization of a basic value, and its size.                       *)
SerBasic(t, v) == IF t.k = "bool" THEN <<IF v THEN 1 ELSE 0>> ELSE PutUint64LE(v, LengthBytes)
SizeT(t) == IF t.k = "bool" THEN 1 ELSE LengthBytes

(* The bits of a bitlist, BitsPerByte to a byte, least significant first, *)
(* without the terminator bit.                                             *)
BitsAsBytes(bits) ==
  [j \in 1 .. CeilDiv(Len(bits), BitsPerByte) |->
     LET pos(b) == (j - 1) * BitsPerByte + b + 1
         set    == {b \in 0 .. BitsPerByte - 1 : pos(b) <= Len(bits)}
     IN  SumFunctionOnSet([b \in set |-> bits[pos(b)] * 2 ^ b], set)]

(* mix_in_length(root, n): n as 8 little-endian bytes padded to a chunk.   *)
SpecMixInLength(root, n) == Hash(<<root, Leaf(PutUint64LE(n, LengthBytes) \o Zeros(BytesPerChunk - LengthBytes))>>)

(* merkleize over pack(bytes): the count is the number of chunks the bytes *)
(* fill, 0 for no bytes.                                                    *)
PackedRoot(bytes, limit) ==
  SpecMerkleize(SpecPack(<<bytes>>), CeilDiv(Len(bytes), BytesPerChunk), limit)

RECURSIVE SpecHTR(_, _)
SpecHTR(t, v) ==
  CASE IsBasicT(t)     -> PackedRoot(SerBasic(t, v), 1)
    [] t.k = "bytevec" -> PackedRoot(v, CeilDiv(t.n, BytesPerChunk))
    [] t.k = "vector" /\ IsBasicT(t.elem) ->
         PackedRoot(FlattenSeq([i \in DOMAIN v |-> SerBasic(t.elem, v[i])]),
                    CeilDiv(t.n * SizeT(t.elem), BytesPerChunk))
    [] t.k = "vector"  -> SpecMerkleize([i \in DOMAIN v |-> SpecHTR(t.elem, v[i])], Len(v), t.n)
    [] t.k = "list" /\ IsBasicT(t.elem) ->
         SpecMixInLength(PackedRoot(FlattenSeq([i \in DOMAIN v |-> SerBasic(t.elem, v[i])]),
                                    CeilDiv(t.max * SizeT(t.elem), BytesPerChunk)),
                         Len(v))
    [] t.k = "list"    -> SpecMixInLength(SpecMerkleize([i \in DOMAIN v |-> SpecHTR(t.elem, v[i])],
                                                         Len(v), t.max), Len(v))
    [] t.k = "bitlist" -> SpecMixInLength(PackedRoot(BitsAsBytes(v), CeilDiv(t.max, BitsPerChunk)),
                                          Len(v))
    [] t.k = "container" ->
         SpecMerkleize([i \in DOMAIN t.names |-> SpecHTR(t.types[i], v[t.names[i]])],
                       Len(t.names), Len(t.names))

(* A value of the schema: vectors and byte vectors of their length, lists *)
(* and bitlists within their limit.  hash_tree_root fails (OverLimit) or  *)
(* is undefined on anything else.                                          *)
RECURSIVE Valid(_, _)
Valid(t, v) ==
  CASE IsBasicT(t)     -> TRUE
    [] t.k = "bytevec" -> Len(v) = t.n
    [] t.k = "vector"  -> Len(v) = t.n /\ \A i \in DOMAIN v : Valid(t.elem, v[i])
    [] t.k = "list"    -> Len(v) <= t.max /\ \A i \in DOMAIN v : Valid(t.elem, v[i])
    [] t.k = "bitlist" -> Len(v) <= t.max
    [] t.k = "container" -> \A i \in DOMAIN t.names : Valid(t.types[i], v[t.names[i]])

=============================================================================
