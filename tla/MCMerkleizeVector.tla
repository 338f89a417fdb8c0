-------------------------- MODULE MCMerkleizeVector -------------------------
EXTENDS MerkleizeVector

(* The zero chunk and two distinct non-zero chunks of two one-bit bytes.  *)
MCLeaves == {ZeroChunk, Leaf(<<1, 0>>), Leaf(<<0, 1>>)}

(* Every chunk of BytesPerChunk bytes.                                      *)
AllLeaves == {Leaf(bs) : bs \in [1 .. BytesPerChunk -> Byte]}

(* The caller's memory holding the values s one after the other.           *)
Bytes(s) == FlattenSeq([k \in DOMAIN s |-> s[k][2]])

(* Each chunk its own array with no spare capacity: what protobuf          *)
(* unmarshalling or make([]byte, 32) per root gives.                       *)
Separate(s) ==
  [chunks |-> [k \in DOMAIN s |-> [off |-> (k - 1) * BytesPerChunk, cap |-> k * BytesPerChunk]],
   mem |-> Bytes(s)]

(* The chunks cut in order out of one array that holds them and a tail of *)
(* extra bytes of the caller, each with capacity to the array's end: what *)
(* buf[32k:32k+32] over one decoded buffer gives.                          *)
Contiguous(s, extra) ==
  LET m == Bytes(s) \o extra
  IN  [chunks |-> [k \in DOMAIN s |-> [off |-> (k - 1) * BytesPerChunk, cap |-> Len(m)]],
       mem |-> m]

(* Vectors cut in order out of a decoded buffer that holds one more       *)
(* chunk's worth of the caller's bytes after the last chunk.  Where       *)
(* append writes depends on the layout, not on the chunks' bytes, so two  *)
(* leaf values suffice here.                                               *)
TailLeaves == {ZeroChunk, Leaf(<<1, 0>>)}
TailInputs == {Contiguous(s, [k \in 1 .. BytesPerChunk |-> 1]) : s \in BoundedSeq(TailLeaves, MaxChunks)}

(* merkleize_vector: vectors of up to MaxChunks chunks, in separate arrays *)
(* or cut in order out of one array, with or without bytes after them.    *)
MCInputs == {Separate(s) : s \in BoundedSeq(MCLeaves, MaxChunks)}
              \cup {Contiguous(s, <<>>) : s \in BoundedSeq(MCLeaves, MaxChunks)}
              \cup TailInputs

(* merkleize_alias: any chunks cut out of a MemCells-byte array, in any    *)
(* order, each with any capacity inside the array.                         *)
MemCells == 3
AliasInputs ==
  {[chunks |-> cs, mem |-> m] :
     cs \in BoundedSeq({v \in [off : 0 .. MemCells, cap : 0 .. MemCells] :
                          v.off + BytesPerChunk <= v.cap}, MaxChunks),
     m  \in [1 .. MemCells -> Byte]}
=============================================================================
