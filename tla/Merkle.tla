------------------------------- MODULE Merkle -------------------------------
(***************************************************************************)
(* The chunk and hash primitives of the hash-tree-root code, and the      *)
(* reference Merkleization of spec section 4.4 they are checked against.  *)
(*                                                                         *)
(* A chunk is either <<"leaf", bytes>>, a run of raw bytes, or             *)
(* <<"hash", cs>>, the SHA-256 digest of the concatenation of the chunks  *)
(* cs.  Digests are compared structurally, so the hash is injective: the  *)
(* model assumes no SHA-256 collision and nothing else about it.  A byte  *)
(* holds BitsPerByte bits (8 in the program); a chunk holds BytesPerChunk *)
(* bytes (32 in the program).                                              *)
(***************************************************************************)
EXTENDS Naturals, Sequences, SequencesExt, Bitwise

CONSTANTS
  BytesPerChunk,   \* BytesPerChunk = 32
  BitsPerByte,     \* 8
  LengthBytes      \* the width of the uint64 binary.Write puts in a length chunk

ASSUME BytesPerChunk \in Nat \ {0} /\ BitsPerByte \in Nat \ {0}
ASSUME LengthBytes \in 1 .. BytesPerChunk

ByteBase == 2 ^ BitsPerByte
Byte == 0 .. ByteBase - 1
BitsPerChunk == BitsPerByte * BytesPerChunk   \* 256 in bitlistRoot

Leaf(bytes) == <<"leaf", bytes>>
Hash(cs) == <<"hash", cs>>

Zeros(n) == [i \in 1 .. n |-> 0]
ZeroChunk == Leaf(Zeros(BytesPerChunk))

(* The w low-order little-endian bytes of x.                               *)
PutUint64LE(x, w) == [i \in 1 .. w |-> (x \div (ByteBase ^ (i - 1))) % ByteBase]

CeilDiv(x, y) == (x + y - 1) \div y

-----------------------------------------------------------------------------
(* The reference definitions of spec 4.4.                                  *)

(* next_pow2(n): the smallest power of two >= n; next_pow2(0) = 1.         *)
RECURSIVE NextPow2(_)
NextPow2(n) == IF n <= 1 THEN 1 ELSE 2 * NextPow2(CeilDiv(n, 2))

(* The root of a power-of-two row of chunks, hashed pairwise bottom-up.   *)
RECURSIVE TreeRoot(_)
TreeRoot(row) ==
  IF Len(row) = 1 THEN row[1]
  ELSE LET h == Len(row) \div 2
       IN  Hash(<<TreeRoot(SubSeq(row, 1, h)), TreeRoot(SubSeq(row, h + 1, Len(row)))>>)

(* merkleize(chunks, count, limit) of the spec: next_pow2(limit) leaves,  *)
(* the first count of them the chunks and the rest zero chunks.            *)
SpecMerkleize(chunks, count, limit) ==
  TreeRoot([i \in 1 .. NextPow2(limit) |-> IF i <= count THEN chunks[i] ELSE ZeroChunk])

(* pack(items) of the spec: the concatenated bytes cut into chunks, the    *)
(* last right-padded with zeros; no bytes at all give one zero chunk.     *)
SpecPack(items) ==
  LET bytes == FlattenSeq(items)
      n     == Max({1, CeilDiv(Len(bytes), BytesPerChunk)})
      padded == bytes \o Zeros(n * BytesPerChunk - Len(bytes))
  IN  [k \in 1 .. n |-> Leaf(SubSeq(padded, (k - 1) * BytesPerChunk + 1, k * BytesPerChunk))]

-----------------------------------------------------------------------------
(* The code's primitives.                                                  *)

(* Mutant: a parity test in place of the power-of-two test.               *)
IsEvenOrOne(n) == n = 1 \/ n % 2 = 0

(* isPowerOf2                                                              *)
IsPowerOf2(n) == n # 0 /\ (n & (n - 1)) = 0

(* hash(append(a, b...)): the digest of two chunks.                        *)
HashPair(a, b) == Hash(<<a, b>>)

(* mixInLength(root, length): sha256 of root followed by the length buffer.*)
MixInLength(root, length) == Hash(<<root, Leaf(length)>>)

(* binary.Write of a uint64 length, copied into a zeroed 32-byte buffer.   *)
LengthChunk(n) == PutUint64LE(n, LengthBytes) \o Zeros(BytesPerChunk - LengthBytes)

(***************************************************************************)
(* pack(serializedItems): one zero chunk if there are no items or all are *)
(* empty; the items themselves if the first is exactly one chunk long;    *)
(* otherwise the flattened bytes cut into chunks, the last zero-padded.   *)
(***************************************************************************)
Pack(items) ==
  IF Len(items) = 0 \/ \A i \in DOMAIN items : items[i] = <<>> THEN <<ZeroChunk>>
  ELSE IF Len(items[1]) = BytesPerChunk THEN [i \in DOMAIN items |-> Leaf(items[i])]
  ELSE LET ordered == FlattenSeq(items)
           num     == Len(ordered)
           cut(k)  == SubSeq(ordered, (k - 1) * BytesPerChunk + 1,
                                      Min({k * BytesPerChunk, num}))
           nChunks == CeilDiv(num, BytesPerChunk)
       IN  [k \in 1 .. nChunks |->
              IF k < nChunks THEN Leaf(cut(k))
              ELSE Leaf(cut(k) \o Zeros(BytesPerChunk - Len(cut(k))))]

(***************************************************************************)
(* merkle.Merkleize(hasher, count, limit, leaf), the zssz routine          *)
(* bitwiseMerkleize calls, as spec 9 describes it: a subtree of depth d   *)
(* holding no leaf below count is the zero-hash Z[d] and is not hashed.   *)
(***************************************************************************)
RECURSIVE ZeroHash(_)
ZeroHash(d) == IF d = 0 THEN ZeroChunk ELSE HashPair(ZeroHash(d - 1), ZeroHash(d - 1))

RECURSIVE Depth(_)
Depth(n) == IF n <= 1 THEN 0 ELSE 1 + Depth(CeilDiv(n, 2))

RECURSIVE SubtreeRoot(_, _, _, _)
SubtreeRoot(chunks, count, d, idx) ==
  IF idx * 2 ^ d >= count THEN ZeroHash(d)
  ELSE IF d = 0 THEN chunks[idx + 1]
  ELSE HashPair(SubtreeRoot(chunks, count, d - 1, 2 * idx),
                SubtreeRoot(chunks, count, d - 1, 2 * idx + 1))

(* Mutant: the over-limit check dropped.                                    *)
BitwiseMerkleizeUnchecked(chunks, count, limit) ==
  [ok |-> TRUE, root |-> SubtreeRoot(chunks, count, Depth(limit), 0)]

(* bitwiseMerkleize: refuses count > limit, else merkle.Merkleize.         *)
BitwiseMerkleize(chunks, count, limit) ==
  IF count > limit THEN [ok |-> FALSE, root |-> ZeroChunk]
  ELSE [ok |-> TRUE, root |-> SubtreeRoot(chunks, count, Depth(limit), 0)]

(***************************************************************************)
(* merkleize(chunks) as a function, for the state-root driver: zero       *)
(* chunks appended until the count is a power of two, then each layer     *)
(* hashed pairwise until one chunk is left.  MerkleizeVector checks the   *)
(* loop-by-loop form of the same code.                                     *)
(***************************************************************************)
RECURSIVE PadToPow2(_)
PadToPow2(cs) == IF IsPowerOf2(Len(cs)) THEN cs ELSE PadToPow2(Append(cs, ZeroChunk))

RECURSIVE HashLayers(_)
HashLayers(layer) ==
  IF Len(layer) = 1 THEN layer[1]
  ELSE HashLayers([k \in 1 .. Len(layer) \div 2 |-> HashPair(layer[2 * k - 1], layer[2 * k])])

Merkleize(chunks) == IF Len(chunks) = 1 THEN chunks[1] ELSE HashLayers(PadToPow2(chunks))

=============================================================================
