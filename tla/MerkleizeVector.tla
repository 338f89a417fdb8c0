--------------------------- MODULE MerkleizeVector --------------------------
(***************************************************************************)
(* merkleize(chunks) of the state-root code, step by step: the chunk list *)
(* is padded with zero chunks to a power of two, then each layer is       *)
(* hashed pairwise into the next until one chunk is left.  StateRoot uses *)
(* it for the block roots, state roots and randao mixes vectors, whose    *)
(* root must be the spec's merkleize(chunks, n, n).                        *)
(*                                                                         *)
(* The chunks are Go slices.  A chunk of the argument is a view of the    *)
(* caller's memory mem: its bytes are mem[off+1 .. off+BytesPerChunk] and *)
(* its backing array ends at cell cap.  A chunk merkleize allocates (a    *)
(* padding chunk, a digest) is a fresh value with no spare capacity.      *)
(* append(hashLayer[i], hashLayer[i+1]...) writes in place when the first *)
(* chunk's array has room for the second, as Go's append does.             *)
(***************************************************************************)
EXTENDS Merkle

CONSTANTS
  Leaves,      \* the chunks a vector element can be
  MaxChunks,   \* the longest vector
  Inputs       \* the arguments: records [chunks |-> views, mem |-> bytes]

VARIABLES
  chunks,      \* the argument: a sequence of views of mem
  mem0,        \* the caller's memory at the call (never changed)
  mem,         \* the caller's memory
  hashLayer,   \* the layer being hashed (the padded chunks at first)
  layer,       \* the next layer, built pair by pair
  i,           \* the index of the pair being hashed
  root,        \* the result
  pc           \* "entry", "pad", "layer", "pair", "done" or "panic"

vars == <<chunks, mem0, mem, hashLayer, layer, i, root, pc>>

(* A slice merkleize allocated: make([]byte, 32) or hashedChunk[:].        *)
Fresh(c) == [chunk |-> c]
IsView(x) == "off" \in DOMAIN x

(* The 32 bytes a slice holds in memory m.                                  *)
Read(x, m) == IF IsView(x) THEN Leaf(SubSeq(m, x.off + 1, x.off + BytesPerChunk))
                           ELSE x.chunk

Values(cs, m) == [k \in DOMAIN cs |-> Read(cs[k], m)]

(* Memory m with the bytes bs written after cell at.                       *)
Overwrite(m, at, bs) == [k \in DOMAIN m |-> IF k - at \in DOMAIN bs THEN bs[k - at] ELSE m[k]]

(* append(a, b...): when len(a)+len(b) <= cap(a), b is copied into a's    *)
(* array right after a; otherwise a new array is allocated.               *)
AppendMem(a, b, m) ==
  IF IsView(a) /\ a.off + 2 * BytesPerChunk <= a.cap
    THEN Overwrite(m, a.off + BytesPerChunk, Read(b, m)[2])
    ELSE m

Init ==
  /\ \E in \in Inputs : chunks = in.chunks /\ mem = in.mem
  /\ mem0 = mem
  /\ hashLayer = chunks
  /\ layer = <<>>
  /\ i = 0
  /\ root = ZeroChunk
  /\ pc = "entry"

(* if len(chunks) == 1: copy(root[:], chunks[0]) and return.               *)
Entry ==
  /\ pc = "entry"
  /\ IF Len(chunks) = 1 THEN root' = Read(chunks[1], mem) /\ pc' = "done"
                        ELSE pc' = "pad" /\ UNCHANGED root
  /\ UNCHANGED <<chunks, mem0, mem, hashLayer, layer, i>>

(* Mutant: the padding chunk is allocated with no bytes.                   *)
PadShortChunk ==
  /\ pc = "pad"
  /\ IF ~IsPowerOf2(Len(hashLayer))
       THEN hashLayer' = Append(hashLayer, Fresh(Leaf(<<>>))) /\ pc' = "pad"
       ELSE pc' = "layer" /\ UNCHANGED hashLayer
  /\ UNCHANGED <<chunks, mem0, mem, layer, i, root>>

(* for !isPowerOf2(len(chunks)) { chunks = append(chunks, make(..., 32)) } *)
Pad ==
  /\ pc = "pad"
  /\ IF ~IsPowerOf2(Len(hashLayer))
       THEN hashLayer' = Append(hashLayer, Fresh(ZeroChunk)) /\ pc' = "pad"
       ELSE pc' = "layer" /\ UNCHANGED hashLayer
  /\ UNCHANGED <<chunks, mem0, mem, layer, i, root>>

(* for len(hashLayer) > 1 { layer := [][]byte{}; ... }; then              *)
(* copy(root[:], hashLayer[0]), which panics on an empty layer.            *)
NextLayer ==
  /\ pc = "layer"
  /\ CASE Len(hashLayer) > 1 -> layer' = <<>> /\ i' = 0 /\ pc' = "pair" /\ UNCHANGED root
       [] Len(hashLayer) = 1 -> root' = Read(hashLayer[1], mem) /\ pc' = "done"
                                /\ UNCHANGED <<layer, i>>
       [] OTHER              -> pc' = "panic" /\ UNCHANGED <<root, layer, i>>
  /\ UNCHANGED <<chunks, mem0, mem, hashLayer>>

(* for i := 0; i < len(hashLayer); i += 2: hashedChunk :=                 *)
(* hash(append(hashLayer[i], hashLayer[i+1]...)); layer = append(layer,   *)
(* hashedChunk[:]).  hashLayer[i+1] panics past the end of the layer; at  *)
(* the end of the loop hashLayer = layer.                                  *)
HashPairStep ==
  /\ pc = "pair"
  /\ IF i >= Len(hashLayer)
       THEN hashLayer' = layer /\ pc' = "layer" /\ UNCHANGED <<layer, i, mem>>
       ELSE IF i + 1 >= Len(hashLayer)
       THEN pc' = "panic" /\ UNCHANGED <<hashLayer, layer, i, mem>>
       ELSE LET a == hashLayer[i + 1]  b == hashLayer[i + 2]
            IN  /\ layer' = Append(layer, Fresh(HashPair(Read(a, mem), Read(b, mem))))
                /\ mem' = AppendMem(a, b, mem)
                /\ i' = i + 2
                /\ UNCHANGED <<hashLayer, pc>>
  /\ UNCHANGED <<chunks, mem0, root>>

Next == Entry \/ Pad \/ NextLayer \/ HashPairStep

(* merkleize runs on the caller's goroutine without blocking: once called *)
(* it keeps taking steps.                                                  *)
Spec == Init /\ [][Next]_vars /\ WF_vars(Next)

-----------------------------------------------------------------------------
(* A chunk is 32 bytes: a leaf of BytesPerChunk bytes or a digest.         *)
IsChunk(c) == c[1] = "hash" \/ Len(c[2]) = BytesPerChunk

TypeOK ==
  /\ Len(chunks) <= MaxChunks /\ mem \in [DOMAIN mem0 -> Byte]
  /\ \A k \in DOMAIN hashLayer : IsChunk(Read(hashLayer[k], mem))
  /\ \A k \in DOMAIN layer : IsChunk(Read(layer[k], mem))
  /\ IsChunk(root)
  /\ i \in 0 .. 2 * MaxChunks
  /\ Len(hashLayer) <= 2 * MaxChunks /\ Len(layer) <= MaxChunks
  /\ pc \in {"entry", "pad", "layer", "pair", "done", "panic"}

(* The code implements merkleize's specification: every run of the loops *)
(* of merkleize, seen through the mapping below, is a run of the atomic   *)
(* MerkleizeSpec on the values the caller passed.  It returns (the        *)
(* padding loop stops and no layer index goes past the end), its result   *)
(* is the spec's merkleize(chunks, n, n) of those values whatever slices  *)
(* hold them (spec 8.4), and root is not written before the return.       *)
Abstract == INSTANCE MerkleizeSpec WITH chunks <- Values(chunks, mem0), done <- (pc = "done")

ImplementsMerkleize == Abstract!Spec

(* merkleize leaves the caller's bytes as they were: the in-place writes  *)
(* of append(hashLayer[i], hashLayer[i+1]...) into the caller's arrays     *)
(* change no byte.  A hash of the caller's value must not write it; a     *)
(* write is also a data race with any other reader of those bytes, which  *)
(* spec 5 allows.                                                          *)
CallerBytesUnchanged == mem = mem0

=============================================================================
