---------------------------- MODULE MerkleizeSpec ----------------------------
(***************************************************************************)
(* What merkleize(chunks) promises, as one atomic step: it returns the    *)
(* spec's merkleize(chunks, n, n) of its n chunks (spec 4.4), and it       *)
(* returns.  MerkleizeVector, the loop-by-loop model of the code, is      *)
(* checked to implement this specification.                               *)
(***************************************************************************)
EXTENDS Merkle

CONSTANTS Leaves, MaxChunks

VARIABLES
  chunks,   \* the argument
  root,     \* the result, meaningful once done
  done      \* merkleize has returned

vars == <<chunks, root, done>>

Init ==
  /\ chunks \in BoundedSeq(Leaves, MaxChunks)
  /\ root = ZeroChunk
  /\ done = FALSE

Return ==
  /\ ~done
  /\ root' = SpecMerkleize(chunks, Len(chunks), Len(chunks))
  /\ done' = TRUE
  /\ UNCHANGED chunks

Spec == Init /\ [][Return]_vars /\ WF_vars(Return)
=============================================================================
