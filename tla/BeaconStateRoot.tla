--------------------------- MODULE BeaconStateRoot ---------------------------
(***************************************************************************)
(* StateRoot(state) of the hash-tree-root code and the per-container     *)
(* roots it calls: each field of the beacon state is turned into a chunk  *)
(* (a padded integer, a raw 32-byte root, a container root, a vector     *)
(* merkleized with merkleize, a list merkleized with bitwiseMerkleize    *)
(* against its limit and mixed with its length), and the 20 field chunks  *)
(* are merkleized.  Every error of bitwiseMerkleize, and an index past   *)
(* the end of the slashings, is a Go panic, which ends the program.       *)
(*                                                                         *)
(* The literals of the code are constants here: the widths of versions,   *)
(* keys and signatures, and the list limits StateRoot passes.  Values use  *)
(* the names of the protobuf fields.                                       *)
(***************************************************************************)
EXTENDS HashTreeRootSpec

CONSTANTS
  VersionBytes,               \* 4
  PubkeyBytes,                \* 48
  SignatureBytes,             \* 96
  SlotsPerHistoricalRoot,     \* length of block and state roots (8192)
  EpochsPerHistoricalVector,  \* length of randao mixes (65536)
  EpochsPerSlashingsVector,   \* 8192, the slashings the code packs
  HistoricalRootsLimit,       \* 16777216
  Eth1VotesLimit,             \* 1024
  ValidatorRegistryLimit,     \* 1099511627776, for validators and balances
  AttestationsLimit,          \* 4096
  MaxValidatorsPerCommittee   \* 2048, the bitlist capacity of an attestation

VARIABLES
  state,   \* the *pb.BeaconState argument
  trim,    \* whether go-bitfield's Bytes() trims trailing zero bytes
  root     \* NoRoot before the call, then its result or Panicked

vars == <<state, trim, root>>

NoRoot   == <<"none">>
Panicked == <<"panic">>

-----------------------------------------------------------------------------
(* binary.LittleEndian.PutUint64 into an 8-byte buffer.                    *)
PutUint64(x) == PutUint64LE(x, LengthBytes)

(* bytesutil.ToBytes32: the bytes copied into a zeroed 32-byte array.      *)
ToBytes32(bs) ==
  Leaf(IF Len(bs) >= BytesPerChunk THEN SubSeq(bs, 1, BytesPerChunk)
       ELSE bs \o Zeros(BytesPerChunk - Len(bs)))

(* Mutant: the 8-byte buffer used as the field chunk without padding.      *)
Uint64RootUnpadded(x) == Leaf(PutUint64(x))

(* A uint64 field: PutUint64 into buf, then ToBytes32(buf).                *)
Uint64Root(x) == ToBytes32(PutUint64(x))

(* `if err != nil { panic(err) }` after bitwiseMerkleize.                  *)
Must(r) == IF r.ok THEN r.root ELSE Panicked

(* A panic while computing any of the chunks ends the call.                *)
Panics(rs) == \E i \in DOMAIN rs : rs[i] = Panicked

(* bitwiseMerkleize(fieldRoots, len(fieldRoots), len(fieldRoots)), the    *)
(* last step of every container root.                                      *)
FieldsRoot(rs) == IF Panics(rs) THEN Panicked ELSE Must(BitwiseMerkleize(rs, Len(rs), Len(rs)))

(* pack([][]byte{bytes}) merkleized with its own chunk count as limit.     *)
PackRoot(bs) == LET cs == Pack(<<bs>>) IN Must(BitwiseMerkleize(cs, Len(cs), Len(cs)))

(* A list of roots in StateRoot: bitwiseMerkleize against the limit, then  *)
(* mixInLength with the length in a zeroed 32-byte buffer.                 *)
ListRoot(rs, limit) ==
  IF Panics(rs) THEN Panicked
  ELSE LET r == BitwiseMerkleize(rs, Len(rs), limit)
       IN  IF r.ok THEN MixInLength(r.root, LengthChunk(Len(rs))) ELSE Panicked

CheckpointRoot(c) == FieldsRoot(<<Uint64Root(c.epoch), Leaf(c.root)>>)

ForkRoot(f) ==
  FieldsRoot(<<ToBytes32(f.previousVersion), ToBytes32(f.currentVersion), Uint64Root(f.epoch)>>)

Eth1Root(e) == FieldsRoot(<<Leaf(e.depositRoot), Uint64Root(e.depositCount), Leaf(e.blockHash)>>)

BlockHeaderRoot(h) ==
  FieldsRoot(<<Uint64Root(h.slot), Leaf(h.parentRoot), Leaf(h.stateRoot), Leaf(h.bodyRoot),
               PackRoot(h.signature)>>)

AttestationDataRoot(d) ==
  FieldsRoot(<<Uint64Root(d.slot), Uint64Root(d.index), Leaf(d.beaconBlockRoot),
               CheckpointRoot(d.source), CheckpointRoot(d.target)>>)

ValidatorRoot(v) ==
  FieldsRoot(<<PackRoot(v.publicKey), Leaf(v.withdrawalCredentials), Uint64Root(v.effectiveBalance),
               ToBytes32(<<IF v.slashed THEN 1 ELSE 0>>), Uint64Root(v.activationEligibilityEpoch),
               Uint64Root(v.activationEpoch), Uint64Root(v.exitEpoch), Uint64Root(v.withdrawableEpoch)>>)

(* go-bitfield's Bitlist.Bytes(): the bits without the length bit, packed  *)
(* BitsPerByte to a byte; when trim holds, trailing zero bytes removed.    *)
RECURSIVE TrimZeros(_)
TrimZeros(bs) == IF bs # <<>> /\ Last(bs) = 0 THEN TrimZeros(Front(bs)) ELSE bs

BitfieldBytes(bits, tr) == IF tr THEN TrimZeros(BitsAsBytes(bits)) ELSE BitsAsBytes(bits)

(* Mutant: the byte count of the bitfield mixed in as its length.         *)
BitlistRootByteLength(bits, max, tr) ==
  LET limit == (max + BitsPerChunk - 1) \div BitsPerChunk
      cs    == Pack(<<BitfieldBytes(bits, tr)>>)
      r     == BitwiseMerkleize(cs, Len(cs), limit)
  IN  IF Len(bits) = 0
        THEN LET r0 == BitwiseMerkleize(<<>>, 0, limit)
             IN  [ok |-> r0.ok, root |-> MixInLength(r0.root, Zeros(BytesPerChunk))]
        ELSE [ok |-> r.ok, root |-> MixInLength(r.root, LengthChunk(Len(BitfieldBytes(bits, tr))))]

(* bitlistRoot(bfield, maxCapacity): an empty bitfield is the zero root of *)
(* the limit mixed with a zero length; otherwise pack(bfield.Bytes())     *)
(* merkleized against (maxCapacity+255)/256 and mixed with bfield.Len().  *)
BitlistRoot(bits, max, tr) ==
  LET limit == (max + BitsPerChunk - 1) \div BitsPerChunk
      cs    == Pack(<<BitfieldBytes(bits, tr)>>)
      r     == BitwiseMerkleize(cs, Len(cs), limit)
  IN  IF Len(bits) = 0
        THEN LET r0 == BitwiseMerkleize(<<>>, 0, limit)
             IN  [ok |-> r0.ok, root |-> MixInLength(r0.root, Zeros(BytesPerChunk))]
        ELSE [ok |-> r.ok, root |-> MixInLength(r.root, LengthChunk(Len(bits)))]

PendingAttestationRoot(a, tr) ==
  FieldsRoot(<<Must(BitlistRoot(a.aggregationBits, MaxValidatorsPerCommittee, tr)),
               AttestationDataRoot(a.data), Uint64Root(a.inclusionDelay), Uint64Root(a.proposerIndex)>>)

(* balLimit: (maxBalCap*elemSize+31)/32, or the list length when that is 0.*)
BalancesLimit(n) ==
  LET l == (ValidatorRegistryLimit * LengthBytes + BytesPerChunk - 1) \div BytesPerChunk
  IN  IF l # 0 THEN l ELSE IF n = 0 THEN 1 ELSE n

(* The balances: each PutUint64'd, packed, merkleized against balLimit,   *)
(* mixed with the number of balances.                                      *)
BalancesRoot(bals) ==
  LET cs == Pack([i \in DOMAIN bals |-> PutUint64(bals[i])])
      r  == BitwiseMerkleize(cs, Len(cs), BalancesLimit(Len(bals)))
  IN  IF r.ok THEN MixInLength(r.root, LengthChunk(Len(bals))) ELSE Panicked

(* The slashings: state.Slashings[i] for i < 8192, whatever its length,   *)
(* packed and merkleized with their chunk count as limit.                  *)
SlashingsRoot(sl) ==
  IF Len(sl) < EpochsPerSlashingsVector THEN Panicked
  ELSE LET cs == Pack([i \in 1 .. EpochsPerSlashingsVector |-> PutUint64(sl[i])])
       IN  Must(BitwiseMerkleize(cs, Len(cs), Len(cs)))

StateRoot(s, tr) ==
  LET Roots(xs)  == [i \in DOMAIN xs |-> Leaf(xs[i])]
      Each(F(_), xs) == [i \in DOMAIN xs |-> F(xs[i])]
      PendingRoot(a) == PendingAttestationRoot(a, tr)
  IN  FieldsRoot(<<
        Uint64Root(s.genesisTime), Uint64Root(s.slot), ForkRoot(s.fork),
        BlockHeaderRoot(s.latestBlockHeader),
        Merkleize(Roots(s.blockRoots)), Merkleize(Roots(s.stateRoots)),
        ListRoot(Roots(s.historicalRoots), HistoricalRootsLimit),
        Eth1Root(s.eth1Data), ListRoot(Each(Eth1Root, s.eth1DataVotes), Eth1VotesLimit),
        Uint64Root(s.eth1DepositIndex),
        ListRoot(Each(ValidatorRoot, s.validators), ValidatorRegistryLimit),
        BalancesRoot(s.balances), Merkleize(Roots(s.randaoMixes)), SlashingsRoot(s.slashings),
        ListRoot(Each(PendingRoot, s.previousEpochAttestations), AttestationsLimit),
        ListRoot(Each(PendingRoot, s.currentEpochAttestations), AttestationsLimit),
        ToBytes32(s.justificationBits), CheckpointRoot(s.previousJustifiedCheckpoint),
        CheckpointRoot(s.currentJustifiedCheckpoint), CheckpointRoot(s.finalizedCheckpoint) >>)

-----------------------------------------------------------------------------
(* The schema of the beacon state, in the order of StateRoot's fields.    *)
RootT == ByteVectorT(BytesPerChunk)

CheckpointT == ContainerT(<<"epoch", "root">>, <<UintT, RootT>>)
ForkT == ContainerT(<<"previousVersion", "currentVersion", "epoch">>,
                    <<ByteVectorT(VersionBytes), ByteVectorT(VersionBytes), UintT>>)
Eth1DataT == ContainerT(<<"depositRoot", "depositCount", "blockHash">>, <<RootT, UintT, RootT>>)
BlockHeaderT == ContainerT(<<"slot", "parentRoot", "stateRoot", "bodyRoot", "signature">>,
                           <<UintT, RootT, RootT, RootT, ByteVectorT(SignatureBytes)>>)
AttestationDataT == ContainerT(<<"slot", "index", "beaconBlockRoot", "source", "target">>,
                               <<UintT, UintT, RootT, CheckpointT, CheckpointT>>)
PendingAttestationT ==
  ContainerT(<<"aggregationBits", "data", "inclusionDelay", "proposerIndex">>,
             <<BitlistT(MaxValidatorsPerCommittee), AttestationDataT, UintT, UintT>>)
ValidatorT ==
  ContainerT(<<"publicKey", "withdrawalCredentials", "effectiveBalance", "slashed",
               "activationEligibilityEpoch", "activationEpoch", "exitEpoch", "withdrawableEpoch">>,
             <<ByteVectorT(PubkeyBytes), RootT, UintT, BoolT, UintT, UintT, UintT, UintT>>)

(* justificationBits is a Bitvector(4), one serialized byte: packed and   *)
(* limited (ceil(4/256) = 1) as a one-byte vector is.                      *)
BeaconStateT ==
  ContainerT(
    <<"genesisTime", "slot", "fork", "latestBlockHeader", "blockRoots", "stateRoots",
      "historicalRoots", "eth1Data", "eth1DataVotes", "eth1DepositIndex", "validators",
      "balances", "randaoMixes", "slashings", "previousEpochAttestations",
      "currentEpochAttestations", "justificationBits", "previousJustifiedCheckpoint",
      "currentJustifiedCheckpoint", "finalizedCheckpoint">>,
    <<UintT, UintT, ForkT, BlockHeaderT, VectorT(RootT, SlotsPerHistoricalRoot),
      VectorT(RootT, SlotsPerHistoricalRoot), ListT(RootT, HistoricalRootsLimit), Eth1DataT,
      ListT(Eth1DataT, Eth1VotesLimit), UintT, ListT(ValidatorT, ValidatorRegistryLimit),
      ListT(UintT, ValidatorRegistryLimit), VectorT(RootT, EpochsPerHistoricalVector),
      VectorT(UintT, EpochsPerSlashingsVector), ListT(PendingAttestationT, AttestationsLimit),
      ListT(PendingAttestationT, AttestationsLimit), ByteVectorT(1), CheckpointT,
      CheckpointT, CheckpointT>>)

-----------------------------------------------------------------------------
(* The caller: a beacon state, then one call of StateRoot.                 *)
CONSTANT States   \* the beacon states the caller holds

Init ==
  /\ state \in States
  /\ trim \in BOOLEAN
  /\ root = NoRoot

CallStateRoot ==
  /\ root = NoRoot
  /\ root' = StateRoot(state, trim)
  /\ UNCHANGED <<state, trim>>

Next == CallStateRoot

Spec == Init /\ [][Next]_vars

-----------------------------------------------------------------------------
(* A chunk tree: a leaf of BytesPerChunk bytes or the digest of chunks.   *)
RECURSIVE IsChunkTree(_)
IsChunkTree(c) ==
  \/ c[1] = "leaf" /\ Len(c[2]) = BytesPerChunk
  \/ c[1] = "hash" /\ \A i \in DOMAIN c[2] : IsChunkTree(c[2][i])

(* Every digest the code computes is over 32-byte chunks: each field     *)
(* chunk is padded to 32 bytes before it is hashed (or the call panics).  *)
TypeOK ==
  /\ trim \in BOOLEAN
  /\ root \in {NoRoot, Panicked} \/ IsChunkTree(root)

(* The root StateRoot returns for a beacon state whose vectors have their *)
(* lengths and whose lists and bitlists are within their limits is the   *)
(* spec's hash_tree_root of the state, whichever way go-bitfield packs a  *)
(* bitlist's bytes.                                                        *)
StateRootIsSpec ==
  root # NoRoot /\ Valid(BeaconStateT, state) => root = SpecHTR(BeaconStateT, state)

(* A state with a list of the beacon state over its limit gets no root:   *)
(* bitwiseMerkleize's over-limit error reaches StateRoot's panic, as the  *)
(* spec's HashError(OverLimit).                                            *)
ListOverLimit ==
  \E i \in DOMAIN BeaconStateT.names :
     BeaconStateT.types[i].k = "list" /\ Len(state[BeaconStateT.names[i]]) > BeaconStateT.types[i].max

OverLimitPanics == root # NoRoot /\ ListOverLimit => root = Panicked

(* StateRoot gives a root only to a beacon state that is a value of the   *)
(* schema.  Spec 8.4: the root depends only on the semantic value, so a    *)
(* state that is no value (a vector of another length, a root that is not *)
(* 32 bytes) must not get a root, let alone the root of a value.  The     *)
(* slashings loop reads 8192 entries whatever the slice holds, merkleize   *)
(* pads a short vector, and raw root fields are hashed as they are.        *)
RootOnlyForValues == root \notin {NoRoot, Panicked} => Valid(BeaconStateT, state)

=============================================================================
