\* Chunks of 8 bytes of 3 bits, 2-byte integers; limits scaled so that each
\* list can be full and one over: a full list of balances fills 2 chunks.
CONSTANTS
  BytesPerChunk = 8
  BitsPerByte = 3
  LengthBytes = 2
  VersionBytes = 1
  PubkeyBytes = 12
  SignatureBytes = 24
  SlotsPerHistoricalRoot = 2
  EpochsPerHistoricalVector = 3
  EpochsPerSlashingsVector = 8
  HistoricalRootsLimit = 2
  Eth1VotesLimit = 2
  ValidatorRegistryLimit = 8
  AttestationsLimit = 2
  MaxValidatorsPerCommittee = 48
  States <- MCStates
SPECIFICATION Spec
INVARIANT TypeOK
INVARIANT StateRootIsSpec
INVARIANT OverLimitPanics
\* StateRoot returns: the state after the call has no successor.
CHECK_DEADLOCK FALSE
