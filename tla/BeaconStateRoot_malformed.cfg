\* Beacon states with a vector of another length or a short root, with
\* the limits of BeaconStateRoot.cfg.
CONSTANTS
  BytesPerChunk = 8
  BitsPerByte = 3
  LengthBytes = 2
  VersionBytes = 1
  PubkeyBytes = 12
  SignatureBytes = 24
  SlotsPerHistoricalRoot = 2
  EpochsPerHistoricalVector = 3
  EpochsPerSlashingsVector = 8
  HistoricalRootsLimit = 2
  Eth1VotesLimit = 2
  ValidatorRegistryLimit = 8
  AttestationsLimit = 2
  MaxValidatorsPerCommittee = 48
  States <- MalformedStates
SPECIFICATION Spec
INVARIANT RootOnlyForValues
