CONSTANTS
  Owners = {"o1", "o2"}
  Clients <- MCClients
  InitialContracts <- MCInitialContracts
  Immutable <- MCImmutable
  TypeValues <- MCTypeValues
  Indexable = {"integer", "small", "string", "path", "bytes", "boolean", "identity"}
  VersionModulus = 4
  DpnsOwner = "o1"
  FeatureFlagsOwner = "o1"
  Masternodes = {"o1"}
  Identities = {"o1"}
  MaxRewardShares = 1
  MaxPercentage = 1
  NoDocument = NoDocument
  NoBatch = NoBatch
  NoTime = NoTime
  TimeWindow = 1
  MaxTime = 2
  MaxRevision = 3
  MaxBatches = 4
SPECIFICATION Spec
INVARIANTS DocumentsFit StopsOnlyOnClash DomainsUnderParents
PROPERTIES NoLostUpdate OwnersOnly
