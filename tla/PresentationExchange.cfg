SPECIFICATION ManifestSpec
CONSTANTS
  Definitions <- AllDefinitions
  Wallets <- NamedWallets
  Foreign <- ForeignSubmissions
  Manifests <- AllManifests
  Applications <- AllApplications
  Absent = absent
  Nil = nil
CHECK_DEADLOCK FALSE
INVARIANTS
  PathLeadsToClaim
  RefusedForAReason
  AcceptedIsFulfilled
  ResultsMatchDefinition
  VerifiersDifferKnowingly
