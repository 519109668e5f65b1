SPECIFICATION Spec
CONSTANTS
  Creds <- MCCreds
  Purposes = {"revocation", "suspension"}
  NoList = noList
  MaxBatch = 3
INVARIANTS
  OneBitEach
  NoFalseRevocation
  PlainIsReported
