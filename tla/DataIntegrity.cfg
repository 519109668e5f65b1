SPECIFICATION Spec
CONSTANTS
  Credentials = {vc}
  Presentations = {vp}
  Drafts <- MCDrafts
  Fields = {"credentialSubject", "credentialSchema"}
  Values <- MCValues
  Contexts <- MCContexts
  Types <- MCTypes
  Base = "base"
  Suite = "suite"
  Nil = nil
  MaxEdits = 2
  Procs = {p1, p2}
  Verifiers = {"k1"}
  Signers <- MCSigners
  Defines <- MCDefines
  MaxSigns = 2
SYMMETRY Symmetry
CHECK_DEADLOCK FALSE
INVARIANTS
  SignedStaysSigned
  AcceptedWasSigned
  RefusalHasACause
