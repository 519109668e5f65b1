SPECIFICATION Spec
CONSTANTS
  Inputs <- MCInputs
  Foreign <- MCForeign
  Fakes <- MCFakes
  Garbled = garbled
  Unsalted = unsalted
  NoSD = noSD
  BadSD = badSD
  Nil = nil
  IssuerKey = "k"
  Keys = {"k", "l"}
  Bindings <- MCBindings
  Desired <- MCDesired
  Times = {0, 1}
  PartBytes = 100
CHECK_DEADLOCK FALSE
INVARIANTS
  TypeOK
  IssuanceIsVerified
  DisclosesSelection
  ReadableIsChosen
  HonestIsAccepted
  SignedClaimsStay
