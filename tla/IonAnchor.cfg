SPECIFICATION AnchorSpec
CONSTANTS
  Docs = {d1, noDoc}
  EmptyDoc = noDoc
  Changes = {c1, badChange}
  ValidChanges = {c1}
  NoBody = noBody
  GrowCap <- Double
  MaxHandles = 4
  VerifiesSignature = FALSE
INVARIANTS
  AnchorTypeOK
  NeverLockedOut
  NoReplay
  CurrentIsLongest
  OperationsCommitToKeys
  RevealsOpenCommitments
  AnchoredInOrder
PROPERTY
  SideEffectFreeOnce
