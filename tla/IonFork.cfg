SPECIFICATION Spec
CONSTANTS
  Docs = {d1, noDoc}
  EmptyDoc = noDoc
  Changes = {c1, badChange}
  ValidChanges = {c1}
  NoBody = noBody
  GrowCap <- Double
  MaxHandles = 5
PROPERTY
  SideEffectFree
