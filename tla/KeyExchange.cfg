SPECIFICATION Spec
CONSTANTS
  Nil = nil
  NoPoint = noPoint
  Garbage = garbage
  K = k
  Requested <- AllRequested
  Uses = {"", "sig", "enc"}
INVARIANTS
  KeyKept
  ConversionsFailForAReason
  GeneratedResolve
  SameKeyVerifies
  RelationsFitKeys
