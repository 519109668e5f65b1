SPECIFICATION Spec
CONSTANTS
  Names = {"a", "b", "l"}
  LongNames = {"l"}
  Purposes = {"auth", "agree"}
  BadPurpose = "none"
  Documents <- MCDocuments
  StateChanges <- MCStateChanges
  MaxChanges = 3
CHECK_DEADLOCK FALSE
INVARIANT
  NoDanglingReference
PROPERTIES
  ImplementsAbs
  PanicsOnRepeats
