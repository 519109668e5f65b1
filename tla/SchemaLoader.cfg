SPECIFICATION Spec
CONSTANTS
  Procs = {p1, p2}
  NoProtocol = "none"
  Paths = {"a", "b"}
  local = local
  Contents = {local, remote, newer}
  NoSchema = noSchema
  Seeds <- MCSeeds
INVARIANTS
  TypeOK
  SeedsPrevail
  PreventsFutureLookups
PROPERTY
  CallsReturn
