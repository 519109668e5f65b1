--------------------------- MODULE MCSchemaLoader ---------------------------
(* Two goroutines, two protocols and two paths.  One path is seeded        *)
(* without a protocol, the other with https only.                          *)
EXTENDS SchemaLoader, TLC

CONSTANT local

Key(q, a) == [protocol |-> q, path |-> a]
MCSeeds ==
  (Key(NoProtocol, "a") :> local) @@ (Key("https", "b") :> local)
=============================================================================
