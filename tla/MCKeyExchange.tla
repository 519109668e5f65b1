--------------------------- MODULE MCKeyExchange ---------------------------
(* One key pair of every type, and a type that is not supported.           *)
EXTENDS KeyExchange

AllRequested == KeyTypes \cup {"BLS12381G1"}
=============================================================================
