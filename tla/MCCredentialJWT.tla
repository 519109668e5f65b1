-------------------------- MODULE MCCredentialJWT --------------------------
(* An issuer with two keys, one of them listed at a time, a holder whose   *)
(* document may lose its key, and a relying party.                         *)
EXTENDS CredentialJWT

CONSTANTS issuer, holder, rp, embedded, none, notAString

Kid(d, form) == [did |-> d, fragment |-> "1", form |-> form]
Method(id, key) == [id |-> id, key |-> key]

MCDIDs == {issuer, holder, rp}
MCDocVersions ==
  [d \in MCDIDs |->
     CASE d = issuer -> << <<Method(Kid(issuer, "hash"), "k1")>>,
                           <<Method(Kid(issuer, "full"), "k2"), Method(Kid(issuer, "bare"), "k1")>> >>
       [] d = holder -> << <<Method(Kid(holder, "full"), "h")>>, <<>> >>
       [] OTHER      -> << <<>> >>]

Signer(id, kid, key, signs) == [id |-> id, kid |-> kid, key |-> key, signs |-> signs]
MCSigners ==
  { Signer(issuer, Kid(issuer, "full"), "k1", TRUE),
    Signer(issuer, Kid(issuer, "bare"), "k2", FALSE),
    Signer(holder, Kid(holder, "hash"), "h", TRUE) }

Date(t, f) == [time |-> t, form |-> f]
Cred(n, i, iss, iat, exp, subject, fit) ==
  [name |-> n, id |-> i, issuer |-> iss, iat |-> iat, exp |-> exp, subject |-> subject,
   fit |-> fit]

MCCreds ==
  { Cred("a", "urn:a", issuer, Date(1, "utc"), Date(2, "other"), "m", TRUE),
    Cred("b", none, issuer, Date(2, "other"), none, "m", TRUE),
    Cred("d", none, issuer, Date(1, "utc"), none, "p", TRUE),
    Cred("e", none, notAString, Date(1, "utc"), none, "m", TRUE),
    Cred("f", none, issuer, Date(0, "bad"), none, "m", TRUE),
    Cred("g", none, issuer, Date(1, "utc"), none, "m", FALSE) }

MCSubjectID == [m |-> "alice", p |-> notAString]
MCParameters ==
  {[aud |-> {}, exp |-> 0], [aud |-> {rp}, exp |-> 2], [aud |-> {holder}, exp |-> 0]}
=============================================================================
