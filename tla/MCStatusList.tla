---------------------------- MODULE MCStatusList ----------------------------
(* Credentials whose indices collide, disagree in form, lie at both ends   *)
(* of the bit set and beyond it, or are no numbers, in every Go shape.     *)
EXTENDS StatusList

Index(v, f) == [value |-> v, form |-> f]
Cred(i, s, p, x) == [id |-> i, shape |-> s, purpose |-> p, index |-> x]

MCCreds ==
  { Cred(1, "entry", "revocation", Index(0, "plain")),
    Cred(2, "map", "revocation", Index(16383, "plain")),
    Cred(3, "map", "revocation", Index(16384, "plain")),
    Cred(4, "entry", "suspension", Index(0, "plain")),
    Cred(5, "entry", "revocation", Index(-1, "plain")),
    Cred(6, "entry", "revocation", Index(0, "junk")),
    Cred(7, "entry", "revocation", Index(0, "empty")),
    Cred(8, "entry", "revocation", Index(0, "plain")),
    Cred(9, "other", "revocation", Index(1, "plain")),
    Cred(10, "partial", "revocation", Index(1, "plain")),
    Cred(11, "map", "revocation", Index(0, "padded")),
    Cred(12, "foreign", "revocation", Index(2, "plain")),
    Cred(13, "typed", "suspension", Index(1, "plain")) }
=============================================================================
