------------------------------ MODULE MCSDJWT ------------------------------
(* Claims nested up to three levels with every kind of option, and         *)
(* combined formats of issuers that do not follow the draft.               *)
EXTENDS SDJWT

None == [n \in {} |-> Nil]
V == Leaf("v")
W == Leaf("w")
Obj(m) == Object(m, NoSD)

Flat      == [opt |-> "flat"]
Recursive == [opt |-> "recursive"]
SubClaims(c) == [opt |-> "sub", claims |-> c]
In(m, o) == [claims |-> Obj(m), options |-> o]

Three  == [a |-> V, b |-> W, c |-> V]
Two    == [a |-> Obj([b |-> V, c |-> W]), b |-> W]
Twin   == [a |-> Obj([b |-> V]), b |-> W]
Deep   == [a |-> Obj([a |-> Obj([c |-> V])])]
Listed == [a |-> Array(<<V, Obj([b |-> W]), Array(<<Obj([c |-> V])>>)>>), b |-> V]
Timed  == [a |-> V, exp |-> Time(1)]
Early  == [a |-> V, nbf |-> Time(1)]
Hollow == [a |-> Obj(None), b |-> Array(<<>>)]

MCInputs ==
  {In(Three, o) : o \in {None, [a |-> Flat], [a |-> Flat, b |-> Recursive, c |-> Flat]}}
  \cup {In(Two, o) : o \in {[a |-> Flat, b |-> Flat], [a |-> Recursive],
                            [a |-> SubClaims([b |-> Flat, c |-> Flat])],
                            [a |-> SubClaims([b |-> SubClaims([c |-> Flat])])]}}
  \cup {In(Twin, [a |-> Recursive, b |-> Flat])}
  \cup {In(Deep, o) : o \in {[a |-> Recursive], [a |-> SubClaims([a |-> Recursive])],
                             [a |-> SubClaims([a |-> SubClaims([c |-> Flat])])]}}
  \cup {In(Listed, o) : o \in {[a |-> Recursive], [a |-> Flat], [b |-> Flat]}}
  \cup {In(Timed, o) : o \in {[a |-> Flat], [a |-> Flat, exp |-> Flat]}}
  \cup {In(Early, o) : o \in {[a |-> Flat], [nbf |-> Recursive]}}
  \cup {In(Hollow, [a |-> Recursive, b |-> Recursive])}

D1 == Disclosure(<<"s">>, "a", W)
D2 == Disclosure(<<"t">>, "a", V)
D3 == Disclosure(<<"u">>, "b", Object(None, <<D1>>))
Format(m, sd, ds) == [token |-> [key |-> IssuerKey, body |-> Object(m, sd)], ds |-> ds]
MCForeign ==
  { Format([a |-> V], <<D1>>, <<D1>>),
    Format([c |-> V], <<D1, D2>>, <<D1, D2>>),
    Format([c |-> V], <<D1, D3>>, <<D1, D3>>),
    Format([c |-> V], <<D3>>, <<D3, D1>>),
    Format([c |-> V], BadSD, <<D1>>),
    Format([c |-> Obj([a |-> V])], NoSD, <<>>),
    Format([_sd_alg |-> Leaf("md5")], <<D1>>, <<D1>>) }

(* A disclosure of an unknown digest, and one of the issuer's with another *)
(* value.                                                                  *)
MCFakes == {D1, Disclosure(<<"a">>, "a", Leaf("x"))}

Binding(nonce) == [key |-> "h", nonce |-> nonce, aud |-> "rp"]
MCBindings == {Binding("n"), Binding("old")}
MCDesired  == Binding("n")
=============================================================================
