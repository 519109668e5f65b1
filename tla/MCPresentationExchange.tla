----------------------- MODULE MCPresentationExchange -----------------------
(* Definitions, wallets and submissions over two paths and two values.     *)
EXTENDS Manifest

Data(p, q) == [p |-> p, q |-> q]
MakeClaim(id, format, alg, jwt, self, data) ==
  [id |-> id, format |-> format, alg |-> alg, jwt |-> jwt, presentation |-> FALSE,
   valid |-> TRUE, selfIssued |-> self, data |-> data]

A == MakeClaim("a", "jwt_vc", "EdDSA", TRUE, FALSE, Data("v", Absent))
B == MakeClaim("b", "ldp_vc", "JWS2020", FALSE, FALSE, Data("w", "v"))
C == MakeClaim("c", "jwt_vc", "ES256", TRUE, TRUE, Data(Absent, "w"))
P == [A EXCEPT !.id = "p", !.format = "jwt_vp", !.presentation = TRUE, !.valid = FALSE]
L == [B EXCEPT !.id = "l", !.format = "ldp_vp", !.presentation = TRUE, !.valid = FALSE]
NoFormatJWT == [A EXCEPT !.id = "x", !.format = Nil]
NoFormatLDP == [B EXCEPT !.id = "y", !.format = Nil]
NumberedJWT == [A EXCEPT !.id = Nil]
StrangeJWT  == [A EXCEPT !.id = "s", !.format = "paper"]
StrangeLDP  == [B EXCEPT !.id = "t", !.format = "paper"]
NoIssuer    == [B EXCEPT !.id = "n", !.valid = FALSE]

WalletsOf(S) == {<<>>} \cup {<<c>> : c \in S} \cup (S \X S)
NamedWallets ==
  WalletsOf({A, B, C, L, NoFormatLDP, NoFormatJWT})
  \cup {<<P>>, <<NumberedJWT, A>>, <<C, StrangeJWT>>, <<StrangeLDP>>, <<NoIssuer, A>>}
  \cup {<<A, B, C>>, <<C, A, B>>, <<A, C, A>>}

Field(path, optional, filter) == [path |-> path, optional |-> optional, filter |-> filter]
Constraints(fields, self) == [fields |-> fields, limit |-> Nil, subjectIsIssuer |-> self]
Plain(fields) == Constraints(fields, Nil)
Input(id, format, constraints) == [id |-> id, format |-> format, constraints |-> constraints]
Def(ds) == [id |-> "d", supported |-> TRUE, descriptors |-> ds]

JwtEdDSA  == <<[name |-> "jwt_vc", algs |-> {"EdDSA"}]>>
JwtAndLdp == <<[name |-> "jwt_vc", algs |-> {"EdDSA", "ES256"}],
               [name |-> "ldp_vc", algs |-> {"JWS2020"}]>>

FieldP  == Field(<<"p">>, FALSE, Nil)
FieldQ  == Field(<<"q">>, FALSE, Nil)
FieldQP == Field(<<"q", "p">>, FALSE, Nil)
FieldO  == Field(<<"q">>, TRUE, {"w"})
FieldW  == Field(<<"p", "q">>, FALSE, {"w"})

PlainInputs(id) ==
  {Input(id, f, c) : f \in {Nil, JwtEdDSA, JwtAndLdp},
                     c \in {Plain(<<FieldP>>), Plain(<<FieldQ>>), Plain(<<FieldQP, FieldO>>),
                            Plain(<<FieldP, FieldQ>>)}}

OtherInputs(id) ==
  {Input(id, Nil, Plain(<<FieldW>>)), Input(id, Nil, Nil), Input(id, Nil, Plain(<<>>)),
   Input(id, Nil, Constraints(<<FieldQP>>, "required")), Input(id, <<>>, Plain(<<FieldP>>)),
   Input(id, Nil, [fields |-> <<FieldP>>, limit |-> "required", subjectIsIssuer |-> Nil])}

PlainDefinitions ==
  {Def(<<i>>) : i \in PlainInputs("i")}
  \cup {Def(<<i, j>>) : i \in PlainInputs("i"), j \in PlainInputs("j")}

AllDefinitions ==
  PlainDefinitions
  \cup {Def(<<i>>) : i \in OtherInputs("i")}
  \cup {Def(<<i, j>>) : i \in OtherInputs("i"), j \in PlainInputs("j") \cup OtherInputs("j")}
  \cup {[Def(<<Input("i", Nil, Plain(<<FieldP>>))>>) EXCEPT !.supported = FALSE],
        [Def(<<Input("i", Nil, Plain(<<FieldP>>))>>) EXCEPT !.id = ""], Def(<<>>)}

Item(id, format, n, nested) == [id |-> id, format |-> format, index |-> n, nested |-> nested]
Presentation(d, cs, m) ==
  [lacks |-> {}, definition |-> d, creds |-> cs, map |-> m]
OneItem == <<Item("i", "jwt_vc", 1, FALSE)>>
ForeignSubmissions ==
  { Presentation(d, cs, m) :
      d \in {"d", "other"}, cs \in {<<A>>, <<B, C>>, <<C, P>>, <<L, C>>, <<NoIssuer, A>>},
      m \in { OneItem,
              <<Item("i", "jwt_vc", 1, FALSE), Item("j", "ldp_vc", 2, FALSE)>>,
              <<Item("j", "jwt_vc", 1, FALSE), Item("i", "jwt_vc", 2, FALSE)>>,
              <<Item("i", "ldp_vp", 1, FALSE), Item("j", "jwt_vc", 2, FALSE)>>,
              <<Item("i", "paper", 1, FALSE)>>,
              <<>>,
              <<Item("i", "jwt_vc", 1, FALSE), Item("i", "ldp_vc", 2, FALSE),
                Item("j", "jwt_vc", 1, TRUE)>> } }
  \cup { [Presentation("d", <<A>>, OneItem) EXCEPT !.lacks = {"type"}],
         [Presentation("d", <<A>>, OneItem) EXCEPT !.lacks = {"id"}],
         Presentation("", <<A>>, OneItem) }

(* A manifest that accepts anything, one bound to a format, one without a  *)
(* definition, and one without outputs; and applications for them.         *)
Cm(outputs, format, asks) == [id |-> "m", outputs |-> outputs, format |-> format, asks |-> asks]
AllManifests == {Cm(1, <<>>, TRUE), Cm(1, JwtEdDSA, TRUE), Cm(1, <<>>, FALSE), Cm(0, <<>>, TRUE)}

Ca(id, format, attached) ==
  [manifest |-> id, applicant |-> "holder", format |-> format, attached |-> attached]
AllApplications ==
  {Ca("m", JwtEdDSA, TRUE), Ca("m", JwtAndLdp, TRUE), Ca("m", JwtEdDSA, FALSE),
   Ca("other", JwtEdDSA, TRUE), Ca("m", Nil, TRUE)}
=============================================================================
