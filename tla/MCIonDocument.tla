--------------------------- MODULE MCIonDocument ---------------------------
(* Instances of IonDocument for TLC: documents and state changes over two  *)
(* names, each written with and without '#', and two purposes.             *)
EXTENDS IonDocument

Id(n, h) == [name |-> n, hash |-> h]
Key(n, h, ps) == [id |-> Id(n, h), purposes |-> ps]
Svc(n, h, long) == [id |-> Id(n, h), longType |-> long]
Change(as, rs, ak, rk) ==
  [addServices |-> as, removeServices |-> rs, addKeys |-> ak, removeKeys |-> rk]

MCDocuments ==
  { [keys |-> <<>>, services |-> <<Svc("a", FALSE, FALSE), Svc("b", TRUE, FALSE)>>],
    [keys |-> <<Key("a", FALSE, <<"auth">>), Key("b", TRUE, <<"auth", "agree">>)>>,
     services |-> <<>>],
    [keys |-> <<Key("a", FALSE, <<"auth", "auth">>), Key("b", FALSE, <<"auth">>)>>,
     services |-> <<>>],
    [keys |-> <<Key("b", FALSE, <<"agree", "auth">>), Key("a", TRUE, <<"agree">>)>>,
     services |-> <<Svc("a", FALSE, FALSE)>>],
    [keys |-> <<Key("a", TRUE, <<"auth", "agree", "auth">>)>>, services |-> <<>>],
    [keys |-> <<Key("a", FALSE, <<"none">>)>>, services |-> <<>>] }

RawIds  == {Id(n, h) : n \in Names, h \in BOOLEAN}
IdLists == {<<>>} \cup {<<i>> : i \in RawIds} \cup {<<Id("a", TRUE), Id("b", FALSE)>>,
             <<Id("b", TRUE), Id("b", FALSE)>>}
KeyLists ==
  {<<>>, <<Key("a", FALSE, <<"auth">>)>>, <<Key("a", TRUE, <<"agree", "auth">>)>>,
   <<Key("b", FALSE, <<>>), Key("a", FALSE, <<"agree">>)>>,
   <<Key("b", TRUE, <<"auth">>)>>, <<Key("b", TRUE, <<"none">>)>>}
SvcLists ==
  {<<>>, <<Svc("a", FALSE, FALSE)>>, <<Svc("b", TRUE, FALSE), Svc("a", TRUE, FALSE)>>,
   <<Svc("b", FALSE, TRUE)>>}

MCStateChanges ==
  {Change(as, rs, <<>>, <<>>) : as \in SvcLists, rs \in IdLists}
  \cup {Change(<<>>, <<>>, ak, rk) : ak \in KeyLists, rk \in IdLists}
  \cup {Change(<<Svc("b", TRUE, FALSE)>>, <<Id("a", FALSE)>>,
               <<Key("b", FALSE, <<"agree">>)>>, <<Id("a", TRUE)>>)}
=============================================================================
