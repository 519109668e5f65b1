------------------------- MODULE CredentialBuilder -------------------------
(***************************************************************************)
(* The builders of credentials and presentations (credential/builder.go).  *)
(*                                                                         *)
(* A builder keeps a pointer to the object it fills and Build returns that *)
(* pointer: a setter called after Build, or after the object was signed,   *)
(* changes the object under its holder.  A presentation keeps pointers to  *)
(* the credentials it was given.                                           *)
(*                                                                         *)
(* A value is reduced to its kind, which is all the setters look at, and a *)
(* number that tells two values of one kind apart.                         *)
(***************************************************************************)
EXTENDS Integers, SequencesExt

CONSTANTS
  Credentials, Presentations,   \* the objects that are built
  Drafts,                       \* the fields an application has set at first
  Fields,                       \* the fields it sets later
  Values,                       \* what setters are called with: [kind, n]
  Contexts,                     \* the lists AddContext is called with
  Types,                        \* the lists AddType is called with
  Base,                         \* the context every object starts with
  Nil,                          \* a field that is not set
  MaxEdits                      \* bound on the calls of setters

VARIABLES
  object,   \* what the builder of an object points to
  built,    \* the objects that Build has returned
  edits     \* calls of setters so far

builderVars == <<object, built, edits>>

Objects == Credentials \cup Presentations

(***************************************************************************)
(* Kinds of values, and the kinds the Go type of a setter's parameter      *)
(* admits.                                                                 *)
(*   text, date   a string, a string that is an RFC 3339 timestamp         *)
(*   malformed    a string that url.Parse refuses                          *)
(*   none         an empty string, an empty list, a nil map                *)
(*   list         a list with members                                      *)
(*   object       an object with an id and a type, named: with an id,      *)
(*                bare: with neither                                       *)
(***************************************************************************)
Strings == {"text", "date", "malformed", "none"}
Maps    == {"object", "named", "bare"}
Lists   == {"none", "list"}
AnyKind == Strings \cup Maps \cup Lists

CredentialFields ==
  [id |-> Strings, issuer |-> AnyKind, issuanceDate |-> Strings, expirationDate |-> Strings,
   credentialStatus |-> AnyKind, credentialSubject |-> Maps \cup {"none"},
   credentialSchema |-> Maps, refreshService |-> Maps, termsOfUse |-> Lists, evidence |-> Lists]

PresentationFields == [id |-> Strings, holder |-> Strings, presentation_submission |-> AnyKind]

FieldsOf(o) == IF o \in Credentials THEN CredentialFields ELSE PresentationFields

(* The kinds a setter stores; it returns an error for the others.          *)
Accepts(o, f, kind) ==
  CASE o \in Presentations                       -> TRUE
    [] f = "id"                                  -> kind # "malformed"
    [] f = "issuer"                              -> kind # "bare"
    [] f \in {"issuanceDate", "expirationDate"}  -> kind = "date"
    [] f = "credentialSubject"                   -> TRUE
    [] f \in {"termsOfUse", "evidence"}          -> kind = "list"
    [] f \in {"credentialStatus", "credentialSchema", "refreshService"} -> kind = "object"

IsSequence(s) == s \in Seq(Range(s))

(* The members of s at the positions in kept, in their order.              *)
Sublist(s, kept) ==
  LET Rank(i) == Cardinality({j \in kept : j <= i}) IN
  [k \in 1..Cardinality(kept) |-> s[CHOOSE i \in kept : Rank(i) = k]]

(* util.MergeUniqueValues: the second list keeps its own repetitions.      *)
MergeUniqueValues(a, b) ==
  Sublist(a, {i \in DOMAIN a : \A j \in DOMAIN a : a[j] = a[i] => i <= j}) \o
  Sublist(b, {i \in DOMAIN b : ~Contains(a, b[i])})

(***************************************************************************)
(* The builders.                                                           *)
(***************************************************************************)
(* A nil pointer to a proof.                                               *)
NoProof == [nil |-> TRUE]

Empty(o) == [context |-> <<Base>>, type |-> <<>>, creds |-> <<>>, proof |-> NoProof,
             field |-> [f \in DOMAIN FieldsOf(o) |-> Nil]]

(* NewVerifiableCredentialBuilder, NewVerifiablePresentationBuilder: the   *)
(* type the builder starts with is not listed, the id is the empty one.    *)
New(o) ==
  IF o \in Credentials
    THEN [Empty(o) EXCEPT !.field["issuanceDate"] = [kind |-> "date", n |-> 0]]
    ELSE Empty(o)

(* The fields of a draft, each as its setter leaves it.                    *)
Begun(o, draft) ==
  [New(o) EXCEPT !.field = [f \in DOMAIN @ |->
     IF f \in DOMAIN draft /\ Accepts(o, f, draft[f].kind) THEN draft[f] ELSE @[f]]]

(* IsValid: the fields the model marks as required.                        *)
IsValid(o) ==
  o \in Credentials =>
    \A f \in {"issuer", "issuanceDate", "credentialSubject"} : object[o].field[f] # Nil

BuilderInit ==
  /\ \E draft \in Drafts : object = [o \in Objects |-> Begun(o, draft)]
  /\ built = {}
  /\ edits = 0

Edit == edits < MaxEdits /\ edits' = edits + 1 /\ UNCHANGED built

(* The setters of single fields.                                           *)
Set(o, f, v) ==
  /\ Edit
  /\ f \in DOMAIN FieldsOf(o)
  /\ v.kind \in FieldsOf(o)[f]
  /\ Accepts(o, f, v.kind)
  /\ object' = [object EXCEPT ![o].field[f] = IF v.kind = "none" THEN Nil ELSE v]

AddContext(o, list) ==
  /\ Edit
  /\ object' = [object EXCEPT ![o].context = MergeUniqueValues(@, list)]

AddType(o, list) ==
  /\ Edit
  /\ object' = [object EXCEPT ![o].type = MergeUniqueValues(@, list)]

AddVerifiableCredentials(o, c) ==
  /\ Edit
  /\ o \in Presentations /\ c \in Credentials \cap built
  /\ object' = [object EXCEPT ![o].creds = Append(@, c)]

Build(o) ==
  /\ o \notin built /\ IsValid(o)
  /\ built' = built \cup {o}
  /\ UNCHANGED <<object, edits>>

(* A call of a setter of o.                                                *)
Change(o) ==
  \/ \E f \in Fields, v \in Values : Set(o, f, v)
  \/ \E list \in Contexts : AddContext(o, list)
  \/ \E list \in Types : AddType(o, list)
  \/ \E c \in Credentials : AddVerifiableCredentials(o, c)
=============================================================================
