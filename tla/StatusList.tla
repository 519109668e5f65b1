----------------------------- MODULE StatusList -----------------------------
(***************************************************************************)
(* Status lists (credential/status/statuslist2021.go): an issuer collects  *)
(* revoked credentials and publishes a status list credential, a verifier  *)
(* asks whether a credential is contained in it.                           *)
(*                                                                         *)
(* The index of a credential is a string.  Generation reads it with        *)
(* strconv.Atoi and sets a bit; validation turns the set bits back into    *)
(* decimal strings and compares strings.  An index is therefore a number   *)
(* and the form it is written in: "plain" is the form FormatUint produces, *)
(* "padded" one that Atoi reads as well ("07", "+7"), "junk" one it        *)
(* rejects and "empty" the empty string.  Compression and base64 lose      *)
(* nothing and are left out.                                               *)
(*                                                                         *)
(* A credentialStatus is a Go value.  Generation marshals it, whatever it  *)
(* is, and unmarshals the entry; validation asserts Go types.  Its shape:  *)
(*   "entry"    the struct StatusList2021Entry;                            *)
(*   "map"      the map of strings that decoding JSON yields;              *)
(*   "typed"    such a map built in Go, a member of which is no string but *)
(*              marshals to one (a StatusPurpose);                         *)
(*   "foreign"  a pointer, a map[string]string, a struct of another type:  *)
(*              it marshals to a full entry;                               *)
(*   "partial"  a map without one of the members, or with one that does    *)
(*              not marshal to a string;                                   *)
(*   "other"    a value that is no map and marshals to no entry.           *)
(***************************************************************************)
EXTENDS Integers, Sequences, FiniteSets

CONSTANTS
  Creds,      \* credentials: records [id, shape, purpose, index]
  Purposes,   \* "revocation", "suspension"
  NoList,     \* nothing has been published yet
  MaxBatch    \* bound: credentials passed to one generation

Forms  == {"plain", "padded", "junk", "empty"}
Shapes == {"entry", "map", "typed", "foreign", "partial", "other"}

ASSUME StatusAssumption ==
  /\ MaxBatch \in Nat
  /\ Creds \subseteq [id : Nat, shape : Shapes, purpose : Purposes,
                     index : [value : Int, form : Forms]]

VARIABLES
  batch,    \* the issuedCredentials the issuer will pass next
  list,     \* the status list credential last published
  source,   \* the credentials it was generated from
  answer,   \* what the last validation returned
  err       \* did the last generation fail?

vars == <<batch, list, source, answer, err>>

(***************************************************************************)
(* Generation.                                                             *)
(***************************************************************************)
KB == 1024

(* getStatusEntry goes through JSON: every member must be there and filled, *)
(* and the Go type does not matter.                                        *)
HasStatusEntry(c) ==
  c.shape \in {"entry", "map", "typed", "foreign"} /\ c.index.form # "empty"

(* prepareCredentialsForStatusList looks at every credential before it     *)
(* fails; indices are compared as they are written.                        *)
prepareCredentialsForStatusList(purpose, creds) ==
  /\ \A k \in DOMAIN creds : HasStatusEntry(creds[k]) /\ creds[k].purpose = purpose
  /\ \A j, k \in DOMAIN creds : creds[j].index = creds[k].index => j = k

AtoiFails(index) == index.form \in {"junk", "empty"}

(* Mutant: the numbers are not compared.                                   *)
bitstringUnchecked(creds) ==
  \A k \in DOMAIN creds : ~AtoiFails(creds[k].index) /\ creds[k].index.value >= 0

(* bitstringGeneration: the checks on the numbers ...                      *)
bitstringChecks(creds) ==
  /\ \A k \in DOMAIN creds : ~AtoiFails(creds[k].index) /\ creds[k].index.value >= 0
  /\ \A j, k \in DOMAIN creds : creds[j].index.value = creds[k].index.value => j = k

Indices(creds) == {creds[k].index.value : k \in DOMAIN creds}

(* Mutant: a bit beyond the initial size is dropped.                       *)
bitstringTruncated(creds) ==
  [bits |-> {n \in Indices(creds) : n < 16 * KB}, len |-> 16 * KB]

(* ... and the bit set, which grows when an index is beyond its end.       *)
bitstring(creds) ==
  [bits |-> Indices(creds),
   len  |-> CHOOSE n \in {16 * KB} \cup {i + 1 : i \in Indices(creds)} :
              \A m \in {16 * KB} \cup {i + 1 : i \in Indices(creds)} : m <= n]

(***************************************************************************)
(* Validation.                                                             *)
(***************************************************************************)
FormatUint(n) == [value |-> n, form |-> "plain"]

(* bitstringExpansion: a string for every set bit.                         *)
bitstringExpansion(l) ==
  {FormatUint(i) : i \in {n \in l.encoded.bits : n < l.encoded.len}}

(* Mutant: the purposes are not compared.                                  *)
ValidateAnyPurpose(c, l) ==
  CASE c.shape \in {"partial", "typed"} -> "panic"
    [] c.shape \in {"foreign", "other"} -> "error"
    [] OTHER -> IF c.index \in bitstringExpansion(l) THEN "contained" ELSE "absent"

(* ValidateCredentialInStatusList: toStatusList2021Entry takes the struct  *)
(* or a map, and asserts that every member of the map is a string without  *)
(* checking that it is.                                                    *)
ValidateCredentialInStatusList(c, l) ==
  CASE c.shape \in {"partial", "typed"} -> "panic"
    [] c.shape \in {"foreign", "other"} -> "error"
    [] c.purpose # l.purpose             -> "error"
    [] OTHER -> IF c.index \in bitstringExpansion(l) THEN "contained" ELSE "absent"

(***************************************************************************)
(* The issuer and the verifier.                                            *)
(***************************************************************************)
Init ==
  /\ batch = <<>> /\ list = NoList /\ source = {}
  /\ answer = "none" /\ err = FALSE

(* The issuer decides to include a credential in, or leave it out of, the  *)
(* next list.                                                              *)
Include(c) ==
  /\ Len(batch) < MaxBatch
  /\ batch' = Append(batch, c)
  /\ UNCHANGED <<list, source, answer, err>>

Reinstate ==
  /\ batch # <<>>
  /\ batch' = Tail(batch)
  /\ UNCHANGED <<list, source, answer, err>>

(* GenerateStatusList2021Credential; an error leaves the published list.   *)
Generate(purpose) ==
  LET ok == prepareCredentialsForStatusList(purpose, batch) /\ bitstringChecks(batch) IN
  /\ err' = ~ok
  /\ IF ok THEN /\ list' = [purpose |-> purpose, encoded |-> bitstring(batch)]
                /\ source' = {batch[k] : k \in DOMAIN batch}
           ELSE UNCHANGED <<list, source>>
  /\ UNCHANGED <<batch, answer>>

Validate(c) ==
  /\ list # NoList
  /\ answer' = ValidateCredentialInStatusList(c, list)
  /\ UNCHANGED <<batch, list, source, err>>

Next ==
  \/ \E c \in Creds : Include(c)
  \/ Reinstate
  \/ \E purpose \in Purposes : Generate(purpose)
  \/ \E c \in Creds : Validate(c)

Spec == Init /\ [][Next]_vars

(***************************************************************************)
(* Properties.                                                             *)
(***************************************************************************)
(* No two credentials of a list share a bit, however their indices are     *)
(* written: clearing one would clear the other.  And every bit lies within *)
(* the length that is published with the list.                             *)
OneBitEach ==
  list # NoList =>
    /\ Cardinality(list.encoded.bits) = Cardinality(source)
    /\ \A n \in list.encoded.bits : n >= 0 /\ n < list.encoded.len

(* A credential the list was not generated from is never reported as       *)
(* contained, unless it carries the index of one that was.                 *)
NoFalseRevocation ==
  list # NoList => \A c \in Creds :
    ValidateCredentialInStatusList(c, list) = "contained" =>
      \E s \in source : s.index.value = c.index.value /\ s.purpose = c.purpose

(* A credential the list was generated from, its index written the way     *)
(* validation writes it, is never answered as absent: it is reported as    *)
(* contained, with an index at either end of the bit set or beyond its     *)
(* initial size, or validation fails loudly because generation read a Go   *)
(* value (getStatusEntry, through JSON) that validation does not take      *)
(* (toStatusList2021Entry, by assertions).  The struct and decoded JSON    *)
(* are always reported.                                                    *)
PlainIsReported ==
  list # NoList => \A c \in source : c.index.form = "plain" =>
    IF c.shape \in {"entry", "map"}
    THEN ValidateCredentialInStatusList(c, list) = "contained"
    ELSE ValidateCredentialInStatusList(c, list) # "absent"
=============================================================================
