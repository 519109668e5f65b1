# Formal models of ssi-sdk

TLA+ models of the parts of ssi-sdk that keep state, run concurrently, talk to
something unreliable, or take a value apart and put it back together; TLC runs
that check them on small instances; and TLAPS proofs of the most important
results for every instance. Everything is translated from the Go code in `src/`
and `PROJECT.json` maps every definition to the lines it stands for.

## 1. The system

ssi-sdk is a library. It has no process of its own and no database: its state is
in Go values its callers hold, in one process-wide cache, and in services it
calls over HTTP. What makes it hard is therefore not a protocol between
replicas but

* values that look immutable and share memory (slices, maps);
* results of calls that can be lost, repeated or overtaken;
* data that is checked in one step and used in a later one;
* two pieces of code that interpret the same data and have to agree: signing and
  parsing, building and verifying, generating and validating.

### Inventory

| Component | State | Operations | Interacts with | What is hard | What makes it correct |
|---|---|---|---|---|---|
| did:ion operations (`did/ion/operations.go`, `request.go`, `crypto.go`, `model.go`) | DID values: two private keys and a slice of requests | `NewIONDID`, `Update`, `Recover`, `Deactivate`, the request constructors | returns requests for `Anchor` | value receivers over a shared backing array; key rotation over long histories | no call changes an older value; the keys of a value open the commitments of its own list |
| did:ion anchoring (`did/ion/resolver.go`) | none | `Resolver.Anchor` | ION node over HTTP | lost requests, lost answers, resending, overtaking | the owner can always continue; nothing is applied twice |
| did:ion documents (`did/ion/did.go`, `request.go`) | the document being built | `PatchesToDIDDocument`, `StateChange.IsValid` | patches of the requests | deleting from a slice while ranging over it; ids in two spellings | patches mean what Sidetree says they mean |
| did:ion long form, resolution | none | `CreateLongFormDID`, `DecodeLongFormDID`, `Resolve` | HTTP GET | encoding | round trip |
| Schema loader (`schema/loader.go`, `jsonschema.go`) | a `sync.Map`, the loaders of the JSON schema library | `NewCachingLoader`, `EnableHTTPCache`, the loader function | HTTP servers, every goroutine that validates | check and fill are separate steps | embedded schemas prevail, cached URLs are not fetched again, calls return |
| Status list (`credential/status`) | the published list | `GenerateStatusList2021Credential`, `ValidateCredentialInStatusList` | issuer and verifier | numbers written as strings, ends of the bit set | one bit each, no false revocation, no missed revocation |
| Presentation exchange (`credential/exchange`, `credential/parsing`) | claims, submission under construction | `BuildPresentationSubmission`, `VerifyPresentationSubmission` | holder and verifier | two implementations of the same descriptors; deduplication | paths lead to the selected claims; accepted means fulfilled |
| Credential JWTs (`credential/integrity`, `crypto/jwx/jwt.go`, `did/util.go`) | tokens, shared subject maps | `SignVerifiableCredentialJWT`, `SignVerifiablePresentationJWT`, `VerifyVerifiablePresentationJWT`, `VerifyJWTPresentation`, `VerifyJWTCredential` | DID resolvers | keys rotate and tokens expire during verification; members move in and out of claims | accepted means backed by the issuer's document; a refusal has a reason; parsing inverts signing |
| SD-JWT (`sd-jwt`) | the combined formats its callers pass on | `BlindAndSign`, `VerifyIssuance`, `SelectDisclosures`, `CreatePresentation`, `VerifySDPresentation` | issuer, holder, verifier | recursive claims and digests | disclosed claims are the issued ones |
| Cryptosuites (`cryptosuite`) | the proof of a document | `Sign`, `Verify`, `GenerateJSONWebKey2020`, `NewJSONWebKeySigner`, `NewJSONWebKeyVerifier` | builders, canonicalisation library | the proof is removed and restored on the caller's object, without a lock | a signed object keeps its proof; accepted means signed; a refusal has a cause |
| Credential manifest (`credential/manifest`) | builders | builders, `IsValidCredentialApplicationForManifest` | presentation exchange | agreement with presentation exchange | the two verifiers of a submission differ for known reasons only |
| Builders (`credential/builder.go`, `credential/exchange/builder.go`, `credential/manifest/builder.go`, `did/builder.go`) | the object being built | setters, `Build` | callers | the pointer that is returned is the one that is kept | a built object does not change |
| DID model, utilities, resolvers (`did`, `did/resolution`) | a map of resolvers | `NewResolver`, `Resolve`, `GetKeyFromVerificationMethod` | all DID methods | several spellings of a key id | the key found belongs to the DID |
| Stateless DID methods (`did/key`, `jwk`, `pkh`, `web`, `peer`) | none | `GenerateDIDKey`, `CreateDIDKey`, `Expand`, `Decode`, `GenerateDIDJWK`, `Method0.Generate`, `CreateDoc`, resolve | HTTP for `web` | two forms of elliptic keys that the bytes do not tell apart; derived keys | an identifier resolves to its key; relations fit the key |
| Keys, JWK, JWT primitives (`crypto`, `crypto/jwx`) | none; the conversions complete the JWK they are called on | conversions, signers, verifiers | cryptographic libraries | long chains of conversions; two names of one algorithm | the key survives any chain; a signer and a verifier of one key fit |
| Schemas and validation, rendering, OIDC metadata, utilities, errors | none | validation of JSON | JSON schema library | none beyond the library | |
| Examples, mobile bindings (`example`, `mobile`) | an in-memory wallet with a lock | demo programs | the library | lock discipline of the wallet | |

The hazards of the code, each at its line, are listed in `PROJECT.json` with the
properties that would catch them.

## 2. Modules

```
IonOperations <- IonAnchor <- IonAnchor_proofs
IonDocument <- IonDocument_proofs     IonDocument --INSTANCE--> IonDocumentAbs

SchemaLoader <- SchemaLoader_proofs   StatusList <- StatusList_proofs
CredentialJWT <- CredentialJWT_proofs SDJWT

PresentationExchange <- Manifest <- Manifest_proofs
KeyConversion <- DIDMethods <- KeyExchange <- KeyExchange_proofs

CredentialBuilder <- DataIntegrity <- DataIntegrity_proofs
```

An `MC...` module gives each of them its constants for TLC.

### IonOperations

A `DID` has value receivers, but `operations` is a slice. The module keeps the
backing arrays (`arrays`) explicitly; a value is a window `[arr, len]` on one of
them together with its two keys, and `append` is `AppendInPlace` or
`AppendGrow`, depending on the capacity. `GrowCap` is the capacity that the
runtime gives a slice that has outgrown its array; the language promises only
that it is larger. Keys are numbers, fresh on each generation, in the order in
which the code generates them. `Commit` is the double hash of `crypto.go`, an
injective constructor. Each of `NewIONDID`, `Update`, `Recover` and `Deactivate`
is one action with its early returns.

`Next` lets a caller call any method on any value it was ever given. `UsedOnce`
says that nothing was called twice on one value so far, the usage of the
package's tests and documentation; properties that need it have it as a
hypothesis, so that there is one specification, which is what the language
allows.

`MaxHandles` bounds the number of DID values.

### IonAnchor

Extends IonOperations with `Resolver.Anchor`, the requests under way (`posted`)
and the ION node (`node`, the commitments in force, and `log`). A request may be
lost, sent again at any time, overtaken, applied or refused. The answer of
`Anchor` is not part of the state: a caller may go on in any way whatever the
answer was, because an error does not say whether the operation was applied.

The node is not in the repository. It checks what the requests carry for it: the
reveal value against the commitment in force and, when `VerifiesSignature` is
true, whether the signed data is signed with the key it names. The runs take
`FALSE`: `Recover` signs with the update key (see the findings), so a checking
node would refuse every recovery, and the runs would say nothing about
recoveries that are applied. The theorems hold for both values. `Deactivate`
reveals the update key where the recovery key is wanted, so no deactivation is
ever applied by the node.

### IonDocument and IonDocumentAbs

`IonDocument` is `PatchesToDIDDocument`: a loop over patches, with the removal
loops as the code has them, deletion from the slice that is being ranged over
included (`RangeStep`, `CutOut`: the header of the range is evaluated once, the
element after a deleted one is skipped, and a second hit may slice beyond the
end). `Extend` appends the patches of a state change that `IsValid` accepts; an
id is a name with or without `#`, which `canonicalID` adds. Nothing keeps a change
from listing a purpose twice or from adding an id that the document has, and the
model has both. The history variable `once` records that it has not happened yet.

`IonDocumentAbs` states what patches promise: sets of keys and services and a
relation between purposes and keys, for as long as `once` is true; it promises
nothing afterwards. `ImplementsAbs` is the refinement. `PanicsOnRepeats` covers the
rest: which repetitions make a removal slice past the end of its list.

### SchemaLoader

Every goroutine goes through the two `Load`s, the HTTP request and the `Store`
in separate steps, and `EnableHTTPCache` replaces the loaders of the two
protocols one after the other. A server may send something else every time.
Fairness is weak fairness of each goroutine's `Step`: the Go scheduler runs a
runnable goroutine, and the HTTP client of `schema/jsonschema.go` has a timeout
of ten seconds, so a request ends even when the server does not answer.

### StatusList

An index is a number and the way it is written, because generation reads it with
`strconv.Atoi` and validation compares strings. The status of a credential is of
type `any`, so an entry also has a shape: the struct, decoded JSON (`map`), a map with
a member that is no string but marshals to one (`typed`), another Go value that
marshals to an entry (`foreign`), a map with members missing (`partial`), or
something else.
Generation goes through JSON and takes the first four; validation goes by type
assertions and takes the first two. `Generate` fails in the ways the code fails;
`Validate` models `toStatusList2021Entry` with its unchecked type assertions as
`"panic"`.

### PresentationExchange

Building and verifying, one input descriptor per step, with the deduplication by
claim id (`seen`), the format filter, the constraints, and submissions from
other software (`Foreign`). JSON paths are functions from paths to values and a
schema filter is the set of values it accepts. `Normalize` fails or panics on a claim
without a format or with an id that is no string (`FailsOn`, `PanicsOn`), and
`Receive` has the checks on the presentation and its submission that come before
the first descriptor: required members (`lacks`), formats, the id of the
definition.

### Manifest

Extends PresentationExchange with `IsValidCredentialApplicationForManifest`, the
second verifier of presentation submissions in the repository: an issuer gets
the same submissions wrapped into applications. The checks that come before the
first input descriptor are `Admitted`, in the order of the code; then one
descriptor per step, and unlike the other verifier this one goes on after a
descriptor that is not fulfilled and collects them (`unfulfilled`); it checks with
`IsValid` what it takes for a credential. Submissions
that `BuildPresentationSubmission` wrote are not among the applications: their
paths begin at `verifiableCredential`, those of an application at
`verifiableCredentials`.

### CredentialBuilder and DataIntegrity

`CredentialBuilder` has the builders of credentials and presentations. `object`
is what a builder points to, and since `Build` returns that pointer there is only
one: setters that are called later change the object of the caller. A
presentation keeps references to its credentials. Values are reduced to kinds,
which is what the setters look at.

`DataIntegrity` adds `Sign` and `Verify` of JsonWebSignature2020, step by step, as
goroutines that share objects can interleave: `Sign` reads the contexts, then
the document, then sets the proof; `Verify` gets the proof, takes it out, reads
contexts and document, and puts the proof back in a deferred call, on every
early return too. Setters run between any two steps, except those of fields
wider than a machine word (strings, interfaces, slices), which are set only while
nobody works on the object: a torn read is not a value of the program.

A signature is the pair of the key and what was signed. JSON-LD
canonicalisation is a library: it keeps the names that the contexts define
(`Defines`) and drops the others, for the members of an embedded proof too
(`CanonicalizeProof`): the base context defines `proof` and none of the members of
JsonWebSignature2020. Time is counted in calls of `Sign`. The
variables `signed`, `attached` and `pristine`, and `alone` of a call, are history
that only the properties read. `Verify` on an object without a proof
dereferences nil; the caller recovers and goes on (`Recovered`).

### KeyConversion, DIDMethods and KeyExchange

`KeyConversion` has the conversions between Go keys, bytes, JWKs, signers and
verifiers, one operator per function. Key material is opaque; a representation
says whose key it is and how it is written: bytes carry their encoding
(compressed or not, raw, PKCS1), and reading them in another one gives what the
code gives, an error, `NoPoint` (nil coordinates) or `Garbage`. `DIDMethods` builds
did:key, did:jwk, did:peer (method 0), the verification methods of did:peer
(method 2) and the document of did:web on top of them. A method of type
JsonWebKey2020 with bytes instead of a JWK yields these bytes as the key
(`PubKeyBytesToTypedKey`), and functions that take a key refuse them (`IsKey`).

`KeyExchange` is the state machine: the owner of a key pair and a peer each hold
one representation of their half and call any conversion that takes it, in any
order; the owner signs and the peer verifies, with the three pairs of functions
the repository has. A failed call leaves the caller where it was and is recorded
(`failed`). Other software may write a JWK without `alg` or with the older name of
the algorithm, and the peer may get a document of others (`PeerReceives`), whose
methods hold bytes. The JOSE library is external (`LibraryKeys`).

### CredentialJWT

The issuer signs credentials, the holder wraps tokens into a presentation and
the relying party verifies it, step by step: resolve, look up the key, verify.
Between the steps a controller may publish another version of its document and
the clock may move. The subject of a credential is a map that all copies share,
so that the deletion of its `id` while signing is seen by the caller
(`subjects`). A signature is the key that made it; a kid is written in one of
three forms, and `matchesKIDConstruction` compares them as the code does. The
verification records the pairs of DID and key that were listed during the call
(`listed`), which only the properties read.

### SDJWT

An issuer blinds and signs (`BlindAndSign`), a holder checks (`VerifyIssuance`)
and presents by index, by name or by forwarding what it got (`Present`,
`SelectAndPresent`, `Forward`), and a verifier puts the claims together
(`VerifySDPresentation`, any number of times with either key and with or without
holder binding). On the way to the holder a disclosure may be appended, and
other issuers may not follow the draft (`Foreign`).

Claims are trees: leaves, arrays, and objects with their `_sd` member apart. The
digest of a disclosure is the disclosure, and the path of a claim stands for its
salt, so that two claims of one name have different disclosures. `exp` and `nbf` are
claims like others: where they are in plain text, issuance and presentation are
refused out of their time (`InTime`), and where they are blinded they have no
effect. Each verification takes place at a time of its own. The blinding
options are the three types of the package. The functions of the code recurse
over the tree and the operators do the same, so that this module is for TLC
only. A Go map has no order: disclosures are issued in every order, and
`processPayload` is written without one, since an error is an error whichever
claim is looked at first. Panics are the outcome `"panic"`, and so is an index past
the disclosures (`PresentPanics`).

The properties do not repeat the recursion: they say which paths of the issuer's
claims are blinded (`IsBlinded`) and compare sets of paths.

## 3. Runs

All figures are distinct states.

| Run | Shows | States |
|---|---|---|
| `ion_anchor` | any value used at any time: `NeverLockedOut`, `NoReplay`, `AnchorTypeOK`; as long as each was used once: `SideEffectFreeOnce`, `CurrentIsLongest`, `OperationsCommitToKeys`, `RevealsOpenCommitments`, and `AnchoredInOrder` through an unreliable node | 159 139 |
| `ion_document` | ids introduced once: `ImplementsAbs`, `NoDanglingReference`; any ids: `PanicsOnRepeats` | 38 906 |
| `schema_loader` | `SeedsPrevail`, `PreventsFutureLookups`, `CallsReturn`, `TypeOK` | 8 744 |
| `status_list` | `OneBitEach`, `NoFalseRevocation`, `PlainIsReported` | 790 160 |
| `presentation_exchange` | `PathLeadsToClaim`, `RefusedForAReason`, `AcceptedIsFulfilled`, `ResultsMatchDefinition`, and `VerifiersDifferKnowingly` for the two verifiers | 613 494 |
| `credential_jwt` | `ParseRestoresCredential`, `AcceptedIsBacked`, `RefusalIsJustified` | 1 077 564 |
| `sd_jwt` | `DisclosesSelection`, `ReadableIsChosen`, `HonestIsAccepted`, `SignedClaimsStay`, `IssuanceIsVerified`, `TypeOK` | 541 807 |
| `data_integrity` | two goroutines on one credential and one presentation: `SignedStaysSigned`, `AcceptedWasSigned`, `RefusalHasACause` | 2 374 675 |
| `key_exchange` | any chain of conversions of any key type: `KeyKept`, `ConversionsFailForAReason`, `GeneratedResolve`, `SameKeyVerifies`, `RelationsFitKeys` | 4 450 |

Three runs show a disagreement between the code and what the repository says of
it; TLC finds the behaviour. Further disagreements are in section 5.

| Run | Property | What the code does |
|---|---|---|
| `ion_fork` | `SideEffectFree` | two calls on one older DID value: the second overwrites the last operation of the value that the first one returned |
| `ion_recovery_key` | `RecoveryKeyAuthorises` | `Recover` signs with the update key, `Deactivate` reveals and signs with it |
| `jwt_audience` | `AudienceIsTheVerifier` | when the SDK looks up the key, a presentation addressed to the relying party is refused: the audience is compared with the DID of the presenter |

### Bounds

* ION: `MaxHandles = 4`, one document and one state change of each kind. `append`
  doubles the capacity 1, 2, 4, so the third value is the first with a spare
  slot and the fourth operation the first append in place. Four values cover both
  ways of `append`; the fork needs two appends in place to the
  same array, hence five values in `ion_fork`. Two DIDs are reached as well,
  with two operations each.
* Documents: two names in both spellings and one that is too long, two purposes,
  three state changes: enough to add, remove and add again, to have two
  neighbours removed by one patch, and to remove what was listed twice.
* Loader: two goroutines, two protocols, two paths of which one is embedded
  without a protocol and the other with `https` only, and two answers of the
  server besides the embedded one. The theorems hold for any number.
* Status list: thirteen credentials chosen for the ends of the bit set (0, 16383,
  16384), negative, padded, empty and unreadable indices, duplicates, both
  purposes and all shapes, three at a time: two collide and the third shows that the rest is
  not affected.
* Presentation exchange: definitions of up to two descriptors, wallets of up to
  three claims and submissions with repeated, missing and misdirected entries,
  without required members or for another definition.
  Four manifests (any format, one format, no definition, no output) and five
  applications (two formats, no submission, another manifest, no format), each
  with all of the foreign submissions: two descriptors show that the issuer goes
  on after the first failure.
* JWTs: two credentials of an issuer that rotates its key once, one
  presentation, two seconds of time, a document that loses its key. A
  verification has at most five steps, and each change can fall between any two
  of them.
* SD-JWT: nineteen pairs of claims and options, up to three levels deep, with
  arrays in arrays, empty objects and arrays, one name at two levels, every
  option and an option that does not apply; every order of the disclosures,
  every selection, one index twice and one past the end. Two times and a token that
  expires or becomes valid at the second one, its date in plain text or blinded.
  `PartBytes` is the length of a part; the
  index of the holder binding is too large for any value above one.

* Embedded proofs: one credential, one presentation that may refer to it, two
  goroutines (interchangeable), two calls of `Sign` with two keys and purposes, two
  calls of setters or changes on the wire. Two goroutines make every overlap of
  two calls; two signatures are the first proof and one made over it, or those
  of the credential and the presentation. A third context adds names that the
  first two do not define, so that claims inside and outside of the signature
  both occur. The theorems need none of these bounds.
* Keys: all twelve key types and one that is not supported, one key pair. The
  state space is finite without a bound, since a representation does not grow.

Deadlock is checked except in `IonDocument`, `PresentationExchange`, `SDJWT` and
`DataIntegrity`, whose calls return and whose behaviours end there.

## 4. Theorems

Proved with TLAPS, for every value of the constants that satisfies the named
assumptions of the modules; TLC evaluates these in the runs. They say what kind
of thing the constants are (`BoundsAssumption`, `VerifiesSignatureAssumption`,
`DocumentAssumption`, `SeedsAssumption`, `StatusAssumption`, `JWTAssumption`, the
`InputsAssumption` of IonOperations and of PresentationExchange), what Go promises
of `append` (`GrowCapAssumption`), that an error is no value a call returns and
a key no missing point (`KeyAssumption`), and what the contexts of the suite define
(`SuiteAssumption`: the suite's context the members of a proof, and the base context
`proof` itself). Where a theorem
needs more than that, it says so as a hypothesis, named below; the instances of
the runs satisfy it.

**IonAnchor_proofs, the handles.** What holds of the values alone. Every operation
is one of three things: it is refused, creates a value, or extends one
(`NextCases`). The theorems on linear use are about `Spec` and have `UsedOnce` as a
hypothesis in their properties. Once a value was used twice it stays so
(`UsedOnceBefore`), so that while `UsedOnce` holds every step so far was one of
`OnceNext`, for which the invariants below are inductive. `AppendShape` says what both ways
of `append` have in common, so that growth policy does not matter afterwards.

* `TypeCorrect`, `Spec => []TypeOK`. `TypeOK` is not inductive: growth is only
  known to work up to `MaxHandles`, so the invariant `TypeInv` adds that no
  window is longer than the number of values (`WindowBound`).
* `LinearUseKeepsLongest`: `LinearInv == TypeInv /\ Longest`. The value
  a caller continues from has the longest window on its array, so the slot that
  the next append writes is seen by nobody else.
* `LinearUseIsSideEffectFree`: the action property follows from `LinearInv`.
  `ion_fork` shows that the hypothesis of linear use is needed.
* `LinearUseHoldsKeys` and `LinearUseIsAChain`: `ChainInv` adds to `LinearInv`
  that every value is `Committed` and `Chained`. Old values keep both because
  their windows are undisturbed; the new one gets them from its predecessor
  (`ChainGrows`).

**IonAnchor_proofs, the node.** `OwnerNeverLockedOut`, `AnchorTypeCorrect`,
`RequestsAreNotReplayed` and `DeactivateNeverTakesEffect` are proved for
`AnchorSpec`, with any value used at any time. The windows may be overwritten
there, so the argument does not use them.

* Never locked out: `Backed` says of every request ever issued that some value
  the SDK returned holds the keys to which applying the request commits the
  node. An update leaves the recovery commitment alone, which is why `AnchorInv`
  also needs that update keys are never reused (`KeysGenerated`) and that an
  update key determines the recovery key that goes with it
  (`UpdateKeyDetermines`).
* No replay: every request in the log is `Spent`, that is, the pair of keys it
  reveals is older than the pair the node expects, in the order that compares
  recovery keys first and update keys second. Update keys alone would not do: the
  update key that a recovery commits to may be older than keys which updates of
  the abandoned line have already revealed.
* `Deactivate` reveals the update key, and no key serves both purposes
  (`KeysApart`), so it never opens the recovery commitment.
* `LinearUseIsAnchoredInOrder`, under `UsedOnce`. The date of a request
  is the update key it commits to; dates rise along the list of the newest value
  (`Rising`), which lists every request that can take effect (`Listed`), and along
  the log (`LogRising`, `LogDated`). A value that a recovery left behind is nobody's
  current value (`RecoveredIsLeft`), so that a late update cannot be applied after
  it.
* `AnchoringKeepsHandles`: `AnchorSpec` implements `Spec`, so that the theorems on
  DID values hold in the presence of the node.

**IonDocument_proofs.** `LoopsImplementSets` is the refinement, `Spec =>
ImplementsAbs`, for all documents, state changes, purposes and lengths of lists;
`FreshIdsNeverDangle` comes with it. Both speak of what happens until an id is
introduced twice (`OnceInv`); `OnlyRepeatsPanic` speaks of everything.

* Loops. `FoldLeft` is a recursive function over sets of positions, of which the
  prover knows nothing, not even that it exists. `FoldsExist` constructs it, and a
  lemma for each loop of the code (`AddServiceLoop`, ..., `RangeLoop`) turns the fold
  into the states that the loop goes through, one for each position. Induction
  over the positions (`Counting`) then says what a loop has done so far.
* The removal loop. `RemoveUnique`: on a list without repetitions it removes the id,
  leaves the others in place, does not slice past the end and counts one hit or
  none. After the cut the loop skips the next element and reads the last one
  twice; neither shows, because the id occurs nowhere else.
* The invariant `DocInv`: patches are well formed, and the document is `NeatDoc`, that
  is, no list repeats an id, which is what `RemoveUnique` needs for the next
  removal, and references lead to verification methods. The latter is more than a
  property to prove: it makes the id of a new key new to the lists of references
  too.
* The steps. `Patched` says for each of the five actions that it has the `Outcome`
  of the abstract patch. It fails exactly when that is refused, wherever in its
  list the loop comes upon the reason; a `replace` goes on to its services after
  its keys have failed, and keeps the error (`ServicesKeepStatus`).
* Panics. On a list with repetitions the loop skips and reads twice. `RangeInv`
  says of each position what is left of the list: no id occurs twice in it that did
  not before, and a panic needs a second hit. `RemoveAny` follows for one loop;
  `AppliedAny` carries it through the loops over ids and purposes, where an id that
  was repeated in one list may be removed from another first. The other direction,
  that a list which repeats the id and ends with it does panic, is the state of the
  slice after the first cut: it is one shorter, and the last position, which is still
  visited, holds the last element.

**SchemaLoader_proofs.** `TypeCorrect`, `LocalSchemasPrevail` and
`CachedIsNeverFetchedAgain` for any number of goroutines. `LoaderInv` says per
call what its position in the code implies about its URL (`CallInv`). That a
key, once filled, is never emptied (`Kept`) is what makes this stable under the
steps of others.

**StatusList_proofs.** `ListsHaveOneBitEach`, `ListsRevokeNoOther` and
`ListsReportPlainIndices`, for every set of credentials and every batch size. The
invariant `ListInv` says of a published list what held of its credentials when it
was generated and how its bits come from them (`Published`). For the shapes that
only generation reads, `ListsReportPlainIndices` says that validation fails or
panics and never answers that the credential is not on the list. One bit each is a
counting argument: index values map the credentials one to one onto the bits.

**Manifest_proofs.** `ExchangeInv`, preserved by every step of `ManifestSpec`
(`ExchangeInvariant`), has one part for each side: `Placed` relates the submission
under construction, the claims seen and the claims chosen; `Passed` and `Reported`
what the verifier has looked at and what it has to show for it; `Checks` and
`Listed` the issuer's list of what is missing.

* `AcceptedSubmissionsFulfil` and `ResultsFollowDefinition` follow for all
  definitions, wallets and submissions.
* `PathsLeadToClaims` needs `IdsNameClaims`, that an id in a wallet stands for one
  claim. The code deduplicates by id, and claims without one break the property
  (section 5).
* `RefusalsHaveAReason` and `VerifiersDiffer` need `IdsNameDescriptors`, that the
  descriptors of a definition have distinct ids. `SetInputDescriptors` refuses
  duplicates; a definition that was received may have them, and then both
  verifiers keep only one entry of a submission for them. The first of the two
  needs `IdsNameClaims` as well.

**CredentialJWT_proofs.** Everything a verification has established depends on
documents and a clock that move on.

* `AcceptedPresentationsAreBacked`: `VerifyInv` says what each position of the call
  implies about the pairs of DID and key that were listed since the call began.
  These only grow, which makes it stable under rotation (`VerifyInvariant`).
* `RefusalsAreJustified`: `CalmInv` says that as long as nothing has changed since
  the call began, what was looked up is what would be looked up now. Calls in which
  the SDK looks up the key of a presentation with an audience are left out, since
  they refuse without a reason: `jwt_audience`.
* `ParsingRestoresCredentials`: every token was `MadeOf` a credential (`ParseInv`).
  It needs `NamesNameCreds`: the name of a credential stands for the members that
  signing leaves alone, and no other credential of the set may have it.

**DataIntegrity_proofs.** For any number of goroutines, objects, signatures and
changes.

* `SignedKeepsProof`, from `IInv`, without any assumption on the constants. The
  property is not inductive: that a call which is going to set a proof has one
  (`HoldsProof`) is what `SignAttach` and `VerifyRestore` need, also when two calls
  of `Verify` overlap and the second one would otherwise restore the nil that the
  first one left. It holds because `VerifyBegin` goes no further without a proof,
  which in the code is the dereference of a nil pointer, before anything is taken
  out. `Shape` says what kind of value the variables hold as far as this
  argument needs it.
* `AcceptedObjectsWereSigned`, from `BackedInv`. Every proof on an object or in the
  hands of a call goes back to a signature, and a signature is over the digest of
  a document (`SignedInv`); every object keeps the base context, which defines
  `proof` (`Objective`); and as long as a call is alone, no other call works on its
  object or on a credential inside (`AloneInv`), so that it still sees what it saw
  (`AloneSees`). Equal digests then mean equal claims, as far as contexts define
  them. A member that no context defines can be exchanged without breaking the
  signature; that the suite's context, which `Sign` adds to the options, defines the
  members of a proof is therefore needed for the proof that is verified. For the
  proofs of embedded credentials, which are part of the document, the theorem says
  that there is one now if there was one then, and that it is the same where the
  contexts of the document include the suite's (`SameProofs`).
* `RefusalsHaveACause`, from `CauseInv`. For a pristine object there is an assignment
  of proofs to it and to its credentials such that each object has its proof
  unless a call of `Verify` has taken it out, whoever takes one out takes that
  one, and the object's proof covers the object with the credentials' proofs in
  place (`PristineInv`). This survives any overlap of calls of `Verify`, which leave
  and return in any order.

**KeyExchange_proofs.** Five theorems from one inductive invariant, `KeyInv`, for
every key, every set of key types asked for and every `use` of a JWK. None of the
properties is inductive: `KeyKept` speaks of Go keys and bytes only, and a key that comes
back wrong went wrong in bytes, a JWK or an identifier several calls before.

* The invariant says that what is held is at any time one of the ways to write a key
  material x of a type c (`PrivForm`, `PubForm`): a Go value, bytes in an encoding
  that the type has, a JWK under one of its algorithm names or none, a signer or
  verifier, an identifier, a document with one or two methods, or one from
  elsewhere (`Remote`). It lists the forms
  that the conversions reach and no others: a did:key with a key in the long
  encoding comes from a caller only, never from the SDK's generator, and this is
  what makes generated identifiers resolve; a did:peer of a NIST curve always has
  it (`PeerDID`), and this is why none resolves. The pair of c and x belongs to the key
  that was generated (`Mine`): the key itself, or, for the peer of an Ed25519 key,
  the X25519 key derived from it.
* The lemmas on the conversions (`ToBytes`, `FromBytes`, `ToJWK` and those after
  them) say which form each function makes of each form; one lemma per action
  takes the invariant across it. The two spellings of the algorithm of Ed25519
  (`Algs`) and the two Go types of secp256k1 (`GoTypes`) are quantified over
  everywhere.
* A signature depends on c and the call alone (`TokenOf`): the algorithm in it is
  the one the library knows, whatever the signer was made of. This is what makes
  `SameKeyVerifies` independent of the two chains.
* `KeysSurviveConversions`, `FailuresAreExplained`, `GeneratedIdentifiersResolve`,
  `SignersFitVerifiers` and `RelationsFollowKeys` read the properties off the
  invariant.

The types of key are the finitely many the SDK has, and `key_exchange` visits all of
them; what the proof adds is the reason, and that the choice of types, of uses and
of the key does not matter.

Induction over data is out of the prover's reach as a theorem with a predicate
as its parameter. For a concrete predicate on numbers it is had from the
least-number principle (`LeastNatural`, by `WFMin`), which is how the proofs find
the first method that matches, the largest index and the place of a claim; in
IonDocument_proofs it takes a loop from one position to the next.

Only model-checked:

* liveness (`CallsReturn`), since the prover does not treat fairness;
* the six invariants of SDJWT. Each of them compares two recursions over nested
  JSON values (blinding with collecting digests, blinding with reassembly, either
  with the nodes of a value), so that each is an induction over values of any
  depth, with a predicate on values as its hypothesis; and the module's operators
  are `RECURSIVE`, which the prover does not support. `sd_jwt` checks nestings up to
  three levels with every kind of option.

## 5. Observations without a run

Met while modelling; the models follow the code.

* `GetCachedSchemas` returns the contents of the cache, not the URIs
  (`schema/loader.go:110`).
* A padded status index such as `"07"` sets bit 7 and is reported as not
  contained (`credential/status/statuslist2021.go:301`); `PlainIsReported` is
  therefore about plain indices. A status map without a member, or with a value that
  is no plain string, makes `toStatusList2021Entry` panic (lines 319 to 325), and it
  refuses Go values that `getStatusEntry` puts on the list through JSON (lines 151
  to 160): a pointer to an entry, for instance, can be revoked and never be found so.
  `PlainIsReported` says that validation then fails rather than answers no. The
  comment on the minimum size says 16KB and the bit set has 16*1024 bits (lines 168,
  169).
* `AlgOrProofTypePerFormat` returns the algorithms of the first format that is set,
  whatever the format of the claim (`credential/exchange/model.go:188` says "for a
  given format", `submission.go:402` "for this format"). With jwt_vc for EdDSA and
  jwt_vp for ES256, a jwt_vp claim with EdDSA is offered and one with ES256 is not.
  No property states what should hold, since it does not. The holder does not apply filters
  (`credential/exchange/submission.go:360`). Descriptors without constraints
  yield no datum (`credential/exchange/verification.go:103`).
* `GetClaimValue` uses the JWT format before it checks that it is set
  (`credential/exchange/submission.go:84`), and `normalizePresentationClaims` asserts
  that an id is a string (line 211): a token with another one makes it panic. A
  submission without descriptors has a nil `descriptor_map`, which the verifier's
  JSON schema refuses.
* After `Deactivate`, which "creates a terminal state DID", further operations can
  be generated (`did/ion/operations.go:268`).
* `StateChange.IsValid` compares ids as they are written, so that a change may
  add `#k` and remove `k` (`did/ion/request.go:282`).
* Signing a credential deletes the id of its subject from the caller's map, also
  when `jwt.Sign` then fails; a second token has no `sub`
  (`credential/integrity/jwt.go:106`). `ParseRestoresCredential` states the round
  trip for tokens that were signed while the subject was whole (`whole`), and so does
  not catch the loss.
* `VerifyDataIntegrityCredential` is not implemented, so a presentation with an
  embedded object never verifies. A presentation without a holder can be signed
  and never parsed. A credential whose issuer is an object cannot be signed.

* A key may list one purpose twice, and an id may be added twice: `IsValid` accepts
  both. When such a key is removed, the loop skips the element after each hit and
  leaves a reference behind, or, when the repeated reference is the last one, slices
  past the end of the shortened list and panics (`did/ion/did.go:140`, `:246`, whose
  comment says "remove from all other key lists"). A key with the purposes
  authentication, authentication that is then removed is enough. `PanicsOnRepeats`
  says exactly when.
* Claims without `id` and `jti` all have the empty id and count as one: the second
  descriptor gets the path of the first one's claim
  (`credential/exchange/submission.go:274`). The wallets of
  `presentation_exchange` have claims with ids.
* `processPayload` does not look into arrays: claims that `BlindAndSign` hid inside
  an array never come back, and their `_sd` members stay in the payload
  (`sd-jwt/sd_jwt.go:530`). An empty array that is blinded recursively comes back
  as null (line 121). `DisclosesSelection` states both.
* `VerifySDPresentation` panics on a token without any `~` (`sd-jwt/sd_jwt.go:464`)
  and takes the last disclosure of a forwarded issuance for the holder binding; a
  disclosure whose salt is no string makes `parseDisclosure` panic (line 416), and
  an `_sd` that is no list makes `VerifyIssuance` panic (line 667). A blinding
  option of another type than the three drops its claim (line 170).
* The digest of a disclosure is taken over a new encoding of what was parsed
  (`sd-jwt/sd_jwt.go:390`), so that disclosures of issuers that write JSON in
  another way are never found. The model has disclosures in this encoding only.

* With holder binding required, `VerifySDPresentation` finds the binding at the
  index `len(presentation)-1` of `sdParts`, the length of the string where that of
  the list is meant, and panics whether there is a binding or not
  (`sd-jwt/sd_jwt.go:483`; the comment above says that a presentation without one
  is rejected). `SDJWT` has this outcome; its properties are about the calls
  that require no binding.
* did:peer of a NIST curve: `encodePublicKeyWithKeyMultiCodecType` writes the key
  uncompressed (`did/peer/peer.go:292`) and `ConstructJWKVerificationMethod` reads
  it compressed (`did/util.go:273`), so a did:peer of P-256, P-384 or P-521, which
  `GetSupportedDIDPeerTypes` lists, does not resolve. The same holds for a did:key
  or did:web that a caller makes of uncompressed bytes; `GenerateDIDKey`
  compresses. `GeneratedResolve` states the fault: of the identifiers that the SDK
  generates these, and no others, fail to resolve, each time, although
  `did/peer/peer0.go:16` calls the method equivalent to did:key.
  `ConversionsFailForAReason` names the other cases.
* `PubKeyBytesToTypedKey` returns the bytes as the key, without an error, for a method
  of type JsonWebKey2020 (`cryptosuite/jws2020/jsonwebkey2020.go:272`). The SDK's own
  documents of that type have JWKs, but did:peer (method 2) builds methods with
  bytes for NIST curves and RSA (`did/peer/peer.go:162`) and a did:web document may
  have them. The bytes are those of the right key (`KeyKept`), and every function
  that takes a key refuses them.
* `Verify` of the cryptosuite dereferences a nil pointer on an object without a
  proof (`cryptosuite/jws2020/jwssignaturesuite.go:109`), also when another
  goroutine's `Verify` of the same object is under way. A proof that `Sign` sets
  during a `Verify` is overwritten when the older one is restored (line 118).
* Signing an object that has a proof hashes that proof (line 89), and `Verify`
  removes it: the second signature never verifies. A proof without `created`
  verifies only in the second in which it was signed (line 256). Members that no
  context defines are not covered by the signature. This includes the members of
  the proofs of embedded credentials: `Sign` adds the suite's context to the options
  of the new proof only (lines 77, 266), and the base context does not define them,
  so that such a proof can be exchanged for another one, not removed, unless the
  document names the suite's context itself. `RefusalHasACause` is about
  first proofs; `AcceptedWasSigned` compares what the contexts define.
* `Build` returns the pointer that the builder keeps (`credential/builder.go:78`):
  later setters change the built object, and `SetCredentialSubject(nil)` makes it
  invalid. `MergeUniqueValues` keeps repetitions of its second list
  (`util/helpers.go:419`).
* `jwxVerifier` refuses the experimental algorithms that `jwxSigner` accepts, and
  looks for a key agreement type in `KTY`, where none is (`crypto/jwx/jwt.go:131`).
  `ToPublicKeyJWK` looks up the algorithm with the algorithm
  (`crypto/jwx/jwk.go:59`). `SignJWS` and `VerifyJWS` pass the name Ed25519 to a
  library that knows EdDSA only (`crypto/jwx/jws.go:18`), unlike the other calls.
* did:jwk lists an X25519 key under authentication unless `use` says otherwise
  (`did/jwk/jwk.go`), and did:peer does so always (`did/peer/peer0.go:69`), which
  did:key avoids; the third part of `RelationsFitKeys` is
  about did:key. Multikey methods of NIST curves cannot be read back
  (`cryptosuite/jws2020/jsonwebkey2020.go:281`).
* `SupportedClaimFormats` lists jwt_vc twice and not ldp_vp
  (`credential/exchange/model.go:143`), so that an application with an ldp_vp entry
  is refused. Against a manifest, filters, `subject_is_issuer` and unsupported
  features of the definition are ignored, optional fields are required, and a
  credential must have its required members, which the verifier does not ask for
  (`credential/manifest/validation.go:204`). `VerifiersDifferKnowingly` is the
  complete list of these differences.

## 6. Not modelled, and the plan

Not planned, and why:

* long form DIDs, did:pkh, the generation of did:peer method 2: encodings of values
  without a decision that depends on earlier calls; the HTTP GET of did:ion and
  did:web;
* the builders of DID documents, presentation definitions, requests, manifests
  and responses: setters over one struct whose pointer nothing else in the SDK
  keeps, unlike the credential builders;
* JSON types and their validation (credential schemas, rendering, OIDC metadata):
  decided by a JSON schema library;
* cryptography, canonicalisation and compression (libraries);
* the reading of `jsonschema.Loaders` without a lock: its outcome is a crash of the
  Go runtime, not a state;
* example programs, mobile bindings, and the experimental JWS form of credentials.

The order of the work, the most important behaviour first:

1. *done* IonOperations, IonAnchor: values that share memory, unreliable anchoring.
2. *done* IonDocument against IonDocumentAbs.
3. *done* SchemaLoader, the only concurrent state of the library.
4. *done* StatusList, PresentationExchange, CredentialJWT: pairs of operations
   that have to agree.
5. *done* SDJWT: blinding, disclosure and reassembly of nested claims.
6. *done* CredentialBuilder and DataIntegrity: proofs that are taken off an object
   that goroutines and builders share.
7. *done* Manifest on top of PresentationExchange.
8. *done* KeyConversion, DIDMethods, KeyExchange: chains of conversions.
9. *done* Theorems for the invariants of IonAnchor, StatusList, PresentationExchange,
   Manifest, CredentialJWT, DataIntegrity and KeyExchange.
10. *done* The refinement of IonDocumentAbs, and when removals panic.
