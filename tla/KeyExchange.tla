---------------------------- MODULE KeyExchange ----------------------------
(***************************************************************************)
(* The owner of a key pair and a peer who has its public key.  Each holds  *)
(* one representation of its half at a time and calls any conversion of    *)
(* the SDK that takes it, in any order: the result of a call is what the   *)
(* next one is called with, also when the two were written for different   *)
(* purposes.  The owner signs with what it holds, the peer verifies.       *)
(*                                                                         *)
(* A call that returns an error leaves the caller with what it had and is  *)
(* recorded in failed.  Callers pass the key type and the compression with *)
(* which the bytes were written; the calls inside the SDK pass what the    *)
(* code passes.                                                            *)
(***************************************************************************)
EXTENDS DIDMethods

CONSTANTS
  K,            \* the key material
  Requested,    \* the key types that are asked for
  Uses          \* the values of "use" that a caller sets in a JWK

(* The values that calls return, none of which is taken for an error, and  *)
(* the words that occur in them.                                           *)
Words ==
  KeyTypes \cup SupportedAlgorithms \cup ExperimentalAlgorithms
  \cup {"", "RSA", "OKP", "EC", "LWE"}
  \cup {"raw", "compressed", "pkix", "pkcs1", "scalar", "sec1"}
  \cup {"ed25519-pub", "x25519-pub", "secp256k1-pub", "p256-pub", "p384-pub", "p521-pub", "rsa-pub"}
  \cup {"Ed25519VerificationKey2020", "X25519KeyAgreementKey2020", "JsonWebKey2020",
        "EcdsaSecp256k1VerificationKey2019", "P256Key2021", "P384Key2021", "P521Key2021"}
  \cup {"key", "derived", "jwk", "peer", "web", "remote", "sdk", "caller", "jwt", "jws", "detached"}

Material == {K, <<"derived", K>>}
KeyValue == [form : {"key"}, go : KeyTypes, key : Material]
BytesValue == [form : {"bytes"}, enc : Words, of : KeyTypes, key : Material]
JWKValue == [form : {"jwk"}, kty : Words, crv : Words, alg : Words, key : Material]
JWSValue == [form : {"jws"}, jwk : JWKValue, go : KeyTypes, key : Material]
DIDValue == [form : {"did"}, method : Words, codec : Words \cup Uses,
             content : BytesValue \cup JWKValue, by : Words]
MethodValue == [id : Words, type : Words, jwk : JWKValue \cup {Nil}, bytes : BytesValue \cup {Nil}]
DocumentValue == [form : {"document"}, method : Words, methods : Seq(MethodValue),
                  authentication : SUBSET Words, agreement : SUBSET Words]
TokenValue == [call : Words, alg : Words, go : KeyTypes, key : Material]

ASSUME KeyAssumption ==
  /\ K # NoPoint
  /\ Nil \notin Words \cup KeyValue \cup BytesValue \cup JWKValue \cup JWSValue
              \cup DIDValue \cup MethodValue \cup DocumentValue \cup TokenValue

VARIABLES
  keyType,      \* the type of the key pair, Nil before it is generated
  priv,         \* what the owner holds
  pub,          \* what the peer holds
  token,        \* the last signature
  failed        \* the last call, if it returned an error: [call, arg]

vars == <<keyType, priv, pub, token, failed>>

Init ==
  /\ keyType = Nil /\ priv = Nil /\ pub = Nil /\ token = Nil /\ failed = Nil

(* The two outcomes of a call of the peer, and of the owner.               *)
Peer(call, arg, result) ==
  /\ IF result = Nil THEN /\ failed' = [call |-> call, arg |-> arg]
                          /\ UNCHANGED pub
                     ELSE pub' = result /\ failed' = Nil
  /\ UNCHANGED <<keyType, priv, token>>

Owner(call, arg, result) ==
  /\ IF result = Nil THEN /\ failed' = [call |-> call, arg |-> arg]
                          /\ UNCHANGED priv
                     ELSE priv' = result /\ failed' = Nil
  /\ UNCHANGED <<keyType, pub, token>>

Holds(rep, form) == rep # Nil /\ rep.form = form

(* What the peer passes as a crypto.PublicKey: bytes too, when it got them *)
(* in place of a key.                                                      *)
PassesAsKey(rep) == Holds(rep, "key") \/ Holds(rep, "bytes")

(***************************************************************************)
(* Generation.                                                             *)
(***************************************************************************)
Begin(kt, private, public) ==
  /\ IF private = Nil \/ public = Nil
     THEN /\ failed' = [call |-> "Generate", arg |-> kt]
          /\ UNCHANGED <<keyType, priv, pub>>
     ELSE /\ keyType' = kt /\ priv' = private /\ pub' = public
          /\ failed' = Nil
  /\ UNCHANGED token

GenerateKey(kt) == Begin(kt, GenerateKeyByKeyType(kt, K), GenerateKeyByKeyType(kt, K))
GenerateForDIDKey(kt) == Begin(kt, GenerateKeyByKeyType(kt, K), GenerateDIDKey(kt, K))
GenerateForDIDJWK(kt) == Begin(kt, GenerateKeyByKeyType(kt, K), GenerateDIDJWK(kt, K))

(* GenerateJSONWebKey2020 knows two curves of each kind, and secp256k1.    *)
GenerateJSONWebKey2020(kt) ==
  LET jwk == IF kt \in {"RSA", "Ed25519", "X25519", "secp256k1", "P-256", "P-384"}
             THEN PrivateKeyToPrivateKeyJWK(GenerateKeyByKeyType(kt, K)) ELSE Nil
  IN  Begin(kt, jwk, jwk)

(***************************************************************************)
(* The owner.                                                              *)
(***************************************************************************)
OwnerToBytes == Holds(priv, "key") /\ Owner("ToBytes", priv, PrivKeyToBytes(priv))

OwnerFromBytes ==
  Holds(priv, "bytes") /\ Owner("FromBytes", priv, BytesToPrivKey(priv, priv.of))

OwnerToJWK == Holds(priv, "key") /\ Owner("ToJWK", priv, PrivateKeyToPrivateKeyJWK(priv))

(* The caller goes on with the key, or with the JWK as ToPrivateKey left it. *)
OwnerFromJWK ==
  /\ Holds(priv, "jwk")
  /\ \/ Owner("FromJWK", priv, ToPrivateKey(priv))
     \/ /\ ToPrivateKey(priv) # Nil
        /\ Owner("FromJWK", priv, CompletedPrivate(priv))

(* Other software (external) writes a JWK without the optional member alg, *)
(* or with the older name EdDSA.                                           *)
Rewritten(jwk) ==
  {[jwk EXCEPT !.alg = ""]} \cup
  (IF jwk.crv = "Ed25519" THEN {[jwk EXCEPT !.alg = "EdDSA"]} ELSE {})

OwnerImports ==
  /\ Holds(priv, "jwk")
  /\ \E jwk \in Rewritten(priv) : Owner("Import", priv, jwk)

OwnerNewSigner ==
  \/ Holds(priv, "key") /\ Owner("NewSigner", priv, NewJWXSigner(priv))
  \/ Holds(priv, "jwk") /\ Owner("NewSigner", priv, NewJWXSignerFromJWK(priv))

(* The owner hands its public key to the peer.                             *)
OwnerPublishes ==
  \/ Holds(priv, "jwk") /\ Peer("Publish", priv, ToPublicKeyJWK(priv))
  \/ Holds(priv, "jws") /\ Peer("ToVerifier", priv, ToVerifier(priv))

(* SignWithDefaults ("jwt"), SignJWS ("jws"), JSONWebKeySigner ("detached"). *)
OwnerSigns(call) ==
  /\ Holds(priv, "jws")
  /\ LET t == Sign(priv, call) IN
     IF t = Nil THEN failed' = [call |-> "Sign", arg |-> [by |-> priv, how |-> call]] /\ UNCHANGED token
                ELSE token' = t /\ failed' = Nil
  /\ UNCHANGED <<keyType, priv, pub>>

(***************************************************************************)
(* The peer.                                                               *)
(***************************************************************************)
PeerToBytes ==
  /\ PassesAsKey(pub)
  /\ \E compressed \in BOOLEAN : Peer("ToBytes", pub, PubKeyToBytes(pub, compressed))

(* A caller takes bytes of secp256k1 back as either of its Go types.       *)
ReadAs(b) == IF b.of = "secp256k1" THEN Koblitz ELSE {b.of}

PeerFromBytes ==
  /\ Holds(pub, "bytes")
  /\ \E kt \in ReadAs(pub) :
       Peer("FromBytes", pub, BytesToPubKey(pub, kt, pub.enc = "compressed"))

PeerToJWK == PassesAsKey(pub) /\ Peer("ToJWK", pub, PublicKeyToPublicKeyJWK(pub))

PeerFromJWK ==
  /\ Holds(pub, "jwk")
  /\ \/ Peer("FromJWK", pub, ToPublicKey(pub))
     \/ ToPublicKey(pub) # Nil /\ Peer("FromJWK", pub, CompletedPublic(pub))

PeerImports ==
  /\ Holds(pub, "jwk")
  /\ \E jwk \in Rewritten(pub) : Peer("Import", pub, jwk)

PeerNewVerifier ==
  \/ PassesAsKey(pub) /\ Peer("NewVerifier", pub, NewJWXVerifier(pub))
  \/ Holds(pub, "jwk") /\ Peer("NewVerifier", pub, NewJWXVerifierFromJWK(pub))

(* The key type that the peer names with a key or with bytes.              *)
TypeOf(rep) == IF rep.form = "key" THEN rep.go ELSE rep.of

(* An identifier, or the document of a did:web, for the public key.        *)
PeerCreatesDID ==
  \/ Holds(pub, "bytes") /\ Peer("CreateDID", pub, CreateDIDKey(pub.of, pub, "caller"))
  \/ Holds(pub, "bytes") /\ Peer("CreateDoc", pub, CreateDoc(pub.of, pub))
  \/ PassesAsKey(pub) /\ Peer("CreatePeer", pub, GenerateDIDPeer(TypeOf(pub), pub))
  \/ /\ Holds(pub, "jwk")
     /\ \E use \in Uses : Peer("CreateDID", pub, CreateDIDJWK(pub, use, "caller"))

PeerResolves == Holds(pub, "did") /\ Peer("Resolve", pub, Resolve(pub))

PeerExpands ==
  /\ Holds(pub, "did") /\ pub.method = "key"
  /\ \E format \in {"JsonWebKey2020", "Multikey"}, derive \in BOOLEAN :
       Peer(format, pub, ExpandDIDKey(pub, format, derive))

(* DIDKey.Decode                                                           *)
PeerDecodes == Holds(pub, "did") /\ pub.method = "key" /\ Peer("Decode", pub, pub.content)

(* The peer is sent a document with the key instead.                       *)
PeerReceives ==
  /\ Holds(pub, "bytes") /\ pub.of \in Supported
  /\ \E doc \in RemoteDocuments(pub.of, pub) : Peer("Receive", pub, doc)

(* GetKeyFromVerificationMethod                                            *)
PeerTakesKey ==
  /\ Holds(pub, "document")
  /\ \E n \in DOMAIN pub.methods :
       Peer("TakeKey", pub.methods[n], extractKeyFromVerificationMethod(pub.methods[n]))

(* Verify for a JWT, VerifyJWS for any token, or the detached form.        *)
PeerVerifies ==
  /\ Holds(pub, "jws") /\ token # Nil
  /\ \E call \in {"jwt", "jws", "detached"} :
       /\ call = token.call \/ (token.call = "jwt" /\ call = "jws")
       /\ failed' = IF Verify(pub, call, token) THEN Nil
                    ELSE [call |-> "Verify", arg |-> [by |-> pub, how |-> call]]
  /\ UNCHANGED <<keyType, priv, pub, token>>

Next ==
  \/ /\ keyType = Nil
     /\ \E kt \in Requested : GenerateKey(kt) \/ GenerateForDIDKey(kt) \/ GenerateForDIDJWK(kt)
                              \/ GenerateJSONWebKey2020(kt)
  \/ OwnerToBytes \/ OwnerFromBytes \/ OwnerToJWK \/ OwnerFromJWK \/ OwnerImports
  \/ OwnerNewSigner \/ OwnerPublishes
  \/ \E call \in {"jwt", "jws", "detached"} : OwnerSigns(call)
  \/ PeerToBytes \/ PeerFromBytes \/ PeerToJWK \/ PeerFromJWK \/ PeerImports
  \/ PeerNewVerifier \/ PeerCreatesDID \/ PeerResolves \/ PeerExpands \/ PeerDecodes
  \/ PeerReceives \/ PeerTakesKey \/ PeerVerifies

Spec == Init /\ [][Next]_vars

(***************************************************************************)
(* Properties.                                                             *)
(***************************************************************************)
(* The generated key, with a Go type of its curve, or the key agreement    *)
(* key that belongs to it.                                                 *)
Own(go, key) ==
  \/ key = K /\ go \in IF keyType \in Koblitz THEN Koblitz ELSE {keyType}
  \/ key = <<"derived", K>> /\ go = "X25519" /\ keyType = "Ed25519"

(* Whatever was called in whatever order, a key that owner or peer gets    *)
(* back is the generated one, with the Go type of its curve, or the key    *)
(* agreement key derived from it: bytes are never read as another key, and *)
(* an ecdsa.PublicKey without coordinates never gets out of the SDK.       *)
(* Bytes take the place of a key only for a method of type JsonWebKey2020  *)
(* in a document from elsewhere, and they are those of the same key.       *)
KeyKept ==
  /\ \A rep \in {priv, pub} :
       /\ Holds(rep, "key") \/ Holds(rep, "jws") => Own(rep.go, rep.key)
       /\ Holds(rep, "bytes") => Own(rep.of, rep.key)
  /\ Holds(pub, "document") =>
       \A n \in DOMAIN pub.methods :
         Holds(extractKeyFromVerificationMethod(pub.methods[n]), "bytes") =>
           pub.method = "remote" /\ pub.methods[n].type = "JsonWebKey2020"

Dealt(rep) == IF rep.form = "jwk" THEN {rep.crv} ELSE {rep.go}

(* The fault of Method0: it accepts P-256, P-384 and P-521, which          *)
(* GetSupportedDIDPeerTypes lists, and writes them uncompressed, which its *)
(* own resolver does not read.                                             *)
PeerFault(did) == did.method = "peer" /\ did.content.of \in NIST

Explained(call, arg) ==
  CASE call = "Generate"  -> arg \notin Supported \ {"P-521"}
    [] call = "ToBytes"   -> arg.form = "bytes"
    [] call = "ToJWK"     -> arg.form = "bytes" \/ arg.go = "P-224"
    [] call = "FromJWK"   -> arg.kty = "LWE" /\ arg.alg = ""
    [] call = "NewSigner" ->
         Dealt(arg) \cap {"X25519", "P-224"} # {} \/ (keyType \in Dilithium /\ arg.alg = "")
    [] call = "NewVerifier" ->
         arg.form = "bytes" \/ Dealt(arg) \cap {"X25519", "P-224"} # {} \/ keyType \in Dilithium
    [] call = "ToVerifier"  -> keyType \in Dilithium
    [] call = "CreateDID" -> arg.of \notin Supported
    [] call = "CreatePeer" -> arg.form = "bytes" \/ arg.go \notin Supported
    [] call = "CreateDoc" -> arg.of = "P-224" \/ arg.enc = "pkix"
    [] call \in {"Resolve", "JsonWebKey2020"} ->
         PeerFault(arg) \/ (arg.by = "caller" /\ arg.content.enc = "pkix")
    [] call = "Multikey"  -> keyType = "RSA"
    [] call = "TakeKey"   -> keyType \in Dilithium \/ (keyType \in NIST /\ arg.jwk = Nil)
    [] OTHER -> FALSE

(* A conversion fails only for bytes in place of a key, for P-224 and      *)
(* X25519 where there is nothing to sign with, a Dilithium key outside its *)
(* JWK, a multikey of RSA or of a NIST curve, and a did:key or did:web     *)
(* that the caller made of uncompressed bytes; and, which is a fault of    *)
(* the code (GeneratedResolve), for a did:peer of a NIST curve.            *)
ConversionsFailForAReason ==
  failed # Nil /\ failed.call \notin {"Sign", "Verify"} => Explained(failed.call, failed.arg)

(* Every did:key and did:jwk that the SDK generates resolves.  A did:peer  *)
(* does so exactly if its key is not on a NIST curve: none of P-256, P-384 *)
(* and P-521 ever resolves, though the method is said to be equivalent to  *)
(* did:key.                                                                *)
GeneratedResolve ==
  Holds(pub, "did") /\ pub.by = "sdk" => (Resolve(pub) = Nil <=> PeerFault(pub))

(* A signer and a verifier made of the same key, along any two chains of   *)
(* conversions and with any spelling of the algorithm, work together: the  *)
(* only refusal is SignJWS or VerifyJWS under the name Ed25519, which the  *)
(* library does not know.                                                  *)
SameKeyVerifies ==
  failed # Nil /\ failed.call \in {"Sign", "Verify"} =>
    failed.arg.how = "jws" /\ failed.arg.by.jwk.alg = "Ed25519"

IsX25519Key(vm) == IF vm.jwk = Nil THEN vm.bytes.of = "X25519" ELSE vm.jwk.crv = "X25519"

(* "X25519 doesn't have any property except key agreement": in a document  *)
(* of did:key no relation refers to a method that is not there, an X25519  *)
(* key never authenticates, and it always serves key agreement.            *)
RelationsFitKeys ==
  Holds(pub, "document") =>
    /\ pub.authentication \cup pub.agreement \subseteq {pub.methods[n].id : n \in DOMAIN pub.methods}
    /\ pub.method = "key" => \A n \in DOMAIN pub.methods : IsX25519Key(pub.methods[n]) =>
         pub.methods[n].id \in pub.agreement \ pub.authentication

=============================================================================
