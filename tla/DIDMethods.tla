----------------------------- MODULE DIDMethods -----------------------------
(***************************************************************************)
(* The DID methods that are an encoding of a key: did:key, did:jwk,        *)
(* did:peer in its method 0, and the document of did:web.  They turn a     *)
(* public key into an identifier or a document and back (did/key, did/jwk, *)
(* did/peer, did/web, did/util.go).                                        *)
(*                                                                         *)
(* A did:key and a did:peer hold the bytes of the key behind a codec, a    *)
(* did:jwk holds the JWK; base58 and base64 are not built, for they are    *)
(* bijections.  In a document the verification methods have the ids "key"  *)
(* and, for the key agreement key that is derived from an Ed25519 key,     *)
(* "derived".                                                              *)
(***************************************************************************)
EXTENDS KeyConversion, Sequences

(* The identifier: who put the bytes together, the SDK or its caller.      *)
DID(method, codec, content, by) ==
  [form |-> "did", method |-> method, codec |-> codec, content |-> content, by |-> by]

VerificationMethod(id, type, jwk, bytes) ==
  [id |-> id, type |-> type, jwk |-> jwk, bytes |-> bytes]

(* The relations other than key agreement are set and cleared together.    *)
Document(method, methods, authentication, agreement) ==
  [form |-> "document", method |-> method, methods |-> methods,
   authentication |-> authentication, agreement |-> agreement]

Supported == {"Ed25519", "X25519", "secp256k1", "P-256", "P-384", "P-521", "RSA"}

(***************************************************************************)
(* did/util.go                                                             *)
(***************************************************************************)
KeyTypeToMultiCodec(kt) ==
  CASE kt = "Ed25519"   -> "ed25519-pub"   [] kt = "X25519" -> "x25519-pub"
    [] kt = "secp256k1" -> "secp256k1-pub" [] kt = "P-256"  -> "p256-pub"
    [] kt = "P-384"     -> "p384-pub"      [] kt = "P-521"  -> "p521-pub"
    [] kt = "RSA"       -> "rsa-pub"       [] OTHER         -> Nil

(* Mutant: the codes of the two curves are confused.                       *)
CodecConfused(codec) ==
  CASE codec = "ed25519-pub"   -> "Ed25519"   [] codec = "x25519-pub" -> "Ed25519"
    [] codec = "secp256k1-pub" -> "secp256k1" [] codec = "p256-pub"   -> "P-256"
    [] codec = "p384-pub"      -> "P-384"     [] codec = "p521-pub"   -> "P-521"
    [] codec = "rsa-pub"       -> "RSA"       [] OTHER                -> Nil

MultiCodecToKeyType(codec) ==
  CASE codec = "ed25519-pub"   -> "Ed25519"   [] codec = "x25519-pub" -> "X25519"
    [] codec = "secp256k1-pub" -> "secp256k1" [] codec = "p256-pub"   -> "P-256"
    [] codec = "p384-pub"      -> "P-384"     [] codec = "p521-pub"   -> "P-521"
    [] codec = "rsa-pub"       -> "RSA"       [] OTHER                -> Nil

ConstructJWKVerificationMethod(id, bytes, kt) ==
  LET k   == BytesToPubKey(bytes, kt, TRUE)
      jwk == IF k = Nil THEN Nil ELSE PublicKeyToPublicKeyJWK(k)
  IN  IF jwk = Nil THEN Nil ELSE VerificationMethod(id, "JsonWebKey2020", jwk, Nil)

ConstructMultibaseVerificationMethod(id, bytes, type) ==
  VerificationMethod(id, type, Nil, bytes)

(* PubKeyBytesToTypedKey: the multikey types of the NIST curves are not    *)
(* among those it reads, and for JsonWebKey2020, which does not tell the   *)
(* type of the key, the bytes themselves are returned as the key.          *)
PubKeyBytesToTypedKey(bytes, type) ==
  CASE type = "JsonWebKey2020" -> bytes
    [] type = "Ed25519VerificationKey2020" -> BytesToPubKey(bytes, "Ed25519", FALSE)
    [] type = "X25519KeyAgreementKey2020"  -> BytesToPubKey(bytes, "X25519", FALSE)
    [] type = "EcdsaSecp256k1VerificationKey2019" -> BytesToPubKey(bytes, "secp256k1", FALSE)
    [] OTHER -> Nil

extractKeyFromVerificationMethod(vm) ==
  IF vm.bytes # Nil THEN PubKeyBytesToTypedKey(vm.bytes, vm.type)
                    ELSE toSupportedKey(vm.jwk)

(***************************************************************************)
(* did:key                                                                 *)
(***************************************************************************)
CreateDIDKey(kt, bytes, by) ==
  IF kt \notin Supported THEN Nil ELSE DID("key", KeyTypeToMultiCodec(kt), bytes, by)

(* Mutant: the public key is written in the default, uncompressed form.    *)
GenerateUncompressed(kt, key) ==
  IF kt \notin Supported THEN Nil
  ELSE CreateDIDKey(kt, PubKeyToBytes(GenerateKeyByKeyType(kt, key), FALSE), "sdk")

GenerateDIDKey(kt, key) ==
  IF kt \notin Supported THEN Nil
  ELSE CreateDIDKey(kt, PubKeyToBytes(GenerateKeyByKeyType(kt, key), TRUE), "sdk")

KeyTypeToMultikeyLDType(kt) ==
  CASE kt = "Ed25519"   -> "Ed25519VerificationKey2020"
    [] kt = "X25519"    -> "X25519KeyAgreementKey2020"
    [] kt = "secp256k1" -> "EcdsaSecp256k1VerificationKey2019"
    [] kt = "P-256"     -> "P256Key2021"
    [] kt = "P-384"     -> "P384Key2021"
    [] kt = "P-521"     -> "P521Key2021"
    [] OTHER            -> Nil

(* Ed25519PublicKeyToCurve25519: another key, which belongs to the first.  *)
Curve25519(bytes) == Bytes("raw", "X25519", <<"derived", bytes.key>>)

(* The key agreement method of an Ed25519 key, or Nil: any other method    *)
(* serves key agreement itself.                                            *)
generateKeyAgreementVerificationMethod(vm) ==
  IF vm.type = "Ed25519VerificationKey2020"
  THEN ConstructMultibaseVerificationMethod("derived", Curve25519(vm.bytes),
                                            "X25519KeyAgreementKey2020")
  ELSE IF vm.type = "JsonWebKey2020" /\ vm.jwk.crv = "Ed25519"
  THEN ConstructJWKVerificationMethod("derived",
         Curve25519(PubKeyToBytes(ToPublicKey(vm.jwk), FALSE)), "X25519")
  ELSE Nil

FirstMethod(did, format) ==
  LET kt == MultiCodecToKeyType(did.codec) IN
  IF format = "JsonWebKey2020" THEN ConstructJWKVerificationMethod("key", did.content, kt)
  ELSE IF KeyTypeToMultikeyLDType(kt) = Nil THEN Nil
  ELSE ConstructMultibaseVerificationMethod("key", did.content, KeyTypeToMultikeyLDType(kt))

(* Mutant: only the JWK is looked at for an X25519 key.                    *)
IsX25519JWK(vm) == vm.jwk # Nil /\ vm.jwk.crv = "X25519"

(* isVerificationMethodX25519Key                                           *)
IsX25519(vm) ==
  \/ vm.jwk # Nil /\ vm.jwk.crv = "X25519"
  \/ vm.type = "X25519KeyAgreementKey2020"

ExpandDIDKey(did, format, derive) ==
  LET vm    == FirstMethod(did, format)
      extra == generateKeyAgreementVerificationMethod(vm)
  IN  IF vm = Nil THEN Nil
      ELSE IF IsX25519(vm) THEN Document("key", <<vm>>, {}, {"key"})
      ELSE IF ~derive THEN Document("key", <<vm>>, {"key"}, {})
      ELSE IF extra = Nil THEN Document("key", <<vm>>, {"key"}, {"key"})
      ELSE Document("key", <<vm, extra>>, {"key"}, {extra.id})

(***************************************************************************)
(* did:jwk.  The member "use" of the JWK restricts the relations.          *)
(***************************************************************************)
CreateDIDJWK(jwk, use, by) == DID("jwk", use, jwk, by)

GenerateDIDJWK(kt, key) ==
  IF kt \notin Supported THEN Nil
  ELSE CreateDIDJWK(PublicKeyToPublicKeyJWK(GenerateKeyByKeyType(kt, key)), "", "sdk")

ExpandDIDJWK(did) ==
  Document("jwk", <<VerificationMethod("key", "JsonWebKey2020", did.content, Nil)>>,
           IF did.codec = "enc" THEN {} ELSE {"key"},
           IF did.codec = "sig" THEN {} ELSE {"key"})

(***************************************************************************)
(* did:peer, method 0, and did:web.                                        *)
(***************************************************************************)
GenerateDIDPeer(kt, k) ==
  IF kt \notin Supported \/ PubKeyToBytes(k, FALSE) = Nil THEN Nil
  ELSE DID("peer", KeyTypeToMultiCodec(kt), PubKeyToBytes(k, FALSE), "sdk")

ResolveDIDPeer(did) ==
  LET vm == ConstructJWKVerificationMethod("key", did.content, MultiCodecToKeyType(did.codec))
  IN  IF vm = Nil THEN Nil ELSE Document("peer", <<vm>>, {"key"}, {"key"})

CreateDoc(kt, bytes) ==
  LET vm == ConstructJWKVerificationMethod("key", bytes, kt)
  IN  IF vm = Nil THEN Nil ELSE Document("web", <<vm>>, {"key"}, {})

(* The types of the methods that did:peer, method 2, builds with bytes.    *)
DecodeMultibasePublicKeyWithType(codec) ==
  CASE codec = "ed25519-pub"   -> "Ed25519VerificationKey2020"
    [] codec = "x25519-pub"    -> "X25519KeyAgreementKey2020"
    [] codec = "secp256k1-pub" -> "EcdsaSecp256k1VerificationKey2019"
    [] codec \in {"p256-pub", "p384-pub", "p521-pub", "rsa-pub"} -> "JsonWebKey2020"
    [] OTHER -> Nil

buildVerificationMethod(codec, bytes) ==
  ConstructMultibaseVerificationMethod("key", bytes, DecodeMultibasePublicKeyWithType(codec))

(* A did:web document (external) as others publish it: its methods hold    *)
(* bytes under the type of did:peer or under JsonWebKey2020.               *)
RemoteDocuments(kt, bytes) ==
  {Document("remote", <<vm>>, {"key"}, {}) :
     vm \in {buildVerificationMethod(KeyTypeToMultiCodec(kt), bytes),
             ConstructMultibaseVerificationMethod("key", bytes, "JsonWebKey2020")}}

(* MultiMethodResolver.Resolve, with the defaults of each method.          *)
Resolve(did) ==
  CASE did.method = "key"  -> ExpandDIDKey(did, "JsonWebKey2020", TRUE)
    [] did.method = "jwk"  -> ExpandDIDJWK(did)
    [] did.method = "peer" -> ResolveDIDPeer(did)
=============================================================================
