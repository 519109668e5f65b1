--------------------------- MODULE KeyConversion ---------------------------
(***************************************************************************)
(* The conversions between the representations of a key: the Go value,     *)
(* its bytes (crypto/keys.go), its JWK (crypto/jwx/jwk.go), and the signer *)
(* or verifier that is made of it (crypto/jwx/jwt.go).                     *)
(*                                                                         *)
(* Key material is opaque; a representation says whose key it holds and    *)
(* how it is written.  A Go value is told apart by its dynamic type, and   *)
(* an elliptic key by its curve too, which together correspond to the key  *)
(* types of crypto/models.go.  An operation that returns an error has the  *)
(* value Nil.                                                              *)
(***************************************************************************)
CONSTANTS
  Nil,        \* an error
  NoPoint,    \* the key of an ecdsa.PublicKey whose coordinates are nil
  Garbage     \* bytes taken for a key of a type they were not written for

NIST       == {"P-224", "P-256", "P-384", "P-521"}
Edwards    == {"Ed25519", "X25519"}
Koblitz    == {"secp256k1", "secp256k1-ECDSA"}
Dilithium  == {"Dilithium2", "Dilithium3", "Dilithium5"}
KeyTypes   == NIST \cup Edwards \cup Koblitz \cup Dilithium \cup {"RSA"}

Key(go, key)          == [form |-> "key", go |-> go, key |-> key]
Bytes(enc, of, key)   == [form |-> "bytes", enc |-> enc, of |-> of, key |-> key]
JWK(kty, crv, alg, key) ==
  [form |-> "jwk", kty |-> kty, crv |-> crv, alg |-> alg, key |-> key]
(* A Signer or a Verifier: the JWK that it embeds and the key that it uses. *)
WithKey(jwk, k)       == [form |-> "jws", jwk |-> jwk, go |-> k.go, key |-> k.key]

(***************************************************************************)
(* crypto/keys.go                                                          *)
(***************************************************************************)
GenerateKeyByKeyType(kt, key) == IF kt \in KeyTypes THEN Key(kt, key) ELSE Nil

SECP256k1ECDSAToSECP256k1(k) == IF k.go = "secp256k1-ECDSA" THEN Key("secp256k1", k.key) ELSE k

(* A crypto.PublicKey is any Go value: bytes that were returned in place of *)
(* a key are no key to the functions that take one.                         *)
IsKey(k) == k.form = "key"

(* A secp256k1 key is always compressed, the keys of the other curves when *)
(* ECDSAMarshalCompressed is given.                                        *)
PubKeyToBytes(k, compressed) ==
  LET enc == CASE k.go \in Edwards \cup Dilithium -> "raw"
               [] k.go \in Koblitz                -> "compressed"
               [] k.go = "RSA"                    -> "pkcs1"
               [] k.go \in NIST -> IF compressed THEN "compressed" ELSE "pkix"
  IN  IF IsKey(k) THEN Bytes(enc, SECP256k1ECDSAToSECP256k1(k).go, k.key) ELSE Nil

(* Nothing is checked for the types whose bytes are the key, and           *)
(* UnmarshalCompressed reports a failure only by nil coordinates.          *)
BytesToPubKey(b, kt, compressed) ==
  CASE kt \in Edwards \cup Dilithium ->
         Key(kt, IF b.enc = "raw" THEN b.key ELSE Garbage)
    [] kt \in Koblitz ->
         IF b.enc = "compressed" /\ b.of = "secp256k1" THEN Key(kt, b.key) ELSE Nil
    [] kt \in NIST /\ compressed ->
         Key(kt, IF b.enc = "compressed" /\ b.of = kt THEN b.key ELSE NoPoint)
    [] kt \in NIST /\ ~compressed -> IF b.enc = "pkix" THEN Key(b.of, b.key) ELSE Nil
    [] kt = "RSA" -> IF b.enc = "pkcs1" THEN Key(kt, b.key) ELSE Nil
    [] OTHER -> Nil

GetKeyTypeFromPrivateKey(k) == IF k.go \in KeyTypes THEN k.go ELSE Nil

(* The caller keeps the type of the key with its bytes.                    *)
PrivKeyToBytes(k) ==
  LET enc == CASE k.go \in Edwards \cup Dilithium -> "raw"
               [] k.go \in Koblitz -> "scalar"
               [] k.go \in NIST    -> "sec1"
               [] k.go = "RSA"     -> "pkcs1"
  IN  Bytes(enc, GetKeyTypeFromPrivateKey(k), k.key)

BytesToPrivKey(b, kt) ==
  CASE kt \in Edwards \cup Dilithium -> Key(kt, IF b.enc = "raw" THEN b.key ELSE Garbage)
    [] kt \in Koblitz -> Key(kt, IF b.enc = "scalar" THEN b.key ELSE Garbage)
    [] kt \in NIST    -> IF b.enc = "sec1" THEN Key(b.of, b.key) ELSE Nil
    [] kt = "RSA"     -> IF b.enc = "pkcs1" THEN Key(kt, b.key) ELSE Nil
    [] OTHER -> Nil

(***************************************************************************)
(* The algorithms of crypto/jwx/jwt.go.                                    *)
(***************************************************************************)
DilithiumAlg(kt) ==
  CASE kt = "Dilithium2" -> "CRYDI2"
    [] kt = "Dilithium3" -> "CRYDI3"
    [] kt = "Dilithium5" -> "CRYDI5"

AlgFromKeyAndCurve(kty, crv) ==
  CASE kty = "RSA" -> "PS256"
    [] kty = "OKP" /\ crv \in Edwards -> crv
    [] kty = "EC" /\ crv = "secp256k1" -> "ES256K"
    [] kty = "EC" /\ crv = "P-256"     -> "ES256"
    [] kty = "EC" /\ crv = "P-384"     -> "ES384"
    [] kty = "EC" /\ crv = "P-521"     -> "ES512"
    [] OTHER -> Nil

SupportedAlgorithms    == {"PS256", "ES256", "ES256K", "ES384", "ES512", "EdDSA", "Ed25519"}
ExperimentalAlgorithms == {"CRYDI2", "CRYDI3", "CRYDI5"}
KeyAgreementTypes      == {"X25519"}

(***************************************************************************)
(* crypto/jwx/jwk.go                                                       *)
(***************************************************************************)
jwkFromRSA(k) == JWK("RSA", "", "", k.key)
jwkFromOKP(k) == JWK("OKP", k.go, "", k.key)

(* The library has neither P-224 nor a key without coordinates.            *)
jwkFromEC(k) ==
  IF k.go = "P-224" \/ k.key = NoPoint THEN Nil
  ELSE JWK("EC", SECP256k1ECDSAToSECP256k1(k).go, "", k.key)

jwkFromDilithium(k) == JWK("LWE", "", DilithiumAlg(k.go), k.key)

jwkFromKey(k) ==
  CASE k.go = "RSA"            -> jwkFromRSA(k)
    [] k.go \in Edwards        -> jwkFromOKP(k)
    [] k.go \in NIST \cup Koblitz -> jwkFromEC(k)
    [] k.go \in Dilithium      -> jwkFromDilithium(k)

(* Adds the algorithm to a JWK that has none; Nil if there is no such.     *)
WithAlg(jwk, alg) ==
  IF jwk = Nil \/ (jwk.alg = "" /\ alg = Nil) THEN Nil
  ELSE IF jwk.alg = "" THEN [jwk EXCEPT !.alg = alg] ELSE jwk

PublicKeyToPublicKeyJWK(k) ==
  LET jwk == IF IsKey(k) THEN jwkFromKey(k) ELSE Nil IN
  IF jwk = Nil THEN Nil ELSE WithAlg(jwk, AlgFromKeyAndCurve(jwk.kty, jwk.crv))

(* Returns the public JWK as well, with the same members but for d.        *)
PrivateKeyToPrivateKeyJWK(k) ==
  LET jwk == jwkFromKey(k) IN
  IF jwk = Nil THEN Nil ELSE WithAlg(jwk, AlgFromKeyAndCurve(jwk.kty, jwk.crv))

(* The algorithm is looked up with the algorithm where the key type is     *)
(* meant, which finds none: a JWK without one gives a JWK without one.     *)
ToPublicKeyJWK(jwk) ==
  LET alg == AlgFromKeyAndCurve(jwk.alg, jwk.crv) IN
  IF jwk.alg = "" /\ alg # Nil THEN [jwk EXCEPT !.alg = alg] ELSE jwk

(* jwk.ParseKey and Raw: the key of the curve, for secp256k1 as ecdsa.     *)
toSupportedKey(jwk) ==
  IF jwk.kty = "LWE" THEN Nil
  ELSE IF jwk.kty = "RSA" THEN Key("RSA", jwk.key)
  ELSE IF jwk.crv = "secp256k1" THEN Key("secp256k1-ECDSA", jwk.key)
  ELSE Key(jwk.crv, jwk.key)

toDilithiumKey(jwk) ==
  Key(CHOOSE kt \in Dilithium : DilithiumAlg(kt) = jwk.alg, jwk.key)

keyOfJWK(jwk) ==
  IF jwk = Nil THEN Nil
  ELSE IF jwk.alg \in SupportedAlgorithms \/ jwk.crv \in KeyAgreementTypes THEN toSupportedKey(jwk)
  ELSE IF jwk.alg \in ExperimentalAlgorithms THEN toDilithiumKey(jwk)
  ELSE Nil

(* Both conversions complete the JWK they are called on: the private one   *)
(* with the name EdDSA that the library knows, the public one with         *)
(* Ed25519.                                                                *)
CompletedPrivate(jwk) ==
  LET alg == AlgFromKeyAndCurve(jwk.kty, jwk.crv) IN
  WithAlg(jwk, IF alg = "Ed25519" THEN "EdDSA" ELSE alg)

CompletedPublic(jwk) == WithAlg(jwk, AlgFromKeyAndCurve(jwk.kty, jwk.crv))

ToPrivateKey(jwk) == keyOfJWK(CompletedPrivate(jwk))
ToPublicKey(jwk)  == keyOfJWK(CompletedPublic(jwk))

(***************************************************************************)
(* Signers and verifiers.                                                  *)
(***************************************************************************)
(* privKeyForJWX and pubKeyForJWX: secp256k1 keys become ecdsa keys.       *)
keyForJWX(k) == IF k.go = "secp256k1" THEN Key("secp256k1-ECDSA", k.key) ELSE k

jwxSigner(jwk, k) ==
  IF jwk.alg \in SupportedAlgorithms \cup ExperimentalAlgorithms
  THEN WithKey(jwk, keyForJWX(k)) ELSE Nil

NewJWXSigner(k) ==
  LET jwk == PrivateKeyToPrivateKeyJWK(k) IN IF jwk = Nil THEN Nil ELSE jwxSigner(jwk, k)

NewJWXSignerFromJWK(jwk) ==
  LET k == ToPrivateKey(jwk) IN
  IF k = Nil THEN Nil ELSE jwxSigner(CompletedPrivate(jwk), k)

(* The experimental algorithms are not accepted here, and a key agreement  *)
(* type is looked for in kty, where it never is.                           *)
jwxVerifier(jwk, k) ==
  IF jwk.alg \in SupportedAlgorithms \/ jwk.kty \in KeyAgreementTypes
  THEN WithKey(jwk, keyForJWX(k)) ELSE Nil

NewJWXVerifier(k) ==
  LET jwk == PublicKeyToPublicKeyJWK(k) IN IF jwk = Nil THEN Nil ELSE jwxVerifier(jwk, k)

NewJWXVerifierFromJWK(jwk) ==
  LET k == ToPublicKey(jwk) IN
  IF k = Nil THEN Nil ELSE jwxVerifier(CompletedPublic(jwk), k)

ToVerifier(signer) == NewJWXVerifierFromJWK(ToPublicKeyJWK(signer.jwk))

(* The JOSE library (external): the algorithms it knows, with the keys     *)
(* they work on.  Ed25519 is not among their names.  The Dilithium signers *)
(* of jws_dilithium.go are registered with it by the application.          *)
LibraryKeys(alg) ==
  CASE alg = "PS256"  -> {"RSA"}
    [] alg = "EdDSA"  -> {"Ed25519"}
    [] alg \in {"ES256", "ES256K", "ES384", "ES512"} -> NIST \cup {"secp256k1-ECDSA"}
    [] alg \in ExperimentalAlgorithms -> Dilithium
    [] OTHER -> {}

(* Mutant: the new name of the algorithm goes to the library as it is.     *)
AlgAsNamed(call, alg) == alg

(* SignWithDefaults, Verify and the detached forms of JSONWebKeySigner and *)
(* JSONWebKeyVerifier put EdDSA for Ed25519; SignJWS and VerifyJWS do not. *)
AlgForLibrary(call, alg) == IF call # "jws" /\ alg = "Ed25519" THEN "EdDSA" ELSE alg

(* A signature, or Nil where the library refuses the algorithm or the key. *)
Sign(signer, call) ==
  LET alg == AlgForLibrary(call, signer.jwk.alg) IN
  IF signer.go \in LibraryKeys(alg)
  THEN [call |-> call, alg |-> alg, go |-> signer.go, key |-> signer.key] ELSE Nil

Verify(verifier, call, token) ==
  LET alg == AlgForLibrary(call, verifier.jwk.alg) IN
  /\ verifier.go \in LibraryKeys(alg)
  /\ token.alg = alg /\ token.go = verifier.go /\ token.key = verifier.key
=============================================================================
