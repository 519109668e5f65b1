------------------------- MODULE KeyExchange_proofs -------------------------
(***************************************************************************)
(* A key survives every chain of conversions, the conversions that fail    *)
(* are known, and so are the generated identifiers that do not resolve,    *)
(* and a signer and a verifier of one key fit, proved for every key, every *)
(* set of key types asked for and every "use" of a JWK.                    *)
(*                                                                         *)
(* What the owner or the peer holds is, at any time, one of the ways to    *)
(* write a key material x of a type c, where c does not tell the two Go    *)
(* types of secp256k1 apart.                                               *)
(***************************************************************************)
EXTENDS KeyExchange, TLAPS

Curves == KeyTypes \ {"secp256k1-ECDSA"}
Curve(kt) == IF kt \in Koblitz THEN "secp256k1" ELSE kt
GoTypes(c) == IF c = "secp256k1" THEN Koblitz ELSE {c}
JOSEType(c) == IF c = "secp256k1" THEN "secp256k1-ECDSA" ELSE c

(* The Go values.                                                          *)
KeysOf(c, x) == {Key(go, x) : go \in GoTypes(c)}

(* The bytes of the public key and of the private key.                     *)
PubEncodings(c) ==
  CASE c \in Edwards \cup Dilithium -> {"raw"}
    [] c = "secp256k1" -> {"compressed"}
    [] c = "RSA"       -> {"pkcs1"}
    [] c \in NIST      -> {"compressed", "pkix"}

PrivEncoding(c) ==
  CASE c \in Edwards \cup Dilithium -> "raw"
    [] c = "secp256k1" -> "scalar"
    [] c = "RSA"       -> "pkcs1"
    [] c \in NIST      -> "sec1"

PubBytesOf(c, x) == {Bytes(enc, c, x) : enc \in PubEncodings(c)}
PrivBytesOf(c, x) == {Bytes(PrivEncoding(c), go, x) : go \in GoTypes(c)}

(* The JWKs: those of a curve differ only in the spelling of the algorithm, *)
(* and P-224 has none.                                                      *)
Kty(c) ==
  CASE c = "RSA" -> "RSA" [] c \in Edwards -> "OKP" [] c \in Dilithium -> "LWE"
    [] c \in NIST \cup Koblitz -> "EC"

Crv(c) == IF c \in Dilithium \cup {"RSA"} THEN "" ELSE c

Alg(c) == IF c \in Dilithium THEN DilithiumAlg(c) ELSE AlgFromKeyAndCurve(Kty(c), Crv(c))

Algs(c) ==
  IF c = "P-224" THEN {} ELSE {Alg(c)} \cup (IF c = "Ed25519" THEN {"EdDSA"} ELSE {})

JWKOf(c, alg, x) == JWK(Kty(c), Crv(c), alg, x)
JWKsOf(c, x) == IF c = "P-224" THEN {} ELSE {JWKOf(c, alg, x) : alg \in Algs(c) \cup {""}}

(* The signers, and the verifiers, which there are none of for Dilithium.  *)
JWSOf(c, alg, x) == WithKey(JWKOf(c, alg, x), Key(JOSEType(c), x))
SignersOf(c, x) == IF c = "X25519" THEN {} ELSE {JWSOf(c, alg, x) : alg \in Algs(c)}
VerifiersOf(c, x) == IF c \in Dilithium THEN {} ELSE SignersOf(c, x)

(* The signatures.                                                         *)
LibraryAlg(c) == IF c = "Ed25519" THEN "EdDSA" ELSE Alg(c)
TokenOf(call, c) ==
  [call |-> call, alg |-> LibraryAlg(c), go |-> JOSEType(c), key |-> K]

(* The identifiers.  Bytes that the SDK itself puts into a did:key are     *)
(* never uncompressed, those of a NIST curve in a did:peer always.         *)
KeyDID(r, c, x) ==
  /\ c \in Supported
  /\ \E enc \in PubEncodings(c), by \in {"sdk", "caller"} :
       /\ r = DID("key", KeyTypeToMultiCodec(c), Bytes(enc, c, x), by)
       /\ by = "sdk" => enc # "pkix"

PeerDID(r, c, x) ==
  /\ c \in Supported
  /\ \E enc \in PubEncodings(c) :
       /\ r = DID("peer", KeyTypeToMultiCodec(c), Bytes(enc, c, x), "sdk")
       /\ c \in NIST => enc = "pkix"

JWKDID(r, c, x) ==
  /\ c # "P-224"
  /\ \E use \in Uses \cup {""}, alg \in Algs(c) \cup {""}, by \in {"sdk", "caller"} :
       r = DID("jwk", use, JWKOf(c, alg, x), by)

(* The verification methods and the documents.                             *)
MethodsOf(id, c, x) ==
  {VerificationMethod(id, "JsonWebKey2020", jwk, Nil) : jwk \in JWKsOf(c, x)}
  \cup (IF c \in Supported \ {"RSA"}
        THEN {VerificationMethod(id, KeyTypeToMultikeyLDType(c), Nil, b) : b \in PubBytesOf(c, x)}
        ELSE {})

OneMethod(d, c, x) ==
  \E method \in {"key", "jwk", "peer", "web"}, vm \in MethodsOf("key", c, x),
     auth \in SUBSET {"key"}, agree \in SUBSET {"key"} :
    /\ d = Document(method, <<vm>>, auth, agree)
    /\ method = "key" /\ c = "X25519" => auth = {} /\ agree = {"key"}

TwoMethods(d, c, x) ==
  /\ c = "Ed25519" /\ x = K
  /\ \E vm \in MethodsOf("key", c, x), extra \in MethodsOf("derived", "X25519", <<"derived", K>>) :
       d = Document("key", <<vm, extra>>, {"key"}, {"derived"})

(* The documents from elsewhere.                                           *)
RemoteTypes(c) == {DecodeMultibasePublicKeyWithType(KeyTypeToMultiCodec(c)), "JsonWebKey2020"}
RemoteMethods(c, x) ==
  {VerificationMethod("key", type, Nil, b) : type \in RemoteTypes(c), b \in PubBytesOf(c, x)}

Remote(d, c, x) ==
  /\ c \in Supported
  /\ \E vm \in RemoteMethods(c, x) : d = Document("remote", <<vm>>, {"key"}, {})

(* The key material that belongs to the generated key.                     *)
Mine(c, x) ==
  \/ x = K /\ c = Curve(keyType)
  \/ x = <<"derived", K>> /\ c = "X25519" /\ keyType = "Ed25519"

PrivForm(r, c) ==
  r \in KeysOf(c, K) \cup PrivBytesOf(c, K) \cup JWKsOf(c, K) \cup SignersOf(c, K)

PubForm(r, c, x) ==
  \/ r \in KeysOf(c, x) \cup PubBytesOf(c, x) \cup JWKsOf(c, x) \cup VerifiersOf(c, x)
  \/ KeyDID(r, c, x) \/ PeerDID(r, c, x) \/ JWKDID(r, c, x)
  \/ OneMethod(r, c, x) \/ TwoMethods(r, c, x) \/ Remote(r, c, x)

PrivOK == priv # Nil => \E c \in Curves : c = Curve(keyType) /\ PrivForm(priv, c)

PubOK == pub # Nil => \E c \in Curves, x \in Material : Mine(c, x) /\ PubForm(pub, c, x)

TokenOK ==
  token # Nil => \E c \in Curves, call \in {"jwt", "jws", "detached"} :
    /\ c = Curve(keyType) /\ c \notin {"X25519", "P-224"}
    /\ token = TokenOf(call, c)

KeyTypeOK ==
  \/ keyType = Nil /\ priv = Nil /\ pub = Nil /\ token = Nil
  \/ keyType \in KeyTypes

FailedOK == ConversionsFailForAReason /\ SameKeyVerifies

KeyInv == KeyTypeOK /\ PrivOK /\ PubOK /\ TokenOK /\ FailedOK

(***************************************************************************)
(* What the conversions do with the representations of x.                  *)
(***************************************************************************)
LEMMA Alphabet ==
  ASSUME NEW c \in Curves
  PROVE  c \in {"P-224", "P-256", "P-384", "P-521", "Ed25519", "X25519", "secp256k1",
                "Dilithium2", "Dilithium3", "Dilithium5", "RSA"}
BY DEF Curves, KeyTypes, NIST, Edwards, Koblitz, Dilithium

LEMMA NamesOfCurves ==
  ASSUME NEW c \in Curves
  PROVE  /\ GoTypes(c) \subseteq KeyTypes
         /\ \A go \in GoTypes(c) : Curve(go) = c /\ SECP256k1ECDSAToSECP256k1(Key(go, K)).go = c
         /\ JOSEType(c) \in GoTypes(c)
BY Alphabet DEF Curves, KeyTypes, NIST, Edwards, Koblitz, Dilithium, GoTypes, Curve, JOSEType,
   SECP256k1ECDSAToSECP256k1, Key

(* Kinds of JWK.                                                           *)
LEMMA JWKKinds ==
  ASSUME NEW c \in Curves
  PROVE  /\ c = "RSA" => Kty(c) = "RSA" /\ Crv(c) = "" /\ Alg(c) = "PS256"
         /\ c \in Edwards => Kty(c) = "OKP" /\ Crv(c) = c /\ Alg(c) = c
         /\ c \in Dilithium => Kty(c) = "LWE" /\ Crv(c) = "" /\ Alg(c) \in ExperimentalAlgorithms
         /\ c \in (NIST \cup Koblitz) \ {"P-224"} =>
              Kty(c) = "EC" /\ Crv(c) = c /\ Alg(c) \in {"ES256K", "ES256", "ES384", "ES512"}
BY Alphabet DEF NIST, Edwards, Koblitz, Dilithium, Kty, Crv, Alg, AlgFromKeyAndCurve,
   DilithiumAlg, ExperimentalAlgorithms

LEMMA ToBytes ==
  ASSUME NEW c \in Curves, NEW x \in Material, NEW go \in GoTypes(c), NEW compressed \in BOOLEAN
  PROVE  /\ PubKeyToBytes(Key(go, x), compressed) \in PubBytesOf(c, x)
         /\ compressed => PubKeyToBytes(Key(go, x), compressed).enc # "pkix"
         /\ ~compressed /\ c \in NIST => PubKeyToBytes(Key(go, x), compressed).enc = "pkix"
         /\ PrivKeyToBytes(Key(go, x)) \in PrivBytesOf(c, x)
BY Alphabet DEF PubKeyToBytes, IsKey, PrivKeyToBytes, GetKeyTypeFromPrivateKey, PubBytesOf, PrivBytesOf,
   PubEncodings, PrivEncoding, GoTypes, Key, Bytes, SECP256k1ECDSAToSECP256k1,
   KeyTypes, NIST, Edwards, Koblitz, Dilithium

LEMMA FromBytes ==
  ASSUME NEW c \in Curves, NEW x \in Material, NEW enc \in PubEncodings(c), NEW go \in GoTypes(c)
  PROVE  BytesToPubKey(Bytes(enc, c, x), go, enc = "compressed") = Key(go, x)
BY Alphabet DEF BytesToPubKey, PubEncodings, GoTypes, Key, Bytes,
   KeyTypes, NIST, Edwards, Koblitz, Dilithium

LEMMA FromPrivBytes ==
  ASSUME NEW c \in Curves, NEW x \in Material, NEW go \in GoTypes(c)
  PROVE  BytesToPrivKey(Bytes(PrivEncoding(c), go, x), go) = Key(go, x)
BY Alphabet DEF BytesToPrivKey, PrivEncoding, GoTypes, Key, Bytes,
   KeyTypes, NIST, Edwards, Koblitz, Dilithium

(***************************************************************************)
(* Nothing that a call returns is an error.                                *)
(***************************************************************************)
LEMMA NamesAreWords ==
  ASSUME NEW c \in Curves
  PROVE  /\ Kty(c) \in Words /\ Crv(c) \in Words /\ c \in Words /\ c \in KeyTypes
         /\ PrivEncoding(c) \in Words /\ PubEncodings(c) \subseteq Words
         /\ c # "P-224" => Alg(c) \in Words /\ Algs(c) \subseteq Words
         /\ c \in Supported => KeyTypeToMultiCodec(c) \in Words
         /\ c \in Supported \ {"RSA"} => KeyTypeToMultikeyLDType(c) \in Words
<1>1. c \in KeyTypes /\ c \in Words /\ Kty(c) \in Words /\ Crv(c) \in Words
  BY Alphabet DEF Words, Curves, KeyTypes, Kty, Crv, NIST, Edwards, Koblitz, Dilithium
<1>2. PrivEncoding(c) \in Words /\ PubEncodings(c) \subseteq Words
  BY Alphabet DEF Words, PrivEncoding, PubEncodings, NIST, Edwards, Koblitz, Dilithium
<1>3. c # "P-224" => Alg(c) \in Words
  <2>1. c # "P-224" => Alg(c) \in SupportedAlgorithms \cup ExperimentalAlgorithms \cup KeyTypes
    <3>1. c \in {"RSA"} \cup Edwards \cup Dilithium \cup (NIST \cup Koblitz)
      BY Alphabet DEF NIST, Edwards, Koblitz, Dilithium
    <3> QED
      BY <1>1, <3>1, JWKKinds DEF SupportedAlgorithms
  <2> QED
    BY <2>1 DEF Words
<1>4. Algs(c) \subseteq Words
  <2>1. "EdDSA" \in Words
    BY DEF Words, SupportedAlgorithms
  <2> QED
    BY <1>3, <2>1 DEF Algs
<1>5. c \in Supported => KeyTypeToMultiCodec(c) \in Words
  BY DEF Supported, KeyTypeToMultiCodec, Words
<1>6. c \in Supported \ {"RSA"} => KeyTypeToMultikeyLDType(c) \in Words
  BY DEF Supported, KeyTypeToMultikeyLDType, Words
<1> QED
  BY <1>1, <1>2, <1>3, <1>4, <1>5, <1>6

LEMMA KeyIsValue ==
  ASSUME NEW c \in Curves, NEW x \in Material, NEW go \in GoTypes(c)
  PROVE  Key(go, x) \in KeyValue /\ Key(go, x) # Nil
BY NamesOfCurves, KeyAssumption DEF Key, KeyValue

LEMMA BytesAreValues ==
  ASSUME NEW c \in Curves, NEW x \in Material
  PROVE  /\ \A enc \in PubEncodings(c) : Bytes(enc, c, x) \in BytesValue /\ Bytes(enc, c, x) # Nil
         /\ \A go \in GoTypes(c) : Bytes(PrivEncoding(c), go, x) # Nil
<1>1. /\ \A enc \in PubEncodings(c) : Bytes(enc, c, x) \in BytesValue
      /\ \A go \in GoTypes(c) : Bytes(PrivEncoding(c), go, x) \in BytesValue
  BY NamesOfCurves, NamesAreWords DEF Bytes, BytesValue
<1> QED
  BY <1>1, KeyAssumption

LEMMA JWKIsValue ==
  ASSUME NEW c \in Curves, NEW x \in Material, NEW alg \in Algs(c) \cup {""}
  PROVE  JWKOf(c, alg, x) \in JWKValue /\ JWKOf(c, alg, x) # Nil
<1>1. JWKOf(c, alg, x) \in JWKValue
  <2>1. alg \in Words
    BY NamesAreWords DEF Words, Algs
  <2> QED
    BY <2>1, NamesAreWords DEF JWKOf, JWK, JWKValue
<1> QED
  BY <1>1, KeyAssumption

LEMMA JWSIsValue ==
  ASSUME NEW c \in Curves, NEW x \in Material, NEW alg \in Algs(c)
  PROVE  JWSOf(c, alg, x) # Nil
<1>1. JWSOf(c, alg, x) \in JWSValue
  BY JWKIsValue, NamesOfCurves DEF JWSOf, WithKey, Key, JWSValue
<1> QED
  BY <1>1, KeyAssumption

LEMMA MethodIsValue ==
  ASSUME NEW id \in {"key", "derived"}, NEW c \in Curves, NEW x \in Material
  PROVE  /\ \A vm \in MethodsOf(id, c, x) : vm \in MethodValue /\ vm # Nil /\ vm.id = id
         /\ \A alg \in Algs(c) \cup {""} : 
              c # "P-224" =>
              VerificationMethod(id, "JsonWebKey2020", JWKOf(c, alg, x), Nil) \in MethodsOf(id, c, x)
         /\ c \in Supported \ {"RSA"} => \A enc \in PubEncodings(c) :
              VerificationMethod(id, KeyTypeToMultikeyLDType(c), Nil, Bytes(enc, c, x))
                \in MethodsOf(id, c, x)
<1>1. ASSUME NEW alg \in Algs(c) \cup {""}
      PROVE  LET vm == VerificationMethod(id, "JsonWebKey2020", JWKOf(c, alg, x), Nil)
             IN  vm \in MethodValue /\ vm # Nil
  <2>1. VerificationMethod(id, "JsonWebKey2020", JWKOf(c, alg, x), Nil) \in MethodValue
    <3>1. id \in Words /\ "JsonWebKey2020" \in Words
      BY DEF Words
    <3> QED
      BY <3>1, JWKIsValue DEF VerificationMethod, MethodValue
  <2> QED
    BY <2>1, KeyAssumption
<1>2. ASSUME NEW enc \in PubEncodings(c), c \in Supported \ {"RSA"}
      PROVE  LET vm == VerificationMethod(id, KeyTypeToMultikeyLDType(c), Nil, Bytes(enc, c, x))
             IN  vm \in MethodValue /\ vm # Nil
  <2>0. c \in GoTypes(c)
    BY DEF GoTypes, Koblitz
  <2>1. KeyTypeToMultikeyLDType(c) \in Words /\ id \in Words
    BY <1>2, NamesAreWords DEF Words
  <2>2. Bytes(enc, c, x) \in BytesValue
    BY <2>0, BytesAreValues
  <2>3. VerificationMethod(id, KeyTypeToMultikeyLDType(c), Nil, Bytes(enc, c, x)) \in MethodValue
    BY <2>1, <2>2 DEF VerificationMethod, MethodValue
  <2> QED
    BY <2>3, KeyAssumption
<1>3. ASSUME NEW vm \in MethodsOf(id, c, x)
      PROVE  vm \in MethodValue /\ vm # Nil /\ vm.id = id
  <2>1. CASE vm \in {VerificationMethod(id, "JsonWebKey2020", jwk, Nil) : jwk \in JWKsOf(c, x)}
    <3>1. PICK alg \in Algs(c) \cup {""} :
            vm = VerificationMethod(id, "JsonWebKey2020", JWKOf(c, alg, x), Nil)
      BY <2>1 DEF JWKsOf
    <3> QED
      BY <3>1, <1>1 DEF VerificationMethod
  <2>2. CASE c \in Supported \ {"RSA"} /\ vm \in
               {VerificationMethod(id, KeyTypeToMultikeyLDType(c), Nil, b) : b \in PubBytesOf(c, x)}
    <3>1. PICK enc \in PubEncodings(c) :
            vm = VerificationMethod(id, KeyTypeToMultikeyLDType(c), Nil, Bytes(enc, c, x))
      BY <2>2 DEF PubBytesOf
    <3> QED
      BY <2>2, <3>1, <1>2 DEF VerificationMethod
  <2> QED
    BY <2>1, <2>2 DEF MethodsOf
<1> QED
  BY <1>3 DEF MethodsOf, JWKsOf, PubBytesOf

(***************************************************************************)
(* Conversions to and from JWKs, and to signers and verifiers.             *)
(***************************************************************************)
LEMMA ToJWK ==
  ASSUME NEW c \in Curves, NEW x \in Material, NEW go \in GoTypes(c), x # NoPoint \/ c = "X25519"
  PROVE  /\ PublicKeyToPublicKeyJWK(Key(go, x)) =
              IF c = "P-224" THEN Nil ELSE JWKOf(c, Alg(c), x)
         /\ PrivateKeyToPrivateKeyJWK(Key(go, x)) = PublicKeyToPublicKeyJWK(Key(go, x))
<1> DEFINE k == Key(go, x)
           j == JWKOf(c, IF c \in Dilithium THEN Alg(c) ELSE "", x)
<1>1. jwkFromKey(k) = IF c = "P-224" THEN Nil ELSE j
  BY Alphabet DEF jwkFromKey, jwkFromRSA, jwkFromOKP, jwkFromEC, jwkFromDilithium, JWKOf, JWK, Key,
     Kty, Crv, Alg, SECP256k1ECDSAToSECP256k1, GoTypes, NIST, Edwards, Koblitz, Dilithium
<1>2. c # "P-224" => j # Nil
  BY JWKIsValue DEF Algs
<1>3. c # "P-224" => WithAlg(j, AlgFromKeyAndCurve(j.kty, j.crv)) = JWKOf(c, Alg(c), x)
  <2>1. CASE c \in Dilithium
    <3>1. j = JWK(Kty(c), Crv(c), Alg(c), x) /\ j # Nil
      BY <1>2, <2>1 DEF JWKOf, Dilithium
    <3>2. Alg(c) # ""
      BY <2>1, JWKKinds DEF ExperimentalAlgorithms
    <3> HIDE DEF j
    <3> QED
      BY <3>1, <3>2 DEF WithAlg, JWK, JWKOf
  <2>2. CASE c \notin Dilithium /\ c # "P-224"
    <3>1. j = JWK(Kty(c), Crv(c), "", x) /\ j # Nil /\ Alg(c) = AlgFromKeyAndCurve(Kty(c), Crv(c))
      BY <1>2, <2>2 DEF JWKOf, Alg
    <3>2. Alg(c) # Nil
      BY <2>2, NamesAreWords, KeyAssumption
    <3> HIDE DEF j
    <3> QED
      BY <3>1, <3>2 DEF WithAlg, JWK, JWKOf
  <2> QED
    BY <2>1, <2>2
<1> HIDE DEF j
<1>0. IsKey(k)
  BY DEF IsKey, Key
<1> HIDE DEF k
<1>4. PublicKeyToPublicKeyJWK(k) = IF c = "P-224" THEN Nil ELSE JWKOf(c, Alg(c), x)
  BY <1>0, <1>1, <1>2, <1>3 DEF PublicKeyToPublicKeyJWK
<1>5. PrivateKeyToPrivateKeyJWK(k) = PublicKeyToPublicKeyJWK(k)
  BY <1>0 DEF PublicKeyToPublicKeyJWK, PrivateKeyToPrivateKeyJWK
<1> QED
  BY <1>4, <1>5 DEF k

(* Bytes are not taken for a key.                                          *)
LEMMA BytesAreNoKey ==
  ASSUME NEW enc, NEW c, NEW x, NEW compressed, NEW kt
  PROVE  LET b == Bytes(enc, c, x) IN
         /\ PubKeyToBytes(b, compressed) = Nil
         /\ PublicKeyToPublicKeyJWK(b) = Nil
         /\ NewJWXVerifier(b) = Nil
         /\ GenerateDIDPeer(kt, b) = Nil
<1> DEFINE b == Bytes(enc, c, x)
<1>1. ~IsKey(b)
  BY DEF IsKey, Bytes
<1> HIDE DEF b
<1>2. \A z \in {FALSE, compressed} : PubKeyToBytes(b, z) = Nil
  BY <1>1 DEF PubKeyToBytes
<1>3. PublicKeyToPublicKeyJWK(b) = Nil
  BY <1>1 DEF PublicKeyToPublicKeyJWK
<1>4. NewJWXVerifier(b) = Nil
  BY <1>3 DEF NewJWXVerifier
<1>5. GenerateDIDPeer(kt, b) = Nil
  BY <1>2 DEF GenerateDIDPeer
<1> QED
  BY <1>2, <1>3, <1>4, <1>5 DEF b

(* The JWK that ToPrivateKey and ToPublicKey leave behind.                 *)
LEMMA Completed ==
  ASSUME NEW c \in Curves, c # "P-224", NEW x \in Material, NEW alg \in Algs(c) \cup {""}
  PROVE  /\ c \in Dilithium /\ alg = "" => /\ CompletedPrivate(JWKOf(c, alg, x)) = Nil
                                           /\ CompletedPublic(JWKOf(c, alg, x)) = Nil
         /\ ~(c \in Dilithium /\ alg = "") =>
              \E a, b \in Algs(c) : /\ CompletedPrivate(JWKOf(c, alg, x)) = JWKOf(c, a, x)
                                    /\ CompletedPublic(JWKOf(c, alg, x)) = JWKOf(c, b, x)
<1> DEFINE j == JWKOf(c, alg, x)
           found == AlgFromKeyAndCurve(Kty(c), Crv(c))
<1>1. j # Nil /\ j.kty = Kty(c) /\ j.crv = Crv(c) /\ j.alg = alg
  BY JWKIsValue DEF JWKOf, JWK
<1>2. CASE alg # ""
  <2>1. CompletedPrivate(j) = j /\ CompletedPublic(j) = j
    <3> HIDE DEF j
    <3> QED
      BY <1>1, <1>2 DEF CompletedPrivate, CompletedPublic, WithAlg
  <2> QED
    BY <2>1, <1>2
<1>3. CASE alg = "" /\ c \in Dilithium
  <2>1. found = Nil
    BY <1>3, JWKKinds DEF AlgFromKeyAndCurve
  <2>2. found # "Ed25519"
    BY <2>1, KeyAssumption DEF Words, SupportedAlgorithms
  <2> QED
    BY <1>1, <1>3, <2>1, <2>2 DEF CompletedPrivate, CompletedPublic, WithAlg
<1>4. CASE alg = "" /\ c \notin Dilithium
  <2>1. found = Alg(c) /\ found # Nil /\ found \in Algs(c)
    BY <1>4, NamesAreWords, KeyAssumption DEF Alg, Algs
  <2>2. found = "Ed25519" => c = "Ed25519"
    BY <1>4, <2>1, Alphabet, JWKKinds DEF NIST, Edwards, Koblitz, Dilithium
  <2>3. "EdDSA" # Nil
    BY KeyAssumption DEF Words, SupportedAlgorithms
  <2>4. CompletedPublic(j) = JWKOf(c, found, x)
    BY <1>1, <1>4, <2>1 DEF CompletedPublic, WithAlg, JWKOf, JWK
  <2>5. CASE found = "Ed25519"
    <3>1. CompletedPrivate(j) = JWKOf(c, "EdDSA", x)
      BY <1>1, <1>4, <2>3, <2>5 DEF CompletedPrivate, WithAlg, JWKOf, JWK
    <3>2. "EdDSA" \in Algs(c)
      BY <2>2, <2>5 DEF Algs
    <3> QED
      BY <1>4, <2>1, <2>4, <3>1, <3>2
  <2>6. CASE found # "Ed25519"
    <3>1. CompletedPrivate(j) = JWKOf(c, found, x)
      BY <1>1, <1>4, <2>1, <2>6 DEF CompletedPrivate, WithAlg, JWKOf, JWK
    <3> QED
      BY <1>4, <2>1, <2>4, <3>1
  <2> QED
    BY <2>5, <2>6
<1> QED
  BY <1>2, <1>3, <1>4

LEMMA AlgsOfKinds ==
  ASSUME NEW c \in Curves, c # "P-224", NEW a \in Algs(c)
  PROVE  /\ a # ""
         /\ c \in Dilithium => a \in ExperimentalAlgorithms \ SupportedAlgorithms /\ a = DilithiumAlg(c)
         /\ c \notin Dilithium \cup {"X25519"} => a \in SupportedAlgorithms
         /\ c = "X25519" => a = "X25519"
         /\ c # "Ed25519" => a = Alg(c)
<1>1. c \in {"RSA"} \cup Edwards \cup Dilithium \cup (NIST \cup Koblitz)
  BY Alphabet DEF NIST, Edwards, Koblitz, Dilithium
<1>2. a = Alg(c) \/ (c = "Ed25519" /\ a = "EdDSA")
  BY DEF Algs
<1>3. CASE c \in Dilithium
  <2>1. a = Alg(c) /\ Alg(c) \in ExperimentalAlgorithms /\ Alg(c) = DilithiumAlg(c)
    BY <1>2, <1>3, JWKKinds DEF Dilithium, Alg
  <2> QED
    BY <1>3, <2>1 DEF ExperimentalAlgorithms, SupportedAlgorithms, Dilithium
<1>4. CASE c \in NIST \cup Koblitz
  <2>1. a = Alg(c) /\ Alg(c) \in {"ES256K", "ES256", "ES384", "ES512"}
    BY <1>2, <1>4, JWKKinds DEF NIST, Koblitz
  <2> QED
    BY <1>4, <2>1 DEF SupportedAlgorithms, Dilithium, NIST, Koblitz
<1>5. CASE c \in {"RSA"} \cup Edwards
  <2>1. a \in {"PS256", c, "EdDSA"} /\ (c # "Ed25519" => a = Alg(c)) /\ (c = "X25519" => a = c)
        /\ (c = "RSA" => a = "PS256")
    BY <1>2, <1>5, JWKKinds
  <2> QED
    BY <1>5, <2>1 DEF SupportedAlgorithms, Dilithium, Edwards
<1> QED
  BY <1>1, <1>3, <1>4, <1>5

LEMMA DilithiumChosen ==
  ASSUME NEW c \in Dilithium, NEW j \in JWKValue, j.alg = DilithiumAlg(c)
  PROVE  toDilithiumKey(j) = Key(c, j.key)
<1>1. \A kt \in Dilithium : DilithiumAlg(kt) = DilithiumAlg(c) => kt = c
  BY DEF Dilithium, DilithiumAlg
<1>2. (CHOOSE kt \in Dilithium : DilithiumAlg(kt) = j.alg) = c
  BY <1>1
<1> QED
  BY <1>2 DEF toDilithiumKey

LEMMA SupportedKeyOfJWK ==
  ASSUME NEW c \in Curves, c # "P-224", NEW x \in Material, NEW alg \in Algs(c) \cup {""}
  PROVE  toSupportedKey(JWKOf(c, alg, x)) = IF c \in Dilithium THEN Nil ELSE Key(JOSEType(c), x)
<1> DEFINE j == JWKOf(c, alg, x)
<1>1. j.kty = Kty(c) /\ j.crv = Crv(c) /\ j.key = x
  BY DEF JWKOf, JWK
<1>2. c \in {"RSA"} \cup Edwards \cup Dilithium \cup ((NIST \cup Koblitz) \ {"P-224"})
  BY Alphabet DEF NIST, Edwards, Koblitz, Dilithium
<1>3. CASE c = "RSA"
  <2>1. j.kty = "RSA" /\ JOSEType(c) = "RSA" /\ c \notin Dilithium
    BY <1>1, <1>3, JWKKinds DEF JOSEType, Dilithium
  <2> HIDE DEF j
  <2> QED
    BY <1>1, <2>1 DEF toSupportedKey, j
<1>4. CASE c \in Dilithium
  <2>1. j.kty = "LWE"
    BY <1>1, <1>4, JWKKinds
  <2> HIDE DEF j
  <2> QED
    BY <1>4, <2>1 DEF toSupportedKey, j
<1>5. CASE c # "RSA" /\ c \notin Dilithium
  <2>1. j.kty \in {"OKP", "EC"} /\ j.crv = c
    BY <1>1, <1>2, <1>5, JWKKinds
  <2> HIDE DEF j
  <2> QED
    BY <1>1, <1>5, <2>1 DEF toSupportedKey, JOSEType, j
<1> QED
  BY <1>3, <1>4, <1>5

LEMMA KeyOfJWK ==
  ASSUME NEW c \in Curves, c # "P-224", NEW x \in Material, NEW a \in Algs(c)
  PROVE  keyOfJWK(JWKOf(c, a, x)) = Key(JOSEType(c), x)
<1> DEFINE j == JWKOf(c, a, x)
<1>1. j # Nil /\ j.kty = Kty(c) /\ j.crv = Crv(c) /\ j.alg = a /\ j.key = x
  BY JWKIsValue DEF JWKOf, JWK
<1>2. CASE c \in Dilithium
  <2>1. Crv(c) = "" /\ a \in ExperimentalAlgorithms \ SupportedAlgorithms /\ a = DilithiumAlg(c)
    BY <1>2, AlgsOfKinds, JWKKinds
  <2>2. keyOfJWK(j) = toDilithiumKey(j)
    <3> HIDE DEF j
    <3> QED
      BY <1>1, <2>1 DEF keyOfJWK, KeyAgreementTypes
  <2>3. toDilithiumKey(j) = Key(c, x)
    BY <1>1, <1>2, <2>1, JWKIsValue, DilithiumChosen
  <2>4. JOSEType(c) = c
    BY <1>2 DEF JOSEType, Dilithium
  <2> QED
    BY <2>2, <2>3, <2>4
<1>3. CASE c \notin Dilithium
  <2>1. a \in SupportedAlgorithms \/ Crv(c) = "X25519"
    BY <1>3, AlgsOfKinds, JWKKinds DEF Edwards
  <2>2. keyOfJWK(j) = toSupportedKey(j)
    <3> HIDE DEF j
    <3> QED
      BY <1>1, <2>1 DEF keyOfJWK, KeyAgreementTypes
  <2>4. toSupportedKey(j) = Key(JOSEType(c), x)
    BY <1>3, SupportedKeyOfJWK
  <2> QED
    BY <2>2, <2>4
<1> QED
  BY <1>2, <1>3

LEMMA FromJWK ==
  ASSUME NEW c \in Curves, c # "P-224", NEW x \in Material, NEW alg \in Algs(c) \cup {""}
  PROVE  /\ c \in Dilithium /\ alg = "" => /\ ToPrivateKey(JWKOf(c, alg, x)) = Nil
                                           /\ ToPublicKey(JWKOf(c, alg, x)) = Nil
         /\ ~(c \in Dilithium /\ alg = "") =>
              /\ ToPrivateKey(JWKOf(c, alg, x)) = Key(JOSEType(c), x)
              /\ ToPublicKey(JWKOf(c, alg, x)) = Key(JOSEType(c), x)
<1> DEFINE j == JWKOf(c, alg, x)
<1>1. CASE c \in Dilithium /\ alg = ""
  <2>1. CompletedPrivate(j) = Nil /\ CompletedPublic(j) = Nil
    BY <1>1, Completed
  <2> HIDE DEF j
  <2>2. ToPrivateKey(j) = Nil /\ ToPublicKey(j) = Nil
    BY <2>1 DEF ToPrivateKey, ToPublicKey, keyOfJWK
  <2> QED
    BY <1>1, <2>2 DEF j
<1>2. CASE ~(c \in Dilithium /\ alg = "")
  <2>1. \E a, b \in Algs(c) : CompletedPrivate(j) = JWKOf(c, a, x) /\ CompletedPublic(j) = JWKOf(c, b, x)
    BY <1>2, Completed
  <2> HIDE DEF j
  <2>2. ToPrivateKey(j) = Key(JOSEType(c), x) /\ ToPublicKey(j) = Key(JOSEType(c), x)
    BY <2>1, KeyOfJWK DEF ToPrivateKey, ToPublicKey
  <2> QED
    BY <1>2, <2>2 DEF j
<1> QED
  BY <1>1, <1>2

LEMMA ForJWX ==
  ASSUME NEW c \in Curves, NEW x \in Material, NEW go \in GoTypes(c)
  PROVE  keyForJWX(Key(go, x)) = Key(JOSEType(c), x)
BY Alphabet DEF keyForJWX, Key, JOSEType, GoTypes, Koblitz

LEMMA MakeJWS ==
  ASSUME NEW c \in Curves, c # "P-224", NEW x \in Material, NEW a \in Algs(c), NEW go \in GoTypes(c)
  PROVE  /\ jwxSigner(JWKOf(c, a, x), Key(go, x)) = IF c = "X25519" THEN Nil ELSE JWSOf(c, a, x)
         /\ jwxVerifier(JWKOf(c, a, x), Key(go, x)) =
              IF c = "X25519" \/ c \in Dilithium THEN Nil ELSE JWSOf(c, a, x)
<1> DEFINE j == JWKOf(c, a, x)
           k == Key(go, x)
<1>1. j.kty = Kty(c) /\ j.alg = a
  BY DEF JWKOf, JWK
<1>2. WithKey(j, keyForJWX(k)) = JWSOf(c, a, x)
  BY ForJWX DEF JWSOf
<1>3. Kty(c) \notin KeyAgreementTypes
  <2>1. c \in {"RSA"} \cup Edwards \cup Dilithium \cup ((NIST \cup Koblitz) \ {"P-224"})
    BY Alphabet DEF NIST, Edwards, Koblitz, Dilithium
  <2> QED
    BY <2>1, JWKKinds DEF KeyAgreementTypes
<1>4. /\ c = "X25519" => a \notin SupportedAlgorithms \cup ExperimentalAlgorithms
      /\ c \in Dilithium => a \in ExperimentalAlgorithms /\ a \notin SupportedAlgorithms
      /\ c \notin Dilithium \cup {"X25519"} => a \in SupportedAlgorithms
  BY AlgsOfKinds DEF SupportedAlgorithms, ExperimentalAlgorithms
<1>5. "X25519" \notin Dilithium
  BY DEF Dilithium
<1> HIDE DEF j, k
<1> QED
  BY <1>1, <1>2, <1>3, <1>4, <1>5 DEF jwxSigner, jwxVerifier, j, k

LEMMA SignerOfKey ==
  ASSUME NEW c \in Curves, NEW x \in Material, NEW go \in GoTypes(c), x # NoPoint \/ c = "X25519"
  PROVE  /\ NewJWXSigner(Key(go, x)) =
              IF c \in {"X25519", "P-224"} THEN Nil ELSE JWSOf(c, Alg(c), x)
         /\ NewJWXVerifier(Key(go, x)) =
              IF c \in {"X25519", "P-224"} \cup Dilithium THEN Nil ELSE JWSOf(c, Alg(c), x)
<1> DEFINE k == Key(go, x)
<1>1. CASE c = "P-224"
  <2>1. PrivateKeyToPrivateKeyJWK(k) = Nil /\ PublicKeyToPublicKeyJWK(k) = Nil
    BY <1>1, ToJWK
  <2> HIDE DEF k
  <2> QED
    BY <1>1, <2>1 DEF NewJWXSigner, NewJWXVerifier, k
<1>2. CASE c # "P-224"
  <2>1. /\ PrivateKeyToPrivateKeyJWK(k) = JWKOf(c, Alg(c), x)
        /\ PublicKeyToPublicKeyJWK(k) = JWKOf(c, Alg(c), x)
    BY <1>2, ToJWK
  <2>2. Alg(c) \in Algs(c)
    BY <1>2 DEF Algs
  <2>3. JWKOf(c, Alg(c), x) # Nil
    BY <2>2, JWKIsValue
  <2>4. /\ jwxSigner(JWKOf(c, Alg(c), x), k) = IF c = "X25519" THEN Nil ELSE JWSOf(c, Alg(c), x)
        /\ jwxVerifier(JWKOf(c, Alg(c), x), k) =
              IF c = "X25519" \/ c \in Dilithium THEN Nil ELSE JWSOf(c, Alg(c), x)
    BY <1>2, <2>2, MakeJWS
  <2> HIDE DEF k
  <2> QED
    BY <1>2, <2>1, <2>3, <2>4 DEF NewJWXSigner, NewJWXVerifier, k
<1> QED
  BY <1>1, <1>2

LEMMA SignerOfJWK ==
  ASSUME NEW c \in Curves, c # "P-224", NEW x \in Material, NEW alg \in Algs(c) \cup {""}
  PROVE  /\ \/ /\ NewJWXSignerFromJWK(JWKOf(c, alg, x)) = Nil
               /\ c = "X25519" \/ (c \in Dilithium /\ alg = "")
            \/ NewJWXSignerFromJWK(JWKOf(c, alg, x)) \in SignersOf(c, x)
         /\ \/ /\ NewJWXVerifierFromJWK(JWKOf(c, alg, x)) = Nil
               /\ c = "X25519" \/ c \in Dilithium
            \/ NewJWXVerifierFromJWK(JWKOf(c, alg, x)) \in VerifiersOf(c, x)
<1> DEFINE j == JWKOf(c, alg, x)
<1>1. CASE c \in Dilithium /\ alg = ""
  <2>1. ToPrivateKey(j) = Nil /\ ToPublicKey(j) = Nil
    BY <1>1, FromJWK
  <2> HIDE DEF j
  <2> QED
    BY <1>1, <2>1 DEF NewJWXSignerFromJWK, NewJWXVerifierFromJWK, j
<1>2. CASE ~(c \in Dilithium /\ alg = "")
  <2>1. /\ ToPrivateKey(j) = Key(JOSEType(c), x) /\ ToPublicKey(j) = Key(JOSEType(c), x)
        /\ Key(JOSEType(c), x) # Nil
    BY <1>2, FromJWK, NamesOfCurves, KeyIsValue
  <2>2. PICK a \in Algs(c), b \in Algs(c) :
          CompletedPrivate(j) = JWKOf(c, a, x) /\ CompletedPublic(j) = JWKOf(c, b, x)
    BY <1>2, Completed
  <2>3. /\ NewJWXSignerFromJWK(j) = jwxSigner(JWKOf(c, a, x), Key(JOSEType(c), x))
        /\ NewJWXVerifierFromJWK(j) = jwxVerifier(JWKOf(c, b, x), Key(JOSEType(c), x))
    <3> HIDE DEF j
    <3> QED
      BY <2>1, <2>2 DEF NewJWXSignerFromJWK, NewJWXVerifierFromJWK
  <2>4. /\ NewJWXSignerFromJWK(j) = IF c = "X25519" THEN Nil ELSE JWSOf(c, a, x)
        /\ NewJWXVerifierFromJWK(j) =
             IF c = "X25519" \/ c \in Dilithium THEN Nil ELSE JWSOf(c, b, x)
    BY <2>3, NamesOfCurves, MakeJWS
  <2> HIDE DEF j
  <2> QED
    BY <2>4 DEF SignersOf, VerifiersOf, j
<1> QED
  BY <1>1, <1>2

LEMMA PublicJWK ==
  ASSUME NEW c \in Curves, c # "P-224", NEW x \in Material, NEW alg \in Algs(c) \cup {""}
  PROVE  ToPublicKeyJWK(JWKOf(c, alg, x)) = JWKOf(c, alg, x)
BY DEF ToPublicKeyJWK, AlgFromKeyAndCurve, JWKOf, JWK

LEMMA VerifierOfSigner ==
  ASSUME NEW c \in Curves, c # "P-224", NEW x \in Material, NEW a \in Algs(c)
  PROVE  \/ ToVerifier(JWSOf(c, a, x)) = Nil /\ (c = "X25519" \/ c \in Dilithium)
         \/ ToVerifier(JWSOf(c, a, x)) \in VerifiersOf(c, x)
<1>1. ToVerifier(JWSOf(c, a, x)) = NewJWXVerifierFromJWK(JWKOf(c, a, x))
  BY PublicJWK DEF ToVerifier, JWSOf, WithKey
<1> QED
  BY <1>1, SignerOfJWK

(***************************************************************************)
(* Signing and verifying.                                                  *)
(***************************************************************************)
LEMMA LibraryKnows ==
  ASSUME NEW c \in Curves, c \notin {"P-224", "X25519"}, NEW a \in Algs(c),
         NEW call \in {"jwt", "jws", "detached"}
  PROVE  /\ JOSEType(c) \in LibraryKeys(LibraryAlg(c))
         /\ \/ AlgForLibrary(call, a) = LibraryAlg(c)
            \/ call = "jws" /\ a = "Ed25519" /\ LibraryKeys(AlgForLibrary(call, a)) = {}
<1>1. JOSEType(c) \in LibraryKeys(LibraryAlg(c))
  BY Alphabet DEF JOSEType, LibraryKeys, LibraryAlg, Alg, DilithiumAlg, AlgFromKeyAndCurve, Kty, Crv,
     NIST, Edwards, Koblitz, Dilithium, ExperimentalAlgorithms
<1>2. LibraryKeys("Ed25519") = {}
  BY DEF LibraryKeys, ExperimentalAlgorithms
<1>3. CASE c = "Ed25519"
  <2>1. a \in {"Ed25519", "EdDSA"}
    BY <1>3, JWKKinds DEF Algs, Edwards
  <2> QED
    BY <1>1, <1>2, <1>3, <2>1 DEF AlgForLibrary, LibraryAlg
<1>4. CASE c # "Ed25519"
  <2>1. a = Alg(c)
    BY <1>4, AlgsOfKinds
  <2>2. Alg(c) # "Ed25519"
    BY <1>4, Alphabet DEF Alg, DilithiumAlg, AlgFromKeyAndCurve, Kty, Crv,
       NIST, Edwards, Koblitz, Dilithium
  <2> QED
    BY <1>1, <1>4, <2>1, <2>2 DEF AlgForLibrary, LibraryAlg
<1> QED
  BY <1>3, <1>4

LEMMA Signs ==
  ASSUME NEW c \in Curves, c \notin {"P-224", "X25519"}, NEW a \in Algs(c),
         NEW call \in {"jwt", "jws", "detached"}
  PROVE  \/ Sign(JWSOf(c, a, K), call) = Nil /\ call = "jws" /\ a = "Ed25519"
         \/ Sign(JWSOf(c, a, K), call) = TokenOf(call, c) /\ TokenOf(call, c) # Nil
<1> DEFINE s == JWSOf(c, a, K)
<1>1. s.jwk.alg = a /\ s.go = JOSEType(c) /\ s.key = K
  BY DEF JWSOf, WithKey, JWKOf, JWK, Key
<1>2. TokenOf(call, c) # Nil
  <2>1. TokenOf(call, c) \in TokenValue
    <3>1. LibraryAlg(c) \in Words
      BY NamesAreWords DEF LibraryAlg, Words, SupportedAlgorithms
    <3>2. JOSEType(c) \in KeyTypes /\ K \in Material
      BY NamesOfCurves DEF Material
    <3>3. call \in Words
      BY DEF Words
    <3> QED
      BY <3>1, <3>2, <3>3 DEF TokenOf, TokenValue
  <2> QED
    BY <2>1, KeyAssumption
<1> HIDE DEF s
<1>3. \/ Sign(s, call) = Nil /\ call = "jws" /\ a = "Ed25519"
      \/ Sign(s, call) = TokenOf(call, c)
  BY <1>1, LibraryKnows DEF Sign, TokenOf
<1> QED
  BY <1>2, <1>3 DEF s

LEMMA Verifies ==
  ASSUME NEW c \in Curves, c \notin {"P-224", "X25519"}, NEW a \in Algs(c),
         NEW call \in {"jwt", "jws", "detached"}, NEW how \in {"jwt", "jws", "detached"}
  PROVE  \/ Verify(JWSOf(c, a, K), call, TokenOf(how, c))
         \/ call = "jws" /\ a = "Ed25519"
<1> DEFINE s == JWSOf(c, a, K)
<1>1. s.jwk.alg = a /\ s.go = JOSEType(c) /\ s.key = K
  BY DEF JWSOf, WithKey, JWKOf, JWK, Key
<1> HIDE DEF s
<1>2. Verify(s, call, TokenOf(how, c)) \/ (call = "jws" /\ a = "Ed25519")
  BY <1>1, LibraryKnows DEF Verify, TokenOf
<1> QED
  BY <1>2 DEF s

(***************************************************************************)
(* Identifiers and documents.                                              *)
(***************************************************************************)
LEMMA CodecsAreInverse ==
  ASSUME NEW c \in Supported
  PROVE  MultiCodecToKeyType(KeyTypeToMultiCodec(c)) = c
BY DEF Supported, MultiCodecToKeyType, KeyTypeToMultiCodec

LEMMA OwnName ==
  ASSUME NEW c \in Curves
  PROVE  c \in GoTypes(c)
BY DEF GoTypes, Koblitz

(* A verification method is always built from the bytes as if they were    *)
(* compressed: uncompressed ones give a key without coordinates, which has *)
(* no JWK.                                                                 *)
LEMMA JWKMethod ==
  ASSUME NEW id \in {"key", "derived"}, NEW c \in Curves, NEW x \in Material,
         NEW enc \in PubEncodings(c), x # NoPoint \/ c = "X25519"
  PROVE  ConstructJWKVerificationMethod(id, Bytes(enc, c, x), c) =
           IF c = "P-224" \/ enc = "pkix" THEN Nil
           ELSE VerificationMethod(id, "JsonWebKey2020", JWKOf(c, Alg(c), x), Nil)
<1> DEFINE b == Bytes(enc, c, x)
<1>1. CASE enc = "pkix"
  <2>1. c \in NIST
    BY <1>1, Alphabet DEF PubEncodings, NIST, Edwards, Dilithium, Koblitz
  <2>2. BytesToPubKey(b, c, TRUE) = Key(c, NoPoint)
    BY <1>1, <2>1 DEF BytesToPubKey, Bytes, NIST, Edwards, Koblitz, Dilithium
  <2>3. PublicKeyToPublicKeyJWK(Key(c, NoPoint)) = Nil
    BY <2>1 DEF PublicKeyToPublicKeyJWK, jwkFromKey, jwkFromEC, Key, NIST, Edwards, Koblitz, Dilithium
  <2> HIDE DEF b
  <2> QED
    BY <1>1, <2>2, <2>3 DEF ConstructJWKVerificationMethod, b
<1>2. CASE enc # "pkix"
  <2>1. BytesToPubKey(b, c, TRUE) = Key(c, x)
    BY <1>2, Alphabet DEF BytesToPubKey, Bytes, PubEncodings, NIST, Edwards, Koblitz, Dilithium
  <2>2. PublicKeyToPublicKeyJWK(Key(c, x)) = IF c = "P-224" THEN Nil ELSE JWKOf(c, Alg(c), x)
    BY OwnName, ToJWK
  <2>3. Key(c, x) # Nil
    BY OwnName, KeyIsValue
  <2>4. c # "P-224" => JWKOf(c, Alg(c), x) # Nil
    BY JWKIsValue DEF Algs
  <2> HIDE DEF b
  <2> QED
    BY <1>2, <2>1, <2>2, <2>3, <2>4 DEF ConstructJWKVerificationMethod, b
<1> QED
  BY <1>1, <1>2

(* The two kinds of verification method.                                   *)
JWKMethods(id, c, x) ==
  {VerificationMethod(id, "JsonWebKey2020", JWKOf(c, alg, x), Nil) : alg \in Algs(c) \cup {""}}

MultibaseMethods(id, c, x) ==
  {VerificationMethod(id, KeyTypeToMultikeyLDType(c), Nil, Bytes(enc, c, x)) : enc \in PubEncodings(c)}

LEMMA MethodKinds ==
  ASSUME NEW id \in {"key", "derived"}, NEW c \in Curves, NEW x \in Material,
         NEW vm \in MethodsOf(id, c, x)
  PROVE  \/ c # "P-224" /\ vm \in JWKMethods(id, c, x)
         \/ c \in Supported \ {"RSA"} /\ vm \in MultibaseMethods(id, c, x)
BY DEF MethodsOf, JWKMethods, MultibaseMethods, JWKsOf, PubBytesOf

LEMMA KeyOfMethod ==
  ASSUME NEW id \in {"key", "derived"}, NEW c \in Curves, NEW x \in Material,
         NEW vm \in MethodsOf(id, c, x)
  PROVE  \/ \E go \in GoTypes(c) : extractKeyFromVerificationMethod(vm) = Key(go, x)
         \/ /\ extractKeyFromVerificationMethod(vm) = Nil
            /\ c \in Dilithium \/ (c \in NIST /\ vm.jwk = Nil)
<1>1. CASE c # "P-224" /\ vm \in JWKMethods(id, c, x)
  <2>1. PICK alg \in Algs(c) \cup {""} :
          vm = VerificationMethod(id, "JsonWebKey2020", JWKOf(c, alg, x), Nil)
    BY <1>1 DEF JWKMethods
  <2>2. vm.bytes = Nil /\ vm.jwk = JWKOf(c, alg, x)
    BY <2>1 DEF VerificationMethod
  <2>3. extractKeyFromVerificationMethod(vm) = toSupportedKey(JWKOf(c, alg, x))
    BY <2>2 DEF extractKeyFromVerificationMethod
  <2> QED
    <3>1. toSupportedKey(JWKOf(c, alg, x)) = IF c \in Dilithium THEN Nil ELSE Key(JOSEType(c), x)
      BY <1>1, SupportedKeyOfJWK
    <3>2. JOSEType(c) \in GoTypes(c)
      BY NamesOfCurves
    <3> QED
      BY <2>3, <3>1, <3>2
<1>2. CASE c \in Supported \ {"RSA"} /\ vm \in MultibaseMethods(id, c, x)
  <2>1. PICK enc \in PubEncodings(c) :
          vm = VerificationMethod(id, KeyTypeToMultikeyLDType(c), Nil, Bytes(enc, c, x))
    BY <1>2 DEF MultibaseMethods
  <2>2. /\ vm.bytes = Bytes(enc, c, x) /\ vm.bytes # Nil /\ vm.jwk = Nil
        /\ vm.type = KeyTypeToMultikeyLDType(c)
    BY <2>1, OwnName, BytesAreValues DEF VerificationMethod
  <2>3. extractKeyFromVerificationMethod(vm) =
          PubKeyBytesToTypedKey(Bytes(enc, c, x), KeyTypeToMultikeyLDType(c))
    BY <2>2 DEF extractKeyFromVerificationMethod
  <2>4. CASE c \in {"Ed25519", "X25519", "secp256k1"}
    <3>1. PubKeyBytesToTypedKey(Bytes(enc, c, x), KeyTypeToMultikeyLDType(c)) =
            BytesToPubKey(Bytes(enc, c, x), c, FALSE)
      BY <2>4 DEF PubKeyBytesToTypedKey, KeyTypeToMultikeyLDType
    <3>2. BytesToPubKey(Bytes(enc, c, x), c, FALSE) = Key(c, x)
      BY <2>4 DEF BytesToPubKey, Bytes, PubEncodings, NIST, Edwards, Koblitz, Dilithium
    <3> QED
      BY <2>3, <3>1, <3>2, OwnName
  <2>5. CASE c \notin {"Ed25519", "X25519", "secp256k1"}
    <3>1. c \in {"P-256", "P-384", "P-521"}
      BY <1>2, <2>5 DEF Supported
    <3>2. PubKeyBytesToTypedKey(Bytes(enc, c, x), KeyTypeToMultikeyLDType(c)) = Nil
      BY <3>1 DEF PubKeyBytesToTypedKey, KeyTypeToMultikeyLDType
    <3> QED
      BY <2>2, <2>3, <3>1, <3>2 DEF NIST
  <2> QED
    BY <2>4, <2>5
<1> QED
  BY <1>1, <1>2, MethodKinds

LEMMA X25519Methods ==
  ASSUME NEW id \in {"key", "derived"}, NEW c \in Curves, NEW x \in Material,
         NEW vm \in MethodsOf(id, c, x)
  PROVE  /\ IsX25519(vm) <=> c = "X25519"
         /\ IsX25519Key(vm) <=> c = "X25519"
<1>1. CASE c # "P-224" /\ vm \in JWKMethods(id, c, x)
  <2>1. PICK alg \in Algs(c) \cup {""} :
          vm = VerificationMethod(id, "JsonWebKey2020", JWKOf(c, alg, x), Nil)
    BY <1>1 DEF JWKMethods
  <2>2. vm.jwk # Nil /\ vm.jwk.crv = Crv(c) /\ vm.type = "JsonWebKey2020"
    BY <2>1, JWKIsValue DEF VerificationMethod, JWKOf, JWK
  <2>3. Crv(c) = "X25519" <=> c = "X25519"
    BY DEF Crv, Dilithium
  <2> QED
    BY <2>2, <2>3 DEF IsX25519, IsX25519Key
<1>2. CASE c \in Supported \ {"RSA"} /\ vm \in MultibaseMethods(id, c, x)
  <2>1. PICK enc \in PubEncodings(c) :
          vm = VerificationMethod(id, KeyTypeToMultikeyLDType(c), Nil, Bytes(enc, c, x))
    BY <1>2 DEF MultibaseMethods
  <2>2. vm.jwk = Nil /\ vm.type = KeyTypeToMultikeyLDType(c) /\ vm.bytes.of = c
    BY <2>1 DEF VerificationMethod, Bytes
  <2>3. KeyTypeToMultikeyLDType(c) = "X25519KeyAgreementKey2020" <=> c = "X25519"
    BY <1>2 DEF KeyTypeToMultikeyLDType, Supported
  <2> QED
    BY <2>2, <2>3 DEF IsX25519, IsX25519Key
<1> QED
  BY <1>1, <1>2, MethodKinds

LEMMA AgreementMethod ==
  ASSUME NEW c \in Curves, NEW x \in Material, NEW vm \in MethodsOf("key", c, x)
  PROVE  /\ c # "Ed25519" => generateKeyAgreementVerificationMethod(vm) = Nil
         /\ c = "Ed25519" /\ x = K => generateKeyAgreementVerificationMethod(vm)
                                        \in MethodsOf("derived", "X25519", <<"derived", K>>)
<1> DEFINE y == <<"derived", K>>
<1>0. /\ "X25519" \in Curves /\ "X25519" \in Supported \ {"RSA"} /\ y \in Material
      /\ PubEncodings("X25519") = {"raw"} /\ Alg("X25519") \in Algs("X25519")
      /\ KeyTypeToMultikeyLDType("X25519") = "X25519KeyAgreementKey2020"
  <2>1. "X25519" \in Curves /\ "X25519" \in Supported \ {"RSA"} /\ y \in Material
    BY DEF Curves, KeyTypes, Edwards, Supported, Material
  <2>2. PubEncodings("X25519") = {"raw"}
    BY DEF PubEncodings, Edwards, Dilithium, NIST
  <2>3. Alg("X25519") \in Algs("X25519")
    BY DEF Algs
  <2>4. KeyTypeToMultikeyLDType("X25519") = "X25519KeyAgreementKey2020"
    BY DEF KeyTypeToMultikeyLDType
  <2> QED
    BY <2>1, <2>2, <2>3, <2>4
<1>1. CASE c # "P-224" /\ vm \in JWKMethods("key", c, x)
  <2>1. PICK alg \in Algs(c) \cup {""} :
          vm = VerificationMethod("key", "JsonWebKey2020", JWKOf(c, alg, x), Nil)
    BY <1>1 DEF JWKMethods
  <2>2. vm.jwk = JWKOf(c, alg, x) /\ vm.jwk.crv = Crv(c) /\ vm.type = "JsonWebKey2020"
    BY <2>1 DEF VerificationMethod, JWKOf, JWK
  <2>3. CASE c # "Ed25519"
    <3>1. Crv(c) # "Ed25519"
      BY <2>3 DEF Crv
    <3> QED
      BY <2>2, <2>3, <3>1 DEF generateKeyAgreementVerificationMethod
  <2>4. CASE c = "Ed25519" /\ x = K
    <3>1. ToPublicKey(JWKOf(c, alg, x)) = Key("Ed25519", K)
      <4>1. c \notin Dilithium /\ JOSEType(c) = "Ed25519"
        BY <2>4 DEF Dilithium, JOSEType
      <4> QED
        BY <1>1, <2>4, <4>1, FromJWK
    <3>2. Curve25519(PubKeyToBytes(Key("Ed25519", K), FALSE)) = Bytes("raw", "X25519", y)
      BY DEF PubKeyToBytes, IsKey, Curve25519, Key, Bytes, Edwards, SECP256k1ECDSAToSECP256k1
    <3>3. Crv(c) = "Ed25519"
      BY <2>4 DEF Crv, Dilithium
    <3>4. generateKeyAgreementVerificationMethod(vm) =
            ConstructJWKVerificationMethod("derived", Bytes("raw", "X25519", y), "X25519")
      BY <2>2, <3>1, <3>2, <3>3 DEF generateKeyAgreementVerificationMethod
    <3>5. ConstructJWKVerificationMethod("derived", Bytes("raw", "X25519", y), "X25519") =
            VerificationMethod("derived", "JsonWebKey2020", JWKOf("X25519", Alg("X25519"), y), Nil)
      <4>1. "raw" \in PubEncodings("X25519") /\ "derived" \in {"key", "derived"}
        BY <1>0
      <4> HIDE DEF y
      <4> QED
        BY <1>0, <4>1, JWKMethod
    <3>6. VerificationMethod("derived", "JsonWebKey2020", JWKOf("X25519", Alg("X25519"), y), Nil)
            \in MethodsOf("derived", "X25519", y)
      <4>1. "derived" \in {"key", "derived"}
        OBVIOUS
      <4> HIDE DEF y
      <4> QED
        BY <1>0, <4>1, MethodIsValue
    <3> QED
      BY <2>4, <3>4, <3>5, <3>6
  <2> QED
    BY <2>3, <2>4
<1>2. CASE c \in Supported \ {"RSA"} /\ vm \in MultibaseMethods("key", c, x)
  <2>1. PICK enc \in PubEncodings(c) :
          vm = VerificationMethod("key", KeyTypeToMultikeyLDType(c), Nil, Bytes(enc, c, x))
    BY <1>2 DEF MultibaseMethods
  <2>2. vm.type = KeyTypeToMultikeyLDType(c) /\ vm.bytes.key = x
    BY <2>1 DEF VerificationMethod, Bytes
  <2>3. CASE c # "Ed25519"
    <3>1. KeyTypeToMultikeyLDType(c) \notin {"Ed25519VerificationKey2020", "JsonWebKey2020"}
      BY <1>2, <2>3 DEF KeyTypeToMultikeyLDType, Supported
    <3> QED
      BY <2>2, <2>3, <3>1 DEF generateKeyAgreementVerificationMethod
  <2>4. CASE c = "Ed25519" /\ x = K
    <3>1. KeyTypeToMultikeyLDType(c) = "Ed25519VerificationKey2020"
      BY <2>4 DEF KeyTypeToMultikeyLDType
    <3>2. generateKeyAgreementVerificationMethod(vm) =
            VerificationMethod("derived", "X25519KeyAgreementKey2020", Nil, Bytes("raw", "X25519", y))
      BY <2>2, <2>4, <3>1 DEF generateKeyAgreementVerificationMethod, Curve25519,
         ConstructMultibaseVerificationMethod
    <3>3. VerificationMethod("derived", "X25519KeyAgreementKey2020", Nil, Bytes("raw", "X25519", y))
            \in MethodsOf("derived", "X25519", y)
      <4>1. "derived" \in {"key", "derived"} /\ "raw" \in PubEncodings("X25519")
        BY <1>0
      <4> HIDE DEF y
      <4> QED
        BY <1>0, <4>1, MethodIsValue
    <3> QED
      BY <2>4, <3>2, <3>3
  <2> QED
    BY <2>3, <2>4
<1> QED
  BY <1>1, <1>2, MethodKinds

LEMMA DocumentIsValue ==
  ASSUME NEW method \in {"key", "jwk", "peer", "web"},
         NEW methods \in Seq(MethodValue), NEW auth \in SUBSET {"key"},
         NEW agree \in SUBSET {"key", "derived"}
  PROVE  Document(method, methods, auth, agree) # Nil
<1>1. method \in Words /\ auth \in SUBSET Words /\ agree \in SUBSET Words
  BY DEF Words
<1>2. Document(method, methods, auth, agree) \in DocumentValue
  BY <1>1 DEF Document, DocumentValue
<1> QED
  BY <1>2, KeyAssumption

LEMMA OneMethodDocument ==
  ASSUME NEW c \in Curves, NEW x \in Material, NEW vm \in MethodsOf("key", c, x),
         NEW method \in {"key", "jwk", "peer", "web"}, NEW auth \in SUBSET {"key"},
         NEW agree \in SUBSET {"key"}, method = "key" /\ c = "X25519" => auth = {} /\ agree = {"key"}
  PROVE  /\ OneMethod(Document(method, <<vm>>, auth, agree), c, x)
         /\ Document(method, <<vm>>, auth, agree) # Nil
<1>1. vm \in MethodValue
  BY MethodIsValue
<1>2. <<vm>> \in Seq(MethodValue) /\ agree \in SUBSET {"key", "derived"}
  BY <1>1
<1> QED
  BY <1>2, DocumentIsValue DEF OneMethod

LEMMA ExpandedDIDKey ==
  ASSUME NEW c \in Curves, c \in Supported, NEW x \in Material, x # NoPoint \/ c = "X25519",
         c = "Ed25519" => x = K, NEW enc \in PubEncodings(c), NEW by \in {"sdk", "caller"},
         NEW format \in {"JsonWebKey2020", "Multikey"}, NEW derive \in BOOLEAN
  PROVE  LET doc == ExpandDIDKey(DID("key", KeyTypeToMultiCodec(c), Bytes(enc, c, x), by), format, derive)
         IN  \/ doc = Nil /\ (IF format = "Multikey" THEN c = "RSA" ELSE enc = "pkix")
             \/ doc # Nil /\ (OneMethod(doc, c, x) \/ TwoMethods(doc, c, x))
<1> DEFINE did == DID("key", KeyTypeToMultiCodec(c), Bytes(enc, c, x), by)
           vm == FirstMethod(did, format)
           extra == generateKeyAgreementVerificationMethod(vm)
           doc == ExpandDIDKey(did, format, derive)
<1>1. did.codec = KeyTypeToMultiCodec(c) /\ did.content = Bytes(enc, c, x)
  BY DEF DID
<1>2. \/ vm = Nil /\ (IF format = "Multikey" THEN c = "RSA" ELSE enc = "pkix")
      \/ vm # Nil /\ vm \in MethodsOf("key", c, x)
  <2> HIDE DEF did
  <2>1. MultiCodecToKeyType(did.codec) = c
    BY <1>1, CodecsAreInverse
  <2>2. CASE format = "JsonWebKey2020"
    <3>1. vm = ConstructJWKVerificationMethod("key", Bytes(enc, c, x), c)
      BY <1>1, <2>1, <2>2 DEF FirstMethod
    <3>2. c # "P-224"
      BY DEF Supported
    <3>3. vm = IF enc = "pkix" THEN Nil
               ELSE VerificationMethod("key", "JsonWebKey2020", JWKOf(c, Alg(c), x), Nil)
      BY <3>1, <3>2, JWKMethod
    <3>4. Alg(c) \in Algs(c)
      BY <3>2 DEF Algs
    <3> HIDE DEF vm
    <3>5. enc # "pkix" => vm \in MethodsOf("key", c, x)
      BY <3>2, <3>3, <3>4, MethodIsValue
    <3> QED
      BY <2>2, <3>3, <3>5, MethodIsValue
  <2>3. CASE format = "Multikey"
    <3>1. vm = IF KeyTypeToMultikeyLDType(c) = Nil THEN Nil
               ELSE VerificationMethod("key", KeyTypeToMultikeyLDType(c), Nil, Bytes(enc, c, x))
      BY <1>1, <2>1, <2>3 DEF FirstMethod, ConstructMultibaseVerificationMethod
    <3>2. CASE c = "RSA"
      <4>1. KeyTypeToMultikeyLDType(c) = Nil
        BY <3>2 DEF KeyTypeToMultikeyLDType
      <4> QED
        BY <2>3, <3>1, <3>2, <4>1
    <3>3. CASE c # "RSA"
      <4>1. KeyTypeToMultikeyLDType(c) # Nil
        BY <3>3, NamesAreWords, KeyAssumption
      <4> HIDE DEF vm
      <4>2. vm \in MethodsOf("key", c, x)
        BY <3>1, <3>3, <4>1, MethodIsValue
      <4> QED
        BY <4>2, MethodIsValue
    <3> QED
      BY <3>2, <3>3
  <2> QED
    BY <2>2, <2>3
<1>3. doc = IF vm = Nil THEN Nil
            ELSE IF IsX25519(vm) THEN Document("key", <<vm>>, {}, {"key"})
            ELSE IF ~derive THEN Document("key", <<vm>>, {"key"}, {})
            ELSE IF extra = Nil THEN Document("key", <<vm>>, {"key"}, {"key"})
            ELSE Document("key", <<vm, extra>>, {"key"}, {extra.id})
  BY DEF ExpandDIDKey
<1> HIDE DEF did, vm, extra, doc
<1>4. CASE vm = Nil
  BY <1>2, <1>3, <1>4, MethodIsValue DEF doc, did
<1>5. CASE vm # Nil
  <2>1. vm \in MethodsOf("key", c, x)
    BY <1>2, <1>5
  <2>2. IsX25519(vm) <=> c = "X25519"
    BY <2>1, X25519Methods
  <2>3. /\ c # "Ed25519" => extra = Nil
        /\ c = "Ed25519" => x = K /\ extra \in MethodsOf("derived", "X25519", <<"derived", K>>)
    BY <2>1, AgreementMethod DEF extra
  <2>4. CASE c = "X25519"
    <3>1. doc = Document("key", <<vm>>, {}, {"key"})
      BY <1>3, <1>5, <2>2, <2>4
    <3>2. OneMethod(doc, c, x) /\ doc # Nil
      BY <2>1, <3>1, OneMethodDocument
    <3> QED
      BY <3>2 DEF doc, did
  <2>5. CASE c # "X25519" /\ (~derive \/ extra = Nil)
    <3>1. doc = Document("key", <<vm>>, {"key"}, {}) \/ doc = Document("key", <<vm>>, {"key"}, {"key"})
      BY <1>3, <1>5, <2>2, <2>5
    <3>2. OneMethod(doc, c, x) /\ doc # Nil
      BY <2>1, <2>5, <3>1, OneMethodDocument
    <3> QED
      BY <3>2 DEF doc, did
  <2>6. CASE c # "X25519" /\ derive /\ extra # Nil
    <3>1. c = "Ed25519" /\ x = K /\ extra \in MethodsOf("derived", "X25519", <<"derived", K>>)
      BY <2>3, <2>6
    <3>2. vm \in MethodValue /\ extra \in MethodValue /\ extra.id = "derived"
      <4>1. "X25519" \in Curves /\ <<"derived", K>> \in Material
        BY DEF Curves, KeyTypes, Edwards, Material
      <4> QED
        BY <2>1, <3>1, <4>1, MethodIsValue
    <3>3. doc = Document("key", <<vm, extra>>, {"key"}, {"derived"})
      BY <1>3, <1>5, <2>2, <2>6, <3>2
    <3>4. <<vm, extra>> \in Seq(MethodValue)
      BY <3>2
    <3>5. doc # Nil
      BY <3>3, <3>4, DocumentIsValue
    <3>6. TwoMethods(doc, c, x)
      BY <2>1, <3>1, <3>3 DEF TwoMethods
    <3> QED
      BY <3>5, <3>6 DEF doc, did
  <2> QED
    BY <2>4, <2>5, <2>6
<1> QED
  BY <1>4, <1>5

(***************************************************************************)
(* The steps.                                                              *)
(***************************************************************************)
LEMMA CurvesOfKeys ==
  ASSUME keyType \in KeyTypes
  PROVE  Curve(keyType) \in Curves /\ keyType \in GoTypes(Curve(keyType))
BY DEF Curve, Curves, GoTypes, KeyTypes, NIST, Edwards, Koblitz, Dilithium

LEMMA MineHasAPoint ==
  ASSUME NEW c \in Curves, NEW x \in Material, Mine(c, x)
  PROVE  (x # NoPoint \/ c = "X25519") /\ (c = "Ed25519" => x = K)
BY KeyAssumption DEF Mine

(* What the owner and the peer hold is of the form it says.                *)
LEMMA PrivForms ==
  ASSUME NEW c \in Curves, PrivForm(priv, c)
  PROVE  /\ priv.form = "key" => \E go \in GoTypes(c) : priv = Key(go, K)
         /\ priv.form = "bytes" => \E go \in GoTypes(c) : priv = Bytes(PrivEncoding(c), go, K)
         /\ priv.form = "jwk" => c # "P-224" /\ \E alg \in Algs(c) \cup {""} : priv = JWKOf(c, alg, K)
         /\ priv.form = "jws" => c \notin {"X25519", "P-224"} /\ \E a \in Algs(c) : priv = JWSOf(c, a, K)
         /\ priv.form \in {"key", "bytes", "jwk", "jws"}
<1>1. CASE \E go \in GoTypes(c) : priv = Key(go, K)
  BY <1>1 DEF Key
<1>2. CASE \E go \in GoTypes(c) : priv = Bytes(PrivEncoding(c), go, K)
  BY <1>2 DEF Bytes
<1>3. CASE c # "P-224" /\ \E alg \in Algs(c) \cup {""} : priv = JWKOf(c, alg, K)
  <2>1. PICK alg \in Algs(c) \cup {""} : priv = JWKOf(c, alg, K)
    BY <1>3
  <2>2. priv.form = "jwk"
    BY <2>1 DEF JWKOf, JWK
  <2> QED
    BY <1>3, <2>2
<1>4. CASE c \notin {"X25519", "P-224"} /\ \E a \in Algs(c) : priv = JWSOf(c, a, K)
  <2>1. priv.form = "jws"
    BY <1>4 DEF JWSOf, WithKey
  <2> QED
    BY <1>4, <2>1
<1>5. priv \in SignersOf(c, K) => c \notin {"X25519", "P-224"} /\ \E a \in Algs(c) : priv = JWSOf(c, a, K)
  BY DEF SignersOf, Algs
<1> QED
  BY <1>1, <1>2, <1>3, <1>4, <1>5 DEF PrivForm, KeysOf, PrivBytesOf, JWKsOf

LEMMA PubForms ==
  ASSUME NEW c \in Curves, NEW x \in Material, PubForm(pub, c, x)
  PROVE  /\ pub.form = "key" => \E go \in GoTypes(c) : pub = Key(go, x)
         /\ pub.form = "bytes" => \E enc \in PubEncodings(c) : pub = Bytes(enc, c, x)
         /\ pub.form = "jwk" => c # "P-224" /\ \E alg \in Algs(c) \cup {""} : pub = JWKOf(c, alg, x)
         /\ pub.form = "jws" => /\ c \notin {"X25519", "P-224"} \cup Dilithium
                                /\ \E a \in Algs(c) : pub = JWSOf(c, a, x)
         /\ pub.form = "did" => KeyDID(pub, c, x) \/ PeerDID(pub, c, x) \/ JWKDID(pub, c, x)
         /\ pub.form = "document" =>
              OneMethod(pub, c, x) \/ TwoMethods(pub, c, x) \/ Remote(pub, c, x)
<1>1. CASE \E go \in GoTypes(c) : pub = Key(go, x)
  BY <1>1 DEF Key
<1>2. CASE \E enc \in PubEncodings(c) : pub = Bytes(enc, c, x)
  BY <1>2 DEF Bytes
<1>3. CASE c # "P-224" /\ \E alg \in Algs(c) \cup {""} : pub = JWKOf(c, alg, x)
  <2>1. PICK alg \in Algs(c) \cup {""} : pub = JWKOf(c, alg, x)
    BY <1>3
  <2>2. pub.form = "jwk"
    BY <2>1 DEF JWKOf, JWK
  <2> QED
    BY <1>3, <2>2
<1>4. CASE c \notin {"X25519", "P-224"} \cup Dilithium /\ \E a \in Algs(c) : pub = JWSOf(c, a, x)
  <2>1. pub.form = "jws"
    BY <1>4 DEF JWSOf, WithKey
  <2> QED
    BY <1>4, <2>1
<1>5. pub \in VerifiersOf(c, x) =>
        c \notin {"X25519", "P-224"} \cup Dilithium /\ \E a \in Algs(c) : pub = JWSOf(c, a, x)
  BY DEF VerifiersOf, SignersOf, Algs
<1>6. CASE KeyDID(pub, c, x) \/ PeerDID(pub, c, x) \/ JWKDID(pub, c, x)
  <2>1. CASE KeyDID(pub, c, x)
    <3>1. PICK enc \in PubEncodings(c), by \in {"sdk", "caller"} :
            pub = DID("key", KeyTypeToMultiCodec(c), Bytes(enc, c, x), by)
      BY <2>1 DEF KeyDID
    <3>2. pub.form = "did"
      BY <3>1 DEF DID
    <3> QED
      BY <2>1, <3>2
  <2>2. CASE PeerDID(pub, c, x)
    <3>1. PICK enc \in PubEncodings(c) :
            pub = DID("peer", KeyTypeToMultiCodec(c), Bytes(enc, c, x), "sdk")
      BY <2>2 DEF PeerDID
    <3>2. pub.form = "did"
      BY <3>1 DEF DID
    <3> QED
      BY <2>2, <3>2
  <2>3. CASE JWKDID(pub, c, x)
    <3>1. PICK use \in Uses \cup {""}, alg \in Algs(c) \cup {""}, by \in {"sdk", "caller"} :
            pub = DID("jwk", use, JWKOf(c, alg, x), by)
      BY <2>3 DEF JWKDID
    <3>2. pub.form = "did"
      BY <3>1 DEF DID
    <3> QED
      BY <2>3, <3>2
  <2> QED
    BY <1>6, <2>1, <2>2, <2>3
<1>7. CASE OneMethod(pub, c, x) \/ TwoMethods(pub, c, x) \/ Remote(pub, c, x)
  <2>1. pub.form = "document"
    BY <1>7 DEF OneMethod, TwoMethods, Remote, Document
  <2> QED
    BY <1>7, <2>1
<1> QED
  BY <1>1, <1>2, <1>3, <1>4, <1>5, <1>6, <1>7 DEF PubForm, KeysOf, PubBytesOf, JWKsOf

(* What a step has to establish.                                           *)
LEMMA OwnerGets ==
  ASSUME KeyInv, NEW c \in Curves, c = Curve(keyType), PrivForm(priv', c), failed' = Nil,
         priv # Nil, UNCHANGED <<keyType, pub, token>>
  PROVE  KeyInv'
<1>1. Curve(keyType)' = Curve(keyType)
  BY DEF Curve
<1>2. PrivOK'
  BY <1>1 DEF PrivOK
<1>3. PubOK' /\ TokenOK'
  BY <1>1 DEF KeyInv, PubOK, TokenOK, Mine
<1>4. KeyTypeOK'
  BY DEF KeyInv, KeyTypeOK
<1>5. FailedOK'
  BY DEF FailedOK, ConversionsFailForAReason, SameKeyVerifies
<1> QED
  BY <1>2, <1>3, <1>4, <1>5 DEF KeyInv

LEMMA PeerGets ==
  ASSUME KeyInv, NEW c \in Curves, NEW x \in Material, Mine(c, x), PubForm(pub', c, x), failed' = Nil,
         keyType # Nil, UNCHANGED <<keyType, priv, token>>
  PROVE  KeyInv'
<1>1. Curve(keyType)' = Curve(keyType) /\ Mine(c, x)'
  BY DEF Curve, Mine
<1>2. PubOK'
  BY <1>1 DEF PubOK
<1>3. PrivOK' /\ TokenOK'
  BY <1>1 DEF KeyInv, PrivOK, TokenOK
<1>4. KeyTypeOK'
  BY DEF KeyInv, KeyTypeOK
<1>5. FailedOK'
  BY DEF FailedOK, ConversionsFailForAReason, SameKeyVerifies
<1> QED
  BY <1>2, <1>3, <1>4, <1>5 DEF KeyInv

LEMMA CallFails ==
  ASSUME KeyInv, UNCHANGED <<keyType, priv, pub, token>>, FailedOK'
  PROVE  KeyInv'
<1>1. Curve(keyType)' = Curve(keyType)
  BY DEF Curve
<1>2. PrivOK' /\ PubOK' /\ TokenOK'
  BY <1>1 DEF KeyInv, PrivOK, PubOK, TokenOK, Mine
<1>3. KeyTypeOK'
  BY DEF KeyInv, KeyTypeOK
<1> QED
  BY <1>2, <1>3 DEF KeyInv

LEMMA OwnerHolds ==
  ASSUME KeyInv, priv # Nil
  PROVE  \E c \in Curves : c = Curve(keyType) /\ PrivForm(priv, c) /\ Mine(c, K) /\ keyType # Nil
BY KeyAssumption DEF KeyInv, KeyTypeOK, PrivOK, Mine, Words

LEMMA PeerHolds ==
  ASSUME KeyInv, pub # Nil
  PROVE  /\ \E c \in Curves, x \in Material : Mine(c, x) /\ PubForm(pub, c, x)
         /\ keyType # Nil /\ keyType \in KeyTypes
BY KeyAssumption DEF KeyInv, KeyTypeOK, PubOK, Words

(* Bytes that the peer passes as a key are refused.                        *)
LEMMA BytesRefused ==
  ASSUME KeyInv, pub # Nil, pub.form = "bytes",
         NEW call \in {"ToBytes", "ToJWK", "NewVerifier", "CreatePeer"}, Peer(call, pub, Nil)
  PROVE  KeyInv'
<1>1. failed' = [call |-> call, arg |-> pub] /\ UNCHANGED <<keyType, priv, pub, token>>
  BY DEF Peer
<1>2. FailedOK'
  BY <1>1 DEF FailedOK, ConversionsFailForAReason, SameKeyVerifies, Explained
<1> QED
  BY <1>1, <1>2, CallFails

LEMMA PeerBytes ==
  ASSUME KeyInv, pub # Nil, pub.form = "bytes", NEW compressed, NEW kt
  PROVE  /\ PubKeyToBytes(pub, compressed) = Nil
         /\ PublicKeyToPublicKeyJWK(pub) = Nil
         /\ NewJWXVerifier(pub) = Nil
         /\ GenerateDIDPeer(kt, pub) = Nil
<1>1. PICK c \in Curves, x \in Material : Mine(c, x) /\ PubForm(pub, c, x)
  BY PeerHolds
<1>2. PICK enc \in PubEncodings(c) : pub = Bytes(enc, c, x)
  BY <1>1, PubForms
<1> QED
  BY <1>2, BytesAreNoKey

LEMMA OwnerToBytesStep ==
  ASSUME KeyInv, OwnerToBytes
  PROVE  KeyInv'
<1>1. priv # Nil /\ priv.form = "key"
  BY DEF OwnerToBytes, Holds
<1>2. PICK c \in Curves : c = Curve(keyType) /\ PrivForm(priv, c) /\ Mine(c, K) /\ keyType # Nil
  BY <1>1, OwnerHolds
<1>3. PICK go \in GoTypes(c) : priv = Key(go, K)
  BY <1>1, <1>2, PrivForms
<1>4. K \in Material
  BY DEF Material
<1>5. PrivKeyToBytes(priv) \in PrivBytesOf(c, K) /\ PrivKeyToBytes(priv) # Nil
  <2>1. PrivKeyToBytes(priv) \in PrivBytesOf(c, K)
    BY <1>3, <1>4, ToBytes
  <2> QED
    BY <1>4, <2>1, BytesAreValues DEF PrivBytesOf
<1>6. PrivForm(priv', c) /\ failed' = Nil /\ UNCHANGED <<keyType, pub, token>>
  BY <1>5 DEF OwnerToBytes, Owner, PrivForm
<1> QED
  BY <1>1, <1>2, <1>6, OwnerGets

LEMMA OwnerFromBytesStep ==
  ASSUME KeyInv, OwnerFromBytes
  PROVE  KeyInv'
<1>1. priv # Nil /\ priv.form = "bytes"
  BY DEF OwnerFromBytes, Holds
<1>2. PICK c \in Curves : c = Curve(keyType) /\ PrivForm(priv, c) /\ Mine(c, K) /\ keyType # Nil
  BY <1>1, OwnerHolds
<1>3. PICK go \in GoTypes(c) : priv = Bytes(PrivEncoding(c), go, K)
  BY <1>1, <1>2, PrivForms
<1>4. K \in Material
  BY DEF Material
<1>5. BytesToPrivKey(priv, priv.of) = Key(go, K) /\ Key(go, K) # Nil
  <2>1. priv.of = go
    BY <1>3 DEF Bytes
  <2> QED
    BY <1>3, <1>4, <2>1, FromPrivBytes, KeyIsValue
<1>6. priv' = Key(go, K) /\ failed' = Nil /\ UNCHANGED <<keyType, pub, token>>
  BY <1>5 DEF OwnerFromBytes, Owner
<1>7. PrivForm(priv', c)
  BY <1>6 DEF PrivForm, KeysOf
<1> QED
  BY <1>1, <1>2, <1>6, <1>7, OwnerGets

LEMMA OwnerToJWKStep ==
  ASSUME KeyInv, OwnerToJWK
  PROVE  KeyInv'
<1>1. priv # Nil /\ priv.form = "key"
  BY DEF OwnerToJWK, Holds
<1>2. PICK c \in Curves : c = Curve(keyType) /\ PrivForm(priv, c) /\ Mine(c, K) /\ keyType # Nil
  BY <1>1, OwnerHolds
<1>3. PICK go \in GoTypes(c) : priv = Key(go, K)
  BY <1>1, <1>2, PrivForms
<1>4. K \in Material
  BY DEF Material
<1>5. PrivateKeyToPrivateKeyJWK(priv) = IF c = "P-224" THEN Nil ELSE JWKOf(c, Alg(c), K)
  BY <1>2, <1>3, <1>4, ToJWK, MineHasAPoint
<1>6. CASE c = "P-224"
  <2>1. /\ failed' = [call |-> "ToJWK", arg |-> priv]
        /\ UNCHANGED <<keyType, priv, pub, token>>
    BY <1>5, <1>6 DEF OwnerToJWK, Owner
  <2>2. priv.go = "P-224"
    BY <1>3, <1>6 DEF Key, GoTypes
  <2>3. FailedOK'
    BY <2>1, <2>2 DEF FailedOK, ConversionsFailForAReason, SameKeyVerifies, Explained
  <2> QED
    BY <2>1, <2>3, CallFails
<1>7. CASE c # "P-224"
  <2>1. Alg(c) \in Algs(c)
    BY <1>7 DEF Algs
  <2>2. JWKOf(c, Alg(c), K) # Nil
    BY <1>4, <2>1, JWKIsValue
  <2>3. priv' = JWKOf(c, Alg(c), K) /\ failed' = Nil /\ UNCHANGED <<keyType, pub, token>>
    BY <1>5, <1>7, <2>2 DEF OwnerToJWK, Owner
  <2>4. PrivForm(priv', c)
    BY <1>7, <2>1, <2>3 DEF PrivForm, JWKsOf
  <2> QED
    BY <1>1, <1>2, <2>3, <2>4, OwnerGets
<1> QED
  BY <1>6, <1>7

LEMMA OwnerFromJWKStep ==
  ASSUME KeyInv, OwnerFromJWK
  PROVE  KeyInv'
<1>1. priv # Nil /\ priv.form = "jwk"
  BY DEF OwnerFromJWK, Holds
<1>2. PICK c \in Curves : c = Curve(keyType) /\ PrivForm(priv, c) /\ Mine(c, K) /\ keyType # Nil
  BY <1>1, OwnerHolds
<1>3. c # "P-224" /\ \E alg \in Algs(c) \cup {""} : priv = JWKOf(c, alg, K)
  BY <1>1, <1>2, PrivForms
<1>4. PICK alg \in Algs(c) \cup {""} : priv = JWKOf(c, alg, K)
  BY <1>3
<1>5. K \in Material
  BY DEF Material
<1>6. CASE c \in Dilithium /\ alg = ""
  <2>1. ToPrivateKey(priv) = Nil
    BY <1>3, <1>4, <1>5, <1>6, FromJWK
  <2>2. failed' = [call |-> "FromJWK", arg |-> priv] /\ UNCHANGED <<keyType, priv, pub, token>>
    BY <2>1 DEF OwnerFromJWK, Owner
  <2>3. priv.kty = "LWE" /\ priv.alg = ""
    BY <1>4, <1>6, JWKKinds DEF JWKOf, JWK
  <2>4. FailedOK'
    BY <2>2, <2>3 DEF FailedOK, ConversionsFailForAReason, SameKeyVerifies, Explained
  <2> QED
    BY <2>2, <2>4, CallFails
<1>7. CASE ~(c \in Dilithium /\ alg = "")
  <2>1. ToPrivateKey(priv) = Key(JOSEType(c), K) /\ JOSEType(c) \in GoTypes(c)
    BY <1>3, <1>4, <1>5, <1>7, FromJWK, NamesOfCurves
  <2>2. Key(JOSEType(c), K) # Nil
    BY <1>5, <2>1, KeyIsValue
  <2>3. PICK a \in Algs(c) : CompletedPrivate(priv) = JWKOf(c, a, K)
    BY <1>3, <1>4, <1>5, <1>7, Completed
  <2>4. JWKOf(c, a, K) # Nil
    BY <1>5, JWKIsValue
  <2>5. /\ priv' = Key(JOSEType(c), K) \/ priv' = JWKOf(c, a, K)
        /\ failed' = Nil /\ UNCHANGED <<keyType, pub, token>>
    BY <2>1, <2>2, <2>3, <2>4 DEF OwnerFromJWK, Owner
  <2>6. PrivForm(priv', c)
    BY <1>3, <2>1, <2>5 DEF PrivForm, KeysOf, JWKsOf
  <2> QED
    BY <1>1, <1>2, <2>5, <2>6, OwnerGets
<1> QED
  BY <1>6, <1>7

(* What other software makes of a JWK is a JWK of the same key.            *)
LEMMA RewrittenJWK ==
  ASSUME NEW c \in Curves, c # "P-224", NEW x \in Material, NEW alg \in Algs(c) \cup {""},
         NEW jwk \in Rewritten(JWKOf(c, alg, x))
  PROVE  \E a \in Algs(c) \cup {""} : jwk = JWKOf(c, a, x)
<1>1. Crv(c) = "Ed25519" => "EdDSA" \in Algs(c)
  BY DEF Crv, Algs
<1>2. jwk = JWKOf(c, "", x) \/ (Crv(c) = "Ed25519" /\ jwk = JWKOf(c, "EdDSA", x))
  BY DEF Rewritten, JWKOf, JWK
<1> QED
  BY <1>1, <1>2

LEMMA OwnerImportsStep ==
  ASSUME KeyInv, OwnerImports
  PROVE  KeyInv'
<1>1. priv # Nil /\ priv.form = "jwk"
  BY DEF OwnerImports, Holds
<1>2. PICK c \in Curves : c = Curve(keyType) /\ PrivForm(priv, c) /\ Mine(c, K) /\ keyType # Nil
  BY <1>1, OwnerHolds
<1>3. c # "P-224" /\ \E alg \in Algs(c) \cup {""} : priv = JWKOf(c, alg, K)
  BY <1>1, <1>2, PrivForms
<1>4. PICK alg \in Algs(c) \cup {""} : priv = JWKOf(c, alg, K)
  BY <1>3
<1>5. K \in Material
  BY DEF Material
<1>6. PICK jwk \in Rewritten(priv) : Owner("Import", priv, jwk)
  BY DEF OwnerImports
<1>7. PICK a \in Algs(c) \cup {""} : jwk = JWKOf(c, a, K)
  BY <1>3, <1>4, <1>5, <1>6, RewrittenJWK
<1>8. JWKOf(c, a, K) # Nil
  BY <1>5, JWKIsValue
<1>9. priv' = JWKOf(c, a, K) /\ failed' = Nil /\ UNCHANGED <<keyType, pub, token>>
  BY <1>6, <1>7, <1>8 DEF Owner
<1>10. PrivForm(priv', c)
  BY <1>3, <1>9 DEF PrivForm, JWKsOf
<1> QED
  BY <1>1, <1>2, <1>9, <1>10, OwnerGets

LEMMA OwnerNewSignerStep ==
  ASSUME KeyInv, OwnerNewSigner
  PROVE  KeyInv'
<1>1. priv # Nil /\ priv.form \in {"key", "jwk"}
  BY DEF OwnerNewSigner, Holds
<1>2. PICK c \in Curves : c = Curve(keyType) /\ PrivForm(priv, c) /\ Mine(c, K) /\ keyType # Nil
  BY <1>1, OwnerHolds
<1>3. K \in Material
  BY DEF Material
<1>4. PICK signer : /\ signer = IF priv.form = "key" THEN NewJWXSigner(priv) ELSE NewJWXSignerFromJWK(priv)
                    /\ Owner("NewSigner", priv, signer)
  BY <1>1 DEF OwnerNewSigner, Holds
<1>5. \/ signer \in SignersOf(c, K) /\ signer # Nil
      \/ /\ signer = Nil
         /\ Dealt(priv) \cap {"X25519", "P-224"} # {} \/ (keyType \in Dilithium /\ priv.alg = "")
  <2>1. CASE priv.form = "key"
    <3>1. PICK go \in GoTypes(c) : priv = Key(go, K)
      BY <1>2, <2>1, PrivForms
    <3>2. signer = IF c \in {"X25519", "P-224"} THEN Nil ELSE JWSOf(c, Alg(c), K)
      BY <1>2, <1>3, <1>4, <2>1, <3>1, SignerOfKey, MineHasAPoint
    <3>3. CASE c \in {"X25519", "P-224"}
      <4>1. priv.go = c
        BY <3>1, <3>3 DEF GoTypes, Key
      <4>2. Dealt(priv) = {c}
        BY <2>1, <4>1 DEF Dealt
      <4> QED
        BY <3>2, <3>3, <4>2
    <3>4. CASE c \notin {"X25519", "P-224"}
      <4>1. Alg(c) \in Algs(c)
        BY <3>4 DEF Algs
      <4> QED
        BY <1>3, <3>2, <3>4, <4>1, JWSIsValue DEF SignersOf
    <3> QED
      BY <3>3, <3>4
  <2>2. CASE priv.form = "jwk"
    <3>1. c # "P-224" /\ \E alg \in Algs(c) \cup {""} : priv = JWKOf(c, alg, K)
      BY <1>2, <2>2, PrivForms
    <3>2. PICK alg \in Algs(c) \cup {""} : priv = JWKOf(c, alg, K)
      BY <3>1
    <3>3. priv.crv = Crv(c) /\ priv.alg = alg
      BY <3>2 DEF JWKOf, JWK
    <3>4. \/ signer \in SignersOf(c, K)
          \/ signer = Nil /\ (c = "X25519" \/ (c \in Dilithium /\ alg = ""))
      BY <1>3, <1>4, <2>2, <3>1, <3>2, SignerOfJWK
    <3>5. CASE signer \in SignersOf(c, K)
      BY <1>3, <3>5, JWSIsValue DEF SignersOf
    <3>6. CASE signer = Nil /\ c = "X25519"
      <4>1. Dealt(priv) = {"X25519"}
        BY <2>2, <3>3, <3>6 DEF Dealt, Crv, Dilithium
      <4> QED
        BY <3>6, <4>1
    <3>7. CASE signer = Nil /\ c \in Dilithium /\ alg = ""
      <4>1. keyType \in Dilithium
        BY <1>2, <3>7 DEF Curve, Dilithium
      <4> QED
        BY <3>3, <3>7, <4>1
    <3> QED
      BY <3>4, <3>5, <3>6, <3>7
  <2> QED
    BY <1>1, <2>1, <2>2
<1>6. CASE signer # Nil
  <2>1. PrivForm(priv', c) /\ failed' = Nil /\ UNCHANGED <<keyType, pub, token>>
    BY <1>4, <1>5, <1>6 DEF Owner, PrivForm
  <2> QED
    BY <1>1, <1>2, <2>1, OwnerGets
<1>7. CASE signer = Nil
  <2>1. failed' = [call |-> "NewSigner", arg |-> priv] /\ UNCHANGED <<keyType, priv, pub, token>>
    BY <1>4, <1>7 DEF Owner
  <2>2. Dealt(priv) \cap {"X25519", "P-224"} # {} \/ (keyType \in Dilithium /\ priv.alg = "")
    BY <1>5, <1>7
  <2>3. FailedOK'
    BY <2>1, <2>2 DEF FailedOK, ConversionsFailForAReason, SameKeyVerifies, Explained
  <2> QED
    BY <2>1, <2>3, CallFails
<1> QED
  BY <1>6, <1>7

LEMMA OwnerPublishesStep ==
  ASSUME KeyInv, OwnerPublishes
  PROVE  KeyInv'
<1>1. priv # Nil /\ priv.form \in {"jwk", "jws"}
  BY DEF OwnerPublishes, Holds
<1>2. PICK c \in Curves : c = Curve(keyType) /\ PrivForm(priv, c) /\ Mine(c, K) /\ keyType # Nil
  BY <1>1, OwnerHolds
<1>3. K \in Material
  BY DEF Material
<1>4. CASE priv.form = "jwk"
  <2>1. c # "P-224" /\ \E alg \in Algs(c) \cup {""} : priv = JWKOf(c, alg, K)
    BY <1>2, <1>4, PrivForms
  <2>2. PICK alg \in Algs(c) \cup {""} : priv = JWKOf(c, alg, K)
    BY <2>1
  <2>3. ToPublicKeyJWK(priv) = priv
    BY <1>3, <2>1, <2>2, PublicJWK
  <2>4. pub' = priv /\ failed' = Nil /\ UNCHANGED <<keyType, priv, token>>
    BY <1>1, <1>4, <2>3 DEF OwnerPublishes, Holds, Peer
  <2>5. PubForm(pub', c, K)
    BY <2>1, <2>2, <2>4 DEF PubForm, JWKsOf
  <2> QED
    BY <1>2, <1>3, <2>4, <2>5, PeerGets
<1>5. CASE priv.form = "jws"
  <2>1. c \notin {"X25519", "P-224"} /\ \E a \in Algs(c) : priv = JWSOf(c, a, K)
    BY <1>2, <1>5, PrivForms
  <2>2. PICK a \in Algs(c) : priv = JWSOf(c, a, K)
    BY <2>1
  <2>3. Peer("ToVerifier", priv, ToVerifier(priv))
    BY <1>5 DEF OwnerPublishes, Holds
  <2>4. CASE ToVerifier(priv) = Nil
    <3>1. c \in Dilithium
      BY <1>3, <2>1, <2>2, <2>4, VerifierOfSigner, JWSIsValue DEF VerifiersOf, SignersOf
    <3>2. keyType \in Dilithium
      BY <1>2, <3>1 DEF Curve, Dilithium
    <3>3. failed' = [call |-> "ToVerifier", arg |-> priv] /\ UNCHANGED <<keyType, priv, pub, token>>
      BY <2>3, <2>4 DEF Peer
    <3>4. FailedOK'
      BY <3>2, <3>3 DEF FailedOK, ConversionsFailForAReason, SameKeyVerifies, Explained
    <3> QED
      BY <3>3, <3>4, CallFails
  <2>5. CASE ToVerifier(priv) # Nil
    <3>1. ToVerifier(priv) \in VerifiersOf(c, K)
      BY <1>3, <2>1, <2>2, <2>5, VerifierOfSigner
    <3>2. PubForm(pub', c, K) /\ failed' = Nil /\ UNCHANGED <<keyType, priv, token>>
      BY <2>3, <2>5, <3>1 DEF Peer, PubForm
    <3> QED
      BY <1>2, <1>3, <3>2, PeerGets
  <2> QED
    BY <2>4, <2>5
<1> QED
  BY <1>1, <1>4, <1>5

LEMMA OwnerSignsStep ==
  ASSUME KeyInv, NEW call \in {"jwt", "jws", "detached"}, OwnerSigns(call)
  PROVE  KeyInv'
<1>1. priv # Nil /\ priv.form = "jws"
  BY DEF OwnerSigns, Holds
<1>2. PICK c \in Curves : c = Curve(keyType) /\ PrivForm(priv, c) /\ Mine(c, K) /\ keyType # Nil
  BY <1>1, OwnerHolds
<1>3. c \notin {"X25519", "P-224"} /\ \E a \in Algs(c) : priv = JWSOf(c, a, K)
  BY <1>1, <1>2, PrivForms
<1>4. PICK a \in Algs(c) : priv = JWSOf(c, a, K)
  BY <1>3
<1>5. \/ Sign(priv, call) = Nil /\ call = "jws" /\ a = "Ed25519"
      \/ Sign(priv, call) = TokenOf(call, c) /\ TokenOf(call, c) # Nil
  BY <1>3, <1>4, Signs
<1>6. CASE Sign(priv, call) = Nil
  <2>1. /\ failed' = [call |-> "Sign", arg |-> [by |-> priv, how |-> call]]
        /\ UNCHANGED <<keyType, priv, pub, token>>
    BY <1>6 DEF OwnerSigns
  <2>2. priv.jwk.alg = "Ed25519" /\ call = "jws"
    BY <1>4, <1>5, <1>6 DEF JWSOf, WithKey, JWKOf, JWK
  <2>3. FailedOK'
    BY <2>1, <2>2 DEF FailedOK, ConversionsFailForAReason, SameKeyVerifies
  <2> QED
    BY <2>1, <2>3, CallFails
<1>7. CASE Sign(priv, call) # Nil
  <2>1. token' = TokenOf(call, c) /\ failed' = Nil /\ UNCHANGED <<keyType, priv, pub>>
    BY <1>5, <1>7 DEF OwnerSigns
  <2>2. Curve(keyType)' = Curve(keyType)
    BY <2>1 DEF Curve
  <2>3. TokenOK'
    BY <1>2, <1>3, <2>1, <2>2 DEF TokenOK
  <2>4. PrivOK' /\ PubOK'
    BY <2>1, <2>2 DEF KeyInv, PrivOK, PubOK, Mine
  <2>5. KeyTypeOK'
    BY <1>2, <2>1 DEF KeyInv, KeyTypeOK
  <2>6. FailedOK'
    BY <2>1 DEF FailedOK, ConversionsFailForAReason, SameKeyVerifies
  <2> QED
    BY <2>3, <2>4, <2>5, <2>6 DEF KeyInv
<1> QED
  BY <1>6, <1>7

LEMMA PeerToBytesStep ==
  ASSUME KeyInv, PeerToBytes
  PROVE  KeyInv'
<1>0. CASE pub.form = "bytes"
  <2>1. PICK compressed \in BOOLEAN : pub # Nil /\ Peer("ToBytes", pub, PubKeyToBytes(pub, compressed))
    BY DEF PeerToBytes, PassesAsKey, Holds
  <2>2. Peer("ToBytes", pub, Nil)
    BY <1>0, <2>1, PeerBytes
  <2> QED
    BY <1>0, <2>1, <2>2, BytesRefused
<1> SUFFICES ASSUME pub.form # "bytes" PROVE KeyInv'
  BY <1>0
<1>1. pub # Nil /\ pub.form = "key"
  BY DEF PeerToBytes, PassesAsKey, Holds
<1>2. keyType # Nil
  BY <1>1, PeerHolds
<1>3. PICK c \in Curves, x \in Material : Mine(c, x) /\ PubForm(pub, c, x)
  BY <1>1, PeerHolds
<1>4. PICK go \in GoTypes(c) : pub = Key(go, x)
  BY <1>1, <1>3, PubForms
<1>5. PICK compressed \in BOOLEAN : Peer("ToBytes", pub, PubKeyToBytes(pub, compressed))
  BY DEF PeerToBytes
<1>6. PubKeyToBytes(pub, compressed) \in PubBytesOf(c, x)
  BY <1>4, ToBytes
<1>7. PubKeyToBytes(pub, compressed) # Nil
  BY <1>6, BytesAreValues DEF PubBytesOf
<1>8. PubForm(pub', c, x) /\ failed' = Nil /\ UNCHANGED <<keyType, priv, token>>
  BY <1>5, <1>6, <1>7 DEF Peer, PubForm
<1> QED
  BY <1>2, <1>3, <1>8, PeerGets

LEMMA PeerFromBytesStep ==
  ASSUME KeyInv, PeerFromBytes
  PROVE  KeyInv'
<1>1. pub # Nil /\ pub.form = "bytes"
  BY DEF PeerFromBytes, Holds
<1>2. keyType # Nil
  BY <1>1, PeerHolds
<1>3. PICK c \in Curves, x \in Material : Mine(c, x) /\ PubForm(pub, c, x)
  BY <1>1, PeerHolds
<1>4. PICK enc \in PubEncodings(c) : pub = Bytes(enc, c, x)
  BY <1>1, <1>3, PubForms
<1>5. PICK kt \in ReadAs(pub) : Peer("FromBytes", pub, BytesToPubKey(pub, kt, pub.enc = "compressed"))
  BY DEF PeerFromBytes
<1>6. pub.of = c /\ pub.enc = enc
  BY <1>4 DEF Bytes
<1>7. kt \in GoTypes(c)
  BY <1>5, <1>6 DEF ReadAs, GoTypes
<1>8. BytesToPubKey(pub, kt, pub.enc = "compressed") = Key(kt, x) /\ Key(kt, x) # Nil
  BY <1>4, <1>6, <1>7, FromBytes, KeyIsValue
<1>9. pub' = Key(kt, x) /\ failed' = Nil /\ UNCHANGED <<keyType, priv, token>>
  BY <1>5, <1>8 DEF Peer
<1>10. PubForm(pub', c, x)
  BY <1>7, <1>9 DEF PubForm, KeysOf
<1> QED
  BY <1>2, <1>3, <1>9, <1>10, PeerGets

LEMMA PeerToJWKStep ==
  ASSUME KeyInv, PeerToJWK
  PROVE  KeyInv'
<1>0. CASE pub.form = "bytes"
  <2>1. pub # Nil /\ Peer("ToJWK", pub, PublicKeyToPublicKeyJWK(pub))
    BY DEF PeerToJWK, PassesAsKey, Holds
  <2>2. Peer("ToJWK", pub, Nil)
    BY <1>0, <2>1, PeerBytes
  <2> QED
    BY <1>0, <2>1, <2>2, BytesRefused
<1> SUFFICES ASSUME pub.form # "bytes" PROVE KeyInv'
  BY <1>0
<1>1. pub # Nil /\ pub.form = "key"
  BY DEF PeerToJWK, PassesAsKey, Holds
<1>2. keyType # Nil
  BY <1>1, PeerHolds
<1>3. PICK c \in Curves, x \in Material : Mine(c, x) /\ PubForm(pub, c, x)
  BY <1>1, PeerHolds
<1>4. PICK go \in GoTypes(c) : pub = Key(go, x)
  BY <1>1, <1>3, PubForms
<1>5. PublicKeyToPublicKeyJWK(pub) = IF c = "P-224" THEN Nil ELSE JWKOf(c, Alg(c), x)
  BY <1>3, <1>4, ToJWK, MineHasAPoint
<1>6. CASE c = "P-224"
  <2>1. failed' = [call |-> "ToJWK", arg |-> pub] /\ UNCHANGED <<keyType, priv, pub, token>>
    BY <1>5, <1>6 DEF PeerToJWK, Peer
  <2>2. pub.go = "P-224"
    BY <1>4, <1>6 DEF Key, GoTypes
  <2>3. FailedOK'
    BY <2>1, <2>2 DEF FailedOK, ConversionsFailForAReason, SameKeyVerifies, Explained
  <2> QED
    BY <2>1, <2>3, CallFails
<1>7. CASE c # "P-224"
  <2>1. Alg(c) \in Algs(c)
    BY <1>7 DEF Algs
  <2>2. JWKOf(c, Alg(c), x) # Nil
    BY <2>1, JWKIsValue
  <2>3. pub' = JWKOf(c, Alg(c), x) /\ failed' = Nil /\ UNCHANGED <<keyType, priv, token>>
    BY <1>5, <1>7, <2>2 DEF PeerToJWK, Peer
  <2>4. PubForm(pub', c, x)
    BY <1>7, <2>1, <2>3 DEF PubForm, JWKsOf
  <2> QED
    BY <1>2, <1>3, <2>3, <2>4, PeerGets
<1> QED
  BY <1>6, <1>7

LEMMA PeerFromJWKStep ==
  ASSUME KeyInv, PeerFromJWK
  PROVE  KeyInv'
<1>1. pub # Nil /\ pub.form = "jwk"
  BY DEF PeerFromJWK, Holds
<1>2. keyType # Nil
  BY <1>1, PeerHolds
<1>3. PICK c \in Curves, x \in Material : Mine(c, x) /\ PubForm(pub, c, x)
  BY <1>1, PeerHolds
<1>4. c # "P-224" /\ \E alg \in Algs(c) \cup {""} : pub = JWKOf(c, alg, x)
  BY <1>1, <1>3, PubForms
<1>5. PICK alg \in Algs(c) \cup {""} : pub = JWKOf(c, alg, x)
  BY <1>4
<1>6. CASE c \in Dilithium /\ alg = ""
  <2>1. ToPublicKey(pub) = Nil
    BY <1>4, <1>5, <1>6, FromJWK
  <2>2. failed' = [call |-> "FromJWK", arg |-> pub] /\ UNCHANGED <<keyType, priv, pub, token>>
    BY <2>1 DEF PeerFromJWK, Peer
  <2>3. pub.kty = "LWE" /\ pub.alg = ""
    BY <1>5, <1>6, JWKKinds DEF JWKOf, JWK
  <2>4. FailedOK'
    BY <2>2, <2>3 DEF FailedOK, ConversionsFailForAReason, SameKeyVerifies, Explained
  <2> QED
    BY <2>2, <2>4, CallFails
<1>7. CASE ~(c \in Dilithium /\ alg = "")
  <2>1. ToPublicKey(pub) = Key(JOSEType(c), x) /\ JOSEType(c) \in GoTypes(c)
    BY <1>4, <1>5, <1>7, FromJWK, NamesOfCurves
  <2>2. Key(JOSEType(c), x) # Nil
    BY <2>1, KeyIsValue
  <2>3. PICK a \in Algs(c) : CompletedPublic(pub) = JWKOf(c, a, x)
    BY <1>4, <1>5, <1>7, Completed
  <2>4. JWKOf(c, a, x) # Nil
    BY JWKIsValue
  <2>5. /\ pub' = Key(JOSEType(c), x) \/ pub' = JWKOf(c, a, x)
        /\ failed' = Nil /\ UNCHANGED <<keyType, priv, token>>
    BY <2>1, <2>2, <2>3, <2>4 DEF PeerFromJWK, Peer
  <2>6. PubForm(pub', c, x)
    BY <1>4, <2>1, <2>5 DEF PubForm, KeysOf, JWKsOf
  <2> QED
    BY <1>2, <1>3, <2>5, <2>6, PeerGets
<1> QED
  BY <1>6, <1>7

LEMMA PeerImportsStep ==
  ASSUME KeyInv, PeerImports
  PROVE  KeyInv'
<1>1. pub # Nil /\ pub.form = "jwk"
  BY DEF PeerImports, Holds
<1>2. keyType # Nil
  BY <1>1, PeerHolds
<1>3. PICK c \in Curves, x \in Material : Mine(c, x) /\ PubForm(pub, c, x)
  BY <1>1, PeerHolds
<1>4. c # "P-224" /\ \E alg \in Algs(c) \cup {""} : pub = JWKOf(c, alg, x)
  BY <1>1, <1>3, PubForms
<1>5. PICK alg \in Algs(c) \cup {""} : pub = JWKOf(c, alg, x)
  BY <1>4
<1>6. PICK jwk \in Rewritten(pub) : Peer("Import", pub, jwk)
  BY DEF PeerImports
<1>7. PICK a \in Algs(c) \cup {""} : jwk = JWKOf(c, a, x)
  BY <1>4, <1>5, <1>6, RewrittenJWK
<1>8. JWKOf(c, a, x) # Nil
  BY JWKIsValue
<1>9. pub' = JWKOf(c, a, x) /\ failed' = Nil /\ UNCHANGED <<keyType, priv, token>>
  BY <1>6, <1>7, <1>8 DEF Peer
<1>10. PubForm(pub', c, x)
  BY <1>4, <1>9 DEF PubForm, JWKsOf
<1> QED
  BY <1>2, <1>3, <1>9, <1>10, PeerGets

LEMMA PeerNewVerifierStep ==
  ASSUME KeyInv, PeerNewVerifier
  PROVE  KeyInv'
<1>0. CASE pub.form = "bytes"
  <2>1. pub # Nil /\ Peer("NewVerifier", pub, NewJWXVerifier(pub))
    BY <1>0 DEF PeerNewVerifier, PassesAsKey, Holds
  <2>2. Peer("NewVerifier", pub, Nil)
    BY <1>0, <2>1, PeerBytes
  <2> QED
    BY <1>0, <2>1, <2>2, BytesRefused
<1> SUFFICES ASSUME pub.form # "bytes" PROVE KeyInv'
  BY <1>0
<1>1. pub # Nil /\ pub.form \in {"key", "jwk"}
  BY DEF PeerNewVerifier, PassesAsKey, Holds
<1>2. keyType # Nil
  BY <1>1, PeerHolds
<1>3. PICK c \in Curves, x \in Material : Mine(c, x) /\ PubForm(pub, c, x)
  BY <1>1, PeerHolds
<1>4. PICK verifier :
        /\ verifier = IF pub.form = "key" THEN NewJWXVerifier(pub) ELSE NewJWXVerifierFromJWK(pub)
        /\ Peer("NewVerifier", pub, verifier)
  BY <1>1 DEF PeerNewVerifier, PassesAsKey, Holds
<1>5. \/ verifier \in VerifiersOf(c, x) /\ verifier # Nil
      \/ verifier = Nil /\ (Dealt(pub) \cap {"X25519", "P-224"} # {} \/ c \in Dilithium)
  <2>1. CASE pub.form = "key"
    <3>1. PICK go \in GoTypes(c) : pub = Key(go, x)
      BY <1>3, <2>1, PubForms
    <3>2. verifier = IF c \in {"X25519", "P-224"} \cup Dilithium THEN Nil ELSE JWSOf(c, Alg(c), x)
      BY <1>3, <1>4, <2>1, <3>1, SignerOfKey, MineHasAPoint
    <3>3. CASE c \in {"X25519", "P-224"}
      <4>1. pub.go = c
        BY <3>1, <3>3 DEF GoTypes, Key
      <4>2. Dealt(pub) = {c}
        BY <2>1, <4>1 DEF Dealt
      <4> QED
        BY <3>2, <3>3, <4>2
    <3>4. CASE c \notin {"X25519", "P-224"} \cup Dilithium
      <4>1. Alg(c) \in Algs(c)
        BY <3>4 DEF Algs
      <4> QED
        BY <3>2, <3>4, <4>1, JWSIsValue DEF VerifiersOf, SignersOf
    <3> QED
      BY <3>2, <3>3, <3>4
  <2>2. CASE pub.form = "jwk"
    <3>1. c # "P-224" /\ \E alg \in Algs(c) \cup {""} : pub = JWKOf(c, alg, x)
      BY <1>3, <2>2, PubForms
    <3>2. PICK alg \in Algs(c) \cup {""} : pub = JWKOf(c, alg, x)
      BY <3>1
    <3>3. pub.crv = Crv(c)
      BY <3>2 DEF JWKOf, JWK
    <3>4. \/ verifier \in VerifiersOf(c, x)
          \/ verifier = Nil /\ (c = "X25519" \/ c \in Dilithium)
      BY <1>4, <2>2, <3>1, <3>2, SignerOfJWK
    <3>5. CASE verifier \in VerifiersOf(c, x)
      BY <3>5, JWSIsValue DEF VerifiersOf, SignersOf
    <3>6. CASE verifier = Nil /\ c = "X25519"
      <4>1. Dealt(pub) = {"X25519"}
        BY <2>2, <3>3, <3>6 DEF Dealt, Crv, Dilithium
      <4> QED
        BY <3>6, <4>1
    <3> QED
      BY <3>4, <3>5, <3>6
  <2> QED
    BY <1>1, <2>1, <2>2
<1>6. CASE verifier # Nil
  <2>1. PubForm(pub', c, x) /\ failed' = Nil /\ UNCHANGED <<keyType, priv, token>>
    BY <1>4, <1>5, <1>6 DEF Peer, PubForm
  <2> QED
    BY <1>2, <1>3, <2>1, PeerGets
<1>7. CASE verifier = Nil
  <2>1. failed' = [call |-> "NewVerifier", arg |-> pub] /\ UNCHANGED <<keyType, priv, pub, token>>
    BY <1>4, <1>7 DEF Peer
  <2>2. c \in Dilithium => keyType \in Dilithium
    BY <1>3 DEF Mine, Curve, Dilithium
  <2>3. FailedOK'
    BY <1>5, <1>7, <2>1, <2>2 DEF FailedOK, ConversionsFailForAReason, SameKeyVerifies, Explained
  <2> QED
    BY <2>1, <2>3, CallFails
<1> QED
  BY <1>6, <1>7

LEMMA DIDIsValue ==
  ASSUME NEW method \in {"key", "jwk", "peer"}, NEW codec \in Words \cup Uses,
         NEW content \in BytesValue \cup JWKValue, NEW by \in {"sdk", "caller"}
  PROVE  DID(method, codec, content, by) # Nil
<1>1. method \in Words /\ by \in Words
  BY DEF Words
<1>2. DID(method, codec, content, by) \in DIDValue
  BY <1>1 DEF DID, DIDValue
<1> QED
  BY <1>2, KeyAssumption

LEMMA BytesDIDIsValue ==
  ASSUME NEW c \in Curves, c \in Supported, NEW x \in Material, NEW enc \in PubEncodings(c),
         NEW method \in {"key", "jwk", "peer"}, NEW by \in {"sdk", "caller"}
  PROVE  DID(method, KeyTypeToMultiCodec(c), Bytes(enc, c, x), by) # Nil
<1>1. KeyTypeToMultiCodec(c) \in Words \cup Uses
  BY NamesAreWords
<1>2. Bytes(enc, c, x) \in BytesValue \cup JWKValue
  BY BytesAreValues
<1> QED
  BY <1>1, <1>2, DIDIsValue

LEMMA JWKDIDIsValue ==
  ASSUME NEW c \in Curves, c # "P-224", NEW x \in Material, NEW alg \in Algs(c) \cup {""},
         NEW use \in Uses \cup {""}, NEW by \in {"sdk", "caller"}
  PROVE  JWKDID(DID("jwk", use, JWKOf(c, alg, x), by), c, x) /\ DID("jwk", use, JWKOf(c, alg, x), by) # Nil
<1>1. use \in Words \cup Uses
  BY DEF Words
<1>2. JWKOf(c, alg, x) \in BytesValue \cup JWKValue
  BY JWKIsValue
<1>3. DID("jwk", use, JWKOf(c, alg, x), by) # Nil
  BY <1>1, <1>2, DIDIsValue
<1> QED
  BY <1>3 DEF JWKDID

LEMMA PeerCreatesDIDStep ==
  ASSUME KeyInv, PeerCreatesDID
  PROVE  KeyInv'
<1>1. pub # Nil
  BY DEF PeerCreatesDID, PassesAsKey, Holds
<1>2. keyType # Nil
  BY <1>1, PeerHolds
<1>3. PICK c \in Curves, x \in Material : Mine(c, x) /\ PubForm(pub, c, x)
  BY <1>1, PeerHolds
<1>4. CASE Holds(pub, "bytes") /\ Peer("CreateDID", pub, CreateDIDKey(pub.of, pub, "caller"))
  <2>1. PICK enc \in PubEncodings(c) : pub = Bytes(enc, c, x)
    BY <1>3, <1>4, PubForms DEF Holds
  <2>2. pub.of = c /\ pub.form = "bytes"
    BY <2>1 DEF Bytes
  <2>3. CASE c \notin Supported
    <3>1. failed' = [call |-> "CreateDID", arg |-> pub] /\ UNCHANGED <<keyType, priv, pub, token>>
      BY <1>4, <2>2, <2>3 DEF Peer, CreateDIDKey
    <3>2. FailedOK'
      BY <2>2, <2>3, <3>1 DEF FailedOK, ConversionsFailForAReason, SameKeyVerifies, Explained
    <3> QED
      BY <3>1, <3>2, CallFails
  <2>4. CASE c \in Supported
    <3>1. DID("key", KeyTypeToMultiCodec(c), pub, "caller") # Nil
      BY <2>1, <2>4, BytesDIDIsValue
    <3>2. /\ pub' = DID("key", KeyTypeToMultiCodec(c), pub, "caller")
          /\ failed' = Nil /\ UNCHANGED <<keyType, priv, token>>
      BY <1>4, <2>2, <2>4, <3>1 DEF Peer, CreateDIDKey
    <3>3. KeyDID(pub', c, x)
      BY <2>1, <2>4, <3>2 DEF KeyDID
    <3>4. PubForm(pub', c, x)
      BY <3>3 DEF PubForm
    <3> QED
      BY <1>2, <1>3, <3>2, <3>4, PeerGets
  <2> QED
    BY <2>3, <2>4
<1>5. CASE Holds(pub, "bytes") /\ Peer("CreateDoc", pub, CreateDoc(pub.of, pub))
  <2>1. PICK enc \in PubEncodings(c) : pub = Bytes(enc, c, x)
    BY <1>3, <1>5, PubForms DEF Holds
  <2>2. pub.of = c /\ pub.form = "bytes" /\ pub.enc = enc
    BY <2>1 DEF Bytes
  <2>3. PICK vm : vm = ConstructJWKVerificationMethod("key", pub, c)
    OBVIOUS
  <2>4. vm = IF c = "P-224" \/ enc = "pkix" THEN Nil
             ELSE VerificationMethod("key", "JsonWebKey2020", JWKOf(c, Alg(c), x), Nil)
    BY <1>3, <2>1, <2>3, JWKMethod, MineHasAPoint
  <2>5. CASE c = "P-224" \/ enc = "pkix"
    <3>1. failed' = [call |-> "CreateDoc", arg |-> pub] /\ UNCHANGED <<keyType, priv, pub, token>>
      BY <1>5, <2>2, <2>3, <2>4, <2>5 DEF Peer, CreateDoc
    <3>2. FailedOK'
      BY <2>2, <2>5, <3>1 DEF FailedOK, ConversionsFailForAReason, SameKeyVerifies, Explained
    <3> QED
      BY <3>1, <3>2, CallFails
  <2>6. CASE ~(c = "P-224" \/ enc = "pkix")
    <3>1. Alg(c) \in Algs(c)
      BY <2>6 DEF Algs
    <3>2. vm \in MethodsOf("key", c, x)
      BY <2>4, <2>6, <3>1, MethodIsValue
    <3>3. vm # Nil
      BY <3>2, MethodIsValue
    <3>4. OneMethod(Document("web", <<vm>>, {"key"}, {}), c, x) /\ Document("web", <<vm>>, {"key"}, {}) # Nil
      BY <3>2, OneMethodDocument
    <3>5. CreateDoc(pub.of, pub) = Document("web", <<vm>>, {"key"}, {})
      BY <2>2, <2>3, <3>3 DEF CreateDoc
    <3>6. PubForm(pub', c, x) /\ failed' = Nil /\ UNCHANGED <<keyType, priv, token>>
      BY <1>5, <3>4, <3>5 DEF Peer, PubForm
    <3> QED
      BY <1>2, <1>3, <3>6, PeerGets
  <2> QED
    BY <2>5, <2>6
<1>8. CASE Holds(pub, "bytes") /\ Peer("CreatePeer", pub, GenerateDIDPeer(TypeOf(pub), pub))
  <2>1. PICK kt : kt = TypeOf(pub)
    OBVIOUS
  <2>2. pub.form = "bytes" /\ Peer("CreatePeer", pub, GenerateDIDPeer(kt, pub))
    BY <1>8, <2>1 DEF Holds
  <2>3. Peer("CreatePeer", pub, Nil)
    BY <1>1, <2>2, PeerBytes
  <2> QED
    BY <1>1, <2>2, <2>3, BytesRefused
<1>6. CASE Holds(pub, "key") /\ Peer("CreatePeer", pub, GenerateDIDPeer(TypeOf(pub), pub))
  <2>1. PICK go \in GoTypes(c) : pub = Key(go, x)
    BY <1>3, <1>6, PubForms DEF Holds
  <2>2. pub.go = go /\ pub.form = "key" /\ TypeOf(pub) = go
    BY <2>1 DEF Key, TypeOf
  <2>3. CASE go \notin Supported
    <3>1. failed' = [call |-> "CreatePeer", arg |-> pub] /\ UNCHANGED <<keyType, priv, pub, token>>
      BY <1>6, <2>2, <2>3 DEF Peer, GenerateDIDPeer
    <3>2. FailedOK'
      BY <2>2, <2>3, <3>1 DEF FailedOK, ConversionsFailForAReason, SameKeyVerifies, Explained
    <3> QED
      BY <3>1, <3>2, CallFails
  <2>4. CASE go \in Supported
    <3>1. go = c
      BY <2>4 DEF GoTypes, Koblitz, Supported
    <3>2. PICK enc \in PubEncodings(c) : PubKeyToBytes(pub, FALSE) = Bytes(enc, c, x)
      BY <2>1, ToBytes DEF PubBytesOf
    <3>7. c \in NIST => enc = "pkix"
      <4>1. c \in NIST => PubKeyToBytes(pub, FALSE).enc = "pkix"
        BY <2>1, ToBytes
      <4>2. Bytes(enc, c, x).enc = enc
        BY DEF Bytes
      <4> QED
        BY <3>2, <4>1, <4>2
    <3>8. Bytes(enc, c, x) # Nil
      BY <2>4, <3>1, BytesAreValues DEF GoTypes
    <3>3. DID("peer", KeyTypeToMultiCodec(c), Bytes(enc, c, x), "sdk") # Nil
      BY <2>4, <3>1, BytesDIDIsValue
    <3>4. /\ pub' = DID("peer", KeyTypeToMultiCodec(c), Bytes(enc, c, x), "sdk")
          /\ failed' = Nil /\ UNCHANGED <<keyType, priv, token>>
      BY <1>6, <2>2, <2>4, <3>1, <3>2, <3>3, <3>8 DEF Peer, GenerateDIDPeer
    <3>5. PeerDID(pub', c, x)
      BY <2>4, <3>1, <3>4, <3>7 DEF PeerDID
    <3>6. PubForm(pub', c, x)
      BY <3>5 DEF PubForm
    <3> QED
      BY <1>2, <1>3, <3>4, <3>6, PeerGets
  <2> QED
    BY <2>3, <2>4
<1>7. CASE Holds(pub, "jwk") /\ \E use \in Uses : Peer("CreateDID", pub, CreateDIDJWK(pub, use, "caller"))
  <2>1. c # "P-224" /\ \E alg \in Algs(c) \cup {""} : pub = JWKOf(c, alg, x)
    BY <1>3, <1>7, PubForms DEF Holds
  <2>2. PICK alg \in Algs(c) \cup {""} : pub = JWKOf(c, alg, x)
    BY <2>1
  <2>3. PICK use \in Uses : Peer("CreateDID", pub, DID("jwk", use, pub, "caller"))
    BY <1>7 DEF CreateDIDJWK
  <2>4. JWKDID(DID("jwk", use, pub, "caller"), c, x) /\ DID("jwk", use, pub, "caller") # Nil
    BY <2>1, <2>2, JWKDIDIsValue
  <2>5. PubForm(pub', c, x) /\ failed' = Nil /\ UNCHANGED <<keyType, priv, token>>
    BY <2>3, <2>4 DEF Peer, PubForm
  <2> QED
    BY <1>2, <1>3, <2>5, PeerGets
<1> QED
  BY <1>4, <1>5, <1>6, <1>7, <1>8 DEF PeerCreatesDID, PassesAsKey

(* An identifier resolves to a document, unless it was made of             *)
(* uncompressed bytes.                                                     *)
LEMMA Resolved ==
  ASSUME NEW c \in Curves, NEW x \in Material, Mine(c, x), PubForm(pub, c, x), pub.form = "did",
         NEW doc, doc = Resolve(pub)
  PROVE  \/ /\ doc # Nil /\ ~PeerFault(pub)
            /\ OneMethod(doc, c, x) \/ TwoMethods(doc, c, x)
         \/ doc = Nil /\ (PeerFault(pub) \/ (pub.by = "caller" /\ pub.content.enc = "pkix"))
<1>4. x # NoPoint \/ c = "X25519"
  BY MineHasAPoint
<1>5. c = "Ed25519" => x = K
  BY MineHasAPoint
<1>1. CASE KeyDID(pub, c, x)
  <2>1. PICK enc \in PubEncodings(c), by \in {"sdk", "caller"} :
          /\ pub = DID("key", KeyTypeToMultiCodec(c), Bytes(enc, c, x), by)
          /\ by = "sdk" => enc # "pkix"
    BY <1>1 DEF KeyDID
  <2>2. pub.method = "key" /\ pub.content.enc = enc /\ pub.by = by
    BY <2>1 DEF DID, Bytes
  <2>5. ~PeerFault(pub)
    BY <2>2 DEF PeerFault
  <2>3. doc = ExpandDIDKey(DID("key", KeyTypeToMultiCodec(c), Bytes(enc, c, x), by), "JsonWebKey2020", TRUE)
    BY <2>1, <2>2 DEF Resolve
  <2>4. \/ doc = Nil /\ enc = "pkix"
        \/ doc # Nil /\ (OneMethod(doc, c, x) \/ TwoMethods(doc, c, x))
    BY <1>4, <1>5, <1>1, <2>3, ExpandedDIDKey DEF KeyDID
  <2> QED
    BY <2>1, <2>2, <2>4, <2>5
<1>2. CASE PeerDID(pub, c, x)
  <2>1. PICK enc \in PubEncodings(c) :
          /\ pub = DID("peer", KeyTypeToMultiCodec(c), Bytes(enc, c, x), "sdk")
          /\ c \in NIST => enc = "pkix"
    BY <1>2 DEF PeerDID
  <2>2. /\ pub.method = "peer" /\ pub.content = Bytes(enc, c, x) /\ pub.content.enc = enc
        /\ pub.codec = KeyTypeToMultiCodec(c) /\ c \in Supported
    BY <1>2, <2>1 DEF DID, Bytes, PeerDID
  <2>3. PICK vm : vm = ConstructJWKVerificationMethod("key", Bytes(enc, c, x), c)
    OBVIOUS
  <2>4. doc = IF vm = Nil THEN Nil ELSE Document("peer", <<vm>>, {"key"}, {"key"})
    BY <2>2, <2>3, CodecsAreInverse DEF Resolve, ResolveDIDPeer
  <2>5. c # "P-224"
    BY <2>2 DEF Supported
  <2>6. vm = IF enc = "pkix" THEN Nil
             ELSE VerificationMethod("key", "JsonWebKey2020", JWKOf(c, Alg(c), x), Nil)
    BY <1>4, <2>3, <2>5, JWKMethod
  <2>9. PeerFault(pub) <=> enc = "pkix"
    <3>1. pub.content.of = c
      BY <2>2 DEF Bytes
    <3>2. enc = "pkix" <=> c \in NIST
      BY <2>1, Alphabet DEF PubEncodings, NIST, Edwards, Dilithium
    <3> QED
      BY <2>2, <3>1, <3>2 DEF PeerFault
  <2>7. CASE enc = "pkix"
    BY <2>4, <2>6, <2>7, <2>9
  <2>8. CASE enc # "pkix"
    <3>1. Alg(c) \in Algs(c)
      BY <2>5 DEF Algs
    <3>2. vm \in MethodsOf("key", c, x)
      BY <2>5, <2>6, <2>8, <3>1, MethodIsValue
    <3>3. vm # Nil
      BY <3>2, MethodIsValue
    <3>4. /\ OneMethod(Document("peer", <<vm>>, {"key"}, {"key"}), c, x)
          /\ Document("peer", <<vm>>, {"key"}, {"key"}) # Nil
      BY <3>2, OneMethodDocument
    <3> QED
      BY <2>4, <2>8, <2>9, <3>3, <3>4
  <2> QED
    BY <2>7, <2>8
<1>3. CASE JWKDID(pub, c, x)
  <2>1. PICK use \in Uses \cup {""}, alg \in Algs(c) \cup {""}, by \in {"sdk", "caller"} :
          pub = DID("jwk", use, JWKOf(c, alg, x), by)
    BY <1>3 DEF JWKDID
  <2>2. pub.method = "jwk" /\ pub.content = JWKOf(c, alg, x)
    BY <2>1 DEF DID
  <2>3. PICK vm : vm = VerificationMethod("key", "JsonWebKey2020", JWKOf(c, alg, x), Nil)
    OBVIOUS
  <2>4. PICK auth \in SUBSET {"key"}, agree \in SUBSET {"key"} :
          doc = Document("jwk", <<vm>>, auth, agree)
    <3>1. doc = Document("jwk", <<vm>>, IF pub.codec = "enc" THEN {} ELSE {"key"},
                         IF pub.codec = "sig" THEN {} ELSE {"key"})
      BY <2>2, <2>3 DEF Resolve, ExpandDIDJWK
    <3> QED
      BY <3>1
  <2>5. vm \in MethodsOf("key", c, x)
    BY <1>3, <2>3, MethodIsValue DEF JWKDID
  <2>6. OneMethod(doc, c, x) /\ doc # Nil
    BY <2>4, <2>5, OneMethodDocument, ZenonT(30)
  <2>7. ~PeerFault(pub)
    BY <2>2 DEF PeerFault
  <2> QED
    BY <2>6, <2>7
<1> QED
  BY <1>1, <1>2, <1>3, PubForms

LEMMA PeerResolvesStep ==
  ASSUME KeyInv, PeerResolves
  PROVE  KeyInv'
<1>1. pub # Nil /\ pub.form = "did" /\ Peer("Resolve", pub, Resolve(pub))
  BY DEF PeerResolves, Holds
<1>2. keyType # Nil
  BY <1>1, PeerHolds
<1>3. PICK c \in Curves, x \in Material : Mine(c, x) /\ PubForm(pub, c, x)
  BY <1>1, PeerHolds
<1>6. PICK doc : doc = Resolve(pub)
  OBVIOUS
<1>7. \/ doc # Nil /\ (OneMethod(doc, c, x) \/ TwoMethods(doc, c, x))
      \/ doc = Nil /\ (PeerFault(pub) \/ (pub.by = "caller" /\ pub.content.enc = "pkix"))
  BY <1>1, <1>3, <1>6, Resolved
<1>8. CASE doc = Nil
  <2>1. failed' = [call |-> "Resolve", arg |-> pub] /\ UNCHANGED <<keyType, priv, pub, token>>
    BY <1>1, <1>6, <1>8 DEF Peer
  <2>2. FailedOK'
    BY <1>7, <1>8, <2>1 DEF FailedOK, ConversionsFailForAReason, SameKeyVerifies, Explained
  <2> QED
    BY <2>1, <2>2, CallFails
<1>9. CASE doc # Nil
  <2>1. PubForm(pub', c, x) /\ failed' = Nil /\ UNCHANGED <<keyType, priv, token>>
    BY <1>1, <1>6, <1>7, <1>9 DEF Peer, PubForm
  <2> QED
    BY <1>2, <1>3, <2>1, PeerGets
<1> QED
  BY <1>8, <1>9

(* Only a did:key says that its method is "key".                           *)
LEMMA DIDKeyForm ==
  ASSUME NEW c \in Curves, NEW x \in Material, PubForm(pub, c, x), pub.form = "did",
         pub.method = "key"
  PROVE  c \in Supported /\ \E enc \in PubEncodings(c), by \in {"sdk", "caller"} :
           /\ pub = DID("key", KeyTypeToMultiCodec(c), Bytes(enc, c, x), by)
           /\ by = "sdk" => enc # "pkix"
<1>1. CASE KeyDID(pub, c, x)
  BY <1>1 DEF KeyDID
<1>2. CASE PeerDID(pub, c, x)
  <2>1. PICK enc \in PubEncodings(c) :
          pub = DID("peer", KeyTypeToMultiCodec(c), Bytes(enc, c, x), "sdk")
    BY <1>2 DEF PeerDID
  <2>2. pub.method = "peer"
    BY <2>1 DEF DID
  <2> QED
    BY <2>2
<1>3. CASE JWKDID(pub, c, x)
  <2>1. PICK use \in Uses \cup {""}, alg \in Algs(c) \cup {""}, by \in {"sdk", "caller"} :
          pub = DID("jwk", use, JWKOf(c, alg, x), by)
    BY <1>3 DEF JWKDID
  <2>2. pub.method = "jwk"
    BY <2>1 DEF DID
  <2> QED
    BY <2>2
<1> QED
  BY <1>1, <1>2, <1>3, PubForms

LEMMA PeerExpandsStep ==
  ASSUME KeyInv, PeerExpands
  PROVE  KeyInv'
<1>1. pub # Nil /\ pub.form = "did" /\ pub.method = "key"
  BY DEF PeerExpands, Holds
<1>2. keyType # Nil
  BY <1>1, PeerHolds
<1>3. PICK c \in Curves, x \in Material : Mine(c, x) /\ PubForm(pub, c, x)
  BY <1>1, PeerHolds
<1>4. x # NoPoint \/ c = "X25519"
  BY <1>3, MineHasAPoint
<1>5. c = "Ed25519" => x = K
  BY <1>3, MineHasAPoint
<1>6. c \in Supported
  BY <1>1, <1>3, DIDKeyForm
<1>7. PICK enc \in PubEncodings(c), by \in {"sdk", "caller"} :
        /\ pub = DID("key", KeyTypeToMultiCodec(c), Bytes(enc, c, x), by)
        /\ by = "sdk" => enc # "pkix"
  BY <1>1, <1>3, DIDKeyForm
<1>8. PICK format \in {"JsonWebKey2020", "Multikey"}, derive \in BOOLEAN :
        Peer(format, pub, ExpandDIDKey(pub, format, derive))
  BY DEF PeerExpands
<1>9. PICK doc : doc = ExpandDIDKey(pub, format, derive)
  OBVIOUS
<1>10. \/ doc = Nil /\ (IF format = "Multikey" THEN c = "RSA" ELSE enc = "pkix")
       \/ doc # Nil /\ (OneMethod(doc, c, x) \/ TwoMethods(doc, c, x))
  BY <1>4, <1>5, <1>6, <1>7, <1>9, ExpandedDIDKey
<1>11. CASE doc = Nil
  <2>1. failed' = [call |-> format, arg |-> pub] /\ UNCHANGED <<keyType, priv, pub, token>>
    BY <1>8, <1>9, <1>11 DEF Peer
  <2>2. pub.content.enc = enc /\ pub.by = by
    BY <1>7 DEF DID, Bytes
  <2>3. c = "RSA" => keyType = "RSA"
    BY <1>3 DEF Mine, Curve
  <2>4. CASE format = "Multikey"
    <3>1. keyType = "RSA"
      BY <1>10, <1>11, <2>3, <2>4
    <3>2. FailedOK'
      BY <2>1, <2>4, <3>1 DEF FailedOK, ConversionsFailForAReason, SameKeyVerifies, Explained
    <3> QED
      BY <2>1, <3>2, CallFails
  <2>5. CASE format = "JsonWebKey2020"
    <3>1. pub.content.enc = "pkix" /\ pub.by = "caller"
      BY <1>7, <1>10, <1>11, <2>2, <2>5
    <3>2. FailedOK'
      BY <2>1, <2>5, <3>1 DEF FailedOK, ConversionsFailForAReason, SameKeyVerifies, Explained
    <3> QED
      BY <2>1, <3>2, CallFails
  <2> QED
    BY <2>4, <2>5
<1>12. CASE doc # Nil
  <2>1. PubForm(pub', c, x) /\ failed' = Nil /\ UNCHANGED <<keyType, priv, token>>
    BY <1>8, <1>9, <1>10, <1>12 DEF Peer, PubForm
  <2> QED
    BY <1>2, <1>3, <2>1, PeerGets
<1> QED
  BY <1>11, <1>12

LEMMA PeerDecodesStep ==
  ASSUME KeyInv, PeerDecodes
  PROVE  KeyInv'
<1>1. pub # Nil /\ pub.form = "did" /\ pub.method = "key" /\ Peer("Decode", pub, pub.content)
  BY DEF PeerDecodes, Holds
<1>2. keyType # Nil
  BY <1>1, PeerHolds
<1>3. PICK c \in Curves, x \in Material : Mine(c, x) /\ PubForm(pub, c, x)
  BY <1>1, PeerHolds
<1>4. PICK enc \in PubEncodings(c), by \in {"sdk", "caller"} :
        pub = DID("key", KeyTypeToMultiCodec(c), Bytes(enc, c, x), by)
  BY <1>1, <1>3, DIDKeyForm
<1>5. pub.content = Bytes(enc, c, x) /\ Bytes(enc, c, x) # Nil
  BY <1>4, BytesAreValues DEF DID
<1>6. PubForm(pub', c, x) /\ failed' = Nil /\ UNCHANGED <<keyType, priv, token>>
  BY <1>1, <1>5 DEF Peer, PubForm, PubBytesOf
<1> QED
  BY <1>2, <1>3, <1>6, PeerGets

(* A method of a document belongs to the key of the document, or to the    *)
(* one derived from it.                                                    *)
LEMMA MethodsOfDocument ==
  ASSUME KeyInv, pub # Nil, pub.form = "document", NEW n \in DOMAIN pub.methods
  PROVE  \/ \E id \in {"key", "derived"}, c \in Curves, x \in Material :
              Mine(c, x) /\ pub.methods[n] \in MethodsOf(id, c, x)
         \/ /\ pub.method = "remote"
            /\ \E c \in Curves, x \in Material :
                 Mine(c, x) /\ c \in Supported /\ pub.methods[n] \in RemoteMethods(c, x)
<1>1. PICK c \in Curves, x \in Material : Mine(c, x) /\ PubForm(pub, c, x)
  BY PeerHolds
<1>2. CASE OneMethod(pub, c, x)
  <2>1. PICK vm \in MethodsOf("key", c, x) : pub.methods = <<vm>>
    BY <1>2 DEF OneMethod, Document
  <2>2. pub.methods[n] = vm
    BY <2>1
  <2> QED
    BY <1>1, <2>2
<1>3. CASE TwoMethods(pub, c, x)
  <2>1. c = "Ed25519" /\ x = K
    BY <1>3 DEF TwoMethods
  <2>2. PICK vm \in MethodsOf("key", c, x), extra \in MethodsOf("derived", "X25519", <<"derived", K>>) :
          pub.methods = <<vm, extra>>
    BY <1>3 DEF TwoMethods, Document
  <2>3. pub.methods[n] = vm \/ pub.methods[n] = extra
    BY <2>2
  <2>4. "X25519" \in Curves /\ <<"derived", K>> \in Material
    BY DEF Curves, KeyTypes, Edwards, Material
  <2>5. Mine("X25519", <<"derived", K>>)
    BY <1>1, <2>1 DEF Mine, Curve
  <2> QED
    BY <1>1, <2>2, <2>3, <2>4, <2>5
<1>4. CASE Remote(pub, c, x)
  <2>1. PICK vm \in RemoteMethods(c, x) : pub = Document("remote", <<vm>>, {"key"}, {})
    BY <1>4 DEF Remote
  <2>2. pub.methods = <<vm>> /\ pub.method = "remote"
    BY <2>1 DEF Document
  <2>3. pub.methods[n] = vm
    BY <2>2
  <2> QED
    BY <1>1, <1>4, <2>2, <2>3 DEF Remote
<1> QED
  BY <1>1, <1>2, <1>3, <1>4, PubForms

(* What the code takes out of a method from elsewhere: the key, or bytes   *)
(* for it.                                                                 *)
LEMMA KeyOfRemoteMethod ==
  ASSUME NEW c \in Curves, c \in Supported, NEW x \in Material, NEW vm \in RemoteMethods(c, x)
  PROVE  \/ \E go \in GoTypes(c) : extractKeyFromVerificationMethod(vm) = Key(go, x)
         \/ /\ vm.type = "JsonWebKey2020"
            /\ \E enc \in PubEncodings(c) : extractKeyFromVerificationMethod(vm) = Bytes(enc, c, x)
<1>1. PICK type \in RemoteTypes(c), enc \in PubEncodings(c) :
        vm = VerificationMethod("key", type, Nil, Bytes(enc, c, x))
  BY DEF RemoteMethods, PubBytesOf
<1>2. vm.bytes = Bytes(enc, c, x) /\ vm.bytes # Nil /\ vm.type = type
  BY <1>1, OwnName, BytesAreValues DEF VerificationMethod
<1>3. extractKeyFromVerificationMethod(vm) = PubKeyBytesToTypedKey(Bytes(enc, c, x), type)
  BY <1>2 DEF extractKeyFromVerificationMethod
<1>4. CASE type = "JsonWebKey2020"
  <2>1. PubKeyBytesToTypedKey(Bytes(enc, c, x), type) = Bytes(enc, c, x)
    BY <1>4 DEF PubKeyBytesToTypedKey
  <2> QED
    BY <1>2, <1>3, <1>4, <2>1
<1>5. CASE type # "JsonWebKey2020"
  <2>1. /\ c \in {"Ed25519", "X25519", "secp256k1"}
        /\ type = DecodeMultibasePublicKeyWithType(KeyTypeToMultiCodec(c))
    BY <1>5, Alphabet DEF RemoteTypes, DecodeMultibasePublicKeyWithType, KeyTypeToMultiCodec, Supported
  <2>2. PubKeyBytesToTypedKey(Bytes(enc, c, x), type) = BytesToPubKey(Bytes(enc, c, x), c, FALSE)
    BY <2>1 DEF PubKeyBytesToTypedKey, DecodeMultibasePublicKeyWithType, KeyTypeToMultiCodec
  <2>3. BytesToPubKey(Bytes(enc, c, x), c, FALSE) = Key(c, x)
    BY <2>1 DEF BytesToPubKey, Bytes, PubEncodings, NIST, Edwards, Koblitz, Dilithium
  <2> QED
    BY <1>3, <2>2, <2>3, OwnName
<1> QED
  BY <1>4, <1>5

LEMMA PeerReceivesStep ==
  ASSUME KeyInv, PeerReceives
  PROVE  KeyInv'
<1>1. pub # Nil /\ pub.form = "bytes" /\ pub.of \in Supported
  BY DEF PeerReceives, Holds
<1>2. keyType # Nil
  BY <1>1, PeerHolds
<1>3. PICK c \in Curves, x \in Material : Mine(c, x) /\ PubForm(pub, c, x)
  BY <1>1, PeerHolds
<1>4. PICK enc \in PubEncodings(c) : pub = Bytes(enc, c, x)
  BY <1>1, <1>3, PubForms
<1>5. pub.of = c /\ c \in Supported
  BY <1>1, <1>4 DEF Bytes
<1>6. PICK doc \in RemoteDocuments(c, pub) : Peer("Receive", pub, doc)
  BY <1>5 DEF PeerReceives
<1>7. PICK type \in RemoteTypes(c) :
        doc = Document("remote", <<VerificationMethod("key", type, Nil, pub)>>, {"key"}, {})
  BY <1>6 DEF RemoteDocuments, RemoteTypes, buildVerificationMethod, ConstructMultibaseVerificationMethod
<1>8. PICK vm : vm = VerificationMethod("key", type, Nil, pub)
  OBVIOUS
<1>9. vm \in RemoteMethods(c, x)
  BY <1>4, <1>8 DEF RemoteMethods, PubBytesOf
<1>10. vm \in MethodValue
  <2>1. type \in Words
    BY <1>5, Alphabet DEF RemoteTypes, DecodeMultibasePublicKeyWithType, KeyTypeToMultiCodec,
       Supported, Words
  <2>2. pub \in BytesValue /\ "key" \in Words
    BY <1>4, OwnName, BytesAreValues DEF Words
  <2> QED
    BY <1>8, <2>1, <2>2 DEF VerificationMethod, MethodValue
<1>11. doc = Document("remote", <<vm>>, {"key"}, {})
  BY <1>7, <1>8
<1>12. doc # Nil
  <2>1. "remote" \in Words /\ {"key"} \in SUBSET Words /\ {} \in SUBSET Words
    BY DEF Words
  <2>2. <<vm>> \in Seq(MethodValue)
    BY <1>10
  <2>3. doc \in DocumentValue
    BY <1>11, <2>1, <2>2 DEF Document, DocumentValue
  <2> QED
    BY <2>3, KeyAssumption
<1>13. pub' = doc /\ failed' = Nil /\ UNCHANGED <<keyType, priv, token>>
  BY <1>6, <1>12 DEF Peer
<1>14. Remote(pub', c, x)
  BY <1>5, <1>9, <1>11, <1>13 DEF Remote
<1>15. PubForm(pub', c, x)
  BY <1>14 DEF PubForm
<1> QED
  BY <1>2, <1>3, <1>13, <1>15, PeerGets

LEMMA PeerTakesKeyStep ==
  ASSUME KeyInv, PeerTakesKey
  PROVE  KeyInv'
<1>1. pub # Nil /\ pub.form = "document"
  BY DEF PeerTakesKey, Holds
<1>2. keyType # Nil
  BY <1>1, PeerHolds
<1>3. PICK n \in DOMAIN pub.methods :
        Peer("TakeKey", pub.methods[n], extractKeyFromVerificationMethod(pub.methods[n]))
  BY DEF PeerTakesKey
<1>4. CASE \E id \in {"key", "derived"}, c \in Curves, x \in Material :
             Mine(c, x) /\ pub.methods[n] \in MethodsOf(id, c, x)
  <2>4. PICK id \in {"key", "derived"}, c \in Curves, x \in Material :
          Mine(c, x) /\ pub.methods[n] \in MethodsOf(id, c, x)
    BY <1>4
<2>5. PICK vm \in MethodsOf(id, c, x) : vm = pub.methods[n]
    BY <2>4
  <2>6. PICK k : k = extractKeyFromVerificationMethod(vm)
    OBVIOUS
  <2>7. \/ \E go \in GoTypes(c) : k = Key(go, x)
        \/ k = Nil /\ (c \in Dilithium \/ (c \in NIST /\ vm.jwk = Nil))
    BY <2>6, KeyOfMethod
  <2>8. CASE k = Nil
    <3>1. failed' = [call |-> "TakeKey", arg |-> vm] /\ UNCHANGED <<keyType, priv, pub, token>>
      BY <1>3, <2>5, <2>6, <2>8 DEF Peer
    <3>2. c \in Dilithium \/ (c \in NIST /\ vm.jwk = Nil)
      BY <2>7, <2>8, KeyIsValue
    <3>3. keyType \in Dilithium \/ (keyType \in NIST /\ vm.jwk = Nil)
      BY <2>4, <3>2 DEF Mine, Curve, Dilithium, NIST
    <3>4. FailedOK'
      BY <3>1, <3>3 DEF FailedOK, ConversionsFailForAReason, SameKeyVerifies, Explained
    <3> QED
      BY <3>1, <3>4, CallFails
  <2>9. CASE k # Nil
    <3>1. PICK go \in GoTypes(c) : k = Key(go, x)
      BY <2>7, <2>9
    <3>2. pub' = Key(go, x) /\ failed' = Nil /\ UNCHANGED <<keyType, priv, token>>
      BY <1>3, <2>5, <2>6, <2>9, <3>1 DEF Peer
    <3>3. PubForm(pub', c, x)
      BY <3>2 DEF PubForm, KeysOf
    <3> QED
      BY <1>2, <2>4, <3>2, <3>3, PeerGets
  <2> QED
    BY <2>8, <2>9
<1>5. CASE \E c \in Curves, x \in Material :
             Mine(c, x) /\ c \in Supported /\ pub.methods[n] \in RemoteMethods(c, x)
  <2>1. PICK c \in Curves, x \in Material :
          Mine(c, x) /\ c \in Supported /\ pub.methods[n] \in RemoteMethods(c, x)
    BY <1>5
  <2>2. PICK vm \in RemoteMethods(c, x) : vm = pub.methods[n]
    BY <2>1
  <2>3. PICK k : k = extractKeyFromVerificationMethod(vm)
    OBVIOUS
  <2>4. \/ \E go \in GoTypes(c) : k = Key(go, x)
        \/ \E enc \in PubEncodings(c) : k = Bytes(enc, c, x)
    BY <2>1, <2>3, KeyOfRemoteMethod
  <2>5. k # Nil
    BY <2>4, KeyIsValue, OwnName, BytesAreValues
  <2>6. pub' = k /\ failed' = Nil /\ UNCHANGED <<keyType, priv, token>>
    BY <1>3, <2>2, <2>3, <2>5 DEF Peer
  <2>7. PubForm(pub', c, x)
    BY <2>4, <2>6 DEF PubForm, KeysOf, PubBytesOf
  <2> QED
    BY <1>2, <2>1, <2>6, <2>7, PeerGets
<1> QED
  BY <1>1, <1>3, <1>4, <1>5, MethodsOfDocument

LEMMA PeerVerifiesStep ==
  ASSUME KeyInv, PeerVerifies
  PROVE  KeyInv'
<1>1. pub # Nil /\ pub.form = "jws" /\ token # Nil /\ UNCHANGED <<keyType, priv, pub, token>>
  BY DEF PeerVerifies, Holds
<1>2. PICK c \in Curves, x \in Material : Mine(c, x) /\ PubForm(pub, c, x)
  BY <1>1, PeerHolds
<1>3. /\ c \notin {"X25519", "P-224"} \cup Dilithium
      /\ \E a \in Algs(c) : pub = JWSOf(c, a, x)
  BY <1>1, <1>2, PubForms
<1>4. PICK a \in Algs(c) : pub = JWSOf(c, a, x)
  BY <1>3
<1>5. x = K /\ c = Curve(keyType)
  BY <1>2, <1>3 DEF Mine
<1>6. PICK how \in {"jwt", "jws", "detached"} : token = TokenOf(how, c)
  BY <1>1, <1>5 DEF KeyInv, TokenOK
<1>7. PICK call \in {"jwt", "jws", "detached"} :
        failed' = IF Verify(pub, call, token) THEN Nil
                  ELSE [call |-> "Verify", arg |-> [by |-> pub, how |-> call]]
  BY DEF PeerVerifies
<1>8. Verify(pub, call, token) \/ (call = "jws" /\ a = "Ed25519")
  BY <1>3, <1>4, <1>5, <1>6, Verifies
<1>9. pub.jwk.alg = a
  BY <1>4 DEF JWSOf, WithKey, JWKOf, JWK
<1>10. FailedOK'
  BY <1>7, <1>8, <1>9 DEF FailedOK, ConversionsFailForAReason, SameKeyVerifies
<1> QED
  BY <1>1, <1>10, CallFails

(* Generation.                                                             *)
LEMMA Generated ==
  ASSUME KeyInv, NEW kt \in KeyTypes, keyType' = kt, failed' = Nil, token' = Nil,
         NEW c \in Curves, c = Curve(kt), PrivForm(priv', c), PubForm(pub', c, K)
  PROVE  KeyInv'
<1>1. Curve(keyType)' = c /\ Mine(c, K)' /\ K \in Material
  BY DEF Mine, Curve, Material
<1>2. PrivOK' /\ PubOK' /\ TokenOK'
  BY <1>1 DEF PrivOK, PubOK, TokenOK
<1>3. KeyTypeOK' /\ FailedOK'
  BY DEF KeyTypeOK, FailedOK, ConversionsFailForAReason, SameKeyVerifies
<1> QED
  BY <1>2, <1>3 DEF KeyInv

(* What generation may be given, and that it fails for a reason.           *)
LEMMA BeginStep ==
  ASSUME KeyInv, keyType = Nil, NEW kt \in Requested,
         NEW c, kt \in KeyTypes => c \in Curves /\ c = Curve(kt),
         NEW private, NEW public, Begin(kt, private, public),
         \/ (private = Nil \/ public = Nil) /\ kt \notin Supported \ {"P-521"}
         \/ private # Nil /\ public # Nil /\ kt \in KeyTypes /\ PrivForm(private, c) /\ PubForm(public, c, K)
  PROVE  KeyInv'
<1>1. token = Nil
  BY KeyAssumption DEF KeyInv, KeyTypeOK, Words
<1>2. CASE private = Nil \/ public = Nil
  <2>1. failed' = [call |-> "Generate", arg |-> kt] /\ UNCHANGED <<keyType, priv, pub, token>>
    BY <1>2 DEF Begin
  <2>2. kt \notin Supported \ {"P-521"}
    BY <1>2
  <2>3. FailedOK'
    BY <2>1, <2>2 DEF FailedOK, ConversionsFailForAReason, SameKeyVerifies, Explained
  <2> QED
    BY <2>1, <2>3, CallFails
<1>3. CASE private # Nil /\ public # Nil
  <2>1. keyType' = kt /\ priv' = private /\ pub' = public /\ failed' = Nil /\ token' = Nil
    BY <1>1, <1>3 DEF Begin
  <2>2. kt \in KeyTypes /\ c \in Curves /\ c = Curve(kt) /\ PrivForm(priv', c) /\ PubForm(pub', c, K)
    BY <1>3, <2>1
  <2> QED
    BY <2>1, <2>2, Generated
<1> QED
  BY <1>2, <1>3

LEMMA GenerateSteps ==
  ASSUME KeyInv, keyType = Nil, NEW kt \in Requested,
         GenerateKey(kt) \/ GenerateForDIDKey(kt) \/ GenerateForDIDJWK(kt) \/ GenerateJSONWebKey2020(kt)
  PROVE  KeyInv'
<1>0. K \in Material /\ Supported \subseteq KeyTypes
  BY DEF Material, Supported, KeyTypes, NIST, Edwards, Koblitz
<1>1. PICK c : c = Curve(kt)
  OBVIOUS
<1>2. kt \in KeyTypes => c \in Curves /\ kt \in GoTypes(c)
  BY <1>1 DEF Curve, Curves, GoTypes, KeyTypes, NIST, Edwards, Koblitz, Dilithium
<1>3. PICK k : k = GenerateKeyByKeyType(kt, K)
  OBVIOUS
<1>4. /\ kt \in KeyTypes => k = Key(kt, K) /\ k # Nil /\ PrivForm(k, c) /\ PubForm(k, c, K)
      /\ kt \notin KeyTypes => k = Nil
  BY <1>0, <1>2, <1>3, KeyIsValue DEF GenerateKeyByKeyType, PrivForm, PubForm, KeysOf
<1>5. kt \in Supported => c = kt
  BY <1>1 DEF Curve, Supported, Koblitz
<1>6. CASE GenerateKey(kt)
  <2>1. Begin(kt, k, k)
    BY <1>3, <1>6 DEF GenerateKey
  <2> QED
    BY <1>0, <1>1, <1>2, <1>4, <2>1, BeginStep
<1>7. CASE GenerateForDIDKey(kt)
  <2>1. PICK did : did = GenerateDIDKey(kt, K) /\ Begin(kt, k, did)
    BY <1>3, <1>7 DEF GenerateForDIDKey
  <2>2. CASE kt \notin Supported
    <3>1. did = Nil
      BY <2>1, <2>2 DEF GenerateDIDKey
    <3> QED
      BY <1>1, <1>2, <2>1, <2>2, <3>1, BeginStep
  <2>3. CASE kt \in Supported
    <3>1. PICK enc \in PubEncodings(c) : PubKeyToBytes(Key(kt, K), TRUE) = Bytes(enc, c, K)
      BY <1>0, <1>2, <2>3, ToBytes DEF PubBytesOf
    <3>2. enc # "pkix"
      <4>1. PubKeyToBytes(Key(kt, K), TRUE).enc # "pkix"
        BY <1>0, <1>2, <2>3, ToBytes
      <4>2. Bytes(enc, c, K).enc = enc
        BY DEF Bytes
      <4> QED
        BY <3>1, <4>1, <4>2
    <3>3. did = DID("key", KeyTypeToMultiCodec(c), Bytes(enc, c, K), "sdk")
      BY <1>0, <1>3, <1>4, <1>5, <2>1, <2>3, <3>1 DEF GenerateDIDKey, CreateDIDKey
    <3>4. did # Nil
      BY <1>0, <1>2, <1>5, <2>3, <3>3, BytesDIDIsValue
    <3>5. KeyDID(did, c, K)
      BY <1>5, <2>3, <3>2, <3>3 DEF KeyDID
    <3>6. PubForm(did, c, K)
      BY <3>5 DEF PubForm
    <3> QED
      BY <1>0, <1>1, <1>2, <1>4, <2>1, <2>3, <3>4, <3>6, BeginStep
  <2> QED
    BY <2>2, <2>3
<1>8. CASE GenerateForDIDJWK(kt)
  <2>1. PICK did : did = GenerateDIDJWK(kt, K) /\ Begin(kt, k, did)
    BY <1>3, <1>8 DEF GenerateForDIDJWK
  <2>2. CASE kt \notin Supported
    <3>1. did = Nil
      BY <2>1, <2>2 DEF GenerateDIDJWK
    <3> QED
      BY <1>1, <1>2, <2>1, <2>2, <3>1, BeginStep
  <2>3. CASE kt \in Supported
    <3>1. c # "P-224" /\ c \in Curves
      BY <1>0, <1>2, <1>5, <2>3 DEF Supported
    <3>2. Alg(c) \in Algs(c)
      BY <3>1 DEF Algs
    <3>3. PublicKeyToPublicKeyJWK(Key(kt, K)) = JWKOf(c, Alg(c), K)
      BY <1>0, <1>2, <2>3, <3>1, ToJWK, KeyAssumption
    <3>4. did = DID("jwk", "", JWKOf(c, Alg(c), K), "sdk")
      BY <1>0, <1>3, <1>4, <2>1, <2>3, <3>3 DEF GenerateDIDJWK, CreateDIDJWK
    <3>5. JWKDID(did, c, K) /\ did # Nil
      BY <1>0, <3>1, <3>2, <3>4, JWKDIDIsValue
    <3>6. PubForm(did, c, K)
      BY <3>5 DEF PubForm
    <3> QED
      BY <1>0, <1>1, <1>2, <1>4, <2>1, <2>3, <3>5, <3>6, BeginStep
  <2> QED
    BY <2>2, <2>3
<1>9. CASE GenerateJSONWebKey2020(kt)
  <2> DEFINE S == {"RSA", "Ed25519", "X25519", "secp256k1", "P-256", "P-384"}
  <2>1. PICK jwk : /\ jwk = IF kt \in S THEN PrivateKeyToPrivateKeyJWK(k) ELSE Nil
                   /\ Begin(kt, jwk, jwk)
    BY <1>3, <1>9 DEF GenerateJSONWebKey2020
  <2>2. S \subseteq Supported /\ Supported \ {"P-521"} \subseteq S
    BY DEF Supported
  <2> HIDE DEF S
  <2>3. CASE kt \notin S
    <3>1. jwk = Nil /\ kt \notin Supported \ {"P-521"}
      BY <2>1, <2>2, <2>3
    <3> QED
      BY <1>1, <1>2, <2>1, <3>1, BeginStep
  <2>4. CASE kt \in S
    <3>1. c # "P-224" /\ c \in Curves /\ kt \in KeyTypes /\ kt \in GoTypes(c)
      BY <1>0, <1>2, <1>5, <2>2, <2>4 DEF Supported
    <3>2. Alg(c) \in Algs(c)
      BY <3>1 DEF Algs
    <3>3. jwk = JWKOf(c, Alg(c), K)
      BY <1>0, <1>4, <2>1, <2>4, <3>1, ToJWK, KeyAssumption
    <3>4. jwk # Nil
      BY <1>0, <3>1, <3>2, <3>3, JWKIsValue
    <3>5. PrivForm(jwk, c) /\ PubForm(jwk, c, K)
      BY <3>1, <3>2, <3>3 DEF PrivForm, PubForm, JWKsOf
    <3> QED
      BY <1>1, <2>1, <3>1, <3>4, <3>5, BeginStep
  <2> QED
    BY <2>3, <2>4
<1> QED
  BY <1>6, <1>7, <1>8, <1>9

(***************************************************************************)
(* The theorems.                                                           *)
(***************************************************************************)
LEMMA KeyInvInit == Init => KeyInv
BY DEF Init, KeyInv, KeyTypeOK, PrivOK, PubOK, TokenOK, FailedOK, ConversionsFailForAReason, SameKeyVerifies

LEMMA KeyInvStep == KeyInv /\ [Next]_vars => KeyInv'
<1> SUFFICES ASSUME KeyInv, [Next]_vars
             PROVE  KeyInv'
  OBVIOUS
<1>1. CASE UNCHANGED vars
  <2>1. FailedOK'
    BY <1>1 DEF vars, KeyInv, FailedOK, ConversionsFailForAReason, SameKeyVerifies, Explained, PeerFault
  <2> QED
    BY <1>1, <2>1, CallFails DEF vars
<1>2. CASE keyType = Nil /\ \E kt \in Requested :
             GenerateKey(kt) \/ GenerateForDIDKey(kt) \/ GenerateForDIDJWK(kt) \/ GenerateJSONWebKey2020(kt)
  BY <1>2, GenerateSteps
<1>3. CASE OwnerToBytes \/ OwnerFromBytes \/ OwnerToJWK \/ OwnerFromJWK \/ OwnerImports
           \/ OwnerNewSigner \/ OwnerPublishes
  BY <1>3, OwnerToBytesStep, OwnerFromBytesStep, OwnerToJWKStep, OwnerFromJWKStep,
     OwnerImportsStep, OwnerNewSignerStep, OwnerPublishesStep
<1>4. CASE \E call \in {"jwt", "jws", "detached"} : OwnerSigns(call)
  BY <1>4, OwnerSignsStep
<1>5. CASE PeerToBytes \/ PeerFromBytes \/ PeerToJWK \/ PeerFromJWK \/ PeerImports \/ PeerNewVerifier
  BY <1>5, PeerToBytesStep, PeerFromBytesStep, PeerToJWKStep, PeerFromJWKStep, PeerImportsStep,
     PeerNewVerifierStep
<1>6. CASE PeerCreatesDID \/ PeerResolves \/ PeerExpands \/ PeerDecodes \/ PeerReceives
           \/ PeerTakesKey \/ PeerVerifies
  BY <1>6, PeerCreatesDIDStep, PeerResolvesStep, PeerExpandsStep, PeerDecodesStep,
     PeerReceivesStep, PeerTakesKeyStep, PeerVerifiesStep
<1> QED
  BY <1>1, <1>2, <1>3, <1>4, <1>5, <1>6 DEF Next

LEMMA KeyInvariant == Spec => []KeyInv
BY KeyInvInit, KeyInvStep, PTL DEF Spec

(* Whatever was called in whatever order, a key that owner or peer gets    *)
(* back (crypto/keys.go, crypto/jwx/jwk.go, did/util.go) is the one that   *)
(* was generated, with the Go type of its curve, or the key agreement key  *)
(* derived from it.  Bytes are those of the same key, and take the place   *)
(* of a key only for a method of type JsonWebKey2020 in a document from    *)
(* elsewhere (PubKeyBytesToTypedKey).                                      *)
THEOREM KeysSurviveConversions == Spec => []KeyKept
<1>1. ASSUME KeyInv, NEW rep, rep = priv \/ rep = pub, rep # Nil, rep.form \in {"key", "jws"}
      PROVE  Own(rep.go, rep.key)
  <2>1. PICK c \in Curves, x \in Material :
          Mine(c, x) /\ \E go \in GoTypes(c) : rep.go = go /\ rep.key = x
    <3>1. CASE rep = priv
      <4>1. PICK c \in Curves : c = Curve(keyType) /\ PrivForm(priv, c) /\ Mine(c, K)
        BY <1>1, <3>1, OwnerHolds
      <4>2. JOSEType(c) \in GoTypes(c) /\ K \in Material
        BY NamesOfCurves DEF Material
      <4>3. CASE priv.form = "key"
        <5>1. PICK go \in GoTypes(c) : priv = Key(go, K)
          BY <4>1, <4>3, PrivForms
        <5>2. priv.go = go /\ priv.key = K
          BY <5>1 DEF Key
        <5> QED
          BY <3>1, <4>1, <4>2, <5>2
      <4>4. CASE priv.form = "jws"
        <5>1. PICK a \in Algs(c) : priv = JWSOf(c, a, K)
          BY <4>1, <4>4, PrivForms
        <5>2. priv.go = JOSEType(c) /\ priv.key = K
          BY <5>1 DEF JWSOf, WithKey, Key
        <5> QED
          BY <3>1, <4>1, <4>2, <5>2
      <4> QED
        BY <1>1, <3>1, <4>3, <4>4
    <3>2. CASE rep = pub
      <4>1. PICK c \in Curves, x \in Material : Mine(c, x) /\ PubForm(pub, c, x)
        BY <1>1, <3>2, PeerHolds
      <4>2. JOSEType(c) \in GoTypes(c)
        BY NamesOfCurves
      <4>3. CASE pub.form = "key"
        <5>1. PICK go \in GoTypes(c) : pub = Key(go, x)
          BY <4>1, <4>3, PubForms
        <5>2. pub.go = go /\ pub.key = x
          BY <5>1 DEF Key
        <5> QED
          BY <3>2, <4>1, <5>2
      <4>4. CASE pub.form = "jws"
        <5>1. PICK a \in Algs(c) : pub = JWSOf(c, a, x)
          BY <4>1, <4>4, PubForms
        <5>2. pub.go = JOSEType(c) /\ pub.key = x
          BY <5>1 DEF JWSOf, WithKey, Key
        <5> QED
          BY <3>2, <4>1, <4>2, <5>2
      <4> QED
        BY <1>1, <3>2, <4>3, <4>4
    <3> QED
      BY <1>1, <3>1, <3>2
  <2>2. keyType \in KeyTypes
    BY <1>1 DEF KeyInv, KeyTypeOK
  <2> QED
    BY <2>1, <2>2 DEF Own, Mine, Curve, GoTypes, Koblitz
<1>2. ASSUME KeyInv, NEW rep, rep = priv \/ rep = pub, rep # Nil, rep.form = "bytes"
      PROVE  Own(rep.of, rep.key)
  <2>1. PICK c \in Curves, x \in Material :
          Mine(c, x) /\ \E go \in GoTypes(c) : rep.of = go /\ rep.key = x
    <3>1. CASE rep = priv
      <4>1. PICK c \in Curves : c = Curve(keyType) /\ PrivForm(priv, c) /\ Mine(c, K)
        BY <1>2, <3>1, OwnerHolds
      <4>2. PICK go \in GoTypes(c) : priv = Bytes(PrivEncoding(c), go, K)
        BY <1>2, <3>1, <4>1, PrivForms
      <4>3. priv.of = go /\ priv.key = K /\ K \in Material
        BY <4>2 DEF Bytes, Material
      <4> QED
        BY <3>1, <4>1, <4>3
    <3>2. CASE rep = pub
      <4>1. PICK c \in Curves, x \in Material : Mine(c, x) /\ PubForm(pub, c, x)
        BY <1>2, <3>2, PeerHolds
      <4>2. PICK enc \in PubEncodings(c) : pub = Bytes(enc, c, x)
        BY <1>2, <3>2, <4>1, PubForms
      <4>3. pub.of = c /\ pub.key = x /\ c \in GoTypes(c)
        BY <4>2, OwnName DEF Bytes
      <4> QED
        BY <3>2, <4>1, <4>3
    <3> QED
      BY <1>2, <3>1, <3>2
  <2>2. keyType \in KeyTypes
    <3>1. priv # Nil \/ pub # Nil
      BY <1>2
    <3> QED
      BY <1>2, <3>1 DEF KeyInv, KeyTypeOK
  <2> QED
    BY <2>1, <2>2 DEF Own, Mine, Curve, GoTypes, Koblitz
<1>3. ASSUME KeyInv, pub # Nil, pub.form = "document", NEW n \in DOMAIN pub.methods,
             Holds(extractKeyFromVerificationMethod(pub.methods[n]), "bytes")
      PROVE  pub.method = "remote" /\ pub.methods[n].type = "JsonWebKey2020"
  <2>1. PICK k : k = extractKeyFromVerificationMethod(pub.methods[n])
    OBVIOUS
  <2>2. k # Nil /\ k.form = "bytes"
    BY <1>3, <2>1 DEF Holds
  <2>3. CASE \E id \in {"key", "derived"}, c \in Curves, x \in Material :
               Mine(c, x) /\ pub.methods[n] \in MethodsOf(id, c, x)
    <3>1. PICK id \in {"key", "derived"}, c \in Curves, x \in Material :
            Mine(c, x) /\ pub.methods[n] \in MethodsOf(id, c, x)
      BY <2>3
    <3>2. PICK vm \in MethodsOf(id, c, x) : vm = pub.methods[n]
      BY <3>1
    <3>3. \E go \in GoTypes(c) : k = Key(go, x)
      BY <2>1, <2>2, <3>2, KeyOfMethod
    <3> QED
      BY <2>2, <3>3 DEF Key
  <2>4. CASE /\ pub.method = "remote"
             /\ \E c \in Curves, x \in Material :
                  Mine(c, x) /\ c \in Supported /\ pub.methods[n] \in RemoteMethods(c, x)
    <3>1. PICK c \in Curves, x \in Material :
            c \in Supported /\ pub.methods[n] \in RemoteMethods(c, x)
      BY <2>4
    <3>2. PICK vm \in RemoteMethods(c, x) : vm = pub.methods[n]
      BY <3>1
    <3>3. vm.type = "JsonWebKey2020" \/ \E go \in GoTypes(c) : k = Key(go, x)
      BY <2>1, <3>1, <3>2, KeyOfRemoteMethod
    <3> QED
      BY <2>2, <2>4, <3>2, <3>3 DEF Key
  <2> QED
    BY <1>3, <2>3, <2>4, MethodsOfDocument
<1>4. KeyInv => KeyKept
  <2> SUFFICES ASSUME KeyInv PROVE KeyKept
    OBVIOUS
  <2>1. ASSUME NEW rep \in {priv, pub}
        PROVE  /\ Holds(rep, "key") \/ Holds(rep, "jws") => Own(rep.go, rep.key)
               /\ Holds(rep, "bytes") => Own(rep.of, rep.key)
    BY <1>1, <1>2 DEF Holds
  <2>2. ASSUME Holds(pub, "document"), NEW n \in DOMAIN pub.methods,
               Holds(extractKeyFromVerificationMethod(pub.methods[n]), "bytes")
        PROVE  pub.method = "remote" /\ pub.methods[n].type = "JsonWebKey2020"
    BY <1>3, <2>2 DEF Holds
  <2> QED
    BY <2>1, <2>2 DEF KeyKept
<1> QED
  BY <1>4, KeyInvariant, PTL

(* A conversion (crypto/keys.go, crypto/jwx/jwk.go, did/util.go) returns   *)
(* an error only in the cases that Explained lists.                        *)
THEOREM FailuresAreExplained == Spec => []ConversionsFailForAReason
<1>1. KeyInv => ConversionsFailForAReason
  BY DEF KeyInv, FailedOK
<1> QED
  BY <1>1, KeyInvariant, PTL

(* Every did:key and did:jwk that the SDK generates resolves, and so does  *)
(* every did:peer (Method0), unless its key is on a NIST curve: none of    *)
(* these does.                                                             *)
THEOREM GeneratedIdentifiersResolve == Spec => []GeneratedResolve
<1>1. KeyInv => GeneratedResolve
  <2> SUFFICES ASSUME KeyInv, pub # Nil, pub.form = "did", pub.by = "sdk"
               PROVE  Resolve(pub) = Nil <=> PeerFault(pub)
    BY DEF GeneratedResolve, Holds
  <2>1. PICK c \in Curves, x \in Material : Mine(c, x) /\ PubForm(pub, c, x)
    BY PeerHolds
  <2>2. PICK doc : doc = Resolve(pub)
    OBVIOUS
  <2> QED
    BY <2>1, <2>2, Resolved
<1> QED
  BY <1>1, KeyInvariant, PTL

(* A signer and a verifier made of the same key along any two chains of    *)
(* conversions work together, but for SignJWS and VerifyJWS under the name *)
(* Ed25519.                                                                *)
THEOREM SignersFitVerifiers == Spec => []SameKeyVerifies
<1>1. KeyInv => SameKeyVerifies
  BY DEF KeyInv, FailedOK
<1> QED
  BY <1>1, KeyInvariant, PTL

(* In a document of did:key no relation refers to a method that is not     *)
(* there, and an X25519 key serves key agreement and nothing else.         *)
THEOREM RelationsFollowKeys == Spec => []RelationsFitKeys
<1>1. KeyInv => RelationsFitKeys
  <2> SUFFICES ASSUME KeyInv, pub # Nil, pub.form = "document"
               PROVE  /\ pub.authentication \cup pub.agreement \subseteq
                           {pub.methods[n].id : n \in DOMAIN pub.methods}
                      /\ pub.method = "key" => \A n \in DOMAIN pub.methods :
                           IsX25519Key(pub.methods[n]) =>
                             pub.methods[n].id \in pub.agreement \ pub.authentication
    BY DEF RelationsFitKeys, Holds
  <2>1. PICK c \in Curves, x \in Material : Mine(c, x) /\ PubForm(pub, c, x)
    BY PeerHolds
  <2>2. CASE OneMethod(pub, c, x)
    <3>1. PICK method \in {"key", "jwk", "peer", "web"}, vm \in MethodsOf("key", c, x),
               auth \in SUBSET {"key"}, agree \in SUBSET {"key"} :
            /\ pub = Document(method, <<vm>>, auth, agree)
            /\ method = "key" /\ c = "X25519" => auth = {} /\ agree = {"key"}
      BY <2>2 DEF OneMethod
    <3>2. /\ pub.method = method /\ pub.methods = <<vm>>
          /\ pub.authentication = auth /\ pub.agreement = agree
      BY <3>1 DEF Document
    <3>3. vm.id = "key" /\ (IsX25519Key(vm) <=> c = "X25519")
      BY MethodIsValue, X25519Methods
    <3>4. DOMAIN pub.methods = {1} /\ pub.methods[1] = vm
      BY <3>2
    <3>5. {pub.methods[n].id : n \in DOMAIN pub.methods} = {"key"}
      BY <3>3, <3>4
    <3>6. pub.authentication \cup pub.agreement \subseteq {"key"}
      BY <3>2
    <3>7. ASSUME pub.method = "key", NEW n \in DOMAIN pub.methods, IsX25519Key(pub.methods[n])
          PROVE  pub.methods[n].id \in pub.agreement \ pub.authentication
      <4>1. pub.methods[n] = vm /\ c = "X25519"
        BY <3>3, <3>4, <3>7
      <4> QED
        BY <3>1, <3>2, <3>3, <3>7, <4>1
    <3> QED
      BY <3>5, <3>6, <3>7
  <2>3. CASE TwoMethods(pub, c, x)
    <3>1. PICK vm \in MethodsOf("key", c, x), extra \in MethodsOf("derived", "X25519", <<"derived", K>>) :
            pub = Document("key", <<vm, extra>>, {"key"}, {"derived"})
      BY <2>3 DEF TwoMethods
    <3>2. /\ pub.methods = <<vm, extra>>
          /\ pub.authentication = {"key"} /\ pub.agreement = {"derived"}
      BY <3>1 DEF Document
    <3>3. "X25519" \in Curves /\ <<"derived", K>> \in Material /\ c = "Ed25519"
      BY <2>3 DEF Curves, KeyTypes, Edwards, Material, TwoMethods
    <3>4. vm.id = "key" /\ ~IsX25519Key(vm)
      BY <3>3, MethodIsValue, X25519Methods
    <3>5. extra.id = "derived"
      BY <3>3, MethodIsValue
    <3>6. DOMAIN pub.methods = {1, 2} /\ pub.methods[1] = vm /\ pub.methods[2] = extra
      BY <3>2
    <3> QED
      BY <3>2, <3>4, <3>5, <3>6
  <2>4. CASE Remote(pub, c, x)
    <3>1. PICK vm \in RemoteMethods(c, x) : pub = Document("remote", <<vm>>, {"key"}, {})
      BY <2>4 DEF Remote
    <3>2. /\ pub.methods = <<vm>> /\ pub.method = "remote"
          /\ pub.authentication = {"key"} /\ pub.agreement = {}
      BY <3>1 DEF Document
    <3>3. vm.id = "key"
      BY DEF RemoteMethods, VerificationMethod
    <3>4. DOMAIN pub.methods = {1} /\ pub.methods[1] = vm
      BY <3>2
    <3> QED
      BY <3>2, <3>3, <3>4
  <2> QED
    BY <2>1, <2>2, <2>3, <2>4, PubForms
<1> QED
  BY <1>1, KeyInvariant, PTL
=============================================================================
