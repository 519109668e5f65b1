----------------------- MODULE CredentialJWT_proofs -----------------------
(***************************************************************************)
(* What a verified presentation, a refused one and a parsed credential say *)
(* about what was signed, proved for every set of DIDs, documents, signers *)
(* and credentials, however the documents and the clock move on during the *)
(* call.                                                                   *)
(***************************************************************************)
EXTENDS CredentialJWT, WellFoundedInduction, TLAPS

(***************************************************************************)
(* Documents and keys with the versions as a parameter, so that what was   *)
(* looked up in one state can be spoken of in another.                     *)
(***************************************************************************)
DocumentAt(ver, did) == DocVersions[did][ver[did]]
MethodsAt(ver, did, kid) ==
  {k \in DOMAIN DocumentAt(ver, did) : matchesKIDConstruction(did, kid, DocumentAt(ver, did)[k].id)}
HasKeyAt(ver, did, kid) == kid # None /\ did \in DIDs /\ MethodsAt(ver, did, kid) # {}
KeyAt(ver, did, kid) ==
  DocumentAt(ver, did)[CHOOSE k \in MethodsAt(ver, did, kid) :
                         \A j \in MethodsAt(ver, did, kid) : k <= j].key
ListedAt(ver) ==
  UNION {{<<d, DocumentAt(ver, d)[k].key>> : k \in DOMAIN DocumentAt(ver, d)} : d \in DIDs}

LEMMA KeysAtVersion ==
  /\ Listed = ListedAt(version)
  /\ \A did, kid : HasKey(did, kid) = HasKeyAt(version, did, kid)
  /\ \A did, kid : KeyOf(did, kid) = KeyAt(version, did, kid)
<1>1. ASSUME NEW did PROVE Document(did) = DocumentAt(version, did)
  BY DEF Document, DocumentAt
<1>2. ASSUME NEW did, NEW kid PROVE Methods(did, kid) = MethodsAt(version, did, kid)
  BY <1>1 DEF Methods, MethodsAt
<1>3. ASSUME NEW did, NEW kid PROVE HasKey(did, kid) = HasKeyAt(version, did, kid)
  BY <1>2 DEF HasKey, HasKeyAt
<1>4. ASSUME NEW did, NEW kid PROVE KeyOf(did, kid) = KeyAt(version, did, kid)
  BY <1>1, <1>2 DEF KeyOf, KeyAt
<1>5. Listed = ListedAt(version)
  BY <1>1 DEF Listed, ListedAt
<1> QED
  BY <1>3, <1>4, <1>5

Versions == {ver \in [DIDs -> Nat] : \A d \in DIDs : ver[d] \in 1..Len(DocVersions[d])}

LEMMA LeastNatural ==
  ASSUME NEW T \in SUBSET Nat, NEW t \in T
  PROVE  \E x \in T : \A y \in T : x <= y
<1>1. PICK x \in T : \A y \in T : <<y, x>> \notin OpToRel(<, Nat)
  BY WFMin, NatLessThanWellFounded
<1>2. \A y \in T : ~(y < x)
  BY <1>1 DEF OpToRel
<1> QED
  BY <1>2

(* A key that is found is one the document lists.                          *)
LEMMA FoundKeyIsListed ==
  ASSUME NEW ver \in Versions, NEW did, NEW kid, HasKeyAt(ver, did, kid)
  PROVE  <<did, KeyAt(ver, did, kid)>> \in ListedAt(ver)
<1>1. did \in DIDs /\ MethodsAt(ver, did, kid) # {}
  BY DEF HasKeyAt
<1>2. ver[did] \in DOMAIN DocVersions[did]
  BY <1>1, JWTAssumption DEF Versions, IsSequence
<1>3. IsSequence(DocumentAt(ver, did))
  BY <1>1, <1>2, JWTAssumption DEF DocumentAt
<1>4. MethodsAt(ver, did, kid) \in SUBSET Nat
  BY <1>3 DEF MethodsAt, IsSequence
<1>5. \E k \in MethodsAt(ver, did, kid) : \A j \in MethodsAt(ver, did, kid) : k <= j
  BY <1>1, <1>4, LeastNatural
<1>6. PICK k \in MethodsAt(ver, did, kid) : KeyAt(ver, did, kid) = DocumentAt(ver, did)[k].key
  BY <1>5 DEF KeyAt
<1>7. k \in DOMAIN DocumentAt(ver, did)
  BY DEF MethodsAt
<1> QED
  BY <1>1, <1>6, <1>7 DEF ListedAt

(***************************************************************************)
(* The inductive invariant.                                                *)
(***************************************************************************)
Dated(t) == t.iat.time \in Nat /\ (t.exp # None => t.exp.time \in Nat)

SignedInv ==
  /\ now \in Nat /\ version \in Versions
  /\ \A t \in vcs : Dated(t)
  /\ vp # None =>
       /\ vp.iat \in Nat /\ (vp.exp # None => vp.exp \in Nat)
       /\ IsSequence(vp.creds)
       /\ \A n \in DOMAIN vp.creds : vp.creds[n] = Embedded \/ Dated(vp.creds[n])

(* A token that passed, given the keys listed since the call began.        *)
Backed(t, listed, begun, time) ==
  /\ t # Embedded
  /\ <<t.iss, t.key>> \in listed
  /\ t.iat.time <= time
  /\ t.exp # None => begun < t.exp.time

CallInv ==
  /\ DOMAIN call = DOMAIN Idle
  /\ call.begun \in Nat /\ call.begun <= now /\ call.at \in Nat \ {0}
  /\ call.phase # "idle" => vp # None /\ ListedAt(version) \subseteq call.listed
  /\ call.phase = "holder" => call.resolved
  /\ call.phase = "outer" /\ call.resolved => <<vp.iss, call.verifier.key>> \in call.listed
  /\ call.phase \in {"outer", "holder"} => call.at = 1
  /\ call.phase \in {"credential", "signature", "accepted"} =>
       /\ call.resolved => <<vp.iss, vp.key>> \in call.listed
       /\ vp.exp # None => call.begun < vp.exp
       /\ \A n \in 1..(call.at - 1) :
            n \in DOMAIN vp.creds => Backed(vp.creds[n], call.listed, call.begun, now)
  /\ call.phase = "signature" =>
       /\ call.at \in DOMAIN vp.creds /\ vp.creds[call.at] # Embedded
       /\ <<vp.creds[call.at].iss, call.key>> \in call.listed
  /\ call.phase = "accepted" => call.at > Len(vp.creds)

VerifyInv == SignedInv /\ CallInv

LEMMA SequenceShape ==
  ASSUME NEW s, IsSequence(s)
  PROVE  Len(s) \in Nat /\ DOMAIN s = 1..Len(s)
BY DEF IsSequence

LEMMA VerifyInitially == Init => VerifyInv
<1> SUFFICES ASSUME Init PROVE VerifyInv
  OBVIOUS
<1>1. version \in Versions
  <2>1. \A d \in DIDs : Len(DocVersions[d]) \in Nat /\ Len(DocVersions[d]) > 0
    BY JWTAssumption, SequenceShape
  <2> QED BY <2>1 DEF Init, Versions
<1>2. SignedInv
  BY <1>1 DEF Init, SignedInv
<1>3. CallInv
  BY DEF Init, CallInv, Idle
<1> QED
  BY <1>2, <1>3 DEF VerifyInv

(* Signing, and the world, leave what is signed dated.                     *)
LEMMA SignedStep == SignedInv /\ [Next]_vars => SignedInv'
<1> SUFFICES ASSUME SignedInv, [Next]_vars PROVE SignedInv'
  OBVIOUS
<1>1. ASSUME NEW s \in Signers, NEW c \in Creds, SignCredential(s, c) PROVE SignedInv'
  <2>1. UNCHANGED <<vp, version, now>> /\ vcs' \subseteq vcs \cup {Token(s, c)}
    BY <1>1 DEF SignCredential, world
  <2>2. Dated(Token(s, c))
    BY JWTAssumption DEF Dated, Token
  <2> QED BY <2>1, <2>2 DEF SignedInv
<1>2. ASSUME NEW s \in Signers, NEW fit \in BOOLEAN, NEW holder \in DIDs \cup {None},
             NEW p \in Parameters, NEW creds \in Wraps, SignPresentation(s, fit, holder, p, creds)
      PROVE  SignedInv'
  <2>1. UNCHANGED <<vcs, version, now>>
    BY <1>2 DEF SignPresentation, world
  <2>2. CASE vp' = vp
    BY <2>1, <2>2 DEF SignedInv
  <2>3. CASE vp' = [kid |-> s.kid, key |-> s.key, iss |-> holder, aud |-> p.aud,
                    iat |-> now, exp |-> IF p.exp > 0 THEN p.exp ELSE None, creds |-> creds]
    <3>1. vp'.iat = now /\ vp'.exp \in Nat \cup {None} /\ vp'.creds = creds
      BY <2>3, JWTAssumption
    <3>2. PICK n \in Nat : creds \in [1..n -> vcs \cup {Embedded}]
      BY JWTAssumption DEF Wraps
    <3>3. IsSequence(creds) /\ \A k \in DOMAIN creds : creds[k] \in vcs \cup {Embedded}
      <4>1. creds \in [1..n -> Range(creds)]
        BY <3>2 DEF Range
      <4> QED BY <3>2, <4>1 DEF IsSequence
    <3> QED BY <2>1, <3>1, <3>3 DEF SignedInv
  <2> QED BY <1>2, <2>2, <2>3 DEF SignPresentation
<1>3. CASE VerifyJWTPresentation \/ \E s \in Signers : VerifyVerifiablePresentationJWT(s)
  BY <1>3 DEF VerifyJWTPresentation, VerifyVerifiablePresentationJWT, Begin, world, SignedInv
<1>4. CASE ResolveHolder \/ HolderUnknown \/ VerifyOuter \/ ResolveIssuer
  BY <1>4 DEF ResolveHolder, HolderUnknown, VerifyOuter, ResolveIssuer, Goto, world, SignedInv
<1>5. CASE CredentialUnknown \/ VerifyCredential \/ Accept \/ ResolutionFails
  BY <1>5 DEF CredentialUnknown, VerifyCredential, Accept, ResolutionFails, Goto, world, SignedInv
<1>6. ASSUME NEW did \in DIDs, ChangeDocument(did) PROVE SignedInv'
  <2>1. \A d \in DIDs : Len(DocVersions[d]) \in Nat
    BY JWTAssumption, SequenceShape
  <2>2. version' \in Versions
    BY <1>6, <2>1 DEF ChangeDocument, SignedInv, Versions
  <2> QED BY <1>6, <2>2 DEF ChangeDocument, SignedInv
<1>7. CASE Tick
  BY <1>7 DEF Tick, SignedInv
<1>8. CASE UNCHANGED vars
  BY <1>8 DEF vars, SignedInv
<1> QED
  BY <1>1, <1>2, <1>3, <1>4, <1>5, <1>6, <1>7, <1>8 DEF Next

CallFields == {"phase", "verifier", "at", "key", "resolved", "begun", "listed", "calm"}

LEMMA FieldsOfCall == CallInv => DOMAIN call = CallFields
BY DEF CallInv, Idle, CallFields

LEMMA BeginStep ==
  ASSUME VerifyInv, NEW phase \in {"outer", "holder"}, NEW verifier, NEW resolved \in BOOLEAN,
         phase = "holder" => resolved, phase = "outer" => ~resolved,
         Begin(phase, verifier, resolved)
  PROVE  CallInv'
<1>1. /\ DOMAIN call' = DOMAIN Idle
      /\ call'.phase = phase /\ call'.resolved = resolved
      /\ call'.begun = now /\ call'.listed = Listed /\ call'.at = 1
  BY DEF Begin, Idle
<1>2. vp # None /\ UNCHANGED <<vp, version, now>> /\ now \in Nat
  BY DEF Begin, world, VerifyInv, SignedInv
<1> QED
  BY <1>1, <1>2, KeysAtVersion DEF CallInv

(* A call that only goes to another phase p.                               *)
LEMMA GotoStep ==
  ASSUME VerifyInv, NEW p, Goto(p)
  PROVE  /\ DOMAIN call' = DOMAIN Idle
         /\ call'.phase = p /\ call'.verifier = call.verifier /\ call'.at = call.at
         /\ call'.key = call.key /\ call'.resolved = call.resolved
         /\ call'.begun = call.begun /\ call'.listed = call.listed /\ call'.calm = call.calm
         /\ UNCHANGED <<vp, version, now>>
<1>1. DOMAIN call = CallFields /\ DOMAIN call = DOMAIN Idle
  BY FieldsOfCall DEF VerifyInv, CallInv
<1> QED
  BY <1>1 DEF Goto, world, CallFields

LEMMA CallStep == VerifyInv /\ [Next]_vars => CallInv'
<1> SUFFICES ASSUME VerifyInv, [Next]_vars PROVE CallInv'
  OBVIOUS
<1> USE DEF VerifyInv
<1>0. DOMAIN call = CallFields /\ DOMAIN call = DOMAIN Idle
  BY FieldsOfCall DEF CallInv
<1>1. ASSUME NEW s \in Signers, NEW c \in Creds, SignCredential(s, c) PROVE CallInv'
  BY <1>1 DEF SignCredential, world, CallInv
<1>2. ASSUME NEW s \in Signers, NEW fit \in BOOLEAN, NEW holder \in DIDs \cup {None},
             NEW p \in Parameters, NEW creds \in Wraps, SignPresentation(s, fit, holder, p, creds)
      PROVE  CallInv'
  <2>1. call.phase = "idle" /\ UNCHANGED <<call, version, now>>
    BY <1>2 DEF SignPresentation, world, CallInv
  <2> QED BY <2>1 DEF CallInv
<1>3. ASSUME NEW s \in Signers, VerifyVerifiablePresentationJWT(s) PROVE CallInv'
  BY <1>3, BeginStep DEF VerifyVerifiablePresentationJWT
<1>4. CASE VerifyJWTPresentation
  BY <1>4, BeginStep DEF VerifyJWTPresentation
<1>5. CASE ResolveHolder
  <2>1. PICK k : k = KeyAt(version, vp.iss, vp.kid)
    OBVIOUS
  <2>2. /\ call.phase = "holder" /\ HasKeyAt(version, vp.iss, vp.kid)
        /\ call' = [call EXCEPT !.phase = "outer",
                      !.verifier = [id |-> vp.iss, kid |-> vp.kid, key |-> k]]
        /\ UNCHANGED <<vp, version, now>>
    BY <1>5, <2>1, KeysAtVersion DEF ResolveHolder, world
  <2>3. /\ DOMAIN call' = DOMAIN Idle
        /\ call'.phase = "outer" /\ call'.verifier.key = k /\ call'.at = call.at
        /\ call'.resolved = call.resolved /\ call'.begun = call.begun
        /\ call'.listed = call.listed
    BY <1>0, <2>2 DEF CallFields
  <2>4. <<vp.iss, k>> \in call.listed
    BY <2>1, <2>2, FoundKeyIsListed DEF CallInv, SignedInv
  <2> QED BY <2>2, <2>3, <2>4 DEF CallInv
<1>6. CASE HolderUnknown
  BY <1>6, GotoStep DEF HolderUnknown, CallInv
<1>7. CASE VerifyOuter
  <2>1. CASE OuterVerified
    <3>1. call.phase = "outer" /\ Goto("credential")
      BY <1>7, <2>1 DEF VerifyOuter
    <3>2. vp.key = call.verifier.key /\ (vp.exp # None => now < vp.exp)
      BY <2>1 DEF OuterVerified, Verify, Timely
    <3>3. /\ call.resolved => <<vp.iss, vp.key>> \in call.listed
          /\ vp.exp # None => call.begun < vp.exp
      BY <3>1, <3>2 DEF CallInv, SignedInv
    <3>4. 1..(call.at - 1) = {}
      BY <3>1 DEF CallInv
    <3> QED BY <3>1, <3>3, <3>4, GotoStep DEF CallInv
  <2>2. CASE ~OuterVerified
    <3>1. call.phase = "outer" /\ Goto("refused")
      BY <1>7, <2>2 DEF VerifyOuter
    <3> QED BY <3>1, GotoStep DEF CallInv
  <2> QED BY <2>1, <2>2
<1>8. CASE ResolveIssuer
  <2>1. PICK t : t = vp.creds[call.at]
    OBVIOUS
  <2>2. PICK k : k = KeyAt(version, t.iss, t.kid)
    OBVIOUS
  <2>3. /\ call.phase = "credential" /\ call.at <= Len(vp.creds) /\ t # Embedded
        /\ HasKeyAt(version, t.iss, t.kid)
        /\ call' = [call EXCEPT !.phase = "signature", !.key = k]
        /\ UNCHANGED <<vp, version, now>>
    BY <1>8, <2>1, <2>2, KeysAtVersion DEF ResolveIssuer, More, Credential, world
  <2>4. /\ DOMAIN call' = DOMAIN Idle
        /\ call'.phase = "signature" /\ call'.key = k /\ call'.at = call.at
        /\ call'.resolved = call.resolved /\ call'.begun = call.begun
        /\ call'.listed = call.listed
    BY <1>0, <2>3 DEF CallFields
  <2>5. <<t.iss, k>> \in call.listed
    BY <2>2, <2>3, FoundKeyIsListed DEF CallInv, SignedInv
  <2>6. call.at \in DOMAIN vp.creds
    <3>1. IsSequence(vp.creds) /\ call.at \in Nat \ {0}
      BY <2>3 DEF CallInv, SignedInv
    <3> QED BY <2>3, <3>1, SequenceShape
  <2> QED BY <2>1, <2>3, <2>4, <2>5, <2>6 DEF CallInv
<1>9. CASE CredentialUnknown
  BY <1>9, GotoStep DEF CredentialUnknown, More, CallInv
<1>10. CASE VerifyCredential
  <2>1. call.phase = "signature" /\ UNCHANGED <<vp, version, now>>
    BY <1>10 DEF VerifyCredential, world
  <2>2. CASE CredVerified(call.key, Credential)
    <3>1. call' = [call EXCEPT !.phase = "credential", !.at = @ + 1, !.key = None]
      BY <1>10, <2>2 DEF VerifyCredential
    <3>2. /\ DOMAIN call' = DOMAIN Idle
          /\ call'.phase = "credential" /\ call'.at = call.at + 1
          /\ call'.resolved = call.resolved /\ call'.begun = call.begun
          /\ call'.listed = call.listed
      BY <1>0, <3>1 DEF CallFields
    <3>3. PICK t : t = vp.creds[call.at]
      OBVIOUS
    <3>4. /\ t.key = call.key /\ t.iat.time <= now
          /\ t.exp # None /\ t.exp.time # None => now < t.exp.time
      BY <2>2, <3>3 DEF CredVerified, Verify, Timely, Credential
    <3>5. /\ t # Embedded /\ <<t.iss, call.key>> \in call.listed /\ Dated(t)
          /\ call.begun \in Nat /\ now \in Nat /\ call.begun <= now
      BY <2>1, <3>3 DEF CallInv, SignedInv
    <3>6. Backed(t, call.listed, call.begun, now)
      BY <3>4, <3>5, JWTAssumption DEF Backed, Dated
    <3>7. 1..(call'.at - 1) = 1..(call.at - 1) \cup {call.at} /\ call'.at \in Nat \ {0}
      BY <3>2 DEF CallInv
    <3> QED BY <2>1, <3>2, <3>3, <3>6, <3>7 DEF CallInv
  <2>3. CASE ~CredVerified(call.key, Credential)
    <3>1. Goto("refused")
      BY <1>10, <2>3 DEF VerifyCredential, Goto
    <3> QED BY <2>1, <3>1, GotoStep DEF CallInv
  <2> QED BY <2>2, <2>3
<1>11. CASE Accept
  BY <1>11, GotoStep DEF Accept, CallInv
<1>12. CASE ResolutionFails
  <2>1. /\ DOMAIN call' = DOMAIN Idle
        /\ call'.phase = "refused" /\ call'.at = call.at
        /\ call'.resolved = call.resolved /\ call'.begun = call.begun
        /\ call'.listed = call.listed /\ UNCHANGED <<vp, version, now>>
        /\ call.phase # "idle"
    BY <1>0, <1>12 DEF ResolutionFails, More, world, CallFields
  <2> QED BY <2>1 DEF CallInv
<1>13. ASSUME NEW did \in DIDs, ChangeDocument(did) PROVE CallInv'
  <2>1. CASE call.phase = "idle"
    BY <1>13, <2>1 DEF ChangeDocument, CallInv
  <2>2. CASE call.phase # "idle"
    <3>1. call' = [call EXCEPT !.listed = @ \cup Listed', !.calm = FALSE] /\ UNCHANGED <<vp, now>>
      BY <1>13, <2>2 DEF ChangeDocument
    <3>2. Listed' = ListedAt(version')
      BY DEF Listed, ListedAt, Document, DocumentAt
    <3>3. /\ DOMAIN call' = DOMAIN Idle
          /\ call'.phase = call.phase /\ call'.verifier = call.verifier
          /\ call'.at = call.at /\ call'.key = call.key /\ call'.resolved = call.resolved
          /\ call'.begun = call.begun /\ call'.listed = call.listed \cup ListedAt(version')
      BY <1>0, <3>1, <3>2 DEF CallFields
    <3>4. \A t : Backed(t, call.listed, call.begun, now)
                   => Backed(t, call'.listed, call.begun, now)
      BY <3>3 DEF Backed
    <3> QED BY <2>2, <3>1, <3>3, <3>4 DEF CallInv
  <2> QED BY <2>1, <2>2
<1>14. CASE Tick
  <2>1. UNCHANGED <<vp, version, call>> /\ now' = now + 1
    BY <1>14 DEF Tick
  <2>2. ASSUME NEW n \in DOMAIN vp.creds, vp # None,
               Backed(vp.creds[n], call.listed, call.begun, now)
        PROVE  Backed(vp.creds[n], call.listed, call.begun, now')
    <3>1. vp.creds[n] # Embedded /\ now \in Nat
      BY <2>2 DEF Backed, SignedInv
    <3>2. vp.creds[n].iat.time \in Nat
      BY <2>2, <3>1 DEF SignedInv, Dated
    <3> QED BY <2>1, <2>2, <3>1, <3>2 DEF Backed
  <2> QED BY <2>1, <2>2 DEF CallInv, SignedInv
<1>15. CASE UNCHANGED vars
  BY <1>15 DEF vars, CallInv
<1> QED
  BY <1>1, <1>2, <1>3, <1>4, <1>5, <1>6, <1>7, <1>8, <1>9, <1>10, <1>11, <1>12, <1>13,
     <1>14, <1>15 DEF Next

(* What a call of VerifyVerifiablePresentationJWT or VerifyJWTPresentation *)
(* has established at each of its steps holds until it returns.            *)
THEOREM VerifyInvariant == Spec => []VerifyInv
<1>1. VerifyInv /\ [Next]_vars => VerifyInv'
  BY SignedStep, CallStep DEF VerifyInv
<1> QED
  BY <1>1, VerifyInitially, PTL DEF Spec

(* AcceptedIsBacked for all documents and their histories: what the SDK    *)
(* accepts was signed with keys that were listed while it was looking.     *)
THEOREM AcceptedPresentationsAreBacked == Spec => []AcceptedIsBacked
<1>1. VerifyInv => AcceptedIsBacked
  <2> SUFFICES ASSUME VerifyInv, call.phase = "accepted" PROVE AcceptedIsBacked
    BY DEF AcceptedIsBacked
  <2>1. IsSequence(vp.creds) /\ call.at \in Nat /\ call.at > Len(vp.creds)
    BY DEF VerifyInv, CallInv, SignedInv
  <2>2. DOMAIN vp.creds \subseteq 1..(call.at - 1)
    BY <2>1, SequenceShape
  <2>3. \A n \in DOMAIN vp.creds : Backed(vp.creds[n], call.listed, call.begun, now)
    BY <2>2 DEF VerifyInv, CallInv
  <2>4. /\ call.resolved => <<vp.iss, vp.key>> \in call.listed
        /\ vp.exp # None => call.begun < vp.exp
    BY DEF VerifyInv, CallInv
  <2> QED BY <2>3, <2>4 DEF AcceptedIsBacked, Backed
<1> QED
  BY <1>1, VerifyInvariant, PTL

(***************************************************************************)
(* Refusals.  A flaw that was found stays one: time only makes more of     *)
(* them, and a document that changes ends the calm.                        *)
(***************************************************************************)
UnbackedAt(ver, t) == ~HasKeyAt(ver, t.iss, t.kid) \/ KeyAt(ver, t.iss, t.kid) # t.key
UntimelyAt(begun, time, iat, exp) == begun < iat \/ (exp # None /\ exp <= time)
FlawedToken(ver, t, begun, time) ==
  \/ t = Embedded
  \/ UnbackedAt(ver, t)
  \/ UntimelyAt(begun, time, t.iat.time, IF t.exp = None THEN None ELSE t.exp.time)
Flawed(ver, v, resolved, verifier, begun, time) ==
  \/ v.iss = None
  \/ IF resolved THEN UnbackedAt(ver, v) ELSE verifier.key # v.key
  \/ UntimelyAt(begun, time, v.iat, v.exp)
  \/ \E n \in DOMAIN v.creds : FlawedToken(ver, v.creds[n], begun, time)
  \/ ~(v.aud = {} \/ {verifier.id, verifier.kid} \cap v.aud # {})

CalmInv ==
  call.calm =>
    /\ call.phase = "outer" /\ call.resolved =>
         call.verifier.key = KeyAt(version, vp.iss, vp.kid)
    /\ call.phase = "signature" =>
         call.key = KeyAt(version, vp.creds[call.at].iss, vp.creds[call.at].kid)
    /\ call.phase = "refused" =>
         Flawed(version, vp, call.resolved, call.verifier, call.begun, now)

LEMMA FlawsStay ==
  ASSUME SignedInv, vp # None, NEW resolved, NEW verifier, NEW begun \in Nat,
         Flawed(version, vp, resolved, verifier, begun, now)
  PROVE  Flawed(version, vp, resolved, verifier, begun, now + 1)
<1>1. now \in Nat
  BY DEF SignedInv
<1>2. ASSUME NEW iat, NEW exp, exp # None => exp \in Nat, UntimelyAt(begun, now, iat, exp)
      PROVE  UntimelyAt(begun, now + 1, iat, exp)
  BY <1>1, <1>2 DEF UntimelyAt
<1>3. vp.exp # None => vp.exp \in Nat
  BY DEF SignedInv
<1>4. ASSUME NEW n \in DOMAIN vp.creds, FlawedToken(version, vp.creds[n], begun, now)
      PROVE  FlawedToken(version, vp.creds[n], begun, now + 1)
  <2>1. PICK t : t = vp.creds[n]
    OBVIOUS
  <2>2. t = Embedded \/ Dated(t)
    BY <2>1 DEF SignedInv
  <2>3. PICK exp : exp = IF t.exp = None THEN None ELSE t.exp.time
    OBVIOUS
  <2>4. CASE t = Embedded \/ UnbackedAt(version, t)
    BY <2>1, <2>4 DEF FlawedToken
  <2>5. CASE t # Embedded /\ UntimelyAt(begun, now, t.iat.time, exp)
    <3>1. exp # None => exp \in Nat
      BY <2>2, <2>3, <2>5 DEF Dated
    <3>2. UntimelyAt(begun, now + 1, t.iat.time, exp)
      BY <1>2, <2>5, <3>1
    <3> QED BY <2>1, <2>3, <3>2 DEF FlawedToken
  <2> QED BY <1>4, <2>1, <2>3, <2>4, <2>5 DEF FlawedToken
<1> QED
  BY <1>2, <1>3, <1>4 DEF Flawed

(* To refuse for a flaw, and to go on.                                     *)
LEMMA RefuseStep ==
  ASSUME VerifyInv, Goto("refused"),
         call.calm => Flawed(version, vp, call.resolved, call.verifier, call.begun, now)
  PROVE  CalmInv'
<1>1. /\ call'.phase = "refused" /\ call'.calm = call.calm /\ call'.resolved = call.resolved
      /\ call'.verifier = call.verifier /\ call'.begun = call.begun
  BY GotoStep
<1>2. vp' = vp /\ version' = version /\ now' = now
  BY GotoStep
<1>3. call'.calm => Flawed(version', vp', call'.resolved, call'.verifier, call'.begun, now')
  BY <1>1, <1>2
<1>4. call'.phase = "refused"
  BY <1>1
<1> QED
  BY <1>3, <1>4 DEF CalmInv

LEMMA ProceedStep ==
  ASSUME VerifyInv, NEW p \in {"credential", "accepted"}, Goto(p)
  PROVE  CalmInv'
<1>1. call'.phase = p
  BY GotoStep
<1> QED
  BY <1>1 DEF CalmInv

LEMMA CalmStep == VerifyInv /\ CalmInv /\ [Next]_vars => CalmInv'
<1> SUFFICES ASSUME VerifyInv, CalmInv, [Next]_vars PROVE CalmInv'
  OBVIOUS
<1> USE DEF VerifyInv
<1>0. DOMAIN call = CallFields
  BY FieldsOfCall
<1>1. ASSUME NEW s \in Signers, NEW c \in Creds, SignCredential(s, c) PROVE CalmInv'
  BY <1>1 DEF SignCredential, world, CalmInv
<1>2. ASSUME NEW s \in Signers, NEW fit \in BOOLEAN, NEW holder \in DIDs \cup {None},
             NEW p \in Parameters, NEW creds \in Wraps, SignPresentation(s, fit, holder, p, creds)
      PROVE  CalmInv'
  <2>1. call.phase = "idle" /\ UNCHANGED call
    BY <1>2 DEF SignPresentation, CallInv
  <2> QED BY <2>1 DEF CalmInv
<1>3. ASSUME NEW s \in Signers, VerifyVerifiablePresentationJWT(s) PROVE CalmInv'
  <2>1. call'.phase = "outer" /\ call'.resolved = FALSE
    BY <1>3 DEF VerifyVerifiablePresentationJWT, Begin, Idle
  <2> QED BY <2>1 DEF CalmInv
<1>4. CASE VerifyJWTPresentation
  <2>1. call'.phase = "holder"
    BY <1>4 DEF VerifyJWTPresentation, Begin, Idle
  <2> QED BY <2>1 DEF CalmInv
<1>5. CASE ResolveHolder
  <2>1. PICK k : k = KeyAt(version, vp.iss, vp.kid)
    OBVIOUS
  <2>2. /\ call' = [call EXCEPT !.phase = "outer",
                      !.verifier = [id |-> vp.iss, kid |-> vp.kid, key |-> k]]
        /\ UNCHANGED <<vp, version, now>>
    BY <1>5, <2>1, KeysAtVersion DEF ResolveHolder, world
  <2>3. call'.phase = "outer" /\ call'.verifier.key = k
    BY <1>0, <2>2 DEF CallFields
  <2> QED BY <2>1, <2>2, <2>3 DEF CalmInv
<1>6. CASE HolderUnknown
  <2>1. /\ call.resolved /\ ~HasKeyAt(version, vp.iss, vp.kid) /\ Goto("refused")
    BY <1>6, KeysAtVersion DEF HolderUnknown, CallInv
  <2>2. Flawed(version, vp, call.resolved, call.verifier, call.begun, now)
    BY <2>1 DEF Flawed, UnbackedAt
  <2> QED BY <2>1, <2>2, RefuseStep
<1>7. CASE VerifyOuter
  <2>1. CASE OuterVerified
    <3>1. Goto("credential")
      BY <1>7, <2>1 DEF VerifyOuter
    <3> QED BY <3>1, ProceedStep
  <2>2. CASE ~OuterVerified
    <3>1. call.phase = "outer" /\ Goto("refused")
      BY <1>7, <2>2 DEF VerifyOuter
    <3>2. CASE vp.key # call.verifier.key
      <4>1. call.calm /\ call.resolved => UnbackedAt(version, vp)
        BY <3>1, <3>2 DEF CalmInv, UnbackedAt
      <4>2. call.calm => Flawed(version, vp, call.resolved, call.verifier, call.begun, now)
        BY <3>2, <4>1 DEF Flawed
      <4> QED BY <3>1, <4>2, RefuseStep
    <3>3. CASE ~Timely(vp.iat, vp.exp)
      <4>1. /\ now \in Nat /\ call.begun \in Nat /\ call.begun <= now
            /\ vp.iat \in Nat /\ (vp.exp # None => vp.exp \in Nat)
        BY <3>1 DEF CallInv, SignedInv
      <4>2. UntimelyAt(call.begun, now, vp.iat, vp.exp)
        BY <3>3, <4>1 DEF Timely, UntimelyAt
      <4>3. Flawed(version, vp, call.resolved, call.verifier, call.begun, now)
        BY <4>2 DEF Flawed
      <4> QED BY <3>1, <4>3, RefuseStep
    <3>4. CASE vp.iss = None \/ ~AudienceMatches
      <4>1. Flawed(version, vp, call.resolved, call.verifier, call.begun, now)
        BY <3>4 DEF Flawed, AudienceMatches
      <4> QED BY <3>1, <4>1, RefuseStep
    <3> QED BY <2>2, <3>2, <3>3, <3>4 DEF OuterVerified, Verify
  <2> QED BY <2>1, <2>2
<1>8. CASE ResolveIssuer
  <2>1. PICK k : k = KeyAt(version, vp.creds[call.at].iss, vp.creds[call.at].kid)
    OBVIOUS
  <2>2. /\ call' = [call EXCEPT !.phase = "signature", !.key = k]
        /\ UNCHANGED <<vp, version, now>>
    BY <1>8, <2>1, KeysAtVersion DEF ResolveIssuer, Credential, world
  <2>3. call'.phase = "signature" /\ call'.key = k /\ call'.at = call.at
    BY <1>0, <2>2 DEF CallFields
  <2> QED BY <2>1, <2>2, <2>3 DEF CalmInv
<1>9. CASE CredentialUnknown
  <2>1. PICK t : t = vp.creds[call.at]
    OBVIOUS
  <2>2. /\ call.phase = "credential" /\ call.at <= Len(vp.creds) /\ Goto("refused")
        /\ t = Embedded \/ ~HasKeyAt(version, t.iss, t.kid)
    BY <1>9, <2>1, KeysAtVersion DEF CredentialUnknown, More, Credential
  <2>3. call.at \in DOMAIN vp.creds
    <3>1. IsSequence(vp.creds) /\ call.at \in Nat \ {0}
      BY <2>2 DEF CallInv, SignedInv
    <3> QED BY <2>2, <3>1, SequenceShape
  <2>4. FlawedToken(version, t, call.begun, now)
    BY <2>2 DEF FlawedToken, UnbackedAt
  <2>5. Flawed(version, vp, call.resolved, call.verifier, call.begun, now)
    BY <2>1, <2>3, <2>4 DEF Flawed
  <2> QED BY <2>2, <2>5, RefuseStep
<1>10. CASE VerifyCredential
  <2>1. PICK t : t = vp.creds[call.at]
    OBVIOUS
  <2>2. CASE CredVerified(call.key, Credential)
    <3>1. call' = [call EXCEPT !.phase = "credential", !.at = @ + 1, !.key = None]
      BY <1>10, <2>2 DEF VerifyCredential
    <3>2. call'.phase = "credential"
      BY <1>0, <3>1 DEF CallFields
    <3> QED BY <3>2 DEF CalmInv
  <2>3. CASE ~CredVerified(call.key, Credential)
    <3>1. call.phase = "signature" /\ Goto("refused")
      BY <1>10, <2>3 DEF VerifyCredential, Goto
    <3>2. PICK exp : exp = IF t.exp = None THEN None ELSE t.exp.time
      OBVIOUS
    <3>3. t.key # call.key \/ ~Timely(t.iat.time, exp)
      BY <2>1, <2>3, <3>2 DEF CredVerified, Verify, Credential
    <3>4. call.at \in DOMAIN vp.creds /\ Dated(t)
      BY <2>1, <3>1 DEF CallInv, SignedInv
    <3>5. call.calm => FlawedToken(version, t, call.begun, now)
      <4>1. CASE t.key # call.key
        <5>1. call.calm => UnbackedAt(version, t)
          BY <2>1, <3>1, <4>1 DEF CalmInv, UnbackedAt
        <5> QED BY <5>1 DEF FlawedToken
      <4>2. CASE ~Timely(t.iat.time, exp)
        <5>1. /\ now \in Nat /\ call.begun \in Nat /\ call.begun <= now
              /\ t.iat.time \in Nat /\ (exp # None => exp \in Nat)
          BY <3>1, <3>2, <3>4 DEF CallInv, SignedInv, Dated
        <5>2. UntimelyAt(call.begun, now, t.iat.time, exp)
          BY <4>2, <5>1 DEF Timely, UntimelyAt
        <5> QED BY <3>2, <5>2 DEF FlawedToken
      <4> QED BY <3>3, <4>1, <4>2
    <3>6. call.calm => Flawed(version, vp, call.resolved, call.verifier, call.begun, now)
      BY <2>1, <3>4, <3>5 DEF Flawed
    <3> QED BY <3>1, <3>6, RefuseStep
  <2> QED BY <2>2, <2>3
<1>11. CASE Accept
  BY <1>11, ProceedStep DEF Accept
<1>12. CASE ResolutionFails
  <2>1. call'.calm = FALSE
    BY <1>0, <1>12 DEF ResolutionFails, CallFields
  <2> QED BY <2>1 DEF CalmInv
<1>13. ASSUME NEW did \in DIDs, ChangeDocument(did) PROVE CalmInv'
  <2>1. CASE call.phase = "idle"
    BY <1>13, <2>1 DEF ChangeDocument, CalmInv
  <2>2. CASE call.phase # "idle"
    <3>1. PICK l : call' = [call EXCEPT !.listed = l, !.calm = FALSE]
      BY <1>13, <2>2 DEF ChangeDocument
    <3>2. call'.calm = FALSE
      BY <1>0, <3>1 DEF CallFields
    <3> QED BY <3>2 DEF CalmInv
  <2> QED BY <2>1, <2>2
<1>14. CASE Tick
  <2>1. UNCHANGED <<vp, version, call>> /\ now' = now + 1
    BY <1>14 DEF Tick
  <2>2. call.begun \in Nat /\ (call.phase = "refused" => vp # None)
    BY DEF CallInv
  <2> QED BY <2>1, <2>2, FlawsStay DEF CalmInv
<1>15. CASE UNCHANGED vars
  BY <1>15 DEF vars, CalmInv
<1> QED
  BY <1>1, <1>2, <1>3, <1>4, <1>5, <1>6, <1>7, <1>8, <1>9, <1>10, <1>11, <1>12, <1>13,
     <1>14, <1>15 DEF Next

(* A caller with a verifier of its own passes its own DID.                 *)
OwnVerifier ==
  call.phase # "idle" /\ ~call.resolved => call.verifier.id = RelyingParty

LEMMA OwnVerifierStep == VerifyInv /\ OwnVerifier /\ [Next]_vars => OwnVerifier'
<1> SUFFICES ASSUME VerifyInv, OwnVerifier, [Next]_vars PROVE OwnVerifier'
  OBVIOUS
<1>0. DOMAIN call = CallFields
  BY FieldsOfCall DEF VerifyInv
<1>1. ASSUME call'.phase = "idle" => call.phase = "idle", call.phase = "idle" => call'.phase = "idle",
             call'.resolved = call.resolved, call'.verifier = call.verifier
      PROVE  OwnVerifier'
  BY <1>1 DEF OwnVerifier
<1>2. CASE UNCHANGED call
  BY <1>2 DEF OwnVerifier
<1>3. ASSUME NEW s \in Signers, VerifyVerifiablePresentationJWT(s) PROVE OwnVerifier'
  <2>1. call'.verifier = [id |-> RelyingParty, kid |-> s.kid, key |-> s.key]
    BY <1>3 DEF VerifyVerifiablePresentationJWT, Begin, Idle
  <2> QED BY <2>1 DEF OwnVerifier
<1>4. CASE VerifyJWTPresentation
  <2>1. call'.resolved = TRUE
    BY <1>4 DEF VerifyJWTPresentation, Begin, Idle
  <2> QED BY <2>1 DEF OwnVerifier
<1>5. CASE ResolveHolder
  <2>1. PICK v : call' = [call EXCEPT !.phase = "outer", !.verifier = v]
    BY <1>5 DEF ResolveHolder
  <2>2. call'.resolved = call.resolved /\ call.resolved
    BY <1>0, <1>5, <2>1 DEF CallFields, ResolveHolder, VerifyInv, CallInv
  <2> QED BY <2>2 DEF OwnVerifier
<1>6. ASSUME NEW p \in {"credential", "accepted", "refused"}, Goto(p), call.phase # "idle"
      PROVE  OwnVerifier'
  <2>1. call'.phase = p /\ call'.resolved = call.resolved /\ call'.verifier = call.verifier
    BY <1>0, <1>6 DEF Goto, CallFields
  <2> QED BY <1>1, <1>6, <2>1
<1>7. CASE HolderUnknown \/ VerifyOuter \/ CredentialUnknown \/ Accept
  BY <1>6, <1>7 DEF HolderUnknown, VerifyOuter, CredentialUnknown, Accept, More
<1>8. CASE ResolveIssuer
  <2>1. PICK k : call' = [call EXCEPT !.phase = "signature", !.key = k]
    BY <1>8 DEF ResolveIssuer
  <2>2. /\ call'.phase = "signature" /\ call'.resolved = call.resolved
        /\ call'.verifier = call.verifier /\ call.phase # "idle"
    BY <1>0, <1>8, <2>1 DEF CallFields, ResolveIssuer, More
  <2> QED BY <1>1, <2>2
<1>9. CASE VerifyCredential
  <2>1. \/ call' = [call EXCEPT !.phase = "credential", !.at = @ + 1, !.key = None]
        \/ call' = [call EXCEPT !.phase = "refused"]
    BY <1>9 DEF VerifyCredential
  <2>2. /\ call'.phase \in {"credential", "refused"} /\ call'.resolved = call.resolved
        /\ call'.verifier = call.verifier /\ call.phase # "idle"
    BY <1>0, <1>9, <2>1 DEF CallFields, VerifyCredential
  <2> QED BY <1>1, <2>2
<1>10. CASE ResolutionFails
  <2>1. /\ call'.phase = "refused" /\ call'.resolved = call.resolved
        /\ call'.verifier = call.verifier /\ call.phase # "idle"
    BY <1>0, <1>10 DEF CallFields, ResolutionFails, More
  <2> QED BY <1>1, <2>1
<1>11. ASSUME NEW did \in DIDs, ChangeDocument(did) PROVE OwnVerifier'
  <2>1. PICK l : call' = call \/ call' = [call EXCEPT !.listed = l, !.calm = FALSE]
    BY <1>11 DEF ChangeDocument
  <2>2. /\ call'.phase = call.phase /\ call'.resolved = call.resolved
        /\ call'.verifier = call.verifier
    BY <1>0, <2>1 DEF CallFields
  <2> QED BY <1>1, <2>2
<1> QED
  BY <1>2, <1>3, <1>4, <1>5, <1>7, <1>8, <1>9, <1>10, <1>11
     DEF Next, vars, SignCredential, SignPresentation, Tick

(* RefusalIsJustified for all documents, tokens and clocks: a call during  *)
(* which every resolution succeeds and no document changes refuses only a  *)
(* presentation that has a flaw of its own or is addressed to others; said *)
(* of every call with a verifier of the caller's, and of the calls that    *)
(* look up the key when the presentation names no audience.                *)
THEOREM RefusalsAreJustified == Spec => []RefusalIsJustified
<1>1. Init => CalmInv /\ OwnVerifier
  BY DEF Init, CalmInv, OwnVerifier, Idle
<1>2. CalmInv /\ OwnVerifier => RefusalIsJustified
  <2> SUFFICES ASSUME CalmInv, OwnVerifier, call.phase = "refused", call.calm,
                      call.resolved => vp.aud = {}
               PROVE  Reason \/ AddressedToOthers
    BY DEF RefusalIsJustified, Undisturbed
  <2>1. Flawed(version, vp, call.resolved, call.verifier, call.begun, now)
    BY DEF CalmInv
  <2>2. ASSUME NEW t PROVE Unbacked(t) <=> UnbackedAt(version, t)
    BY KeysAtVersion DEF Unbacked, UnbackedAt
  <2>3. ASSUME NEW iat, NEW exp PROVE Untimely(iat, exp) <=> UntimelyAt(call.begun, now, iat, exp)
    BY DEF Untimely, UntimelyAt
  <2>4. ASSUME NEW n \in DOMAIN vp.creds, FlawedToken(version, vp.creds[n], call.begun, now)
        PROVE  Reason
    BY <2>2, <2>3, <2>4 DEF FlawedToken, Reason
  <2>5. ASSUME ~(vp.aud = {} \/ {call.verifier.id, call.verifier.kid} \cap vp.aud # {})
        PROVE  AddressedToOthers
    BY <2>5 DEF OwnVerifier, AddressedToOthers
  <2> QED BY <2>1, <2>2, <2>3, <2>4, <2>5 DEF Flawed, Reason
<1> QED
  BY <1>1, <1>2, CalmStep, OwnVerifierStep, VerifyInvariant, PTL DEF Spec

(***************************************************************************)
(* Parsing.                                                                *)
(***************************************************************************)
(* A name stands for one credential.                                       *)
NamesNameCreds == \A c, d \in Creds : c.name = d.name => c = d

(* A token, said of the credential it was made of.                         *)
MadeOf(t, c) ==
  /\ t.vc = Remainder(c)
  /\ t.iss = c.issuer /\ t.iat = c.iat /\ t.exp = c.exp /\ t.jti = c.id
  /\ t.sub = IF t.whole THEN SubjectID[c.subject] ELSE None

ParseInv ==
  /\ DOMAIN subjects = Subjects
  /\ \A x \in Subjects : subjects[x] \in {SubjectID[x], None}
  /\ \A t \in vcs : \E c \in Creds : MadeOf(t, c)

LEMMA ParseStep == ParseInv /\ [Next]_vars => ParseInv'
<1> SUFFICES ASSUME ParseInv, [Next]_vars PROVE ParseInv'
  OBVIOUS
<1>1. ASSUME NEW s \in Signers, NEW c \in Creds, SignCredential(s, c) PROVE ParseInv'
  <2>1. c.subject \in Subjects
    BY JWTAssumption
  <2>2. subjects' = subjects \/ subjects' = [subjects EXCEPT ![c.subject] = None]
    BY <1>1 DEF SignCredential
  <2>3. vcs' \subseteq vcs \cup {Token(s, c)}
    BY <1>1 DEF SignCredential
  <2>4. MadeOf(Token(s, c), c)
    BY <2>1 DEF MadeOf, Token, ParseInv
  <2>5. DOMAIN subjects' = Subjects /\ \A x \in Subjects : subjects'[x] \in {SubjectID[x], None}
    BY <2>1, <2>2 DEF ParseInv
  <2> QED BY <2>3, <2>4, <2>5 DEF ParseInv
<1>2. CASE UNCHANGED <<subjects, vcs>>
  BY <1>2 DEF ParseInv
<1>3. (\A s \in Signers, c \in Creds : ~SignCredential(s, c)) => UNCHANGED <<subjects, vcs>>
  BY DEF Next, vars, SignPresentation, VerifyVerifiablePresentationJWT, VerifyJWTPresentation,
         Begin, Goto, ResolveHolder, HolderUnknown, VerifyOuter, ResolveIssuer,
         CredentialUnknown, VerifyCredential, Accept, ResolutionFails, ChangeDocument, Tick
<1> QED
  BY <1>1, <1>2, <1>3

LEMMA ParsedToken ==
  ASSUME NEW t, NEW c, MadeOf(t, c)
  PROVE  ParseVerifiableCredentialFromToken(t)
           = AsBuilt(c, IF t.whole THEN SubjectID[c.subject] ELSE None)
<1>1. PICK exp : exp = IF t.exp = None THEN None ELSE UTC(t.exp)
  OBVIOUS
<1>2. PICK iat : iat = UTC(t.iat)
  OBVIOUS
<1>3. PICK r : r = t.vc
  OBVIOUS
<1>4. /\ DOMAIN r = {"name", "id", "issuer", "iat", "exp", "subjectID"}
      /\ r.name = c.name
  BY <1>3 DEF MadeOf, Remainder
<1> DEFINE new(x) == CASE x = "subjectID" -> t.sub
                       [] x = "issuer"    -> t.iss
                       [] x = "exp"       -> exp
                       [] x = "iat"       -> iat
                       [] x = "id"        -> t.jti
                       [] OTHER           -> r[x]
<1>5. [r EXCEPT !.id = t.jti, !.iat = iat, !.exp = exp, !.issuer = t.iss, !.subjectID = t.sub]
        = [x \in DOMAIN r |-> new(x)]
  BY <1>4
<1>6. [x \in DOMAIN r |-> new(x)]
        = [name |-> c.name, id |-> t.jti, issuer |-> t.iss, iat |-> iat, exp |-> exp,
           subjectID |-> t.sub]
  BY <1>4
<1>7. ParseVerifiableCredentialFromToken(t)
        = [r EXCEPT !.id = t.jti, !.iat = iat, !.exp = exp, !.issuer = t.iss, !.subjectID = t.sub]
  BY <1>1, <1>2, <1>3 DEF ParseVerifiableCredentialFromToken
<1> QED
  BY <1>1, <1>2, <1>5, <1>6, <1>7 DEF AsBuilt, MadeOf

(* ParseRestoresCredential for every set of credentials that names tell    *)
(* apart: what SignVerifiableCredentialJWT moves into claims is what       *)
(* ParseVerifiableCredentialFromToken moves back, and the subject's id is  *)
(* lost only to an earlier signing.                                        *)
THEOREM ParsingRestoresCredentials ==
  ASSUME NamesNameCreds PROVE Spec => []ParseRestoresCredential
<1>1. Init => ParseInv
  BY JWTAssumption DEF Init, ParseInv
<1>2. ParseInv => ParseRestoresCredential
  <2> SUFFICES ASSUME ParseInv, NEW t \in vcs, NEW c \in Creds, t.vc.name = c.name
               PROVE  ParseVerifiableCredentialFromToken(t)
                        = AsBuilt(c, IF t.whole THEN SubjectID[c.subject] ELSE None)
    BY DEF ParseRestoresCredential
  <2>1. PICK d \in Creds : MadeOf(t, d)
    BY DEF ParseInv
  <2>2. t.vc.name = d.name
    BY <2>1 DEF MadeOf, Remainder
  <2>3. d = c
    BY <2>2 DEF NamesNameCreds
  <2> QED BY <2>1, <2>3, ParsedToken
<1> QED
  BY <1>1, <1>2, ParseStep, PTL DEF Spec
=============================================================================
