---------------------------- MODULE CredentialJWT ----------------------------
(***************************************************************************)
(* Credentials and presentations as JWTs (credential/integrity): an issuer *)
(* signs credentials, a holder wraps tokens into a presentation, and a     *)
(* relying party verifies it while DID documents and the clock move on.    *)
(*                                                                         *)
(* Signing moves members of a credential into registered claims of the     *)
(* token, and parsing moves them back.  The credential is passed by value, *)
(* but its subject is a Go map that all copies share: "delete" of its id   *)
(* is seen by the caller.  The maps are therefore part of the state.       *)
(*                                                                         *)
(* A signature is the key that made it.  A date is a time and the way it   *)
(* is written: "utc" as time.Format writes it, "other" for what else the   *)
(* JWT library reads, "bad" for what it does not.  The nonce of a token is *)
(* left out: nothing reads it.                                             *)
(***************************************************************************)
EXTENDS Integers, SequencesExt

CONSTANTS
  DIDs,           \* identifiers of issuers, holders and relying parties
  Creds,          \* credentials: [name, id, issuer, iat, exp, subject, fit]
  Subjects,       \* the CredentialSubject maps they point at
  SubjectID,      \* per map, the id it is built with
  NotAString,     \* an id or issuer that is no string
  Signers,        \* jwx.Signer values: [id, kid, key, signs]
  DocVersions,    \* per DID, the documents its controller publishes in turn
  RelyingParty,   \* the DID of the relying party
  Embedded,       \* a credential that is not a JWT, embedded as an object
  None,           \* an absent member
  Parameters,     \* JWTVVPParameters a holder may pass: [aud, exp]
  MaxTime,        \* bound: the last time of the clock
  MaxCreds        \* bound: credential tokens, also in one presentation

Forms == {"full", "hash", "bare"}
Kids  == [did : DIDs, fragment : STRING, form : Forms]

IsSequence(s) == s \in Seq(Range(s))

ASSUME JWTAssumption ==
  /\ None \notin DIDs \cup Nat /\ NotAString \notin DIDs /\ RelyingParty \in DIDs
  /\ \A d \in DIDs :
       /\ IsSequence(DocVersions[d]) /\ Len(DocVersions[d]) > 0
       /\ \A v \in DOMAIN DocVersions[d] :
            /\ IsSequence(DocVersions[d][v])
            /\ \A k \in DOMAIN DocVersions[d][v] : DocVersions[d][v][k].id \in Kids
  /\ \A s \in Signers : s.id \in DIDs /\ s.kid \in Kids \cup {None} /\ s.signs \in BOOLEAN
  /\ \A c \in Creds :
       /\ c.subject \in Subjects /\ c.fit \in BOOLEAN
       /\ c.iat.time \in Nat /\ (c.exp # None => c.exp.time \in Nat)
  /\ DOMAIN SubjectID = Subjects
  /\ \A p \in Parameters : p.aud \subseteq DIDs /\ p.exp \in Nat
  /\ MaxTime \in Nat /\ MaxCreds \in Nat

VARIABLES
  subjects,   \* the id each subject map holds now
  vcs,        \* the credential tokens signed so far
  vp,         \* the presentation token, or None
  version,    \* the version of its document each DID resolves to now
  now,        \* the clock
  call        \* the verification in progress

world == <<version, now>>
vars  == <<subjects, vcs, vp, version, now, call>>

(***************************************************************************)
(* Signing and parsing a credential.                                       *)
(***************************************************************************)
UTC(date) == [date EXCEPT !.form = "utc"]

(* Mutant: the expiration date is not put back.                            *)
ParseWithoutExpiration(t) ==
  [t.vc EXCEPT !.id = t.jti, !.iat = UTC(t.iat), !.issuer = t.iss, !.subjectID = t.sub]

(* ParseVerifiableCredentialFromToken: members come back where the token   *)
(* has them, dates as UTC.                                                 *)
ParseVerifiableCredentialFromToken(t) ==
  [t.vc EXCEPT !.id        = t.jti,
               !.iat       = UTC(t.iat),
               !.exp       = IF t.exp = None THEN None ELSE UTC(t.exp),
               !.issuer    = t.iss,
               !.subjectID = t.sub]

(* What is left of the credential once every claim has been moved.         *)
Remainder(c) ==
  [name |-> c.name, id |-> None, issuer |-> None, iat |-> None, exp |-> None,
   subjectID |-> None]

(* The library refuses dates it cannot read and issuers that are objects,  *)
(* in this order and before the subject is touched.                        *)
ClaimRefused(c) ==
  \/ c.exp # None /\ c.exp.form = "bad"
  \/ c.issuer = NotAString
  \/ c.iat.form = "bad"

Token(s, c) ==
  [kid |-> s.kid, key |-> s.key, iss |-> c.issuer, iat |-> c.iat, exp |-> c.exp,
   jti |-> c.id, sub |-> subjects[c.subject], vc |-> Remainder(c),
   whole |-> subjects[c.subject] = SubjectID[c.subject]]

(* SignVerifiableCredentialJWT: a credential that is empty or has a proof  *)
(* is not fit and refused, an id that is no string panics in GetID, and    *)
(* the id has left the shared map before jwt.Sign may still fail.  Tokens  *)
(* are signed before the presentation: later ones would not be part of it. *)
SignCredential(s, c) ==
  /\ vp = None
  /\ \/ /\ ~c.fit \/ ClaimRefused(c)
        /\ UNCHANGED <<subjects, vcs>>
     \/ /\ c.fit /\ ~ClaimRefused(c)
        /\ subjects[c.subject] = NotAString
        /\ UNCHANGED <<subjects, vcs>>
     \/ /\ c.fit /\ ~ClaimRefused(c)
        /\ subjects[c.subject] # NotAString
        /\ Cardinality(vcs) < MaxCreds
        /\ subjects' = [subjects EXCEPT ![c.subject] = None]
        /\ vcs' = IF s.signs THEN vcs \cup {Token(s, c)} ELSE vcs
  /\ UNCHANGED <<vp, world, call>>

(***************************************************************************)
(* Signing a presentation.                                                 *)
(***************************************************************************)
(* The credentials a holder presents: tokens, and objects with proofs, each *)
(* once.                                                                   *)
Wraps == UNION {{w \in [1..n -> vcs \cup {Embedded}] : IsInjective(w)} : n \in 0..MaxCreds}

(* SignVerifiablePresentationJWT: the issuer claim is only set for a       *)
(* presentation with a holder, which has to be the signer.  A behaviour    *)
(* has one presentation.                                                   *)
SignPresentation(s, fit, holder, p, creds) ==
  /\ vp = None
  /\ \/ /\ ~fit \/ holder \notin {None, s.id} \/ ~s.signs
        /\ UNCHANGED vp
     \/ /\ fit /\ holder \in {None, s.id} /\ s.signs
        /\ vp' = [kid |-> s.kid, key |-> s.key, iss |-> holder, aud |-> p.aud,
                  iat |-> now, exp |-> IF p.exp > 0 THEN p.exp ELSE None, creds |-> creds]
  /\ UNCHANGED <<subjects, vcs, world, call>>

(***************************************************************************)
(* Looking up a key.                                                       *)
(***************************************************************************)
(* matchesKIDConstruction: a kid and a method id are compared as they are  *)
(* written, with the DID or '#' added to the kid, and with the DID of a    *)
(* fully qualified kid, whichever it is, taken off.                        *)
matchesKIDConstruction(did, kid, target) ==
  \/ kid = target
  \/ /\ kid.fragment = target.fragment
     /\ \/ target.form = "full" /\ target.did = did /\ kid.form # "full"
        \/ target.form = "hash" /\ kid.form # "hash"
        \/ target.form = "bare" /\ kid.form = "full"
        \/ target.form = kid.form /\ kid.form # "full"

Document(did) == DocVersions[did][version[did]]

(* GetKeyFromVerificationMethod: the first method that matches.            *)
Methods(did, kid) ==
  {k \in DOMAIN Document(did) : matchesKIDConstruction(did, kid, Document(did)[k].id)}

HasKey(did, kid) == kid # None /\ did \in DIDs /\ Methods(did, kid) # {}
KeyOf(did, kid) ==
  Document(did)[CHOOSE k \in Methods(did, kid) : \A j \in Methods(did, kid) : k <= j].key

(***************************************************************************)
(* Verification.                                                           *)
(***************************************************************************)
(* Mutant: a token is not valid in the second it was issued in.            *)
TimelyStrict(iat, exp) == iat < now /\ (exp # None => now < exp)

(* jwt.Parse with a key: the signature, then exp, iat and nbf.             *)
Timely(iat, exp) == iat <= now /\ (exp # None => now < exp)

Verify(key, t, iat, exp) == t.key = key /\ Timely(iat, exp)

(* Mutant: only the signature is checked.                                  *)
CredUntimed(key, t) == t.key = key

CredVerified(key, t) ==
  Verify(key, t, t.iat.time, IF t.exp = None THEN None ELSE t.exp.time)

(* Pairs of a DID and a key that its document lists.                       *)
Listed == UNION {{<<d, Document(d)[k].key>> : k \in DOMAIN Document(d)} : d \in DIDs}

NoVerifier == [id |-> None, kid |-> None, key |-> None]

Idle ==
  [phase |-> "idle", verifier |-> NoVerifier, at |-> 1, key |-> None,
   resolved |-> FALSE, begun |-> 0, listed |-> {}, calm |-> TRUE]

Begin(phase, verifier, resolved) ==
  /\ call.phase \in {"idle", "accepted", "refused"}
  /\ vp # None
  /\ call' = [Idle EXCEPT !.phase = phase, !.verifier = verifier, !.resolved = resolved,
                          !.begun = now, !.listed = Listed]
  /\ UNCHANGED <<subjects, vcs, vp, world>>

Goto(p) ==
  /\ call' = [call EXCEPT !.phase = p]
  /\ UNCHANGED <<subjects, vcs, vp, world>>

(* The caller has a verifier with the key of the signer and its own DID.   *)
VerifyVerifiablePresentationJWT(s) ==
  Begin("outer", [id |-> RelyingParty, kid |-> s.kid, key |-> s.key], FALSE)

(* The caller leaves it to the SDK to find the key.                        *)
VerifyJWTPresentation == Begin("holder", NoVerifier, TRUE)

(* The document of the holder yields the verifier, which gets the id of    *)
(* that document.                                                          *)
ResolveHolder ==
  /\ call.phase = "holder"
  /\ HasKey(vp.iss, vp.kid)
  /\ call' = [call EXCEPT !.phase = "outer",
                !.verifier = [id |-> vp.iss, kid |-> vp.kid, key |-> KeyOf(vp.iss, vp.kid)]]
  /\ UNCHANGED <<subjects, vcs, vp, world>>

HolderUnknown ==
  call.phase = "holder" /\ ~HasKey(vp.iss, vp.kid) /\ Goto("refused")

AudienceMatches == vp.aud = {} \/ {call.verifier.id, call.verifier.kid} \cap vp.aud # {}

(* The signature of the presentation, its parsing, which wants an issuer,  *)
(* and the audience.                                                       *)
OuterVerified ==
  /\ Verify(call.verifier.key, vp, vp.iat, vp.exp)
  /\ vp.iss # None
  /\ AudienceMatches

VerifyOuter ==
  /\ call.phase = "outer"
  /\ Goto(IF OuterVerified THEN "credential" ELSE "refused")

Credential == vp.creds[call.at]
More == call.phase = "credential" /\ call.at <= Len(vp.creds)

(* VerifyJWTCredential parses the token without verifying it, resolves the *)
(* issuer it names and takes the key its header names.                     *)
ResolveIssuer ==
  /\ More /\ Credential # Embedded
  /\ HasKey(Credential.iss, Credential.kid)
  /\ call' = [call EXCEPT !.phase = "signature", !.key = KeyOf(Credential.iss, Credential.kid)]
  /\ UNCHANGED <<subjects, vcs, vp, world>>

(* VerifyDataIntegrityCredential is not implemented and always fails.      *)
CredentialUnknown ==
  /\ More
  /\ Credential # Embedded => ~HasKey(Credential.iss, Credential.kid)
  /\ Goto("refused")

VerifyCredential ==
  /\ call.phase = "signature"
  /\ call' = IF CredVerified(call.key, Credential)
             THEN [call EXCEPT !.phase = "credential", !.at = @ + 1, !.key = None]
             ELSE [call EXCEPT !.phase = "refused"]
  /\ UNCHANGED <<subjects, vcs, vp, world>>

Accept == call.phase = "credential" /\ call.at > Len(vp.creds) /\ Goto("accepted")

(* A resolver fails, whatever the document is.                             *)
ResolutionFails ==
  /\ call.phase = "holder" \/ (More /\ Credential # Embedded)
  /\ call' = [call EXCEPT !.phase = "refused", !.calm = FALSE]
  /\ UNCHANGED <<subjects, vcs, vp, world>>

(***************************************************************************)
(* The world around the calls.                                             *)
(***************************************************************************)
(* The controller of a DID publishes the next version of its document.     *)
ChangeDocument(did) ==
  /\ version[did] < Len(DocVersions[did])
  /\ version' = [version EXCEPT ![did] = @ + 1]
  /\ call' = IF call.phase = "idle" THEN call
             ELSE [call EXCEPT !.listed = @ \cup Listed', !.calm = FALSE]
  /\ UNCHANGED <<subjects, vcs, vp, now>>

Tick ==
  /\ now < MaxTime
  /\ now' = now + 1
  /\ UNCHANGED <<subjects, vcs, vp, version, call>>

Init ==
  /\ subjects = SubjectID
  /\ vcs = {} /\ vp = None
  /\ version = [d \in DIDs |-> 1]
  /\ now = 1
  /\ call = Idle

Next ==
  \/ \E s \in Signers, c \in Creds : SignCredential(s, c)
  \/ \E s \in Signers, fit \in BOOLEAN, holder \in DIDs \cup {None}, p \in Parameters,
        creds \in Wraps : SignPresentation(s, fit, holder, p, creds)
  \/ \E s \in Signers : VerifyVerifiablePresentationJWT(s)
  \/ VerifyJWTPresentation
  \/ ResolveHolder \/ HolderUnknown \/ VerifyOuter
  \/ ResolveIssuer \/ CredentialUnknown \/ VerifyCredential \/ Accept \/ ResolutionFails
  \/ \E did \in DIDs : ChangeDocument(did)
  \/ Tick

Spec == Init /\ [][Next]_vars

(***************************************************************************)
(* Properties.                                                             *)
(***************************************************************************)
(* "a successfully decoded VerifiableCredential object is returned": what  *)
(* parsing makes of a token is the credential that was signed, with its    *)
(* dates in UTC, whichever members it had.  Only the id of the subject is  *)
(* missing, and only when the map had lost it to an earlier signing.       *)
AsBuilt(c, subjectID) ==
  [name |-> c.name, id |-> c.id, issuer |-> c.issuer, iat |-> UTC(c.iat),
   exp |-> IF c.exp = None THEN None ELSE UTC(c.exp), subjectID |-> subjectID]

ParseRestoresCredential ==
  \A t \in vcs : \A c \in Creds : t.vc.name = c.name =>
    ParseVerifiableCredentialFromToken(t)
      = AsBuilt(c, IF t.whole THEN SubjectID[c.subject] ELSE None)

(* A presentation is accepted only if every credential in it is a token    *)
(* signed with a key that its issuer's document listed at some time during *)
(* the call, issued by now and not expired when the call began; and so is  *)
(* the presentation itself when the SDK looked up its key.                 *)
AcceptedIsBacked ==
  call.phase = "accepted" =>
    /\ call.resolved => <<vp.iss, vp.key>> \in call.listed
    /\ vp.exp # None => call.begun < vp.exp
    /\ \A n \in DOMAIN vp.creds :
         /\ vp.creds[n] # Embedded
         /\ <<vp.creds[n].iss, vp.creds[n].key>> \in call.listed
         /\ vp.creds[n].iat.time <= now
         /\ vp.creds[n].exp # None => call.begun < vp.creds[n].exp.time

(* The reasons a verifier may have, when no document changed and every     *)
(* resolution succeeded during the call.                                   *)
Unbacked(t) ==
  \/ ~HasKey(t.iss, t.kid)
  \/ KeyOf(t.iss, t.kid) # t.key

Untimely(iat, exp) == call.begun < iat \/ (exp # None /\ exp <= now)

Reason ==
  \/ vp.iss = None
  \/ IF call.resolved THEN Unbacked(vp) ELSE call.verifier.key # vp.key
  \/ Untimely(vp.iat, vp.exp)
  \/ \E n \in DOMAIN vp.creds :
       LET t == vp.creds[n] IN
       \/ t = Embedded
       \/ Unbacked(t)
       \/ Untimely(t.iat.time, IF t.exp = None THEN None ELSE t.exp.time)

Undisturbed == call.phase = "refused" /\ call.calm

(* "make sure the audience matches the verifier": it names someone, and    *)
(* not the relying party.                                                  *)
AddressedToOthers == vp.aud # {} /\ RelyingParty \notin vp.aud

(* A presentation that is refused has a flaw of its own: it names no       *)
(* holder, is addressed to others, it or one of its credentials is not     *)
(* signed as its issuer's document says or is out of its time, or a        *)
(* credential is not a token.  Nothing is said of presentations with an    *)
(* audience when the SDK looks up the key: AudienceIsTheVerifier is what   *)
(* should hold of them, and does not.                                      *)
RefusalIsJustified ==
  Undisturbed /\ (call.resolved => vp.aud = {}) => Reason \/ AddressedToOthers

(* ... however the relying party verifies it.  VerifyJWTPresentation       *)
(* compares the audience with the DID of the presenter.                    *)
AudienceIsTheVerifier == Undisturbed => Reason \/ AddressedToOthers
=============================================================================
