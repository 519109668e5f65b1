--------------------------- MODULE DataIntegrity ---------------------------
(***************************************************************************)
(* JsonWebSignature2020 (cryptosuite/jws2020): embedded proofs on the      *)
(* objects that the builders return.                                       *)
(*                                                                         *)
(* Sign and Verify work on the object itself, in steps, without a lock:    *)
(* Verify takes the proof out of the object, reads the object twice and    *)
(* puts the proof back.  Goroutines that share an object, or a             *)
(* presentation and a credential it points to, interleave between these    *)
(* steps, and setters change the object between them.                      *)
(*                                                                         *)
(* A signature is the pair of the key and the signed value.  A context is  *)
(* the set of names it defines; canonicalization drops all other names.    *)
(***************************************************************************)
EXTENDS CredentialBuilder

CONSTANTS
  Procs,        \* goroutines
  Verifiers,    \* the keys verifiers are made of
  Signers,      \* what signers are made of: [key, purpose]
  Suite,        \* the context of the suite
  Defines,      \* per context, the names it defines
  MaxSigns      \* bound on the calls of Sign

VARIABLES
  call,      \* per goroutine, the call of Sign or Verify it is in
  signs,     \* calls of Sign so far, and what the clock shows
  signed,    \* history: what was signed: [key, tbs, doc]
  attached,  \* history: objects that Sign gave a proof
  pristine   \* history: objects with a first proof that nothing has touched since

suiteVars == <<call, signs, signed, attached, pristine>>
vars      == <<builderVars, suiteVars>>

Idle == [pc |-> "idle", obj |-> Nil, key |-> Nil, options |-> Nil, contexts |-> <<>>,
         proof |-> NoProof, first |-> FALSE, alone |-> FALSE]

Options == {"purpose", "verificationMethod", "created", "challenge"}

Members == Options \cup {"jws"}

(* The context of the suite defines the members of a proof, the context    *)
(* that every object starts with defines "proof" itself.                   *)
ASSUME SuiteAssumption ==
  /\ Members \subseteq Defines[Suite]
  /\ "proof" \in Defines[Base]
  /\ \A list \in Contexts : IsSequence(list)
  /\ Credentials \cap Presentations = {}
  /\ Nil \notin Nat

(***************************************************************************)
(* What is signed.                                                         *)
(***************************************************************************)
(* json.Marshal: a presentation is written with the credentials it points  *)
(* to as they are at this moment.                                          *)
Read(o) == [object[o] EXCEPT !.creds = [i \in DOMAIN @ |-> object[@[i]]]]

GetContextsFromProvable(o) == Read(o).context

Defined(contexts) == UNION {Defines[c] : c \in ToSet(contexts)}

(* A proof is a graph of its own: that there is one is stated where        *)
(* "proof" is defined, and of its members those that are defined too.      *)
CanonicalizeProof(proof, names) ==
  {[m \in Members \cap names |-> IF m = "jws" THEN proof.jws ELSE proof.options[m]] :
     x \in {y \in {"proof"} \cap names : proof # NoProof}}

(* Canonicalize: the statements of a document under the names that are     *)
(* defined; contexts of a presentation reach into its credentials.         *)
CanonicalizeNode(doc, names) ==
  [type  |-> ToSet(doc.type) \cap names,
   field |-> [f \in {g \in DOMAIN doc.field : g \in names /\ doc.field[g] # Nil} |-> doc.field[f]],
   proof |-> CanonicalizeProof(doc.proof, names)]

(* Mutant: the credentials in a presentation are left out.                 *)
CanonicalizeOuter(doc, names) == [node |-> CanonicalizeNode(doc, names), creds |-> <<>>]

Canonicalize(doc, names) ==
  [node  |-> CanonicalizeNode(doc, names),
   creds |-> [i \in DOMAIN doc.creds |->
                CanonicalizeNode(doc.creds[i], names \cup Defined(doc.creds[i].context))]]

EnsureRequiredContexts(contexts) ==
  IF Contains(contexts, Suite) THEN contexts ELSE Append(contexts, Suite)

(* prepareProof: a proof without a time of creation gets the present one.  *)
(* Time is counted in calls of Sign.                                       *)
prepareProof(options) ==
  IF options.created = Nil THEN [options EXCEPT !.created = signs] ELSE options

(* CreateVerifyHash: the digests of the options and of the document.       *)
CreateVerifyHash(doc, options, contexts) ==
  <<LET names == Defined(EnsureRequiredContexts(contexts)) IN
      [m \in Options \cap names |-> prepareProof(options)[m]],
    Canonicalize(doc, Defined(doc.context))>>

(***************************************************************************)
(* Who overlaps with whom.                                                 *)
(***************************************************************************)
Embeds(o, c) == Contains(object[o].creds, c)
Related(o)   == {x \in Objects : x = o \/ Embeds(o, x) \/ Embeds(x, o)}
Holders(o)   == {x \in Objects : x = o \/ Embeds(x, o)}

Active(p)      == call[p].pc # "idle"
Overlaps(p, o) == \E q \in Procs \ {p} : Active(q) /\ call[q].obj \in Related(o)

(* The calls after a new one, or a change, meets those on related objects. *)
Disturbed(o) ==
  [q \in Procs |-> IF Active(q) /\ call[q].obj \in Related(o)
                     THEN [call[q] EXCEPT !.alone = FALSE] ELSE call[q]]

Enter(p, o, c) ==
  /\ ~Active(p) /\ o \in built
  /\ call' = [Disturbed(o) EXCEPT
       ![p] = [c EXCEPT !.obj = o, !.alone = ~Overlaps(p, o)]]

(***************************************************************************)
(* Sign.                                                                   *)
(***************************************************************************)
(* createProof, and the contexts, read in a first marshalling.             *)
SignBegin(p, o, s) ==
  /\ signs < MaxSigns
  /\ Enter(p, o, [Idle EXCEPT
       !.pc = "sign", !.key = s.key, !.contexts = GetContextsFromProvable(o),
       !.options = [purpose |-> s.purpose, verificationMethod |-> s.key, created |-> signs + 1,
                    challenge |-> IF s.purpose = "authentication" THEN signs ELSE Nil]])
  /\ signs' = signs + 1
  /\ UNCHANGED <<builderVars, signed, attached, pristine>>

(* The document, read in a second one, with a proof it may have.           *)
SignDocument(p) ==
  LET c   == call[p]
      doc == Read(c.obj)
      jws == [key |-> c.key, tbs |-> CreateVerifyHash(doc, c.options, c.contexts)]
  IN
  /\ c.pc = "sign"
  /\ call' = [call EXCEPT ![p].pc = "attach", ![p].first = (doc.proof = NoProof),
                          ![p].proof = [options |-> c.options, jws |-> jws]]
  /\ signed' = signed \cup {[key |-> jws.key, tbs |-> jws.tbs, options |-> c.options, doc |-> doc]}
  /\ UNCHANGED <<builderVars, signs, attached, pristine>>

(* Canonicalization or the signer fails.                                   *)
SignFails(p) ==
  /\ call[p].pc = "sign"
  /\ call' = [call EXCEPT ![p] = Idle]
  /\ UNCHANGED <<builderVars, signs, signed, attached, pristine>>

SignAttach(p) ==
  LET c == call[p] IN
  /\ c.pc = "attach"
  /\ object' = [object EXCEPT ![c.obj].proof = c.proof]
  /\ attached' = attached \cup {c.obj}
  /\ pristine' = (pristine \ Holders(c.obj)) \cup (IF c.alone /\ c.first THEN {c.obj} ELSE {})
  /\ call' = [call EXCEPT ![p] = Idle]
  /\ UNCHANGED <<built, edits, signs, signed>>

(***************************************************************************)
(* Verify.                                                                 *)
(***************************************************************************)
(* GetProof: without a proof the pointer is nil and Verify panics.         *)
VerifyBegin(p, o, key) ==
  /\ Enter(p, o, [Idle EXCEPT !.key = key, !.proof = object[o].proof,
                              !.pc = IF object[o].proof = NoProof THEN "panic" ELSE "got"])
  /\ UNCHANGED <<builderVars, signs, signed, attached, pristine>>

(* The proof is taken out and the contexts are read.  One step: a change   *)
(* of the contexts between the two is one before both.                     *)
VerifyClear(p) ==
  LET c == call[p] IN
  /\ c.pc = "got"
  /\ object' = [object EXCEPT ![c.obj].proof = NoProof]
  /\ call' = [call EXCEPT ![p].pc = "verify", ![p].contexts = GetContextsFromProvable(c.obj)]
  /\ UNCHANGED <<built, edits, signs, signed, attached, pristine>>

(* Mutant: the proof stays in the document that is hashed.                 *)
VerdictWithProof(p) ==
  LET c == call[p]
      doc == [Read(c.obj) EXCEPT !.proof = c.proof]
  IN c.proof.jws = [key |-> c.key, tbs |-> CreateVerifyHash(doc, c.proof.options, c.contexts)]

(* JSONWebKeyVerifier.Verify on the hash of the document and the options.  *)
Verdict(p) ==
  LET c == call[p]
  IN c.proof.jws = [key |-> c.key,
                    tbs |-> CreateVerifyHash(Read(c.obj), c.proof.options, c.contexts)]

VerifyDocument(p) ==
  /\ call[p].pc = "verify"
  /\ call' = [call EXCEPT ![p].pc = IF Verdict(p) THEN "accepted" ELSE "refused"]
  /\ UNCHANGED <<builderVars, signs, signed, attached, pristine>>

(* Mutant: the proof is only put back when the signature was checked.      *)
VerifyFailsEarly(p) ==
  /\ call[p].pc = "verify"
  /\ call' = [call EXCEPT ![p] = Idle]
  /\ UNCHANGED <<builderVars, signs, signed, attached, pristine>>

(* Reading or canonicalizing fails; the deferred call puts the proof back. *)
VerifyFails(p) ==
  /\ call[p].pc = "verify"
  /\ call' = [call EXCEPT ![p].pc = "failed"]
  /\ UNCHANGED <<builderVars, signs, signed, attached, pristine>>

VerifyRestore(p) ==
  LET c == call[p] IN
  /\ c.pc \in {"accepted", "refused", "failed"}
  /\ object' = [object EXCEPT ![c.obj].proof = c.proof]
  /\ call' = [call EXCEPT ![p] = Idle]
  /\ UNCHANGED <<built, edits, signs, signed, attached, pristine>>

(* The caller recovers from the panic.                                     *)
Recovered(p) ==
  /\ call[p].pc = "panic"
  /\ call' = [call EXCEPT ![p] = Idle]
  /\ UNCHANGED <<builderVars, signs, signed, attached, pristine>>

(***************************************************************************)
(* The application around them.                                            *)
(***************************************************************************)
(* Fields of more than one word are only set while nobody reads the        *)
(* object: the outcome of the race is not a value of the program.          *)
OneWord == {"credentialSubject", "credentialSchema", "refreshService"}

Quiet(o) == \A p \in Procs : ~(Active(p) /\ call[p].obj \in Related(o))

Touch(o) ==
  /\ call' = Disturbed(o)
  /\ pristine' = pristine \ Holders(o)
  /\ UNCHANGED <<signs, signed, attached>>

UseSetter(o) ==
  /\ Change(o) /\ object' # object
  /\ Quiet(o) \/ \A f \in DOMAIN FieldsOf(o) \ OneWord : object'[o].field[f] = object[o].field[f]
  /\ Touch(o)

UseBuild(o) == Build(o) /\ UNCHANGED suiteVars

(* The object is sent as JSON and comes back with another proof member.    *)
AlterProof(o) ==
  /\ Edit /\ Quiet(o)
  /\ object[o].proof # NoProof
  /\ \E options \in {[object[o].proof.options EXCEPT !.created = Nil]} \cup
       {[object[o].proof.options EXCEPT !.purpose = s.purpose, !.verificationMethod = s.key] : s \in Signers} :
       object' = [object EXCEPT ![o].proof.options = options]
  /\ object' # object
  /\ Touch(o)

(***************************************************************************)
(* The specification.                                                      *)
(***************************************************************************)
Init ==
  /\ BuilderInit
  /\ call = [p \in Procs |-> Idle]
  /\ signs = 0
  /\ signed = {}
  /\ attached = {}
  /\ pristine = {}

Step(p) ==
  \/ \E o \in Objects, s \in Signers : SignBegin(p, o, s)
  \/ SignDocument(p) \/ SignFails(p) \/ SignAttach(p)
  \/ \E o \in Objects, key \in Verifiers : VerifyBegin(p, o, key)
  \/ VerifyClear(p)
  \/ VerifyDocument(p) \/ VerifyFails(p) \/ VerifyRestore(p) \/ Recovered(p)

Next ==
  \/ \E p \in Procs : Step(p)
  \/ \E o \in Objects : UseSetter(o) \/ UseBuild(o) \/ AlterProof(o)

Spec == Init /\ [][Next]_vars

(***************************************************************************)
(* Properties.                                                             *)
(***************************************************************************)
(* The steps between SetProof(nil) and the deferred SetProof of Verify.    *)
InWindow(p) == call[p].pc \in {"verify", "accepted", "refused", "failed"}

(* However calls of Sign and Verify and setters interleave, and whichever  *)
(* of them fail, an object that was signed has a proof, except while a     *)
(* call of Verify that took it out is still under way to put it back.      *)
SignedStaysSigned ==
  \A o \in attached :
    object[o].proof = NoProof => \E p \in Procs : call[p].obj = o /\ InWindow(p)

(* What a document says under its own contexts.                            *)
Says(doc, names, f) == IF f \in names THEN doc.field[f] ELSE Nil
SaysSame(a, b, namesA, namesB) ==
  /\ DOMAIN a.field = DOMAIN b.field
  /\ \A f \in DOMAIN a.field : Says(a, namesA, f) = Says(b, namesB, f)
  /\ ToSet(a.type) \cap namesA = ToSet(b.type) \cap namesB

SameProof(a, b) ==
  a # NoProof => /\ a.jws = b.jws
                 /\ \A m \in Options : a.options[m] = b.options[m]

(* When Verify accepts an object that nobody else works on, the verifier's *)
(* key signed a document with the same claims, as far as its contexts      *)
(* define them, the same credentials inside, and a proof of the same       *)
(* purpose and verification method.  The credentials inside had a proof    *)
(* if they have one now: the same one where the context of the suite       *)
(* covers them, and any other where it does not, since Sign adds that      *)
(* context to the options of the new proof alone.                          *)
AcceptedWasSigned ==
  \A p \in Procs :
    call[p].pc = "accepted" /\ call[p].alone =>
      LET now == Read(call[p].obj) IN
      \E s \in signed :
        /\ s.key = call[p].key
        /\ \A m \in Options \ {"created"} : s.options[m] = call[p].proof.options[m]
        /\ call[p].proof.options.created \in {Nil, s.options.created}
        /\ SaysSame(s.doc, now, Defined(s.doc.context), Defined(now.context))
        /\ Len(s.doc.creds) = Len(now.creds)
        /\ \A i \in DOMAIN now.creds :
             /\ SaysSame(s.doc.creds[i], now.creds[i],
                         Defined(s.doc.context) \cup Defined(s.doc.creds[i].context),
                         Defined(now.context) \cup Defined(now.creds[i].context))
             /\ s.doc.creds[i].proof = NoProof <=> now.creds[i].proof = NoProof
             /\ Suite \in ToSet(now.context) \cup ToSet(now.creds[i].context) =>
                  SameProof(s.doc.creds[i].proof, now.creds[i].proof)

(* A call of Verify that overlaps with nothing panics only on an object    *)
(* that was never signed, and refuses an object whose first proof and      *)
(* content nobody has touched only when it is given another key.           *)
RefusalHasACause ==
  \A p \in Procs :
    call[p].alone =>
      /\ call[p].pc = "panic" => call[p].obj \notin attached
      /\ call[p].pc = "refused" /\ call[p].obj \in pristine => call[p].key # call[p].proof.jws.key
=============================================================================
