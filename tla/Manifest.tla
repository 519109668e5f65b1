------------------------------ MODULE Manifest ------------------------------
(***************************************************************************)
(* Credential manifest (credential/manifest): an issuer checks a           *)
(* credential application against its manifest.                            *)
(*                                                                         *)
(* IsValidCredentialApplicationForManifest is a second verifier of         *)
(* presentation submissions.  Here it gets the submissions that the        *)
(* verifier of PresentationExchange also gets, wrapped into applications,  *)
(* so that the two can be compared.  What BuildPresentationSubmission      *)
(* wrote is no application: its paths begin at verifiableCredential, those *)
(* of an application at verifiableCredentials.                             *)
(***************************************************************************)
EXTENDS PresentationExchange

CONSTANTS
  Manifests,     \* manifests: [id, outputs, format, asks]; with asks, def is
                 \* the presentation definition
  Applications   \* applications: [manifest, applicant, format, attached]; with
                 \* attached, vp is the submission and its credentials

VARIABLES
  issuance,      \* the manifest and the application of the call, Nil before it
  unfulfilled    \* unfulfilledInputDescriptors

allVars == <<vars, issuance, unfulfilled>>

ManifestInit == Init /\ issuance = Nil /\ unfulfilled = {}

(***************************************************************************)
(* The checks before the first descriptor.                                 *)
(***************************************************************************)
(* CredentialManifest.IsValid: the setters of the builder and the schema   *)
(* leave out a manifest that offers nothing.                               *)
ManifestValid(cm) == cm.id # "" /\ cm.outputs > 0

(* CredentialApplication.IsValid, after the builder or off the wire.       *)
ApplicationValid(ca) == ca.manifest # "" /\ ca.applicant # "" /\ ca.format # Nil

(* PresentationDefinition.IsValid, unlike the other verifier, asks every   *)
(* descriptor for a constraint and a format that is not empty.             *)
DefinitionValid ==
  /\ def.descriptors # <<>>
  /\ \A n \in DOMAIN def.descriptors :
       LET d == def.descriptors[n] IN
       /\ d.format # <<>>
       /\ d.constraints # Nil
       /\ d.constraints.fields # <<>> \/ d.constraints.subjectIsIssuer # Nil

(* ldp_vp is not one of them: the list has jwt_vc twice.                   *)
SupportedClaimFormats == {"jwt", "jwt_vc", "jwt_vp", "ldp", "ldp_vc"}

(* A manifest with formats bounds those of the application.                *)
FormatsFit(cm, ca) ==
  cm.format # <<>> => FormatValues(ca.format) \subseteq FormatValues(cm.format)

(* Without a definition the application may not bring a submission.        *)
SubmissionFits(cm, ca) ==
  IF ~cm.asks THEN ~ca.attached
  ELSE /\ ca.attached /\ vp.map # <<>>
       /\ DefinitionValid /\ SubmissionValid
       /\ vp.definition = def.id
       /\ \A k \in DOMAIN vp.map : vp.map[k].format \in SupportedClaimFormats

Admitted(cm, ca) ==
  /\ ca # Nil /\ ManifestValid(cm) /\ ApplicationValid(ca)
  /\ ca.manifest = cm.id
  /\ FormatsFit(cm, ca)
  /\ SubmissionFits(cm, ca)

Apply(cm, ca) ==
  /\ phase = "received" /\ claims = <<>>
  /\ issuance' = [manifest |-> cm, application |-> ca]
  /\ Go(CASE ~Admitted(cm, ca)           -> "application refused"
          [] Admitted(cm, ca) /\ cm.asks -> "apply"
          [] OTHER                       -> "application accepted")
  /\ UNCHANGED unfulfilled

(***************************************************************************)
(* One descriptor after the other.                                         *)
(***************************************************************************)
(* Mutant: only the first path of a field is tried.                        *)
findFirstPath(claim, paths) == paths # <<>> /\ Matches(claim, paths[1])

findMatchingPath(claim, paths) == \E k \in DOMAIN paths : Matches(claim, paths[k])

(* cred.IsValid is asked, which a presentation read as a credential never  *)
(* is; every field needs a path that matches, an optional one too, and no  *)
(* filter is applied.                                                      *)
Fulfilled(d) ==
  /\ ClaimReadable(d)
  /\ Claim(d).valid /\ ~Claim(d).presentation
  /\ d.constraints # Nil =>
       \A k \in DOMAIN d.constraints.fields :
         findMatchingPath(Claim(d), d.constraints.fields[k].path)

CheckDescriptor ==
  /\ phase = "apply" /\ at <= Len(def.descriptors)
  /\ unfulfilled' = IF Fulfilled(Descriptor) THEN unfulfilled
                    ELSE unfulfilled \cup {Descriptor.id}
  /\ at' = at + 1
  /\ UNCHANGED <<def, claims, phase, seen, chosen, vp, results, issuance>>

Decide ==
  /\ phase = "apply" /\ at > Len(def.descriptors)
  /\ Go(IF unfulfilled = {} THEN "application accepted" ELSE "application unfulfilled")
  /\ UNCHANGED <<issuance, unfulfilled>>

ManifestNext ==
  \/ Next /\ UNCHANGED <<issuance, unfulfilled>>
  \/ \E cm \in Manifests, ca \in Applications \cup {Nil} : Apply(cm, ca)
  \/ CheckDescriptor
  \/ Decide

ManifestSpec == ManifestInit /\ [][ManifestNext]_allVars

(***************************************************************************)
(* Properties.                                                             *)
(***************************************************************************)
(* What the other verifier says of the submission, in a presentation that  *)
(* has a type.                                                             *)
VerifierAccepts ==
  /\ def.supported /\ SubmissionValid /\ vp.definition = def.id
  /\ \A n \in DOMAIN def.descriptors : Verified(def.descriptors[n])

Fields(n) == Range(def.descriptors[n].constraints.fields)

(* The two verifiers of a submission (VerifyPresentationSubmissionVP and   *)
(* IsValidCredentialApplicationForManifest) disagree for these reasons     *)
(* only.  The issuer lets pass what the other refuses when the definition  *)
(* uses a feature that is not supported, when the value of a required      *)
(* field is not one its filter accepts, or when the subject has to be the  *)
(* issuer; it reports descriptors the other finds fulfilled when an        *)
(* optional field is missing or the claim is not a valid credential, a     *)
(* presentation for instance: the other takes any JSON object for one.     *)
(* And it reports exactly the descriptors that are not fulfilled, although *)
(* it goes on after the first.                                             *)
VerifiersDifferKnowingly ==
  /\ phase = "application accepted" /\ issuance.manifest.asks /\ ~VerifierAccepts =>
       \/ ~def.supported
       \/ \E n \in DOMAIN def.descriptors :
            LET claim == Claim(def.descriptors[n]) IN
            \/ /\ def.descriptors[n].constraints.subjectIsIssuer = "required"
               /\ ~claim.selfIssued
            \/ \E f \in Fields(n) : /\ ~f.optional /\ f.filter # Nil
                                    /\ getDataFromJSONPath(claim, f.path) \notin f.filter
  /\ phase = "application unfulfilled" =>
       \A n \in DOMAIN def.descriptors :
         LET d == def.descriptors[n] IN
         d.id \in unfulfilled /\ Verified(d) =>
           \/ Claim(d).presentation \/ ~Claim(d).valid
           \/ \E f \in Fields(n) : f.optional /\ \A p \in Range(f.path) : ~Matches(Claim(d), p)
=============================================================================
