------------------------ MODULE PresentationExchange ------------------------
(***************************************************************************)
(* Presentation exchange (credential/exchange): a holder builds a          *)
(* presentation submission for a definition from its claims, a verifier    *)
(* checks a submission against the definition.                             *)
(*                                                                         *)
(* Both sides walk through the input descriptors of the definition one by  *)
(* one.  A claim is reduced to its id (Nil for one that is no string), its *)
(* encoding, the format and the algorithm it is offered with, the value at *)
(* each JSON path, whether it has the members of a credential, and whether *)
(* its issuer is its subject.  A schema filter is the set of values it     *)
(* accepts.  Signatures are not part of this module.                       *)
(***************************************************************************)
EXTENDS Integers, SequencesExt

CONSTANTS
  Definitions,   \* definitions: [id, supported, descriptors]
  Wallets,       \* sequences of PresentationClaims a holder offers
  Foreign,       \* presentations that other software built, see vp
  Absent,        \* the value at a path that does not match
  Nil            \* a nil pointer of an input

IsSequence(s) == s \in Seq(Range(s))

(* Slices are slices: the descriptors, their formats, fields and paths, and *)
(* the claims, none of which is a nil pointer.                             *)
ASSUME InputsAssumption ==
  /\ \A d \in Definitions :
       /\ IsSequence(d.descriptors)
       /\ \A i \in Range(d.descriptors) :
            /\ i.format = Nil \/ IsSequence(i.format)
            /\ i.constraints # Nil =>
                 /\ IsSequence(i.constraints.fields)
                 /\ \A f \in Range(i.constraints.fields) : IsSequence(f.path)
  /\ \A w \in Wallets : IsSequence(w) /\ Nil \notin Range(w)
  /\ \A s \in Foreign : Nil \notin Range(s.creds)

VARIABLES
  def,      \* the presentation definition of both sides
  claims,   \* the claims the holder offers
  phase,    \* where the two calls are
  at,       \* the descriptor processed next
  seen,     \* seenClaims: pairs <<claim id, index in the presentation>>
  chosen,   \* per descriptor, the claim processInputDescriptor returned
  vp,       \* the presentation and its submission, [lacks, definition, creds,
            \* map]: lacks are the required members that are missing
  results   \* verifiedSubmissionData

vars == <<def, claims, phase, at, seen, chosen, vp, results>>

(***************************************************************************)
(* What a claim offers to a descriptor.                                    *)
(***************************************************************************)
Matches(claim, path) == claim.data[path] # Absent

(* Mutant: only the first path of a field is looked up.                    *)
getDataFromFirstPath(claim, paths) ==
  IF paths = <<>> THEN Absent ELSE claim.data[paths[1]]

(* getDataFromJSONPath: the first path that matches, else the empty string. *)
getDataFromJSONPath(claim, paths) ==
  LET hits == {k \in DOMAIN paths : Matches(claim, paths[k])} IN
  IF hits = {} THEN Absent
  ELSE claim.data[paths[CHOOSE k \in hits : \A j \in hits : k <= j]]

(* AlgOrProofTypePerFormat: the algorithms of the first format that is set. *)
FormatValues(format)            == {format[k].name : k \in DOMAIN format}
AlgOrProofTypePerFormat(format) == IF format = <<>> THEN {} ELSE format[1].algs

(* filterClaimsByFormat, for one claim.                                    *)
PassesFormat(claim, format) ==
  \/ format = Nil
  \/ /\ claim.format \in FormatValues(format)
     /\ claim.alg \in AlgOrProofTypePerFormat(format)

(* processInputDescriptorField: any path will do, the filter is not used.  *)
processInputDescriptorField(field, claim) ==
  field.optional \/ \E k \in DOMAIN field.path : Matches(claim, field.path[k])

(* The claims that processInputDescriptor may return; it takes the first.  *)
Candidates(d) ==
  {n \in DOMAIN claims :
     /\ PassesFormat(claims[n], d.format)
     /\ \A k \in DOMAIN d.constraints.fields :
          processInputDescriptorField(d.constraints.fields[k], claims[n])}

(* processInputDescriptor gives up unless all of this holds.               *)
CanProcess(d) ==
  /\ d.constraints # Nil
  /\ d.constraints.fields # <<>>
  /\ d.constraints.limit # "required"
  /\ Candidates(d) # {}

(***************************************************************************)
(* The holder: BuildPresentationSubmission.                                *)
(***************************************************************************)
(* Without a descriptor the map stays nil.                                 *)
Missing(d) == IF d.descriptors = <<>> THEN {"descriptor_map"} ELSE {}

(* Either the holder starts with its claims, or the verifier with a        *)
(* submission it received from someone else.                               *)
Init ==
  /\ def \in Definitions
  /\ \/ /\ claims \in Wallets
        /\ vp = [lacks |-> Missing(def), definition |-> def.id, creds |-> <<>>, map |-> <<>>]
        /\ phase = "normalize"
     \/ /\ claims = <<>>
        /\ vp \in Foreign
        /\ phase = "received"
  /\ at = 1 /\ seen = {} /\ chosen = <<>> /\ results = <<>>

Go(p) == phase' = p /\ UNCHANGED <<def, claims, at, seen, chosen, vp, results>>

JWTFormats == {"jwt", "jwt_vc", "jwt_vp"}

(* normalizePresentationClaims: GetClaimJSON dereferences the JWT format   *)
(* of a token before GetClaimFormat reports that it is missing, and the id *)
(* of a token that was parsed is asserted to be a string.                  *)
PanicsOn(claim) ==
  /\ claim.jwt
  /\ claim.format = Nil \/ (claim.format \in JWTFormats /\ claim.id = Nil)
FailsOn(claim) ==
  claim.format = Nil \/ (claim.jwt /\ claim.format \notin JWTFormats)

(* Any error ends the call, after all claims; so does an empty wallet.     *)
Normalize ==
  /\ phase = "normalize"
  /\ \/ /\ \E n \in DOMAIN claims : PanicsOn(claims[n])
        /\ Go("panic")
     \/ /\ \A n \in DOMAIN claims : ~PanicsOn(claims[n])
        /\ claims = <<>> \/ \E n \in DOMAIN claims : FailsOn(claims[n])
        /\ Go("not built")
     \/ /\ claims # <<>>
        /\ \A n \in DOMAIN claims : ~PanicsOn(claims[n]) /\ ~FailsOn(claims[n])
        /\ Go(IF def.supported THEN "build" ELSE "not built")

Descriptor == def.descriptors[at]

(* Mutant: the counter of claims is not incremented.                       *)
PlaceAtStart(claim) == [index |-> 1, new |-> \A s \in seen : s[1] # claim.id]

(* Where the claim goes in the presentation: claims are told apart by      *)
(* their ids, and a claim without one has the id "".                       *)
Place(claim) ==
  LET before == {s \in seen : s[1] = claim.id} IN
  IF before # {} THEN [index |-> (CHOOSE s \in before : TRUE)[2], new |-> FALSE]
                 ELSE [index |-> Cardinality(seen) + 1, new |-> TRUE]

BuildFails ==
  /\ phase = "build" /\ at <= Len(def.descriptors)
  /\ ~CanProcess(Descriptor)
  /\ Go("not built")

BuildDescriptor ==
  /\ phase = "build" /\ at <= Len(def.descriptors)
  /\ CanProcess(Descriptor)
  /\ LET n     == CHOOSE n \in Candidates(Descriptor) :
                    \A m \in Candidates(Descriptor) : n <= m
         place == Place(claims[n])
     IN  /\ chosen' = Append(chosen, claims[n])
         /\ seen' = seen \cup {<<claims[n].id, place.index>>}
         /\ vp' = [vp EXCEPT
              !.creds = IF place.new THEN Append(@, claims[n]) ELSE @,
              !.map = Append(@, [id |-> Descriptor.id, format |-> claims[n].format,
                                 index |-> place.index, nested |-> FALSE])]
  /\ at' = at + 1
  /\ UNCHANGED <<def, claims, phase, results>>

Submit ==
  /\ phase = "build" /\ at > Len(def.descriptors)
  /\ phase' = "received" /\ at' = 1
  /\ UNCHANGED <<def, claims, seen, chosen, vp, results>>

(***************************************************************************)
(* The verifier: VerifyPresentationSubmissionVP.                           *)
(***************************************************************************)
(* PresentationSubmission.IsValid: no descriptor_map is not an array for   *)
(* the JSON schema, an empty one is; the schema lists the formats.         *)
ClaimFormats == JWTFormats \cup {"ldp", "ldp_vc", "ldp_vp"}
SubmissionValid ==
  /\ {"id", "descriptor_map"} \cap vp.lacks = {} /\ vp.definition # ""
  /\ \A k \in DOMAIN vp.map : vp.map[k].format \in ClaimFormats

(* The checks on the definition, the presentation and the submission.      *)
Receive ==
  /\ phase = "received"
  /\ Go(IF def.supported /\ "type" \notin vp.lacks /\ SubmissionValid /\ vp.definition = def.id
        THEN "verify" ELSE "rejected")

(* submissionDescriptorLookup: the last descriptor with an id wins.        *)
Entries(d) == {k \in DOMAIN vp.map : vp.map[k].id = d.id}
Entry(d)   == vp.map[CHOOSE k \in Entries(d) : \A j \in Entries(d) : j <= k]
Claim(d)   == vp.creds[Entry(d).index]

(* Mutant: the filter of a required field is not applied.                  *)
FieldUnfiltered(claim, field) ==
  ~field.optional => getDataFromJSONPath(claim, field.path) # Absent

FieldVerified(claim, field) ==
  ~field.optional =>
    /\ getDataFromJSONPath(claim, field.path) # Absent
    /\ field.filter # Nil => getDataFromJSONPath(claim, field.path) \in field.filter

VerifiedConstraints(claim, d) ==
  /\ \A k \in DOMAIN d.constraints.fields : FieldVerified(claim, d.constraints.fields[k])
  /\ d.constraints.subjectIsIssuer = "required" => claim.selfIssued

(* parsing.ToCredential fails on a presentation that is a JWT, which has   *)
(* no vc property; any other JSON object is taken for a credential.        *)
ClaimReadable(d) ==
  /\ Entries(d) # {}
  /\ d.format # Nil => Entry(d).format \in FormatValues(d.format)
  /\ ~Entry(d).nested
  /\ Entry(d).index \in DOMAIN vp.creds
  /\ ~(Claim(d).jwt /\ Claim(d).presentation)

Verified(d) ==
  /\ ClaimReadable(d)
  /\ d.constraints # Nil => VerifiedConstraints(Claim(d), d)

VerifyFails ==
  /\ phase = "verify" /\ at <= Len(def.descriptors)
  /\ ~Verified(Descriptor)
  /\ Go("rejected")

(* The datum holds the data of the last field, and no claim when there is  *)
(* no field; without constraints there is no datum.                        *)
Datum(d, claim) ==
  LET fields == d.constraints.fields IN
  IF fields = <<>> THEN [id |-> d.id, claim |-> Nil, data |-> Absent]
  ELSE [id |-> d.id, claim |-> claim,
        data |-> getDataFromJSONPath(claim, Last(fields).path)]

(* Mutant: a descriptor without fields gives no datum.                     *)
VerifyFieldsOnly ==
  /\ phase = "verify" /\ at <= Len(def.descriptors)
  /\ Verified(Descriptor)
  /\ results' = IF Descriptor.constraints = Nil \/ Descriptor.constraints.fields = <<>>
                THEN results
                ELSE Append(results, Datum(Descriptor, Claim(Descriptor)))
  /\ at' = at + 1
  /\ UNCHANGED <<def, claims, phase, seen, chosen, vp>>

VerifyDescriptor ==
  /\ phase = "verify" /\ at <= Len(def.descriptors)
  /\ Verified(Descriptor)
  /\ results' = IF Descriptor.constraints = Nil THEN results
                ELSE Append(results, Datum(Descriptor, Claim(Descriptor)))
  /\ at' = at + 1
  /\ UNCHANGED <<def, claims, phase, seen, chosen, vp>>

Accept ==
  /\ phase = "verify" /\ at > Len(def.descriptors)
  /\ Go("accepted")

Next ==
  \/ Normalize \/ BuildFails \/ BuildDescriptor \/ Submit
  \/ Receive \/ VerifyFails \/ VerifyDescriptor \/ Accept

Spec == Init /\ [][Next]_vars

(***************************************************************************)
(* Properties.                                                             *)
(***************************************************************************)
Built == phase \in {"build", "received", "verify", "accepted", "rejected"} /\ chosen # <<>>

(* The path of every descriptor leads to the claim that was selected for   *)
(* it: "if it has, we won't duplicate the claim" shares a path only        *)
(* between descriptors that are fulfilled by the same claim.               *)
PathLeadsToClaim ==
  Built => \A k \in DOMAIN chosen : vp.creds[vp.map[k].index] = chosen[k]

(* The verifier refuses what the holder built for the same definition for  *)
(* reasons only that the holder does not look at: the value found for a    *)
(* field is not one its filter accepts, the subject has to be the issuer,  *)
(* the claim is itself a presentation or has a format of its own making,   *)
(* or the definition has no id.                                            *)
RefusedForAReason ==
  phase = "rejected" /\ chosen # <<>> =>
    \/ def.id = ""
    \/ \E k \in DOMAIN chosen :
         LET c == def.descriptors[k].constraints IN
         \/ chosen[k].presentation
         \/ chosen[k].format \notin ClaimFormats
         \/ c.subjectIsIssuer = "required" /\ ~chosen[k].selfIssued
         \/ \E n \in DOMAIN c.fields :
              /\ c.fields[n].filter # Nil /\ ~c.fields[n].optional
              /\ getDataFromJSONPath(chosen[k], c.fields[n].path) \notin c.fields[n].filter

(* Accepting a submission, whoever built it, means that every descriptor   *)
(* with constraints has a claim of the presentation in which each required *)
(* field is there, on one of its paths, with a value that its filter       *)
(* accepts, and whose subject issued it where that is required.            *)
AcceptedIsFulfilled ==
  phase = "accepted" =>
    \A n \in DOMAIN def.descriptors :
      LET c == def.descriptors[n].constraints IN
      c # Nil => \E claim \in Range(vp.creds) :
        /\ c.subjectIsIssuer = "required" => claim.selfIssued
        /\ \A k \in DOMAIN c.fields : ~c.fields[k].optional =>
             \E path \in Range(c.fields[k].path) :
               /\ Matches(claim, path)
               /\ c.fields[k].filter # Nil => claim.data[path] \in c.fields[k].filter

(* An accepted submission yields one datum for each descriptor that has    *)
(* constraints, in the order of the definition, and a datum without a      *)
(* claim only for one without fields.                                      *)
ResultsMatchDefinition ==
  phase = "accepted" =>
    \E of \in [DOMAIN results -> DOMAIN def.descriptors] :
      /\ \A j, k \in DOMAIN results : j < k => of[j] < of[k]
      /\ Range(of) = {n \in DOMAIN def.descriptors : def.descriptors[n].constraints # Nil}
      /\ \A k \in DOMAIN results :
           LET d == def.descriptors[of[k]] IN
           /\ results[k].id = d.id
           /\ results[k].claim = Nil => d.constraints.fields = <<>>
=============================================================================
