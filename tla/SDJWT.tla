------------------------------- MODULE SDJWT -------------------------------
(***************************************************************************)
(* Selective disclosure (sd-jwt/sd_jwt.go): an issuer blinds claims and    *)
(* signs what is left, a holder checks the issuance and presents some of   *)
(* the disclosures, and a verifier puts the claims back together.          *)
(*                                                                         *)
(* A JSON value is a leaf, an array or an object; an object has its claims *)
(* and, apart from them, its "_sd" member.  The digest of a disclosure is  *)
(* the disclosure itself: the hash is injective and re-encoding a parsed   *)
(* disclosure yields the same text.  Salts are fresh, so the path of the   *)
(* claim stands for the salt.  Order never matters to the code, which      *)
(* ranges over Go maps and shuffles: disclosures come in any order.  The   *)
(* clock is read once per verification, so the time is one of its inputs.  *)
(***************************************************************************)
EXTENDS Integers, SequencesExt

CONSTANTS
  Inputs,      \* what an issuer passes to BlindAndSign: [claims, options]
  Foreign,     \* combined formats of other issuers: [token, ds]
  Fakes,       \* disclosures someone appends to a combined format
  Garbled,     \* a disclosure that cannot be decoded
  Unsalted,    \* a disclosure whose salt is no string
  NoSD,        \* the "_sd" of an object without one
  BadSD,       \* an "_sd" that is no array of strings
  Nil,         \* nothing yet, or an empty holder binding
  IssuerKey,   \* the key of the issuer
  Keys,        \* keys a verifier may try
  Bindings,    \* holder binding JWTs: [key, nonce, aud]
  Desired,     \* the binding the verifier asked for
  Times,       \* when a verification may happen
  PartBytes    \* the length of a token or of a disclosure

ASSUME SDAssumption ==
  /\ IssuerKey \in Keys
  /\ Desired \in Bindings
  /\ Times \subseteq Nat
  /\ PartBytes \in Nat /\ PartBytes > 1

VARIABLES
  input,      \* the input of the issuance, Nil for a foreign one
  issued,     \* the Combined Format for Issuance: [token, ds]
  held,       \* the disclosures as they reached the holder
  verdict,    \* what VerifyIssuance said of them, and when: [says, now]
  chosen,     \* the disclosures the holder wants to present
  pres,       \* the parts of the presentation
  asked,      \* the last verification: [key, required, now]
  outcome,    \* and its outcome
  payload     \* and the claims it returned

vars == <<input, issued, held, verdict, chosen, pres, asked, outcome, payload>>

(***************************************************************************)
(* JSON values and disclosures.                                            *)
(***************************************************************************)
Object(m, sd) == [kind |-> "object", m |-> m, sd |-> sd]
Array(elems)  == [kind |-> "array", elems |-> elems]
Leaf(v)       == [kind |-> "leaf", v |-> v]
Time(t)       == [kind |-> "leaf", v |-> "time", at |-> t]

Disclosure(salt, name, value) == [salt |-> salt, name |-> name, value |-> value]
Decoy(k) == [decoy |-> k]
SdAlg    == "_sd_alg"
Index    == <<"0", "1", "2">>      \* the places in an array, as parts of a path

(* The slice that collects no elements is nil, which marshals to null.     *)
ArrayOrNull(elems) == IF elems = <<>> THEN Leaf("null") ELSE Array(elems)

(***************************************************************************)
(* Blinding.                                                               *)
(***************************************************************************)
(* Mutant: a number of digests that is a power of two gets no decoy.       *)
getPowerOfTwo(n) == Min({p \in {1, 2, 4, 8} : n <= p})

(* getNextPowerOfTwo: the least power of two above n.                      *)
getNextPowerOfTwo(n) == Min({p \in {1, 2, 4, 8} : n < p})

Digests(own) ==
  SetToSeq(own) \o
  [k \in 1..(getNextPowerOfTwo(Cardinality(own)) - Cardinality(own)) |-> Decoy(k)]

RECURSIVE toBlindedClaimsAndDisclosures(_, _, _)
RECURSIVE blindElement(_, _)

(* blindElementsRecurvisely: objects within an array are blinded claim by  *)
(* claim, arrays within it element by element.                             *)
blindElement(v, path) ==
  CASE v.kind = "object" ->
         toBlindedClaimsAndDisclosures(v, [n \in DOMAIN v.m |-> [opt |-> "recursive"]], path)
    [] v.kind = "array" ->
         LET b == [k \in DOMAIN v.elems |-> blindElement(v.elems[k], Append(path, Index[k]))] IN
         [ok |-> TRUE, value |-> ArrayOrNull([k \in DOMAIN b |-> b[k].value]),
          ds |-> UNION {b[k].ds : k \in DOMAIN b}]
    [] OTHER -> [ok |-> TRUE, value |-> v, ds |-> {}]

Kept(v)        == [ok |-> TRUE, keep |-> {v}, own |-> {}, ds |-> {}]
Hidden(d, ds)  == [ok |-> TRUE, keep |-> {}, own |-> {d}, ds |-> ds \cup {d}]
NotApplicable  == [ok |-> FALSE, keep |-> {}, own |-> {}, ds |-> {}]

(* Mutant: a recursive disclosure has the value as it was.                 *)
blindClaimRaw(n, v, options, path) ==
  LET at == Append(path, n) IN
  IF n \notin DOMAIN options THEN Kept(v)
  ELSE CASE options[n].opt = "flat" -> Hidden(Disclosure(at, n, v), {})
         [] options[n].opt = "recursive" ->
              Hidden(Disclosure(at, n, v), blindElement(v, at).ds)
         [] v.kind = "object" ->
              LET b == toBlindedClaimsAndDisclosures(v, options[n].claims, at)
              IN  [Kept(b.value) EXCEPT !.ok = b.ok, !.ds = b.ds]
         [] OTHER -> NotApplicable

(* One claim, with the option that is given for it: what stays in its      *)
(* place, its own disclosure and all disclosures it leads to.              *)
blindClaim(n, v, options, path) ==
  LET at == Append(path, n) IN
  IF n \notin DOMAIN options THEN Kept(v)
  ELSE CASE options[n].opt = "flat" -> Hidden(Disclosure(at, n, v), {})
         [] options[n].opt = "recursive" ->
              LET b == blindElement(v, at) IN Hidden(Disclosure(at, n, b.value), b.ds)
         [] v.kind = "object" ->
              LET b == toBlindedClaimsAndDisclosures(v, options[n].claims, at)
              IN  [Kept(b.value) EXCEPT !.ok = b.ok, !.ds = b.ds]
         [] OTHER -> NotApplicable

toBlindedClaimsAndDisclosures(v, options, path) ==
  LET b    == [n \in DOMAIN v.m |-> blindClaim(n, v.m[n], options, path)]
      kept == {n \in DOMAIN b : b[n].keep # {}}
  IN  [ok    |-> \A n \in DOMAIN b : b[n].ok,
       value |-> Object([n \in kept |-> CHOOSE x \in b[n].keep : TRUE],
                        Digests(UNION {b[n].own : n \in DOMAIN b})),
       ds    |-> UNION {b[n].ds : n \in DOMAIN b}]

Init ==
  /\ input = Nil /\ issued = Nil /\ held = Nil /\ verdict = Nil
  /\ chosen = {} /\ pres = Nil /\ asked = Nil /\ outcome = "none" /\ payload = Nil

(* BlindAndSign; a salt or the signature may fail whatever the input is.   *)
BlindAndSign(i) ==
  /\ issued = Nil
  /\ LET b == toBlindedClaimsAndDisclosures(i.claims, i.options, <<>>) IN
       \/ /\ outcome' = "not issued"
          /\ UNCHANGED <<input, issued>>
       \/ /\ b.ok
          /\ \E ds \in SetToSeqs(b.ds) :
               issued' = [ds |-> ds, token |-> [key |-> IssuerKey,
                 body |-> [b.value EXCEPT !.m = (SdAlg :> Leaf("sha-256")) @@ @]]]
          /\ input' = i
          /\ UNCHANGED outcome
  /\ UNCHANGED <<held, verdict, chosen, pres, asked, payload>>

(* Another issuer, which follows the draft or does not.                    *)
ReceiveForeign(f) ==
  /\ issued = Nil
  /\ issued' = f
  /\ UNCHANGED <<input, held, verdict, chosen, pres, asked, outcome, payload>>

(* The combined format reaches the holder, perhaps with an addition.       *)
Deliver(extra) ==
  /\ issued # Nil /\ held = Nil
  /\ held' = issued.ds \o extra
  /\ UNCHANGED <<input, issued, verdict, chosen, pres, asked, outcome, payload>>

(***************************************************************************)
(* The holder.                                                             *)
(***************************************************************************)
(* parseDisclosures stops at the first one it cannot read; the salt is     *)
(* asserted to be a string without a check.                                *)
parseDisclosures(ds) ==
  LET bad == SelectSeq(ds, LAMBDA d : d \in {Garbled, Unsalted}) IN
  IF bad = <<>> THEN "ok" ELSE IF bad[1] = Unsalted THEN "panic" ELSE "error"

RECURSIVE getDigests(_)

(* Mutant: arrays are not searched.                                        *)
getDigestsOfObjects(v) ==
  IF v.kind = "object"
  THEN (CASE v.sd = NoSD -> {} [] v.sd = BadSD -> {BadSD} [] OTHER -> Range(v.sd))
         \cup UNION {getDigests(v.m[n]) : n \in DOMAIN v.m}
  ELSE {}

(* getDigests, getDigestsForMap, getDigestsForSlice                        *)
getDigests(v) ==
  CASE v.kind = "object" ->
         (CASE v.sd = NoSD -> {} [] v.sd = BadSD -> {BadSD} [] OTHER -> Range(v.sd))
           \cup UNION {getDigests(v.m[n]) : n \in DOMAIN v.m}
    [] v.kind = "array" -> UNION {getDigests(v.elems[k]) : k \in DOMAIN v.elems}
    [] OTHER -> {}

GetHashAlg(body) == SdAlg \in DOMAIN body.m => body.m[SdAlg] = Leaf("sha-256")

(* jwt.WithValidate(true): the time claims that are in plain text.         *)
InTime(body, now) ==
  /\ "exp" \in DOMAIN body.m => now < body.m["exp"].at
  /\ "nbf" \in DOMAIN body.m => body.m["nbf"].at <= now

IssuanceVerdict(token, ds, now) ==
  LET all == getDigests(token.body) \cup UNION {getDigests(d.value) : d \in Range(ds)} IN
  CASE token.key # IssuerKey \/ ~InTime(token.body, now) \/ ~GetHashAlg(token.body) -> "error"
    [] parseDisclosures(ds) # "ok" -> parseDisclosures(ds)
    [] BadSD \in all -> "panic"
    [] OTHER -> IF Range(ds) \subseteq all THEN "ok" ELSE "error"

VerifyIssuance(now) ==
  /\ held # Nil /\ verdict = Nil
  /\ verdict' = [says |-> IssuanceVerdict(issued.token, held, now), now |-> now]
  /\ UNCHANGED <<input, issued, held, chosen, pres, asked, outcome, payload>>

(* Mutant: the part before the one that was asked for.                     *)
CreatePresentationShifted(parts, indices, binding) ==
  <<parts[1]>> \o [k \in DOMAIN indices |-> parts[indices[k] + 1]] \o <<binding>>

(* CreatePresentation: indices count disclosures from zero.                *)
CreatePresentation(parts, indices, binding) ==
  <<parts[1]>> \o [k \in DOMAIN indices |-> parts[indices[k] + 2]] \o <<binding>>

(* SelectDisclosures: by the name of the claim, at whatever level it is.   *)
SelectDisclosures(ds, names) ==
  SetToSortSeq({i \in 0..(Len(ds) - 1) : ds[i + 1].name \in names}, <)

CombinedFormat == <<issued.token>> \o held

PresentParts(wanted, parts) ==
  /\ held # Nil /\ pres = Nil
  /\ chosen' = wanted
  /\ pres' = parts
  /\ UNCHANGED <<input, issued, held, verdict, asked, outcome, payload>>

(* The holder names indices, in any order and perhaps one of them twice;   *)
(* one that is past the disclosures is past the end of the slice.          *)
Present(indices, binding) ==
  /\ Range(indices) \subseteq 0..(Len(held) - 1)
  /\ PresentParts({held[i + 1] : i \in Range(indices)},
                  CreatePresentation(CombinedFormat, indices, binding))

PresentPanics(indices) ==
  /\ pres = Nil /\ outcome = "none"
  /\ ~(Range(indices) \subseteq 0..(Len(held) - 1))
  /\ outcome' = "panic"
  /\ UNCHANGED <<input, issued, held, verdict, chosen, pres, asked, payload>>

(* The holder names claims.                                                *)
SelectAndPresent(names, binding) ==
  /\ parseDisclosures(held) = "ok"
  /\ PresentParts({d \in Range(held) : d.name \in names},
       CreatePresentation(CombinedFormat, SelectDisclosures(held, names), binding))

(* The holder forwards the issuance as it is, whose last disclosure then   *)
(* is where the verifier expects the holder binding.                       *)
Forward == PresentParts(Range(Front(CombinedFormat)) \ {issued.token}, CombinedFormat)

(***************************************************************************)
(* The verifier.                                                           *)
(***************************************************************************)
RECURSIVE processPayload(_, _)

Opened(v, ds) ==
  IF v.kind = "object" THEN processPayload(v, ds)
  ELSE [ok |-> TRUE, value |-> v, found |-> <<>>]

(* Mutant: digestsFound is kept by the name of the claim.                  *)
FoundName(digest) == digest.name

(* What digestsFound keeps of a digest.                                    *)
FoundKey(digest) == digest

(* Mutant: a disclosed claim takes the place of a plain one.               *)
NamesShadow(o, names) == ~IsInjective(names)

(* "claim name already exists": twice among the disclosures of one level,  *)
(* or as a claim of that level.                                            *)
NamesClash(o, names) ==
  \/ ~IsInjective(names)
  \/ Range(names) \cap (DOMAIN o.m \cup {"_sd"}) # {}

(* processPayload: nested objects, then the digests of this level, then    *)
(* the objects they disclose.  It does not look into arrays.               *)
processPayload(o, ds) ==
  LET sub   == [n \in DOMAIN o.m |-> Opened(o.m[n], ds)]
      order == SetToSeq(DOMAIN o.m)
      hits  == IF o.sd \in {NoSD, BadSD} THEN <<>> ELSE SelectSeq(o.sd, LAMBDA d : d \in ds)
      new   == [k \in DOMAIN hits |-> Opened(hits[k].value, ds)]
      names == [k \in DOMAIN hits |-> hits[k].name]
      found == FlattenSeq([k \in DOMAIN order |-> sub[order[k]].found])
               \o FlattenSeq([k \in DOMAIN hits |-> <<FoundKey(hits[k])>> \o new[k].found])
      plain == IF o.sd = NoSD THEN DOMAIN o.m ELSE DOMAIN o.m \ {SdAlg}
  IN  [ok    |-> /\ \A n \in DOMAIN sub : sub[n].ok
                 /\ \A k \in DOMAIN new : new[k].ok
                 /\ o.sd # BadSD
                 /\ ~NamesClash(o, names)
                 /\ IsInjective(found),
       value |-> Object([n \in plain \cup Range(names) |->
                   IF n \in Range(names) THEN new[CHOOSE k \in DOMAIN hits : names[k] = n].value
                   ELSE sub[n].value], NoSD),
       found |-> found]

ByteLength(parts) ==
  (Len(parts) - 1) + PartBytes * Len(SelectSeq(parts, LAMBDA p : p # Nil))

(* sdParts[len(presentation)-1], where presentation is a slice of bytes:   *)
(* the index is always out of range, and the checks on the holder binding  *)
(* that follow, those of its time claims among them, are never reached.    *)
HolderBinding(parts) ==
  LET i == ByteLength(parts) IN
  IF i > Len(parts) THEN "panic"
  ELSE IF parts[i] = Desired THEN "accepted" ELSE "error"

(* VerifySDPresentation: the disclosures are the parts between the first   *)
(* and the last; with only one part the slice expression panics.           *)
VerifyOutcome(parts, key, required, now) ==
  LET ds == SubSeq(parts, 2, Len(parts) - 1)
      p  == processPayload(parts[1].body, Range(ds))
  IN  CASE parts[1].key # key \/ ~InTime(parts[1].body, now) -> "error"
        [] ~GetHashAlg(parts[1].body)    -> "error"
        [] Len(parts) = 1                -> "panic"
        [] parseDisclosures(ds) # "ok"   -> parseDisclosures(ds)
        [] ~p.ok                         -> "error"
        [] OTHER -> IF required THEN HolderBinding(parts) ELSE "accepted"

(* A verification leaves nothing behind that another one could see, so a   *)
(* presentation is verified once, in every way.                            *)
VerifySDPresentation(key, required, now) ==
  /\ pres # Nil /\ asked = Nil
  /\ asked' = [key |-> key, required |-> required, now |-> now]
  /\ outcome' = VerifyOutcome(pres, key, required, now)
  /\ payload' = IF outcome' = "accepted"
                THEN processPayload(pres[1].body, Range(SubSeq(pres, 2, Len(pres) - 1))).value
                ELSE Nil
  /\ UNCHANGED <<input, issued, held, verdict, chosen, pres>>

(* The ways to name the disclosures of the holder: each set of indices in  *)
(* order, and with the first one repeated; and an index too many.          *)
IndexLists ==
  IF held = Nil THEN {}
  ELSE LET sorted == {SetToSortSeq(I, <) : I \in SUBSET (0..(Len(held) - 1))}
       IN  sorted \cup {s \o <<s[1]>> : s \in sorted \ {<<>>}} \cup {<<Len(held)>>}

Names == UNION {DOMAIN i.claims.m : i \in Inputs}

Next ==
  \/ \E i \in Inputs : BlindAndSign(i)
  \/ \E f \in Foreign : ReceiveForeign(f)
  \/ \E extra \in {<<>>} \cup {<<f>> : f \in Fakes \cup {Garbled, Unsalted}} : Deliver(extra)
  \/ \E now \in Times : VerifyIssuance(now)
  \/ \E indices \in IndexLists, binding \in Bindings \cup {Nil} : Present(indices, binding)
  \/ \E indices \in IndexLists : PresentPanics(indices)
  \/ held # Nil /\ \E names \in SUBSET Names : SelectAndPresent(names, Nil)
  \/ held # Nil /\ Forward
  \/ \E key \in Keys, required \in BOOLEAN, now \in Times :
       VerifySDPresentation(key, required, now)

Spec == Init /\ [][Next]_vars

(***************************************************************************)
(* What the options mean, in terms of paths.                               *)
(***************************************************************************)
RECURSIVE Nodes(_, _)
Nodes(v, path) ==
  {[path |-> path, is |-> IF v.kind = "leaf" THEN v.v ELSE v.kind]} \cup
  CASE v.kind = "object" -> UNION {Nodes(v.m[n], Append(path, n)) : n \in DOMAIN v.m}
    [] v.kind = "array"  -> UNION {Nodes(v.elems[k], Append(path, Index[k])) : k \in DOMAIN v.elems}
    [] OTHER -> {}

RECURSIVE IsBlinded(_, _)
IsBlinded(path, options) ==
  /\ path[1] \in DOMAIN options
  /\ LET o == options[path[1]] IN
     CASE o.opt = "flat"      -> Len(path) = 1
       [] o.opt = "recursive" -> Last(path) \notin Range(Index)
       [] OTHER               -> Len(path) > 1 /\ IsBlinded(Tail(path), o.claims)

(* The node is inside of a claim that is blinded recursively.              *)
RECURSIVE InRecursive(_, _)
InRecursive(path, options) ==
  /\ path # <<>> /\ path[1] \in DOMAIN options
  /\ LET o == options[path[1]] IN
     \/ o.opt = "recursive"
     \/ o.opt = "sub" /\ InRecursive(Tail(path), o.claims)

InArray(path) == \E k \in 1..(Len(path) - 1) : path[k] \in Range(Index)

BlindedPrefixes(path) ==
  {q \in {SubSeq(path, 1, k) : k \in 1..Len(path)} : IsBlinded(q, input.options)}

(* The node as BlindAndSign writes it: recursive blinding turns an empty   *)
(* array into null.                                                        *)
AsWritten(n) ==
  LET empty == \A x \in Nodes(input.claims, <<>>) : ~IsStrictPrefix(n.path, x.path)
  IN  IF n.is = "array" /\ empty /\ InRecursive(n.path, input.options)
      THEN [n EXCEPT !.is = "null"] ELSE n

(* The times that the claims allow: those of exp and nbf that BlindAndSign *)
(* left in plain text.                                                     *)
ValidAt(now) ==
  \A n \in {"exp", "nbf"} \cap (DOMAIN input.claims.m \ DOMAIN input.options) :
    IF n = "exp" THEN now < input.claims.m[n].at ELSE now >= input.claims.m[n].at

Honest   == input # Nil
Revealed == {d.salt : d \in chosen \cap Range(issued.ds)}

(***************************************************************************)
(* Properties.                                                             *)
(***************************************************************************)
Outcomes == {"none", "not issued", "accepted", "error", "panic"}

RECURSIVE Lists(_)
Lists(v) ==
  CASE v.kind = "object" -> ({v.sd} \ {NoSD}) \cup UNION {Lists(v.m[n]) : n \in DOMAIN v.m}
    [] v.kind = "array"  -> UNION {Lists(v.elems[k]) : k \in DOMAIN v.elems}
    [] OTHER -> {}

(* Every list of digests that BlindAndSign makes has a power of two of     *)
(* entries, no digest twice, and at least one decoy.                       *)
TypeOK ==
  /\ outcome \in Outcomes
  /\ payload # Nil => outcome = "accepted"
  /\ Honest =>
       LET lists == Lists(issued.token.body)
                      \cup UNION {Lists(d.value) : d \in Range(issued.ds)}
       IN \A l \in lists : /\ Len(l) \in {1, 2, 4, 8}
                           /\ Decoy(1) \in Range(l)
                           /\ IsInjective(l)

(* VerifyIssuance accepts what BlindAndSign made, for every nesting of     *)
(* options, while a plain exp or nbf of the claims allows it, and refuses  *)
(* it once a disclosure has been added to it.                              *)
IssuanceIsVerified ==
  Honest /\ verdict # Nil =>
    (verdict.says = "ok" <=>
       Range(held) \subseteq Range(issued.ds) /\ ValidAt(verdict.now))

(* What the verifier gets back is the issuer's claims without those that   *)
(* are blinded, or are inside of something blinded, that the holder did    *)
(* not choose; nothing the holder adds becomes a claim.  Claims that were  *)
(* blinded inside an array do not come back, and an array that is empty    *)
(* comes back as null where it was blinded recursively.                    *)
DisclosesSelection ==
  Honest /\ payload # Nil =>
    Nodes(payload, <<>>) =
      {AsWritten(n) : n \in {x \in Nodes(input.claims, <<>>) :
         \A q \in BlindedPrefixes(x.path) : q \in Revealed /\ ~InArray(q)}}

(* Nothing else can be read from what CreatePresentation returns either:   *)
(* the innermost blinded claim around every value in it was chosen.        *)
Readable ==
  Nodes(issued.token.body, <<>>) \cup
  UNION {Nodes(d.value, d.salt) : d \in Range(Tail(pres)) \cap Range(issued.ds)}

ReadableIsChosen ==
  Honest /\ pres # Nil /\ pres # CombinedFormat =>
    \A n \in Readable :
      \/ BlindedPrefixes(n.path) = {}
      \/ \E q \in BlindedPrefixes(n.path) \cap Revealed :
           \A r \in BlindedPrefixes(n.path) : Len(r) <= Len(q)

(* A presentation of an honest issuance is accepted, whatever the holder   *)
(* chooses and in whatever order, if its disclosures can be read and it is *)
(* presented in time.  A time claim that the issuer blinded never stands   *)
(* in the way, not even when it is disclosed.                              *)
Presented == asked # Nil /\ asked.key = IssuerKey /\ Honest
Wellformed == Len(pres) > 1 /\ {Garbled, Unsalted} \cap Range(pres) = {}

HonestIsAccepted ==
  Presented /\ Wellformed /\ ~asked.required =>
    (outcome = "accepted" <=> ValidAt(asked.now))

(* "If the claim name already exists at the same level, the Verifier MUST  *)
(* reject": no disclosure changes a claim that the issuer signed in plain  *)
(* text, whoever the issuer is.                                            *)
SignedClaimsStay ==
  payload # Nil =>
    {n \in Nodes(issued.token.body, <<>>) : n.path # <<SdAlg>>} \subseteq Nodes(payload, <<>>)

=============================================================================
