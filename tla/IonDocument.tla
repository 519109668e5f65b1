---------------------------- MODULE IonDocument ----------------------------
(***************************************************************************)
(* PatchesToDIDDocument of did/ion/did.go: the document that a list of     *)
(* Sidetree patches yields, as the resolvers of did/ion/resolver.go build  *)
(* it from a long form DID, with the patches that NewCreateRequest and     *)
(* NewUpdateRequest (did/ion/request.go) put into a delta.                 *)
(*                                                                         *)
(* The lists of the document are Go slices, and an id is removed from one  *)
(* while a range loop walks over it:                                       *)
(*     for i, x := range s { if x == id { s = append(s[:i], s[i+1:]...) }} *)
(* The loop keeps the bounds of the original slice and reads the shifted   *)
(* backing array, which is only harmless when the id occurs once.          *)
(*                                                                         *)
(* Keys and services are reduced to their ids, and keys to their purposes  *)
(* as well.  An id is a name written with or without the leading '#'.      *)
(***************************************************************************)
EXTENDS Integers, SequencesExt

CONSTANTS
  Names,        \* names of keys and services
  LongNames,    \* the ones whose ids exceed maxIDLength
  Purposes,     \* the purposes addPublicKeysPatch knows
  BadPurpose,   \* a purpose it does not know
  Documents,    \* ion.Document values for replace patches
  StateChanges, \* StateChange values for update requests
  MaxChanges    \* bound: update requests applied to one document

Ids      == [name : Names, hash : BOOLEAN]
Keys     == [id : Ids, purposes : Seq(Purposes \cup {BadPurpose})]
Services == [id : Ids, longType : BOOLEAN]

ASSUME DocumentAssumption ==
  /\ LongNames \subseteq Names
  /\ BadPurpose \notin Purposes
  /\ Documents \subseteq [keys : Seq(Keys), services : Seq(Services)]
  /\ StateChanges \subseteq [addServices : Seq(Services), removeServices : Seq(Ids),
                            addKeys : Seq(Keys), removeKeys : Seq(Ids)]
  /\ MaxChanges \in Nat

VARIABLES
  todo,     \* patches still to be applied, in order
  doc,      \* the document under construction
  status,   \* "building", "returned", "error" or "panic"
  changes,  \* update requests taken so far
  once      \* history: every patch so far introduced its ids once

vars == <<todo, doc, status, changes, once>>

canonicalID(id) == [id EXCEPT !.hash = TRUE]
CanonicalIds    == {canonicalID(id) : id \in Ids}

EmptyDocument ==
  [verificationMethod |-> <<>>, services |-> <<>>,
   refs |-> [p \in Purposes |-> <<>>]]

(***************************************************************************)
(* The removal loop.  arr is the backing array, len the length of the      *)
(* shrinking slice; index i runs over the original bounds.  Slicing        *)
(* s[i+1:] past the shrunken length panics.                                *)
(***************************************************************************)
(* Mutant: s[i+1:] starts one too late.                                    *)
CutOutNext(s, i) ==
  [s EXCEPT !.arr = [k \in DOMAIN s.arr |->
                       IF i < k /\ k < s.len THEN s.arr[k + 1] ELSE s.arr[k]],
            !.len = s.len - 1]

CutOut(s, i) ==
  [s EXCEPT !.arr = [k \in DOMAIN s.arr |->
                       IF i <= k /\ k < s.len THEN s.arr[k + 1] ELSE s.arr[k]],
            !.len = s.len - 1]

(* Mutant: the slice after the hit starts at i+2.                          *)
RangeStepPast(id, s, i) ==
  IF s.panic \/ s.arr[i] # id THEN s
  ELSE IF i + 1 > s.len THEN [s EXCEPT !.panic = TRUE]
  ELSE CutOut(s, i)

RangeStep(id, s, i) ==
  IF s.panic \/ s.arr[i] # id THEN s
  ELSE IF i > s.len THEN [s EXCEPT !.panic = TRUE]
  ELSE CutOut(s, i)

RemoveWhileRanging(list, id) ==
  LET Step(s, i) == RangeStep(id, s, i)
      end == FoldLeftDomain(Step,
               [arr |-> list, len |-> Len(list), panic |-> FALSE], list)
  IN  [list  |-> SubSeq(end.arr, 1, end.len),
       hits  |-> Len(list) - end.len,
       panic |-> end.panic]

(***************************************************************************)
(* The patches.  Each works on [doc, status] and stops at the first error. *)
(***************************************************************************)
Ended(s) == s.status # "building"

AddService(s, service) ==
  [s EXCEPT !.doc.services = Append(@, canonicalID(service.id))]

RemoveService(s, id) ==
  IF Ended(s) THEN s
  ELSE LET r == RemoveWhileRanging(s.doc.services, canonicalID(id)) IN
       [s EXCEPT !.doc.services = r.list,
                 !.status = IF r.panic THEN "panic" ELSE @]

AddPurpose(s, id, purpose) ==
  IF Ended(s) THEN s
  ELSE IF purpose \notin Purposes THEN [s EXCEPT !.status = "error"]
  ELSE [s EXCEPT !.doc.refs[purpose] = Append(@, id)]

AddPublicKey(s, key) ==
  IF Ended(s) THEN s
  ELSE LET id == canonicalID(key.id)
           Add(t, purpose) == AddPurpose(t, id, purpose)
       IN  FoldLeft(Add, [s EXCEPT !.doc.verificationMethod = Append(@, id)],
                    key.purposes)

(* Mutant: the purpose lists are forgotten.                                *)
RemoveRefsNot(s, id) == s

(* One removal loop over every purpose list.                               *)
RemoveRefs(s, id) ==
  LET r == [p \in Purposes |-> RemoveWhileRanging(s.doc.refs[p], id)] IN
  [s EXCEPT !.doc.refs = [p \in Purposes |-> r[p].list],
            !.status = IF \E p \in Purposes : r[p].panic THEN "panic" ELSE @]

(* Every hit in the verification methods runs the loops over the purposes. *)
RemovePublicKey(s, rawId) ==
  IF Ended(s) THEN s
  ELSE LET id == canonicalID(rawId)
           r  == RemoveWhileRanging(s.doc.verificationMethod, id)
           RemoveAgain(t, i) == IF Ended(t) THEN t ELSE RemoveRefs(t, id)
           t0 == [s EXCEPT !.doc.verificationMethod = r.list,
                           !.status = IF r.panic THEN "panic" ELSE @]
       IN  IF r.hits = 0 /\ ~r.panic THEN [s EXCEPT !.status = "error"]
           ELSE FoldLeft(RemoveAgain, t0, [i \in 1..r.hits |-> i])

replaceAction(s, patch) ==
  FoldLeft(AddService,
           FoldLeft(AddPublicKey, [s EXCEPT !.doc = EmptyDocument], patch.keys),
           patch.services)

ApplyPatch(s, patch) ==
  CASE patch.action = "add-services"       -> FoldLeft(AddService, s, patch.services)
    [] patch.action = "remove-services"    -> FoldLeft(RemoveService, s, patch.ids)
    [] patch.action = "add-public-keys"    -> FoldLeft(AddPublicKey, s, patch.keys)
    [] patch.action = "remove-public-keys" -> FoldLeft(RemovePublicKey, s, patch.ids)
    [] patch.action = "replace"            -> replaceAction(s, patch)

(***************************************************************************)
(* Where patches come from.                                                *)
(***************************************************************************)
Patch(action, keys, services, ids) ==
  [action |-> action, keys |-> keys, services |-> services, ids |-> ids]

(* NewCreateRequest and NewRecoverRequest: one replace patch.              *)
ReplacePatches(document) ==
  <<Patch("replace", document.keys, document.services, <<>>)>>

(* NewUpdateRequest: one patch per non-empty list, in this order.          *)
UpdatePatches(change) ==
  LET When(list, patch) == IF list = <<>> THEN <<>> ELSE <<patch>> IN
     When(change.addServices, Patch("add-services", <<>>, change.addServices, <<>>))
  \o When(change.removeServices, Patch("remove-services", <<>>, <<>>, change.removeServices))
  \o When(change.addKeys, Patch("add-public-keys", change.addKeys, <<>>, <<>>))
  \o When(change.removeKeys, Patch("remove-public-keys", <<>>, <<>>, change.removeKeys))

(* StateChange.IsValid: the maps are keyed by the ids as they are written. *)
AddedIds(list) == {list[k].id : k \in DOMAIN list}
TooLong(id)    == id.name \in LongNames

IsValid(c) ==
  /\ UpdatePatches(c) # <<>>
  /\ \A list \in {c.addServices, c.addKeys} :
       /\ \A j, k \in DOMAIN list : list[j].id = list[k].id => j = k
       /\ \A id \in AddedIds(list) : ~TooLong(id)
  /\ \A k \in DOMAIN c.addServices : ~c.addServices[k].longType
  /\ \A k \in DOMAIN c.removeServices :
       /\ c.removeServices[k] \notin AddedIds(c.addServices)
       /\ ~TooLong(c.removeServices[k])
  /\ \A k \in DOMAIN c.removeKeys :
       /\ c.removeKeys[k] \notin AddedIds(c.addKeys)
       /\ ~TooLong(c.removeKeys[k])

(***************************************************************************)
(* A patch that introduces ids once: it adds no id the document has, names *)
(* no id twice, and no key of it lists a purpose twice.  Nothing in the    *)
(* code asks for this; once records whether the inputs happened to do so.  *)
(***************************************************************************)
Canonical(list)   == [k \in DOMAIN list |-> canonicalID(list[k].id)]
RemovedIds(patch) == {canonicalID(id) : id \in Range(patch.ids)}

AddsFreshIds(patch) ==
  LET had == IF patch.action = "replace" THEN EmptyDocument ELSE doc
      Fresh(new, old) == IsInjective(new) /\ Range(new) \cap Range(old) = {}
  IN  /\ Fresh(Canonical(patch.services), had.services)
      /\ Fresh(Canonical(patch.keys), had.verificationMethod)
      /\ Cardinality(RemovedIds(patch)) = Len(patch.ids)
      /\ \A k \in DOMAIN patch.keys : IsInjective(patch.keys[k].purposes)

(***************************************************************************)
(* The state machine: a document starts with the replace patch of a        *)
(* create request and takes the patches of update requests.                *)
(***************************************************************************)
Init ==
  /\ \E document \in Documents : todo = ReplacePatches(document)
  /\ doc = EmptyDocument
  /\ status = "building"
  /\ changes = 0
  /\ once = TRUE

(* Update refuses a change for which IsValid returns an error, so only the *)
(* patches of a valid one ever follow.                                     *)
Extend(change) ==
  /\ status = "building" /\ todo = <<>> /\ changes < MaxChanges
  /\ IsValid(change)
  /\ todo' = UpdatePatches(change)
  /\ changes' = changes + 1
  /\ UNCHANGED <<doc, status, once>>

(* One round of the loop of PatchesToDIDDocument; an error and a panic     *)
(* both leave the caller without a document.                               *)
Apply ==
  /\ status = "building" /\ todo # <<>>
  /\ LET s == ApplyPatch([doc |-> doc, status |-> status], Head(todo)) IN
       /\ status' = s.status
       /\ doc' = IF s.status = "building" THEN s.doc ELSE EmptyDocument
  /\ todo' = Tail(todo)
  /\ once' = (once /\ AddsFreshIds(Head(todo)))
  /\ UNCHANGED changes

Return ==
  /\ status = "building" /\ todo = <<>>
  /\ status' = "returned"
  /\ UNCHANGED <<todo, doc, changes, once>>

Next == Apply \/ Return \/ \E change \in StateChanges : Extend(change)

Spec == Init /\ [][Next]_vars

(***************************************************************************)
(* Properties.                                                             *)
(***************************************************************************)
(* "remove from all other key lists": as long as ids are introduced once,  *)
(* a purpose never refers to a key that is not among the verification      *)
(* methods.                                                                *)
NoDanglingReference ==
  once => \A p \in Purposes : Range(doc.refs[p]) \subseteq Range(doc.verificationMethod)

(* The loops over shrinking slices implement the set semantics of          *)
(* IonDocumentAbs until an id is introduced twice: nothing is skipped,     *)
(* nothing is removed twice, no reference dangles, no slice bound is       *)
(* exceeded.                                                               *)
AbstractPatch(patch) ==
  [action   |-> patch.action,
   services |-> Range(Canonical(patch.services)) \cup
                IF patch.action = "remove-services" THEN RemovedIds(patch) ELSE {},
   keys     |-> Range(Canonical(patch.keys)) \cup
                IF patch.action = "remove-public-keys" THEN RemovedIds(patch) ELSE {},
   refs     |-> UNION {Range(patch.keys[k].purposes) \X {canonicalID(patch.keys[k].id)} :
                         k \in DOMAIN patch.keys}]

Abs == INSTANCE IonDocumentAbs WITH
  Ids         <- CanonicalIds,
  AllPurposes <- Purposes \cup {BadPurpose},
  op       <- AbstractPatch(IF todo = <<>> THEN Patch("none", <<>>, <<>>, <<>>)
                                           ELSE Head(todo)),
  keys     <- Range(doc.verificationMethod),
  services <- Range(doc.services),
  refs     <- {r \in Purposes \X CanonicalIds : r[2] \in Range(doc.refs[r[1]])},
  failed   <- status = "error",
  once     <- once

ImplementsAbs == Abs!Spec

(* When the removal loops of removeServicesPatch and removePublicKeysPatch *)
(* slice past the end of the shrunken list.  A patch can only panic when   *)
(* an id it removes is repeated in a list it walks; and one that removes a *)
(* single id does panic when the repeated id ends such a list.  Purposes   *)
(* listed twice and ids added again are accepted and lead there.           *)
Walked(patch) ==
  IF patch.action = "remove-services" THEN {doc.services}
  ELSE IF patch.action = "remove-public-keys"
       THEN {doc.verificationMethod} \cup Range(doc.refs)
       ELSE {}

Repeated(list, id) == \E j, k \in DOMAIN list : j < k /\ list[j] = id /\ list[k] = id
EndsAgain(list, id) == Repeated(list, id) /\ list[Len(list)] = id

(* removePublicKeysPatch walks the purpose lists once the key is found.    *)
SurelyPanics(patch) ==
  /\ Len(patch.ids) = 1
  /\ \E id \in RemovedIds(patch) :
       /\ \E list \in Walked(patch) : EndsAgain(list, id)
       /\ patch.action = "remove-public-keys" => id \in Range(doc.verificationMethod)

PanicsOnRepeats ==
  [][Apply =>
       LET patch == Head(todo) IN
       /\ status' = "panic" =>
            \E list \in Walked(patch), id \in RemovedIds(patch) : Repeated(list, id)
       /\ SurelyPanics(patch) => status' = "panic"]_vars
=============================================================================
