-------------------------- MODULE Manifest_proofs --------------------------
(***************************************************************************)
(* What the holder, the verifier and the issuer of presentation exchange   *)
(* guarantee, proved for every set of definitions, wallets, submissions,   *)
(* manifests and applications.                                             *)
(***************************************************************************)
EXTENDS Manifest, WellFoundedInduction, FiniteSetTheorems, TLAPS

(***************************************************************************)
(* Sequences whose elements are of no particular type.                     *)
(***************************************************************************)
LEMMA SequenceShape ==
  ASSUME NEW s, IsSequence(s)
  PROVE  /\ Len(s) \in Nat /\ DOMAIN s = 1..Len(s)
         /\ s # <<>> <=> Len(s) # 0
BY DEF IsSequence

LEMMA EmptySequence == IsSequence(<<>>) /\ Len(<<>>) = 0 /\ Range(<<>>) = {}
<1>1. Range(<<>>) = {}
  BY DEF Range
<1> QED
  BY <1>1 DEF IsSequence

LEMMA AppendSequence ==
  ASSUME NEW s, IsSequence(s), NEW e
  PROVE  /\ IsSequence(Append(s, e))
         /\ Len(Append(s, e)) = Len(s) + 1
         /\ \A k \in DOMAIN s : Append(s, e)[k] = s[k]
         /\ Append(s, e)[Len(s) + 1] = e
         /\ Range(Append(s, e)) = Range(s) \cup {e}
         /\ Append(s, e) # <<>>
<1> DEFINE T == Range(s) \cup {e}
           t == Append(s, e)
<1>1. s \in Seq(T) /\ e \in T
  BY DEF IsSequence
<1>2. /\ t \in Seq(T) /\ Len(t) = Len(s) + 1 /\ Len(s) \in Nat
      /\ DOMAIN t = 1..(Len(s) + 1) /\ DOMAIN s = 1..Len(s)
      /\ \A k \in DOMAIN s : t[k] = s[k]
      /\ t[Len(s) + 1] = e
  <2> HIDE DEF T
  <2> QED BY <1>1
<1>3. Range(t) = T
  <2>1. ASSUME NEW x \in T PROVE x \in Range(t)
    <3>1. CASE x = e
      BY <1>2, <3>1 DEF Range
    <3>2. CASE x \in Range(s)
      <4>1. PICK k \in DOMAIN s : x = s[k]
        BY <3>2 DEF Range
      <4>2. k \in DOMAIN t /\ t[k] = x
        BY <1>2, <4>1
      <4> QED BY <4>2 DEF Range
    <3> QED BY <3>1, <3>2
  <2>2. ASSUME NEW k \in DOMAIN t PROVE t[k] \in T
    <3> HIDE DEF T
    <3> QED BY <1>2
  <2> QED BY <2>1, <2>2 DEF Range
<1>4. IsSequence(t)
  BY <1>2, <1>3 DEF IsSequence
<1> QED
  BY <1>2, <1>3, <1>4

LEMMA DescriptorsAreSequence ==
  ASSUME NEW df \in Definitions
  PROVE  /\ IsSequence(df.descriptors)
         /\ Len(df.descriptors) \in Nat
         /\ DOMAIN df.descriptors = 1..Len(df.descriptors)
<1>1. IsSequence(df.descriptors)
  BY InputsAssumption
<1> QED
  BY <1>1, SequenceShape

LEMMA InputSequences ==
  ASSUME NEW df \in Definitions, NEW n \in DOMAIN df.descriptors
  PROVE  LET d == df.descriptors[n] IN
         /\ d.format = Nil \/ IsSequence(d.format)
         /\ d.constraints # Nil =>
              /\ IsSequence(d.constraints.fields)
              /\ \A k \in DOMAIN d.constraints.fields :
                   IsSequence(d.constraints.fields[k].path)
<1>1. df.descriptors[n] \in Range(df.descriptors)
  BY DEF Range
<1>2. ASSUME NEW f, NEW k \in DOMAIN f PROVE f[k] \in Range(f)
  BY DEF Range
<1> QED
  BY <1>1, <1>2, InputsAssumption

LEMMA LeastNatural ==
  ASSUME NEW T \in SUBSET Nat, NEW t \in T
  PROVE  \E x \in T : \A y \in T : x <= y
<1>1. PICK x \in T : \A y \in T : <<y, x>> \notin OpToRel(<, Nat)
  BY WFMin, NatLessThanWellFounded
<1>2. \A y \in T : ~(y < x)
  BY <1>1 DEF OpToRel
<1> QED
  BY <1>2

(* getDataFromJSONPath reads a path that matches as soon as there is one.  *)
LEMMA DataOfMatchingPath ==
  ASSUME NEW claim, NEW paths, IsSequence(paths)
  PROVE  /\ (\E k \in DOMAIN paths : Matches(claim, paths[k]))
              => \E k \in DOMAIN paths : /\ Matches(claim, paths[k])
                                         /\ getDataFromJSONPath(claim, paths) = claim.data[paths[k]]
                                         /\ getDataFromJSONPath(claim, paths) # Absent
         /\ getDataFromJSONPath(claim, paths) # Absent
              => \E k \in DOMAIN paths : Matches(claim, paths[k])
<1> DEFINE hits == {k \in DOMAIN paths : Matches(claim, paths[k])}
<1>1. hits \in SUBSET Nat
  BY SequenceShape
<1>2. ASSUME hits # {}
      PROVE  \E k \in hits : getDataFromJSONPath(claim, paths) = claim.data[paths[k]]
  <2>1. \E k \in hits : \A j \in hits : k <= j
    <3> HIDE DEF hits
    <3> QED BY <1>1, <1>2, LeastNatural
  <2>2. (CHOOSE k \in hits : \A j \in hits : k <= j) \in hits
    <3> HIDE DEF hits
    <3> QED BY <2>1
  <2> QED BY <1>2, <2>2 DEF getDataFromJSONPath
<1>3. ASSUME hits = {} PROVE getDataFromJSONPath(claim, paths) = Absent
  BY <1>3 DEF getDataFromJSONPath
<1>4. \A k \in hits : claim.data[paths[k]] # Absent
  BY DEF Matches
<1> QED
  BY <1>2, <1>3, <1>4

(***************************************************************************)
(* The verifiers' view of a submission v.  These are Entries, Entry, Claim *)
(* and the rest with the presentation as a parameter, so that they can be  *)
(* carried from a state to the next.                                       *)
(***************************************************************************)
EntriesIn(v, d)  == {k \in DOMAIN v.map : v.map[k].id = d.id}
EntryIn(v, d)    == v.map[CHOOSE k \in EntriesIn(v, d) : \A j \in EntriesIn(v, d) : j <= k]
ClaimIn(v, d)    == v.creds[EntryIn(v, d).index]
ReadableIn(v, d) ==
  /\ EntriesIn(v, d) # {}
  /\ d.format # Nil => EntryIn(v, d).format \in FormatValues(d.format)
  /\ ~EntryIn(v, d).nested
  /\ EntryIn(v, d).index \in DOMAIN v.creds
  /\ ~(ClaimIn(v, d).jwt /\ ClaimIn(v, d).presentation)
VerifiedIn(v, d) ==
  /\ ReadableIn(v, d)
  /\ d.constraints # Nil => VerifiedConstraints(ClaimIn(v, d), d)
FulfilledIn(v, d) ==
  /\ ReadableIn(v, d)
  /\ ClaimIn(v, d).valid /\ ~ClaimIn(v, d).presentation
  /\ d.constraints # Nil =>
       \A k \in DOMAIN d.constraints.fields :
         findMatchingPath(ClaimIn(v, d), d.constraints.fields[k].path)

ValidIn(v) ==
  /\ {"id", "descriptor_map"} \cap v.lacks = {} /\ v.definition # ""
  /\ \A k \in DOMAIN v.map : v.map[k].format \in ClaimFormats

LEMMA ViewOfSubmission ==
  ASSUME NEW d
  PROVE  /\ Claim(d) = ClaimIn(vp, d)
         /\ Verified(d) = VerifiedIn(vp, d)
         /\ Fulfilled(d) = FulfilledIn(vp, d)
<1>1. Entries(d) = EntriesIn(vp, d)
  BY DEF Entries, EntriesIn
<1>2. Entry(d) = EntryIn(vp, d)
  BY <1>1 DEF Entry, EntryIn
<1>3. Claim(d) = ClaimIn(vp, d)
  BY <1>2 DEF Claim, ClaimIn
<1>4. ClaimReadable(d) = ReadableIn(vp, d)
  BY <1>1, <1>2, <1>3 DEF ClaimReadable, ReadableIn
<1> QED
  BY <1>3, <1>4 DEF Verified, VerifiedIn, Fulfilled, FulfilledIn

(***************************************************************************)
(* The holder: what the submission it is building looks like.              *)
(***************************************************************************)
(* The claim c that was taken for descriptor d, of the wallet w.           *)
Selected(c, d, w) ==
  /\ c \in Range(w)
  /\ d.constraints # Nil
  /\ PassesFormat(c, d.format)
  /\ \A k \in DOMAIN d.constraints.fields :
       processInputDescriptorField(d.constraints.fields[k], c)

(* The path e of descriptor d leads to a credential with the id of c.      *)
Linked(v, e, c, d) ==
  /\ e.id = d.id /\ e.format = c.format /\ ~e.nested
  /\ e.index \in DOMAIN v.creds /\ v.creds[e.index].id = c.id

(* A presentation that the holder began for the definition df.             *)
Begun(v, df) ==
  v = [lacks |-> Missing(df), definition |-> df.id, creds |-> v.creds, map |-> v.map]

(* The submission v, the claims ch behind it and the seen claims sn agree. *)
Placed(v, w, ch, sn, df) ==
  /\ Begun(v, df)
  /\ IsSequence(v.creds) /\ Range(v.creds) \subseteq Range(w)
  /\ IsSequence(v.map) /\ Len(v.map) = Len(ch)
  /\ IsSequence(ch) /\ Len(ch) <= Len(df.descriptors)
  /\ IsFiniteSet(sn) /\ Cardinality(sn) = Len(v.creds)
  /\ \A s \in sn : /\ s = <<s[1], s[2]>>
                   /\ s[2] \in DOMAIN v.creds /\ v.creds[s[2]].id = s[1]
  /\ \A k \in DOMAIN ch : /\ Selected(ch[k], df.descriptors[k], w)
                          /\ Linked(v, v.map[k], ch[k], df.descriptors[k])

PlaceIn(sn, claim) ==
  LET before == {s \in sn : s[1] = claim.id} IN
  IF before # {} THEN [index |-> (CHOOSE s \in before : TRUE)[2], new |-> FALSE]
                 ELSE [index |-> Cardinality(sn) + 1, new |-> TRUE]

(* With index i for claim c the presentation has the credentials cs.       *)
PlacedAt(v, w, cs, i, sn, c) ==
  /\ IsSequence(cs) /\ Range(cs) \subseteq Range(w)
  /\ i \in DOMAIN cs /\ cs[i].id = c.id
  /\ \A k \in DOMAIN v.creds : k \in DOMAIN cs /\ cs[k] = v.creds[k]
  /\ IsFiniteSet(sn) /\ Cardinality(sn) = Len(cs)
  /\ \A s \in sn : s = <<s[1], s[2]>> /\ s[2] \in DOMAIN cs /\ cs[s[2]].id = s[1]

LEMMA PlaceFound ==
  ASSUME NEW v, NEW w, NEW ch, NEW sn, NEW df, NEW c \in Range(w),
         Placed(v, w, ch, sn, df)
  PROVE  PlacedAt(v, w, IF PlaceIn(sn, c).new THEN Append(v.creds, c) ELSE v.creds,
                  PlaceIn(sn, c).index, sn \cup {<<c.id, PlaceIn(sn, c).index>>}, c)
<1> DEFINE i   == PlaceIn(sn, c).index
           new == PlaceIn(sn, c).new
           cs  == IF new THEN Append(v.creds, c) ELSE v.creds
           sn2 == sn \cup {<<c.id, i>>}
           before == {s \in sn : s[1] = c.id}
<1> SUFFICES PlacedAt(v, w, cs, i, sn2, c)
  OBVIOUS
<1>1. /\ IsSequence(v.creds) /\ Range(v.creds) \subseteq Range(w)
      /\ IsFiniteSet(sn) /\ Cardinality(sn) = Len(v.creds)
      /\ \A s \in sn : s = <<s[1], s[2]>> /\ s[2] \in DOMAIN v.creds /\ v.creds[s[2]].id = s[1]
  BY DEF Placed
<1>2. CASE before # {}
  <2>1. PICK s \in before : i = s[2] /\ new = FALSE
    <3> DEFINE first == CHOOSE s \in before : TRUE
    <3>1. first \in before
      BY <1>2
    <3>2. PlaceIn(sn, c) = [index |-> first[2], new |-> FALSE]
      BY <1>2 DEF PlaceIn
    <3> HIDE DEF before, first
    <3> QED BY <3>1, <3>2
  <2>2. s \in sn /\ s[1] = c.id /\ s = <<c.id, i>>
    BY <1>1, <2>1
  <2>3. sn2 = sn /\ cs = v.creds
    BY <2>1, <2>2
  <2> HIDE DEF cs, sn2, i
  <2> QED BY <1>1, <2>2, <2>3 DEF PlacedAt
<1>3. CASE before = {}
  <2>1. i = Len(v.creds) + 1 /\ new = TRUE
    BY <1>1, <1>3 DEF PlaceIn
  <2>2. cs = Append(v.creds, c)
    BY <2>1
  <2>3. /\ IsSequence(cs) /\ Len(cs) = Len(v.creds) + 1
        /\ \A k \in DOMAIN v.creds : cs[k] = v.creds[k]
        /\ cs[i] = c /\ Range(cs) = Range(v.creds) \cup {c}
    BY <1>1, <2>1, <2>2, AppendSequence
  <2>4. /\ DOMAIN cs = 1..Len(cs) /\ DOMAIN v.creds = 1..Len(v.creds)
        /\ Len(v.creds) \in Nat
    BY <1>1, <2>3, SequenceShape
  <2>5. <<c.id, i>> \notin sn
    BY <1>3
  <2>6. IsFiniteSet(sn2) /\ Cardinality(sn2) = Cardinality(sn) + 1
    BY <1>1, <2>5, FS_AddElement
  <2> HIDE DEF cs, i
  <2>7. i \in DOMAIN cs
    BY <2>1, <2>3, <2>4
  <2>8. \A k \in DOMAIN v.creds : k \in DOMAIN cs /\ cs[k] = v.creds[k]
    BY <2>3, <2>4
  <2>9. ASSUME NEW s \in sn2
        PROVE  s = <<s[1], s[2]>> /\ s[2] \in DOMAIN cs /\ cs[s[2]].id = s[1]
    <3>1. CASE s \in sn
      BY <1>1, <2>8, <3>1
    <3>2. CASE s = <<c.id, i>>
      BY <2>3, <2>7, <3>2
    <3> QED BY <3>1, <3>2
  <2>10. Range(cs) \subseteq Range(w)
    BY <1>1, <2>3
  <2>11. Cardinality(sn2) = Len(cs)
    BY <1>1, <2>3, <2>6
  <2> HIDE DEF sn2
  <2> QED
    BY <2>3, <2>6, <2>7, <2>8, <2>9, <2>10, <2>11 DEF PlacedAt
<1> QED
  BY <1>2, <1>3

(* BuildDescriptor fills the next descriptor and leaves the others alone.  *)
LEMMA NextIsPlaced ==
  ASSUME NEW v, NEW w, NEW ch, NEW sn, NEW df, NEW c,
         Placed(v, w, ch, sn, df), IsSequence(df.descriptors),
         Len(ch) + 1 <= Len(df.descriptors),
         Selected(c, df.descriptors[Len(ch) + 1], w)
  PROVE  LET d == df.descriptors[Len(ch) + 1]
             p == PlaceIn(sn, c)
         IN  Placed([v EXCEPT
                       !.creds = IF p.new THEN Append(@, c) ELSE @,
                       !.map = Append(@, [id |-> d.id, format |-> c.format,
                                          index |-> p.index, nested |-> FALSE])],
                    w, Append(ch, c), sn \cup {<<c.id, p.index>>}, df)
<1> DEFINE d   == df.descriptors[Len(ch) + 1]
           i   == PlaceIn(sn, c).index
           new == PlaceIn(sn, c).new
           cs  == IF new THEN Append(v.creds, c) ELSE v.creds
           sn2 == sn \cup {<<c.id, i>>}
           e   == [id |-> d.id, format |-> c.format, index |-> i, nested |-> FALSE]
           m   == Append(v.map, e)
           ch2 == Append(ch, c)
           v2  == [lacks |-> Missing(df), definition |-> df.id, creds |-> cs, map |-> m]
<1>1. /\ Begun(v, df)
      /\ IsSequence(v.map) /\ Len(v.map) = Len(ch) /\ IsSequence(ch)
      /\ \A k \in DOMAIN ch : /\ Selected(ch[k], df.descriptors[k], w)
                              /\ Linked(v, v.map[k], ch[k], df.descriptors[k])
  BY DEF Placed
<1>2. [v EXCEPT !.creds = IF new THEN Append(@, c) ELSE @, !.map = Append(@, e)] = v2
  <2>1. [v EXCEPT !.creds = cs, !.map = m] = v2
    <3> HIDE DEF cs, m
    <3>1. /\ DOMAIN v = {"lacks", "definition", "creds", "map"} /\ v.definition = df.id
          /\ v.lacks = Missing(df)
      BY <1>1 DEF Begun
    <3>2. [v EXCEPT !.creds = cs, !.map = m]
            = [x \in DOMAIN v |-> IF x = "map" THEN m ELSE IF x = "creds" THEN cs ELSE v[x]]
      BY <3>1
    <3> QED BY <3>1, <3>2
  <2> QED BY <2>1
<1>3. PlacedAt(v, w, cs, i, sn2, c)
  <2>1. c \in Range(w)
    BY DEF Selected
  <2> QED BY <2>1, PlaceFound
<1>4. /\ IsSequence(m) /\ Len(m) = Len(ch) + 1
      /\ \A k \in DOMAIN v.map : m[k] = v.map[k]
      /\ m[Len(ch) + 1] = e
  <2> HIDE DEF e
  <2> QED BY <1>1, AppendSequence
<1>5. /\ IsSequence(ch2) /\ Len(ch2) = Len(ch) + 1
      /\ \A k \in DOMAIN ch : ch2[k] = ch[k]
      /\ ch2[Len(ch) + 1] = c
  BY <1>1, AppendSequence
<1>6. /\ DOMAIN ch = 1..Len(ch) /\ DOMAIN v.map = DOMAIN ch /\ Len(ch) \in Nat
      /\ DOMAIN ch2 = 1..(Len(ch) + 1)
  BY <1>1, <1>5, SequenceShape
<1>7. v2.creds = cs /\ v2.map = m
  OBVIOUS
<1> HIDE DEF v2, m, ch2, cs, sn2, i, new
<1>8. ASSUME NEW k \in DOMAIN ch2
      PROVE  Selected(ch2[k], df.descriptors[k], w) /\ Linked(v2, v2.map[k], ch2[k], df.descriptors[k])
  <2>1. CASE k \in DOMAIN ch
    <3>1. ch2[k] = ch[k] /\ m[k] = v.map[k]
      BY <1>4, <1>5, <1>6, <2>1
    <3>2. Selected(ch[k], df.descriptors[k], w) /\ Linked(v, v.map[k], ch[k], df.descriptors[k])
      BY <1>1, <2>1
    <3>3. Linked(v2, v.map[k], ch[k], df.descriptors[k])
      BY <1>3, <1>7, <3>2 DEF Linked, PlacedAt
    <3> QED BY <1>7, <3>1, <3>2, <3>3
  <2>2. CASE k = Len(ch) + 1
    <3>1. Linked(v2, e, c, d)
      BY <1>3, <1>7 DEF Linked, PlacedAt
    <3> QED BY <1>4, <1>5, <1>7, <2>2, <3>1
  <2> QED BY <1>6, <2>1, <2>2
<1>9. Begun(v2, df)
  BY <1>7 DEF v2, Begun
<1>10. Placed(v2, w, ch2, sn2, df)
  BY <1>3, <1>4, <1>5, <1>7, <1>8, <1>9 DEF Placed, PlacedAt
<1> QED
  BY <1>2, <1>10 DEF v2, m, ch2, cs, sn2, i, new

(***************************************************************************)
(* The inductive invariant, one part per side.                             *)
(***************************************************************************)
InputInv ==
  /\ def \in Definitions /\ at \in Nat \ {0}
  /\ claims \in Wallets \cup {<<>>}
  /\ Nil \notin Range(vp.creds)
  /\ phase \in {"normalize", "received"} => at = 1
  /\ phase \notin {"verify", "accepted", "rejected"} => results = <<>>

HolderInv ==
  /\ phase = "normalize" => chosen = <<>>
  /\ phase = "build" => def.supported /\ at = Len(chosen) + 1
  /\ phase \in {"received", "verify", "accepted", "rejected"} /\ chosen # <<>> =>
       def.supported /\ Len(chosen) = Len(def.descriptors)
  /\ phase \in {"normalize", "build"} \/ chosen # <<>> =>
       Placed(vp, claims, chosen, seen, def)

(* The first m descriptors passed, with the data res to show for it.       *)
Passed(v, ds, m) == m \in Nat /\ m <= Len(ds) /\ \A n \in 1..m : VerifiedIn(v, ds[n])
Reported(res, ds, m) ==
  /\ IsSequence(res)
  /\ \E of \in [DOMAIN res -> 1..m] :
       /\ \A j, k \in DOMAIN res : j < k => of[j] < of[k]
       /\ Range(of) = {n \in 1..m : ds[n].constraints # Nil}
       /\ \A k \in DOMAIN res :
            /\ res[k].id = ds[of[k]].id
            /\ res[k].claim = Nil => ds[of[k]].constraints.fields = <<>>

VerifierInv ==
  /\ phase = "verify" =>
       Passed(vp, def.descriptors, at - 1) /\ Reported(results, def.descriptors, at - 1)
  /\ phase = "accepted" =>
       /\ Passed(vp, def.descriptors, Len(def.descriptors))
       /\ Reported(results, def.descriptors, Len(def.descriptors))

(* The issuer's list: what it missed so far, and nothing else.             *)
Applied == {"apply", "application accepted", "application unfulfilled"}
Checks(v, ds, un, m) == \A n \in 1..m : n <= Len(ds) => FulfilledIn(v, ds[n]) \/ ds[n].id \in un
Listed(v, ds, un)    == \A x \in un : \E n \in DOMAIN ds : ds[n].id = x /\ ~FulfilledIn(v, ds[n])
Fits(v, df)          == /\ v.definition = df.id /\ ValidIn(v)
                        /\ \A n \in DOMAIN df.descriptors : df.descriptors[n].constraints # Nil

IssuerInv ==
  /\ phase \notin Applied => unfulfilled = {}
  /\ phase \in Applied => Listed(vp, def.descriptors, unfulfilled)
  /\ phase = "apply" => Fits(vp, def) /\ Checks(vp, def.descriptors, unfulfilled, at - 1)
  /\ phase = "application accepted" /\ issuance.manifest.asks =>
       Fits(vp, def) /\ \A n \in DOMAIN def.descriptors : FulfilledIn(vp, def.descriptors[n])

ExchangeInv == InputInv /\ HolderInv /\ VerifierInv /\ IssuerInv

LEMMA NothingPlaced ==
  ASSUME NEW df \in Definitions, NEW w
  PROVE  Placed([lacks |-> Missing(df), definition |-> df.id, creds |-> <<>>, map |-> <<>>], w, <<>>, {}, df)
<1>1. IsSequence(<<>>) /\ Len(<<>>) = 0 /\ Range(<<>>) = {} /\ DOMAIN <<>> = {}
  BY EmptySequence, SequenceShape
<1>2. IsFiniteSet({}) /\ Cardinality({}) = 0
  BY FS_EmptySet
<1>3. 0 <= Len(df.descriptors)
  BY DescriptorsAreSequence
<1> DEFINE v == [lacks |-> Missing(df), definition |-> df.id, creds |-> <<>>, map |-> <<>>]
<1>4. v.definition = df.id /\ v.creds = <<>> /\ v.map = <<>> /\ Begun(v, df)
  BY DEF Begun
<1> HIDE DEF v
<1>5. Placed(v, w, <<>>, {}, df)
  BY <1>1, <1>2, <1>3, <1>4 DEF Placed
<1> QED
  BY <1>5 DEF v

LEMMA NothingReported ==
  ASSUME NEW ds PROVE Reported(<<>>, ds, 0)
<1>1. IsSequence(<<>>) /\ DOMAIN <<>> = {}
  BY EmptySequence, SequenceShape
<1>2. <<>> \in [DOMAIN <<>> -> 1..0]
  BY <1>1
<1>3. Range(<<>>) = {n \in 1..0 : ds[n].constraints # Nil}
  BY EmptySequence
<1> QED
  BY <1>1, <1>2, <1>3 DEF Reported

LEMMA ExchangeInitially == ManifestInit => ExchangeInv
<1> SUFFICES ASSUME ManifestInit PROVE ExchangeInv
  OBVIOUS
<1> USE DEF ManifestInit, Init
<1>1. InputInv
  <2>1. Nil \notin Range(vp.creds)
    <3>1. CASE vp = [lacks |-> Missing(def), definition |-> def.id, creds |-> <<>>, map |-> <<>>]
      BY <3>1, EmptySequence
    <3>2. CASE vp \in Foreign
      BY <3>2, InputsAssumption
    <3> QED BY <3>1, <3>2
  <2> QED BY <2>1 DEF InputInv
<1>2. HolderInv
  BY NothingPlaced DEF HolderInv
<1>3. VerifierInv /\ IssuerInv
  BY DEF VerifierInv, IssuerInv, Applied
<1> QED
  BY <1>1, <1>2, <1>3 DEF ExchangeInv

(***************************************************************************)
(* The steps.                                                              *)
(***************************************************************************)
(* The first candidate of a descriptor is one.                             *)
LEMMA FirstCandidate ==
  ASSUME InputInv, phase = "build", NEW d, CanProcess(d), NEW n,
         n = CHOOSE m \in Candidates(d) : \A k \in Candidates(d) : m <= k
  PROVE  Selected(claims[n], d, claims)
<1>1. IsSequence(claims)
  BY InputsAssumption, EmptySequence DEF InputInv
<1>2. Candidates(d) \in SUBSET Nat /\ Candidates(d) # {}
  BY <1>1, SequenceShape DEF Candidates, CanProcess
<1>3. \E m \in Candidates(d) : \A k \in Candidates(d) : m <= k
  BY <1>2, LeastNatural
<1>4. n \in Candidates(d)
  BY <1>3
<1> QED
  BY <1>4 DEF Candidates, CanProcess, Selected, Range

LEMMA BuildStep ==
  ASSUME ExchangeInv, BuildDescriptor
  PROVE  InputInv' /\ HolderInv'
<1> USE DEF ExchangeInv
<1> DEFINE n == CHOOSE m \in Candidates(Descriptor) : \A k \in Candidates(Descriptor) : m <= k
<1>1. PICK c : c = claims[n]
  OBVIOUS
<1>2. PICK p : p = PlaceIn(seen, c)
  OBVIOUS
<1>3. /\ chosen' = Append(chosen, c)
      /\ seen' = seen \cup {<<c.id, p.index>>}
      /\ vp' = [vp EXCEPT
            !.creds = IF p.new THEN Append(@, c) ELSE @,
            !.map = Append(@, [id |-> Descriptor.id, format |-> c.format,
                               index |-> p.index, nested |-> FALSE])]
      /\ at' = at + 1
      /\ def' = def /\ claims' = claims /\ phase' = phase /\ results' = results
  <2>1. Place(c) = p
    BY <1>2 DEF Place, PlaceIn
  <2> QED BY <1>1, <2>1 DEF BuildDescriptor
<1>4. /\ phase = "build" /\ at <= Len(def.descriptors) /\ CanProcess(Descriptor)
      /\ def \in Definitions /\ at \in Nat /\ def.supported /\ at = Len(chosen) + 1
      /\ Placed(vp, claims, chosen, seen, def)
  BY DEF BuildDescriptor, InputInv, HolderInv
<1>5. Selected(c, Descriptor, claims)
  <2>1. PICK m : m = n
    OBVIOUS
  <2> QED BY <1>1, <1>4, <2>1, FirstCandidate
<1>6. Descriptor = def.descriptors[Len(chosen) + 1] /\ IsSequence(def.descriptors)
  BY <1>4, DescriptorsAreSequence DEF Descriptor
<1>7. Placed(vp', claims, Append(chosen, c), seen', def)
  <2>1. p.new = PlaceIn(seen, c).new /\ p.index = PlaceIn(seen, c).index
    BY <1>2
  <2> HIDE DEF n
  <2>2. vp' = [vp EXCEPT
            !.creds = IF PlaceIn(seen, c).new THEN Append(@, c) ELSE @,
            !.map = Append(@, [id |-> def.descriptors[Len(chosen) + 1].id, format |-> c.format,
                               index |-> PlaceIn(seen, c).index, nested |-> FALSE])]
    BY <1>3, <1>6, <2>1
  <2>3. seen' = seen \cup {<<c.id, PlaceIn(seen, c).index>>}
    BY <1>3, <2>1
  <2>4. Selected(c, def.descriptors[Len(chosen) + 1], claims)
    BY <1>5, <1>6
  <2>5. Len(chosen) + 1 <= Len(def.descriptors)
    BY <1>4
  <2> QED BY <1>4, <1>6, <2>2, <2>3, <2>4, <2>5, NextIsPlaced
<1>8. Nil \notin Range(vp'.creds)
  <2>1. Nil \notin Range(claims)
    BY InputsAssumption, EmptySequence DEF InputInv
  <2> QED BY <1>7, <2>1 DEF Placed
<1>9. InputInv'
  BY <1>3, <1>4, <1>8 DEF InputInv
<1>10. HolderInv'
  <2>1. Len(chosen') = Len(chosen) + 1
    BY <1>3, <1>4, AppendSequence DEF Placed
  <2> QED BY <1>3, <1>4, <1>7, <2>1 DEF HolderInv
<1> QED
  BY <1>9, <1>10

LEMMA VerifyStep ==
  ASSUME ExchangeInv, VerifyDescriptor
  PROVE  VerifierInv'
<1> USE DEF ExchangeInv
<1> DEFINE ds == def.descriptors
           m  == at - 1
<1>1. /\ phase = "verify" /\ at \in Nat \ {0} /\ at <= Len(ds)
      /\ def \in Definitions /\ Nil \notin Range(vp.creds)
      /\ Passed(vp, ds, m) /\ Reported(results, ds, m)
      /\ at' = at + 1 /\ def' = def /\ vp' = vp /\ phase' = phase
  BY DEF VerifyDescriptor, InputInv, VerifierInv
<1>2. Len(ds) \in Nat
  BY <1>1, DescriptorsAreSequence
<1>3. PICK d : d = ds[at]
  OBVIOUS
<1>4. VerifiedIn(vp, d)
  BY <1>3, ViewOfSubmission DEF VerifyDescriptor, Descriptor
<1>5. Passed(vp, ds, at)
  <2>1. 1..at = 1..m \cup {at} /\ at \in Nat
    BY <1>1
  <2> HIDE DEF m, ds
  <2> QED BY <1>1, <1>3, <1>4, <2>1 DEF Passed
<1>6. Reported(results', ds, at)
  <2>1. /\ m \in Nat /\ at = m + 1 /\ 1..at = 1..m \cup {at} /\ 1..m \subseteq 1..at
        /\ at \notin 1..m
    BY <1>1
  <2>2. IsSequence(results)
    BY <1>1 DEF Reported
  <2>3. PICK of \in [DOMAIN results -> 1..m] :
          /\ \A j, k \in DOMAIN results : j < k => of[j] < of[k]
          /\ Range(of) = {n \in 1..m : ds[n].constraints # Nil}
          /\ \A k \in DOMAIN results :
               /\ results[k].id = ds[of[k]].id
               /\ results[k].claim = Nil => ds[of[k]].constraints.fields = <<>>
    BY <1>1 DEF Reported
  <2> HIDE DEF m
  <2>4. CASE d.constraints = Nil
    <3>1. results' = results
      BY <1>3, <2>4 DEF VerifyDescriptor, Descriptor
    <3>2. of \in [DOMAIN results -> 1..at]
      BY <2>1, <2>3
    <3>3. {n \in 1..m : ds[n].constraints # Nil} = {n \in 1..at : ds[n].constraints # Nil}
      BY <1>3, <2>1, <2>4
    <3> HIDE DEF ds
    <3> QED BY <2>2, <2>3, <3>1, <3>2, <3>3 DEF Reported
  <2>5. CASE d.constraints # Nil
    <3>1. PICK e : e = Datum(d, ClaimIn(vp, d))
      OBVIOUS
    <3>2. results' = Append(results, e)
      <4>1. Claim(d) = ClaimIn(vp, d)
        BY ViewOfSubmission
      <4> QED BY <1>3, <2>5, <3>1, <4>1 DEF VerifyDescriptor, Descriptor
    <3>3. e.id = d.id /\ (e.claim = Nil => d.constraints.fields = <<>>)
      <4>1. ClaimIn(vp, d) \in Range(vp.creds)
        BY <1>4 DEF VerifiedIn, ReadableIn, ClaimIn, Range
      <4>2. ClaimIn(vp, d) # Nil
        BY <1>1, <4>1
      <4> QED BY <3>1, <4>2 DEF Datum
    <3> DEFINE L == Len(results) + 1
               g == [k \in DOMAIN results' |-> IF k = L THEN at ELSE of[k]]
    <3>4. /\ IsSequence(results') /\ results'[L] = e
          /\ \A k \in DOMAIN results : results'[k] = results[k]
          /\ DOMAIN results' = DOMAIN results \cup {L} /\ L \notin DOMAIN results
          /\ \A k \in DOMAIN results : k < L
      <4>1. /\ IsSequence(results') /\ results'[L] = e /\ Len(results') = L
            /\ \A k \in DOMAIN results : results'[k] = results[k]
        BY <2>2, <3>2, AppendSequence
      <4>2. DOMAIN results' = 1..L /\ DOMAIN results = 1..Len(results) /\ Len(results) \in Nat
        BY <2>2, <4>1, SequenceShape
      <4> QED BY <4>1, <4>2
    <3> HIDE DEF L, ds
    <3>5. g \in [DOMAIN results' -> 1..at]
      BY <2>1, <2>3, <3>4
    <3>6. /\ g[L] = at /\ \A k \in DOMAIN results : g[k] = of[k] /\ of[k] \in 1..m
      BY <2>3, <3>4
    <3> HIDE DEF g
    <3>7. ASSUME NEW j \in DOMAIN results', NEW k \in DOMAIN results', j < k PROVE g[j] < g[k]
      <4>1. j \in DOMAIN results
        BY <2>2, <3>4, <3>7, SequenceShape DEF L
      <4>2. CASE k \in DOMAIN results
        BY <2>3, <3>6, <3>7, <4>1, <4>2
      <4>3. CASE k = L
        BY <2>1, <3>6, <4>1, <4>3
      <4> QED BY <3>4, <4>2, <4>3
    <3>8. Range(g) = {n \in 1..at : ds[n].constraints # Nil}
      <4>1. Range(g) = Range(of) \cup {at}
        BY <2>3, <3>4, <3>5, <3>6 DEF Range
      <4> QED BY <1>3, <2>1, <2>3, <2>5, <4>1 DEF ds
    <3>9. ASSUME NEW k \in DOMAIN results'
          PROVE  /\ results'[k].id = ds[g[k]].id
                 /\ results'[k].claim = Nil => ds[g[k]].constraints.fields = <<>>
      <4>1. CASE k \in DOMAIN results
        BY <2>3, <3>4, <3>6, <4>1
      <4>2. CASE k = L
        BY <1>3, <3>3, <3>4, <3>6, <4>2
      <4> QED BY <3>4, <4>1, <4>2
    <3> QED BY <3>4, <3>5, <3>7, <3>8, <3>9 DEF Reported
  <2> QED BY <2>4, <2>5
<1>7. at' - 1 = at
  BY <1>1
<1> QED
  BY <1>1, <1>5, <1>6, <1>7 DEF VerifierInv

LEMMA CheckStep ==
  ASSUME ExchangeInv, CheckDescriptor
  PROVE  IssuerInv'
<1> USE DEF ExchangeInv
<1> DEFINE ds == def.descriptors
           m  == at - 1
<1>1. /\ phase = "apply" /\ at \in Nat \ {0} /\ at <= Len(ds)
      /\ def \in Definitions /\ Fits(vp, def)
      /\ Listed(vp, ds, unfulfilled) /\ Checks(vp, ds, unfulfilled, m)
      /\ at' = at + 1 /\ def' = def /\ vp' = vp /\ phase' = phase
  BY DEF CheckDescriptor, InputInv, IssuerInv, Applied
<1>2. DOMAIN ds = 1..Len(ds) /\ Len(ds) \in Nat
  BY <1>1, DescriptorsAreSequence
<1>3. PICK d : d = ds[at]
  OBVIOUS
<1>4. unfulfilled' = IF FulfilledIn(vp, d) THEN unfulfilled ELSE unfulfilled \cup {d.id}
  BY <1>3, ViewOfSubmission DEF CheckDescriptor, Descriptor
<1>5. 1..at = 1..m \cup {at} /\ at \in DOMAIN ds /\ at' - 1 = at
  BY <1>1, <1>2
<1> HIDE DEF m, ds
<1>6. Listed(vp, ds, unfulfilled')
  BY <1>1, <1>3, <1>4, <1>5 DEF Listed
<1>7. Checks(vp, ds, unfulfilled', at)
  BY <1>1, <1>3, <1>4, <1>5 DEF Checks
<1> QED
  BY <1>1, <1>5, <1>6, <1>7 DEF IssuerInv, Applied, ds

LEMMA ApplyStep ==
  ASSUME ExchangeInv, NEW cm \in Manifests, NEW ca \in Applications \cup {Nil}, Apply(cm, ca)
  PROVE  ExchangeInv'
<1> USE DEF ExchangeInv
<1>1. /\ phase = "received" /\ unfulfilled = {} /\ unfulfilled' = unfulfilled
      /\ phase' \in {"application refused", "apply", "application accepted"}
      /\ phase' = "apply" => Admitted(cm, ca) /\ cm.asks
      /\ phase' = "application accepted" => Admitted(cm, ca) /\ ~cm.asks
      /\ issuance'.manifest = cm
  <2>1. phase' = (CASE ~Admitted(cm, ca)           -> "application refused"
                    [] Admitted(cm, ca) /\ cm.asks -> "apply"
                    [] OTHER                       -> "application accepted")
    BY DEF Apply, Go
  <2>2. CASE ~Admitted(cm, ca)
    BY <2>1, <2>2 DEF Apply, Go, IssuerInv, Applied
  <2>3. CASE Admitted(cm, ca) /\ cm.asks
    BY <2>1, <2>3 DEF Apply, Go, IssuerInv, Applied
  <2>4. CASE Admitted(cm, ca) /\ ~cm.asks
    BY <2>1, <2>4 DEF Apply, Go, IssuerInv, Applied
  <2> QED BY <2>2, <2>3, <2>4
<1>2. at = 1 /\ UNCHANGED <<def, claims, at, seen, chosen, vp, results>>
  BY DEF Apply, Go, InputInv
<1>3. InputInv' /\ HolderInv' /\ VerifierInv'
  BY <1>1, <1>2 DEF InputInv, HolderInv, VerifierInv
<1>4. IssuerInv'
  <2>1. Listed(vp, def.descriptors, {}) /\ Checks(vp, def.descriptors, {}, 0)
    BY DEF Listed, Checks
  <2>2. phase' = "apply" => Fits(vp, def)
    BY <1>1 DEF Admitted, SubmissionFits, SubmissionValid, ValidIn, DefinitionValid, Fits
  <2>3. at' - 1 = 0
    BY <1>2
  <2> QED BY <1>1, <1>2, <2>1, <2>2, <2>3 DEF IssuerInv, Applied
<1> QED
  BY <1>3, <1>4

LEMMA ExchangeStep == ExchangeInv /\ [ManifestNext]_allVars => ExchangeInv'
<1> SUFFICES ASSUME ExchangeInv, [ManifestNext]_allVars PROVE ExchangeInv'
  OBVIOUS
<1> USE DEF ExchangeInv
<1> DEFINE Still == UNCHANGED <<issuance, unfulfilled>>
<1>1. CASE Normalize /\ Still
  <2>1. /\ UNCHANGED <<def, claims, at, seen, chosen, vp, results, unfulfilled>>
        /\ phase = "normalize" /\ phase' \in {"panic", "not built", "build"}
        /\ phase' = "build" => def.supported
    BY <1>1 DEF Normalize, Go
  <2>2. InputInv' /\ VerifierInv' /\ IssuerInv'
    BY <2>1 DEF InputInv, VerifierInv, IssuerInv, Applied
  <2>3. HolderInv'
    <3>1. at = 1 /\ chosen = <<>> /\ Placed(vp, claims, chosen, seen, def)
      BY <2>1 DEF HolderInv, InputInv
    <3>2. at = Len(chosen) + 1
      BY <3>1, EmptySequence
    <3> QED BY <2>1, <3>1, <3>2 DEF HolderInv
  <2> QED BY <2>2, <2>3
<1>2. CASE BuildFails /\ Still
  BY <1>2 DEF BuildFails, Go, InputInv, HolderInv, VerifierInv, IssuerInv, Applied
<1>3. CASE BuildDescriptor /\ Still
  <2>1. phase = "build" /\ phase' = phase /\ unfulfilled' = unfulfilled
    BY <1>3 DEF BuildDescriptor
  <2> QED BY <1>3, <2>1, BuildStep DEF VerifierInv, IssuerInv, Applied
<1>4. CASE Submit /\ Still
  <2>1. /\ UNCHANGED <<def, claims, seen, chosen, vp, results, unfulfilled>>
        /\ phase = "build" /\ at > Len(def.descriptors) /\ phase' = "received" /\ at' = 1
    BY <1>4 DEF Submit
  <2>2. InputInv' /\ VerifierInv' /\ IssuerInv'
    BY <2>1 DEF InputInv, VerifierInv, IssuerInv, Applied
  <2>3. HolderInv'
    <3>1. Len(chosen) = Len(def.descriptors)
      <4>1. /\ at = Len(chosen) + 1 /\ Len(chosen) <= Len(def.descriptors)
            /\ IsSequence(chosen)
        BY <2>1 DEF HolderInv, Placed
      <4>2. Len(chosen) \in Nat /\ Len(def.descriptors) \in Nat
        BY <4>1, SequenceShape, DescriptorsAreSequence DEF InputInv
      <4> QED BY <2>1, <4>1, <4>2
    <3> QED BY <2>1, <3>1 DEF HolderInv
  <2> QED BY <2>2, <2>3
<1>5. CASE Receive /\ Still
  <2>1. /\ UNCHANGED <<def, claims, at, seen, chosen, vp, results, unfulfilled>>
        /\ phase = "received" /\ phase' \in {"verify", "rejected"}
        /\ at = 1 /\ results = <<>> /\ def \in Definitions
    BY <1>5 DEF Receive, Go, InputInv
  <2>2. InputInv' /\ HolderInv' /\ IssuerInv'
    BY <2>1 DEF InputInv, HolderInv, IssuerInv, Applied
  <2>3. VerifierInv'
    <3>1. Passed(vp, def.descriptors, 0)
      BY <2>1, DescriptorsAreSequence DEF Passed
    <3>2. at' - 1 = 0
      BY <2>1
    <3> QED BY <2>1, <3>1, <3>2, NothingReported DEF VerifierInv
  <2> QED BY <2>2, <2>3
<1>6. CASE VerifyFails /\ Still
  BY <1>6 DEF VerifyFails, Go, InputInv, HolderInv, VerifierInv, IssuerInv, Applied
<1>7. CASE VerifyDescriptor /\ Still
  <2>1. /\ UNCHANGED <<def, claims, phase, seen, chosen, vp, unfulfilled>>
        /\ phase = "verify" /\ at' = at + 1
    BY <1>7 DEF VerifyDescriptor
  <2>2. InputInv' /\ HolderInv' /\ IssuerInv'
    BY <2>1 DEF InputInv, HolderInv, IssuerInv, Applied
  <2> QED BY <1>7, <2>2, VerifyStep
<1>8. CASE Accept /\ Still
  <2>1. /\ UNCHANGED <<def, claims, at, seen, chosen, vp, results, unfulfilled>>
        /\ phase = "verify" /\ phase' = "accepted" /\ at > Len(def.descriptors)
    BY <1>8 DEF Accept, Go
  <2>2. InputInv' /\ HolderInv' /\ IssuerInv'
    BY <2>1 DEF InputInv, HolderInv, IssuerInv, Applied
  <2>3. VerifierInv'
    <3>1. at - 1 <= Len(def.descriptors) /\ at \in Nat /\ Len(def.descriptors) \in Nat
      BY <2>1, DescriptorsAreSequence DEF VerifierInv, Passed, InputInv
    <3>2. at - 1 = Len(def.descriptors)
      BY <2>1, <3>1
    <3> QED BY <2>1, <3>2 DEF VerifierInv
  <2> QED BY <2>2, <2>3
<1>9. ASSUME NEW cm \in Manifests, NEW ca \in Applications \cup {Nil}, Apply(cm, ca)
      PROVE  ExchangeInv'
  BY <1>9, ApplyStep
<1>10. CASE CheckDescriptor
  <2>1. /\ UNCHANGED <<def, claims, phase, seen, chosen, vp, results>>
        /\ phase = "apply" /\ at' = at + 1
    BY <1>10 DEF CheckDescriptor
  <2>2. InputInv' /\ HolderInv' /\ VerifierInv'
    BY <2>1 DEF InputInv, HolderInv, VerifierInv
  <2> QED BY <1>10, <2>2, CheckStep
<1>11. CASE Decide
  <2>1. /\ UNCHANGED <<def, claims, at, seen, chosen, vp, results, issuance, unfulfilled>>
        /\ phase = "apply" /\ at > Len(def.descriptors)
        /\ phase' = IF unfulfilled = {} THEN "application accepted" ELSE "application unfulfilled"
    BY <1>11 DEF Decide, Go
  <2>2. InputInv' /\ HolderInv' /\ VerifierInv'
    BY <2>1 DEF InputInv, HolderInv, VerifierInv
  <2>3. ASSUME unfulfilled = {}, NEW n \in DOMAIN def.descriptors
        PROVE  FulfilledIn(vp, def.descriptors[n])
    <3>1. /\ at \in Nat /\ Len(def.descriptors) \in Nat
          /\ DOMAIN def.descriptors = 1..Len(def.descriptors)
      BY DescriptorsAreSequence DEF InputInv
    <3>2. n \in 1..Len(def.descriptors)
      BY <3>1
    <3>3. at > Len(def.descriptors)
      BY <2>1
    <3>4. n \in 1..(at - 1) /\ n <= Len(def.descriptors)
      BY <3>1, <3>2, <3>3
    <3> QED BY <2>1, <2>3, <3>4 DEF IssuerInv, Checks
  <2>4. IssuerInv'
    BY <2>1, <2>3 DEF IssuerInv, Applied
  <2> QED BY <2>2, <2>4
<1>12. CASE UNCHANGED allVars
  BY <1>12, ZenonT(30) DEF allVars, vars, InputInv, HolderInv, VerifierInv, IssuerInv, Applied
<1> QED
  BY <1>1, <1>2, <1>3, <1>4, <1>5, <1>6, <1>7, <1>8, <1>9, <1>10, <1>11, <1>12
     DEF ManifestNext, Next

(* The parts of the invariant hold together whichever of the two calls     *)
(* runs: BuildPresentationSubmission and VerifyPresentationSubmissionVP,   *)
(* or IsValidCredentialApplicationForManifest on what someone else sent.   *)
THEOREM ExchangeInvariant == ManifestSpec => []ExchangeInv
BY ExchangeInitially, ExchangeStep, PTL DEF ManifestSpec

(***************************************************************************)
(* What holds of every definition and every wallet.                        *)
(***************************************************************************)
(* AcceptedIsFulfilled for every definition and submission: a submission   *)
(* VerifyPresentationSubmissionVP accepts has, for each descriptor with    *)
(* constraints, a claim with every required field on one of its paths, of  *)
(* a value its filter accepts.                                             *)
THEOREM AcceptedSubmissionsFulfil == ManifestSpec => []AcceptedIsFulfilled
<1>1. ExchangeInv => AcceptedIsFulfilled
  <2> SUFFICES ASSUME ExchangeInv, phase = "accepted",
                      NEW n \in DOMAIN def.descriptors, NEW d, d = def.descriptors[n],
                      d.constraints # Nil
               PROVE  \E claim \in Range(vp.creds) :
                        /\ d.constraints.subjectIsIssuer = "required" => claim.selfIssued
                        /\ \A k \in DOMAIN d.constraints.fields :
                             ~d.constraints.fields[k].optional =>
                               \E path \in Range(d.constraints.fields[k].path) :
                                 /\ Matches(claim, path)
                                 /\ d.constraints.fields[k].filter # Nil =>
                                      claim.data[path] \in d.constraints.fields[k].filter
    BY DEF AcceptedIsFulfilled
  <2>1. def \in Definitions /\ DOMAIN def.descriptors = 1..Len(def.descriptors)
    BY DescriptorsAreSequence DEF ExchangeInv, InputInv
  <2>2. VerifiedIn(vp, d)
    BY <2>1 DEF ExchangeInv, VerifierInv, Passed
  <2>3. PICK claim : claim = ClaimIn(vp, d)
    OBVIOUS
  <2>4. claim \in Range(vp.creds) /\ VerifiedConstraints(claim, d)
    BY <2>2, <2>3 DEF VerifiedIn, ReadableIn, ClaimIn, Range
  <2>5. ASSUME NEW k \in DOMAIN d.constraints.fields, NEW f, f = d.constraints.fields[k],
               ~f.optional
        PROVE  \E path \in Range(f.path) :
                 Matches(claim, path) /\ (f.filter # Nil => claim.data[path] \in f.filter)
    <3>1. IsSequence(f.path)
      BY <2>1, <2>5, InputSequences
    <3>2. /\ getDataFromJSONPath(claim, f.path) # Absent
          /\ f.filter # Nil => getDataFromJSONPath(claim, f.path) \in f.filter
      BY <2>4, <2>5 DEF VerifiedConstraints, FieldVerified
    <3>3. PICK j \in DOMAIN f.path : /\ Matches(claim, f.path[j])
                                     /\ getDataFromJSONPath(claim, f.path) = claim.data[f.path[j]]
      BY <3>1, <3>2, DataOfMatchingPath
    <3>4. f.path[j] \in Range(f.path)
      BY DEF Range
    <3> QED BY <3>2, <3>3, <3>4
  <2> QED BY <2>4, <2>5 DEF VerifiedConstraints
<1> QED
  BY <1>1, ExchangeInvariant, PTL

(* ResultsMatchDefinition for every definition: one datum per descriptor   *)
(* with constraints, in order, and none without a claim unless there was   *)
(* no field to look at.                                                    *)
THEOREM ResultsFollowDefinition == ManifestSpec => []ResultsMatchDefinition
<1>1. ExchangeInv => ResultsMatchDefinition
  <2> SUFFICES ASSUME ExchangeInv, phase = "accepted" PROVE ResultsMatchDefinition
    BY DEF ResultsMatchDefinition
  <2>1. DOMAIN def.descriptors = 1..Len(def.descriptors)
    BY DescriptorsAreSequence DEF ExchangeInv, InputInv
  <2>2. Reported(results, def.descriptors, Len(def.descriptors))
    BY DEF ExchangeInv, VerifierInv
  <2> QED BY <2>1, <2>2 DEF Reported, ResultsMatchDefinition
<1> QED
  BY <1>1, ExchangeInvariant, PTL

(* While it builds and afterwards, every claim the holder took is one of   *)
(* its wallet, for a descriptor of the definition.                         *)
LEMMA BuiltIsPlaced ==
  ASSUME ExchangeInv, Built
  PROVE  /\ Placed(vp, claims, chosen, seen, def) /\ def \in Definitions
         /\ DOMAIN chosen \subseteq DOMAIN def.descriptors
<1>1. Placed(vp, claims, chosen, seen, def) /\ def \in Definitions
  BY DEF ExchangeInv, InputInv, HolderInv, Built
<1>2. Len(chosen) <= Len(def.descriptors) /\ DOMAIN chosen = 1..Len(chosen) /\ Len(chosen) \in Nat
  BY <1>1, SequenceShape DEF Placed
<1>3. DOMAIN def.descriptors = 1..Len(def.descriptors) /\ Len(def.descriptors) \in Nat
  BY <1>1, DescriptorsAreSequence
<1> QED
  BY <1>1, <1>2, <1>3

(***************************************************************************)
(* What depends on the ids.  A claim without an id has the id "", so       *)
(* IdsNameClaims leaves out the wallets with two of them.  The builder's   *)
(* SetInputDescriptors refuses two descriptors with one id; a definition   *)
(* that was received may have them, and neither verifier looks.            *)
(***************************************************************************)
(* Claims of a wallet with one id are one claim.                           *)
IdsNameClaims ==
  \A w \in Wallets : \A m, n \in DOMAIN w : w[m].id = w[n].id => w[m] = w[n]

(* Descriptors of a definition with one id are one descriptor.             *)
IdsNameDescriptors ==
  \A df \in Definitions : \A m, n \in DOMAIN df.descriptors :
    df.descriptors[m].id = df.descriptors[n].id => m = n

LEMMA LinkedClaim ==
  ASSUME IdsNameClaims, ExchangeInv, Built, NEW k \in DOMAIN chosen
  PROVE  vp.creds[vp.map[k].index] = chosen[k]
<1>1. /\ Range(vp.creds) \subseteq Range(claims) /\ chosen[k] \in Range(claims)
      /\ Linked(vp, vp.map[k], chosen[k], def.descriptors[k])
  BY BuiltIsPlaced DEF Placed, Selected
<1>2. PICK c : c = vp.creds[vp.map[k].index]
  OBVIOUS
<1>3. c \in Range(claims) /\ c.id = chosen[k].id
  BY <1>1, <1>2 DEF Linked, Range
<1>4. claims \in Wallets
  <2>1. claims # <<>>
    BY <1>1, EmptySequence
  <2> QED BY <2>1 DEF ExchangeInv, InputInv
<1>5. PICK m \in DOMAIN claims, n \in DOMAIN claims : claims[m] = c /\ claims[n] = chosen[k]
  BY <1>1, <1>3 DEF Range
<1> QED
  BY <1>2, <1>3, <1>4, <1>5 DEF IdsNameClaims

(* PathLeadsToClaim for every definition, and every wallet whose ids name  *)
(* its claims: seenClaims shares a path only between descriptors that the  *)
(* same claim fulfils.                                                     *)
THEOREM PathsLeadToClaims ==
  ASSUME IdsNameClaims PROVE ManifestSpec => []PathLeadsToClaim
<1>1. ExchangeInv => PathLeadsToClaim
  BY LinkedClaim DEF PathLeadsToClaim
<1> QED
  BY <1>1, ExchangeInvariant, PTL

(* The value that is found for the field in claim c fails its filter.      *)
FilteredOut(c, field) ==
  /\ field.filter # Nil /\ ~field.optional
  /\ getDataFromJSONPath(c, field.path) \notin field.filter

(* A reason not to fulfil d with claim c that the holder does not look at. *)
Overlooked(c, d) ==
  \/ c.presentation
  \/ c.format \notin ClaimFormats
  \/ d.constraints.subjectIsIssuer = "required" /\ ~c.selfIssued
  \/ \E n \in DOMAIN d.constraints.fields : FilteredOut(c, d.constraints.fields[n])

(* A field the holder found is one the verifier finds, but for the filter. *)
LEMMA FieldFound ==
  ASSUME NEW c, NEW field, IsSequence(field.path), processInputDescriptorField(field, c),
         ~FilteredOut(c, field)
  PROVE  FieldVerified(c, field)
BY DataOfMatchingPath DEF processInputDescriptorField, FieldVerified, FilteredOut

LEMMA PlacedIsVerified ==
  ASSUME IdsNameClaims, IdsNameDescriptors, ExchangeInv, Built,
         Len(chosen) = Len(def.descriptors), NEW k \in DOMAIN chosen,
         ~Overlooked(chosen[k], def.descriptors[k])
  PROVE  VerifiedIn(vp, def.descriptors[k])
<1> DEFINE d == def.descriptors[k]
<1>1. /\ def \in Definitions /\ IsSequence(chosen) /\ IsSequence(vp.map)
      /\ Len(vp.map) = Len(chosen) /\ k \in DOMAIN def.descriptors
  BY BuiltIsPlaced DEF Placed
<1>2. /\ Selected(chosen[k], d, claims)
      /\ \A j \in DOMAIN chosen : Linked(vp, vp.map[j], chosen[j], def.descriptors[j])
  BY BuiltIsPlaced DEF Placed
<1>3. /\ DOMAIN vp.map = DOMAIN chosen /\ DOMAIN chosen \subseteq DOMAIN def.descriptors
      /\ DOMAIN chosen \subseteq Nat
  BY <1>1, SequenceShape, BuiltIsPlaced
<1>4. EntriesIn(vp, d) = {k}
  BY <1>1, <1>2, <1>3 DEF IdsNameDescriptors, EntriesIn, Linked
<1>5. EntryIn(vp, d) = vp.map[k]
  <2>1. (CHOOSE i \in {k} : \A j \in {k} : j <= i) = k
    BY <1>3
  <2> QED BY <1>4, <2>1 DEF EntryIn
<1>6. ClaimIn(vp, d) = chosen[k]
  BY <1>5, LinkedClaim DEF ClaimIn
<1>7. ReadableIn(vp, d)
  <2>1. d.format # Nil => chosen[k].format \in FormatValues(d.format)
    BY <1>2 DEF Selected, PassesFormat
  <2> QED BY <1>2, <1>4, <1>5, <1>6, <2>1 DEF ReadableIn, Linked, Overlooked
<1>8. VerifiedConstraints(chosen[k], d)
  <2>1. ASSUME NEW j \in DOMAIN d.constraints.fields
        PROVE  FieldVerified(chosen[k], d.constraints.fields[j])
    <3>1. IsSequence(d.constraints.fields[j].path)
      BY <1>1, <1>2, <2>1, InputSequences DEF Selected
    <3> HIDE DEF d
    <3> QED BY <1>2, <2>1, <3>1, FieldFound DEF Selected, Overlooked, d
  <2> QED BY <2>1 DEF VerifiedConstraints, Overlooked
<1> QED
  BY <1>6, <1>7, <1>8 DEF VerifiedIn

RefusalInv ==
  phase = "rejected" /\ chosen # <<>> =>
    def.id = "" \/ \E k \in DOMAIN chosen : Overlooked(chosen[k], def.descriptors[k])

LEMMA RefusalStep ==
  ASSUME IdsNameClaims, IdsNameDescriptors, ExchangeInv, RefusalInv, [ManifestNext]_allVars
  PROVE  RefusalInv'
<1>1. CASE Receive
  <2> SUFFICES ASSUME chosen # <<>>, def.id # "", phase' = "rejected"
               PROVE  \E k \in DOMAIN chosen : Overlooked(chosen[k], def.descriptors[k])
    BY <1>1 DEF Receive, Go, RefusalInv
  <2>1. /\ phase = "received" /\ def.supported /\ Len(chosen) = Len(def.descriptors)
        /\ Placed(vp, claims, chosen, seen, def) /\ def \in Definitions
    BY <1>1 DEF Receive, ExchangeInv, InputInv, HolderInv
  <2>2. IsSequence(chosen) /\ IsSequence(vp.map) /\ Len(vp.map) = Len(chosen)
    BY <2>1 DEF Placed
  <2>3. DOMAIN vp.map = DOMAIN chosen /\ def.descriptors # <<>>
    BY <2>1, <2>2, SequenceShape, DescriptorsAreSequence
  <2>4. vp.lacks = {} /\ vp.definition = def.id
    <3>1. Missing(def) = {}
      BY <2>3 DEF Missing
    <3>2. Begun(vp, def)
      BY <2>1 DEF Placed
    <3>3. PICK cs, m : vp = [lacks |-> Missing(def), definition |-> def.id, creds |-> cs, map |-> m]
      BY <3>2 DEF Begun
    <3> QED BY <3>1, <3>3
  <2>5. PICK k \in DOMAIN vp.map : vp.map[k].format \notin ClaimFormats
    BY <1>1, <2>1, <2>4 DEF Receive, Go, SubmissionValid
  <2>6. vp.map[k].format = chosen[k].format
    BY <2>1, <2>3, <2>5 DEF Placed, Linked
  <2> QED BY <2>3, <2>5, <2>6 DEF Overlooked
<1>2. CASE VerifyFails
  <2> SUFFICES ASSUME chosen # <<>>
               PROVE  \E k \in DOMAIN chosen : Overlooked(chosen[k], def.descriptors[k])
    BY <1>2 DEF VerifyFails, Go, RefusalInv
  <2>1. Built /\ Len(chosen) = Len(def.descriptors)
    BY <1>2 DEF VerifyFails, Built, ExchangeInv, HolderInv
  <2>2. at \in DOMAIN chosen
    <3>1. IsSequence(chosen) /\ at \in Nat \ {0} /\ at <= Len(chosen)
      BY <1>2, <2>1, BuiltIsPlaced DEF VerifyFails, Placed, ExchangeInv, InputInv
    <3> QED BY <3>1, SequenceShape
  <2>3. PICK k \in DOMAIN chosen : k = at
    BY <2>2
  <2>4. ~VerifiedIn(vp, def.descriptors[k])
    BY <1>2, <2>3, ViewOfSubmission DEF VerifyFails, Descriptor
  <2> QED BY <2>1, <2>4, PlacedIsVerified
<1>3. ASSUME NEW cm, NEW ca, Apply(cm, ca) PROVE RefusalInv'
  <2>1. phase' \in {"application refused", "apply", "application accepted"}
    BY <1>3 DEF Apply, Go
  <2> QED BY <2>1 DEF RefusalInv
<1>4. CASE BuildDescriptor \/ VerifyDescriptor
  BY <1>4 DEF BuildDescriptor, VerifyDescriptor, RefusalInv
<1>5. CASE Normalize \/ BuildFails \/ Submit \/ Accept \/ CheckDescriptor \/ Decide
  BY <1>5 DEF Normalize, BuildFails, Submit, Accept, CheckDescriptor, Decide, Go, RefusalInv
<1>6. CASE UNCHANGED allVars
  BY <1>6 DEF allVars, vars, RefusalInv
<1> QED
  BY <1>1, <1>2, <1>3, <1>4, <1>5, <1>6 DEF ManifestNext, Next

(* RefusedForAReason for every definition whose ids name its descriptors   *)
(* and every wallet whose ids name its claims: the verifier refuses what   *)
(* the holder built for a value its filter refuses, a subject that is not  *)
(* the issuer, a presentation, a format outside the registry or a          *)
(* definition without an id, and for nothing else.                         *)
THEOREM RefusalsHaveAReason ==
  ASSUME IdsNameClaims, IdsNameDescriptors PROVE ManifestSpec => []RefusedForAReason
<1>1. ManifestInit => RefusalInv
  BY DEF ManifestInit, Init, RefusalInv
<1>2. RefusalInv => RefusedForAReason
  BY DEF RefusalInv, RefusedForAReason, Overlooked, FilteredOut
<1> QED
  BY <1>1, <1>2, RefusalStep, ExchangeInvariant, PTL DEF ManifestSpec

(***************************************************************************)
(* The two verifiers.                                                      *)
(***************************************************************************)
(* What the issuer finds fulfilled and the verifier does not.              *)
LEMMA IssuerIsLenient ==
  ASSUME NEW df \in Definitions, NEW n \in DOMAIN df.descriptors, NEW v,
         NEW d, d = df.descriptors[n],
         d.constraints # Nil, FulfilledIn(v, d), ~VerifiedIn(v, d)
  PROVE  \/ d.constraints.subjectIsIssuer = "required" /\ ~ClaimIn(v, d).selfIssued
         \/ \E f \in Range(d.constraints.fields) : FilteredOut(ClaimIn(v, d), f)
<1>1. ~VerifiedConstraints(ClaimIn(v, d), d)
  BY DEF FulfilledIn, VerifiedIn
<1>2. ASSUME NEW k \in DOMAIN d.constraints.fields,
             NEW f, f = d.constraints.fields[k], ~FieldVerified(ClaimIn(v, d), f)
      PROVE  f \in Range(d.constraints.fields) /\ FilteredOut(ClaimIn(v, d), f)
  <2>1. IsSequence(f.path)
    BY <1>2, InputSequences
  <2>2. findMatchingPath(ClaimIn(v, d), f.path)
    BY <1>2 DEF FulfilledIn
  <2>3. getDataFromJSONPath(ClaimIn(v, d), f.path) # Absent
    BY <2>1, <2>2, DataOfMatchingPath DEF findMatchingPath
  <2> QED BY <1>2, <2>3 DEF FieldVerified, FilteredOut, Range
<1> QED
  BY <1>1, <1>2 DEF VerifiedConstraints

(* What the verifier finds fulfilled and the issuer does not.              *)
LEMMA IssuerIsStrict ==
  ASSUME NEW df \in Definitions, NEW n \in DOMAIN df.descriptors, NEW v,
         NEW d, d = df.descriptors[n],
         VerifiedIn(v, d), ~FulfilledIn(v, d),
         ClaimIn(v, d).valid, ~ClaimIn(v, d).presentation
  PROVE  \E f \in Range(d.constraints.fields) :
           f.optional /\ \A p \in Range(f.path) : ~Matches(ClaimIn(v, d), p)
<1>1. PICK k \in DOMAIN d.constraints.fields :
        ~findMatchingPath(ClaimIn(v, d), d.constraints.fields[k].path)
  BY DEF FulfilledIn, VerifiedIn
<1>2. d.constraints # Nil
  BY DEF FulfilledIn, VerifiedIn
<1>3. PICK f : f = d.constraints.fields[k]
  OBVIOUS
<1>4. FieldVerified(ClaimIn(v, d), f) /\ f \in Range(d.constraints.fields)
  BY <1>2, <1>3 DEF VerifiedIn, VerifiedConstraints, Range
<1>5. \A p \in Range(f.path) : ~Matches(ClaimIn(v, d), p)
  BY <1>1, <1>3 DEF findMatchingPath, Range
<1>6. IsSequence(f.path)
  BY <1>2, <1>3, InputSequences
<1>7. f.optional
  BY <1>1, <1>3, <1>4, <1>6, DataOfMatchingPath DEF FieldVerified, findMatchingPath
<1> QED
  BY <1>4, <1>5, <1>7

(* VerifiersDifferKnowingly for every manifest and application, and every  *)
(* definition whose ids name its descriptors: the list of unfulfilled      *)
(* descriptors is one of ids, so without that a fulfilled descriptor can   *)
(* be on it.                                                               *)
THEOREM VerifiersDiffer ==
  ASSUME IdsNameDescriptors PROVE ManifestSpec => []VerifiersDifferKnowingly
<1>1. ASSUME ExchangeInv, phase = "application accepted", issuance.manifest.asks,
             ~VerifierAccepts, def.supported
      PROVE  \E n \in DOMAIN def.descriptors :
               \/ /\ def.descriptors[n].constraints.subjectIsIssuer = "required"
                  /\ ~Claim(def.descriptors[n]).selfIssued
               \/ \E f \in Fields(n) : FilteredOut(Claim(def.descriptors[n]), f)
  <2>1. /\ def \in Definitions /\ Fits(vp, def)
        /\ \A n \in DOMAIN def.descriptors : FulfilledIn(vp, def.descriptors[n])
    BY <1>1 DEF ExchangeInv, InputInv, IssuerInv
  <2>2. PICK n \in DOMAIN def.descriptors : ~VerifiedIn(vp, def.descriptors[n])
    BY <1>1, <2>1, ViewOfSubmission DEF VerifierAccepts, SubmissionValid, ValidIn, Fits
  <2>3. Claim(def.descriptors[n]) = ClaimIn(vp, def.descriptors[n])
    BY ViewOfSubmission
  <2> QED BY <2>1, <2>2, <2>3, IssuerIsLenient DEF Fits, Fields
<1>2. ASSUME ExchangeInv, phase = "application unfulfilled",
             NEW n \in DOMAIN def.descriptors, NEW d, d = def.descriptors[n],
             d.id \in unfulfilled, Verified(d), Claim(d).valid, ~Claim(d).presentation
      PROVE  \E f \in Fields(n) : f.optional /\ \A p \in Range(f.path) : ~Matches(Claim(d), p)
  <2>1. def \in Definitions /\ Listed(vp, def.descriptors, unfulfilled)
    BY <1>2 DEF ExchangeInv, InputInv, IssuerInv, Applied
  <2>2. PICK m \in DOMAIN def.descriptors : /\ def.descriptors[m].id = d.id
                                            /\ ~FulfilledIn(vp, def.descriptors[m])
    BY <1>2, <2>1 DEF Listed
  <2>3. ~FulfilledIn(vp, d)
    BY <1>2, <2>1, <2>2 DEF IdsNameDescriptors
  <2>4. VerifiedIn(vp, d) /\ Claim(d) = ClaimIn(vp, d)
    BY <1>2, ViewOfSubmission
  <2> QED BY <1>2, <2>1, <2>3, <2>4, IssuerIsStrict DEF Fields
<1>3. ExchangeInv => VerifiersDifferKnowingly
  BY <1>1, <1>2 DEF VerifiersDifferKnowingly, FilteredOut
<1> QED
  BY <1>3, ExchangeInvariant, PTL
=============================================================================
