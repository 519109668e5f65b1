------------------------ MODULE IonDocument_proofs ------------------------
(***************************************************************************)
(* The loops of PatchesToDIDDocument over shrinking slices do what the set *)
(* semantics of IonDocumentAbs says until a patch introduces an id twice,  *)
(* and panic for repeated ids only; proved for every set of documents and  *)
(* state changes.                                                          *)
(***************************************************************************)
EXTENDS IonDocument, FiniteSetTheorems, FunctionTheorems, WellFoundedInduction, TLAPS

(***************************************************************************)
(* Loops.  FoldLeft is a recursive function over sets of positions; what   *)
(* follows turns it into the sequence of states that a loop goes through.  *)
(***************************************************************************)
LEMMA Counting ==
  ASSUME NEW n \in Nat, NEW T \in SUBSET (0..n), 0 \in T,
         \A k \in 1..n : k - 1 \in T => k \in T
  PROVE  T = 0..n
<1> DEFINE Bad == (0..n) \ T
<1> SUFFICES ASSUME NEW t \in Bad PROVE FALSE
  OBVIOUS
<1>1. Bad \in SUBSET Nat
  OBVIOUS
<1>2. PICK x \in Bad : \A y \in Bad : <<y, x>> \notin OpToRel(<, Nat)
  <2> HIDE DEF Bad
  <2> QED BY <1>1, WFMin, NatLessThanWellFounded
<1>3. x \in 1..n /\ x - 1 \in 0..n /\ x - 1 < x /\ x - 1 \in Nat /\ x \in Nat
  OBVIOUS
<1>4. x - 1 \notin Bad
  BY <1>2, <1>3 DEF OpToRel
<1> QED
  BY <1>3, <1>4

(* A step on states S at positions 1..n, applied at the positions of s in  *)
(* their order.                                                            *)
Folds(g, step, base, n) ==
  \A s \in SUBSET (1..n) :
    g[s] = IF s = {} THEN base ELSE step[<<g[s \ {Max(s)}], Max(s)>>]

LEMMA MaxOf ==
  ASSUME NEW n \in Nat, NEW s \in SUBSET (1..n), n \in s
  PROVE  Max(s) = n
<1>1. \A x \in s : (\A y \in s : x >= y) <=> x = n
  OBVIOUS
<1>2. Max(s) \in s /\ \A y \in s : Max(s) >= y
  BY <1>1 DEF Max
<1> QED
  BY <1>1, <1>2

LEMMA FoldsExist ==
  ASSUME NEW S, NEW base \in S, NEW n \in Nat, NEW step \in [S \X (1..n) -> S]
  PROVE  \E g \in [SUBSET (1..n) -> S] : Folds(g, step, base, n)
<1> DEFINE Has(m) == \E g \in [SUBSET (1..m) -> S] : Folds(g, step, base, m)
           T == {m \in 0..n : Has(m)}
<1>1. Has(0)
  <2> DEFINE g == [s \in SUBSET (1..0) |-> base]
  <2>1. \A s \in SUBSET (1..0) : s = {}
    OBVIOUS
  <2>2. Folds(g, step, base, 0)
    BY <2>1 DEF Folds
  <2> QED BY <2>2
<1>2. ASSUME NEW m \in 1..n, Has(m - 1) PROVE Has(m)
  <2>1. PICK g \in [SUBSET (1..(m - 1)) -> S] : Folds(g, step, base, m - 1)
    BY <1>2
  <2> DEFINE h == [s \in SUBSET (1..m) |->
                     IF m \in s THEN step[<<g[s \ {m}], m>>] ELSE g[s]]
  <2>2. \A s \in SUBSET (1..m) : s \ {m} \in SUBSET (1..(m - 1))
    OBVIOUS
  <2>3. \A s \in SUBSET (1..m) : m \notin s => s \in SUBSET (1..(m - 1))
    OBVIOUS
  <2>4. \A s \in SUBSET (1..(m - 1)) : s \in SUBSET (1..m) /\ m \notin s
    OBVIOUS
  <2>5. h \in [SUBSET (1..m) -> S]
    BY <2>2, <2>3
  <2>6. \A s \in SUBSET (1..(m - 1)) : h[s] = g[s]
    BY <2>4
  <2>7. ASSUME NEW s \in SUBSET (1..m)
        PROVE  h[s] = IF s = {} THEN base ELSE step[<<h[s \ {Max(s)}], Max(s)>>]
    <3>1. CASE m \in s
      <4>1. Max(s) = m
        BY <3>1, MaxOf
      <4> QED BY <2>2, <2>6, <3>1, <4>1
    <3>2. CASE m \notin s
      <4>1. s \in SUBSET (1..(m - 1)) /\ s \ {Max(s)} \in SUBSET (1..(m - 1))
        BY <2>3, <3>2
      <4>2. h[s] = g[s] /\ h[s \ {Max(s)}] = g[s \ {Max(s)}]
        BY <2>6, <4>1
      <4> HIDE DEF h
      <4> QED BY <2>1, <4>1, <4>2 DEF Folds
    <3> QED BY <3>1, <3>2
  <2> HIDE DEF h
  <2> QED BY <2>5, <2>7 DEF Folds
<1> HIDE DEF Has
<1>3. T = 0..n
  <2>1. T \in SUBSET (0..n) /\ 0 \in T
    BY <1>1
  <2>2. \A m \in 1..n : m - 1 \in T => m \in T
    BY <1>2
  <2> HIDE DEF T
  <2> QED BY <2>1, <2>2, Counting
<1>4. n \in T
  BY <1>3
<1> QED
  BY <1>4 DEF Has

LEMMA MaxIn ==
  ASSUME NEW n \in Nat, NEW s \in SUBSET (1..n), s # {}
  PROVE  Max(s) \in 1..n
<1> DEFINE T == {n - y : y \in s}
<1>1. T \in SUBSET Nat /\ T # {}
  <2>1. PICK y \in s : TRUE
    OBVIOUS
  <2>2. n - y \in T
    BY <2>1
  <2>3. \A z \in s : n - z \in Nat
    OBVIOUS
  <2> QED BY <2>2, <2>3
<1>2. PICK t \in T : \A u \in T : <<u, t>> \notin OpToRel(<, Nat)
  <2> HIDE DEF T
  <2> QED BY <1>1, WFMin, NatLessThanWellFounded
<1>3. \A u \in T : ~(u < t)
  BY <1>1, <1>2 DEF OpToRel
<1>4. PICK x \in s : t = n - x
  OBVIOUS
<1>5. \A y \in s : x >= y
  BY <1>3, <1>4
<1> QED
  BY <1>5 DEF Max

(* The positions that a loop has passed.                                   *)
LEMMA Passed ==
  ASSUME NEW n \in Nat
  PROVE  /\ 1..0 = {} /\ {} \in SUBSET (1..n) /\ 0 \in 0..n /\ n \in 0..n
         /\ \A k \in 1..n :
              /\ 1..k \in SUBSET (1..n) /\ 1..k # {} /\ Max(1..k) = k
              /\ (1..k) \ {k} = 1..(k - 1) /\ k - 1 \in 0..n /\ k \in 0..n
<1>1. ASSUME NEW k \in 1..n PROVE Max(1..k) = k
  <2>1. k \in Nat /\ 1..k \in SUBSET (1..k) /\ k \in 1..k
    OBVIOUS
  <2> QED BY <2>1, MaxOf
<1>2. \A k \in 1..n : (1..k) \ {k} = 1..(k - 1)
  OBVIOUS
<1> QED
  BY <1>1, <1>2

(***************************************************************************)
(* The types of the loops.                                                 *)
(***************************************************************************)
Document == [verificationMethod : Seq(CanonicalIds), services : Seq(CanonicalIds),
             refs : [Purposes -> Seq(CanonicalIds)]]
States == [doc : Document, status : {"building", "error", "panic"}]

LEMMA CanonicalType == \A id \in Ids : canonicalID(id) \in CanonicalIds
BY DEF CanonicalIds

LEMMA AddServiceType ==
  ASSUME NEW s \in States, NEW service \in Services
  PROVE  AddService(s, service) \in States
<1>1. canonicalID(service.id) \in CanonicalIds
  BY CanonicalType DEF Services
<1>2. s.doc.services \in Seq(CanonicalIds) /\ s.doc \in Document
  BY DEF States, Document
<1> DEFINE t == Append(s.doc.services, canonicalID(service.id))
<1>3. t \in Seq(CanonicalIds)
  BY <1>1, <1>2
<1>4. AddService(s, service) = [s EXCEPT !.doc = [s.doc EXCEPT !.services = t]]
  BY DEF AddService, States
<1> HIDE DEF t
<1>5. [s.doc EXCEPT !.services = t] \in Document
  BY <1>2, <1>3 DEF Document
<1> QED
  BY <1>4, <1>5 DEF States

(* The loops, by name.                                                     *)
AddServices(s, list)      == FoldLeft(AddService, s, list)
RemoveServices(s, list)   == FoldLeft(RemoveService, s, list)
AddPublicKeys(s, list)    == FoldLeft(AddPublicKey, s, list)
RemovePublicKeys(s, list) == FoldLeft(RemovePublicKey, s, list)
AddPurposes(s, id, list)  ==
  LET Add(t, purpose) == AddPurpose(t, id, purpose) IN FoldLeft(Add, s, list)
RangeOver(s, id, list) ==
  LET Step(t, i) == RangeStep(id, t, i) IN FoldLeft(Step, s, list)

LEMMA AddServiceLoop ==
  ASSUME NEW base \in States, NEW list \in Seq(Services)
  PROVE  \E run \in [0..Len(list) -> States] :
           /\ run[0] = base /\ run[Len(list)] = AddServices(base, list)
           /\ \A k \in 1..Len(list) : run[k] = AddService(run[k - 1], list[k])
<1> DEFINE n == Len(list)
           step == [x \in States \X (1..n) |-> AddService(x[1], list[x[2]])]
           Body(it) == [s \in SUBSET (1..n) |->
                          IF s = {} THEN base
                          ELSE AddService(it[s \ {Max(s)}], list[Max(s)])]
<1>1. n \in Nat /\ DOMAIN list = 1..n
  OBVIOUS
<1>2. ASSUME NEW x \in States, NEW k \in 1..n PROVE AddService(x, list[k]) \in States
  <2>1. list[k] \in Services
    OBVIOUS
  <2> QED BY <2>1, AddServiceType
<1>3. PICK g \in [SUBSET (1..n) -> States] : Folds(g, step, base, n)
  <2>1. step \in [States \X (1..n) -> States]
    BY <1>2
  <2> HIDE DEF step, n
  <2> QED BY <1>1, <2>1, FoldsExist
<1>4. g = Body(g)
  <2>1. ASSUME NEW s \in SUBSET (1..n), s # {}
        PROVE  g[s] = AddService(g[s \ {Max(s)}], list[Max(s)])
    <3>1. Max(s) \in 1..n
      BY <1>1, <2>1, MaxIn
    <3>2. g[s] = step[<<g[s \ {Max(s)}], Max(s)>>]
      <4> HIDE DEF step
      <4> QED BY <1>3, <2>1 DEF Folds
    <3> QED BY <1>3, <3>1, <3>2
  <2>2. g[{}] = base
    BY <1>3 DEF Folds
  <2> QED BY <1>3, <2>1, <2>2
<1>5. PICK f : f = Body(f) /\ AddServices(base, list) = f[1..n]
  <2>1. AddServices(base, list) = (CHOOSE it : it = Body(it))[1..n]
    BY <1>1 DEF AddServices, FoldLeft, MapThenFoldSet
  <2> HIDE DEF Body
  <2> QED BY <1>4, <2>1
<1> DEFINE run == [k \in 0..n |-> f[1..k]]
<1>6. run[0] = base /\ run[n] = AddServices(base, list)
  BY <1>1, <1>5, Passed
<1>7. ASSUME NEW k \in 1..n PROVE run[k] = AddService(run[k - 1], list[k])
  <2>1. /\ 1..k \in SUBSET (1..n) /\ 1..k # {} /\ Max(1..k) = k
        /\ (1..k) \ {k} = 1..(k - 1) /\ k - 1 \in 0..n /\ k \in 0..n
    BY <1>1, Passed
  <2>2. f[1..k] = AddService(f[(1..k) \ {k}], list[k])
    BY <1>5, <2>1
  <2> QED BY <2>1, <2>2
<1>8. run \in [0..n -> States]
  <2> DEFINE T == {k \in 0..n : run[k] \in States}
  <2>1. T \in SUBSET (0..n) /\ 0 \in T
    BY <1>1, <1>6, Passed
  <2>2. ASSUME NEW k \in 1..n, k - 1 \in T PROVE k \in T
    <3>1. k \in 0..n
      BY <1>1, Passed
    <3> HIDE DEF run
    <3> QED BY <1>2, <1>7, <2>2, <3>1
  <2>3. T = 0..n
    <3> HIDE DEF T
    <3> QED BY <1>1, <2>1, <2>2, Counting
  <2> QED BY <2>3
<1> HIDE DEF run
<1> QED
  BY <1>6, <1>7, <1>8

LEMMA AddPurposeType ==
  ASSUME NEW s \in States, NEW id \in CanonicalIds, NEW purpose
  PROVE  AddPurpose(s, id, purpose) \in States
<1>1. CASE Ended(s)
  BY <1>1 DEF AddPurpose
<1>2. CASE ~Ended(s) /\ purpose \notin Purposes
  BY <1>2 DEF AddPurpose, States
<1>3. CASE ~Ended(s) /\ purpose \in Purposes
  <2>1. s.doc \in Document /\ s.doc.refs \in [Purposes -> Seq(CanonicalIds)]
    BY DEF States, Document
  <2> DEFINE t == Append(s.doc.refs[purpose], id)
             R == [s.doc.refs EXCEPT ![purpose] = t]
  <2>2. t \in Seq(CanonicalIds)
    BY <1>3, <2>1
  <2>3. AddPurpose(s, id, purpose) = [s EXCEPT !.doc = [s.doc EXCEPT !.refs = R]]
    BY <1>3 DEF AddPurpose, States, Document
  <2> HIDE DEF t
  <2>4. R \in [Purposes -> Seq(CanonicalIds)]
    BY <2>1, <2>2
  <2> HIDE DEF R
  <2>5. [s.doc EXCEPT !.refs = R] \in Document
    BY <2>1, <2>4 DEF Document
  <2> QED BY <2>3, <2>5 DEF States
<1> QED
  BY <1>1, <1>2, <1>3

LEMMA AddPurposeLoop ==
  ASSUME NEW base \in States, NEW id \in CanonicalIds, NEW list \in Seq(Purposes \cup {BadPurpose})
  PROVE  \E run \in [0..Len(list) -> States] :
           /\ run[0] = base /\ run[Len(list)] = AddPurposes(base, id, list)
           /\ \A k \in 1..Len(list) : run[k] = AddPurpose(run[k - 1], id, list[k])
<1> DEFINE n == Len(list)
           step == [x \in States \X (1..n) |-> AddPurpose(x[1], id, list[x[2]])]
           Body(it) == [s \in SUBSET (1..n) |->
                          IF s = {} THEN base
                          ELSE AddPurpose(it[s \ {Max(s)}], id, list[Max(s)])]
<1>1. n \in Nat /\ DOMAIN list = 1..n
  OBVIOUS
<1>2. ASSUME NEW x \in States, NEW k \in 1..n PROVE AddPurpose(x, id, list[k]) \in States
  <2>1. list[k] \in Purposes \cup {BadPurpose}
    OBVIOUS
  <2> QED BY <2>1, AddPurposeType
<1>3. PICK g \in [SUBSET (1..n) -> States] : Folds(g, step, base, n)
  <2>1. step \in [States \X (1..n) -> States]
    BY <1>2
  <2> HIDE DEF step, n
  <2> QED BY <1>1, <2>1, FoldsExist
<1>4. g = Body(g)
  <2>1. ASSUME NEW s \in SUBSET (1..n), s # {}
        PROVE  g[s] = AddPurpose(g[s \ {Max(s)}], id, list[Max(s)])
    <3>1. Max(s) \in 1..n
      BY <1>1, <2>1, MaxIn
    <3>2. g[s] = step[<<g[s \ {Max(s)}], Max(s)>>]
      <4> HIDE DEF step
      <4> QED BY <1>3, <2>1 DEF Folds
    <3> QED BY <1>3, <3>1, <3>2
  <2>2. g[{}] = base
    BY <1>3 DEF Folds
  <2> QED BY <1>3, <2>1, <2>2
<1>5. PICK f : f = Body(f) /\ AddPurposes(base, id, list) = f[1..n]
  <2>1. AddPurposes(base, id, list) = (CHOOSE it : it = Body(it))[1..n]
    BY <1>1 DEF AddPurposes, FoldLeft, MapThenFoldSet
  <2> HIDE DEF Body
  <2> QED BY <1>4, <2>1
<1> DEFINE run == [k \in 0..n |-> f[1..k]]
<1>6. run[0] = base /\ run[n] = AddPurposes(base, id, list)
  BY <1>1, <1>5, Passed
<1>7. ASSUME NEW k \in 1..n PROVE run[k] = AddPurpose(run[k - 1], id, list[k])
  <2>1. /\ 1..k \in SUBSET (1..n) /\ 1..k # {} /\ Max(1..k) = k
        /\ (1..k) \ {k} = 1..(k - 1) /\ k - 1 \in 0..n /\ k \in 0..n
    BY <1>1, Passed
  <2>2. f[1..k] = AddPurpose(f[(1..k) \ {k}], id, list[k])
    BY <1>5, <2>1
  <2> QED BY <2>1, <2>2
<1>8. run \in [0..n -> States]
  <2> DEFINE T == {k \in 0..n : run[k] \in States}
  <2>1. T \in SUBSET (0..n) /\ 0 \in T
    BY <1>1, <1>6, Passed
  <2>2. ASSUME NEW k \in 1..n, k - 1 \in T PROVE k \in T
    <3>1. k \in 0..n
      BY <1>1, Passed
    <3> HIDE DEF run
    <3> QED BY <1>2, <1>7, <2>2, <3>1
  <2>3. T = 0..n
    <3> HIDE DEF T
    <3> QED BY <1>1, <2>1, <2>2, Counting
  <2> QED BY <2>3
<1> HIDE DEF run
<1> QED
  BY <1>6, <1>7, <1>8

LEMMA AddMethodType ==
  ASSUME NEW s \in States, NEW id \in CanonicalIds
  PROVE  [s EXCEPT !.doc.verificationMethod = Append(@, id)] \in States
<1>1. s.doc.verificationMethod \in Seq(CanonicalIds) /\ s.doc \in Document
  BY DEF States, Document
<1> DEFINE t == Append(s.doc.verificationMethod, id)
<1>2. t \in Seq(CanonicalIds)
  BY <1>1
<1>3. [s EXCEPT !.doc.verificationMethod = Append(@, id)]
        = [s EXCEPT !.doc = [s.doc EXCEPT !.verificationMethod = t]]
  BY DEF States
<1> HIDE DEF t
<1>4. [s.doc EXCEPT !.verificationMethod = t] \in Document
  BY <1>1, <1>2 DEF Document
<1> QED
  BY <1>3, <1>4 DEF States

LEMMA AddPublicKeyType ==
  ASSUME NEW s \in States, NEW key \in Keys
  PROVE  AddPublicKey(s, key) \in States
<1>1. CASE Ended(s)
  BY <1>1 DEF AddPublicKey
<1>2. CASE ~Ended(s)
  <2> DEFINE id == canonicalID(key.id)
             t == [s EXCEPT !.doc.verificationMethod = Append(@, id)]
  <2>1. id \in CanonicalIds /\ key.purposes \in Seq(Purposes \cup {BadPurpose})
    BY CanonicalType DEF Keys
  <2> HIDE DEF id
  <2>2. t \in States
    BY <2>1, AddMethodType
  <2>3. AddPublicKey(s, key) = AddPurposes(t, id, key.purposes)
    BY <1>2 DEF AddPublicKey, AddPurposes, id
  <2> HIDE DEF t
  <2>4. Len(key.purposes) \in 0..Len(key.purposes)
    BY <2>1
  <2> QED BY <2>1, <2>2, <2>3, <2>4, AddPurposeLoop
<1> QED
  BY <1>1, <1>2

LEMMA AddPublicKeyLoop ==
  ASSUME NEW base \in States, NEW list \in Seq(Keys)
  PROVE  \E run \in [0..Len(list) -> States] :
           /\ run[0] = base /\ run[Len(list)] = AddPublicKeys(base, list)
           /\ \A k \in 1..Len(list) : run[k] = AddPublicKey(run[k - 1], list[k])
<1> DEFINE n == Len(list)
           step == [x \in States \X (1..n) |-> AddPublicKey(x[1], list[x[2]])]
           Body(it) == [s \in SUBSET (1..n) |->
                          IF s = {} THEN base
                          ELSE AddPublicKey(it[s \ {Max(s)}], list[Max(s)])]
<1>1. n \in Nat /\ DOMAIN list = 1..n
  OBVIOUS
<1>2. ASSUME NEW x \in States, NEW k \in 1..n PROVE AddPublicKey(x, list[k]) \in States
  <2>1. list[k] \in Keys
    OBVIOUS
  <2> QED BY <2>1, AddPublicKeyType
<1>3. PICK g \in [SUBSET (1..n) -> States] : Folds(g, step, base, n)
  <2>1. step \in [States \X (1..n) -> States]
    BY <1>2
  <2> HIDE DEF step, n
  <2> QED BY <1>1, <2>1, FoldsExist
<1>4. g = Body(g)
  <2>1. ASSUME NEW s \in SUBSET (1..n), s # {}
        PROVE  g[s] = AddPublicKey(g[s \ {Max(s)}], list[Max(s)])
    <3>1. Max(s) \in 1..n
      BY <1>1, <2>1, MaxIn
    <3>2. g[s] = step[<<g[s \ {Max(s)}], Max(s)>>]
      <4> HIDE DEF step
      <4> QED BY <1>3, <2>1 DEF Folds
    <3> QED BY <1>3, <3>1, <3>2
  <2>2. g[{}] = base
    BY <1>3 DEF Folds
  <2> QED BY <1>3, <2>1, <2>2
<1>5. PICK f : f = Body(f) /\ AddPublicKeys(base, list) = f[1..n]
  <2>1. AddPublicKeys(base, list) = (CHOOSE it : it = Body(it))[1..n]
    BY <1>1 DEF AddPublicKeys, FoldLeft, MapThenFoldSet
  <2> HIDE DEF Body
  <2> QED BY <1>4, <2>1
<1> DEFINE run == [k \in 0..n |-> f[1..k]]
<1>6. run[0] = base /\ run[n] = AddPublicKeys(base, list)
  BY <1>1, <1>5, Passed
<1>7. ASSUME NEW k \in 1..n PROVE run[k] = AddPublicKey(run[k - 1], list[k])
  <2>1. /\ 1..k \in SUBSET (1..n) /\ 1..k # {} /\ Max(1..k) = k
        /\ (1..k) \ {k} = 1..(k - 1) /\ k - 1 \in 0..n /\ k \in 0..n
    BY <1>1, Passed
  <2>2. f[1..k] = AddPublicKey(f[(1..k) \ {k}], list[k])
    BY <1>5, <2>1
  <2> QED BY <2>1, <2>2
<1>8. run \in [0..n -> States]
  <2> DEFINE T == {k \in 0..n : run[k] \in States}
  <2>1. T \in SUBSET (0..n) /\ 0 \in T
    BY <1>1, <1>6, Passed
  <2>2. ASSUME NEW k \in 1..n, k - 1 \in T PROVE k \in T
    <3>1. k \in 0..n
      BY <1>1, Passed
    <3> HIDE DEF run
    <3> QED BY <1>2, <1>7, <2>2, <3>1
  <2>3. T = 0..n
    <3> HIDE DEF T
    <3> QED BY <1>1, <2>1, <2>2, Counting
  <2> QED BY <2>3
<1> HIDE DEF run
<1> QED
  BY <1>6, <1>7, <1>8

(***************************************************************************)
(* The removal loop on a list without repetitions.                         *)
(***************************************************************************)
Slices(n) == [arr : [1..n -> CanonicalIds], len : 0..n, panic : BOOLEAN]

LEMMA CutOutShape ==
  ASSUME NEW n \in Nat, NEW s \in Slices(n), NEW i \in 1..n, i <= s.len
  PROVE  /\ CutOut(s, i) \in Slices(n)
         /\ CutOut(s, i).len = s.len - 1 /\ CutOut(s, i).panic = s.panic
         /\ \A k \in 1..n : CutOut(s, i).arr[k] =
              IF i <= k /\ k < s.len THEN s.arr[k + 1] ELSE s.arr[k]
<1>1. s.arr \in [1..n -> CanonicalIds] /\ s.len \in 0..n /\ s.panic \in BOOLEAN
  BY DEF Slices
<1> DEFINE a == [k \in 1..n |-> IF i <= k /\ k < s.len THEN s.arr[k + 1] ELSE s.arr[k]]
<1>2. a \in [1..n -> CanonicalIds]
  BY <1>1
<1>3. CutOut(s, i) = [arr |-> a, len |-> s.len - 1, panic |-> s.panic]
  <2>1. CutOut(s, i) = [s EXCEPT !.arr = a, !.len = s.len - 1]
    BY <1>1 DEF CutOut
  <2> HIDE DEF a
  <2> QED BY <2>1 DEF Slices
<1>4. s.len - 1 \in 0..n
  BY <1>1
<1>5. CutOut(s, i) \in Slices(n)
  <2> HIDE DEF a
  <2> QED BY <1>1, <1>2, <1>3, <1>4 DEF Slices
<1> QED
  BY <1>3, <1>5

LEMMA RangeStepType ==
  ASSUME NEW n \in Nat, NEW s \in Slices(n), NEW id, NEW i \in 1..n
  PROVE  RangeStep(id, s, i) \in Slices(n)
<1>1. CASE s.panic \/ s.arr[i] # id
  BY <1>1 DEF RangeStep
<1>2. CASE ~(s.panic \/ s.arr[i] # id) /\ i > s.len
  <2>1. RangeStep(id, s, i) = [s EXCEPT !.panic = TRUE]
    BY <1>2 DEF RangeStep
  <2> QED BY <2>1 DEF Slices
<1>3. CASE ~(s.panic \/ s.arr[i] # id) /\ ~(i > s.len)
  <2>1. RangeStep(id, s, i) = CutOut(s, i)
    BY <1>3 DEF RangeStep
  <2>2. i <= s.len
    BY <1>3 DEF Slices
  <2> QED BY <2>1, <2>2, CutOutShape
<1> QED
  BY <1>1, <1>2, <1>3

LEMMA RangeLoop ==
  ASSUME NEW N \in Nat, NEW base \in Slices(N), NEW id \in CanonicalIds, NEW list \in Seq(1..N)
  PROVE  \E run \in [0..Len(list) -> Slices(N)] :
           /\ run[0] = base /\ run[Len(list)] = RangeOver(base, id, list)
           /\ \A k \in 1..Len(list) : run[k] = RangeStep(id, run[k - 1], list[k])
<1> DEFINE n == Len(list)
           step == [x \in Slices(N) \X (1..n) |-> RangeStep(id, x[1], list[x[2]])]
           Body(it) == [s \in SUBSET (1..n) |->
                          IF s = {} THEN base
                          ELSE RangeStep(id, it[s \ {Max(s)}], list[Max(s)])]
<1>1. n \in Nat /\ DOMAIN list = 1..n
  OBVIOUS
<1>2. ASSUME NEW x \in Slices(N), NEW k \in 1..n PROVE RangeStep(id, x, list[k]) \in Slices(N)
  <2>1. list[k] \in 1..N
    OBVIOUS
  <2> QED BY <2>1, RangeStepType
<1>3. PICK g \in [SUBSET (1..n) -> Slices(N)] : Folds(g, step, base, n)
  <2>1. step \in [Slices(N) \X (1..n) -> Slices(N)]
    BY <1>2
  <2> HIDE DEF step, n
  <2> QED BY <1>1, <2>1, FoldsExist
<1>4. g = Body(g)
  <2>1. ASSUME NEW s \in SUBSET (1..n), s # {}
        PROVE  g[s] = RangeStep(id, g[s \ {Max(s)}], list[Max(s)])
    <3>1. Max(s) \in 1..n
      BY <1>1, <2>1, MaxIn
    <3>2. g[s] = step[<<g[s \ {Max(s)}], Max(s)>>]
      <4> HIDE DEF step
      <4> QED BY <1>3, <2>1 DEF Folds
    <3> QED BY <1>3, <3>1, <3>2
  <2>2. g[{}] = base
    BY <1>3 DEF Folds
  <2> QED BY <1>3, <2>1, <2>2
<1>5. PICK f : f = Body(f) /\ RangeOver(base, id, list) = f[1..n]
  <2>1. RangeOver(base, id, list) = (CHOOSE it : it = Body(it))[1..n]
    BY <1>1 DEF RangeOver, FoldLeft, MapThenFoldSet
  <2> HIDE DEF Body
  <2> QED BY <1>4, <2>1
<1> DEFINE run == [k \in 0..n |-> f[1..k]]
<1>6. run[0] = base /\ run[n] = RangeOver(base, id, list)
  BY <1>1, <1>5, Passed
<1>7. ASSUME NEW k \in 1..n PROVE run[k] = RangeStep(id, run[k - 1], list[k])
  <2>1. /\ 1..k \in SUBSET (1..n) /\ 1..k # {} /\ Max(1..k) = k
        /\ (1..k) \ {k} = 1..(k - 1) /\ k - 1 \in 0..n /\ k \in 0..n
    BY <1>1, Passed
  <2>2. f[1..k] = RangeStep(id, f[(1..k) \ {k}], list[k])
    BY <1>5, <2>1
  <2> QED BY <2>1, <2>2
<1>8. run \in [0..n -> Slices(N)]
  <2> DEFINE T == {k \in 0..n : run[k] \in Slices(N)}
  <2>1. T \in SUBSET (0..n) /\ 0 \in T
    BY <1>1, <1>6, Passed
  <2>2. ASSUME NEW k \in 1..n, k - 1 \in T PROVE k \in T
    <3>1. k \in 0..n
      BY <1>1, Passed
    <3> HIDE DEF run
    <3> QED BY <1>2, <1>7, <2>2, <3>1
  <2>3. T = 0..n
    <3> HIDE DEF T
    <3> QED BY <1>1, <2>1, <2>2, Counting
  <2> QED BY <2>3
<1> HIDE DEF run
<1> QED
  BY <1>6, <1>7, <1>8

LEMMA RemoveUnique ==
  ASSUME NEW list \in Seq(CanonicalIds), IsInjective(list), NEW id \in CanonicalIds
  PROVE  /\ RemoveWhileRanging(list, id).panic = FALSE
         /\ RemoveWhileRanging(list, id).list \in Seq(CanonicalIds)
         /\ IsInjective(RemoveWhileRanging(list, id).list)
         /\ Range(RemoveWhileRanging(list, id).list) = Range(list) \ {id}
         /\ RemoveWhileRanging(list, id).hits = IF id \in Range(list) THEN 1 ELSE 0
<1>0. PICK r : r = RemoveWhileRanging(list, id)
  OBVIOUS
<1> SUFFICES /\ r.panic = FALSE
             /\ r.list \in Seq(CanonicalIds) /\ IsInjective(r.list)
             /\ Range(r.list) = Range(list) \ {id}
             /\ r.hits = IF id \in Range(list) THEN 1 ELSE 0
  BY <1>0
<1> DEFINE n == Len(list)
           base == [arr |-> list, len |-> n, panic |-> FALSE]
           positions == [i \in DOMAIN list |-> i]
           end == RangeOver(base, id, positions)
<1>1. n \in Nat /\ DOMAIN list = 1..n /\ list \in [1..n -> CanonicalIds] /\ n \in 0..n
  OBVIOUS
<1>2. base \in Slices(n)
  BY <1>1 DEF Slices
<1>3. r = [list |-> SubSeq(end.arr, 1, end.len), hits |-> n - end.len, panic |-> end.panic]
  BY <1>0 DEF RemoveWhileRanging, RangeOver, FoldLeftDomain
<1> HIDE DEF end
<1>4. PICK run \in [0..n -> Slices(n)] :
        /\ run[0] = base /\ run[n] = end
        /\ \A k \in 1..n : run[k] = RangeStep(id, run[k - 1], k)
  <2>1. positions \in Seq(1..n) /\ Len(positions) = n /\ \A k \in 1..n : positions[k] = k
    BY <1>1
  <2> HIDE DEF base, n, positions
  <2>2. PICK w \in [0..Len(positions) -> Slices(n)] :
          /\ w[0] = base /\ w[Len(positions)] = RangeOver(base, id, positions)
          /\ \A k \in 1..Len(positions) : w[k] = RangeStep(id, w[k - 1], positions[k])
    <3>1. n \in Nat /\ base \in Slices(n) /\ positions \in Seq(1..n)
      BY <1>1, <1>2, <2>1
    <3> QED BY <3>1, RangeLoop
  <2>3. w \in [0..n -> Slices(n)] /\ w[n] = end
    BY <2>1, <2>2 DEF end
  <2>4. \A k \in 1..n : w[k] = RangeStep(id, w[k - 1], k)
    BY <2>1, <2>2
  <2> QED BY <2>2, <2>3, <2>4
<1>5. \A j, k \in 1..n : list[j] = list[k] => j = k
  BY <1>1 DEF IsInjective
<1>6. CASE id \notin Range(list)
  <2> DEFINE T == {k \in 0..n : run[k] = base}
  <2>1. T \in SUBSET (0..n) /\ 0 \in T
    BY <1>1, <1>4
  <2>2. ASSUME NEW k \in 1..n, k - 1 \in T PROVE k \in T
    <3>1. list[k] # id
      BY <1>1, <1>6 DEF Range
    <3>2. RangeStep(id, base, k) = base
      BY <3>1 DEF RangeStep
    <3> QED BY <1>4, <2>2, <3>2
  <2>3. n \in T
    <3> HIDE DEF T
    <3> QED BY <1>1, <2>1, <2>2, Counting
  <2>4. end = base
    BY <1>4, <2>3
  <2>5. SubSeq(list, 1, n) = list
    BY <1>1
  <2>6. r.list = list /\ r.hits = 0 /\ r.panic = FALSE
    BY <1>1, <1>3, <2>4, <2>5
  <2> QED BY <1>6, <2>6
<1>7. CASE id \in Range(list)
  <2>1. PICK j \in 1..n : list[j] = id
    BY <1>1, <1>7 DEF Range
  <2> DEFINE cut == CutOut(base, j)
  <2>2. /\ cut \in Slices(n) /\ cut.len = n - 1 /\ cut.panic = FALSE
        /\ \A k \in 1..n : cut.arr[k] = IF j <= k /\ k < n THEN list[k + 1] ELSE list[k]
    <3>1. j <= base.len
      OBVIOUS
    <3>2. base.arr = list /\ base.len = n /\ base.panic = FALSE
      OBVIOUS
    <3> HIDE DEF base
    <3>3. /\ cut \in Slices(n) /\ cut.len = base.len - 1 /\ cut.panic = base.panic
          /\ \A k \in 1..n : cut.arr[k] =
               IF j <= k /\ k < base.len THEN base.arr[k + 1] ELSE base.arr[k]
      <4> HIDE DEF n
      <4> QED BY <1>1, <1>2, <3>1, CutOutShape
    <3> QED BY <3>2, <3>3
  <2> HIDE DEF cut
  <2> DEFINE T == {k \in 0..n : run[k] = IF k < j THEN base ELSE cut}
  <2>3. T \in SUBSET (0..n) /\ 0 \in T
    BY <1>1, <1>4
  <2>4. ASSUME NEW k \in 1..n, k - 1 \in T PROVE k \in T
    <3>1. run[k] = RangeStep(id, run[k - 1], k) /\ k \in 0..n
      BY <1>4
    <3>2. CASE k < j
      <4>1. run[k - 1] = base /\ list[k] # id
        BY <1>5, <2>1, <2>4, <3>2
      <4>2. RangeStep(id, base, k) = base
        BY <4>1 DEF RangeStep
      <4> QED BY <3>1, <3>2, <4>1, <4>2
    <3>3. CASE k = j
      <4>1. run[k - 1] = base
        BY <2>4, <3>3
      <4>2. RangeStep(id, base, k) = cut
        BY <2>1, <3>3 DEF RangeStep, cut
      <4> QED BY <3>1, <3>3, <4>1, <4>2
    <3>4. CASE k > j
      <4>1. run[k - 1] = cut
        BY <2>4, <3>4
      <4>2. cut.arr[k] # id
        BY <1>1, <1>5, <2>1, <2>2, <3>4
      <4>3. RangeStep(id, cut, k) = cut
        BY <4>2 DEF RangeStep
      <4> QED BY <3>1, <3>4, <4>1, <4>3
    <3> QED BY <3>2, <3>3, <3>4
  <2>5. n \in T
    <3> HIDE DEF T
    <3> QED BY <1>1, <2>3, <2>4, Counting
  <2>6. end = cut
    BY <1>4, <2>5
  <2> DEFINE t == SubSeq(cut.arr, 1, n - 1)
  <2>7. cut.arr \in Seq(CanonicalIds) /\ Len(cut.arr) = n
    <3>1. cut.arr \in [1..n -> CanonicalIds]
      BY <2>2 DEF Slices
    <3>2. PICK N, a : N \in Nat /\ N = n /\ a = cut.arr
      BY <1>1
    <3>3. a \in Seq(CanonicalIds) /\ Len(a) = N
      BY <3>1, <3>2
    <3> QED BY <3>2, <3>3
  <2>8. /\ t \in Seq(CanonicalIds) /\ Len(t) = n - 1 /\ DOMAIN t = 1..(n - 1)
        /\ \A k \in 1..(n - 1) : t[k] = IF j <= k THEN list[k + 1] ELSE list[k]
    BY <1>1, <2>1, <2>2, <2>7
  <2> HIDE DEF t
  <2>9. IsInjective(t)
    BY <1>1, <1>5, <2>1, <2>8, SMTT(30) DEF IsInjective
  <2>10. Range(t) = Range(list) \ {id}
    <3>1. ASSUME NEW k \in 1..(n - 1) PROVE t[k] \in Range(list) \ {id}
      BY <1>1, <1>5, <2>1, <2>8 DEF Range
    <3>2. ASSUME NEW k \in 1..n, list[k] # id PROVE list[k] \in Range(t)
      <4>1. CASE k < j
        <5>1. k \in 1..(n - 1) /\ t[k] = list[k]
          BY <2>1, <2>8, <4>1
        <5> QED BY <2>8, <5>1 DEF Range
      <4>2. CASE k > j
        <5>1. k - 1 \in 1..(n - 1) /\ t[k - 1] = list[k]
          BY <2>1, <2>8, <4>2
        <5> QED BY <2>8, <5>1 DEF Range
      <4> QED BY <2>1, <3>2, <4>1, <4>2
    <3> QED BY <1>1, <2>8, <3>1, <3>2 DEF Range
  <2>11. r.list = t /\ r.hits = n - (n - 1) /\ r.panic = FALSE
    BY <1>3, <2>2, <2>6 DEF t
  <2> QED BY <1>1, <1>7, <2>8, <2>9, <2>10, <2>11
<1> QED
  BY <1>6, <1>7

(***************************************************************************)
(* Documents in which no list repeats an id and no reference dangles.      *)
(***************************************************************************)
NeatDoc(d) ==
  /\ IsInjective(d.services) /\ IsInjective(d.verificationMethod)
  /\ \A p \in Purposes : /\ IsInjective(d.refs[p])
                         /\ Range(d.refs[p]) \subseteq Range(d.verificationMethod)
Neat == {s \in States : s.status # "panic" /\ NeatDoc(s.doc)}

LEMMA StateShape ==
  ASSUME NEW s \in States
  PROVE  /\ s = [doc |-> s.doc, status |-> s.status]
         /\ s.status \in {"building", "error", "panic"} /\ s.doc \in Document
         /\ s.doc = [verificationMethod |-> s.doc.verificationMethod,
                     services |-> s.doc.services, refs |-> s.doc.refs]
         /\ s.doc.verificationMethod \in Seq(CanonicalIds) /\ s.doc.services \in Seq(CanonicalIds)
         /\ s.doc.refs \in [Purposes -> Seq(CanonicalIds)]
BY DEF States, Document

(* A state, put together from its parts.                                   *)
State(vm, sv, rf, st) ==
  [doc |-> [verificationMethod |-> vm, services |-> sv, refs |-> rf], status |-> st]

LEMMA StateOf ==
  \A vm, sv, rf, st :
    /\ State(vm, sv, rf, st).doc.verificationMethod = vm
    /\ State(vm, sv, rf, st).doc.services = sv
    /\ State(vm, sv, rf, st).doc.refs = rf /\ State(vm, sv, rf, st).status = st
BY DEF State

LEMMA StateType ==
  ASSUME NEW vm \in Seq(CanonicalIds), NEW sv \in Seq(CanonicalIds),
         NEW rf \in [Purposes -> Seq(CanonicalIds)], NEW st \in {"building", "error", "panic"}
  PROVE  State(vm, sv, rf, st) \in States
BY DEF State, States, Document

(* One round of the remove-services loop.                                  *)
LEMMA RemoveServiceDoes ==
  ASSUME NEW s \in Neat, NEW id \in Ids
  PROVE  LET t == RemoveService(s, id) IN
         /\ t \in Neat /\ t.status = s.status
         /\ s.status = "building" =>
              /\ t.doc.verificationMethod = s.doc.verificationMethod /\ t.doc.refs = s.doc.refs
              /\ Range(t.doc.services) = Range(s.doc.services) \ {canonicalID(id)}
<1>0. PICK t : t = RemoveService(s, id)
  OBVIOUS
<1> SUFFICES /\ t \in Neat /\ t.status = s.status
             /\ s.status = "building" =>
                  /\ t.doc.verificationMethod = s.doc.verificationMethod /\ t.doc.refs = s.doc.refs
                  /\ Range(t.doc.services) = Range(s.doc.services) \ {canonicalID(id)}
  BY <1>0
<1>1. CASE Ended(s)
  BY <1>0, <1>1 DEF RemoveService, Ended
<1>2. CASE ~Ended(s)
  <2>1. s \in States /\ NeatDoc(s.doc) /\ s.status # "panic"
    BY DEF Neat
  <2>2. PICK r : r = RemoveWhileRanging(s.doc.services, canonicalID(id))
    OBVIOUS
  <2>3. /\ r.panic = FALSE /\ r.list \in Seq(CanonicalIds) /\ IsInjective(r.list)
        /\ Range(r.list) = Range(s.doc.services) \ {canonicalID(id)}
    BY <2>1, <2>2, StateShape, CanonicalType, RemoveUnique DEF NeatDoc
  <2>4. t = State(s.doc.verificationMethod, r.list, s.doc.refs, s.status)
    <3>1. t = [s EXCEPT !.doc.services = r.list, !.status = IF r.panic THEN "panic" ELSE @]
      BY <1>0, <1>2, <2>2 DEF RemoveService
    <3>2. PICK D : D = [s.doc EXCEPT !.services = r.list]
      OBVIOUS
    <3>3. t = [s EXCEPT !.doc = D, !.status = @]
      BY <2>1, <2>3, <3>1, <3>2 DEF States
    <3>4. D = [verificationMethod |-> s.doc.verificationMethod, services |-> r.list,
               refs |-> s.doc.refs]
      <4>1. s.doc \in Document
        BY <2>1, StateShape
      <4> QED BY <3>2, <4>1 DEF Document
    <3> QED BY <2>1, <3>3, <3>4 DEF State, States
  <2>5. t \in States
    <3>1. /\ s.doc.verificationMethod \in Seq(CanonicalIds)
          /\ s.status \in {"building", "error", "panic"}
          /\ s.doc.refs \in [Purposes -> Seq(CanonicalIds)]
      BY <2>1, StateShape
    <3> QED BY <2>3, <2>4, <3>1, StateType
  <2>6. NeatDoc(t.doc) /\ t.status = s.status
    BY <2>1, <2>3, <2>4, StateOf DEF NeatDoc
  <2> QED BY <2>1, <2>3, <2>4, <2>5, <2>6, StateOf DEF Neat
<1> QED
  BY <1>1, <1>2

LEMMA RemoveServiceNeat ==
  ASSUME NEW s \in Neat, NEW id \in Ids
  PROVE  RemoveService(s, id) \in Neat
BY RemoveServiceDoes

LEMMA RemoveServiceLoop ==
  ASSUME NEW S, NEW base \in S, NEW list \in Seq(Ids),
         \A x \in S, k \in 1..Len(list) : RemoveService(x, list[k]) \in S
  PROVE  \E run \in [0..Len(list) -> S] :
           /\ run[0] = base /\ run[Len(list)] = RemoveServices(base, list)
           /\ \A k \in 1..Len(list) : run[k] = RemoveService(run[k - 1], list[k])
<1> DEFINE n == Len(list)
           step == [x \in S \X (1..n) |-> RemoveService(x[1], list[x[2]])]
           Body(it) == [s \in SUBSET (1..n) |->
                          IF s = {} THEN base
                          ELSE RemoveService(it[s \ {Max(s)}], list[Max(s)])]
<1>1. n \in Nat /\ DOMAIN list = 1..n
  OBVIOUS
<1>2. ASSUME NEW x \in S, NEW k \in 1..n PROVE RemoveService(x, list[k]) \in S
  OBVIOUS
<1>3. PICK g \in [SUBSET (1..n) -> S] : Folds(g, step, base, n)
  <2>1. step \in [S \X (1..n) -> S]
    BY <1>2
  <2> HIDE DEF step, n
  <2> QED BY <1>1, <2>1, FoldsExist
<1>4. g = Body(g)
  <2>1. ASSUME NEW s \in SUBSET (1..n), s # {}
        PROVE  g[s] = RemoveService(g[s \ {Max(s)}], list[Max(s)])
    <3>1. Max(s) \in 1..n
      BY <1>1, <2>1, MaxIn
    <3>2. g[s] = step[<<g[s \ {Max(s)}], Max(s)>>]
      <4> HIDE DEF step
      <4> QED BY <1>3, <2>1 DEF Folds
    <3> QED BY <1>3, <3>1, <3>2
  <2>2. g[{}] = base
    BY <1>3 DEF Folds
  <2> QED BY <1>3, <2>1, <2>2
<1>5. PICK f : f = Body(f) /\ RemoveServices(base, list) = f[1..n]
  <2>1. RemoveServices(base, list) = (CHOOSE it : it = Body(it))[1..n]
    BY <1>1 DEF RemoveServices, FoldLeft, MapThenFoldSet
  <2> HIDE DEF Body
  <2> QED BY <1>4, <2>1
<1> DEFINE run == [k \in 0..n |-> f[1..k]]
<1>6. run[0] = base /\ run[n] = RemoveServices(base, list)
  BY <1>1, <1>5, Passed
<1>7. ASSUME NEW k \in 1..n PROVE run[k] = RemoveService(run[k - 1], list[k])
  <2>1. /\ 1..k \in SUBSET (1..n) /\ 1..k # {} /\ Max(1..k) = k
        /\ (1..k) \ {k} = 1..(k - 1) /\ k - 1 \in 0..n /\ k \in 0..n
    BY <1>1, Passed
  <2>2. f[1..k] = RemoveService(f[(1..k) \ {k}], list[k])
    BY <1>5, <2>1
  <2> QED BY <2>1, <2>2
<1>8. run \in [0..n -> S]
  <2> DEFINE T == {k \in 0..n : run[k] \in S}
  <2>1. T \in SUBSET (0..n) /\ 0 \in T
    BY <1>1, <1>6, Passed
  <2>2. ASSUME NEW k \in 1..n, k - 1 \in T PROVE k \in T
    <3>1. k \in 0..n
      BY <1>1, Passed
    <3> HIDE DEF run
    <3> QED BY <1>2, <1>7, <2>2, <3>1
  <2>3. T = 0..n
    <3> HIDE DEF T
    <3> QED BY <1>1, <2>1, <2>2, Counting
  <2> QED BY <2>3
<1> HIDE DEF run
<1> QED
  BY <1>6, <1>7, <1>8

(* One removal loop over every list of references.                         *)
LEMMA RemoveRefsDoes ==
  ASSUME NEW s \in States, NEW id \in CanonicalIds,
         \A p \in Purposes : IsInjective(s.doc.refs[p])
  PROVE  \E rf \in [Purposes -> Seq(CanonicalIds)] :
           /\ RemoveRefs(s, id) = State(s.doc.verificationMethod, s.doc.services, rf, s.status)
           /\ \A p \in Purposes : /\ IsInjective(rf[p])
                                  /\ Range(rf[p]) = Range(s.doc.refs[p]) \ {id}
<1>0. PICK t : t = RemoveRefs(s, id)
  OBVIOUS
<1> DEFINE r == [p \in Purposes |-> RemoveWhileRanging(s.doc.refs[p], id)]
           R == [p \in Purposes |-> r[p].list]
<1>1. ASSUME NEW p \in Purposes
      PROVE  /\ r[p].panic = FALSE /\ r[p].list \in Seq(CanonicalIds) /\ IsInjective(r[p].list)
             /\ Range(r[p].list) = Range(s.doc.refs[p]) \ {id}
  <2>1. s.doc.refs[p] \in Seq(CanonicalIds) /\ r[p] = RemoveWhileRanging(s.doc.refs[p], id)
    BY StateShape
  <2>2. PICK x \in Seq(CanonicalIds) : x = s.doc.refs[p]
    BY <2>1
  <2>3. IsInjective(x) /\ r[p] = RemoveWhileRanging(x, id)
    BY <2>1, <2>2
  <2> HIDE DEF r
  <2>4. LET y == RemoveWhileRanging(x, id) IN
        y.panic = FALSE /\ y.list \in Seq(CanonicalIds) /\ IsInjective(y.list)
        /\ Range(y.list) = Range(x) \ {id}
    BY <2>2, <2>3, RemoveUnique
  <2> QED BY <2>2, <2>3, <2>4
<1>2. t = [s EXCEPT !.doc.refs = R,
                    !.status = IF \E p \in Purposes : r[p].panic THEN "panic" ELSE @]
  BY <1>0 DEF RemoveRefs
<1> HIDE DEF r
<1>3. R \in [Purposes -> Seq(CanonicalIds)] /\ \A p \in Purposes : R[p] = r[p].list
  BY <1>1
<1> HIDE DEF R
<1>4. ~ \E p \in Purposes : r[p].panic
  BY <1>1
<1>5. t = [s EXCEPT !.doc.refs = R, !.status = @]
  BY <1>2, <1>4
<1>6. t = State(s.doc.verificationMethod, s.doc.services, R, s.status)
  <2>1. PICK D : D = [s.doc EXCEPT !.refs = R]
    OBVIOUS
  <2>2. t = [s EXCEPT !.doc = D, !.status = @]
    BY <1>5, <2>1 DEF States
  <2>3. D = [verificationMethod |-> s.doc.verificationMethod, services |-> s.doc.services,
             refs |-> R]
    <3>1. s.doc \in Document
      BY StateShape
    <3> QED BY <2>1, <3>1 DEF Document
  <2> QED BY <2>2, <2>3 DEF State, States
<1> QED
  BY <1>0, <1>1, <1>3, <1>6

RemoveAgains(t, id, list) ==
  LET RemoveAgain(u, i) == IF Ended(u) THEN u ELSE RemoveRefs(u, id)
  IN  FoldLeft(RemoveAgain, t, list)

LEMMA RemoveOnce ==
  ASSUME NEW t, NEW id, NEW list, list = [i \in 1..1 |-> i]
  PROVE  RemoveAgains(t, id, list) = IF Ended(t) THEN t ELSE RemoveRefs(t, id)
<1> DEFINE Again(u) == IF Ended(u) THEN u ELSE RemoveRefs(u, id)
           Body(it) == [s \in SUBSET (1..1) |-> IF s = {} THEN t ELSE Again(it[s \ {Max(s)}])]
           g == [s \in SUBSET (1..1) |-> IF s = {} THEN t ELSE Again(t)]
<1>1. RemoveAgains(t, id, list) = (CHOOSE it : it = Body(it))[1..1]
  BY DEF RemoveAgains, FoldLeft, MapThenFoldSet
<1>2. ASSUME NEW s \in SUBSET (1..1), s # {} PROVE s \ {Max(s)} = {}
  <2>1. 1 \in s
    <3>1. PICK x \in s : TRUE
      BY <1>2
    <3>2. x = 1
      OBVIOUS
    <3> QED BY <3>2
  <2>2. Max(s) = 1
    BY <2>1, MaxOf
  <2> QED BY <2>2
<1> HIDE DEF Again
<1>3. g = Body(g)
  BY <1>2
<1>4. PICK f : f = Body(f) /\ RemoveAgains(t, id, list) = f[1..1]
  <2> HIDE DEF Body
  <2> QED BY <1>1, <1>3
<1>5. f[{}] = t /\ f[1..1] = Again(f[{}])
  <2>1. {} \in SUBSET (1..1) /\ 1..1 \in SUBSET (1..1) /\ 1..1 # {}
    OBVIOUS
  <2>2. (1..1) \ {Max(1..1)} = {}
    BY <1>2, <2>1
  <2> QED BY <1>4, <2>1, <2>2
<1> QED
  BY <1>4, <1>5 DEF Again

(* One round of the remove-public-keys loop.                               *)
LEMMA RemovePublicKeyDoes ==
  ASSUME NEW s \in Neat, NEW rawId \in Ids
  PROVE  LET t == RemovePublicKey(s, rawId) IN
         /\ t \in Neat
         /\ s.status = "error" => t = s
         /\ s.status = "building" /\ canonicalID(rawId) \notin Range(s.doc.verificationMethod)
              => t.status = "error"
         /\ s.status = "building" /\ canonicalID(rawId) \in Range(s.doc.verificationMethod) =>
              /\ t.status = "building" /\ t.doc.services = s.doc.services
              /\ Range(t.doc.verificationMethod)
                   = Range(s.doc.verificationMethod) \ {canonicalID(rawId)}
              /\ \A p \in Purposes :
                   Range(t.doc.refs[p]) = Range(s.doc.refs[p]) \ {canonicalID(rawId)}
<1>0. PICK t : t = RemovePublicKey(s, rawId)
  OBVIOUS
<1> SUFFICES /\ t \in Neat
             /\ s.status = "error" => t = s
             /\ s.status = "building" /\ canonicalID(rawId) \notin Range(s.doc.verificationMethod)
                  => t.status = "error"
             /\ s.status = "building" /\ canonicalID(rawId) \in Range(s.doc.verificationMethod) =>
                  /\ t.status = "building" /\ t.doc.services = s.doc.services
                  /\ Range(t.doc.verificationMethod)
                       = Range(s.doc.verificationMethod) \ {canonicalID(rawId)}
                  /\ \A p \in Purposes :
                       Range(t.doc.refs[p]) = Range(s.doc.refs[p]) \ {canonicalID(rawId)}
  BY <1>0
<1>1. s \in States /\ NeatDoc(s.doc) /\ s.status # "panic"
  BY DEF Neat
<1>2. CASE Ended(s)
  BY <1>0, <1>2 DEF RemovePublicKey, Ended
<1>3. CASE ~Ended(s)
  <2> DEFINE id == canonicalID(rawId)
             r  == RemoveWhileRanging(s.doc.verificationMethod, id)
             t0 == [s EXCEPT !.doc.verificationMethod = r.list,
                             !.status = IF r.panic THEN "panic" ELSE @]
  <2>1. id \in CanonicalIds /\ id = canonicalID(rawId)
    BY CanonicalType
  <2>4. t = IF r.hits = 0 /\ ~r.panic THEN [s EXCEPT !.status = "error"]
            ELSE RemoveAgains(t0, id, [i \in 1..r.hits |-> i])
    BY <1>0, <1>3 DEF RemovePublicKey, RemoveAgains
  <2> HIDE DEF id
  <2>2. /\ s.doc.verificationMethod \in Seq(CanonicalIds) /\ s.doc.services \in Seq(CanonicalIds)
        /\ s.doc.refs \in [Purposes -> Seq(CanonicalIds)]
    BY <1>1, StateShape
  <2>3. /\ r.panic = FALSE /\ r.list \in Seq(CanonicalIds) /\ IsInjective(r.list)
        /\ Range(r.list) = Range(s.doc.verificationMethod) \ {id}
        /\ r.hits = IF id \in Range(s.doc.verificationMethod) THEN 1 ELSE 0
    BY <1>1, <2>1, <2>2, RemoveUnique DEF NeatDoc
  <2> HIDE DEF r
  <2>5. s.status = "building"
    BY <1>3 DEF Ended
  <2>6. t0 = State(r.list, s.doc.services, s.doc.refs, "building")
    <3>1. t0 = [s EXCEPT !.doc.verificationMethod = r.list, !.status = "building"]
      BY <2>3, <2>5
    <3> HIDE DEF t0
    <3>2. t0 = [doc |-> [s.doc EXCEPT !.verificationMethod = r.list], status |-> "building"]
      <4>1. PICK D : D = [s.doc EXCEPT !.verificationMethod = r.list]
        OBVIOUS
      <4>2. t0 = [s EXCEPT !.doc = D, !.status = "building"]
        BY <1>1, <3>1, <4>1 DEF States
      <4> QED BY <1>1, <4>1, <4>2 DEF States
    <3>3. [s.doc EXCEPT !.verificationMethod = r.list]
            = [verificationMethod |-> r.list, services |-> s.doc.services, refs |-> s.doc.refs]
      <4>1. s.doc \in Document
        BY <1>1, StateShape
      <4> QED BY <4>1 DEF Document
    <3> QED BY <3>2, <3>3 DEF State
  <2> HIDE DEF t0
  <2>7. CASE id \notin Range(s.doc.verificationMethod)
    <3>1. t = [s EXCEPT !.status = "error"]
      BY <2>3, <2>4, <2>7
    <3>2. t = State(s.doc.verificationMethod, s.doc.services, s.doc.refs, "error")
      BY <1>1, <3>1, StateShape DEF State
    <3>3. t \in States /\ t.status = "error"
      BY <2>2, <3>2, StateOf, StateType
    <3>4. NeatDoc(t.doc)
      BY <1>1, <3>2, StateOf DEF NeatDoc
    <3> QED BY <2>1, <2>5, <2>7, <3>3, <3>4 DEF Neat
  <2>8. CASE id \in Range(s.doc.verificationMethod)
    <3>1. t = RemoveAgains(t0, id, [i \in 1..1 |-> i])
      BY <2>3, <2>4, <2>8
    <3>2. /\ t0 \in States /\ t0.status = "building" /\ t0.doc.refs = s.doc.refs
          /\ t0.doc.verificationMethod = r.list /\ t0.doc.services = s.doc.services
      BY <2>2, <2>3, <2>6, StateOf, StateType
    <3>3. t = RemoveRefs(t0, id)
      <4>1. ~Ended(t0)
        BY <3>2 DEF Ended
      <4> QED BY <3>1, <4>1, RemoveOnce
    <3>4. PICK rf \in [Purposes -> Seq(CanonicalIds)] :
            /\ t = State(r.list, s.doc.services, rf, "building")
            /\ \A p \in Purposes : /\ IsInjective(rf[p])
                                   /\ Range(rf[p]) = Range(s.doc.refs[p]) \ {id}
      <4>1. \A p \in Purposes : IsInjective(t0.doc.refs[p])
        BY <1>1, <3>2 DEF NeatDoc
      <4>2. PICK rf \in [Purposes -> Seq(CanonicalIds)] :
              /\ RemoveRefs(t0, id)
                   = State(t0.doc.verificationMethod, t0.doc.services, rf, t0.status)
              /\ \A p \in Purposes : /\ IsInjective(rf[p])
                                     /\ Range(rf[p]) = Range(t0.doc.refs[p]) \ {id}
        BY <2>1, <3>2, <4>1, RemoveRefsDoes
      <4> QED BY <3>2, <3>3, <4>2
    <3>5. /\ t \in States /\ t.status = "building" /\ t.doc.services = s.doc.services
          /\ t.doc.verificationMethod = r.list /\ t.doc.refs = rf
      BY <2>2, <2>3, <3>4, StateOf, StateType
    <3>6. NeatDoc(t.doc)
      BY <1>1, <2>3, <3>4, <3>5 DEF NeatDoc
    <3> QED BY <2>1, <2>3, <2>5, <2>8, <3>4, <3>5, <3>6 DEF Neat
  <2> QED BY <2>7, <2>8
<1> QED
  BY <1>2, <1>3

LEMMA RemovePublicKeyNeat ==
  ASSUME NEW s \in Neat, NEW rawId \in Ids
  PROVE  RemovePublicKey(s, rawId) \in Neat
BY RemovePublicKeyDoes

LEMMA RemovePublicKeyLoop ==
  ASSUME NEW S, NEW base \in S, NEW list \in Seq(Ids),
         \A x \in S, k \in 1..Len(list) : RemovePublicKey(x, list[k]) \in S
  PROVE  \E run \in [0..Len(list) -> S] :
           /\ run[0] = base /\ run[Len(list)] = RemovePublicKeys(base, list)
           /\ \A k \in 1..Len(list) : run[k] = RemovePublicKey(run[k - 1], list[k])
<1> DEFINE n == Len(list)
           step == [x \in S \X (1..n) |-> RemovePublicKey(x[1], list[x[2]])]
           Body(it) == [s \in SUBSET (1..n) |->
                          IF s = {} THEN base
                          ELSE RemovePublicKey(it[s \ {Max(s)}], list[Max(s)])]
<1>1. n \in Nat /\ DOMAIN list = 1..n
  OBVIOUS
<1>2. ASSUME NEW x \in S, NEW k \in 1..n PROVE RemovePublicKey(x, list[k]) \in S
  OBVIOUS
<1>3. PICK g \in [SUBSET (1..n) -> S] : Folds(g, step, base, n)
  <2>1. step \in [S \X (1..n) -> S]
    BY <1>2
  <2> HIDE DEF step, n
  <2> QED BY <1>1, <2>1, FoldsExist
<1>4. g = Body(g)
  <2>1. ASSUME NEW s \in SUBSET (1..n), s # {}
        PROVE  g[s] = RemovePublicKey(g[s \ {Max(s)}], list[Max(s)])
    <3>1. Max(s) \in 1..n
      BY <1>1, <2>1, MaxIn
    <3>2. g[s] = step[<<g[s \ {Max(s)}], Max(s)>>]
      <4> HIDE DEF step
      <4> QED BY <1>3, <2>1 DEF Folds
    <3> QED BY <1>3, <3>1, <3>2
  <2>2. g[{}] = base
    BY <1>3 DEF Folds
  <2> QED BY <1>3, <2>1, <2>2
<1>5. PICK f : f = Body(f) /\ RemovePublicKeys(base, list) = f[1..n]
  <2>1. RemovePublicKeys(base, list) = (CHOOSE it : it = Body(it))[1..n]
    BY <1>1 DEF RemovePublicKeys, FoldLeft, MapThenFoldSet
  <2> HIDE DEF Body
  <2> QED BY <1>4, <2>1
<1> DEFINE run == [k \in 0..n |-> f[1..k]]
<1>6. run[0] = base /\ run[n] = RemovePublicKeys(base, list)
  BY <1>1, <1>5, Passed
<1>7. ASSUME NEW k \in 1..n PROVE run[k] = RemovePublicKey(run[k - 1], list[k])
  <2>1. /\ 1..k \in SUBSET (1..n) /\ 1..k # {} /\ Max(1..k) = k
        /\ (1..k) \ {k} = 1..(k - 1) /\ k - 1 \in 0..n /\ k \in 0..n
    BY <1>1, Passed
  <2>2. f[1..k] = RemovePublicKey(f[(1..k) \ {k}], list[k])
    BY <1>5, <2>1
  <2> QED BY <2>1, <2>2
<1>8. run \in [0..n -> S]
  <2> DEFINE T == {k \in 0..n : run[k] \in S}
  <2>1. T \in SUBSET (0..n) /\ 0 \in T
    BY <1>1, <1>6, Passed
  <2>2. ASSUME NEW k \in 1..n, k - 1 \in T PROVE k \in T
    <3>1. k \in 0..n
      BY <1>1, Passed
    <3> HIDE DEF run
    <3> QED BY <1>2, <1>7, <2>2, <3>1
  <2>3. T = 0..n
    <3> HIDE DEF T
    <3> QED BY <1>1, <2>1, <2>2, Counting
  <2> QED BY <2>3
<1> HIDE DEF run
<1> QED
  BY <1>6, <1>7, <1>8

(***************************************************************************)
(* What the loops of the five patches do to a document.                    *)
(***************************************************************************)
LEMMA AppendUnique ==
  ASSUME NEW list \in Seq(CanonicalIds), NEW e \in CanonicalIds
  PROVE  /\ Append(list, e) \in Seq(CanonicalIds)
         /\ Range(Append(list, e)) = Range(list) \cup {e}
         /\ IsInjective(list) /\ e \notin Range(list) => IsInjective(Append(list, e))
<1>1. PICK t : t = Append(list, e)
  OBVIOUS
<1>2. /\ t \in Seq(CanonicalIds) /\ Len(list) \in Nat /\ Len(t) = Len(list) + 1
      /\ DOMAIN list = 1..Len(list) /\ DOMAIN t = 1..(Len(list) + 1)
      /\ \A k \in 1..Len(list) : t[k] = list[k]
      /\ t[Len(list) + 1] = e
  BY <1>1
<1>3. Range(t) = Range(list) \cup {e}
  <2>1. ASSUME NEW k \in DOMAIN t PROVE t[k] \in Range(list) \cup {e}
    BY <1>2 DEF Range
  <2>2. ASSUME NEW k \in DOMAIN list PROVE list[k] \in Range(t)
    <3>1. k \in DOMAIN t /\ t[k] = list[k]
      BY <1>2
    <3> QED BY <3>1 DEF Range
  <2>3. e \in Range(t)
    <3>1. Len(list) + 1 \in DOMAIN t
      BY <1>2
    <3> QED BY <1>2, <3>1 DEF Range
  <2> QED BY <2>1, <2>2, <2>3 DEF Range
<1>4. ASSUME IsInjective(list), e \notin Range(list) PROVE IsInjective(t)
  <2>1. \A k \in 1..Len(list) : list[k] # e
    BY <1>2, <1>4 DEF Range
  <2>2. \A j, k \in 1..Len(list) : list[j] = list[k] => j = k
    BY <1>2, <1>4 DEF IsInjective
  <2> QED BY <1>2, <2>1, <2>2 DEF IsInjective
<1> QED
  BY <1>1, <1>2, <1>3, <1>4

LEMMA AddServiceDoes ==
  ASSUME NEW s \in States, NEW service \in Services
  PROVE  AddService(s, service) =
           State(s.doc.verificationMethod, Append(s.doc.services, canonicalID(service.id)),
                 s.doc.refs, s.status)
<1>1. PICK x : x = Append(s.doc.services, canonicalID(service.id))
  OBVIOUS
<1>2. AddService(s, service) = [s EXCEPT !.doc = [s.doc EXCEPT !.services = x]]
  BY <1>1 DEF AddService, States
<1>3. [s.doc EXCEPT !.services = x]
        = [verificationMethod |-> s.doc.verificationMethod, services |-> x, refs |-> s.doc.refs]
  BY DEF States, Document
<1>4. PICK D : D = [s.doc EXCEPT !.services = x]
  OBVIOUS
<1>5. [s EXCEPT !.doc = D] = [doc |-> D, status |-> s.status]
  BY DEF States
<1> QED
  BY <1>1, <1>2, <1>3, <1>4, <1>5 DEF State

(* The ids of the first k members of a list, as the document writes them.  *)
Added(list, k)   == {canonicalID(list[i].id) : i \in 1..k}
Removed(list, k) == {canonicalID(list[i]) : i \in 1..k}

LEMMA AddedGrows ==
  ASSUME NEW list, NEW n \in Nat, NEW k \in 1..n
  PROVE  /\ Added(list, 0) = {} /\ Removed(list, 0) = {}
         /\ Added(list, k) = Added(list, k - 1) \cup {canonicalID(list[k].id)}
         /\ Removed(list, k) = Removed(list, k - 1) \cup {canonicalID(list[k])}
<1>1. 1..k = 1..(k - 1) \cup {k} /\ 1..0 = {}
  OBVIOUS
<1> QED
  BY <1>1 DEF Added, Removed

LEMMA AddedNone == \A list : Added(list, 0) = {} /\ Removed(list, 0) = {}
<1>1. 1..0 = {}
  OBVIOUS
<1> QED
  BY <1>1 DEF Added, Removed

LEMMA ServicesAdded ==
  ASSUME NEW base \in States, NEW list \in Seq(Services),
         IsInjective(base.doc.services),
         \A i, j \in 1..Len(list) : canonicalID(list[i].id) = canonicalID(list[j].id) => i = j,
         \A i \in 1..Len(list) : canonicalID(list[i].id) \notin Range(base.doc.services)
  PROVE  /\ AddServices(base, list) \in States
         /\ AddServices(base, list).status = base.status
         /\ AddServices(base, list).doc.verificationMethod = base.doc.verificationMethod
         /\ AddServices(base, list).doc.refs = base.doc.refs
         /\ IsInjective(AddServices(base, list).doc.services)
         /\ Range(AddServices(base, list).doc.services)
              = Range(base.doc.services) \cup Added(list, Len(list))
<1>1. PICK run \in [0..Len(list) -> States] :
        /\ run[0] = base /\ run[Len(list)] = AddServices(base, list)
        /\ \A k \in 1..Len(list) : run[k] = AddService(run[k - 1], list[k])
  BY AddServiceLoop
<1> DEFINE n == Len(list)
           Good(k) == /\ run[k].status = base.status
                      /\ run[k].doc.verificationMethod = base.doc.verificationMethod
                      /\ run[k].doc.refs = base.doc.refs
                      /\ IsInjective(run[k].doc.services)
                      /\ Range(run[k].doc.services)
                           = Range(base.doc.services) \cup Added(list, k)
           T == {k \in 0..n : Good(k)}
<1>2. n \in Nat /\ n \in 0..n
  OBVIOUS
<1>3. Good(0)
  BY <1>1, AddedNone
<1>4. ASSUME NEW k \in 1..n, Good(k - 1) PROVE Good(k)
  <2>1. PICK x : x = run[k - 1]
    OBVIOUS
  <2>0. k \in 0..n /\ k - 1 \in 0..n /\ list[k] \in Services
    BY <1>2
  <2>2. PICK e \in CanonicalIds : e = canonicalID(list[k].id)
    <3>1. list[k].id \in Ids
      BY <2>0 DEF Services
    <3> QED BY <3>1, CanonicalType
  <2>3. x \in States /\ x.doc.services \in Seq(CanonicalIds)
    <3>1. x \in States
      BY <2>0, <2>1
    <3> QED BY <3>1, StateShape
  <2>4. e \notin Range(x.doc.services)
    <3>1. ASSUME e \in Added(list, k - 1) PROVE FALSE
      <4>1. PICK i \in 1..(k - 1) : e = canonicalID(list[i].id)
        BY <3>1 DEF Added
      <4>2. i \in 1..n /\ i # k
        BY <1>2, <4>1
      <4> QED BY <2>2, <4>1, <4>2
    <3> QED BY <1>4, <2>1, <2>2, <3>1
  <2>5. run[k] = State(x.doc.verificationMethod, Append(x.doc.services, e), x.doc.refs, x.status)
    BY <1>1, <2>0, <2>1, <2>2, <2>3, AddServiceDoes
  <2>6. /\ Range(Append(x.doc.services, e)) = Range(x.doc.services) \cup {e}
        /\ IsInjective(Append(x.doc.services, e))
    BY <1>4, <2>1, <2>3, <2>4, AppendUnique
  <2>7. Added(list, k) = Added(list, k - 1) \cup {e}
    BY <1>2, <2>2, AddedGrows, SMTT(30)
  <2> QED BY <1>4, <2>1, <2>5, <2>6, <2>7, StateOf
<1> HIDE DEF Good
<1>5. n \in T
  <2>1. T \in SUBSET (0..n) /\ 0 \in T
    BY <1>2, <1>3
  <2>2. \A k \in 1..n : k - 1 \in T => k \in T
    BY <1>4
  <2> HIDE DEF T
  <2> QED BY <1>2, <2>1, <2>2, Counting
<1>6. Good(n) /\ run[n] \in States
  BY <1>2, <1>5
<1> QED
  BY <1>1, <1>6 DEF Good

LEMMA ServicesRemoved ==
  ASSUME NEW base \in Neat, base.status = "building", NEW list \in Seq(Ids)
  PROVE  /\ RemoveServices(base, list) \in Neat
         /\ RemoveServices(base, list).status = "building"
         /\ RemoveServices(base, list).doc.verificationMethod = base.doc.verificationMethod
         /\ RemoveServices(base, list).doc.refs = base.doc.refs
         /\ Range(RemoveServices(base, list).doc.services)
              = Range(base.doc.services) \ Removed(list, Len(list))
<1>1. PICK run \in [0..Len(list) -> Neat] :
        /\ run[0] = base /\ run[Len(list)] = RemoveServices(base, list)
        /\ \A k \in 1..Len(list) : run[k] = RemoveService(run[k - 1], list[k])
  <2>1. \A x \in Neat, k \in 1..Len(list) : RemoveService(x, list[k]) \in Neat
    BY RemoveServiceNeat
  <2> QED BY <2>1, RemoveServiceLoop, SMTT(30)
<1> DEFINE n == Len(list)
           Good(k) == /\ run[k].status = "building"
                      /\ run[k].doc.verificationMethod = base.doc.verificationMethod
                      /\ run[k].doc.refs = base.doc.refs
                      /\ Range(run[k].doc.services)
                           = Range(base.doc.services) \ Removed(list, k)
           T == {k \in 0..n : Good(k)}
<1>2. n \in Nat /\ n \in 0..n
  OBVIOUS
<1>3. Good(0)
  BY <1>1, AddedNone
<1>4. ASSUME NEW k \in 1..n, Good(k - 1) PROVE Good(k)
  <2>1. PICK x \in Neat : x = run[k - 1]
    BY <1>2
  <2>2. list[k] \in Ids /\ run[k] = RemoveService(x, list[k])
    BY <1>1, <2>1
  <2>3. /\ run[k].status = "building"
        /\ run[k].doc.verificationMethod = x.doc.verificationMethod /\ run[k].doc.refs = x.doc.refs
        /\ Range(run[k].doc.services) = Range(x.doc.services) \ {canonicalID(list[k])}
    <3>1. x.status = "building"
      BY <1>4, <2>1
    <3>2. PICK t : t = RemoveService(x, list[k])
      OBVIOUS
    <3>3. /\ t.status = "building"
          /\ t.doc.verificationMethod = x.doc.verificationMethod /\ t.doc.refs = x.doc.refs
          /\ Range(t.doc.services) = Range(x.doc.services) \ {canonicalID(list[k])}
      BY <2>1, <2>2, <3>1, <3>2, RemoveServiceDoes
    <3> QED BY <2>2, <3>2, <3>3
  <2>4. Removed(list, k) = Removed(list, k - 1) \cup {canonicalID(list[k])}
    BY <1>2, AddedGrows
  <2> QED BY <1>4, <2>1, <2>3, <2>4
<1> HIDE DEF Good
<1>5. n \in T
  <2>1. T \in SUBSET (0..n) /\ 0 \in T
    BY <1>2, <1>3
  <2>2. \A k \in 1..n : k - 1 \in T => k \in T
    BY <1>4
  <2> HIDE DEF T
  <2> QED BY <1>2, <2>1, <2>2, Counting
<1>6. Good(n) /\ run[n] \in Neat
  BY <1>2, <1>5
<1> QED
  BY <1>1, <1>6 DEF Good

(* One round of the switch over the purposes of a key.                     *)
LEMMA AddPurposeDoes ==
  ASSUME NEW s \in States, NEW id \in CanonicalIds, NEW p \in Purposes \cup {BadPurpose},
         s.status = "building"
  PROVE  AddPurpose(s, id, p) =
           IF p \in Purposes
           THEN State(s.doc.verificationMethod, s.doc.services,
                      [s.doc.refs EXCEPT ![p] = Append(s.doc.refs[p], id)], "building")
           ELSE State(s.doc.verificationMethod, s.doc.services, s.doc.refs, "error")
<1>1. s.doc \in Document /\ ~Ended(s)
  BY StateShape DEF Ended
<1>2. CASE p \notin Purposes
  <2>1. AddPurpose(s, id, p) = [s EXCEPT !.status = "error"]
    BY <1>1, <1>2 DEF AddPurpose
  <2> QED BY <1>2, <2>1, StateShape DEF State
<1>3. CASE p \in Purposes
  <2>1. AddPurpose(s, id, p) = [s EXCEPT !.doc.refs[p] = Append(@, id)]
    BY <1>1, <1>3 DEF AddPurpose
  <2>2. PICK R : R = [s.doc.refs EXCEPT ![p] = Append(s.doc.refs[p], id)]
    OBVIOUS
  <2>3. PICK D : D = [s.doc EXCEPT !.refs = R]
    OBVIOUS
  <2>4. AddPurpose(s, id, p) = [s EXCEPT !.doc = D]
    BY <1>1, <2>1, <2>2, <2>3 DEF States, Document
  <2>5. D = [verificationMethod |-> s.doc.verificationMethod, services |-> s.doc.services,
             refs |-> R]
    BY <1>1, <2>3 DEF Document
  <2>6. AddPurpose(s, id, p) = [doc |-> D, status |-> "building"]
    BY <2>4 DEF States
  <2> QED BY <1>3, <2>2, <2>5, <2>6 DEF State
<1> QED
  BY <1>2, <1>3

(* The reference to a key that one of its purposes adds to the list of p.  *)
RefIn(id, p, seen)     == {x \in {id} : p \in seen}
RefOf(id, p, purposes) == RefIn(id, p, Range(purposes))

(* The purposes of one key: the loop ends in an error at the first purpose *)
(* it does not know, and otherwise adds the id to the lists named.         *)
LEMMA PurposesAdded ==
  ASSUME NEW base \in States, base.status = "building", NEW id \in CanonicalIds,
         NEW list \in Seq(Purposes \cup {BadPurpose}), IsInjective(list),
         \A p \in Purposes : IsInjective(base.doc.refs[p]) /\ id \notin Range(base.doc.refs[p])
  PROVE  \E t \in States :
           /\ t = AddPurposes(base, id, list)
           /\ Range(list) \subseteq Purposes =>
                /\ t.status = "building"
                /\ t.doc.verificationMethod = base.doc.verificationMethod
                /\ t.doc.services = base.doc.services
                /\ \A p \in Purposes :
                     /\ IsInjective(t.doc.refs[p])
                     /\ Range(t.doc.refs[p]) = Range(base.doc.refs[p])
                                                 \cup RefOf(id, p, list)
           /\ ~(Range(list) \subseteq Purposes) => t.status = "error"
<1>1. PICK run \in [0..Len(list) -> States] :
        /\ run[0] = base /\ run[Len(list)] = AddPurposes(base, id, list)
        /\ \A k \in 1..Len(list) : run[k] = AddPurpose(run[k - 1], id, list[k])
  BY AddPurposeLoop
<1> DEFINE n == Len(list)
           Seen(k) == {list[i] : i \in 1..k}
           Fine(k) == /\ run[k].status = "building" /\ Seen(k) \subseteq Purposes
                      /\ run[k].doc.verificationMethod = base.doc.verificationMethod
                      /\ run[k].doc.services = base.doc.services
                      /\ \A p \in Purposes :
                           /\ IsInjective(run[k].doc.refs[p])
                           /\ Range(run[k].doc.refs[p])
                                = Range(base.doc.refs[p]) \cup RefIn(id, p, Seen(k))
           Broken(k) == run[k].status = "error" /\ ~(Seen(k) \subseteq Purposes)
           T == {k \in 0..n : Fine(k) \/ Broken(k)}
<1>2. n \in Nat /\ n \in 0..n /\ DOMAIN list = 1..n
  OBVIOUS
<1>3. Fine(0)
  <2>1. Seen(0) = {}
    <3>1. 1..0 = {}
      OBVIOUS
    <3> QED BY <3>1
  <2> HIDE DEF Seen
  <2> QED BY <1>1, <2>1 DEF RefIn
<1>4. ASSUME NEW k \in 1..n, Fine(k - 1) \/ Broken(k - 1) PROVE Fine(k) \/ Broken(k)
  <2>0. /\ k \in 0..n /\ k - 1 \in 0..n /\ list[k] \in Purposes \cup {BadPurpose}
        /\ run[k] = AddPurpose(run[k - 1], id, list[k])
    BY <1>1, <1>2
  <2>1. Seen(k) = Seen(k - 1) \cup {list[k]}
    <3>1. 1..k = 1..(k - 1) \cup {k}
      OBVIOUS
    <3> QED BY <3>1
  <2>2. list[k] \notin Seen(k - 1)
    <3>1. \A i \in 1..(k - 1) : i \in 1..n /\ i # k
      BY <1>2
    <3> QED BY <1>2, <3>1 DEF IsInjective
  <2> HIDE DEF Seen
  <2>3. PICK x \in States : x = run[k - 1]
    BY <2>0
  <2>4. PICK p \in Purposes \cup {BadPurpose} : p = list[k]
    BY <2>0
  <2>5. CASE Broken(k - 1)
    <3>1. run[k] = x
      BY <2>0, <2>3, <2>5 DEF AddPurpose, Ended
    <3> QED BY <2>1, <2>3, <2>5, <3>1
  <2>6. CASE Fine(k - 1) /\ p \notin Purposes
    <3>1. run[k] = State(x.doc.verificationMethod, x.doc.services, x.doc.refs, "error")
      <4>1. run[k] = AddPurpose(x, id, p) /\ x.status = "building"
        BY <2>0, <2>3, <2>4, <2>6
      <4> QED BY <2>6, <4>1, AddPurposeDoes
    <3> QED BY <2>1, <2>4, <2>6, <3>1, StateOf
  <2>7. CASE Fine(k - 1) /\ p \in Purposes
    <3> DEFINE R == [x.doc.refs EXCEPT ![p] = Append(x.doc.refs[p], id)]
    <3>1. run[k] = State(x.doc.verificationMethod, x.doc.services, R, "building")
      BY <2>0, <2>3, <2>4, <2>7, AddPurposeDoes
    <3>2. x.doc.refs \in [Purposes -> Seq(CanonicalIds)]
      BY StateShape
    <3>3. R[p] = Append(x.doc.refs[p], id) /\ \A q \in Purposes \ {p} : R[q] = x.doc.refs[q]
      BY <2>7, <3>2
    <3> HIDE DEF R
    <3>4. /\ run[k].status = "building" /\ run[k].doc.refs = R
          /\ run[k].doc.verificationMethod = x.doc.verificationMethod
          /\ run[k].doc.services = x.doc.services
      BY <3>1, StateOf
    <3>5. /\ \A q \in Purposes : IsInjective(x.doc.refs[q])
          /\ \A q \in Purposes : Range(x.doc.refs[q])
               = Range(base.doc.refs[q]) \cup RefIn(id, q, Seen(k - 1))
      BY <2>3, <2>7
    <3>6. Range(R[p]) = Range(x.doc.refs[p]) \cup {id} /\ IsInjective(R[p])
      <4>1. x.doc.refs[p] \in Seq(CanonicalIds) /\ IsInjective(x.doc.refs[p])
        BY <2>7, <3>2, <3>5
      <4>2. id \notin Range(x.doc.refs[p])
        BY <2>2, <2>4, <2>7, <3>5 DEF RefIn
      <4> QED BY <3>3, <4>1, <4>2, AppendUnique
    <3>7. ASSUME NEW q \in Purposes
          PROVE  /\ IsInjective(R[q])
                 /\ Range(R[q]) = Range(base.doc.refs[q]) \cup RefIn(id, q, Seen(k))
      <4>1. CASE q = p
        BY <2>1, <2>4, <3>5, <3>6, <4>1 DEF RefIn
      <4>2. CASE q # p
        BY <2>1, <2>4, <3>3, <3>5, <4>2 DEF RefIn
      <4> QED BY <4>1, <4>2
    <3> QED BY <2>1, <2>3, <2>4, <2>7, <3>4, <3>7
  <2> QED BY <1>4, <2>5, <2>6, <2>7
<1>5. Seen(n) = Range(list)
  BY <1>2 DEF Range
<1> HIDE DEF Fine, Broken, Seen
<1>6. n \in T
  <2>1. T \in SUBSET (0..n) /\ 0 \in T
    BY <1>2, <1>3
  <2>2. \A k \in 1..n : k - 1 \in T => k \in T
    BY <1>4
  <2> HIDE DEF T
  <2> QED BY <1>2, <2>1, <2>2, Counting
<1>7. run[n] \in States /\ (Fine(n) \/ Broken(n))
  BY <1>2, <1>6
<1>8. PICK t \in States : t = run[n]
  BY <1>7
<1> WITNESS t \in States
<1> QED
  BY <1>1, <1>5, <1>7, <1>8 DEF Fine, Broken, RefOf

(* One round of the add-public-keys loop.                                  *)
LEMMA AddPublicKeyDoes ==
  ASSUME NEW s \in States, s.status = "building", NeatDoc(s.doc),
         NEW key \in Keys, IsInjective(key.purposes),
         canonicalID(key.id) \notin Range(s.doc.verificationMethod)
  PROVE  \E t \in States :
           /\ t = AddPublicKey(s, key)
           /\ Range(key.purposes) \subseteq Purposes =>
                /\ t.status = "building" /\ NeatDoc(t.doc)
                /\ Range(t.doc.verificationMethod)
                     = Range(s.doc.verificationMethod) \cup {canonicalID(key.id)}
                /\ t.doc.services = s.doc.services
                /\ \A p \in Purposes :
                     Range(t.doc.refs[p]) = Range(s.doc.refs[p])
                       \cup RefOf(canonicalID(key.id), p, key.purposes)
           /\ ~(Range(key.purposes) \subseteq Purposes) => t.status = "error"
<1>1. /\ key.id \in Ids /\ key.purposes \in Seq(Purposes \cup {BadPurpose})
      /\ canonicalID(key.id) \in CanonicalIds /\ ~Ended(s)
  BY CanonicalType DEF Keys, Ended
<1>2. PICK id \in CanonicalIds : id = canonicalID(key.id)
  BY <1>1
<1>3. PICK list \in Seq(Purposes \cup {BadPurpose}) : list = key.purposes
  BY <1>1
<1>4. PICK vm : vm = Append(s.doc.verificationMethod, id)
  OBVIOUS
<1>5. /\ s.doc.verificationMethod \in Seq(CanonicalIds) /\ s.doc.services \in Seq(CanonicalIds)
      /\ s.doc.refs \in [Purposes -> Seq(CanonicalIds)]
  BY StateShape
<1>6. /\ vm \in Seq(CanonicalIds) /\ IsInjective(vm)
      /\ Range(vm) = Range(s.doc.verificationMethod) \cup {id}
  BY <1>2, <1>4, <1>5, AppendUnique DEF NeatDoc
<1>7. PICK base \in States : base = State(vm, s.doc.services, s.doc.refs, "building")
  BY <1>5, <1>6, StateType
<1>8. [s EXCEPT !.doc.verificationMethod = Append(@, id)] = base
  <2>1. PICK D : D = [s.doc EXCEPT !.verificationMethod = vm]
    OBVIOUS
  <2>2. [s EXCEPT !.doc.verificationMethod = Append(@, id)] = [s EXCEPT !.doc = D]
    BY <1>4, <2>1 DEF States, Document
  <2>3. D = [verificationMethod |-> vm, services |-> s.doc.services, refs |-> s.doc.refs]
    <3>1. s.doc \in Document
      BY StateShape
    <3> QED BY <2>1, <3>1 DEF Document
  <2>4. [s EXCEPT !.doc = D] = [doc |-> D, status |-> "building"]
    BY DEF States
  <2> QED BY <1>7, <2>2, <2>3, <2>4 DEF State
<1>9. /\ base.status = "building" /\ base.doc.verificationMethod = vm
      /\ base.doc.services = s.doc.services /\ base.doc.refs = s.doc.refs
  BY <1>7, StateOf
<1>10. AddPublicKey(s, key) = AddPurposes(base, id, list)
  <2>1. PICK b : b = [s EXCEPT !.doc.verificationMethod = Append(@, id)]
    OBVIOUS
  <2>2. AddPublicKey(s, key) = AddPurposes(b, id, list)
    BY <1>1, <1>2, <1>3, <2>1 DEF AddPublicKey, AddPurposes
  <2> QED BY <1>8, <2>1, <2>2
<1>11. \A p \in Purposes : IsInjective(base.doc.refs[p]) /\ id \notin Range(base.doc.refs[p])
  BY <1>2, <1>9 DEF NeatDoc
<1>12. PICK t \in States :
         /\ t = AddPurposes(base, id, list)
         /\ Range(list) \subseteq Purposes =>
              /\ t.status = "building"
              /\ t.doc.verificationMethod = base.doc.verificationMethod
              /\ t.doc.services = base.doc.services
              /\ \A p \in Purposes :
                   /\ IsInjective(t.doc.refs[p])
                   /\ Range(t.doc.refs[p]) = Range(base.doc.refs[p])
                                               \cup RefOf(id, p, list)
         /\ ~(Range(list) \subseteq Purposes) => t.status = "error"
  <2>1. base.status = "building" /\ IsInjective(list)
    BY <1>3, <1>9
  <2> QED BY <1>11, <2>1, PurposesAdded
<1>13. t = AddPublicKey(s, key)
  BY <1>10, <1>12
<1>14. ASSUME Range(list) \subseteq Purposes
       PROVE  /\ t.status = "building" /\ NeatDoc(t.doc)
              /\ Range(t.doc.verificationMethod) = Range(s.doc.verificationMethod) \cup {id}
              /\ t.doc.services = s.doc.services
              /\ \A p \in Purposes : Range(t.doc.refs[p])
                   = Range(s.doc.refs[p]) \cup RefOf(id, p, list)
  <2>1. /\ t.status = "building" /\ t.doc.verificationMethod = vm
        /\ t.doc.services = s.doc.services
        /\ \A p \in Purposes :
             /\ IsInjective(t.doc.refs[p])
             /\ Range(t.doc.refs[p]) = Range(s.doc.refs[p]) \cup RefOf(id, p, list)
    BY <1>9, <1>12, <1>14
  <2>2. NeatDoc(t.doc)
    BY <1>6, <2>1 DEF NeatDoc, RefOf, RefIn
  <2> QED BY <1>6, <2>1, <2>2
<1> WITNESS t \in States
<1> QED
  BY <1>2, <1>3, <1>12, <1>13, <1>14

(* Every purpose of the first k keys is known; the references they bring.  *)
Known(list, k)       == \A i \in 1..k : Range(list[i].purposes) \subseteq Purposes
AddedFor(list, p, k) ==
  {canonicalID(list[i].id) : i \in {j \in 1..k : p \in Range(list[j].purposes)}}

LEMMA AddedForGrows ==
  ASSUME NEW list \in Seq(Keys), NEW n \in Nat, NEW k \in 1..n, NEW p \in Purposes
  PROVE  AddedFor(list, p, k) = AddedFor(list, p, k - 1)
           \cup RefOf(canonicalID(list[k].id), p, list[k].purposes)
<1>1. 1..k = 1..(k - 1) \cup {k}
  OBVIOUS
<1> QED
  BY <1>1 DEF AddedFor, RefOf, RefIn

LEMMA KnownNone == \A list : Known(list, 0) /\ \A p \in Purposes : AddedFor(list, p, 0) = {}
<1>1. 1..0 = {}
  OBVIOUS
<1> QED
  BY <1>1 DEF Known, AddedFor

LEMMA KeysAdded ==
  ASSUME NEW base \in States, base.status = "building", NeatDoc(base.doc),
         NEW list \in Seq(Keys),
         \A i \in 1..Len(list) : IsInjective(list[i].purposes),
         \A i, j \in 1..Len(list) : canonicalID(list[i].id) = canonicalID(list[j].id) => i = j,
         \A i \in 1..Len(list) : canonicalID(list[i].id) \notin Range(base.doc.verificationMethod)
  PROVE  \E t \in States :
           /\ t = AddPublicKeys(base, list)
           /\ Known(list, Len(list)) =>
                /\ t.status = "building" /\ NeatDoc(t.doc)
                /\ Range(t.doc.verificationMethod)
                     = Range(base.doc.verificationMethod) \cup Added(list, Len(list))
                /\ t.doc.services = base.doc.services
                /\ \A p \in Purposes : Range(t.doc.refs[p])
                     = Range(base.doc.refs[p]) \cup AddedFor(list, p, Len(list))
           /\ ~Known(list, Len(list)) => t.status = "error"
<1>1. PICK run \in [0..Len(list) -> States] :
        /\ run[0] = base /\ run[Len(list)] = AddPublicKeys(base, list)
        /\ \A k \in 1..Len(list) : run[k] = AddPublicKey(run[k - 1], list[k])
  BY AddPublicKeyLoop
<1> DEFINE n == Len(list)
           Fine(k) == /\ run[k].status = "building" /\ NeatDoc(run[k].doc) /\ Known(list, k)
                      /\ Range(run[k].doc.verificationMethod)
                           = Range(base.doc.verificationMethod) \cup Added(list, k)
                      /\ run[k].doc.services = base.doc.services
                      /\ \A p \in Purposes : Range(run[k].doc.refs[p])
                           = Range(base.doc.refs[p]) \cup AddedFor(list, p, k)
           Broken(k) == run[k].status = "error" /\ ~Known(list, k)
           T == {k \in 0..n : Fine(k) \/ Broken(k)}
<1>2. n \in Nat /\ n \in 0..n /\ DOMAIN list = 1..n
  OBVIOUS
<1>3. Fine(0)
  BY <1>1, AddedNone, KnownNone
<1>4. ASSUME NEW k \in 1..n, Fine(k - 1) \/ Broken(k - 1) PROVE Fine(k) \/ Broken(k)
  <2>0. /\ k \in 0..n /\ k - 1 \in 0..n /\ list[k] \in Keys
        /\ run[k] = AddPublicKey(run[k - 1], list[k])
    BY <1>1, <1>2
  <2>1. PICK x \in States : x = run[k - 1]
    BY <2>0
  <2>2. PICK key \in Keys : key = list[k]
    BY <2>0
  <2>3. Known(list, k) <=> Known(list, k - 1) /\ Range(key.purposes) \subseteq Purposes
    <3>1. 1..k = 1..(k - 1) \cup {k}
      OBVIOUS
    <3> QED BY <2>2, <3>1 DEF Known
  <2>4. CASE Broken(k - 1)
    <3>1. run[k] = x
      BY <2>0, <2>1, <2>4 DEF AddPublicKey, Ended
    <3> QED BY <2>1, <2>3, <2>4, <3>1
  <2>5. CASE Fine(k - 1)
    <3>1. canonicalID(key.id) \notin Range(x.doc.verificationMethod)
      <4>1. ASSUME canonicalID(key.id) \in Added(list, k - 1) PROVE FALSE
        <5>1. PICK i \in 1..(k - 1) : canonicalID(key.id) = canonicalID(list[i].id)
          BY <4>1 DEF Added
        <5>2. i \in 1..n /\ i # k
          BY <1>2, <5>1
        <5> QED BY <2>2, <5>1, <5>2
      <4> QED BY <2>1, <2>2, <2>5, <4>1
    <3>2. PICK t \in States :
            /\ t = AddPublicKey(x, key)
            /\ Range(key.purposes) \subseteq Purposes =>
                 /\ t.status = "building" /\ NeatDoc(t.doc)
                 /\ Range(t.doc.verificationMethod)
                      = Range(x.doc.verificationMethod) \cup {canonicalID(key.id)}
                 /\ t.doc.services = x.doc.services
                 /\ \A p \in Purposes :
                      Range(t.doc.refs[p]) = Range(x.doc.refs[p])
                        \cup RefOf(canonicalID(key.id), p, key.purposes)
            /\ ~(Range(key.purposes) \subseteq Purposes) => t.status = "error"
      <4>1. x.status = "building" /\ NeatDoc(x.doc) /\ IsInjective(key.purposes)
        BY <2>1, <2>2, <2>5
      <4> QED BY <3>1, <4>1, AddPublicKeyDoes
    <3>3. run[k] = t
      BY <2>0, <2>1, <2>2, <3>2
    <3>4. CASE ~(Range(key.purposes) \subseteq Purposes)
      BY <2>3, <3>2, <3>3, <3>4
    <3>5. CASE Range(key.purposes) \subseteq Purposes
      <4>1. Range(t.doc.verificationMethod)
              = Range(base.doc.verificationMethod) \cup Added(list, k)
        <5>1. Added(list, k) = Added(list, k - 1) \cup {canonicalID(key.id)}
          BY <1>2, <2>2, AddedGrows, SMTT(30)
        <5> QED BY <2>1, <2>5, <3>2, <3>5, <5>1
      <4>2. ASSUME NEW p \in Purposes
            PROVE  Range(t.doc.refs[p]) = Range(base.doc.refs[p]) \cup AddedFor(list, p, k)
        <5>1. AddedFor(list, p, k) = AddedFor(list, p, k - 1)
                \cup RefOf(canonicalID(key.id), p, key.purposes)
          BY <1>2, <2>2, AddedForGrows
        <5>2. Range(x.doc.refs[p]) = Range(base.doc.refs[p]) \cup AddedFor(list, p, k - 1)
          BY <2>1, <2>5
        <5>3. Range(t.doc.refs[p]) = Range(x.doc.refs[p])
                \cup RefOf(canonicalID(key.id), p, key.purposes)
          BY <3>2, <3>5
        <5> QED BY <5>1, <5>2, <5>3
      <4>3. /\ t.status = "building" /\ NeatDoc(t.doc) /\ Known(list, k)
            /\ t.doc.services = base.doc.services
        BY <2>1, <2>3, <2>5, <3>2, <3>5
      <4> QED BY <3>3, <4>1, <4>2, <4>3
    <3> QED BY <3>4, <3>5
  <2> QED BY <1>4, <2>4, <2>5
<1> HIDE DEF Fine, Broken
<1>6. n \in T
  <2>1. T \in SUBSET (0..n) /\ 0 \in T
    BY <1>2, <1>3
  <2>2. \A k \in 1..n : k - 1 \in T => k \in T
    BY <1>4
  <2> HIDE DEF T
  <2> QED BY <1>2, <2>1, <2>2, Counting
<1>7. run[n] \in States /\ (Fine(n) \/ Broken(n))
  BY <1>2, <1>6
<1>8. PICK t \in States : t = run[n]
  BY <1>7
<1> WITNESS t \in States
<1> QED
  BY <1>1, <1>7, <1>8 DEF Fine, Broken

LEMMA KeysRemoved ==
  ASSUME NEW base \in Neat, base.status = "building", NEW list \in Seq(Ids),
         \A i, j \in 1..Len(list) : canonicalID(list[i]) = canonicalID(list[j]) => i = j
  PROVE  \E t \in Neat :
           /\ t = RemovePublicKeys(base, list)
           /\ Removed(list, Len(list)) \subseteq Range(base.doc.verificationMethod) =>
                /\ t.status = "building" /\ t.doc.services = base.doc.services
                /\ Range(t.doc.verificationMethod)
                     = Range(base.doc.verificationMethod) \ Removed(list, Len(list))
                /\ \A p \in Purposes : Range(t.doc.refs[p])
                     = Range(base.doc.refs[p]) \ Removed(list, Len(list))
           /\ ~(Removed(list, Len(list)) \subseteq Range(base.doc.verificationMethod)) =>
                t.status = "error"
<1>1. PICK run \in [0..Len(list) -> Neat] :
        /\ run[0] = base /\ run[Len(list)] = RemovePublicKeys(base, list)
        /\ \A k \in 1..Len(list) : run[k] = RemovePublicKey(run[k - 1], list[k])
  <2>1. \A x \in Neat, k \in 1..Len(list) : RemovePublicKey(x, list[k]) \in Neat
    BY RemovePublicKeyNeat
  <2> QED BY <2>1, RemovePublicKeyLoop
<1> DEFINE n == Len(list)
           Fine(k) == /\ run[k].status = "building" /\ run[k].doc.services = base.doc.services
                      /\ Removed(list, k) \subseteq Range(base.doc.verificationMethod)
                      /\ Range(run[k].doc.verificationMethod)
                           = Range(base.doc.verificationMethod) \ Removed(list, k)
                      /\ \A p \in Purposes : Range(run[k].doc.refs[p])
                           = Range(base.doc.refs[p]) \ Removed(list, k)
           Broken(k) == /\ run[k].status = "error"
                        /\ ~(Removed(list, k) \subseteq Range(base.doc.verificationMethod))
           T == {k \in 0..n : Fine(k) \/ Broken(k)}
<1>2. n \in Nat /\ n \in 0..n /\ DOMAIN list = 1..n
  OBVIOUS
<1>3. Fine(0)
  BY <1>1, AddedNone
<1>4. ASSUME NEW k \in 1..n, Fine(k - 1) \/ Broken(k - 1) PROVE Fine(k) \/ Broken(k)
  <2>0. /\ k \in 0..n /\ k - 1 \in 0..n /\ list[k] \in Ids
        /\ run[k] = RemovePublicKey(run[k - 1], list[k])
    BY <1>1, <1>2
  <2>1. PICK x \in Neat : x = run[k - 1]
    BY <2>0
  <2>2. PICK rawId \in Ids : rawId = list[k]
    BY <2>0
  <2>3. PICK id : id = canonicalID(rawId)
    OBVIOUS
  <2>4. Removed(list, k) = Removed(list, k - 1) \cup {id}
    BY <1>2, <2>2, <2>3, AddedGrows
  <2>5. PICK t \in Neat :
          /\ t = run[k]
          /\ x.status = "error" => t = x
          /\ x.status = "building" /\ id \notin Range(x.doc.verificationMethod)
               => t.status = "error"
          /\ x.status = "building" /\ id \in Range(x.doc.verificationMethod) =>
               /\ t.status = "building" /\ t.doc.services = x.doc.services
               /\ Range(t.doc.verificationMethod) = Range(x.doc.verificationMethod) \ {id}
               /\ \A p \in Purposes : Range(t.doc.refs[p]) = Range(x.doc.refs[p]) \ {id}
    <3>1. PICK t : t = RemovePublicKey(x, rawId)
      OBVIOUS
    <3>2. t = run[k]
      BY <2>0, <2>1, <2>2, <3>1
    <3> QED BY <2>3, <3>1, <3>2, RemovePublicKeyDoes, ZenonT(30)
  <2>6. CASE Broken(k - 1)
    <3>1. t = x
      BY <2>1, <2>5, <2>6
    <3> QED BY <2>1, <2>4, <2>5, <2>6, <3>1
  <2>7. CASE Fine(k - 1)
    <3>1. /\ x.status = "building" /\ x.doc.services = base.doc.services
          /\ Range(x.doc.verificationMethod)
               = Range(base.doc.verificationMethod) \ Removed(list, k - 1)
          /\ \A p \in Purposes : Range(x.doc.refs[p])
               = Range(base.doc.refs[p]) \ Removed(list, k - 1)
      BY <2>1, <2>7
    <3>2. id \notin Removed(list, k - 1)
      <4>1. ASSUME id \in Removed(list, k - 1) PROVE FALSE
        <5>1. PICK i \in 1..(k - 1) : id = canonicalID(list[i])
          BY <4>1 DEF Removed
        <5>2. i \in 1..n /\ i # k
          BY <1>2, <5>1
        <5> QED BY <2>2, <2>3, <5>1, <5>2
      <4> QED BY <4>1
    <3>3. CASE id \notin Range(base.doc.verificationMethod)
      BY <2>4, <2>5, <3>1, <3>3
    <3>4. CASE id \in Range(base.doc.verificationMethod)
      <4>1. /\ t.status = "building" /\ t.doc.services = x.doc.services
            /\ Range(t.doc.verificationMethod) = Range(x.doc.verificationMethod) \ {id}
            /\ \A p \in Purposes : Range(t.doc.refs[p]) = Range(x.doc.refs[p]) \ {id}
        BY <2>5, <3>1, <3>2, <3>4
      <4>2. \A p \in Purposes : Range(t.doc.refs[p]) = Range(base.doc.refs[p]) \ Removed(list, k)
        BY <2>4, <3>1, <4>1
      <4>3. /\ t.doc.services = base.doc.services
            /\ Removed(list, k) \subseteq Range(base.doc.verificationMethod)
            /\ Range(t.doc.verificationMethod)
                 = Range(base.doc.verificationMethod) \ Removed(list, k)
        BY <2>4, <2>7, <3>1, <3>4, <4>1
      <4> QED BY <2>5, <4>1, <4>2, <4>3
    <3> QED BY <3>3, <3>4
  <2> QED BY <1>4, <2>6, <2>7
<1> HIDE DEF Fine, Broken
<1>6. n \in T
  <2>1. T \in SUBSET (0..n) /\ 0 \in T
    BY <1>2, <1>3
  <2>2. \A k \in 1..n : k - 1 \in T => k \in T
    BY <1>4
  <2> HIDE DEF T
  <2> QED BY <1>2, <2>1, <2>2, Counting
<1>7. run[n] \in Neat /\ (Fine(n) \/ Broken(n))
  BY <1>2, <1>6
<1>8. PICK t \in Neat : t = run[n]
  BY <1>7
<1> WITNESS t \in Neat
<1> QED
  BY <1>1, <1>7, <1>8 DEF Fine, Broken

(***************************************************************************)
(* The patches of requests, and the invariant of their application.        *)
(***************************************************************************)
Patches ==
  {p \in [action : {"replace", "add-services", "remove-services",
                    "add-public-keys", "remove-public-keys"},
          keys : Seq(Keys), services : Seq(Services), ids : Seq(Ids)] :
     /\ p.action \notin {"replace", "add-public-keys"} => p.keys = <<>>
     /\ p.action \notin {"replace", "add-services"} => p.services = <<>>}

(* What holds for as long as ids are introduced once, and a step that      *)
(* keeps it so.                                                            *)
DocInv ==
  /\ status \in {"building", "returned", "error"}
  /\ doc \in Document /\ NeatDoc(doc)
  /\ todo \in Seq(Patches)

FreshNext ==
  \/ todo # <<>> /\ AddsFreshIds(Head(todo)) /\ Apply
  \/ Return
  \/ \E change \in StateChanges : Extend(change)

OnceInv == once \in BOOLEAN /\ (once => DocInv)

LEMMA EmptyIsNeat ==
  /\ EmptyDocument \in Document /\ NeatDoc(EmptyDocument)
  /\ Range(EmptyDocument.verificationMethod) = {} /\ Range(EmptyDocument.services) = {}
  /\ \A p \in Purposes : Range(EmptyDocument.refs[p]) = {}
<1>1. PICK e \in Seq(CanonicalIds) : e = <<>>
  <2>1. <<>> \in Seq(CanonicalIds)
    OBVIOUS
  <2> QED BY <2>1
<1>2. DOMAIN e = {}
  BY <1>1
<1>3. IsInjective(e) /\ Range(e) = {}
  BY <1>2 DEF IsInjective, Range
<1>4. /\ EmptyDocument.verificationMethod = e /\ EmptyDocument.services = e
      /\ EmptyDocument.refs = [p \in Purposes |-> e]
      /\ EmptyDocument = [verificationMethod |-> e, services |-> e, refs |-> [p \in Purposes |-> e]]
  BY <1>1 DEF EmptyDocument
<1>5. EmptyDocument \in Document
  BY <1>4 DEF Document
<1>6. \A p \in Purposes : EmptyDocument.refs[p] = e
  BY <1>4
<1> QED
  BY <1>3, <1>4, <1>5, <1>6 DEF NeatDoc

LEMMA ReplaceMakesPatches ==
  ASSUME NEW document \in Documents
  PROVE  ReplacePatches(document) \in Seq(Patches)
<1>1. document.keys \in Seq(Keys) /\ document.services \in Seq(Services) /\ <<>> \in Seq(Ids)
  BY DocumentAssumption
<1>2. Patch("replace", document.keys, document.services, <<>>) \in Patches
  BY <1>1 DEF Patch, Patches
<1> QED
  BY <1>2 DEF ReplacePatches

LEMMA UpdateMakesPatches ==
  ASSUME NEW change \in StateChanges
  PROVE  UpdatePatches(change) \in Seq(Patches)
<1>1. /\ change.addServices \in Seq(Services) /\ change.removeServices \in Seq(Ids)
      /\ change.addKeys \in Seq(Keys) /\ change.removeKeys \in Seq(Ids)
  BY DocumentAssumption
<1>2. /\ Patch("add-services", <<>>, change.addServices, <<>>) \in Patches
      /\ Patch("remove-services", <<>>, <<>>, change.removeServices) \in Patches
      /\ Patch("add-public-keys", change.addKeys, <<>>, <<>>) \in Patches
      /\ Patch("remove-public-keys", <<>>, <<>>, change.removeKeys) \in Patches
  BY <1>1 DEF Patch, Patches
<1> DEFINE When(list, patch) == IF list = <<>> THEN <<>> ELSE <<patch>>
           a == When(change.addServices, Patch("add-services", <<>>, change.addServices, <<>>))
           b == When(change.removeServices,
                     Patch("remove-services", <<>>, <<>>, change.removeServices))
           c == When(change.addKeys, Patch("add-public-keys", change.addKeys, <<>>, <<>>))
           d == When(change.removeKeys,
                     Patch("remove-public-keys", <<>>, <<>>, change.removeKeys))
<1>3. a \in Seq(Patches) /\ b \in Seq(Patches) /\ c \in Seq(Patches) /\ d \in Seq(Patches)
  BY <1>2
<1>4. UpdatePatches(change) = a \o b \o c \o d
  BY DEF UpdatePatches
<1> HIDE DEF a, b, c, d
<1> QED
  BY <1>3, <1>4

(* The ids that a patch removes are distinct when they are as many as its  *)
(* list is long.                                                           *)
LEMMA RemovedDistinct ==
  ASSUME NEW patch \in Patches, Cardinality(RemovedIds(patch)) = Len(patch.ids)
  PROVE  \A i, j \in 1..Len(patch.ids) :
           canonicalID(patch.ids[i]) = canonicalID(patch.ids[j]) => i = j
<1>1. PICK list \in Seq(Ids) : list = patch.ids
  BY DEF Patches
<1> DEFINE n == Len(list)
           T == Removed(list, n)
           f == [i \in 1..n |-> canonicalID(list[i])]
<1>2. n \in Nat /\ DOMAIN list = 1..n
  OBVIOUS
<1>3. RemovedIds(patch) = T
  BY <1>1, <1>2 DEF RemovedIds, Removed, Range
<1>4. IsFiniteSet(1..n) /\ Cardinality(1..n) = n
  <2> HIDE DEF n
  <2>1. /\ IsFiniteSet(1..n) /\ 1 \in Int /\ n \in Int
        /\ Cardinality(1..n) = IF 1 > n THEN 0 ELSE n - 1 + 1
    BY <1>2, FS_Interval
  <2> QED BY <1>2, <2>1
<1>5. f \in [1..n -> T] /\ \A t \in T : \E i \in 1..n : f[i] = t
  BY DEF Removed
<1> HIDE DEF T, f
<1>6. f \in Surjection(1..n, T)
  BY <1>5, Fun_IsSurj
<1>7. Cardinality(T) = Cardinality(1..n)
  BY <1>1, <1>3, <1>4
<1>8. f \in Injection(1..n, T)
  <2> HIDE DEF n
  <2> QED BY <1>4, <1>6, <1>7, FS_Surjection
<1>9. \A i, j \in 1..n : f[i] = f[j] => i = j
  BY <1>8, Fun_IsInj DEF Injection, IsInjective
<1>10. \A i, j \in 1..n : canonicalID(list[i]) = canonicalID(list[j]) => i = j
  BY <1>9 DEF f
<1> QED
  BY <1>1, <1>10

LEMMA CanonicalAdded ==
  ASSUME NEW list, NEW n \in Nat, DOMAIN list = 1..n
  PROVE  /\ Range(Canonical(list)) = Added(list, n)
         /\ IsInjective(Canonical(list)) =>
              \A i, j \in 1..n : canonicalID(list[i].id) = canonicalID(list[j].id) => i = j
<1> DEFINE f == Canonical(list)
<1>1. DOMAIN f = 1..n /\ \A i \in 1..n : f[i] = canonicalID(list[i].id)
  BY DEF Canonical
<1> HIDE DEF f
<1>2. Range(f) = Added(list, n)
  BY <1>1 DEF Range, Added
<1>3. IsInjective(f) =>
        \A i, j \in 1..n : canonicalID(list[i].id) = canonicalID(list[j].id) => i = j
  BY <1>1 DEF IsInjective
<1> QED
  BY <1>2, <1>3 DEF f

(***************************************************************************)
(* A patch as IonDocumentAbs sees it.                                      *)
(***************************************************************************)
Pairs(d) == {r \in Purposes \X CanonicalIds : r[2] \in Range(d.refs[r[1]])}

(* Sets of pairs are equal when they agree on every purpose and id.        *)
LEMMA SamePairs ==
  ASSUME NEW A \in SUBSET (Purposes \X CanonicalIds), NEW B \in SUBSET (Purposes \X CanonicalIds),
         \A p \in Purposes, x \in CanonicalIds : <<p, x>> \in A <=> <<p, x>> \in B
  PROVE  A = B
<1>1. \A r \in Purposes \X CanonicalIds :
        r = <<r[1], r[2]>> /\ r[1] \in Purposes /\ r[2] \in CanonicalIds
  OBVIOUS
<1>2. ASSUME NEW r \in Purposes \X CanonicalIds PROVE r \in A <=> r \in B
  BY <1>1
<1> QED
  BY <1>2

LEMMA InPairs ==
  ASSUME NEW d \in Document
  PROVE  /\ Pairs(d) \in SUBSET (Purposes \X CanonicalIds)
         /\ \A p \in Purposes, x \in CanonicalIds : <<p, x>> \in Pairs(d) <=> x \in Range(d.refs[p])
BY DEF Pairs

LEMMA AbstractRefs ==
  ASSUME NEW patch \in Patches
  PROVE  /\ AbstractPatch(patch).refs \in SUBSET ((Purposes \cup {BadPurpose}) \X CanonicalIds)
         /\ (AbstractPatch(patch).refs \subseteq Purposes \X CanonicalIds)
              <=> Known(patch.keys, Len(patch.keys))
         /\ \A p \in Purposes, x \in CanonicalIds :
              <<p, x>> \in AbstractPatch(patch).refs
                <=> x \in AddedFor(patch.keys, p, Len(patch.keys))
<1>1. PICK list \in Seq(Keys) : list = patch.keys
  BY DEF Patches
<1> DEFINE n == Len(list)
           U == UNION {Range(list[k].purposes) \X {canonicalID(list[k].id)} : k \in DOMAIN list}
<1>2. AbstractPatch(patch).refs = U
  BY <1>1 DEF AbstractPatch
<1>3. n \in Nat /\ DOMAIN list = 1..n
  OBVIOUS
<1>4. ASSUME NEW k \in 1..n
      PROVE  /\ Range(list[k].purposes) \subseteq Purposes \cup {BadPurpose}
             /\ canonicalID(list[k].id) \in CanonicalIds
  <2>1. PICK key \in Keys : key = list[k]
    OBVIOUS
  <2>2. key.id \in Ids /\ key.purposes \in Seq(Purposes \cup {BadPurpose})
    BY DEF Keys
  <2>3. \A i \in DOMAIN key.purposes : key.purposes[i] \in Purposes \cup {BadPurpose}
    BY <2>2
  <2>4. Range(key.purposes) \subseteq Purposes \cup {BadPurpose}
    BY <2>3 DEF Range
  <2> QED BY <2>1, <2>2, <2>4, CanonicalType
<1>5. \A r : r \in U <=>
        \E k \in 1..n : r \in Range(list[k].purposes) \X {canonicalID(list[k].id)}
  BY <1>3
<1> HIDE DEF U
<1>6. \A p, x : <<p, x>> \in U <=>
        \E k \in 1..n : p \in Range(list[k].purposes) /\ x = canonicalID(list[k].id)
  BY <1>5
<1>7. U \in SUBSET ((Purposes \cup {BadPurpose}) \X CanonicalIds)
  <2> SUFFICES ASSUME NEW r, r \in U PROVE r \in (Purposes \cup {BadPurpose}) \X CanonicalIds
    OBVIOUS
  <2>1. PICK k \in 1..n : r \in Range(list[k].purposes) \X {canonicalID(list[k].id)}
    BY <1>5
  <2>2. r = <<r[1], r[2]>> /\ r[1] \in Range(list[k].purposes) /\ r[2] = canonicalID(list[k].id)
    BY <2>1
  <2>3. r[1] \in Purposes \cup {BadPurpose} /\ r[2] \in CanonicalIds
    BY <1>4, <2>2
  <2> QED BY <2>2, <2>3
<1>8. ASSUME U \subseteq Purposes \X CanonicalIds PROVE Known(list, n)
  <2> SUFFICES ASSUME NEW k \in 1..n, NEW p \in Range(list[k].purposes) PROVE p \in Purposes
    BY DEF Known
  <2>1. <<p, canonicalID(list[k].id)>> \in U
    BY <1>6
  <2> QED BY <1>8, <2>1
<1>9. ASSUME Known(list, n) PROVE U \subseteq Purposes \X CanonicalIds
  <2> SUFFICES ASSUME NEW r \in U PROVE r \in Purposes \X CanonicalIds
    OBVIOUS
  <2>1. PICK k \in 1..n : r \in Range(list[k].purposes) \X {canonicalID(list[k].id)}
    BY <1>5
  <2>2. r = <<r[1], r[2]>> /\ r[1] \in Range(list[k].purposes) /\ r[2] = canonicalID(list[k].id)
    BY <2>1
  <2>3. r[1] \in Purposes /\ r[2] \in CanonicalIds
    BY <1>4, <1>9, <2>2 DEF Known
  <2> QED BY <2>2, <2>3
<1>10. \A p \in Purposes, x \in CanonicalIds : <<p, x>> \in U <=> x \in AddedFor(list, p, n)
  BY <1>6 DEF AddedFor
<1> QED
  BY <1>1, <1>2, <1>7, <1>8, <1>9, <1>10

LEMMA AbstractSets ==
  ASSUME NEW patch \in Patches
  PROVE  /\ AbstractPatch(patch).action = patch.action
         /\ AbstractPatch(patch).services =
              IF patch.action = "remove-services" THEN Removed(patch.ids, Len(patch.ids))
              ELSE Added(patch.services, Len(patch.services))
         /\ AbstractPatch(patch).keys =
              IF patch.action = "remove-public-keys" THEN Removed(patch.ids, Len(patch.ids))
              ELSE Added(patch.keys, Len(patch.keys))
<1>1. patch.keys \in Seq(Keys) /\ patch.services \in Seq(Services) /\ patch.ids \in Seq(Ids)
  BY DEF Patches
<1>2. /\ Len(patch.keys) \in Nat /\ DOMAIN patch.keys = 1..Len(patch.keys)
      /\ Len(patch.services) \in Nat /\ DOMAIN patch.services = 1..Len(patch.services)
      /\ Len(patch.ids) \in Nat /\ DOMAIN patch.ids = 1..Len(patch.ids)
  BY <1>1
<1>3. RemovedIds(patch) = Removed(patch.ids, Len(patch.ids))
  BY <1>2 DEF RemovedIds, Removed, Range
<1>4. /\ Range(Canonical(patch.keys)) = Added(patch.keys, Len(patch.keys))
      /\ Range(Canonical(patch.services)) = Added(patch.services, Len(patch.services))
  BY <1>2, CanonicalAdded
<1>5. /\ AbstractPatch(patch).action = patch.action
      /\ AbstractPatch(patch).services = Range(Canonical(patch.services)) \cup
           IF patch.action = "remove-services" THEN RemovedIds(patch) ELSE {}
      /\ AbstractPatch(patch).keys = Range(Canonical(patch.keys)) \cup
           IF patch.action = "remove-public-keys" THEN RemovedIds(patch) ELSE {}
  BY DEF AbstractPatch
<1>6. /\ patch.action = "remove-services" => patch.services = <<>>
      /\ patch.action = "remove-public-keys" => patch.keys = <<>>
  BY DEF Patches
<1>7. \A list : list = <<>> => Added(list, Len(list)) = {}
  <2>1. Len(<<>>) = 0
    OBVIOUS
  <2> QED BY <2>1, AddedNone
<1> QED
  BY <1>3, <1>4, <1>5, <1>6, <1>7

LEMMA AddedType ==
  /\ \A list \in Seq(Keys) \cup Seq(Services) : Added(list, Len(list)) \subseteq CanonicalIds
  /\ \A list \in Seq(Ids) : Removed(list, Len(list)) \subseteq CanonicalIds
<1>1. ASSUME NEW list \in Seq(Keys), NEW i \in 1..Len(list)
      PROVE  canonicalID(list[i].id) \in CanonicalIds
  <2>1. list[i].id \in Ids
    <3>1. list[i] \in Keys
      OBVIOUS
    <3> QED BY <3>1 DEF Keys
  <2> QED BY <2>1, CanonicalType
<1>2. ASSUME NEW list \in Seq(Services), NEW i \in 1..Len(list)
      PROVE  canonicalID(list[i].id) \in CanonicalIds
  <2>1. list[i].id \in Ids
    <3>1. list[i] \in Services
      OBVIOUS
    <3> QED BY <3>1 DEF Services
  <2> QED BY <2>1, CanonicalType
<1>3. ASSUME NEW list \in Seq(Ids), NEW i \in 1..Len(list)
      PROVE  canonicalID(list[i]) \in CanonicalIds
  BY CanonicalType
<1> QED
  BY <1>1, <1>2, <1>3 DEF Added, Removed

LEMMA AbstractIsOp ==
  ASSUME NEW patch \in Patches
  PROVE  AbstractPatch(patch) \in Abs!Ops
<1>1. /\ AbstractPatch(patch).services \in SUBSET CanonicalIds
      /\ AbstractPatch(patch).keys \in SUBSET CanonicalIds
  <2>1. patch.keys \in Seq(Keys) /\ patch.services \in Seq(Services) /\ patch.ids \in Seq(Ids)
    BY DEF Patches
  <2> QED BY <2>1, AbstractSets, AddedType
<1>2. /\ AbstractPatch(patch).refs \in SUBSET ((Purposes \cup {BadPurpose}) \X CanonicalIds)
      /\ AbstractPatch(patch).action \in {"replace", "add-services", "remove-services",
                                          "add-public-keys", "remove-public-keys"}
  BY AbstractRefs, AbstractSets DEF Patches
<1>3. AbstractPatch(patch) =
        [action |-> AbstractPatch(patch).action, services |-> AbstractPatch(patch).services,
         keys |-> AbstractPatch(patch).keys, refs |-> AbstractPatch(patch).refs]
  BY DEF AbstractPatch
<1> QED
  BY <1>1, <1>2, <1>3 DEF Abs!Ops

(***************************************************************************)
(* What each patch does to a neat document.                                *)
(***************************************************************************)
Refuses(a, d) ==
  \/ a.action = "remove-public-keys" /\ ~(a.keys \subseteq Range(d.verificationMethod))
  \/ ~(a.refs \subseteq Purposes \X CanonicalIds)

Holds(d, K, S, R) ==
  Range(d.verificationMethod) = K /\ Range(d.services) = S /\ Pairs(d) = R

Yields(a, d, e) ==
  LET K == Range(d.verificationMethod)  S == Range(d.services)  R == Pairs(d) IN
  CASE a.action = "replace"            -> Holds(e, a.keys, a.services, a.refs)
    [] a.action = "add-services"       -> Holds(e, K, S \cup a.services, R)
    [] a.action = "remove-services"    -> Holds(e, K, S \ a.services, R)
    [] a.action = "add-public-keys"    -> Holds(e, K \cup a.keys, S, R \cup a.refs)
    [] a.action = "remove-public-keys" -> Holds(e, K \ a.keys, S, {r \in R : r[2] \notin a.keys})

Outcome(a, d, t) ==
  /\ Refuses(a, d) => t.status = "error"
  /\ ~Refuses(a, d) => t.status = "building" /\ NeatDoc(t.doc) /\ Yields(a, d, t.doc)

LEMMA StartState ==
  ASSUME NEW d \in Document, NeatDoc(d)
  PROVE  \E s \in Neat : /\ s = [doc |-> d, status |-> "building"]
                         /\ s.doc = d /\ s.status = "building"
<1>1. PICK s : s = [doc |-> d, status |-> "building"]
  OBVIOUS
<1>2. s \in States /\ s.doc = d /\ s.status = "building"
  BY <1>1 DEF States
<1>3. s \in Neat
  BY <1>2 DEF Neat
<1> QED
  BY <1>1, <1>2, <1>3

(* A patch that brings no keys is not refused for its purposes.            *)
LEMMA NoKeysNoRefs ==
  ASSUME NEW patch \in Patches, patch.keys = <<>>
  PROVE  AbstractPatch(patch).refs \subseteq Purposes \X CanonicalIds
<1>1. Len(patch.keys) = 0
  OBVIOUS
<1> QED
  BY <1>1, AbstractRefs, KnownNone

LEMMA AddServicesPatch ==
  ASSUME doc \in Document, NeatDoc(doc), NEW patch \in Patches, AddsFreshIds(patch),
         patch.action = "add-services"
  PROVE  \E t \in States :
           /\ t = ApplyPatch([doc |-> doc, status |-> "building"], patch)
           /\ Outcome(AbstractPatch(patch), doc, t)
<1>1. PICK s \in Neat : /\ s = [doc |-> doc, status |-> "building"]
                        /\ s.doc = doc /\ s.status = "building"
  BY StartState
<1>2. PICK list \in Seq(Services) : list = patch.services
  BY DEF Patches
<1>3. ApplyPatch(s, patch) = AddServices(s, list)
  BY <1>2 DEF ApplyPatch, AddServices
<1>4. Len(list) \in Nat /\ DOMAIN list = 1..Len(list)
  OBVIOUS
<1>5. IsInjective(Canonical(list)) /\ Range(Canonical(list)) \cap Range(doc.services) = {}
  BY <1>2 DEF AddsFreshIds
<1>6. /\ \A i, j \in 1..Len(list) : canonicalID(list[i].id) = canonicalID(list[j].id) => i = j
      /\ Added(list, Len(list)) \cap Range(doc.services) = {}
  BY <1>4, <1>5, CanonicalAdded
<1>7. \A i \in 1..Len(list) : canonicalID(list[i].id) \notin Range(doc.services)
  BY <1>6 DEF Added
<1>8. PICK t \in States :
        /\ t = AddServices(s, list) /\ t.status = "building"
        /\ t.doc.verificationMethod = doc.verificationMethod /\ t.doc.refs = doc.refs
        /\ IsInjective(t.doc.services)
        /\ Range(t.doc.services) = Range(doc.services) \cup Added(list, Len(list))
  <2>1. s \in States /\ IsInjective(s.doc.services)
    BY <1>1 DEF Neat, NeatDoc
  <2> QED BY <1>1, <1>6, <1>7, <2>1, ServicesAdded
<1>9. /\ AbstractPatch(patch).action = "add-services"
      /\ AbstractPatch(patch).services = Added(list, Len(list))
      /\ AbstractPatch(patch).refs \subseteq Purposes \X CanonicalIds
  <2>1. patch.keys = <<>>
    BY DEF Patches
  <2> QED BY <1>2, <2>1, AbstractSets, NoKeysNoRefs
<1>10. NeatDoc(t.doc) /\ Pairs(t.doc) = Pairs(doc)
  BY <1>8 DEF NeatDoc, Pairs
<1>11. Outcome(AbstractPatch(patch), doc, t)
  BY <1>8, <1>9, <1>10 DEF Outcome, Refuses, Yields, Holds
<1> QED
  BY <1>1, <1>3, <1>8, <1>11

LEMMA RemoveServicesPatch ==
  ASSUME doc \in Document, NeatDoc(doc), NEW patch \in Patches,
         patch.action = "remove-services"
  PROVE  \E t \in States :
           /\ t = ApplyPatch([doc |-> doc, status |-> "building"], patch)
           /\ Outcome(AbstractPatch(patch), doc, t)
<1>1. PICK s \in Neat : /\ s = [doc |-> doc, status |-> "building"]
                        /\ s.doc = doc /\ s.status = "building"
  BY StartState
<1>2. PICK list \in Seq(Ids) : list = patch.ids
  BY DEF Patches
<1>3. ApplyPatch(s, patch) = RemoveServices(s, list)
  BY <1>2 DEF ApplyPatch, RemoveServices
<1>4. PICK t \in Neat :
        /\ t = RemoveServices(s, list) /\ t.status = "building"
        /\ t.doc.verificationMethod = doc.verificationMethod /\ t.doc.refs = doc.refs
        /\ Range(t.doc.services) = Range(doc.services) \ Removed(list, Len(list))
  BY <1>1, ServicesRemoved
<1>5. /\ AbstractPatch(patch).action = "remove-services"
      /\ AbstractPatch(patch).services = Removed(list, Len(list))
      /\ AbstractPatch(patch).refs \subseteq Purposes \X CanonicalIds
  <2>1. patch.keys = <<>>
    BY DEF Patches
  <2> QED BY <1>2, <2>1, AbstractSets, NoKeysNoRefs
<1>6. t \in States /\ NeatDoc(t.doc) /\ Pairs(t.doc) = Pairs(doc)
  BY <1>4 DEF Neat, Pairs
<1>7. Outcome(AbstractPatch(patch), doc, t)
  BY <1>4, <1>5, <1>6 DEF Outcome, Refuses, Yields, Holds
<1> QED
  BY <1>1, <1>3, <1>4, <1>6, <1>7

(* What a fresh list of keys does to a neat document d.                    *)
LEMMA FreshKeysAdded ==
  ASSUME NEW d \in Document, NeatDoc(d), NEW patch \in Patches,
         IsInjective(Canonical(patch.keys)),
         Range(Canonical(patch.keys)) \cap Range(d.verificationMethod) = {},
         \A k \in DOMAIN patch.keys : IsInjective(patch.keys[k].purposes),
         patch.action # "remove-public-keys"
  PROVE  \E t \in States :
           /\ t = AddPublicKeys([doc |-> d, status |-> "building"], patch.keys)
           /\ Refuses(AbstractPatch(patch), d) => t.status = "error"
           /\ ~Refuses(AbstractPatch(patch), d) =>
                /\ t.status = "building" /\ NeatDoc(t.doc)
                /\ Holds(t.doc, Range(d.verificationMethod) \cup AbstractPatch(patch).keys,
                         Range(d.services), Pairs(d) \cup AbstractPatch(patch).refs)
                /\ t.doc.services = d.services
<1>1. PICK s \in Neat : /\ s = [doc |-> d, status |-> "building"]
                        /\ s.doc = d /\ s.status = "building"
  BY StartState
<1>2. PICK list \in Seq(Keys) : list = patch.keys
  BY DEF Patches
<1>3. Len(list) \in Nat /\ DOMAIN list = 1..Len(list)
  OBVIOUS
<1>4. /\ \A i, j \in 1..Len(list) : canonicalID(list[i].id) = canonicalID(list[j].id) => i = j
      /\ Added(list, Len(list)) \cap Range(d.verificationMethod) = {}
  BY <1>2, <1>3, CanonicalAdded
<1>5. \A i \in 1..Len(list) : /\ canonicalID(list[i].id) \notin Range(d.verificationMethod)
                              /\ IsInjective(list[i].purposes)
  BY <1>2, <1>3, <1>4 DEF Added
<1>6. PICK t \in States :
        /\ t = AddPublicKeys(s, list)
        /\ Known(list, Len(list)) =>
             /\ t.status = "building" /\ NeatDoc(t.doc)
             /\ Range(t.doc.verificationMethod)
                  = Range(d.verificationMethod) \cup Added(list, Len(list))
             /\ t.doc.services = d.services
             /\ \A p \in Purposes : Range(t.doc.refs[p])
                  = Range(d.refs[p]) \cup AddedFor(list, p, Len(list))
        /\ ~Known(list, Len(list)) => t.status = "error"
  <2>1. PICK b \in States : b = s /\ b.doc = d /\ b.status = "building"
    BY <1>1 DEF Neat
  <2>2. /\ NeatDoc(b.doc) /\ \A i \in 1..Len(list) : IsInjective(list[i].purposes)
        /\ \A i \in 1..Len(list) : canonicalID(list[i].id) \notin Range(b.doc.verificationMethod)
    BY <1>5, <2>1
  <2>3. PICK t \in States :
          /\ t = AddPublicKeys(b, list)
          /\ Known(list, Len(list)) =>
               /\ t.status = "building" /\ NeatDoc(t.doc)
               /\ Range(t.doc.verificationMethod)
                    = Range(b.doc.verificationMethod) \cup Added(list, Len(list))
               /\ t.doc.services = b.doc.services
               /\ \A p \in Purposes : Range(t.doc.refs[p])
                    = Range(b.doc.refs[p]) \cup AddedFor(list, p, Len(list))
          /\ ~Known(list, Len(list)) => t.status = "error"
    BY <1>4, <2>1, <2>2, KeysAdded
  <2> QED BY <2>1, <2>3
<1> DEFINE a == AbstractPatch(patch)
<1>7. a.keys = Added(list, Len(list)) /\ a.action # "remove-public-keys"
  BY <1>2, AbstractSets
<1>8. /\ a.refs \subseteq Purposes \X CanonicalIds <=> Known(list, Len(list))
      /\ \A p \in Purposes, x \in CanonicalIds :
           <<p, x>> \in a.refs <=> x \in AddedFor(list, p, Len(list))
  BY <1>2, AbstractRefs
<1> HIDE DEF a
<1>9. Refuses(a, d) <=> ~Known(list, Len(list))
  BY <1>7, <1>8 DEF Refuses
<1>10. ASSUME Known(list, Len(list)) PROVE Pairs(t.doc) = Pairs(d) \cup a.refs
  <2>1. t.doc \in Document
    BY StateShape
  <2>2. /\ Pairs(t.doc) \in SUBSET (Purposes \X CanonicalIds)
        /\ Pairs(d) \cup a.refs \in SUBSET (Purposes \X CanonicalIds)
    BY <1>8, <1>10, <2>1, InPairs
  <2>3. ASSUME NEW p \in Purposes, NEW x \in CanonicalIds
        PROVE  <<p, x>> \in Pairs(t.doc) <=> <<p, x>> \in Pairs(d) \cup a.refs
    <3>1. /\ <<p, x>> \in Pairs(t.doc) <=> x \in Range(t.doc.refs[p])
          /\ <<p, x>> \in Pairs(d) <=> x \in Range(d.refs[p])
      BY <2>1, InPairs
    <3>2. Range(t.doc.refs[p]) = Range(d.refs[p]) \cup AddedFor(list, p, Len(list))
      BY <1>6, <1>10
    <3> QED BY <1>8, <3>1, <3>2
  <2> QED BY <2>2, <2>3, SamePairs
<1>11. ~Refuses(a, d) =>
         /\ t.status = "building" /\ NeatDoc(t.doc) /\ t.doc.services = d.services
         /\ Holds(t.doc, Range(d.verificationMethod) \cup a.keys,
                  Range(d.services), Pairs(d) \cup a.refs)
  BY <1>6, <1>7, <1>9, <1>10 DEF Holds
<1>12. Refuses(a, d) => t.status = "error"
  BY <1>6, <1>9
<1> QED
  BY <1>1, <1>2, <1>6, <1>11, <1>12 DEF a

LEMMA AddPublicKeysPatch ==
  ASSUME doc \in Document, NeatDoc(doc), NEW patch \in Patches, AddsFreshIds(patch),
         patch.action = "add-public-keys"
  PROVE  \E t \in States :
           /\ t = ApplyPatch([doc |-> doc, status |-> "building"], patch)
           /\ Outcome(AbstractPatch(patch), doc, t)
<1>1. PICK s : s = [doc |-> doc, status |-> "building"]
  OBVIOUS
<1>2. ApplyPatch(s, patch) = AddPublicKeys(s, patch.keys)
  BY DEF ApplyPatch, AddPublicKeys
<1>3. /\ IsInjective(Canonical(patch.keys))
      /\ Range(Canonical(patch.keys)) \cap Range(doc.verificationMethod) = {}
      /\ \A k \in DOMAIN patch.keys : IsInjective(patch.keys[k].purposes)
  BY DEF AddsFreshIds
<1> DEFINE a == AbstractPatch(patch)
<1>4. a.action = "add-public-keys"
  BY AbstractSets
<1>5. PICK t \in States :
        /\ t = AddPublicKeys(s, patch.keys)
        /\ Refuses(a, doc) => t.status = "error"
        /\ ~Refuses(a, doc) =>
             /\ t.status = "building" /\ NeatDoc(t.doc)
             /\ Holds(t.doc, Range(doc.verificationMethod) \cup a.keys,
                      Range(doc.services), Pairs(doc) \cup a.refs)
  BY <1>1, <1>3, FreshKeysAdded
<1> HIDE DEF a
<1>6. Outcome(a, doc, t)
  BY <1>4, <1>5 DEF Outcome, Yields
<1> QED
  BY <1>1, <1>2, <1>5, <1>6 DEF a

LEMMA RemovePublicKeysPatch ==
  ASSUME doc \in Document, NeatDoc(doc), NEW patch \in Patches, AddsFreshIds(patch),
         patch.action = "remove-public-keys"
  PROVE  \E t \in States :
           /\ t = ApplyPatch([doc |-> doc, status |-> "building"], patch)
           /\ Outcome(AbstractPatch(patch), doc, t)
<1>1. PICK s \in Neat : /\ s = [doc |-> doc, status |-> "building"]
                        /\ s.doc = doc /\ s.status = "building"
  BY StartState
<1>2. PICK list \in Seq(Ids) : list = patch.ids
  BY DEF Patches
<1>3. ApplyPatch(s, patch) = RemovePublicKeys(s, list)
  BY <1>2 DEF ApplyPatch, RemovePublicKeys
<1>4. \A i, j \in 1..Len(list) : canonicalID(list[i]) = canonicalID(list[j]) => i = j
  <2>1. Cardinality(RemovedIds(patch)) = Len(patch.ids)
    BY DEF AddsFreshIds
  <2> QED BY <1>2, <2>1, RemovedDistinct
<1> DEFINE a == AbstractPatch(patch)
<1>5. /\ a.action = "remove-public-keys" /\ a.keys = Removed(list, Len(list))
      /\ a.refs \subseteq Purposes \X CanonicalIds
  <2>1. patch.keys = <<>>
    BY DEF Patches
  <2> QED BY <1>2, <2>1, AbstractSets, NoKeysNoRefs
<1>6. PICK t \in Neat :
        /\ t = RemovePublicKeys(s, list)
        /\ Removed(list, Len(list)) \subseteq Range(s.doc.verificationMethod) =>
             /\ t.status = "building" /\ t.doc.services = s.doc.services
             /\ Range(t.doc.verificationMethod)
                  = Range(s.doc.verificationMethod) \ Removed(list, Len(list))
             /\ \A p \in Purposes : Range(t.doc.refs[p])
                  = Range(s.doc.refs[p]) \ Removed(list, Len(list))
        /\ ~(Removed(list, Len(list)) \subseteq Range(s.doc.verificationMethod)) =>
             t.status = "error"
  BY <1>1, <1>4, KeysRemoved
<1> HIDE DEF a
<1>7. Refuses(a, doc) <=> ~(a.keys \subseteq Range(doc.verificationMethod))
  BY <1>5 DEF Refuses
<1>8. t \in States /\ NeatDoc(t.doc) /\ t.doc \in Document
  <2>1. t \in States /\ NeatDoc(t.doc)
    BY DEF Neat
  <2> QED BY <2>1, StateShape
<1>9. ASSUME a.keys \subseteq Range(doc.verificationMethod)
      PROVE  Pairs(t.doc) = {r \in Pairs(doc) : r[2] \notin a.keys}
  <2> DEFINE R == {r \in Pairs(doc) : r[2] \notin a.keys}
  <2>1. /\ Pairs(t.doc) \in SUBSET (Purposes \X CanonicalIds)
        /\ R \in SUBSET (Purposes \X CanonicalIds)
    BY <1>8, InPairs
  <2>2. ASSUME NEW p \in Purposes, NEW x \in CanonicalIds
        PROVE  <<p, x>> \in Pairs(t.doc) <=> <<p, x>> \in R
    <3>1. /\ <<p, x>> \in Pairs(t.doc) <=> x \in Range(t.doc.refs[p])
          /\ <<p, x>> \in Pairs(doc) <=> x \in Range(doc.refs[p])
      BY <1>8, InPairs
    <3>2. Range(t.doc.refs[p]) = Range(doc.refs[p]) \ a.keys
      BY <1>1, <1>5, <1>6, <1>9
    <3>3. <<p, x>> \in R <=> <<p, x>> \in Pairs(doc) /\ x \notin a.keys
      OBVIOUS
    <3> QED BY <3>1, <3>2, <3>3
  <2> HIDE DEF R
  <2>3. Pairs(t.doc) = R
    BY <2>1, <2>2, SamePairs
  <2> QED BY <2>3 DEF R
<1>10. CASE Refuses(a, doc)
  <2>1. t.status = "error"
    BY <1>1, <1>5, <1>6, <1>7, <1>10
  <2>2. Outcome(a, doc, t)
    BY <1>10, <2>1 DEF Outcome
  <2> QED BY <1>1, <1>3, <1>6, <1>8, <2>2 DEF a
<1>11. CASE ~Refuses(a, doc)
  <2>1. /\ t.status = "building" /\ Range(t.doc.services) = Range(doc.services)
        /\ Range(t.doc.verificationMethod) = Range(doc.verificationMethod) \ a.keys
    BY <1>1, <1>5, <1>6, <1>7, <1>11
  <2>2. Holds(t.doc, Range(doc.verificationMethod) \ a.keys, Range(doc.services),
              {r \in Pairs(doc) : r[2] \notin a.keys})
    BY <1>7, <1>9, <1>11, <2>1 DEF Holds
  <2>3. Yields(a, doc, t.doc)
    BY <1>5, <2>2 DEF Yields
  <2>4. Outcome(a, doc, t)
    BY <1>8, <1>11, <2>1, <2>3 DEF Outcome
  <2> QED BY <1>1, <1>3, <1>6, <1>8, <2>4 DEF a
<1> QED
  BY <1>10, <1>11

(* addServices runs over its list even when the keys of a replace patch    *)
(* ended in an error, and leaves the error as it is.                       *)
LEMMA ServicesKeepStatus ==
  ASSUME NEW base \in States, NEW list \in Seq(Services)
  PROVE  AddServices(base, list) \in States /\ AddServices(base, list).status = base.status
<1>1. PICK run \in [0..Len(list) -> States] :
        /\ run[0] = base /\ run[Len(list)] = AddServices(base, list)
        /\ \A k \in 1..Len(list) : run[k] = AddService(run[k - 1], list[k])
  BY AddServiceLoop
<1> DEFINE n == Len(list)
           T == {k \in 0..n : run[k].status = base.status}
<1>2. n \in Nat /\ n \in 0..n
  OBVIOUS
<1>3. ASSUME NEW k \in 1..n, k - 1 \in T PROVE k \in T
  <2>1. PICK x \in States : x = run[k - 1]
    BY <1>2
  <2>2. PICK service \in Services : service = list[k]
    BY <1>2
  <2>3. run[k] = AddService(x, service) /\ k \in 0..n /\ x.status = base.status
    BY <1>1, <1>2, <1>3, <2>1, <2>2
  <2>4. run[k].status = x.status
    BY <2>3, AddServiceDoes, StateOf
  <2> QED BY <2>3, <2>4
<1>4. n \in T
  <2>1. T \in SUBSET (0..n) /\ 0 \in T
    BY <1>1, <1>2
  <2> HIDE DEF T
  <2> QED BY <1>2, <1>3, <2>1, Counting
<1> QED
  BY <1>1, <1>2, <1>4

LEMMA ReplacePatch ==
  ASSUME doc \in Document, NeatDoc(doc), NEW patch \in Patches, AddsFreshIds(patch),
         patch.action = "replace"
  PROVE  \E t \in States :
           /\ t = ApplyPatch([doc |-> doc, status |-> "building"], patch)
           /\ Outcome(AbstractPatch(patch), doc, t)
<1>1. PICK s : s = [doc |-> EmptyDocument, status |-> "building"]
  OBVIOUS
<1>2. PICK list \in Seq(Services) : list = patch.services
  BY DEF Patches
<1>3. ApplyPatch([doc |-> doc, status |-> "building"], patch)
        = AddServices(AddPublicKeys(s, patch.keys), list)
  <2>1. PICK z : z = [doc |-> doc, status |-> "building"]
    OBVIOUS
  <2>2. [z EXCEPT !.doc = EmptyDocument] = s
    BY <1>1, <2>1
  <2>3. ApplyPatch(z, patch) = replaceAction(z, patch)
    BY DEF ApplyPatch
  <2>4. replaceAction(z, patch) = AddServices(AddPublicKeys(s, patch.keys), list)
    BY <1>2, <2>2 DEF replaceAction, AddServices, AddPublicKeys
  <2> QED BY <2>1, <2>3, <2>4
<1>4. /\ IsInjective(Canonical(patch.keys))
      /\ Range(Canonical(patch.keys)) \cap Range(EmptyDocument.verificationMethod) = {}
      /\ \A k \in DOMAIN patch.keys : IsInjective(patch.keys[k].purposes)
      /\ IsInjective(Canonical(list))
  BY <1>2, EmptyIsNeat DEF AddsFreshIds
<1> DEFINE a == AbstractPatch(patch)
<1>5. PICK u \in States :
        /\ u = AddPublicKeys(s, patch.keys)
        /\ Refuses(a, EmptyDocument) => u.status = "error"
        /\ ~Refuses(a, EmptyDocument) =>
             /\ u.status = "building" /\ NeatDoc(u.doc)
             /\ Holds(u.doc, Range(EmptyDocument.verificationMethod) \cup a.keys,
                      Range(EmptyDocument.services), Pairs(EmptyDocument) \cup a.refs)
             /\ u.doc.services = EmptyDocument.services
  BY <1>1, <1>4, EmptyIsNeat, FreshKeysAdded
<1>6. a.action = "replace" /\ a.services = Added(list, Len(list))
  BY <1>2, AbstractSets
<1> HIDE DEF a
<1>7. Refuses(a, EmptyDocument) <=> Refuses(a, doc)
  BY <1>6 DEF Refuses
<1>8. PICK t \in States : t = AddServices(u, list) /\ t.status = u.status
  BY ServicesKeepStatus
<1>9. t = ApplyPatch([doc |-> doc, status |-> "building"], patch)
  BY <1>3, <1>5, <1>8
<1>10. CASE Refuses(a, doc)
  <2>1. Outcome(a, doc, t)
    BY <1>5, <1>7, <1>8, <1>10 DEF Outcome
  <2> QED BY <1>9, <2>1 DEF a
<1>11. CASE ~Refuses(a, doc)
  <2>1. /\ u.status = "building" /\ NeatDoc(u.doc)
        /\ Range(u.doc.verificationMethod) = a.keys /\ Range(u.doc.services) = {}
        /\ Pairs(u.doc) = Pairs(EmptyDocument) \cup a.refs
    BY <1>5, <1>7, <1>11, EmptyIsNeat DEF Holds
  <2>2. Pairs(EmptyDocument) = {}
    BY EmptyIsNeat DEF Pairs
  <2>3. \A i, j \in 1..Len(list) : canonicalID(list[i].id) = canonicalID(list[j].id) => i = j
    <3>1. Len(list) \in Nat /\ DOMAIN list = 1..Len(list)
      OBVIOUS
    <3> QED BY <1>4, <3>1, CanonicalAdded
  <2>4. /\ t.doc.verificationMethod = u.doc.verificationMethod /\ t.doc.refs = u.doc.refs
        /\ IsInjective(t.doc.services) /\ Range(t.doc.services) = {} \cup Added(list, Len(list))
    <3>1. /\ IsInjective(u.doc.services)
          /\ \A i \in 1..Len(list) : canonicalID(list[i].id) \notin Range(u.doc.services)
      BY <2>1 DEF NeatDoc
    <3> QED BY <1>8, <2>1, <2>3, <3>1, ServicesAdded
  <2>5. NeatDoc(t.doc) /\ Pairs(t.doc) = a.refs
    BY <2>1, <2>2, <2>4 DEF NeatDoc, Pairs
  <2>6. Holds(t.doc, a.keys, a.services, a.refs)
    BY <1>6, <2>1, <2>4, <2>5 DEF Holds
  <2>7. Outcome(a, doc, t)
    BY <1>6, <1>8, <1>11, <2>1, <2>5, <2>6 DEF Outcome, Yields
  <2> QED BY <1>9, <2>7 DEF a
<1> QED
  BY <1>10, <1>11

(* Applying a patch that introduces ids once has the effect of the         *)
(* abstract patch, or its refusal; it never panics.                        *)
LEMMA Patched ==
  ASSUME doc \in Document, NeatDoc(doc), NEW patch \in Patches, AddsFreshIds(patch)
  PROVE  \E t \in States :
           /\ t = ApplyPatch([doc |-> doc, status |-> "building"], patch)
           /\ Outcome(AbstractPatch(patch), doc, t)
<1>1. patch.action \in {"replace", "add-services", "remove-services",
                        "add-public-keys", "remove-public-keys"}
  BY DEF Patches
<1> QED
  BY <1>1, ReplacePatch, AddServicesPatch, RemoveServicesPatch, AddPublicKeysPatch,
     RemovePublicKeysPatch

(***************************************************************************)
(* The invariant.                                                          *)
(***************************************************************************)
LEMMA DocInit == Init => DocInv
<1> SUFFICES ASSUME Init PROVE DocInv
  OBVIOUS
<1>1. PICK document \in Documents : todo = ReplacePatches(document)
  BY DEF Init
<1>2. todo \in Seq(Patches)
  BY <1>1, ReplaceMakesPatches
<1> QED
  BY <1>2, EmptyIsNeat DEF Init, DocInv

(* Apply, in the terms of the abstract patch.                              *)
LEMMA ApplyDoes ==
  ASSUME DocInv, todo # <<>>, AddsFreshIds(Head(todo)), Apply
  PROVE  /\ Head(todo) \in Patches /\ todo' = Tail(todo) /\ todo' \in Seq(Patches)
         /\ status = "building"
         /\ Refuses(AbstractPatch(Head(todo)), doc) => status' = "error" /\ doc' = EmptyDocument
         /\ ~Refuses(AbstractPatch(Head(todo)), doc) =>
              /\ status' = "building" /\ doc' \in Document /\ NeatDoc(doc')
              /\ Yields(AbstractPatch(Head(todo)), doc, doc')
<1>1. Head(todo) \in Patches /\ Tail(todo) \in Seq(Patches)
  BY DEF DocInv
<1>2. status = "building" /\ doc \in Document /\ NeatDoc(doc) /\ todo' = Tail(todo)
  BY DEF DocInv, Apply
<1>3. PICK t \in States :
        /\ t = ApplyPatch([doc |-> doc, status |-> "building"], Head(todo))
        /\ Outcome(AbstractPatch(Head(todo)), doc, t)
  BY <1>1, <1>2, Patched
<1>4. /\ status' = t.status
      /\ doc' = IF t.status = "building" THEN t.doc ELSE EmptyDocument
  BY <1>2, <1>3 DEF Apply
<1>5. t.doc \in Document
  BY StateShape
<1> QED
  BY <1>1, <1>2, <1>3, <1>4, <1>5 DEF Outcome

LEMMA DocStep == DocInv /\ [FreshNext]_vars => DocInv'
<1> SUFFICES ASSUME DocInv, [FreshNext]_vars PROVE DocInv'
  OBVIOUS
<1>1. CASE todo # <<>> /\ AddsFreshIds(Head(todo)) /\ Apply
  <2>1. CASE Refuses(AbstractPatch(Head(todo)), doc)
    <3>1. status' = "error" /\ doc' = EmptyDocument /\ todo' \in Seq(Patches)
      BY <1>1, <2>1, ApplyDoes
    <3> QED BY <3>1, EmptyIsNeat DEF DocInv
  <2>2. CASE ~Refuses(AbstractPatch(Head(todo)), doc)
    <3>1. status' = "building" /\ doc' \in Document /\ NeatDoc(doc') /\ todo' \in Seq(Patches)
      BY <1>1, <2>2, ApplyDoes
    <3> QED BY <3>1 DEF DocInv
  <2> QED BY <2>1, <2>2
<1>2. CASE Return
  BY <1>2 DEF Return, DocInv
<1>3. ASSUME NEW change \in StateChanges, Extend(change) PROVE DocInv'
  <2>1. todo' \in Seq(Patches)
    BY <1>3, UpdateMakesPatches DEF Extend
  <2> QED BY <1>3, <2>1 DEF Extend, DocInv
<1>4. CASE UNCHANGED vars
  BY <1>4 DEF vars, DocInv
<1> QED
  BY <1>1, <1>2, <1>3, <1>4 DEF FreshNext

LEMMA OnceInit == Init => OnceInv
BY DocInit DEF Init, OnceInv

(* The history variable only goes down, and only in Apply.                 *)
LEMMA OnceFalls ==
  ASSUME once \in BOOLEAN, [Next]_vars
  PROVE  once' \in BOOLEAN /\ (once' => once /\ [FreshNext]_vars)
<1>1. CASE Apply
  <2>1. todo # <<>> /\ once' = (once /\ AddsFreshIds(Head(todo)))
    BY <1>1 DEF Apply
  <2>2. once' => AddsFreshIds(Head(todo))
    BY <2>1, Zenon
  <2>3. once' \in BOOLEAN /\ (once' => once)
    BY <2>1, Zenon
  <2> QED BY <1>1, <2>1, <2>2, <2>3 DEF FreshNext
<1>2. CASE Return
  BY <1>2 DEF Return, FreshNext
<1>3. CASE \E change \in StateChanges : Extend(change)
  BY <1>3 DEF Extend, FreshNext
<1>4. CASE UNCHANGED vars
  BY <1>4 DEF vars
<1> QED
  BY <1>1, <1>2, <1>3, <1>4 DEF Next

LEMMA OnceStep == OnceInv /\ [Next]_vars => OnceInv'
<1> SUFFICES ASSUME OnceInv, [Next]_vars PROVE OnceInv'
  OBVIOUS
<1>1. once' \in BOOLEAN /\ (once' => once /\ [FreshNext]_vars)
  BY OnceFalls DEF OnceInv
<1>2. CASE once'
  BY <1>1, <1>2, DocStep DEF OnceInv
<1>3. CASE ~once'
  BY <1>1, <1>3 DEF OnceInv
<1> QED
  BY <1>2, <1>3

(* removePublicKeysPatch takes a key out of every list of references: as   *)
(* long as ids are introduced once, no purpose refers to a key that is not *)
(* a verification method.                                                  *)
THEOREM FreshIdsNeverDangle == Spec => []NoDanglingReference
<1>1. OnceInv => NoDanglingReference
  BY DEF OnceInv, DocInv, NeatDoc, NoDanglingReference
<1> QED
  BY <1>1, OnceInit, OnceStep, PTL DEF Spec

(***************************************************************************)
(* The refinement.                                                         *)
(***************************************************************************)
NoPatch == Patch("none", <<>>, <<>>, <<>>)
Op      == AbstractPatch(IF todo = <<>> THEN NoPatch ELSE Head(todo))

LEMMA NoPatchIsOp == AbstractPatch(NoPatch) \in Abs!Ops /\ AbstractPatch(NoPatch).action = "none"
<1>1. /\ NoPatch.action = "none" /\ NoPatch.keys = <<>> /\ NoPatch.services = <<>>
      /\ DOMAIN <<>> = {}
  BY DEF NoPatch, Patch
<1>2. Range(Canonical(<<>>)) = {}
  BY <1>1 DEF Range, Canonical
<1>3. /\ AbstractPatch(NoPatch).action = "none"
      /\ AbstractPatch(NoPatch).services = {} /\ AbstractPatch(NoPatch).keys = {}
  BY <1>1, <1>2 DEF AbstractPatch
<1>4. AbstractPatch(NoPatch).refs = {}
  BY <1>1 DEF AbstractPatch
<1>5. AbstractPatch(NoPatch) =
        [action |-> AbstractPatch(NoPatch).action, services |-> AbstractPatch(NoPatch).services,
         keys |-> AbstractPatch(NoPatch).keys, refs |-> AbstractPatch(NoPatch).refs]
  BY DEF AbstractPatch
<1> QED
  BY <1>3, <1>4, <1>5 DEF Abs!Ops

LEMMA OpIsOp == DocInv => Op \in Abs!Ops
<1> SUFFICES ASSUME DocInv PROVE Op \in Abs!Ops
  OBVIOUS
<1>1. CASE todo = <<>>
  BY <1>1, NoPatchIsOp DEF Op
<1>2. CASE todo # <<>>
  <2>1. Head(todo) \in Patches
    BY <1>2 DEF DocInv
  <2> QED BY <1>2, <2>1, AbstractIsOp DEF Op
<1> QED
  BY <1>1, <1>2

LEMMA AbsInit == Init => Abs!Init
<1> SUFFICES ASSUME Init PROVE Abs!Init
  OBVIOUS
<1>1. PICK document \in Documents : todo = ReplacePatches(document)
  BY DEF Init
<1>2. todo # <<>> /\ Head(todo).action = "replace" /\ Head(todo) \in Patches
  <2>1. Patch("replace", document.keys, document.services, <<>>).action = "replace"
    BY DEF Patch
  <2>2. todo # <<>> /\ Head(todo) = Patch("replace", document.keys, document.services, <<>>)
    BY <1>1 DEF ReplacePatches
  <2>3. todo \in Seq(Patches)
    BY <1>1, ReplaceMakesPatches
  <2> QED BY <2>1, <2>2, <2>3
<1>3. Op \in Abs!Ops /\ Op.action = "replace"
  <2>1. Op = AbstractPatch(Head(todo))
    BY <1>2 DEF Op
  <2> QED BY <1>2, <2>1, AbstractIsOp, AbstractSets
<1>4. doc = EmptyDocument /\ status = "building" /\ once = TRUE
  BY DEF Init
<1>5. Pairs(doc) = {}
  BY <1>4, EmptyIsNeat DEF Pairs
<1> QED
  BY <1>3, <1>4, <1>5, EmptyIsNeat DEF Abs!Init, Op, NoPatch, Pairs

(* A step of the loop over patches that introduces ids once is a step of   *)
(* the abstract specification.                                             *)
LEMMA AbsApply ==
  ASSUME DocInv, once, once', todo # <<>>, AddsFreshIds(Head(todo)), Apply, Op' \in Abs!Ops
  PROVE  Abs!Next
<1> DEFINE a == AbstractPatch(Head(todo))
<1>1. Op = a
  BY DEF Op
<1>2. /\ Head(todo) \in Patches /\ status = "building"
      /\ Refuses(a, doc) => status' = "error" /\ doc' = EmptyDocument
      /\ ~Refuses(a, doc) => status' = "building" /\ Yields(a, doc, doc')
  BY ApplyDoes
<1>3. a.action \in {"replace", "add-services", "remove-services",
                    "add-public-keys", "remove-public-keys"}
  BY <1>2, AbstractSets DEF Patches
<1> HIDE DEF a
<1>4. Abs!Refused <=> Refuses(a, doc)
  BY <1>1 DEF Abs!Refused, Refuses, Op, NoPatch
<1>5. CASE Refuses(a, doc)
  <2>1. Pairs(doc') = {}
    BY <1>2, <1>5, EmptyIsNeat DEF Pairs
  <2>2. Abs!Fail
    BY <1>2, <1>4, <1>5, <2>1, EmptyIsNeat DEF Abs!Fail, Pairs
  <2> QED BY <1>2, <2>2 DEF Abs!Promised, Abs!Next, Op, NoPatch
<1>6. CASE ~Refuses(a, doc)
  <2>1. /\ ~Abs!Refused /\ (status = "error") = FALSE /\ (status' = "error") = FALSE
        /\ Yields(a, doc, doc')
    BY <1>2, <1>4, <1>6
  <2> DEFINE K == Range(doc.verificationMethod)
             S == Range(doc.services)
             R == Pairs(doc)
  <2>2. CASE a.action = "replace"
    <3>1. Holds(doc', a.keys, a.services, a.refs)
      BY <2>1, <2>2 DEF Yields
    <3>2. Abs!Replace
      BY <1>1, <2>1, <2>2, <3>1 DEF Abs!Replace, Abs!Changed, Holds, Pairs, Op, NoPatch
    <3> QED BY <1>2, <3>2 DEF Abs!Promised, Abs!Next, Op, NoPatch
  <2>3. CASE a.action = "add-services"
    <3>1. Holds(doc', K, S \cup a.services, R)
      BY <2>1, <2>3 DEF Yields
    <3>2. Abs!AddServices
      BY <1>1, <2>1, <2>3, <3>1 DEF Abs!AddServices, Abs!Changed, Holds, Pairs, Op, NoPatch
    <3> QED BY <1>2, <3>2 DEF Abs!Promised, Abs!Next, Op, NoPatch
  <2>4. CASE a.action = "remove-services"
    <3>1. Holds(doc', K, S \ a.services, R)
      BY <2>1, <2>4 DEF Yields
    <3>2. Abs!RemoveServices
      BY <1>1, <2>1, <2>4, <3>1 DEF Abs!RemoveServices, Abs!Changed, Holds, Pairs, Op, NoPatch
    <3> QED BY <1>2, <3>2 DEF Abs!Promised, Abs!Next, Op, NoPatch
  <2>5. CASE a.action = "add-public-keys"
    <3>1. Holds(doc', K \cup a.keys, S, R \cup a.refs)
      BY <2>1, <2>5 DEF Yields
    <3>2. Abs!AddPublicKeys
      BY <1>1, <2>1, <2>5, <3>1 DEF Abs!AddPublicKeys, Abs!Changed, Holds, Pairs, Op, NoPatch
    <3> QED BY <1>2, <3>2 DEF Abs!Promised, Abs!Next, Op, NoPatch
  <2>6. CASE a.action = "remove-public-keys"
    <3>1. Holds(doc', K \ a.keys, S, {r \in R : r[2] \notin a.keys})
      BY <2>1, <2>6 DEF Yields
    <3>2. Abs!RemovePublicKeys
      BY <1>1, <2>1, <2>6, <3>1 DEF Abs!RemovePublicKeys, Abs!Changed, Holds, Pairs, Op, NoPatch
    <3> QED BY <1>2, <3>2 DEF Abs!Promised, Abs!Next, Op, NoPatch
  <2> QED BY <1>3, <2>2, <2>3, <2>4, <2>5, <2>6
<1> QED
  BY <1>5, <1>6

LEMMA FreshAbsStep ==
  ASSUME once, once', DocInv, DocInv', [FreshNext]_vars PROVE [Abs!Next]_(Abs!vars)
<1>1. Op' \in Abs!Ops
  <2>1. DocInv' => (Op \in Abs!Ops)'
    BY OpIsOp, PTL
  <2> QED BY <2>1
<1>2. CASE todo # <<>> /\ AddsFreshIds(Head(todo)) /\ Apply
  BY <1>1, <1>2, AbsApply
<1>3. CASE Return
  BY <1>3 DEF Return, Abs!vars
<1>4. ASSUME NEW change \in StateChanges, Extend(change) PROVE Abs!Next
  <2>1. todo = <<>> /\ doc' = doc /\ status' = status /\ status = "building"
    BY <1>4 DEF Extend
  <2>2. Op.action = "none"
    BY <2>1, NoPatchIsOp DEF Op
  <2>3. Abs!Take
    BY <2>1, <2>2 DEF Abs!Take, Op, NoPatch
  <2> QED BY <1>1, <2>1, <2>3 DEF Abs!Promised, Abs!Next, Op, NoPatch
<1>5. CASE UNCHANGED vars
  BY <1>5 DEF vars, Abs!vars
<1> QED
  BY <1>2, <1>3, <1>4, <1>5 DEF FreshNext

LEMMA AbsStep == OnceInv /\ OnceInv' /\ [Next]_vars => [Abs!Next]_(Abs!vars)
<1> SUFFICES ASSUME OnceInv, OnceInv', [Next]_vars PROVE [Abs!Next]_(Abs!vars)
  OBVIOUS
<1>1. once' \in BOOLEAN /\ (once' => once /\ [FreshNext]_vars)
  BY OnceFalls DEF OnceInv
<1>2. CASE once'
  BY <1>1, <1>2, FreshAbsStep DEF OnceInv
<1>3. CASE ~once'
  BY <1>1, <1>3 DEF Abs!Next
<1> QED
  BY <1>2, <1>3

(* The loops of PatchesToDIDDocument implement the set semantics of        *)
(* Sidetree patches: until a patch introduces an id twice, every step adds *)
(* and removes exactly the ids and references its patch names, or is       *)
(* refused because a key to remove is missing or a purpose is unknown; it  *)
(* never panics.                                                           *)
THEOREM LoopsImplementSets == Spec => ImplementsAbs
<1>1. Init => Abs!Init
  BY AbsInit
<1> QED
  BY <1>1, OnceInit, OnceStep, AbsStep, PTL DEF Spec, ImplementsAbs, Abs!Spec

(***************************************************************************)
(* When the loops panic, whatever the patches are: the removal loop on any *)
(* list.                                                                   *)
(***************************************************************************)
LEMMA RangeRuns ==
  ASSUME NEW list \in Seq(CanonicalIds), NEW id \in CanonicalIds
  PROVE  \E run \in [0..Len(list) -> Slices(Len(list))] :
           /\ run[0] = [arr |-> list, len |-> Len(list), panic |-> FALSE]
           /\ \A k \in 1..Len(list) : run[k] = RangeStep(id, run[k - 1], k)
           /\ RemoveWhileRanging(list, id)
                = [list  |-> SubSeq(run[Len(list)].arr, 1, run[Len(list)].len),
                   hits  |-> Len(list) - run[Len(list)].len,
                   panic |-> run[Len(list)].panic]
<1> DEFINE n == Len(list)
           base == [arr |-> list, len |-> n, panic |-> FALSE]
           positions == [i \in DOMAIN list |-> i]
           end == RangeOver(base, id, positions)
<1>1. n \in Nat /\ DOMAIN list = 1..n /\ list \in [1..n -> CanonicalIds] /\ n \in 0..n
  OBVIOUS
<1>2. base \in Slices(n)
  BY <1>1 DEF Slices
<1>3. RemoveWhileRanging(list, id)
        = [list |-> SubSeq(end.arr, 1, end.len), hits |-> n - end.len, panic |-> end.panic]
  BY DEF RemoveWhileRanging, RangeOver, FoldLeftDomain
<1>4. positions \in Seq(1..n) /\ Len(positions) = n /\ \A k \in 1..n : positions[k] = k
  BY <1>1
<1> HIDE DEF end, base, n, positions
<1>5. PICK w \in [0..Len(positions) -> Slices(n)] :
        /\ w[0] = base /\ w[Len(positions)] = RangeOver(base, id, positions)
        /\ \A k \in 1..Len(positions) : w[k] = RangeStep(id, w[k - 1], positions[k])
  BY <1>1, <1>2, <1>4, RangeLoop, SMTT(30)
<1>6. w \in [0..n -> Slices(n)] /\ w[n] = end
  BY <1>4, <1>5 DEF end
<1>7. \A k \in 1..n : w[k] = RangeStep(id, w[k - 1], k)
  BY <1>4, <1>5
<1> QED
  BY <1>3, <1>5, <1>6, <1>7 DEF base, n

(* After k rounds: the slice is still the list, or id was met; what is yet *)
(* to be read past the end of the slice is the last element of the list;   *)
(* and two elements of the slice are two elements of the list.             *)
Pairwise(list, s) ==
  \A i, j \in 1..s.len : i < j =>
    \E a, b \in DOMAIN list : a < b /\ list[a] = s.arr[i] /\ list[b] = s.arr[j]

RangeInv(list, id, s, k) ==
  /\ s.len = Len(list) => s.arr = list
  /\ s.len < Len(list) <=> \E j \in 1..k : list[j] = id
  /\ \A i \in 1..Len(list) : i > k /\ i >= s.len => s.arr[i] = list[Len(list)]
  /\ Pairwise(list, s)
  /\ s.panic => Repeated(list, id) /\ s.len < Len(list)

LEMMA RangeInvStep ==
  ASSUME NEW list \in Seq(CanonicalIds), NEW id \in CanonicalIds,
         NEW s \in Slices(Len(list)), NEW k \in 1..Len(list), RangeInv(list, id, s, k - 1)
  PROVE  RangeInv(list, id, RangeStep(id, s, k), k)
<1> DEFINE n == Len(list)
<1>1. n \in Nat /\ DOMAIN list = 1..n /\ list \in [1..n -> CanonicalIds]
  OBVIOUS
<1>2. /\ s.arr \in [1..n -> CanonicalIds] /\ s.len \in 0..n /\ s.panic \in BOOLEAN
      /\ k \in 1..n
  BY DEF Slices
<1>3. /\ s.len = n => s.arr = list
      /\ s.len < n <=> \E j \in 1..(k - 1) : list[j] = id
      /\ \A i \in 1..n : i > k - 1 /\ i >= s.len => s.arr[i] = list[n]
      /\ Pairwise(list, s)
      /\ s.panic => Repeated(list, id) /\ s.len < n
  BY DEF RangeInv
<1> HIDE DEF n
<1>4. CASE s.panic \/ s.arr[k] # id
  <2>1. RangeStep(id, s, k) = s
    BY <1>4 DEF RangeStep
  <2>2. s.len < n <=> \E j \in 1..k : list[j] = id
    <3>1. CASE s.len < n
      BY <1>2, <1>3, <3>1
    <3>2. CASE s.len = n
      BY <1>1, <1>2, <1>3, <1>4, <3>2
    <3> QED BY <1>1, <1>2, <3>1, <3>2
  <2> QED BY <1>1, <1>2, <1>3, <2>1, <2>2 DEF RangeInv, n
<1>5. CASE ~s.panic /\ s.arr[k] = id /\ k > s.len
  <2>1. RangeStep(id, s, k) = [s EXCEPT !.panic = TRUE]
    BY <1>5 DEF RangeStep
  <2>2. PICK t : t = RangeStep(id, s, k)
    OBVIOUS
  <2>3. t.arr = s.arr /\ t.len = s.len
    BY <2>1, <2>2 DEF Slices
  <2>4. s.len < n /\ list[n] = id /\ n \in 1..n
    BY <1>1, <1>2, <1>3, <1>5
  <2>5. PICK j \in 1..(k - 1) : list[j] = id
    BY <1>3, <2>4
  <2>6. j \in 1..n /\ j < n
    BY <1>1, <1>2, <2>5
  <2>7. Repeated(list, id)
    BY <1>1, <2>4, <2>5, <2>6 DEF Repeated
  <2>8. j \in 1..k
    BY <1>2, <2>5
  <2>9. Pairwise(list, t)
    BY <1>3, <2>3 DEF Pairwise
  <2> QED BY <1>1, <1>2, <1>3, <2>2, <2>3, <2>4, <2>5, <2>7, <2>8, <2>9 DEF RangeInv, n
<1>6. CASE ~s.panic /\ s.arr[k] = id /\ k <= s.len
  <2>1. PICK t : t = RangeStep(id, s, k)
    OBVIOUS
  <2>2. t = CutOut(s, k)
    BY <1>2, <1>6, <2>1 DEF RangeStep
  <2>3. /\ t.len = s.len - 1 /\ t.panic = s.panic
        /\ \A i \in 1..n : t.arr[i] = IF k <= i /\ i < s.len THEN s.arr[i + 1] ELSE s.arr[i]
    BY <1>1, <1>2, <1>6, <2>2, CutOutShape DEF n
  <2>4. t.len < n /\ t.len # n
    BY <1>1, <1>2, <2>3
  <2>5. \E j \in 1..k : list[j] = id
    <3>1. CASE s.len = n
      BY <1>2, <1>3, <1>6, <3>1
    <3>2. CASE s.len < n
      BY <1>2, <1>3, <3>2
    <3> QED BY <1>1, <1>2, <3>1, <3>2
  <2>6. ASSUME NEW i \in 1..n, i > k, i >= t.len PROVE t.arr[i] = list[n]
    <3>1. CASE i < s.len
      <4>1. i + 1 = s.len /\ i + 1 \in 1..n /\ i + 1 > k - 1
        BY <1>1, <1>2, <2>3, <2>6, <3>1
      <4> QED BY <1>2, <1>3, <2>3, <2>6, <3>1, <4>1
    <3>2. CASE ~(i < s.len)
      BY <1>1, <1>2, <1>3, <2>3, <2>6, <3>2
    <3> QED BY <3>1, <3>2
  <2>7. Pairwise(list, t)
    <3> SUFFICES ASSUME NEW i \in 1..t.len, NEW j \in 1..t.len, i < j
                 PROVE  \E a, b \in DOMAIN list :
                          a < b /\ list[a] = t.arr[i] /\ list[b] = t.arr[j]
      BY DEF Pairwise
    <3> DEFINE u == IF k <= i THEN i + 1 ELSE i
               v == IF k <= j THEN j + 1 ELSE j
    <3>1. u \in 1..s.len /\ v \in 1..s.len /\ u < v
      BY <1>1, <1>2, <2>3
    <3>2. t.arr[i] = s.arr[u] /\ t.arr[j] = s.arr[v]
      BY <1>1, <1>2, <2>3, SMTT(30)
    <3> HIDE DEF u, v
    <3> QED BY <1>3, <3>1, <3>2 DEF Pairwise
  <2> QED BY <1>1, <1>2, <1>6, <2>1, <2>3, <2>4, <2>5, <2>6, <2>7 DEF RangeInv, n
<1> QED
  BY <1>2, <1>4, <1>5, <1>6

(* What is left of a list repeats nothing that the list did not; a panic   *)
(* means that id is repeated, and when id ends the list and is repeated    *)
(* there is one.                                                           *)
LEMMA RemoveAny ==
  ASSUME NEW list \in Seq(CanonicalIds), NEW id \in CanonicalIds,
         NEW r, r = RemoveWhileRanging(list, id)
  PROVE  /\ r.list \in Seq(CanonicalIds) /\ r.hits \in Nat /\ r.panic \in BOOLEAN
         /\ \A x \in CanonicalIds : Repeated(r.list, x) => Repeated(list, x)
         /\ r.panic => Repeated(list, id)
         /\ EndsAgain(list, id) => r.panic
         /\ r.hits > 0 <=> id \in Range(list)
<1> DEFINE n == Len(list)
<1>1. n \in Nat /\ DOMAIN list = 1..n /\ list \in [1..n -> CanonicalIds]
  OBVIOUS
<1>2. PICK run \in [0..n -> Slices(n)] :
        /\ run[0] = [arr |-> list, len |-> n, panic |-> FALSE]
        /\ \A k \in 1..n : run[k] = RangeStep(id, run[k - 1], k)
        /\ r = [list |-> SubSeq(run[n].arr, 1, run[n].len),
                hits |-> n - run[n].len, panic |-> run[n].panic]
  BY RangeRuns
<1> DEFINE T == {k \in 0..n : RangeInv(list, id, run[k], k)}
<1>3. T \in SUBSET (0..n) /\ 0 \in T
  <2>1. PICK s : s = run[0]
    OBVIOUS
  <2>2. s.arr = list /\ s.len = n /\ s.panic = FALSE
    BY <1>2, <2>1
  <2>3. RangeInv(list, id, s, 0)
    BY <1>1, <2>2 DEF RangeInv, Pairwise
  <2> QED BY <1>1, <2>1, <2>3
<1>4. ASSUME NEW k \in 1..n, k - 1 \in T PROVE k \in T
  <2>1. PICK s \in Slices(n) : s = run[k - 1]
    BY <1>1, <1>2
  <2>2. RangeInv(list, id, s, k - 1)
    BY <1>4, <2>1
  <2>3. RangeInv(list, id, RangeStep(id, s, k), k)
    BY <2>2, RangeInvStep
  <2> QED BY <1>1, <1>2, <2>1, <2>3
<1>5. T = 0..n
  <2> HIDE DEF T, n
  <2> QED BY <1>1, <1>3, <1>4, Counting
<1>6. PICK s \in Slices(n) : s = run[n]
  BY <1>1, <1>2
<1>7. RangeInv(list, id, s, n)
  BY <1>1, <1>5, <1>6
<1>8. /\ s.arr \in [1..n -> CanonicalIds] /\ s.len \in 0..n /\ s.panic \in BOOLEAN
      /\ r.list = SubSeq(s.arr, 1, s.len) /\ r.hits = n - s.len /\ r.panic = s.panic
  BY <1>2, <1>6 DEF Slices
<1>9. /\ r.list \in Seq(CanonicalIds) /\ DOMAIN r.list = 1..s.len
      /\ \A i \in 1..s.len : r.list[i] = s.arr[i]
  <2>1. PICK N, a, m : N \in Nat /\ N = n /\ a = s.arr /\ m = s.len
    BY <1>1
  <2>2. a \in Seq(CanonicalIds) /\ Len(a) = N /\ m \in 0..N
    <3>1. a \in [1..N -> CanonicalIds] /\ m \in 0..N
      BY <1>8, <2>1
    <3> HIDE DEF n
    <3> QED BY <2>1, <3>1
  <2>3. /\ SubSeq(a, 1, m) \in Seq(CanonicalIds) /\ DOMAIN SubSeq(a, 1, m) = 1..m
        /\ \A i \in 1..m : SubSeq(a, 1, m)[i] = a[i]
    BY <2>1, <2>2
  <2> QED BY <1>8, <2>1, <2>3
<1>10. ASSUME NEW x \in CanonicalIds, Repeated(r.list, x) PROVE Repeated(list, x)
  <2>1. PICK i, j \in 1..s.len : i < j /\ s.arr[i] = x /\ s.arr[j] = x
    BY <1>9, <1>10 DEF Repeated
  <2> QED BY <1>7, <2>1 DEF RangeInv, Pairwise, Repeated
<1>11. r.panic => Repeated(list, id)
  BY <1>7, <1>8 DEF RangeInv
<1>12. r.hits > 0 <=> id \in Range(list)
  <2>1. s.len < n <=> \E j \in 1..n : list[j] = id
    BY <1>7 DEF RangeInv
  <2>2. r.hits > 0 <=> s.len < n
    BY <1>1, <1>8
  <2>3. id \in Range(list) <=> \E j \in 1..n : list[j] = id
    BY <1>1 DEF Range
  <2> QED BY <2>1, <2>2, <2>3
<1>13. ASSUME EndsAgain(list, id) PROVE r.panic
  <2>1. PICK j \in 1..n : j < n /\ list[j] = id
    BY <1>1, <1>13 DEF EndsAgain, Repeated
  <2>2. list[n] = id /\ n \in 1..n /\ n - 1 \in 0..n /\ j \in 1..(n - 1)
    BY <1>1, <1>13, <2>1 DEF EndsAgain
  <2>3. PICK b \in Slices(n) : b = run[n - 1] /\ RangeInv(list, id, b, n - 1)
    BY <1>2, <1>5, <2>2
  <2>4. b.len \in 0..n /\ b.len < n /\ b.arr[n] = id
    BY <1>1, <2>1, <2>2, <2>3 DEF RangeInv, Slices
  <2>5. s = RangeStep(id, b, n)
    BY <1>2, <1>6, <2>2, <2>3
  <2>6. CASE b.panic
    BY <1>8, <2>5, <2>6 DEF RangeStep
  <2>7. CASE ~b.panic
    <3>1. s = [b EXCEPT !.panic = TRUE]
      BY <2>4, <2>5, <2>7, <1>1 DEF RangeStep
    <3>2. s.panic = TRUE
      BY <3>1 DEF Slices
    <3> QED BY <1>8, <3>2
  <2> QED BY <2>6, <2>7
<1> QED
  BY <1>1, <1>8, <1>9, <1>10, <1>11, <1>12, <1>13

(***************************************************************************)
(* The rounds of the removal loops on any document.  Less: e repeats       *)
(* nothing that d does not.                                                *)
(***************************************************************************)
Less(e, d) ==
  \A x \in CanonicalIds :
    /\ Repeated(e.services, x) => Repeated(d.services, x)
    /\ Repeated(e.verificationMethod, x) => Repeated(d.verificationMethod, x)
    /\ \A p \in Purposes : Repeated(e.refs[p], x) => Repeated(d.refs[p], x)

RepeatedKey(d, x) ==
  Repeated(d.verificationMethod, x) \/ \E p \in Purposes : Repeated(d.refs[p], x)

(* What the loops over the ids in I can make of d.                         *)
ServicesLeft(d, I) ==
  {t \in States : /\ Less(t.doc, d)
                  /\ t.status = "panic" => \E x \in I : Repeated(d.services, x)}
KeysLeft(d, I) ==
  {t \in States : /\ Less(t.doc, d)
                  /\ t.status = "panic" => \E x \in I : RepeatedKey(d, x)}

LEMMA RemoveServiceAny ==
  ASSUME NEW s \in States, ~Ended(s), NEW id \in Ids
  PROVE  \E sv \in Seq(CanonicalIds), st \in {"building", "panic"} :
           /\ RemoveService(s, id) = State(s.doc.verificationMethod, sv, s.doc.refs, st)
           /\ \A x \in CanonicalIds : Repeated(sv, x) => Repeated(s.doc.services, x)
           /\ st = "panic" => Repeated(s.doc.services, canonicalID(id))
           /\ EndsAgain(s.doc.services, canonicalID(id)) => st = "panic"
<1>0. PICK t : t = RemoveService(s, id)
  OBVIOUS
<1>1. canonicalID(id) \in CanonicalIds /\ s.doc.services \in Seq(CanonicalIds)
  BY CanonicalType, StateShape
<1>2. PICK r : r = RemoveWhileRanging(s.doc.services, canonicalID(id))
  OBVIOUS
<1>3. /\ r.list \in Seq(CanonicalIds) /\ r.panic \in BOOLEAN
      /\ \A x \in CanonicalIds : Repeated(r.list, x) => Repeated(s.doc.services, x)
      /\ r.panic => Repeated(s.doc.services, canonicalID(id))
      /\ EndsAgain(s.doc.services, canonicalID(id)) => r.panic
  BY <1>1, <1>2, RemoveAny
<1>4. PICK st \in {"building", "panic"} : st = IF r.panic THEN "panic" ELSE "building"
  OBVIOUS
<1>5. t = State(s.doc.verificationMethod, r.list, s.doc.refs, st)
  <2>1. s.status = "building"
    BY DEF Ended
  <2>2. t = [s EXCEPT !.doc.services = r.list, !.status = IF r.panic THEN "panic" ELSE @]
    BY <1>0, <1>2 DEF RemoveService
  <2>3. t = [s EXCEPT !.doc.services = r.list, !.status = st]
    BY <1>4, <2>1, <2>2 DEF States
  <2>4. PICK D : D = [s.doc EXCEPT !.services = r.list]
    OBVIOUS
  <2>5. t = [s EXCEPT !.doc = D, !.status = st]
    BY <2>3, <2>4 DEF States
  <2>6. D = [verificationMethod |-> s.doc.verificationMethod, services |-> r.list,
             refs |-> s.doc.refs]
    <3>1. s.doc \in Document
      BY StateShape
    <3> QED BY <2>4, <3>1 DEF Document
  <2> QED BY <2>5, <2>6 DEF State, States
<1> QED
  BY <1>0, <1>3, <1>4, <1>5

LEMMA RemoveServiceLeaves ==
  ASSUME NEW d \in Document, NEW I, NEW s \in ServicesLeft(d, I), NEW id \in Ids,
         canonicalID(id) \in I
  PROVE  RemoveService(s, id) \in ServicesLeft(d, I)
<1>1. /\ s \in States /\ Less(s.doc, d) /\ canonicalID(id) \in CanonicalIds
      /\ s.status = "panic" => \E x \in I : Repeated(d.services, x)
  BY CanonicalType DEF ServicesLeft
<1>2. CASE Ended(s)
  BY <1>2 DEF RemoveService
<1>3. CASE ~Ended(s)
  <2>1. PICK sv \in Seq(CanonicalIds), st \in {"building", "panic"} :
           /\ RemoveService(s, id) = State(s.doc.verificationMethod, sv, s.doc.refs, st)
           /\ \A x \in CanonicalIds : Repeated(sv, x) => Repeated(s.doc.services, x)
           /\ st = "panic" => Repeated(s.doc.services, canonicalID(id))
    BY <1>1, <1>3, RemoveServiceAny
  <2>2. PICK t : t = RemoveService(s, id)
    OBVIOUS
  <2>3. /\ t.doc.verificationMethod = s.doc.verificationMethod /\ t.doc.services = sv
        /\ t.doc.refs = s.doc.refs /\ t.status = st
    BY <2>1, <2>2, StateOf
  <2>4. t \in States
    <3>1. s.doc.verificationMethod \in Seq(CanonicalIds) /\ s.doc.refs \in [Purposes -> Seq(CanonicalIds)]
      BY <1>1, StateShape
    <3> QED BY <2>1, <2>2, <3>1, StateType
  <2>5. Less(t.doc, d)
    BY <1>1, <2>1, <2>3 DEF Less
  <2>6. t.status = "panic" => Repeated(d.services, canonicalID(id))
    BY <1>1, <2>1, <2>3 DEF Less
  <2> QED BY <2>2, <2>4, <2>5, <2>6 DEF ServicesLeft
<1> QED
  BY <1>2, <1>3

LEMMA RemoveRefsAny ==
  ASSUME NEW s \in States, NEW id \in CanonicalIds
  PROVE  \E rf \in [Purposes -> Seq(CanonicalIds)], st \in {"building", "error", "panic"} :
           /\ RemoveRefs(s, id) = State(s.doc.verificationMethod, s.doc.services, rf, st)
           /\ \A p \in Purposes, x \in CanonicalIds :
                Repeated(rf[p], x) => Repeated(s.doc.refs[p], x)
           /\ st = s.status \/ (st = "panic" /\ \E p \in Purposes : Repeated(s.doc.refs[p], id))
           /\ (\E p \in Purposes : EndsAgain(s.doc.refs[p], id)) => st = "panic"
<1>0. PICK t : t = RemoveRefs(s, id)
  OBVIOUS
<1> DEFINE r == [p \in Purposes |-> RemoveWhileRanging(s.doc.refs[p], id)]
           R == [p \in Purposes |-> r[p].list]
<1>1. ASSUME NEW p \in Purposes
      PROVE  /\ r[p].panic \in BOOLEAN /\ r[p].list \in Seq(CanonicalIds)
             /\ \A x \in CanonicalIds : Repeated(r[p].list, x) => Repeated(s.doc.refs[p], x)
             /\ r[p].panic => Repeated(s.doc.refs[p], id)
             /\ EndsAgain(s.doc.refs[p], id) => r[p].panic
  <2>1. s.doc.refs[p] \in Seq(CanonicalIds) /\ r[p] = RemoveWhileRanging(s.doc.refs[p], id)
    BY StateShape
  <2>2. PICK x, y : x \in Seq(CanonicalIds) /\ x = s.doc.refs[p] /\ y = r[p]
    BY <2>1
  <2>3. y = RemoveWhileRanging(x, id)
    BY <2>1, <2>2
  <2> HIDE DEF r
  <2>4. /\ y.panic \in BOOLEAN /\ y.list \in Seq(CanonicalIds)
        /\ \A z \in CanonicalIds : Repeated(y.list, z) => Repeated(x, z)
        /\ y.panic => Repeated(x, id)
        /\ EndsAgain(x, id) => y.panic
    BY <2>2, <2>3, RemoveAny
  <2> QED BY <2>2, <2>4
<1>2. t = [s EXCEPT !.doc.refs = R,
                    !.status = IF \E p \in Purposes : r[p].panic THEN "panic" ELSE @]
  BY <1>0 DEF RemoveRefs
<1> HIDE DEF r
<1>3. R \in [Purposes -> Seq(CanonicalIds)] /\ \A p \in Purposes : R[p] = r[p].list
  BY <1>1
<1> HIDE DEF R
<1>4. PICK st \in {"building", "error", "panic"} :
        st = IF \E p \in Purposes : r[p].panic THEN "panic" ELSE s.status
  BY StateShape
<1>5. t = [s EXCEPT !.doc.refs = R, !.status = st]
  BY <1>2, <1>4 DEF States
<1>6. t = State(s.doc.verificationMethod, s.doc.services, R, st)
  <2>1. PICK D : D = [s.doc EXCEPT !.refs = R]
    OBVIOUS
  <2>2. t = [s EXCEPT !.doc = D, !.status = st]
    BY <1>5, <2>1 DEF States
  <2>3. D = [verificationMethod |-> s.doc.verificationMethod, services |-> s.doc.services,
             refs |-> R]
    <3>1. s.doc \in Document
      BY StateShape
    <3> QED BY <2>1, <3>1 DEF Document
  <2> QED BY <2>2, <2>3 DEF State, States
<1>7. \A p \in Purposes, x \in CanonicalIds : Repeated(R[p], x) => Repeated(s.doc.refs[p], x)
  BY <1>1, <1>3
<1>8. st = s.status \/ (st = "panic" /\ \E p \in Purposes : Repeated(s.doc.refs[p], id))
  BY <1>1, <1>4
<1>9. (\E p \in Purposes : EndsAgain(s.doc.refs[p], id)) => st = "panic"
  BY <1>1, <1>4
<1> QED
  BY <1>0, <1>3, <1>6, <1>7, <1>8, <1>9

(* The loops over the purposes, run once for every hit.                    *)
Again(t, id) == IF Ended(t) THEN t ELSE RemoveRefs(t, id)

LEMMA RemoveAgainsLoop ==
  ASSUME NEW S, NEW base \in S, NEW id, NEW n \in Nat, NEW list, DOMAIN list = 1..n,
         \A x \in S : Again(x, id) \in S
  PROVE  /\ RemoveAgains(base, id, list) \in S
         /\ n > 0 => \E x \in S : RemoveAgains(base, id, list) = Again(x, id)
<1> DEFINE step == [x \in S \X (1..n) |-> Again(x[1], id)]
           Body(it) == [s \in SUBSET (1..n) |->
                          IF s = {} THEN base
                          ELSE Again(it[s \ {Max(s)}], id)]
<1>1. n \in Nat /\ DOMAIN list = 1..n
  OBVIOUS
<1>2. ASSUME NEW x \in S, NEW k \in 1..n PROVE Again(x, id) \in S
  OBVIOUS
<1>3. PICK g \in [SUBSET (1..n) -> S] : Folds(g, step, base, n)
  <2>1. step \in [S \X (1..n) -> S]
    BY <1>2
  <2> HIDE DEF step
  <2> QED BY <1>1, <2>1, FoldsExist
<1>4. g = Body(g)
  <2>1. ASSUME NEW s \in SUBSET (1..n), s # {}
        PROVE  g[s] = Again(g[s \ {Max(s)}], id)
    <3>1. Max(s) \in 1..n
      BY <1>1, <2>1, MaxIn
    <3>2. g[s] = step[<<g[s \ {Max(s)}], Max(s)>>]
      <4> HIDE DEF step
      <4> QED BY <1>3, <2>1 DEF Folds
    <3> QED BY <1>3, <3>1, <3>2
  <2>2. g[{}] = base
    BY <1>3 DEF Folds
  <2> QED BY <1>3, <2>1, <2>2
<1>5. PICK f : f = Body(f) /\ RemoveAgains(base, id, list) = f[1..n]
  <2>1. RemoveAgains(base, id, list) = (CHOOSE it : it = Body(it))[1..n]
    BY <1>1 DEF RemoveAgains, Again, FoldLeft, MapThenFoldSet
  <2> HIDE DEF Body
  <2> QED BY <1>4, <2>1
<1> DEFINE run == [k \in 0..n |-> f[1..k]]
<1>6. run[0] = base /\ run[n] = RemoveAgains(base, id, list)
  BY <1>1, <1>5, Passed
<1>7. ASSUME NEW k \in 1..n PROVE run[k] = Again(run[k - 1], id)
  <2>1. /\ 1..k \in SUBSET (1..n) /\ 1..k # {} /\ Max(1..k) = k
        /\ (1..k) \ {k} = 1..(k - 1) /\ k - 1 \in 0..n /\ k \in 0..n
    BY <1>1, Passed
  <2>2. f[1..k] = Again(f[(1..k) \ {k}], id)
    BY <1>5, <2>1
  <2> QED BY <2>1, <2>2
<1>8. run \in [0..n -> S]
  <2> DEFINE T == {k \in 0..n : run[k] \in S}
  <2>1. T \in SUBSET (0..n) /\ 0 \in T
    BY <1>1, <1>6, Passed
  <2>2. ASSUME NEW k \in 1..n, k - 1 \in T PROVE k \in T
    <3>1. k \in 0..n
      BY <1>1, Passed
    <3> HIDE DEF run
    <3> QED BY <1>2, <1>7, <2>2, <3>1
  <2>3. T = 0..n
    <3> HIDE DEF T
    <3> QED BY <1>1, <2>1, <2>2, Counting
  <2> QED BY <2>3
<1> HIDE DEF run
<1>9. n \in 0..n /\ (n > 0 => n \in 1..n /\ n - 1 \in 0..n)
  OBVIOUS
<1> QED
  BY <1>6, <1>7, <1>8, <1>9

LEMMA AgainLeaves ==
  ASSUME NEW d \in Document, NEW I, NEW s \in KeysLeft(d, I), NEW id \in CanonicalIds, id \in I
  PROVE  Again(s, id) \in KeysLeft(d, I)
<1>1. /\ s \in States /\ Less(s.doc, d)
      /\ s.status = "panic" => \E x \in I : RepeatedKey(d, x)
  BY DEF KeysLeft
<1>2. CASE Ended(s)
  BY <1>2 DEF Again
<1>3. CASE ~Ended(s)
  <2>1. PICK rf \in [Purposes -> Seq(CanonicalIds)], st \in {"building", "error", "panic"} :
           /\ RemoveRefs(s, id) = State(s.doc.verificationMethod, s.doc.services, rf, st)
           /\ \A p \in Purposes, x \in CanonicalIds :
                Repeated(rf[p], x) => Repeated(s.doc.refs[p], x)
           /\ st = s.status \/ (st = "panic" /\ \E p \in Purposes : Repeated(s.doc.refs[p], id))
    BY <1>1, RemoveRefsAny
  <2>2. PICK t : t = Again(s, id) /\ t = RemoveRefs(s, id)
    BY <1>3 DEF Again
  <2>3. /\ t.doc.verificationMethod = s.doc.verificationMethod /\ t.doc.refs = rf
        /\ t.doc.services = s.doc.services /\ t.status = st
    BY <2>1, <2>2, StateOf
  <2>4. t \in States
    <3>1. s.doc.verificationMethod \in Seq(CanonicalIds) /\ s.doc.services \in Seq(CanonicalIds)
      BY <1>1, StateShape
    <3> QED BY <2>1, <2>2, <3>1, StateType
  <2>5. Less(t.doc, d)
    BY <1>1, <2>1, <2>3 DEF Less
  <2>6. s.status = "building"
    BY <1>3 DEF Ended
  <2>7. t.status = "panic" => RepeatedKey(d, id)
    BY <1>1, <2>1, <2>3, <2>6 DEF Less, RepeatedKey
  <2> QED BY <2>2, <2>4, <2>5, <2>7 DEF KeysLeft
<1> QED
  BY <1>2, <1>3

LEMMA AgainsLeave ==
  ASSUME NEW d \in Document, NEW I, NEW s \in KeysLeft(d, I), NEW id \in CanonicalIds, id \in I,
         NEW hits \in Nat
  PROVE  RemoveAgains(s, id, [i \in 1..hits |-> i]) \in KeysLeft(d, I)
<1>1. PICK S, list : S = KeysLeft(d, I) /\ list = [i \in 1..hits |-> i]
  OBVIOUS
<1>2. PICK base \in S : base = s
  BY <1>1
<1>3. (\A x \in S : Again(x, id) \in S) /\ DOMAIN list = 1..hits
  BY <1>1, AgainLeaves
<1>4. RemoveAgains(base, id, list) \in S
  BY <1>3, RemoveAgainsLoop
<1> QED
  BY <1>1, <1>2, <1>4

(* A panic in the first round stays.                                       *)
LEMMA AgainsPanic ==
  ASSUME NEW s \in States, NEW id \in CanonicalIds, NEW hits \in Nat, hits > 0,
         Again(s, id).status = "panic"
  PROVE  RemoveAgains(s, id, [i \in 1..hits |-> i]).status = "panic"
<1>1. PICK S, list : S = {s, Again(s, id)} /\ list = [i \in 1..hits |-> i]
  OBVIOUS
<1>2. PICK base \in S : base = s
  BY <1>1
<1>3. Again(Again(s, id), id) = Again(s, id)
  BY DEF Again, Ended
<1>4. (\A x \in S : Again(x, id) \in S) /\ DOMAIN list = 1..hits
  BY <1>1, <1>3
<1>5. PICK x \in S : RemoveAgains(base, id, list) = Again(x, id)
  BY <1>4, RemoveAgainsLoop
<1>6. RemoveAgains(base, id, list) = Again(s, id)
  BY <1>1, <1>3, <1>5
<1> QED
  BY <1>1, <1>2, <1>6

LEMMA RemovePublicKeyAny ==
  ASSUME NEW s \in States, ~Ended(s), NEW rawId \in Ids
  PROVE  \E vm \in Seq(CanonicalIds), st \in {"building", "panic"}, hits \in Nat :
           /\ RemovePublicKey(s, rawId) =
                IF hits = 0 /\ st = "building"
                THEN State(s.doc.verificationMethod, s.doc.services, s.doc.refs, "error")
                ELSE RemoveAgains(State(vm, s.doc.services, s.doc.refs, st),
                                  canonicalID(rawId), [i \in 1..hits |-> i])
           /\ \A x \in CanonicalIds : Repeated(vm, x) => Repeated(s.doc.verificationMethod, x)
           /\ st = "panic" => Repeated(s.doc.verificationMethod, canonicalID(rawId))
           /\ EndsAgain(s.doc.verificationMethod, canonicalID(rawId)) => st = "panic"
           /\ hits > 0 <=> canonicalID(rawId) \in Range(s.doc.verificationMethod)
<1>0. PICK t : t = RemovePublicKey(s, rawId)
  OBVIOUS
<1> DEFINE id == canonicalID(rawId)
           r  == RemoveWhileRanging(s.doc.verificationMethod, id)
           t0 == [s EXCEPT !.doc.verificationMethod = r.list,
                           !.status = IF r.panic THEN "panic" ELSE @]
<1>1. t = IF r.hits = 0 /\ ~r.panic THEN [s EXCEPT !.status = "error"]
          ELSE RemoveAgains(t0, id, [i \in 1..r.hits |-> i])
  BY <1>0 DEF RemovePublicKey, RemoveAgains
<1>2. id \in CanonicalIds /\ id = canonicalID(rawId)
  BY CanonicalType
<1> HIDE DEF id
<1>3. /\ s.doc.verificationMethod \in Seq(CanonicalIds) /\ s.doc.services \in Seq(CanonicalIds)
      /\ s.doc.refs \in [Purposes -> Seq(CanonicalIds)] /\ s.doc \in Document
  BY StateShape
<1>4. /\ r.list \in Seq(CanonicalIds) /\ r.hits \in Nat /\ r.panic \in BOOLEAN
      /\ \A x \in CanonicalIds : Repeated(r.list, x) => Repeated(s.doc.verificationMethod, x)
      /\ r.panic => Repeated(s.doc.verificationMethod, id)
      /\ EndsAgain(s.doc.verificationMethod, id) => r.panic
      /\ r.hits > 0 <=> id \in Range(s.doc.verificationMethod)
  BY <1>2, <1>3, RemoveAny
<1> HIDE DEF r
<1>5. PICK st \in {"building", "panic"} : st = IF r.panic THEN "panic" ELSE "building"
  OBVIOUS
<1>6. t0 = State(r.list, s.doc.services, s.doc.refs, st)
  <2>1. s.status = "building"
    BY DEF Ended
  <2>2. t0 = [s EXCEPT !.doc.verificationMethod = r.list, !.status = st]
    BY <1>5, <2>1 DEF States
  <2> HIDE DEF t0
  <2>3. PICK D : D = [s.doc EXCEPT !.verificationMethod = r.list]
    OBVIOUS
  <2>4. t0 = [s EXCEPT !.doc = D, !.status = st]
    BY <2>2, <2>3 DEF States
  <2>5. D = [verificationMethod |-> r.list, services |-> s.doc.services, refs |-> s.doc.refs]
    BY <1>3, <2>3 DEF Document
  <2> QED BY <2>4, <2>5 DEF State, States
<1> HIDE DEF t0
<1>7. [s EXCEPT !.status = "error"]
        = State(s.doc.verificationMethod, s.doc.services, s.doc.refs, "error")
  BY StateShape DEF State
<1>8. ~r.panic <=> st = "building"
  BY <1>5
<1>9. t = IF r.hits = 0 /\ st = "building"
           THEN State(s.doc.verificationMethod, s.doc.services, s.doc.refs, "error")
           ELSE RemoveAgains(State(r.list, s.doc.services, s.doc.refs, st),
                             canonicalID(rawId), [i \in 1..r.hits |-> i])
  BY <1>2, <1>1, <1>6, <1>7, <1>8
<1> QED
  BY <1>0, <1>2, <1>4, <1>5, <1>9

LEMMA RemovePublicKeyLeaves ==
  ASSUME NEW d \in Document, NEW I, NEW s \in KeysLeft(d, I), NEW rawId \in Ids,
         canonicalID(rawId) \in I
  PROVE  RemovePublicKey(s, rawId) \in KeysLeft(d, I)
<1>1. /\ s \in States /\ Less(s.doc, d)
      /\ s.status = "panic" => \E x \in I : RepeatedKey(d, x)
  BY DEF KeysLeft
<1>2. PICK id \in CanonicalIds : id = canonicalID(rawId) /\ id \in I
  BY CanonicalType
<1>3. CASE Ended(s)
  BY <1>3 DEF RemovePublicKey
<1>4. CASE ~Ended(s)
  <2>1. PICK vm \in Seq(CanonicalIds), st \in {"building", "panic"}, hits \in Nat :
          /\ RemovePublicKey(s, rawId) =
               IF hits = 0 /\ st = "building"
               THEN State(s.doc.verificationMethod, s.doc.services, s.doc.refs, "error")
               ELSE RemoveAgains(State(vm, s.doc.services, s.doc.refs, st), id,
                                 [i \in 1..hits |-> i])
          /\ \A x \in CanonicalIds : Repeated(vm, x) => Repeated(s.doc.verificationMethod, x)
          /\ st = "panic" => Repeated(s.doc.verificationMethod, id)
    BY <1>1, <1>2, <1>4, RemovePublicKeyAny
  <2>2. /\ s.doc.verificationMethod \in Seq(CanonicalIds) /\ s.doc.services \in Seq(CanonicalIds)
        /\ s.doc.refs \in [Purposes -> Seq(CanonicalIds)]
    BY <1>1, StateShape
  <2>3. State(s.doc.verificationMethod, s.doc.services, s.doc.refs, "error") \in KeysLeft(d, I)
    <3>1. PICK e : e = State(s.doc.verificationMethod, s.doc.services, s.doc.refs, "error")
      OBVIOUS
    <3>2. /\ e.doc.verificationMethod = s.doc.verificationMethod /\ e.doc.services = s.doc.services
          /\ e.doc.refs = s.doc.refs /\ e.status = "error" /\ e \in States
      BY <2>2, <3>1, StateOf, StateType
    <3>3. Less(e.doc, d)
      BY <1>1, <3>2 DEF Less
    <3> QED BY <3>1, <3>2, <3>3 DEF KeysLeft
  <2>4. PICK t0 : t0 = State(vm, s.doc.services, s.doc.refs, st)
    OBVIOUS
  <2>5. t0 \in KeysLeft(d, I)
    <3>1. /\ t0.doc.verificationMethod = vm /\ t0.doc.services = s.doc.services
          /\ t0.doc.refs = s.doc.refs /\ t0.status = st /\ t0 \in States
      BY <2>1, <2>2, <2>4, StateOf, StateType
    <3>2. Less(t0.doc, d)
      BY <1>1, <2>1, <3>1 DEF Less
    <3>3. t0.status = "panic" => RepeatedKey(d, id)
      BY <1>1, <2>1, <3>1 DEF Less, RepeatedKey
    <3> QED BY <1>2, <3>1, <3>2, <3>3 DEF KeysLeft
  <2>6. RemoveAgains(t0, id, [i \in 1..hits |-> i]) \in KeysLeft(d, I)
    BY <1>2, <2>5, AgainsLeave
  <2> QED BY <2>1, <2>3, <2>4, <2>6
<1> QED
  BY <1>3, <1>4

(* A single id that ends a list again.                                     *)
LEMMA RemovePublicKeyPanics ==
  ASSUME NEW s \in States, ~Ended(s), NEW rawId \in Ids,
         canonicalID(rawId) \in Range(s.doc.verificationMethod),
         \/ EndsAgain(s.doc.verificationMethod, canonicalID(rawId))
         \/ \E p \in Purposes : EndsAgain(s.doc.refs[p], canonicalID(rawId))
  PROVE  RemovePublicKey(s, rawId).status = "panic"
<1>1. PICK id \in CanonicalIds : id = canonicalID(rawId)
  BY CanonicalType
<1>2. PICK vm \in Seq(CanonicalIds), st \in {"building", "panic"}, hits \in Nat :
        /\ RemovePublicKey(s, rawId) =
             IF hits = 0 /\ st = "building"
             THEN State(s.doc.verificationMethod, s.doc.services, s.doc.refs, "error")
             ELSE RemoveAgains(State(vm, s.doc.services, s.doc.refs, st), id,
                               [i \in 1..hits |-> i])
        /\ EndsAgain(s.doc.verificationMethod, id) => st = "panic"
        /\ hits > 0 <=> id \in Range(s.doc.verificationMethod)
  BY <1>1, RemovePublicKeyAny
<1>3. PICK t0 : t0 = State(vm, s.doc.services, s.doc.refs, st)
  OBVIOUS
<1>4. hits > 0 /\ RemovePublicKey(s, rawId) = RemoveAgains(t0, id, [i \in 1..hits |-> i])
  BY <1>1, <1>2, <1>3
<1>5. t0 \in States /\ t0.doc.refs = s.doc.refs /\ t0.status = st
  <2>1. s.doc.services \in Seq(CanonicalIds) /\ s.doc.refs \in [Purposes -> Seq(CanonicalIds)]
    BY StateShape
  <2> QED BY <1>3, <2>1, StateOf, StateType
<1>6. Again(t0, id).status = "panic"
  <2>1. CASE st = "panic"
    BY <1>5, <2>1 DEF Again, Ended
  <2>2. CASE st = "building"
    <3>1. Again(t0, id) = RemoveRefs(t0, id)
      BY <1>5, <2>2 DEF Again, Ended
    <3>2. \E p \in Purposes : EndsAgain(t0.doc.refs[p], id)
      BY <1>1, <1>2, <1>5, <2>2
    <3>3. PICK rf \in [Purposes -> Seq(CanonicalIds)], e \in {"building", "error", "panic"} :
            /\ RemoveRefs(t0, id) = State(t0.doc.verificationMethod, t0.doc.services, rf, e)
            /\ (\E p \in Purposes : EndsAgain(t0.doc.refs[p], id)) => e = "panic"
      BY <1>5, RemoveRefsAny
    <3> QED BY <3>1, <3>2, <3>3, StateOf
  <2> QED BY <2>1, <2>2
<1> QED
  BY <1>4, <1>5, <1>6, AgainsPanic

(***************************************************************************)
(* The loops that add never panic.                                         *)
(***************************************************************************)
LEMMA PurposesNeverPanic ==
  ASSUME NEW s \in States, s.status # "panic", NEW id \in CanonicalIds,
         NEW list \in Seq(Purposes \cup {BadPurpose})
  PROVE  \E t \in States : t = AddPurposes(s, id, list) /\ t.status # "panic"
<1>1. PICK run \in [0..Len(list) -> States] :
        /\ run[0] = s /\ run[Len(list)] = AddPurposes(s, id, list)
        /\ \A k \in 1..Len(list) : run[k] = AddPurpose(run[k - 1], id, list[k])
  BY AddPurposeLoop
<1> DEFINE n == Len(list)
           T == {k \in 0..n : run[k].status # "panic"}
<1>2. n \in Nat /\ n \in 0..n /\ T \in SUBSET (0..n) /\ 0 \in T
  BY <1>1
<1>3. ASSUME NEW k \in 1..n, k - 1 \in T PROVE k \in T
  <2>1. PICK x \in States : x = run[k - 1] /\ x.status # "panic"
    BY <1>2, <1>3
  <2>2. PICK p : p = list[k]
    OBVIOUS
  <2>3. PICK y : y = AddPurpose(x, id, p)
    OBVIOUS
  <2>4. y.status # "panic"
    <3>1. CASE Ended(x)
      BY <2>1, <2>3, <3>1 DEF AddPurpose
    <3>2. CASE ~Ended(x) /\ p \notin Purposes
      <4>1. y = [x EXCEPT !.status = "error"]
        BY <2>3, <3>2 DEF AddPurpose
      <4> QED BY <4>1 DEF States
    <3>3. CASE ~Ended(x) /\ p \in Purposes
      <4>1. y = [x EXCEPT !.doc.refs[p] = Append(@, id)]
        BY <2>3, <3>3 DEF AddPurpose
      <4>2. y.status = x.status
        BY <4>1 DEF States
      <4> QED BY <2>1, <4>2
    <3> QED BY <3>1, <3>2, <3>3
  <2> QED BY <1>1, <1>2, <2>1, <2>2, <2>3, <2>4
<1>4. n \in T
  <2> HIDE DEF T
  <2> QED BY <1>2, <1>3, Counting
<1> QED
  BY <1>1, <1>2, <1>4

LEMMA KeyNeverPanics ==
  ASSUME NEW s \in States, s.status # "panic", NEW key \in Keys
  PROVE  \E t \in States : t = AddPublicKey(s, key) /\ t.status # "panic"
<1>1. CASE Ended(s)
  BY <1>1 DEF AddPublicKey
<1>2. CASE ~Ended(s)
  <2> DEFINE id == canonicalID(key.id)
             u == [s EXCEPT !.doc.verificationMethod = Append(@, id)]
  <2>1. id \in CanonicalIds /\ key.purposes \in Seq(Purposes \cup {BadPurpose})
    BY CanonicalType DEF Keys
  <2> HIDE DEF id
  <2>2. u \in States
    BY <2>1, AddMethodType
  <2>3. AddPublicKey(s, key) = AddPurposes(u, id, key.purposes)
    BY <1>2 DEF AddPublicKey, AddPurposes, id
  <2>4. u.status # "panic"
    BY DEF States
  <2> HIDE DEF u
  <2> QED BY <2>1, <2>2, <2>3, <2>4, PurposesNeverPanic
<1> QED
  BY <1>1, <1>2

LEMMA KeysNeverPanic ==
  ASSUME NEW s \in States, s.status # "panic", NEW list \in Seq(Keys)
  PROVE  \E t \in States : t = AddPublicKeys(s, list) /\ t.status # "panic"
<1>1. PICK run \in [0..Len(list) -> States] :
        /\ run[0] = s /\ run[Len(list)] = AddPublicKeys(s, list)
        /\ \A k \in 1..Len(list) : run[k] = AddPublicKey(run[k - 1], list[k])
  BY AddPublicKeyLoop
<1> DEFINE n == Len(list)
           T == {k \in 0..n : run[k].status # "panic"}
<1>2. n \in Nat /\ n \in 0..n /\ T \in SUBSET (0..n) /\ 0 \in T
  BY <1>1
<1>3. ASSUME NEW k \in 1..n, k - 1 \in T PROVE k \in T
  <2>1. PICK x \in States : x = run[k - 1] /\ x.status # "panic"
    BY <1>2, <1>3
  <2>2. PICK key \in Keys : key = list[k]
    OBVIOUS
  <2>3. PICK y \in States : y = AddPublicKey(x, key) /\ y.status # "panic"
    BY <2>1, KeyNeverPanics
  <2> QED BY <1>1, <1>2, <2>1, <2>2, <2>3
<1>4. n \in T
  <2> HIDE DEF T
  <2> QED BY <1>2, <1>3, Counting
<1> QED
  BY <1>1, <1>2, <1>4

(***************************************************************************)
(* The patches, applied to any document.                                   *)
(***************************************************************************)
LEMMA ServicesRemovedAny ==
  ASSUME NEW d \in Document, NEW list \in Seq(Ids),
         NEW s \in States, s.doc = d, s.status = "building"
  PROVE  \E t \in States :
           /\ t = RemoveServices(s, list)
           /\ t.status = "panic" => \E x \in Removed(list, Len(list)) : Repeated(d.services, x)
           /\ Len(list) = 1 /\ EndsAgain(d.services, canonicalID(list[1])) => t.status = "panic"
<1>1. PICK I, S : I = Removed(list, Len(list)) /\ S = ServicesLeft(d, I)
  OBVIOUS
<1>2. PICK base \in S : base = s
  BY <1>1 DEF ServicesLeft, Less
<1>3. ASSUME NEW x \in S, NEW k \in 1..Len(list) PROVE RemoveService(x, list[k]) \in S
  <2>1. list[k] \in Ids /\ canonicalID(list[k]) \in I
    BY <1>1 DEF Removed
  <2> QED BY <1>1, <2>1, RemoveServiceLeaves
<1>4. PICK run \in [0..Len(list) -> S] :
        /\ run[0] = base /\ run[Len(list)] = RemoveServices(base, list)
        /\ \A k \in 1..Len(list) : run[k] = RemoveService(run[k - 1], list[k])
  BY <1>3, RemoveServiceLoop
<1>5. Len(list) \in 0..Len(list)
  OBVIOUS
<1>6. PICK t \in S : t = RemoveServices(s, list) /\ t = run[Len(list)]
  BY <1>2, <1>4, <1>5
<1>7. ASSUME Len(list) = 1, EndsAgain(d.services, canonicalID(list[1])) PROVE t.status = "panic"
  <2>1. t = RemoveService(s, list[1]) /\ list[1] \in Ids /\ ~Ended(s)
    <3>1. Len(list) = 1
      BY <1>7
    <3>2. 1 \in 1..Len(list) /\ 1 - 1 = 0
      BY <3>1
    <3>3. run[1] = RemoveService(run[1 - 1], list[1])
      BY <1>4, <3>2
    <3>4. t = RemoveService(s, list[1])
      BY <1>2, <1>4, <1>6, <3>1, <3>2, <3>3
    <3>5. list[1] \in Ids
      BY <3>2
    <3> QED BY <3>4, <3>5 DEF Ended
  <2>2. PICK sv \in Seq(CanonicalIds), st \in {"building", "panic"} :
          /\ RemoveService(s, list[1]) = State(s.doc.verificationMethod, sv, s.doc.refs, st)
          /\ EndsAgain(s.doc.services, canonicalID(list[1])) => st = "panic"
    BY <2>1, RemoveServiceAny
  <2> QED BY <1>7, <2>1, <2>2, StateOf
<1> QED
  BY <1>1, <1>6, <1>7 DEF ServicesLeft

LEMMA KeysRemovedAny ==
  ASSUME NEW d \in Document, NEW list \in Seq(Ids),
         NEW s \in States, s.doc = d, s.status = "building"
  PROVE  \E t \in States :
           /\ t = RemovePublicKeys(s, list)
           /\ t.status = "panic" => \E x \in Removed(list, Len(list)) : RepeatedKey(d, x)
           /\ /\ Len(list) = 1 /\ canonicalID(list[1]) \in Range(d.verificationMethod)
              /\ \/ EndsAgain(d.verificationMethod, canonicalID(list[1]))
                 \/ \E p \in Purposes : EndsAgain(d.refs[p], canonicalID(list[1]))
              => t.status = "panic"
<1>1. PICK I, S : I = Removed(list, Len(list)) /\ S = KeysLeft(d, I)
  OBVIOUS
<1>2. PICK base \in S : base = s
  BY <1>1 DEF KeysLeft, Less
<1>3. ASSUME NEW x \in S, NEW k \in 1..Len(list) PROVE RemovePublicKey(x, list[k]) \in S
  <2>1. list[k] \in Ids /\ canonicalID(list[k]) \in I
    BY <1>1 DEF Removed
  <2> QED BY <1>1, <2>1, RemovePublicKeyLeaves
<1>4. PICK run \in [0..Len(list) -> S] :
        /\ run[0] = base /\ run[Len(list)] = RemovePublicKeys(base, list)
        /\ \A k \in 1..Len(list) : run[k] = RemovePublicKey(run[k - 1], list[k])
  BY <1>3, RemovePublicKeyLoop
<1>5. Len(list) \in 0..Len(list)
  OBVIOUS
<1>6. PICK t \in S : t = RemovePublicKeys(s, list) /\ t = run[Len(list)]
  BY <1>2, <1>4, <1>5
<1>7. ASSUME Len(list) = 1, canonicalID(list[1]) \in Range(d.verificationMethod),
             \/ EndsAgain(d.verificationMethod, canonicalID(list[1]))
             \/ \E p \in Purposes : EndsAgain(d.refs[p], canonicalID(list[1]))
      PROVE  t.status = "panic"
  <2>1. t = RemovePublicKey(s, list[1]) /\ list[1] \in Ids /\ ~Ended(s)
    <3>1. Len(list) = 1
      BY <1>7
    <3>2. 1 \in 1..Len(list) /\ 1 - 1 = 0
      BY <3>1
    <3>3. run[1] = RemovePublicKey(run[1 - 1], list[1])
      BY <1>4, <3>2
    <3>4. t = RemovePublicKey(s, list[1])
      BY <1>2, <1>4, <1>6, <3>1, <3>2, <3>3
    <3>5. list[1] \in Ids
      BY <3>2
    <3> QED BY <3>4, <3>5 DEF Ended
  <2> QED BY <1>7, <2>1, RemovePublicKeyPanics
<1> QED
  BY <1>1, <1>6, <1>7 DEF KeysLeft

(* The lists and the ids of the property are the ones of the loops.        *)
LEMMA WalkedLists ==
  ASSUME NEW d, d = doc, NEW patch \in Patches, NEW list, list = patch.ids
  PROVE  /\ RemovedIds(patch) = Removed(list, Len(list))
         /\ patch.action = "remove-services" => Walked(patch) = {d.services}
         /\ patch.action = "remove-public-keys" =>
              Walked(patch) = {d.verificationMethod} \cup Range(d.refs)
         /\ patch.action \notin {"remove-services", "remove-public-keys"} => Walked(patch) = {}
<1>1. list \in Seq(Ids)
  BY DEF Patches
<1>2. DOMAIN list = 1..Len(list)
  BY <1>1
<1>3. RemovedIds(patch) = Removed(list, Len(list))
  BY <1>2 DEF RemovedIds, Removed, Range
<1> QED
  BY <1>3 DEF Walked

LEMMA AppliedAny ==
  ASSUME doc \in Document, NEW patch \in Patches
  PROVE  \E t \in States :
           /\ t = ApplyPatch([doc |-> doc, status |-> "building"], patch)
           /\ t.status = "panic" =>
                \E list \in Walked(patch), id \in RemovedIds(patch) : Repeated(list, id)
           /\ SurelyPanics(patch) => t.status = "panic"
<1>1. PICK d \in Document : d = doc
  OBVIOUS
<1>2. PICK s \in States : s = [doc |-> d, status |-> "building"] /\ s.doc = d /\ s.status = "building"
  <2>1. [doc |-> d, status |-> "building"] \in States
    BY DEF States
  <2> QED BY <2>1
<1>3. PICK list \in Seq(Ids) : list = patch.ids
  BY DEF Patches
<1>4. /\ RemovedIds(patch) = Removed(list, Len(list))
      /\ patch.action = "remove-services" => Walked(patch) = {d.services}
      /\ patch.action = "remove-public-keys" =>
           Walked(patch) = {d.verificationMethod} \cup Range(d.refs)
      /\ patch.action \notin {"remove-services", "remove-public-keys"} => Walked(patch) = {}
  BY <1>1, <1>3, WalkedLists
<1>5. d.refs \in [Purposes -> Seq(CanonicalIds)] /\ Range(d.refs) = {d.refs[p] : p \in Purposes}
  BY DEF Document, Range
<1>6. Len(list) = 1 => RemovedIds(patch) = {canonicalID(list[1])}
  BY <1>4 DEF Removed
<1> SUFFICES \E t \in States :
           /\ t = ApplyPatch(s, patch)
           /\ t.status = "panic" =>
                \E l \in Walked(patch), id \in RemovedIds(patch) : Repeated(l, id)
           /\ SurelyPanics(patch) => t.status = "panic"
  BY <1>1, <1>2
<1>7. CASE patch.action = "remove-services"
  <2>1. PICK t \in States :
          /\ t = RemoveServices(s, list)
          /\ t.status = "panic" => \E x \in Removed(list, Len(list)) : Repeated(d.services, x)
          /\ Len(list) = 1 /\ EndsAgain(d.services, canonicalID(list[1])) => t.status = "panic"
    BY <1>2, ServicesRemovedAny
  <2>2. ApplyPatch(s, patch) = RemoveServices(s, list)
    BY <1>3, <1>7 DEF ApplyPatch, RemoveServices
  <2>3. SurelyPanics(patch) => t.status = "panic"
    BY <1>3, <1>4, <1>6, <1>7, <2>1 DEF SurelyPanics
  <2> QED BY <1>4, <1>7, <2>1, <2>2, <2>3
<1>8. CASE patch.action = "remove-public-keys"
  <2>1. PICK t \in States :
           /\ t = RemovePublicKeys(s, list)
           /\ t.status = "panic" => \E x \in Removed(list, Len(list)) : RepeatedKey(d, x)
           /\ /\ Len(list) = 1 /\ canonicalID(list[1]) \in Range(d.verificationMethod)
              /\ \/ EndsAgain(d.verificationMethod, canonicalID(list[1]))
                 \/ \E p \in Purposes : EndsAgain(d.refs[p], canonicalID(list[1]))
              => t.status = "panic"
    BY <1>2, KeysRemovedAny
  <2>2. ApplyPatch(s, patch) = RemovePublicKeys(s, list)
    BY <1>3, <1>8 DEF ApplyPatch, RemovePublicKeys
  <2>3. ASSUME SurelyPanics(patch) PROVE t.status = "panic"
    <3>1. /\ Len(list) = 1 /\ canonicalID(list[1]) \in Range(d.verificationMethod)
          /\ \E l \in Walked(patch) : EndsAgain(l, canonicalID(list[1]))
      BY <1>1, <1>3, <1>6, <1>8, <2>3 DEF SurelyPanics
    <3>2. \/ EndsAgain(d.verificationMethod, canonicalID(list[1]))
          \/ \E p \in Purposes : EndsAgain(d.refs[p], canonicalID(list[1]))
      BY <1>4, <1>5, <1>8, <3>1
    <3> QED BY <2>1, <3>1, <3>2
  <2>4. ASSUME t.status = "panic"
        PROVE  \E l \in Walked(patch), id \in RemovedIds(patch) : Repeated(l, id)
    <3>1. PICK x \in RemovedIds(patch) : RepeatedKey(d, x)
      BY <1>4, <2>1, <2>4
    <3>2. CASE Repeated(d.verificationMethod, x)
      BY <1>4, <1>8, <3>2
    <3>3. ASSUME NEW p \in Purposes, Repeated(d.refs[p], x)
          PROVE  \E l \in Walked(patch), id \in RemovedIds(patch) : Repeated(l, id)
      <4>1. d.refs[p] \in Walked(patch)
        BY <1>4, <1>5, <1>8
      <4> QED BY <3>3, <4>1
    <3> QED BY <3>1, <3>2, <3>3 DEF RepeatedKey
  <2> QED BY <2>1, <2>2, <2>3, <2>4
<1>9. CASE patch.action \notin {"remove-services", "remove-public-keys"}
  <2>1. patch.action \in {"replace", "add-services", "add-public-keys"}
    BY <1>9 DEF Patches
  <2>2. patch.services \in Seq(Services) /\ patch.keys \in Seq(Keys)
    BY DEF Patches
  <2>3. ~SurelyPanics(patch)
    BY <1>4, <1>9 DEF SurelyPanics
  <2>4. \E t \in States : t = ApplyPatch(s, patch) /\ t.status # "panic"
    <3>1. CASE patch.action = "add-services"
      <4>1. ApplyPatch(s, patch) = AddServices(s, patch.services)
        BY <3>1 DEF ApplyPatch, AddServices
      <4> QED BY <1>2, <2>2, <4>1, ServicesKeepStatus
    <3>2. CASE patch.action = "add-public-keys"
      <4>1. ApplyPatch(s, patch) = AddPublicKeys(s, patch.keys)
        BY <3>2 DEF ApplyPatch, AddPublicKeys
      <4>2. s.status # "panic"
        BY <1>2
      <4> QED BY <2>2, <4>1, <4>2, KeysNeverPanic
    <3>3. CASE patch.action = "replace"
      <4>1. PICK e \in States : e = [s EXCEPT !.doc = EmptyDocument] /\ e.status = "building"
        <5>1. EmptyDocument \in Document
          BY EmptyIsNeat
        <5>2. [s EXCEPT !.doc = EmptyDocument] \in States
          BY <5>1 DEF States
        <5>3. [s EXCEPT !.doc = EmptyDocument].status = s.status
          BY DEF States
        <5> QED BY <1>2, <5>2, <5>3
      <4>2. e.status # "panic"
        BY <4>1
      <4>3. PICK u \in States : u = AddPublicKeys(e, patch.keys) /\ u.status # "panic"
        BY <2>2, <4>2, KeysNeverPanic
      <4>4. ApplyPatch(s, patch) = replaceAction(s, patch)
        BY <3>3 DEF ApplyPatch
      <4>5. replaceAction(s, patch) = AddServices(u, patch.services)
        BY <4>1, <4>3 DEF replaceAction, AddServices, AddPublicKeys
      <4> QED BY <2>2, <4>3, <4>4, <4>5, ServicesKeepStatus
    <3> QED BY <2>1, <3>1, <3>2, <3>3
  <2> QED BY <2>3, <2>4
<1> QED
  BY <1>7, <1>8, <1>9

(* The type of the state, for any inputs.                                  *)
TypeInv ==
  /\ status \in {"building", "returned", "error", "panic"}
  /\ doc \in Document /\ todo \in Seq(Patches)

LEMMA AppliedStep ==
  ASSUME TypeInv, Apply
  PROVE  /\ TypeInv'
         /\ status' = "panic" =>
              \E list \in Walked(Head(todo)), id \in RemovedIds(Head(todo)) : Repeated(list, id)
         /\ SurelyPanics(Head(todo)) => status' = "panic"
<1>1. todo # <<>> /\ status = "building" /\ doc \in Document /\ todo' = Tail(todo)
  BY DEF TypeInv, Apply
<1>2. Head(todo) \in Patches /\ Tail(todo) \in Seq(Patches)
  BY <1>1 DEF TypeInv
<1>3. PICK patch \in Patches : patch = Head(todo)
  BY <1>2
<1>4. PICK t \in States :
        /\ t = ApplyPatch([doc |-> doc, status |-> "building"], patch)
        /\ t.status = "panic" =>
             \E list \in Walked(patch), id \in RemovedIds(patch) : Repeated(list, id)
        /\ SurelyPanics(patch) => t.status = "panic"
  BY <1>1, AppliedAny
<1>5. status' = t.status /\ doc' = IF t.status = "building" THEN t.doc ELSE EmptyDocument
  BY <1>1, <1>3, <1>4 DEF Apply
<1>6. t.doc \in Document /\ t.status \in {"building", "error", "panic"}
  BY StateShape
<1>7. TypeInv'
  BY <1>1, <1>2, <1>5, <1>6, EmptyIsNeat DEF TypeInv
<1> QED
  BY <1>3, <1>4, <1>5, <1>7

LEMMA TypeStep == TypeInv /\ [Next]_vars => TypeInv'
<1> SUFFICES ASSUME TypeInv, [Next]_vars PROVE TypeInv'
  OBVIOUS
<1>1. CASE Apply
  BY <1>1, AppliedStep
<1>2. CASE Return
  BY <1>2 DEF Return, TypeInv
<1>3. ASSUME NEW change \in StateChanges, Extend(change) PROVE TypeInv'
  <2>1. todo' \in Seq(Patches)
    BY <1>3, UpdateMakesPatches DEF Extend
  <2> QED BY <1>3, <2>1 DEF Extend, TypeInv
<1>4. CASE UNCHANGED vars
  BY <1>4 DEF vars, TypeInv
<1> QED
  BY <1>1, <1>2, <1>3, <1>4 DEF Next

(* removeServicesPatch and removePublicKeysPatch slice past the end of a   *)
(* shrunken list only for an id that a list of the document repeats, and   *)
(* they do for a single id that ends such a list, whatever the patches.    *)
THEOREM OnlyRepeatsPanic == Spec => PanicsOnRepeats
<1>1. Init => TypeInv
  BY DocInit DEF DocInv, TypeInv
<1>2. TypeInv /\ [Next]_vars =>
        [Apply =>
           LET patch == Head(todo) IN
           /\ status' = "panic" =>
                \E list \in Walked(patch), id \in RemovedIds(patch) : Repeated(list, id)
           /\ SurelyPanics(patch) => status' = "panic"]_vars
  BY AppliedStep
<1> QED
  BY <1>1, <1>2, TypeStep, PTL DEF Spec, PanicsOnRepeats
=============================================================================
