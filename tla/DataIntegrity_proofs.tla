----------------------- MODULE DataIntegrity_proofs -----------------------
(***************************************************************************)
(* For any number of goroutines, objects and calls of Sign, Verify and     *)
(* setters: a signed object keeps its proof, what Verify accepts was       *)
(* signed, and Verify refuses an untouched object only for its key.        *)
(***************************************************************************)
EXTENDS DataIntegrity, FiniteSetTheorems, WellFoundedInduction, TLAPS

IsProof(x) == DOMAIN x = {"options", "jws"}

CallMembers == {"pc", "obj", "key", "options", "contexts", "proof", "first", "alone"}

(* The shape of the state, as far as the argument needs it.                *)
Shape ==
  /\ built \subseteq Objects
  /\ attached \subseteq Objects
  /\ DOMAIN object = Objects
  /\ \A o \in Objects :
       /\ DOMAIN object[o] = {"context", "type", "creds", "proof", "field"}
       /\ object[o].proof = NoProof \/ IsProof(object[o].proof)
  /\ DOMAIN call = Procs
  /\ \A p \in Procs :
       /\ DOMAIN call[p] = CallMembers
       /\ call[p].pc # "idle" => call[p].obj \in Objects

(* A call that is going to set a proof holds one.                          *)
HoldsProof ==
  \A p \in Procs :
    call[p].pc = "attach" \/ call[p].pc = "got" \/ InWindow(p) => IsProof(call[p].proof)

IInv == Shape /\ HoldsProof /\ SignedStaysSigned

(* What Sign attaches is a proof.                                          *)
LEMMA MadeIsProof ==
  ASSUME NEW a, NEW b
  PROVE  IsProof([options |-> a, jws |-> b])
  BY DEF IsProof

(* A proof is not the nil pointer.                                         *)
LEMMA ProofIsNotNil ==
  ASSUME NEW x, IsProof(x)
  PROVE  x # NoProof
<1>1. DOMAIN NoProof = {"nil"}
  BY DEF NoProof
<1>2. "options" # "nil"
  OBVIOUS
<1> QED
  BY <1>1, <1>2 DEF IsProof

LEMMA InitHolds == Init => IInv
<1> SUFFICES ASSUME Init PROVE IInv
  OBVIOUS
<1>1. \A o \in Objects :
        /\ DOMAIN object[o] = {"context", "type", "creds", "proof", "field"}
        /\ object[o].proof = NoProof
  <2>1. PICK draft \in Drafts : object = [o \in Objects |-> Begun(o, draft)]
    BY DEF Init, BuilderInit
  <2>2. ASSUME NEW o \in Objects
        PROVE  /\ DOMAIN New(o) = {"context", "type", "creds", "proof", "field"}
               /\ New(o).proof = NoProof
    BY DEF New, Empty
  <2> QED
    BY <2>1, <2>2 DEF Begun
<1>2. DOMAIN object = Objects
  BY DEF Init, BuilderInit
<1>3. \A p \in Procs : call[p] = Idle /\ DOMAIN call[p] = CallMembers /\ call[p].pc = "idle"
  BY DEF Init, Idle, CallMembers
<1> QED
  BY <1>1, <1>2, <1>3 DEF Init, BuilderInit, IInv, Shape, HoldsProof, SignedStaysSigned, InWindow

(* A call meeting others changes neither where they are nor what they hold. *)
LEMMA DisturbedKeeps ==
  ASSUME Shape, NEW o
  PROVE  /\ DOMAIN Disturbed(o) = Procs
         /\ \A q \in Procs : /\ DOMAIN Disturbed(o)[q] = CallMembers
                             /\ Disturbed(o)[q].pc = call[q].pc
                             /\ Disturbed(o)[q].obj = call[q].obj
                             /\ Disturbed(o)[q].proof = call[q].proof
  BY DEF Shape, Disturbed, CallMembers

(* What a new call begins with.                                            *)
LEMMA EnterBegins ==
  ASSUME Shape, NEW p \in Procs, NEW o \in Objects, NEW c, DOMAIN c = CallMembers, Enter(p, o, c)
  PROVE  /\ o \in built
         /\ DOMAIN call' = Procs
         /\ \A q \in Procs : DOMAIN call'[q] = CallMembers
         /\ call'[p].pc = c.pc /\ call'[p].obj = o /\ call'[p].proof = c.proof
         /\ \A q \in Procs \ {p} : /\ call'[q].pc = call[q].pc
                                   /\ call'[q].obj = call[q].obj
                                   /\ call'[q].proof = call[q].proof
<1>1. call' = [Disturbed(o) EXCEPT ![p] = [c EXCEPT !.obj = o, !.alone = ~Overlaps(p, o)]]
  BY DEF Enter
<1>2. o \in built
  BY DEF Enter
<1> QED
  BY <1>1, <1>2, DisturbedKeeps DEF CallMembers

(* A setter leaves the proof of every object as it is.                     *)
LEMMA ChangeKeepsProofs ==
  ASSUME Shape, NEW o \in Objects, Change(o)
  PROVE  /\ built' = built
         /\ DOMAIN object' = Objects
         /\ \A x \in Objects : /\ DOMAIN object'[x] = DOMAIN object[x]
                               /\ object'[x].proof = object[x].proof
<1>1. CASE \E f \in Fields, v \in Values : Set(o, f, v)
  <2>1. PICK f, v : object' = [object EXCEPT ![o].field[f] = IF v.kind = "none" THEN Nil ELSE v]
    BY <1>1 DEF Set
  <2>2. object' = [object EXCEPT ![o] = [object[o] EXCEPT !.field = object'[o].field]]
    BY <2>1 DEF Shape
  <2>3. built' = built
    BY <1>1 DEF Set, Edit
  <2> QED
    BY <2>2, <2>3 DEF Shape
<1>2. CASE \E list \in Contexts : AddContext(o, list)
  BY <1>2 DEF AddContext, Edit, Shape
<1>3. CASE \E list \in Types : AddType(o, list)
  BY <1>3 DEF AddType, Edit, Shape
<1>4. CASE \E c \in Credentials : AddVerifiableCredentials(o, c)
  BY <1>4 DEF AddVerifiableCredentials, Edit, Shape
<1> QED
  BY <1>1, <1>2, <1>3, <1>4 DEF Change

(* Every step preserves the invariant.                                     *)
LEMMA StepHolds == IInv /\ [Next]_vars => IInv'
<1> SUFFICES ASSUME IInv, [Next]_vars PROVE IInv'
  OBVIOUS
<1> USE DEF IInv
<1>1. ASSUME NEW p \in Procs, NEW o \in Objects, NEW s \in Signers, SignBegin(p, o, s)
      PROVE  IInv'
  <2> DEFINE c == [Idle EXCEPT
       !.pc = "sign", !.key = s.key, !.contexts = GetContextsFromProvable(o),
       !.options = [purpose |-> s.purpose, verificationMethod |-> s.key, created |-> signs + 1,
                    challenge |-> IF s.purpose = "authentication" THEN signs ELSE Nil]]
  <2>1. DOMAIN c = CallMembers /\ c.pc = "sign"
    BY DEF Idle, CallMembers
  <2>2. Enter(p, o, c) /\ object' = object /\ built' = built /\ attached' = attached
    BY <1>1 DEF SignBegin, builderVars
  <2> HIDE DEF c
  <2>3. Shape'
    BY <2>1, <2>2, EnterBegins DEF Shape
  <2>4. HoldsProof'
    BY <2>1, <2>2, EnterBegins DEF HoldsProof, InWindow
  <2>5. call[p].pc = "idle"
    BY <2>2 DEF Enter, Active
  <2>6. SignedStaysSigned'
    BY <2>1, <2>2, <2>5, EnterBegins DEF SignedStaysSigned, InWindow
  <2> QED
    BY <2>3, <2>4, <2>6
<1>2. ASSUME NEW p \in Procs, SignDocument(p)
      PROVE  IInv'
  <2> DEFINE doc == Read(call[p].obj)
             x   == [options |-> call[p].options,
                     jws |-> [key |-> call[p].key,
                              tbs |-> CreateVerifyHash(doc, call[p].options, call[p].contexts)]]
             f   == (doc.proof = NoProof)
  <2>1. IsProof(x)
    BY MadeIsProof
  <2>2. /\ call[p].pc = "sign"
        /\ call' = [call EXCEPT ![p].pc = "attach", ![p].first = f, ![p].proof = x]
        /\ object' = object /\ built' = built /\ attached' = attached
    BY <1>2 DEF SignDocument, builderVars
  <2> HIDE DEF x, f
  <2>3. /\ DOMAIN call' = Procs /\ DOMAIN call'[p] = CallMembers
        /\ call'[p].pc = "attach" /\ call'[p].proof = x /\ call'[p].obj = call[p].obj
        /\ \A q \in Procs \ {p} : call'[q] = call[q]
    BY <2>2 DEF Shape, CallMembers
  <2> QED
    BY <2>1, <2>2, <2>3 DEF Shape, HoldsProof, SignedStaysSigned, InWindow
<1>3. ASSUME NEW p \in Procs, SignFails(p) \/ Recovered(p)
      PROVE  IInv'
  <2>1. call[p].pc \in {"sign", "panic"} /\ call' = [call EXCEPT ![p] = Idle]
    BY <1>3 DEF SignFails, Recovered
  <2>2. object' = object /\ built' = built /\ attached' = attached
    BY <1>3 DEF SignFails, Recovered, builderVars
  <2> QED
    BY <2>1, <2>2 DEF Shape, HoldsProof, SignedStaysSigned, InWindow, CallMembers, Idle
<1>4. ASSUME NEW p \in Procs, SignAttach(p) \/ VerifyRestore(p)
      PROVE  IInv'
  <2>1. /\ call[p].pc = "attach" \/ InWindow(p)
        /\ object' = [object EXCEPT ![call[p].obj].proof = call[p].proof]
        /\ call' = [call EXCEPT ![p] = Idle]
        /\ built' = built
        /\ attached' = attached \/ attached' = attached \cup {call[p].obj}
    BY <1>4 DEF SignAttach, VerifyRestore, InWindow
  <2>2. call[p].obj \in Objects /\ IsProof(call[p].proof)
    BY <2>1 DEF Shape, HoldsProof, InWindow
  <2>3. Shape'
    BY <2>1, <2>2 DEF Shape, CallMembers, Idle
  <2>4. HoldsProof'
    BY <2>1 DEF Shape, HoldsProof, InWindow, Idle
  <2>5. SignedStaysSigned'
    <3>1. object'[call[p].obj].proof # NoProof
      BY <2>1, <2>2, ProofIsNotNil DEF Shape
    <3>2. \A o \in Objects \ {call[p].obj} : object'[o] = object[o]
      BY <2>1, <2>2 DEF Shape
    <3>3. \A q \in Procs \ {p} : call'[q] = call[q]
      BY <2>1 DEF Shape
    <3> QED
      BY <2>1, <2>2, <3>1, <3>2, <3>3 DEF Shape, SignedStaysSigned, InWindow
  <2> QED
    BY <2>3, <2>4, <2>5
<1>5. ASSUME NEW p \in Procs, NEW o \in Objects, NEW key \in Verifiers, VerifyBegin(p, o, key)
      PROVE  IInv'
  <2> DEFINE c == [Idle EXCEPT !.key = key, !.proof = object[o].proof,
                               !.pc = IF object[o].proof = NoProof THEN "panic" ELSE "got"]
  <2>1. /\ DOMAIN c = CallMembers
        /\ c.pc \in {"panic", "got"}
        /\ c.proof = object[o].proof
        /\ c.pc = "got" => c.proof # NoProof
    BY DEF Idle, CallMembers
  <2>2. Enter(p, o, c) /\ object' = object /\ built' = built /\ attached' = attached
    BY <1>5 DEF VerifyBegin, builderVars
  <2> HIDE DEF c
  <2>3. IsProof(c.proof) \/ c.pc = "panic"
    BY <2>1 DEF Shape
  <2>4. Shape'
    BY <2>1, <2>2, EnterBegins DEF Shape
  <2>5. HoldsProof'
    BY <2>1, <2>2, <2>3, EnterBegins DEF HoldsProof, InWindow
  <2>6. call[p].pc = "idle"
    BY <2>2 DEF Enter, Active
  <2>7. SignedStaysSigned'
    BY <2>1, <2>2, <2>6, EnterBegins DEF SignedStaysSigned, InWindow
  <2> QED
    BY <2>4, <2>5, <2>7
<1>6. ASSUME NEW p \in Procs, VerifyClear(p)
      PROVE  IInv'
  <2>1. /\ call[p].pc = "got"
        /\ object' = [object EXCEPT ![call[p].obj].proof = NoProof]
        /\ call' = [call EXCEPT ![p].pc = "verify", ![p].contexts = GetContextsFromProvable(call[p].obj)]
        /\ built' = built /\ attached' = attached
    BY <1>6 DEF VerifyClear
  <2>2. call[p].obj \in Objects /\ IsProof(call[p].proof)
    BY <2>1 DEF Shape, HoldsProof
  <2>3. Shape'
    BY <2>1, <2>2 DEF Shape, CallMembers
  <2>4. HoldsProof'
    BY <2>1, <2>2 DEF Shape, HoldsProof, InWindow, CallMembers
  <2>5. SignedStaysSigned'
    BY <2>1, <2>2 DEF Shape, SignedStaysSigned, InWindow, CallMembers
  <2> QED
    BY <2>3, <2>4, <2>5
<1>7. ASSUME NEW p \in Procs, VerifyDocument(p) \/ VerifyFails(p)
      PROVE  IInv'
  <2>1. PICK pc \in {"accepted", "refused", "failed"} : call' = [call EXCEPT ![p].pc = pc]
    BY <1>7 DEF VerifyDocument, VerifyFails
  <2>2. call[p].pc = "verify" /\ object' = object /\ built' = built /\ attached' = attached
    BY <1>7 DEF VerifyDocument, VerifyFails, builderVars
  <2> QED
    BY <2>1, <2>2 DEF Shape, HoldsProof, SignedStaysSigned, InWindow, CallMembers
<1>8. ASSUME NEW o \in Objects, UseSetter(o)
      PROVE  IInv'
  <2>1. call' = Disturbed(o) /\ attached' = attached
    BY <1>8 DEF UseSetter, Touch
  <2>2. Change(o)
    BY <1>8 DEF UseSetter
  <2> QED
    BY <2>1, <2>2, ChangeKeepsProofs, DisturbedKeeps DEF Shape, HoldsProof, SignedStaysSigned, InWindow
<1>9. ASSUME NEW o \in Objects, UseBuild(o)
      PROVE  IInv'
  BY <1>9 DEF UseBuild, Build, suiteVars, Shape, HoldsProof, SignedStaysSigned, InWindow
<1>10. ASSUME NEW o \in Objects, AlterProof(o)
       PROVE  IInv'
  <2>1. call' = Disturbed(o) /\ attached' = attached /\ built' = built
    BY <1>10 DEF AlterProof, Touch, Edit
  <2>2. object[o].proof # NoProof /\ IsProof(object[o].proof)
    BY <1>10 DEF AlterProof, Shape
  <2>3. PICK x : object' = [object EXCEPT ![o].proof.options = x]
    BY <1>10 DEF AlterProof
  <2>4. /\ DOMAIN object' = Objects
        /\ \A y \in Objects : DOMAIN object'[y] = DOMAIN object[y]
        /\ \A y \in Objects \ {o} : object'[y] = object[y]
        /\ IsProof(object'[o].proof)
    BY <2>2, <2>3 DEF Shape, IsProof
  <2> QED
    BY <2>1, <2>2, <2>4, ProofIsNotNil, DisturbedKeeps DEF Shape, HoldsProof, SignedStaysSigned, InWindow
<1>11. ASSUME UNCHANGED vars
       PROVE  IInv'
  BY <1>11 DEF vars, builderVars, suiteVars, Shape, HoldsProof, SignedStaysSigned, InWindow
<1> QED
  BY <1>1, <1>2, <1>3, <1>4, <1>5, <1>6, <1>7, <1>8, <1>9, <1>10, <1>11 DEF Next, Step

(* However calls of Sign and Verify on shared objects interleave with one  *)
(* another and with setters, and whichever of them fail, a signed object   *)
(* loses its proof only for as long as a call of Verify is under way that  *)
(* puts one back.                                                          *)
THEOREM SignedKeepsProof == Spec => []SignedStaysSigned
<1>1. IInv => SignedStaysSigned
  BY DEF IInv
<1> QED
  BY InitHolds, StepHolds, <1>1, PTL DEF Spec

(***************************************************************************)
(* Sequences.                                                              *)
(***************************************************************************)
LEMMA SequenceShape ==
  ASSUME NEW s, IsSequence(s)
  PROVE  Len(s) \in Nat /\ DOMAIN s = 1..Len(s)
  BY DEF IsSequence

LEMMA FunctionIsSequence ==
  ASSUME NEW s, NEW n \in Nat, DOMAIN s = 1..n, s = [k \in 1..n |-> s[k]]
  PROVE  IsSequence(s) /\ Len(s) = n
<1>1. ASSUME NEW k \in 1..n PROVE s[k] \in Range(s)
  BY <1>1 DEF Range
<1>2. s \in [1..n -> Range(s)]
  <2> HIDE DEF Range
  <2> QED BY <1>1
<1> QED
  BY <1>2 DEF IsSequence

LEMMA AppendSequence ==
  ASSUME NEW s, IsSequence(s), NEW e
  PROVE  IsSequence(Append(s, e)) /\ e \in ToSet(Append(s, e))
<1> DEFINE T == Range(s) \cup {e}
           t == Append(s, e)
<1>1. s \in Seq(T) /\ e \in T
  BY DEF IsSequence
<1>2. /\ t \in Seq(T) /\ Len(t) = Len(s) + 1 /\ Len(s) \in Nat
      /\ DOMAIN t = 1..(Len(s) + 1)
      /\ t[Len(s) + 1] = e
  <2> HIDE DEF T
  <2> QED BY <1>1
<1>3. t = [k \in 1..Len(t) |-> t[k]]
  <2> HIDE DEF T, t
  <2> QED BY <1>2
<1>4. IsSequence(t)
  <2> HIDE DEF T, t
  <2> QED BY <1>2, <1>3, FunctionIsSequence
<1>5. Len(s) + 1 \in DOMAIN t
  BY <1>2
<1> QED
  BY <1>2, <1>4, <1>5 DEF ToSet

LEMMA ConcatSequence ==
  ASSUME NEW a, NEW b, IsSequence(a), IsSequence(b)
  PROVE  IsSequence(a \o b) /\ ToSet(a) \subseteq ToSet(a \o b)
<1> DEFINE T == Range(a) \cup Range(b)
           t == a \o b
<1>1. a \in Seq(T) /\ b \in Seq(T)
  BY DEF IsSequence
<1>2. /\ Len(t) = Len(a) + Len(b) /\ Len(a) \in Nat /\ Len(b) \in Nat
      /\ t \in Seq(T)
      /\ DOMAIN t = 1..Len(t) /\ DOMAIN a = 1..Len(a)
      /\ \A k \in 1..Len(a) : t[k] = a[k]
  <2> HIDE DEF T
  <2> QED BY <1>1
<1>3. t = [k \in 1..Len(t) |-> t[k]]
  <2> HIDE DEF T, t
  <2> QED BY <1>2
<1>4. IsSequence(t)
  <2> HIDE DEF T, t
  <2> QED BY <1>2, <1>3, FunctionIsSequence
<1>5. \A k \in DOMAIN a : k \in DOMAIN t /\ t[k] = a[k]
  BY <1>2
<1> QED
  BY <1>4, <1>5 DEF ToSet

(* A set of naturals with a member has a least one.                        *)
LEMMA LeastNatural ==
  ASSUME NEW T \in SUBSET Nat, NEW t \in T
  PROVE  \E x \in T : \A y \in T : x <= y
<1>1. PICK x \in T : \A y \in T : <<y, x>> \notin OpToRel(<, Nat)
  BY WFMin, NatLessThanWellFounded
<1>2. \A y \in T : ~(y < x)
  BY <1>1 DEF OpToRel
<1> QED
  BY <1>2

(* A sublist has the members at the positions that were kept.              *)
LEMMA SublistKeeps ==
  ASSUME NEW s, IsSequence(s), NEW kept, kept \subseteq DOMAIN s
  PROVE  /\ IsSequence(Sublist(s, kept))
         /\ \A i \in kept : s[i] \in ToSet(Sublist(s, kept))
<1> DEFINE Rank(i) == Cardinality({j \in kept : j <= i})
           t == Sublist(s, kept)
<1>1. IsFiniteSet(kept) /\ kept \subseteq Nat
  <2>1. DOMAIN s = 1..Len(s) /\ Len(s) \in Nat
    BY SequenceShape
  <2>2. IsFiniteSet(1..Len(s))
    BY <2>1, FS_Interval
  <2>3. kept \in SUBSET (1..Len(s))
    BY <2>1
  <2>4. IsFiniteSet(kept)
    BY <2>2, <2>3, FS_Subset
  <2> QED
    BY <2>1, <2>3, <2>4
<1>2. Cardinality(kept) \in Nat
  BY <1>1, FS_CardinalityType
<1>3. t = [k \in 1..Cardinality(kept) |-> s[CHOOSE i \in kept : Rank(i) = k]]
  BY DEF Sublist
<1>4. IsSequence(t)
  <2> HIDE DEF t, Rank
  <2>1. DOMAIN t = 1..Cardinality(kept) /\ t = [k \in 1..Cardinality(kept) |-> t[k]]
    BY <1>3
  <2> QED BY <1>2, <2>1, FunctionIsSequence
<1>5. ASSUME NEW i \in kept
      PROVE  Rank(i) \in 1..Cardinality(kept)
  <2>1. /\ Cardinality({j \in kept : j <= i}) <= Cardinality(kept)
        /\ IsFiniteSet({j \in kept : j <= i})
    BY <1>1, FS_Subset
  <2>2. i \in {j \in kept : j <= i}
    BY <1>1
  <2>3. Cardinality({j \in kept : j <= i}) \in Nat /\ Cardinality({j \in kept : j <= i}) # 0
    BY <2>1, <2>2, FS_CardinalityType, FS_EmptySet
  <2> QED
    BY <1>2, <2>1, <2>3
<1>6. ASSUME NEW i \in kept, NEW k \in kept, i < k
      PROVE  Rank(i) < Rank(k)
  <2> DEFINE A == {j \in kept : j <= i}
             B == {j \in kept : j <= k}
  <2>1. A \subseteq B /\ A # B /\ IsFiniteSet(B)
    <3>1. A \subseteq B
      BY <1>1, <1>6
    <3>2. k \in B /\ k \notin A
      BY <1>1, <1>6
    <3>3. IsFiniteSet(B)
      BY <1>1, FS_Subset
    <3> QED
      BY <3>1, <3>2, <3>3
  <2> HIDE DEF A, B
  <2>2. Cardinality(A) <= Cardinality(B) /\ (Cardinality(A) = Cardinality(B) => A = B)
    BY <2>1, FS_Subset
  <2>3. Cardinality(A) \in Nat /\ Cardinality(B) \in Nat
    BY <2>1, FS_Subset, FS_CardinalityType
  <2>4. Cardinality(A) < Cardinality(B)
    BY <2>1, <2>2, <2>3
  <2> QED
    BY <2>4 DEF A, B
<1>7. ASSUME NEW i \in kept
      PROVE  s[i] \in ToSet(t)
  <2> DEFINE k == CHOOSE j \in kept : Rank(j) = Rank(i)
  <2>1. k \in kept /\ Rank(k) = Rank(i)
    <3> HIDE DEF Rank
    <3> QED OBVIOUS
  <2>2. k = i
    <3>1. Rank(i) \in Nat /\ Rank(k) \in Nat
      <4> HIDE DEF Rank
      <4> QED BY <1>5, <2>1, <1>2
    <3>2. ~(i < k) /\ ~(k < i)
      <4> HIDE DEF Rank, k
      <4> QED BY <1>6, <2>1, <3>1
    <3> HIDE DEF k
    <3> QED BY <1>1, <2>1, <3>2
  <2>3. t[Rank(i)] = s[k]
    <3> HIDE DEF Rank, t
    <3> QED BY <1>3, <1>5
  <2>4. Rank(i) \in DOMAIN t
    <3> HIDE DEF Rank, t
    <3> QED BY <1>3, <1>5
  <2> HIDE DEF Rank, t, k
  <2> QED BY <2>2, <2>3, <2>4 DEF ToSet
<1> QED
  BY <1>4, <1>7

(* What was in the list stays in it when another one is merged into it.    *)
LEMMA MergeKeeps ==
  ASSUME NEW a, NEW b, IsSequence(a), IsSequence(b)
  PROVE  /\ IsSequence(MergeUniqueValues(a, b))
         /\ ToSet(a) \subseteq ToSet(MergeUniqueValues(a, b))
<1> DEFINE P == {i \in DOMAIN a : \A j \in DOMAIN a : a[j] = a[i] => i <= j}
           Q == {i \in DOMAIN b : ~Contains(a, b[i])}
<1>1. MergeUniqueValues(a, b) = Sublist(a, P) \o Sublist(b, Q)
  BY DEF MergeUniqueValues
<1>2. P \subseteq DOMAIN a /\ Q \subseteq DOMAIN b
  OBVIOUS
<1>3. ASSUME NEW x \in ToSet(a) PROVE \E i \in P : a[i] = x
  <2> DEFINE T == {i \in DOMAIN a : a[i] = x}
  <2>1. T \in SUBSET Nat /\ T # {}
    BY SequenceShape DEF ToSet
  <2>2. PICK i \in T : \A j \in T : i <= j
    <3> HIDE DEF T
    <3> QED BY <2>1, LeastNatural
  <2> QED
    BY <2>2
<1> HIDE DEF P, Q
<1>4. /\ IsSequence(Sublist(a, P)) /\ IsSequence(Sublist(b, Q))
      /\ \A i \in P : a[i] \in ToSet(Sublist(a, P))
  BY <1>2, SublistKeeps
<1>5. ToSet(a) \subseteq ToSet(Sublist(a, P))
  BY <1>3, <1>4
<1> QED
  BY <1>1, <1>4, <1>5, ConcatSequence

(***************************************************************************)
(* What is signed and what is verified.                                    *)
(***************************************************************************)
(* Every object keeps the context it started with and the fields of its    *)
(* Go type, and only presentations hold credentials.                       *)
IsObject(o, x) ==
  /\ IsSequence(x.context) /\ Base \in ToSet(x.context)
  /\ x.creds \in Seq(Credentials)
  /\ o \in Credentials => x.creds = <<>>
  /\ DOMAIN x.field = DOMAIN FieldsOf(o)

Objective == \A o \in Objects : IsObject(o, object[o])

LEMMA InitObjective == Init => Objective
<1> SUFFICES ASSUME Init, NEW o \in Objects PROVE IsObject(o, object[o])
  BY DEF Objective
<1>1. PICK draft \in Drafts : object[o] = Begun(o, draft)
  BY DEF Init, BuilderInit
<1>2. /\ Empty(o).context = <<Base>> /\ Empty(o).creds = <<>>
      /\ DOMAIN Empty(o) = {"context", "type", "creds", "proof", "field"}
      /\ DOMAIN Empty(o).field = DOMAIN FieldsOf(o)
  BY DEF Empty
<1>3. /\ New(o).context = <<Base>> /\ New(o).creds = <<>>
      /\ DOMAIN New(o) = {"context", "type", "creds", "proof", "field"}
      /\ DOMAIN New(o).field = DOMAIN FieldsOf(o)
  <2>1. CASE o \in Credentials
    <3>1. New(o) = [Empty(o) EXCEPT !.field = [Empty(o).field EXCEPT !["issuanceDate"] = [kind |-> "date", n |-> 0]]]
      BY <1>2, <2>1 DEF New
    <3> QED
      BY <1>2, <3>1
  <2>2. CASE o \notin Credentials
    BY <1>2, <2>2 DEF New
  <2> QED
    BY <2>1, <2>2
<1>4. /\ object[o].context = <<Base>> /\ object[o].creds = <<>>
      /\ DOMAIN object[o].field = DOMAIN FieldsOf(o)
  BY <1>1, <1>3 DEF Begun
<1>5. IsSequence(<<Base>>) /\ Base \in ToSet(<<Base>>)
  <2>1. <<Base>> = [k \in 1..1 |-> <<Base>>[k]] /\ DOMAIN <<Base>> = 1..1 /\ <<Base>>[1] = Base
    OBVIOUS
  <2>2. IsSequence(<<Base>>)
    BY <2>1, FunctionIsSequence
  <2>3. 1 \in DOMAIN <<Base>>
    BY <2>1
  <2> QED
    BY <2>1, <2>2, <2>3 DEF ToSet
<1> QED
  BY <1>4, <1>5 DEF IsObject

(* A setter changes one object, and leaves it one.                         *)
LEMMA ChangeKeepsObjects ==
  ASSUME Shape, Objective, NEW o \in Objects, Change(o)
  PROVE  Objective' /\ \A x \in Objects \ {o} : object'[x] = object[x]
<1>0. IsObject(o, object[o]) /\ DOMAIN object[o] = {"context", "type", "creds", "proof", "field"}
  BY DEF Objective, Shape
<1>1. CASE \E f \in Fields, v \in Values : Set(o, f, v)
  <2>1. PICK f, v : object' = [object EXCEPT ![o].field[f] = IF v.kind = "none" THEN Nil ELSE v]
    BY <1>1 DEF Set
  <2>2. PICK w : object' = [object EXCEPT ![o] = [object[o] EXCEPT !.field = [object[o].field EXCEPT ![f] = w]]]
    BY <2>1
  <2>3. /\ DOMAIN object'[o].field = DOMAIN object[o].field
        /\ object'[o].context = object[o].context /\ object'[o].creds = object[o].creds
        /\ \A x \in Objects \ {o} : object'[x] = object[x]
    BY <1>0, <2>2 DEF Shape
  <2> QED
    BY <1>0, <2>3 DEF Objective, IsObject
<1>2. CASE \E list \in Contexts : AddContext(o, list)
  <2>1. PICK list \in Contexts :
          object' = [object EXCEPT ![o].context = MergeUniqueValues(object[o].context, list)]
    BY <1>2 DEF AddContext, Shape
  <2>2. /\ object'[o].context = MergeUniqueValues(object[o].context, list)
        /\ object'[o].field = object[o].field /\ object'[o].creds = object[o].creds
        /\ \A x \in Objects \ {o} : object'[x] = object[x]
    BY <1>0, <2>1 DEF Shape
  <2>3. IsSequence(object'[o].context) /\ Base \in ToSet(object'[o].context)
    BY <1>0, <2>2, MergeKeeps, SuiteAssumption DEF IsObject
  <2> QED
    BY <1>0, <2>2, <2>3 DEF Objective, IsObject
<1>3. CASE \E list \in Types : AddType(o, list)
  <2>1. PICK list \in Types :
          object' = [object EXCEPT ![o].type = MergeUniqueValues(object[o].type, list)]
    BY <1>3 DEF AddType, Shape
  <2>2. /\ object'[o].context = object[o].context
        /\ object'[o].field = object[o].field /\ object'[o].creds = object[o].creds
        /\ \A x \in Objects \ {o} : object'[x] = object[x]
    BY <1>0, <2>1 DEF Shape
  <2> QED
    BY <1>0, <2>2 DEF Objective, IsObject
<1>4. CASE \E c \in Credentials : AddVerifiableCredentials(o, c)
  <2>1. PICK c \in Credentials : object' = [object EXCEPT ![o].creds = Append(object[o].creds, c)]
    BY <1>4 DEF AddVerifiableCredentials, Shape
  <2>2. /\ object'[o].context = object[o].context
        /\ object'[o].field = object[o].field
        /\ object'[o].creds = Append(object[o].creds, c)
        /\ \A x \in Objects \ {o} : object'[x] = object[x]
    BY <1>0, <2>1 DEF Shape
  <2>3. o \notin Credentials
    BY <1>4, SuiteAssumption DEF AddVerifiableCredentials
  <2>4. object'[o].creds \in Seq(Credentials)
    BY <1>0, <2>2 DEF IsObject
  <2>5. IsObject(o, object'[o])
    BY <1>0, <2>2, <2>3, <2>4 DEF IsObject
  <2> QED
    BY <2>2, <2>5 DEF Objective
<1> QED
  BY <1>1, <1>2, <1>3, <1>4 DEF Change

(* Two states with the same content of o.                                  *)
SameContent(x, y) ==
  /\ x.context = y.context /\ x.type = y.type /\ x.creds = y.creds /\ x.field = y.field

(* Setting a proof changes nothing else.                                   *)
LEMMA SetProofKeepsContent ==
  ASSUME Shape, Objective, NEW o \in Objects, NEW x, object' = [object EXCEPT ![o].proof = x]
  PROVE  /\ Objective'
         /\ object'[o].proof = x
         /\ SameContent(object'[o], object[o])
         /\ \A y \in Objects \ {o} : object'[y] = object[y]
<1>1. DOMAIN object[o] = {"context", "type", "creds", "proof", "field"} /\ DOMAIN object = Objects
  BY DEF Shape
<1>2. object'[o] = [object[o] EXCEPT !.proof = x] /\ \A y \in Objects \ {o} : object'[y] = object[y]
  BY <1>1
<1>3. object'[o].proof = x /\ SameContent(object'[o], object[o])
  BY <1>1, <1>2 DEF SameContent
<1> QED
  BY <1>2, <1>3 DEF Objective, IsObject, SameContent

(***************************************************************************)
(* Calls that overlap with no other.                                       *)
(***************************************************************************)
(* While a call is alone, no other one works on its object or on a         *)
(* credential in it.                                                       *)
AloneInv ==
  \A p, q \in Procs :
    p # q /\ Active(p) /\ Active(q) /\ call[p].alone =>
      call[q].obj # call[p].obj /\ ~Embeds(call[p].obj, call[q].obj)

(* The four kinds of steps: a call begins, a call goes on, an object is    *)
(* changed from outside, and neither calls nor objects change.             *)
Enters(p, o) ==
  /\ ~Active(p) /\ Step(p)
  /\ \E c : DOMAIN c = CallMembers /\ c.pc \in {"sign", "got", "panic"} /\ Enter(p, o, c)
  /\ object' = object

Works(p) ==
  /\ Active(p) /\ Step(p)
  /\ DOMAIN call' = Procs
  /\ \A q \in Procs \ {p} : call'[q] = call[q]
  /\ call'[p].pc = "idle" \/ (call'[p].obj = call[p].obj /\ call'[p].alone = call[p].alone)
  /\ \A x \in Objects \ {call[p].obj} : object'[x] = object[x]
  /\ SameContent(object'[call[p].obj], object[call[p].obj])

Touches(o) ==
  /\ call' = Disturbed(o)
  /\ \A x \in Objects \ {o} : object'[x] = object[x]

LEMMA StepIsOwn ==
  ASSUME IInv, Objective, NEW t \in Procs, Step(t)
  PROVE  (\E o \in Objects : Enters(t, o)) \/ Works(t)
<1> USE DEF IInv
<1>0. ASSUME NEW o \in Objects PROVE SameContent(object[o], object[o])
  BY DEF SameContent
<1>1. ASSUME NEW p \in Procs, NEW o \in Objects, NEW s \in Signers, SignBegin(p, o, s)
      PROVE  Enters(p, o)
  <2> DEFINE c == [Idle EXCEPT
       !.pc = "sign", !.key = s.key, !.contexts = GetContextsFromProvable(o),
       !.options = [purpose |-> s.purpose, verificationMethod |-> s.key, created |-> signs + 1,
                    challenge |-> IF s.purpose = "authentication" THEN signs ELSE Nil]]
  <2>1. DOMAIN c = CallMembers /\ c.pc = "sign"
    BY DEF Idle, CallMembers
  <2>2. Enter(p, o, c) /\ object' = object
    BY <1>1 DEF SignBegin, builderVars
  <2>3. Step(p)
    BY <1>1 DEF Step
  <2> HIDE DEF c
  <2>4. ~Active(p)
    BY <2>2 DEF Enter
  <2> QED
    BY <2>1, <2>2, <2>3, <2>4 DEF Enters
<1>2. ASSUME NEW p \in Procs, NEW o \in Objects, NEW key \in Verifiers, VerifyBegin(p, o, key)
      PROVE  Enters(p, o)
  <2> DEFINE c == [Idle EXCEPT !.key = key, !.proof = object[o].proof,
                               !.pc = IF object[o].proof = NoProof THEN "panic" ELSE "got"]
  <2>1. DOMAIN c = CallMembers /\ c.pc \in {"sign", "got", "panic"}
    BY DEF Idle, CallMembers
  <2>2. Enter(p, o, c) /\ object' = object
    BY <1>2 DEF VerifyBegin, builderVars
  <2>3. Step(p)
    BY <1>2 DEF Step
  <2> HIDE DEF c
  <2>4. ~Active(p)
    BY <2>2 DEF Enter
  <2> QED
    BY <2>1, <2>2, <2>3, <2>4 DEF Enters
<1>3. ASSUME NEW p \in Procs, SignDocument(p) \/ VerifyDocument(p) \/ VerifyFails(p)
      PROVE  Works(p)
  <2>1. call[p].pc \in {"sign", "verify"} /\ object' = object
    BY <1>3 DEF SignDocument, VerifyDocument, VerifyFails, builderVars
  <2>2. Step(p)
    BY <1>3 DEF Step
  <2>3. Active(p) /\ call[p].obj \in Objects
    BY <2>1 DEF Active, Shape
  <2>4. /\ DOMAIN call' = Procs /\ \A q \in Procs \ {p} : call'[q] = call[q]
        /\ call'[p].obj = call[p].obj /\ call'[p].alone = call[p].alone
    <3>1. CASE SignDocument(p)
      <4> DEFINE f == (Read(call[p].obj).proof = NoProof)
                 x == [options |-> call[p].options,
                       jws |-> [key |-> call[p].key,
                                tbs |-> CreateVerifyHash(Read(call[p].obj), call[p].options, call[p].contexts)]]
      <4>1. call' = [call EXCEPT ![p].pc = "attach", ![p].first = f, ![p].proof = x]
        BY <3>1 DEF SignDocument
      <4> HIDE DEF f, x
      <4> QED
        BY <4>1 DEF Shape, CallMembers
    <3>2. CASE VerifyDocument(p) \/ VerifyFails(p)
      <4>1. PICK a \in {"accepted", "refused", "failed"} : call' = [call EXCEPT ![p].pc = a]
        BY <3>2 DEF VerifyDocument, VerifyFails
      <4> QED
        BY <4>1 DEF Shape, CallMembers
    <3> QED
      BY <1>3, <3>1, <3>2
  <2> QED
    BY <1>0, <2>1, <2>2, <2>3, <2>4 DEF Works
<1>4. ASSUME NEW p \in Procs, SignFails(p) \/ Recovered(p)
      PROVE  Works(p)
  <2>1. /\ call[p].pc \in {"sign", "panic"} /\ object' = object
        /\ call' = [call EXCEPT ![p] = Idle]
    BY <1>4 DEF SignFails, Recovered, builderVars
  <2>2. Step(p)
    BY <1>4 DEF Step
  <2>3. Active(p) /\ call[p].obj \in Objects
    BY <2>1 DEF Active, Shape
  <2>4. /\ DOMAIN call' = Procs /\ \A q \in Procs \ {p} : call'[q] = call[q]
        /\ call'[p].pc = "idle"
    BY <2>1 DEF Shape, Idle
  <2> QED
    BY <1>0, <2>1, <2>2, <2>3, <2>4 DEF Works
<1>5. ASSUME NEW p \in Procs, SignAttach(p) \/ VerifyRestore(p)
      PROVE  Works(p)
  <2>1. /\ call[p].pc = "attach" \/ InWindow(p)
        /\ object' = [object EXCEPT ![call[p].obj].proof = call[p].proof]
        /\ call' = [call EXCEPT ![p] = Idle]
    BY <1>5 DEF SignAttach, VerifyRestore, InWindow
  <2>2. Step(p)
    BY <1>5 DEF Step
  <2>3. Active(p) /\ call[p].obj \in Objects
    BY <2>1 DEF Active, Shape, InWindow
  <2>4. /\ DOMAIN call' = Procs /\ \A q \in Procs \ {p} : call'[q] = call[q]
        /\ call'[p].pc = "idle"
    BY <2>1 DEF Shape, Idle
  <2> QED
    BY <2>1, <2>2, <2>3, <2>4, SetProofKeepsContent DEF Works
<1>6. ASSUME NEW p \in Procs, VerifyClear(p)
      PROVE  Works(p)
  <2>1. /\ call[p].pc = "got"
        /\ object' = [object EXCEPT ![call[p].obj].proof = NoProof]
        /\ call' = [call EXCEPT ![p].pc = "verify", ![p].contexts = GetContextsFromProvable(call[p].obj)]
    BY <1>6 DEF VerifyClear
  <2>2. Step(p)
    BY <1>6 DEF Step
  <2>3. Active(p) /\ call[p].obj \in Objects
    BY <2>1 DEF Active, Shape
  <2>4. /\ DOMAIN call' = Procs /\ \A q \in Procs \ {p} : call'[q] = call[q]
        /\ call'[p].obj = call[p].obj /\ call'[p].alone = call[p].alone
    BY <2>1 DEF Shape, CallMembers
  <2> QED
    BY <2>1, <2>2, <2>3, <2>4, SetProofKeepsContent DEF Works
<1> QED
  BY <1>1, <1>2, <1>3, <1>4, <1>5, <1>6 DEF Step

LEMMA StepKinds ==
  ASSUME IInv, Objective, [Next]_vars
  PROVE  \/ \E p \in Procs, o \in Objects : Enters(p, o)
         \/ \E p \in Procs : Works(p)
         \/ \E o \in Objects : Touches(o)
         \/ call' = call /\ object' = object
<1> USE DEF IInv
<1>1. ASSUME NEW p \in Procs, Step(p)
      PROVE  (\E o \in Objects : Enters(p, o)) \/ Works(p)
  BY <1>1, StepIsOwn
<1>2. ASSUME NEW o \in Objects, UseSetter(o)
      PROVE  Touches(o)
  BY <1>2, ChangeKeepsObjects DEF UseSetter, Touch, Touches
<1>3. ASSUME NEW o \in Objects, AlterProof(o)
      PROVE  Touches(o)
  <2>1. PICK x : object' = [object EXCEPT ![o].proof.options = x]
    BY <1>3 DEF AlterProof
  <2> QED
    BY <1>3, <2>1 DEF AlterProof, Touch, Touches, Shape
<1>4. ASSUME NEW o \in Objects, UseBuild(o)
      PROVE  call' = call /\ object' = object
  BY <1>4 DEF UseBuild, Build, suiteVars
<1>5. ASSUME UNCHANGED vars
      PROVE  call' = call /\ object' = object
  BY <1>5 DEF vars, builderVars, suiteVars
<1> QED
  BY <1>1, <1>2, <1>3, <1>4, <1>5 DEF Next

(* What the call of p reads is as it was.                                  *)
SameSight(p) ==
  /\ call'[p] = call[p]
  /\ object'[call[p].obj] = object[call[p].obj]
  /\ \A x \in Objects : Embeds(call[p].obj, x) => object'[x] = object[x]

(* Meeting another call, a call is as before only if it was not concerned. *)
LEMMA DisturbedOrNot ==
  ASSUME Shape, NEW o \in Objects, NEW q \in Procs, Active(q), Disturbed(o)[q].alone
  PROVE  /\ Disturbed(o)[q] = call[q]
         /\ call[q].obj # o /\ ~Embeds(call[q].obj, o) /\ ~Embeds(o, call[q].obj)
<1>1. call[q].obj \in Objects
  BY DEF Shape, Active
<1>2. call[q].obj \notin Related(o)
  BY DEF Disturbed, Shape, CallMembers
<1>3. Disturbed(o)[q] = call[q]
  BY <1>2 DEF Disturbed
<1> QED
  BY <1>1, <1>2, <1>3 DEF Related

(* A call that is alone after a step and went on before it was alone, and  *)
(* unless the step is its own sees what it saw.                            *)
LEMMA AloneSees ==
  ASSUME IInv, Objective, AloneInv, [Next]_vars,
         NEW p \in Procs, Active(p), call'[p].pc # "idle", call'[p].alone
  PROVE  /\ call[p].alone /\ call'[p].obj = call[p].obj
         /\ Works(p) \/ SameSight(p)
<1> USE DEF IInv
<1>0. call[p].obj \in Objects
  BY DEF Shape, Active
<1>1. ASSUME NEW q \in Procs, NEW o \in Objects, Enters(q, o)
      PROVE  call[p].alone /\ call'[p].obj = call[p].obj /\ SameSight(p)
  <2>1. q # p
    BY <1>1 DEF Enters
  <2>2. PICK c : call' = [Disturbed(o) EXCEPT ![q] = [c EXCEPT !.obj = o, !.alone = ~Overlaps(q, o)]]
    BY <1>1 DEF Enters, Enter
  <2>3. call'[p] = Disturbed(o)[p]
    BY <2>1, <2>2, DisturbedKeeps
  <2>4. call'[p] = call[p]
    BY <2>3, DisturbedOrNot
  <2> QED
    BY <1>1, <2>4 DEF Enters, SameSight
<1>2. ASSUME NEW q \in Procs, Works(q), q # p
      PROVE  call[p].alone /\ call'[p].obj = call[p].obj /\ SameSight(p)
  <2>1. call'[p] = call[p]
    BY <1>2 DEF Works
  <2>2. call[q].obj # call[p].obj /\ ~Embeds(call[p].obj, call[q].obj)
    BY <1>2, <2>1 DEF AloneInv, Works
  <2> QED
    BY <1>0, <1>2, <2>1, <2>2 DEF Works, SameSight
<1>3. ASSUME Works(p)
      PROVE  call[p].alone /\ call'[p].obj = call[p].obj
  BY <1>3 DEF Works
<1>4. ASSUME NEW o \in Objects, Touches(o)
      PROVE  call[p].alone /\ call'[p].obj = call[p].obj /\ SameSight(p)
  <2>1. call'[p] = call[p] /\ call[p].obj # o /\ ~Embeds(call[p].obj, o)
    BY <1>4, DisturbedOrNot DEF Touches
  <2> QED
    BY <1>0, <1>4, <2>1 DEF Touches, SameSight
<1>5. ASSUME call' = call, object' = object
      PROVE  call[p].alone /\ call'[p].obj = call[p].obj /\ SameSight(p)
  BY <1>5 DEF SameSight
<1> QED
  BY <1>1, <1>2, <1>3, <1>4, <1>5, StepKinds

Apart(p, q) == call[q].obj # call[p].obj /\ ~Embeds(call[p].obj, call[q].obj)

LEMMA AloneHolds ==
  ASSUME IInv, Objective, AloneInv, [Next]_vars
  PROVE  AloneInv'
<1> USE DEF IInv
<1> SUFFICES ASSUME NEW p \in Procs, NEW q \in Procs, p # q,
                    Active(p)', Active(q)', call'[p].alone
             PROVE  Apart(p, q)'
  BY DEF AloneInv, Apart
<1>1. ASSUME NEW r \in Procs, NEW o \in Objects, Enters(r, o)
      PROVE  Apart(p, q)'
  <2>1. PICK c : DOMAIN c = CallMembers /\ Enter(r, o, c)
    BY <1>1 DEF Enters
  <2>2. /\ call' = [Disturbed(o) EXCEPT ![r] = [c EXCEPT !.obj = o, !.alone = ~Overlaps(r, o)]]
        /\ ~Active(r)
    BY <2>1 DEF Enter
  <2>3. /\ call'[r].obj = o /\ (call'[r].alone <=> ~Overlaps(r, o))
        /\ \A x \in Procs \ {r} : call'[x] = Disturbed(o)[x]
    BY <2>1, <2>2, DisturbedKeeps DEF CallMembers
  <2>4. \A x \in Procs \ {r} : call'[x].obj = call[x].obj /\ (Active(x)' => Active(x))
    BY <2>3, DisturbedKeeps DEF Active
  <2>5. object' = object
    BY <1>1 DEF Enters
  <2>6. CASE r = p
    <3>1. Active(q) /\ call[q].obj \in Objects /\ call'[q].obj = call[q].obj
      BY <2>4, <2>6 DEF Active, Shape
    <3>2. call[q].obj \notin Related(o)
      BY <2>3, <2>6, <3>1 DEF Overlaps
    <3> QED
      BY <2>3, <2>5, <2>6, <3>1, <3>2 DEF Apart, Related, Embeds
  <2>7. CASE r = q
    <3>1. Active(p) /\ Disturbed(o)[p].alone /\ call'[p].obj = call[p].obj
      BY <2>3, <2>4, <2>7
    <3> QED
      BY <2>3, <2>5, <2>7, <3>1, DisturbedOrNot DEF Apart, Embeds
  <2>8. CASE r # p /\ r # q
    <3>1. Active(p) /\ Active(q) /\ Disturbed(o)[p].alone
      BY <2>3, <2>4, <2>8
    <3>2. call[p].alone
      BY <3>1, DisturbedOrNot
    <3> QED
      BY <2>4, <2>5, <2>8, <3>1, <3>2 DEF AloneInv, Apart, Embeds
  <2> QED
    BY <2>6, <2>7, <2>8
<1>2. ASSUME NEW r \in Procs, Works(r)
      PROVE  Apart(p, q)'
  <2>1. /\ Active(p) /\ call'[p].obj = call[p].obj /\ call[p].alone
        /\ Active(q) /\ call'[q].obj = call[q].obj
    BY <1>2 DEF Works, Active
  <2>2. call[p].obj \in Objects
    BY <2>1 DEF Shape, Active
  <2>3. object'[call[p].obj].creds = object[call[p].obj].creds
    BY <1>2, <2>2 DEF Works, SameContent
  <2> QED
    BY <2>1, <2>3 DEF AloneInv, Apart, Embeds
<1>3. ASSUME NEW o \in Objects, Touches(o)
      PROVE  Apart(p, q)'
  <2>1. Active(p) /\ Active(q) /\ call'[q].obj = call[q].obj
    BY <1>3, DisturbedKeeps DEF Touches, Active
  <2>2. call'[p] = call[p] /\ call[p].obj # o
    BY <1>3, <2>1, DisturbedOrNot DEF Touches
  <2>3. call[p].obj \in Objects
    BY <2>1 DEF Shape, Active
  <2>4. object'[call[p].obj] = object[call[p].obj]
    BY <1>3, <2>2, <2>3 DEF Touches
  <2> QED
    BY <2>1, <2>2, <2>4 DEF AloneInv, Apart, Embeds
<1>4. ASSUME call' = call, object' = object
      PROVE  Apart(p, q)'
  BY <1>4 DEF AloneInv, Apart, Active, Embeds
<1> QED
  BY <1>1, <1>2, <1>3, <1>4, StepKinds

(***************************************************************************)
(* Digests.                                                                *)
(***************************************************************************)
(* What the signer signs: the options of the proof and the document.       *)
Digest(options, doc) ==
  <<[m \in Options |-> options[m]], Canonicalize(doc, Defined(doc.context))>>

(* A document as Read returns it.                                          *)
IsDocument(doc) ==
  /\ "proof" \in Defined(doc.context)
  /\ IsSequence(doc.creds)
  /\ \A i \in DOMAIN doc.creds : DOMAIN doc.creds[i].field = DOMAIN CredentialFields

(* Whatever the contexts, all options of a proof are signed.               *)
LEMMA OptionsDefined ==
  ASSUME NEW ctx, IsSequence(ctx)
  PROVE  Options \cap Defined(EnsureRequiredContexts(ctx)) = Options
<1>1. Suite \in ToSet(EnsureRequiredContexts(ctx))
  <2>1. CASE Contains(ctx, Suite)
    BY <2>1, SequenceShape DEF Contains, EnsureRequiredContexts, ToSet
  <2>2. CASE ~Contains(ctx, Suite)
    BY <2>2, AppendSequence DEF EnsureRequiredContexts
  <2> QED
    BY <2>1, <2>2
<1> QED
  BY <1>1, SuiteAssumption DEF Defined, Members

LEMMA HashOf ==
  ASSUME NEW doc, NEW options, DOMAIN options = Options, NEW ctx, IsSequence(ctx)
  PROVE  /\ CreateVerifyHash(doc, options, ctx) = Digest(prepareProof(options), doc)
         /\ \A m \in Options \ {"created"} : prepareProof(options)[m] = options[m]
         /\ options.created # Nil => prepareProof(options) = options
<1>1. CreateVerifyHash(doc, options, ctx) = Digest(prepareProof(options), doc)
  BY OptionsDefined DEF CreateVerifyHash, Digest
<1>2. "created" \in Options
  BY DEF Options
<1> QED
  BY <1>1, <1>2 DEF prepareProof

(* The canonical form of a proof tells whether there is one and, where the *)
(* suite's context is in scope, which.                                     *)
LEMMA SameProofs ==
  ASSUME NEW x, NEW y, NEW A, NEW B, "proof" \in A, "proof" \in B,
         CanonicalizeProof(x, A) = CanonicalizeProof(y, B)
  PROVE  /\ x = NoProof <=> y = NoProof
         /\ Members \subseteq B => SameProof(x, y)
<1> DEFINE G(p, names) == [m \in Members \cap names |-> IF m = "jws" THEN p.jws ELSE p.options[m]]
<1>1. ASSUME NEW p, NEW names, "proof" \in names
      PROVE  /\ p = NoProof => CanonicalizeProof(p, names) = {}
             /\ p # NoProof => CanonicalizeProof(p, names) = {G(p, names)}
  <2>1. {"proof"} \cap names = {"proof"}
    BY <1>1
  <2>2. CanonicalizeProof(p, names) = {G(p, names) : z \in {w \in {"proof"} \cap names : p # NoProof}}
    BY DEF CanonicalizeProof
  <2> HIDE DEF G
  <2> QED
    BY <2>1, <2>2
<1>2. x = NoProof <=> y = NoProof
  <2> HIDE DEF G
  <2> QED BY <1>1
<1>3. ASSUME Members \subseteq B, x # NoProof
      PROVE  x.jws = y.jws /\ \A m \in Options : x.options[m] = y.options[m]
  <2>1. G(x, A) = G(y, B)
    <3> HIDE DEF G
    <3> QED BY <1>1, <1>2, <1>3
  <2>2. DOMAIN G(x, A) = Members \cap A /\ DOMAIN G(y, B) = Members
    BY <1>3
  <2>3. Members \cap A = Members
    <3> HIDE DEF G
    <3> QED BY <2>1, <2>2
  <2>4. \A m \in Members : G(x, A)[m] = G(y, B)[m]
    <3> HIDE DEF G
    <3> QED BY <2>1
  <2>5. \A m \in Members : /\ G(x, A)[m] = IF m = "jws" THEN x.jws ELSE x.options[m]
                           /\ G(y, B)[m] = IF m = "jws" THEN y.jws ELSE y.options[m]
    BY <1>3, <2>3
  <2>6. "jws" \in Members /\ Options \subseteq Members /\ "jws" \notin Options
    BY DEF Members, Options
  <2>7. x.jws = y.jws
    <3> HIDE DEF G
    <3> QED BY <2>4, <2>5, <2>6
  <2>8. ASSUME NEW m \in Options PROVE x.options[m] = y.options[m]
    <3>1. m \in Members /\ m # "jws"
      BY <2>6
    <3> HIDE DEF G
    <3> QED BY <2>4, <2>5, <3>1
  <2> QED
    BY <2>7, <2>8
<1> QED
  BY <1>2, <1>3 DEF SameProof

(* Nodes that are written alike say the same.                              *)
LEMMA SameNode ==
  ASSUME NEW a, NEW b, NEW A, NEW B, DOMAIN a.field = DOMAIN b.field,
         CanonicalizeNode(a, A) = CanonicalizeNode(b, B)
  PROVE  SaysSame(a, b, A, B) /\ CanonicalizeProof(a.proof, A) = CanonicalizeProof(b.proof, B)
<1> DEFINE N(d, names) == {g \in DOMAIN d.field : g \in names /\ d.field[g] # Nil}
           F(d, names) == [f \in N(d, names) |-> d.field[f]]
<1>1. /\ ToSet(a.type) \cap A = ToSet(b.type) \cap B
      /\ F(a, A) = F(b, B)
      /\ CanonicalizeProof(a.proof, A) = CanonicalizeProof(b.proof, B)
  <2> DEFINE c == CanonicalizeNode(a, A)
             d == CanonicalizeNode(b, B)
  <2>1. c.type = ToSet(a.type) \cap A /\ d.type = ToSet(b.type) \cap B
    BY DEF CanonicalizeNode
  <2>2. c.field = F(a, A) /\ d.field = F(b, B)
    BY DEF CanonicalizeNode
  <2>3. c.proof = CanonicalizeProof(a.proof, A) /\ d.proof = CanonicalizeProof(b.proof, B)
    BY DEF CanonicalizeNode
  <2>4. c = d
    OBVIOUS
  <2> HIDE DEF c, d, F
  <2> QED BY <2>1, <2>2, <2>3, <2>4
<1>2. /\ DOMAIN F(a, A) = N(a, A) /\ \A f \in N(a, A) : F(a, A)[f] = a.field[f]
      /\ DOMAIN F(b, B) = N(b, B) /\ \A f \in N(b, B) : F(b, B)[f] = b.field[f]
  <2> HIDE DEF N
  <2> QED OBVIOUS
<1>3. N(a, A) = N(b, B) /\ \A f \in N(a, A) : a.field[f] = b.field[f]
  <2> HIDE DEF N, F
  <2> QED BY <1>1, <1>2
<1>4. \A f \in DOMAIN a.field : Says(a, A, f) = Says(b, B, f)
  BY <1>3 DEF Says
<1> QED
  BY <1>1, <1>4 DEF SaysSame

(* What Verify finds signed when the digests agree.                        *)
LEMMA SameDigest ==
  ASSUME NEW a, NEW b, IsDocument(a), IsDocument(b), DOMAIN a.field = DOMAIN b.field,
         Canonicalize(a, Defined(a.context)) = Canonicalize(b, Defined(b.context))
  PROVE  /\ SaysSame(a, b, Defined(a.context), Defined(b.context))
         /\ Len(a.creds) = Len(b.creds)
         /\ \A i \in DOMAIN b.creds :
              /\ SaysSame(a.creds[i], b.creds[i],
                          Defined(a.context) \cup Defined(a.creds[i].context),
                          Defined(b.context) \cup Defined(b.creds[i].context))
              /\ a.creds[i].proof = NoProof <=> b.creds[i].proof = NoProof
              /\ Suite \in ToSet(b.context) \cup ToSet(b.creds[i].context) =>
                   SameProof(a.creds[i].proof, b.creds[i].proof)
<1> DEFINE G(d) == [i \in DOMAIN d.creds |->
                      CanonicalizeNode(d.creds[i], Defined(d.context) \cup Defined(d.creds[i].context))]
<1>1. /\ CanonicalizeNode(a, Defined(a.context)) = CanonicalizeNode(b, Defined(b.context))
      /\ G(a) = G(b)
  <2> DEFINE c == Canonicalize(a, Defined(a.context))
             d == Canonicalize(b, Defined(b.context))
  <2>1. c.node = CanonicalizeNode(a, Defined(a.context)) /\ d.node = CanonicalizeNode(b, Defined(b.context))
    BY DEF Canonicalize
  <2>2. c.creds = G(a) /\ d.creds = G(b)
    BY DEF Canonicalize
  <2>3. c = d
    OBVIOUS
  <2> HIDE DEF c, d, G
  <2> QED BY <2>1, <2>2, <2>3
<1>2. DOMAIN G(a) = DOMAIN a.creds /\ DOMAIN G(b) = DOMAIN b.creds
  OBVIOUS
<1>3. DOMAIN a.creds = DOMAIN b.creds
  <2> HIDE DEF G
  <2> QED BY <1>1, <1>2
<1>4. Len(a.creds) = Len(b.creds)
  <2>1. /\ Len(a.creds) \in Nat /\ DOMAIN a.creds = 1..Len(a.creds)
        /\ Len(b.creds) \in Nat /\ DOMAIN b.creds = 1..Len(b.creds)
    BY SequenceShape DEF IsDocument
  <2>2. \A m, n \in Nat : 1..m = 1..n => m = n
    <3> SUFFICES ASSUME NEW m \in Nat, NEW n \in Nat, 1..m = 1..n PROVE m = n
      OBVIOUS
    <3>1. m = 0 \/ m \in 1..n
      OBVIOUS
    <3>2. n = 0 \/ n \in 1..m
      OBVIOUS
    <3> QED
      BY <3>1, <3>2
  <2> QED
    BY <1>3, <2>1, <2>2
<1>5. ASSUME NEW i \in DOMAIN b.creds
      PROVE  /\ SaysSame(a.creds[i], b.creds[i],
                         Defined(a.context) \cup Defined(a.creds[i].context),
                         Defined(b.context) \cup Defined(b.creds[i].context))
             /\ a.creds[i].proof = NoProof <=> b.creds[i].proof = NoProof
             /\ Suite \in ToSet(b.context) \cup ToSet(b.creds[i].context) =>
                  SameProof(a.creds[i].proof, b.creds[i].proof)
  <2>1. /\ G(a)[i] = CanonicalizeNode(a.creds[i], Defined(a.context) \cup Defined(a.creds[i].context))
        /\ G(b)[i] = CanonicalizeNode(b.creds[i], Defined(b.context) \cup Defined(b.creds[i].context))
    BY <1>3
  <2>2. DOMAIN a.creds[i].field = DOMAIN b.creds[i].field
    BY <1>3 DEF IsDocument
  <2>3. /\ "proof" \in Defined(a.context) \cup Defined(a.creds[i].context)
        /\ "proof" \in Defined(b.context) \cup Defined(b.creds[i].context)
    BY DEF IsDocument
  <2>4. CanonicalizeNode(a.creds[i], Defined(a.context) \cup Defined(a.creds[i].context))
          = CanonicalizeNode(b.creds[i], Defined(b.context) \cup Defined(b.creds[i].context))
    <3> HIDE DEF G
    <3> QED BY <1>1, <2>1
  <2>5. /\ SaysSame(a.creds[i], b.creds[i],
                    Defined(a.context) \cup Defined(a.creds[i].context),
                    Defined(b.context) \cup Defined(b.creds[i].context))
        /\ CanonicalizeProof(a.creds[i].proof, Defined(a.context) \cup Defined(a.creds[i].context))
             = CanonicalizeProof(b.creds[i].proof, Defined(b.context) \cup Defined(b.creds[i].context))
    BY <2>2, <2>4, SameNode
  <2>6. Suite \in ToSet(b.context) \cup ToSet(b.creds[i].context) =>
          Members \subseteq Defined(b.context) \cup Defined(b.creds[i].context)
    BY SuiteAssumption DEF Defined
  <2> QED
    BY <2>3, <2>5, <2>6, SameProofs
<1>6. SaysSame(a, b, Defined(a.context), Defined(b.context))
  BY <1>1, SameNode
<1> QED
  BY <1>4, <1>5, <1>6

(* json.Marshal writes a document.                                         *)
LEMMA ReadIsDocument ==
  ASSUME Shape, Objective, NEW o \in Objects
  PROVE  /\ IsDocument(Read(o))
         /\ DOMAIN Read(o).field = DOMAIN FieldsOf(o)
         /\ IsSequence(Read(o).context)
         /\ Read(o).proof = object[o].proof
<1> DEFINE cs == object[o].creds
           ds == [i \in DOMAIN cs |-> object[cs[i]]]
<1>1. DOMAIN object[o] = {"context", "type", "creds", "proof", "field"}
  BY DEF Shape
<1>2. Read(o) = [object[o] EXCEPT !.creds = ds]
  BY <1>1 DEF Read
<1>3. /\ Read(o).context = object[o].context /\ Read(o).field = object[o].field
      /\ Read(o).proof = object[o].proof /\ Read(o).creds = ds
  <2> HIDE DEF ds
  <2> QED BY <1>1, <1>2
<1>4. IsObject(o, object[o])
  BY DEF Objective
<1>5. cs \in Seq(Credentials)
  BY <1>4 DEF IsObject
<1>6. IsSequence(ds)
  <2>1. Len(cs) \in Nat /\ DOMAIN cs = 1..Len(cs)
    <3> HIDE DEF cs
    <3> QED BY <1>5
  <2>2. DOMAIN ds = 1..Len(cs) /\ ds = [k \in 1..Len(cs) |-> ds[k]]
    BY <2>1
  <2> HIDE DEF ds
  <2> QED BY <2>1, <2>2, FunctionIsSequence
<1>7. \A i \in DOMAIN ds : DOMAIN ds[i].field = DOMAIN CredentialFields
  <2> SUFFICES ASSUME NEW i \in DOMAIN ds PROVE DOMAIN ds[i].field = DOMAIN CredentialFields
    OBVIOUS
  <2>1. cs[i] \in Credentials
    <3>1. i \in DOMAIN cs
      OBVIOUS
    <3> HIDE DEF cs
    <3> QED BY <1>5, <3>1
  <2>2. IsObject(cs[i], object[cs[i]]) /\ FieldsOf(cs[i]) = CredentialFields
    BY <2>1 DEF Objective, Objects, FieldsOf
  <2> QED
    BY <2>2 DEF IsObject
<1>8. "proof" \in Defined(Read(o).context)
  BY <1>3, <1>4, SuiteAssumption DEF IsObject, Defined
<1> QED
  BY <1>3, <1>4, <1>6, <1>7, <1>8 DEF IsObject, IsDocument

(***************************************************************************)
(* Proofs are backed by signatures.                                        *)
(***************************************************************************)
IsSigned(s) ==
  /\ s.tbs = Digest(s.options, s.doc)
  /\ IsDocument(s.doc)

(* A proof that someone made with these signatures for an object with the  *)
(* fields of o; its options may have been changed since.                   *)
Backed(signatures, proof, o) ==
  /\ IsProof(proof)
  /\ DOMAIN proof.options = Options
  /\ \E s \in signatures : /\ proof.jws = [key |-> s.key, tbs |-> s.tbs]
                           /\ DOMAIN s.doc.field = DOMAIN FieldsOf(o)

(* What a call has gathered.                                               *)
CallFacts(c, signatures) ==
  /\ IsSequence(c.contexts)
  /\ c.pc = "sign" => DOMAIN c.options = Options /\ c.options.created # Nil
  /\ c.pc \in {"attach", "got", "verify", "accepted", "refused", "failed"} =>
       Backed(signatures, c.proof, c.obj)

SignedInv ==
  /\ signs \in Nat
  /\ \A s \in signed : IsSigned(s)
  /\ \A o \in Objects : object[o].proof = NoProof \/ Backed(signed, object[o].proof, o)
  /\ \A p \in Procs : CallFacts(call[p], signed)

LEMMA MoreSignatures ==
  ASSUME NEW S, NEW T, S \subseteq T
  PROVE  /\ \A x, o : Backed(S, x, o) => Backed(T, x, o)
         /\ \A c : CallFacts(c, S) => CallFacts(c, T)
  BY DEF Backed, CallFacts

LEMMA EmptyIsSequence == IsSequence(<<>>)
<1>1. <<>> = [k \in 1..0 |-> <<>>[k]] /\ DOMAIN <<>> = 1..0
  OBVIOUS
<1> QED
  BY <1>1, FunctionIsSequence

LEMMA IdleFacts ==
  ASSUME NEW S
  PROVE  CallFacts(Idle, S)
<1>1. Idle.pc = "idle" /\ Idle.contexts = <<>>
  BY DEF Idle
<1> QED
  BY <1>1, EmptyIsSequence DEF CallFacts

LEMMA InitSigned == Init => SignedInv /\ AloneInv
<1> SUFFICES ASSUME Init PROVE SignedInv /\ AloneInv
  OBVIOUS
<1>1. \A o \in Objects : object[o].proof = NoProof
  <2>1. PICK draft \in Drafts : object = [o \in Objects |-> Begun(o, draft)]
    BY DEF Init, BuilderInit
  <2>2. ASSUME NEW o \in Objects
        PROVE  DOMAIN New(o) = {"context", "type", "creds", "proof", "field"} /\ New(o).proof = NoProof
    BY DEF New, Empty
  <2> QED
    BY <2>1, <2>2 DEF Begun
<1>2. \A p \in Procs : call[p] = Idle /\ Idle.pc = "idle"
  BY DEF Init, Idle
<1> QED
  BY <1>1, <1>2, IdleFacts DEF Init, SignedInv, AloneInv, Active

(* A call that met another one has still gathered the same.                *)
LEMMA DisturbedFacts ==
  ASSUME Shape, NEW o, NEW q \in Procs, NEW S, CallFacts(call[q], S)
  PROVE  CallFacts(Disturbed(o)[q], S)
<1>1. /\ Disturbed(o)[q].pc = call[q].pc /\ Disturbed(o)[q].obj = call[q].obj
      /\ Disturbed(o)[q].proof = call[q].proof /\ Disturbed(o)[q].contexts = call[q].contexts
      /\ Disturbed(o)[q].options = call[q].options
  BY DEF Shape, Disturbed, CallMembers
<1> QED
  BY <1>1 DEF CallFacts

LEMMA SignedHolds ==
  ASSUME IInv, Objective, SignedInv, [Next]_vars
  PROVE  SignedInv'
<1> USE DEF IInv
<1>1. ASSUME NEW p \in Procs, NEW o \in Objects, NEW s \in Signers, SignBegin(p, o, s)
      PROVE  SignedInv'
  <2> DEFINE w == [purpose |-> s.purpose, verificationMethod |-> s.key, created |-> signs + 1,
                   challenge |-> IF s.purpose = "authentication" THEN signs ELSE Nil]
             c == [Idle EXCEPT !.pc = "sign", !.key = s.key,
                               !.contexts = GetContextsFromProvable(o), !.options = w]
             d == [c EXCEPT !.obj = o, !.alone = ~Overlaps(p, o)]
  <2>1. call' = [Disturbed(o) EXCEPT ![p] = d]
    BY <1>1 DEF SignBegin, Enter
  <2>2. /\ object' = object /\ signed' = signed /\ signs' = signs + 1
    BY <1>1 DEF SignBegin, builderVars
  <2>3. DOMAIN w = Options /\ w.created = signs + 1
    BY DEF Options
  <2>4. d.pc = "sign" /\ d.options = w /\ d.contexts = Read(o).context
    BY DEF Idle, GetContextsFromProvable
  <2>5. signs + 1 # Nil /\ signs + 1 \in Nat
    BY SuiteAssumption DEF SignedInv
  <2> HIDE DEF w, c, d
  <2>6. CallFacts(d, signed)
    BY <2>3, <2>4, <2>5, ReadIsDocument DEF CallFacts
  <2>7. \A q \in Procs : CallFacts(call'[q], signed)
    BY <2>1, <2>6, DisturbedFacts, DisturbedKeeps DEF SignedInv
  <2> QED
    BY <2>2, <2>5, <2>7 DEF SignedInv
<1>2. ASSUME NEW p \in Procs, SignDocument(p)
      PROVE  SignedInv'
  <2> DEFINE c   == call[p]
             doc == Read(call[p].obj)
             tbs == CreateVerifyHash(doc, c.options, c.contexts)
             s   == [key |-> c.key, tbs |-> tbs, options |-> c.options, doc |-> doc]
             x   == [options |-> c.options, jws |-> [key |-> c.key, tbs |-> tbs]]
             f   == (doc.proof = NoProof)
  <2>1. /\ c.pc = "sign"
        /\ call' = [call EXCEPT ![p].pc = "attach", ![p].first = f, ![p].proof = x]
        /\ signed' = signed \cup {s}
        /\ object' = object /\ signs' = signs
    BY <1>2 DEF SignDocument, builderVars
  <2>2. c.obj \in Objects
    BY <2>1 DEF Shape
  <2>3. DOMAIN c.options = Options /\ c.options.created # Nil /\ IsSequence(c.contexts)
    BY <2>1 DEF SignedInv, CallFacts
  <2>4. tbs = Digest(c.options, doc)
    <3> HIDE DEF doc
    <3> QED BY <2>3, HashOf
  <2>5. IsDocument(doc) /\ DOMAIN doc.field = DOMAIN FieldsOf(c.obj)
    BY <2>2, ReadIsDocument
  <2>6. s.tbs = tbs /\ s.options = c.options /\ s.doc = doc /\ s.key = c.key
    <3> HIDE DEF tbs, doc
    <3> QED OBVIOUS
  <2>7. /\ call'[p].pc = "attach" /\ call'[p].proof = x
        /\ call'[p].obj = c.obj /\ call'[p].contexts = c.contexts
        /\ \A q \in Procs \ {p} : call'[q] = call[q]
    <3> HIDE DEF f, x
    <3> QED BY <2>1 DEF Shape, CallMembers
  <2>8. IsProof(x) /\ x.options = c.options /\ x.jws = [key |-> c.key, tbs |-> tbs]
    <3> HIDE DEF tbs
    <3> QED BY MadeIsProof
  <2> HIDE DEF doc, tbs, s, x, f
  <2>9. IsSigned(s)
    BY <2>4, <2>5, <2>6 DEF IsSigned
  <2>10. Backed(signed', x, c.obj)
    BY <2>1, <2>3, <2>5, <2>6, <2>8 DEF Backed
  <2>11. CallFacts(call'[p], signed')
    BY <2>3, <2>7, <2>10 DEF CallFacts
  <2>12. signed \subseteq signed'
    BY <2>1
  <2>13. \A q \in Procs : CallFacts(call'[q], signed')
    BY <2>7, <2>11, <2>12, MoreSignatures DEF SignedInv
  <2>14. \A o \in Objects : object'[o].proof = NoProof \/ Backed(signed', object'[o].proof, o)
    BY <2>1, <2>12, MoreSignatures DEF SignedInv
  <2>15. \A y \in signed' : IsSigned(y)
    BY <2>1, <2>9 DEF SignedInv
  <2> QED
    BY <2>1, <2>13, <2>14, <2>15 DEF SignedInv
<1>3. ASSUME NEW p \in Procs, SignFails(p) \/ Recovered(p)
      PROVE  SignedInv'
  <2>1. /\ call' = [call EXCEPT ![p] = Idle] /\ object' = object /\ signed' = signed /\ signs' = signs
    BY <1>3 DEF SignFails, Recovered, builderVars
  <2>2. call'[p] = Idle /\ \A q \in Procs \ {p} : call'[q] = call[q]
    BY <2>1 DEF Shape
  <2> QED
    BY <2>1, <2>2, IdleFacts DEF SignedInv
<1>4. ASSUME NEW p \in Procs, SignAttach(p) \/ VerifyRestore(p)
      PROVE  SignedInv'
  <2>1. /\ call[p].pc \in {"attach", "accepted", "refused", "failed"}
        /\ object' = [object EXCEPT ![call[p].obj].proof = call[p].proof]
        /\ call' = [call EXCEPT ![p] = Idle]
        /\ signed' = signed /\ signs' = signs
    BY <1>4 DEF SignAttach, VerifyRestore
  <2>2. call[p].obj \in Objects
    BY <2>1 DEF Shape
  <2>3. Backed(signed, call[p].proof, call[p].obj)
    BY <2>1 DEF SignedInv, CallFacts
  <2>4. /\ object'[call[p].obj].proof = call[p].proof
        /\ \A y \in Objects \ {call[p].obj} : object'[y] = object[y]
    BY <2>1, <2>2, SetProofKeepsContent
  <2>5. call'[p] = Idle /\ \A q \in Procs \ {p} : call'[q] = call[q]
    BY <2>1 DEF Shape
  <2> QED
    BY <2>1, <2>3, <2>4, <2>5, IdleFacts DEF SignedInv
<1>5. ASSUME NEW p \in Procs, NEW o \in Objects, NEW key \in Verifiers, VerifyBegin(p, o, key)
      PROVE  SignedInv'
  <2> DEFINE c == [Idle EXCEPT !.key = key, !.proof = object[o].proof,
                               !.pc = IF object[o].proof = NoProof THEN "panic" ELSE "got"]
             d == [c EXCEPT !.obj = o, !.alone = ~Overlaps(p, o)]
  <2>1. call' = [Disturbed(o) EXCEPT ![p] = d]
    BY <1>5 DEF VerifyBegin, Enter
  <2>2. object' = object /\ signed' = signed /\ signs' = signs
    BY <1>5 DEF VerifyBegin, builderVars
  <2>3. /\ d.pc = IF object[o].proof = NoProof THEN "panic" ELSE "got"
        /\ d.proof = object[o].proof /\ d.contexts = <<>> /\ d.obj = o
    BY DEF Idle
  <2> HIDE DEF c, d
  <2>4. CallFacts(d, signed)
    <3>1. d.pc = "got" => Backed(signed, d.proof, d.obj)
      BY <2>3 DEF SignedInv
    <3>2. d.pc \in {"panic", "got"}
      BY <2>3
    <3> QED
      BY <2>3, <3>1, <3>2, EmptyIsSequence DEF CallFacts
  <2>5. \A q \in Procs : CallFacts(call'[q], signed)
    BY <2>1, <2>4, DisturbedFacts, DisturbedKeeps DEF SignedInv
  <2> QED
    BY <2>2, <2>5 DEF SignedInv
<1>6. ASSUME NEW p \in Procs, VerifyClear(p)
      PROVE  SignedInv'
  <2> DEFINE ctx == GetContextsFromProvable(call[p].obj)
  <2>1. /\ call[p].pc = "got"
        /\ object' = [object EXCEPT ![call[p].obj].proof = NoProof]
        /\ call' = [call EXCEPT ![p].pc = "verify", ![p].contexts = ctx]
        /\ signed' = signed /\ signs' = signs
    BY <1>6 DEF VerifyClear
  <2>2. call[p].obj \in Objects
    BY <2>1 DEF Shape
  <2>3. Backed(signed, call[p].proof, call[p].obj)
    BY <2>1 DEF SignedInv, CallFacts
  <2>4. /\ object'[call[p].obj].proof = NoProof
        /\ \A y \in Objects \ {call[p].obj} : object'[y] = object[y]
    BY <2>1, <2>2, SetProofKeepsContent
  <2>5. IsSequence(ctx)
    BY <2>2, ReadIsDocument DEF GetContextsFromProvable
  <2> HIDE DEF ctx
  <2>6. /\ call'[p].pc = "verify" /\ call'[p].contexts = ctx
        /\ call'[p].obj = call[p].obj /\ call'[p].proof = call[p].proof
        /\ \A q \in Procs \ {p} : call'[q] = call[q]
    BY <2>1 DEF Shape, CallMembers
  <2>7. CallFacts(call'[p], signed)
    BY <2>3, <2>5, <2>6 DEF CallFacts
  <2> QED
    BY <2>1, <2>4, <2>6, <2>7 DEF SignedInv
<1>7. ASSUME NEW p \in Procs, VerifyDocument(p) \/ VerifyFails(p)
      PROVE  SignedInv'
  <2>1. PICK pc \in {"accepted", "refused", "failed"} : call' = [call EXCEPT ![p].pc = pc]
    BY <1>7 DEF VerifyDocument, VerifyFails
  <2>2. call[p].pc = "verify" /\ object' = object /\ signed' = signed /\ signs' = signs
    BY <1>7 DEF VerifyDocument, VerifyFails, builderVars
  <2>3. /\ call'[p].pc = pc /\ call'[p].obj = call[p].obj /\ call'[p].proof = call[p].proof
        /\ call'[p].contexts = call[p].contexts
        /\ \A q \in Procs \ {p} : call'[q] = call[q]
    BY <2>1 DEF Shape, CallMembers
  <2>4. CallFacts(call[p], signed)
    BY DEF SignedInv
  <2>5. CallFacts(call'[p], signed)
    BY <2>2, <2>3, <2>4 DEF CallFacts
  <2> QED
    BY <2>2, <2>3, <2>5 DEF SignedInv
<1>8. ASSUME NEW o \in Objects, UseSetter(o)
      PROVE  SignedInv'
  <2>1. call' = Disturbed(o) /\ signed' = signed /\ signs' = signs /\ Change(o)
    BY <1>8 DEF UseSetter, Touch
  <2>2. \A x \in Objects : object'[x].proof = object[x].proof
    BY <2>1, ChangeKeepsProofs
  <2>3. \A q \in Procs : CallFacts(call'[q], signed)
    BY <2>1, DisturbedFacts DEF SignedInv
  <2> QED
    BY <2>1, <2>2, <2>3 DEF SignedInv
<1>9. ASSUME NEW o \in Objects, AlterProof(o)
      PROVE  SignedInv'
  <2>1. call' = Disturbed(o) /\ signed' = signed /\ signs' = signs
    BY <1>9 DEF AlterProof, Touch
  <2>2. Backed(signed, object[o].proof, o)
    BY <1>9 DEF AlterProof, SignedInv
  <2>3. PICK w : DOMAIN w = DOMAIN object[o].proof.options
                 /\ object' = [object EXCEPT ![o].proof.options = w]
    BY <1>9 DEF AlterProof
  <2>4. /\ object'[o].proof = [object[o].proof EXCEPT !.options = w]
        /\ \A y \in Objects \ {o} : object'[y] = object[y]
    BY <2>3 DEF Shape
  <2>5. /\ IsProof(object'[o].proof) /\ object'[o].proof.options = w
        /\ object'[o].proof.jws = object[o].proof.jws
    BY <2>2, <2>4 DEF Backed, IsProof
  <2>6. Backed(signed, object'[o].proof, o)
    BY <2>2, <2>3, <2>5 DEF Backed
  <2>7. \A q \in Procs : CallFacts(call'[q], signed)
    BY <2>1, DisturbedFacts DEF SignedInv
  <2> QED
    BY <2>1, <2>4, <2>6, <2>7 DEF SignedInv
<1>10. ASSUME NEW o \in Objects, UseBuild(o)
       PROVE  SignedInv'
  BY <1>10 DEF UseBuild, Build, suiteVars, SignedInv
<1>11. ASSUME UNCHANGED vars
       PROVE  SignedInv'
  BY <1>11 DEF vars, builderVars, suiteVars, SignedInv
<1> QED
  BY <1>1, <1>2, <1>3, <1>4, <1>5, <1>6, <1>7, <1>8, <1>9, <1>10, <1>11 DEF Next, Step

LEMMA ObjectiveHolds ==
  ASSUME IInv, Objective, [Next]_vars
  PROVE  Objective'
<1> USE DEF IInv
<1>1. ASSUME NEW o \in Objects, NEW x, object' = [object EXCEPT ![o].proof = x]
      PROVE  Objective'
  BY <1>1, SetProofKeepsContent
<1>2. ASSUME object' = object
      PROVE  Objective'
  BY <1>2 DEF Objective
<1>3. ASSUME NEW p \in Procs, SignAttach(p) \/ VerifyRestore(p) \/ VerifyClear(p)
      PROVE  Objective'
  <2>1. /\ call[p].pc \in {"attach", "got", "accepted", "refused", "failed"}
        /\ \E x : object' = [object EXCEPT ![call[p].obj].proof = x]
    BY <1>3 DEF SignAttach, VerifyRestore, VerifyClear
  <2>2. call[p].obj \in Objects
    BY <2>1 DEF Shape
  <2> QED
    BY <1>1, <2>1, <2>2
<1>4. ASSUME NEW o \in Objects, UseSetter(o)
      PROVE  Objective'
  BY <1>4, ChangeKeepsObjects DEF UseSetter
<1>5. ASSUME NEW o \in Objects, AlterProof(o)
      PROVE  Objective'
  <2>1. PICK w : object' = [object EXCEPT ![o].proof.options = w]
    BY <1>5 DEF AlterProof
  <2>2. object' = [object EXCEPT ![o].proof = [object[o].proof EXCEPT !.options = w]]
    BY <2>1
  <2> QED
    BY <1>1, <2>2
<1>6. ASSUME NEW p \in Procs,
             \/ \E o \in Objects, s \in Signers : SignBegin(p, o, s)
             \/ \E o \in Objects, key \in Verifiers : VerifyBegin(p, o, key)
             \/ SignDocument(p) \/ SignFails(p)
             \/ VerifyDocument(p) \/ VerifyFails(p) \/ Recovered(p)
      PROVE  object' = object
  BY <1>6 DEF SignBegin, VerifyBegin, SignDocument, SignFails, VerifyDocument, VerifyFails,
              Recovered, builderVars
<1>7. ASSUME \/ \E o \in Objects : UseBuild(o)
             \/ UNCHANGED vars
      PROVE  object' = object
  BY <1>7 DEF UseBuild, Build, vars, builderVars
<1> QED
  BY <1>2, <1>3, <1>4, <1>5, <1>6, <1>7 DEF Next, Step

(* A signed document says what the one that is read now says.              *)
Matches(doc, now) ==
  /\ SaysSame(doc, now, Defined(doc.context), Defined(now.context))
  /\ Len(doc.creds) = Len(now.creds)
  /\ \A i \in DOMAIN now.creds :
       /\ SaysSame(doc.creds[i], now.creds[i],
                   Defined(doc.context) \cup Defined(doc.creds[i].context),
                   Defined(now.context) \cup Defined(now.creds[i].context))
       /\ doc.creds[i].proof = NoProof <=> now.creds[i].proof = NoProof
       /\ Suite \in ToSet(now.context) \cup ToSet(now.creds[i].context) =>
            SameProof(doc.creds[i].proof, now.creds[i].proof)

(* The signatures contain one for what the accepted call c sees.           *)
WasSigned(signatures, c, now) ==
  \E s \in signatures :
    /\ s.key = c.key
    /\ \A m \in Options \ {"created"} : s.options[m] = c.proof.options[m]
    /\ c.proof.options.created \in {Nil, s.options.created}
    /\ Matches(s.doc, now)

LEMMA AcceptedMeansSigned ==
  AcceptedWasSigned <=>
    \A p \in Procs : call[p].pc = "accepted" /\ call[p].alone =>
                       WasSigned(signed, call[p], Read(call[p].obj))
  BY DEF AcceptedWasSigned, WasSigned, Matches

(* What a call sees decides what it reads.                                 *)
LEMMA SightDecides ==
  ASSUME Shape, Objective, NEW p \in Procs, call[p].obj \in Objects, SameSight(p)
  PROVE  Read(call[p].obj)' = Read(call[p].obj)
<1> DEFINE o  == call[p].obj
           cs == object[o].creds
           ds == [i \in DOMAIN cs |-> object[cs[i]]]
<1>1. IsObject(o, object[o])
  BY DEF Objective
<1>2. /\ cs \in Seq(Credentials) /\ Len(cs) \in Nat /\ DOMAIN cs = 1..Len(cs)
      /\ \A i \in DOMAIN cs : cs[i] \in Credentials
  <2>1. cs \in Seq(Credentials)
    BY <1>1 DEF IsObject
  <2> HIDE DEF cs
  <2> QED BY <2>1
<1>3. \A i \in DOMAIN cs : object'[cs[i]] = object[cs[i]]
  <2> SUFFICES ASSUME NEW i \in DOMAIN cs PROVE object'[cs[i]] = object[cs[i]]
    OBVIOUS
  <2>1. cs[i] \in Objects /\ Embeds(o, cs[i])
    BY <1>2 DEF Objects, Embeds, Contains
  <2> QED
    BY <2>1 DEF SameSight
<1>4. call'[p] = call[p] /\ object'[o] = object[o]
  BY DEF SameSight
<1>5. Read(call[p].obj) = [object[o] EXCEPT !.creds = [i \in DOMAIN @ |-> object[@[i]]]]
  BY DEF Read
<1>6. Read(call[p].obj)' = [object'[o] EXCEPT !.creds = [i \in DOMAIN @ |-> object'[@[i]]]]
  BY <1>4 DEF Read
<1>7. DOMAIN object[o] = {"context", "type", "creds", "proof", "field"}
  BY DEF Shape
<1>8. Read(call[p].obj) = [object[o] EXCEPT !.creds = ds]
  BY <1>5, <1>7
<1>9. Read(call[p].obj)' = [object[o] EXCEPT !.creds = [i \in DOMAIN cs |-> object'[cs[i]]]]
  BY <1>4, <1>6, <1>7
<1>10. [i \in DOMAIN cs |-> object'[cs[i]]] = ds
  BY <1>3
<1> QED
  BY <1>8, <1>9, <1>10

(* A verdict in favour of the object is one about something signed.        *)
LEMMA VerdictIsBacked ==
  ASSUME IInv, Objective, SignedInv, NEW p \in Procs, call[p].pc = "verify", Verdict(p)
  PROVE  WasSigned(signed, call[p], Read(call[p].obj))
<1> USE DEF IInv
<1> DEFINE c   == call[p]
           now == Read(call[p].obj)
           tbs == CreateVerifyHash(now, c.proof.options, c.contexts)
           w   == prepareProof(c.proof.options)
<1>1. c.proof.jws = [key |-> c.key, tbs |-> tbs]
  BY DEF Verdict
<1>2. c.obj \in Objects
  BY DEF Shape
<1>3. Backed(signed, c.proof, c.obj) /\ IsSequence(c.contexts)
  BY DEF SignedInv, CallFacts
<1>4. PICK s \in signed : /\ c.proof.jws = [key |-> s.key, tbs |-> s.tbs]
                          /\ DOMAIN s.doc.field = DOMAIN FieldsOf(c.obj)
  BY <1>3 DEF Backed
<1>5. IsSigned(s)
  BY DEF SignedInv
<1>6. IsDocument(now) /\ DOMAIN now.field = DOMAIN FieldsOf(c.obj)
  BY <1>2, ReadIsDocument
<1>7. DOMAIN c.proof.options = Options
  BY <1>3 DEF Backed
<1>8. /\ tbs = Digest(w, now)
      /\ \A m \in Options \ {"created"} : w[m] = c.proof.options[m]
      /\ c.proof.options.created # Nil => w = c.proof.options
  <2> HIDE DEF now, c
  <2> QED BY <1>3, <1>7, HashOf
<1>9. s.key = c.key /\ s.tbs = tbs
  <2>1. [key |-> s.key, tbs |-> s.tbs] = [key |-> c.key, tbs |-> tbs]
    BY <1>1, <1>4
  <2> HIDE DEF tbs, c
  <2>2. [key |-> s.key, tbs |-> s.tbs].key = s.key /\ [key |-> c.key, tbs |-> tbs].key = c.key
    OBVIOUS
  <2>3. [key |-> s.key, tbs |-> s.tbs].tbs = s.tbs /\ [key |-> c.key, tbs |-> tbs].tbs = tbs
    OBVIOUS
  <2> QED BY <2>1, <2>2, <2>3
<1>10. Digest(s.options, s.doc) = Digest(w, now)
  BY <1>5, <1>8, <1>9 DEF IsSigned
<1>11. /\ [m \in Options |-> s.options[m]] = [m \in Options |-> w[m]]
       /\ Canonicalize(s.doc, Defined(s.doc.context)) = Canonicalize(now, Defined(now.context))
  <2> HIDE DEF w, now
  <2> QED BY <1>10 DEF Digest
<1>12. \A m \in Options : s.options[m] = w[m]
  <2> HIDE DEF w
  <2> QED BY <1>11
<1>13. \A m \in Options \ {"created"} : s.options[m] = c.proof.options[m]
  BY <1>8, <1>12
<1>14. c.proof.options.created \in {Nil, s.options.created}
  <2>1. "created" \in Options
    BY DEF Options
  <2> QED
    BY <1>8, <1>12, <2>1
<1>15. IsDocument(s.doc) /\ DOMAIN s.doc.field = DOMAIN now.field
  BY <1>4, <1>5, <1>6 DEF IsSigned
<1> HIDE DEF now, c
<1>16. Matches(s.doc, now)
  BY <1>6, <1>11, <1>15, SameDigest DEF Matches
<1>17. WasSigned(signed, c, now)
  BY <1>9, <1>13, <1>14, <1>16 DEF WasSigned
<1> QED
  BY <1>17 DEF now, c

(* How a call goes on.                                                     *)
LEMMA OwnSteps ==
  ASSUME Shape, NEW p \in Procs, Works(p), call'[p].pc # "idle"
  PROVE  \/ SignDocument(p) /\ call'[p].pc = "attach"
         \/ VerifyClear(p) /\ call'[p].pc = "verify"
         \/ VerifyDocument(p) /\ call'[p].pc = (IF Verdict(p) THEN "accepted" ELSE "refused")
         \/ VerifyFails(p) /\ call'[p].pc = "failed"
<1>1. Active(p) /\ Step(p)
  BY DEF Works
<1>2. Idle.pc = "idle"
  BY DEF Idle
<1>3. ~SignFails(p) /\ ~SignAttach(p) /\ ~VerifyRestore(p) /\ ~Recovered(p)
  BY <1>2 DEF SignFails, SignAttach, VerifyRestore, Recovered, Shape
<1>4. /\ ~\E o \in Objects, s \in Signers : SignBegin(p, o, s)
      /\ ~\E o \in Objects, key \in Verifiers : VerifyBegin(p, o, key)
  BY <1>1 DEF SignBegin, VerifyBegin, Enter
<1>5. SignDocument(p) \/ VerifyClear(p) \/ VerifyDocument(p) \/ VerifyFails(p)
  BY <1>1, <1>3, <1>4 DEF Step
<1>6. ASSUME SignDocument(p) PROVE call'[p].pc = "attach"
  <2> DEFINE f == (Read(call[p].obj).proof = NoProof)
             x == [options |-> call[p].options,
                   jws |-> [key |-> call[p].key,
                            tbs |-> CreateVerifyHash(Read(call[p].obj), call[p].options, call[p].contexts)]]
  <2>1. call' = [call EXCEPT ![p].pc = "attach", ![p].first = f, ![p].proof = x]
    BY <1>6 DEF SignDocument
  <2> HIDE DEF f, x
  <2> QED
    BY <2>1 DEF Shape, CallMembers
<1>7. ASSUME VerifyClear(p) PROVE call'[p].pc = "verify"
  <2> DEFINE ctx == GetContextsFromProvable(call[p].obj)
  <2>1. call' = [call EXCEPT ![p].pc = "verify", ![p].contexts = ctx]
    BY <1>7 DEF VerifyClear
  <2> HIDE DEF ctx
  <2> QED
    BY <2>1 DEF Shape, CallMembers
<1>8. ASSUME VerifyDocument(p)
      PROVE  call'[p].pc = (IF Verdict(p) THEN "accepted" ELSE "refused")
  BY <1>8 DEF VerifyDocument, Shape, CallMembers
<1>9. ASSUME VerifyFails(p) PROVE call'[p].pc = "failed"
  BY <1>9 DEF VerifyFails, Shape, CallMembers
<1> QED
  BY <1>5, <1>6, <1>7, <1>8, <1>9

(* A call that was not there before is at its beginning.                   *)
LEMMA NewCalls ==
  ASSUME IInv, Objective, [Next]_vars, NEW p \in Procs, ~Active(p), call'[p].pc # "idle"
  PROVE  call'[p].pc \in {"sign", "got", "panic"} /\ \E o \in Objects : Enters(p, o)
<1> USE DEF IInv
<1>1. ASSUME NEW q \in Procs, NEW o \in Objects, Enters(q, o)
      PROVE  call'[p].pc \in {"sign", "got", "panic"} /\ q = p
  <2>1. PICK c : DOMAIN c = CallMembers /\ c.pc \in {"sign", "got", "panic"} /\ Enter(q, o, c)
    BY <1>1 DEF Enters
  <2>2. call'[q].pc = c.pc /\ \A r \in Procs \ {q} : call'[r].pc = call[r].pc
    BY <2>1, EnterBegins
  <2> QED
    BY <2>1, <2>2 DEF Active
<1>2. ASSUME NEW q \in Procs, Works(q) PROVE FALSE
  BY <1>2 DEF Works, Active
<1>3. ASSUME NEW o \in Objects, Touches(o) PROVE FALSE
  BY <1>3, DisturbedKeeps DEF Touches, Active
<1>4. ASSUME call' = call PROVE FALSE
  BY <1>4 DEF Active
<1> QED
  BY <1>1, <1>2, <1>3, <1>4, StepKinds

(* Nothing that was signed is forgotten.                                   *)
LEMMA SignedGrows ==
  ASSUME [Next]_vars
  PROVE  signed \subseteq signed'
<1>1. ASSUME NEW p \in Procs, SignDocument(p) PROVE signed \subseteq signed'
  BY <1>1 DEF SignDocument
<1>2. ASSUME NEW p \in Procs, Step(p), ~SignDocument(p) PROVE signed' = signed
  BY <1>2 DEF Step, SignBegin, SignFails, SignAttach, VerifyBegin, VerifyClear, VerifyDocument,
              VerifyFails, VerifyRestore, Recovered
<1>3. ASSUME NEW o \in Objects, UseSetter(o) \/ UseBuild(o) \/ AlterProof(o) PROVE signed' = signed
  BY <1>3 DEF UseSetter, UseBuild, AlterProof, Touch, suiteVars
<1>4. ASSUME UNCHANGED vars PROVE signed' = signed
  BY <1>4 DEF vars, suiteVars
<1> QED
  BY <1>1, <1>2, <1>3, <1>4 DEF Next

LEMMA AcceptedHolds ==
  ASSUME IInv, Objective, SignedInv, AloneInv, AcceptedWasSigned, [Next]_vars
  PROVE  AcceptedWasSigned'
<1> SUFFICES ASSUME NEW p \in Procs, call'[p].pc = "accepted", call'[p].alone
             PROVE  WasSigned(signed', call'[p], Read(call[p].obj)')
  BY DEF AcceptedWasSigned, WasSigned, Matches
<1> USE DEF IInv
<1>1. Active(p)
  BY NewCalls
<1>2. call[p].alone /\ (Works(p) \/ SameSight(p))
  BY <1>1, AloneSees
<1>3. call[p].obj \in Objects
  BY <1>1 DEF Active, Shape
<1>4. CASE Works(p)
  <2>1. VerifyDocument(p) /\ Verdict(p)
    BY <1>4, OwnSteps
  <2>2. call[p].pc = "verify"
    BY <2>1 DEF VerifyDocument
  <2>3. WasSigned(signed, call[p], Read(call[p].obj))
    BY <2>1, <2>2, VerdictIsBacked
  <2>4. /\ object' = object /\ signed' = signed
        /\ call'[p].obj = call[p].obj /\ call'[p].proof = call[p].proof /\ call'[p].key = call[p].key
    BY <2>1 DEF VerifyDocument, builderVars, Shape, CallMembers
  <2>5. Read(call[p].obj)' = Read(call[p].obj)
    BY <2>4 DEF Read
  <2>6. WasSigned(signed', call'[p], Read(call[p].obj))
    <3> DEFINE now == Read(call[p].obj)
    <3> HIDE DEF now
    <3>1. WasSigned(signed', call'[p], now)
      BY <2>3, <2>4 DEF WasSigned, now
    <3> QED
      BY <3>1 DEF now
  <2> QED
    BY <2>5, <2>6
<1>5. CASE SameSight(p)
  <2>1. call'[p] = call[p]
    BY <1>5 DEF SameSight
  <2>2. WasSigned(signed, call[p], Read(call[p].obj))
    BY <1>2, <2>1, AcceptedMeansSigned
  <2>3. Read(call[p].obj)' = Read(call[p].obj)
    BY <1>3, <1>5, SightDecides
  <2>4. signed \subseteq signed'
    BY SignedGrows
  <2>5. WasSigned(signed', call'[p], Read(call[p].obj))
    BY <2>1, <2>2, <2>4 DEF WasSigned
  <2> QED
    BY <2>3, <2>5
<1> QED
  BY <1>2, <1>4, <1>5

BackedInv == IInv /\ Objective /\ SignedInv /\ AloneInv /\ AcceptedWasSigned

LEMMA BackedHolds == Spec => []BackedInv
<1>1. Init => BackedInv
  <2> SUFFICES ASSUME Init PROVE AcceptedWasSigned
    BY InitHolds, InitObjective, InitSigned DEF BackedInv
  <2>1. \A p \in Procs : call[p].pc = "idle"
    BY DEF Init, Idle
  <2> QED
    BY <2>1 DEF AcceptedWasSigned
<1>2. BackedInv /\ [Next]_vars => BackedInv'
  BY StepHolds, ObjectiveHolds, SignedHolds, AloneHolds, AcceptedHolds DEF BackedInv
<1> QED
  BY <1>1, <1>2, PTL DEF Spec

(* Whatever the other goroutines do, when Verify accepts an object and     *)
(* nobody else worked on it or on a credential in it meanwhile, the        *)
(* verifier's key has signed what the object now says: the same claims and *)
(* types as far as contexts define them, the same embedded credentials     *)
(* with the same proofs, under a proof of the same purpose, verification   *)
(* method and challenge.                                                   *)
THEOREM AcceptedObjectsWereSigned == Spec => []AcceptedWasSigned
<1>1. BackedInv => AcceptedWasSigned
  BY DEF BackedInv
<1> QED
  BY BackedHolds, <1>1, PTL

(***************************************************************************)
(* Verify refuses for a reason.                                            *)
(***************************************************************************)
(* Documents with the same members have the same digest.                   *)
SameMembers(a, b) ==
  /\ a.context = b.context /\ a.type = b.type /\ a.field = b.field /\ a.proof = b.proof

LEMMA SameMembersSameDigest ==
  ASSUME NEW a, NEW b, NEW options, SameMembers(a, b), DOMAIN a.creds = DOMAIN b.creds,
         \A i \in DOMAIN a.creds : SameMembers(a.creds[i], b.creds[i])
  PROVE  Digest(options, a) = Digest(options, b)
<1> DEFINE N == Defined(a.context)
           C(d, i) == CanonicalizeNode(d.creds[i], N \cup Defined(d.creds[i].context))
<1>1. ASSUME NEW x, NEW y, NEW names, SameMembers(x, y)
      PROVE  CanonicalizeNode(x, names) = CanonicalizeNode(y, names)
  BY <1>1 DEF SameMembers, CanonicalizeNode
<1>2. a.context = b.context
  BY DEF SameMembers
<1>3. \A i \in DOMAIN a.creds : C(a, i) = C(b, i)
  <2> SUFFICES ASSUME NEW i \in DOMAIN a.creds PROVE C(a, i) = C(b, i)
    OBVIOUS
  <2>1. SameMembers(a.creds[i], b.creds[i])
    OBVIOUS
  <2>2. a.creds[i].context = b.creds[i].context
    BY <2>1 DEF SameMembers
  <2> QED
    BY <1>1, <2>1, <2>2
<1>4. Canonicalize(a, N) = [node |-> CanonicalizeNode(a, N), creds |-> [i \in DOMAIN a.creds |-> C(a, i)]]
  BY DEF Canonicalize
<1>5. Canonicalize(b, N) = [node |-> CanonicalizeNode(b, N), creds |-> [i \in DOMAIN b.creds |-> C(b, i)]]
  BY DEF Canonicalize
<1>6. [i \in DOMAIN a.creds |-> C(a, i)] = [i \in DOMAIN b.creds |-> C(b, i)]
  <2> HIDE DEF C
  <2> QED BY <1>3
<1>7. CanonicalizeNode(a, N) = CanonicalizeNode(b, N)
  BY <1>1
<1>8. Canonicalize(a, N) = Canonicalize(b, N)
  BY <1>4, <1>5, <1>6, <1>7
<1> QED
  BY <1>2, <1>8 DEF Digest

(* Object o with the proofs r, as it was when its first proof was made.    *)
Rested(o, r) ==
  [context |-> object[o].context, type |-> object[o].type, field |-> object[o].field,
   proof |-> NoProof,
   creds |-> [i \in DOMAIN object[o].creds |->
                [context |-> object[object[o].creds[i]].context,
                 type    |-> object[object[o].creds[i]].type,
                 field   |-> object[object[o].creds[i]].field,
                 proof   |-> r[object[o].creds[i]]]]]

PartOf(o, x) == x = o \/ Embeds(o, x)

(* The calls of Verify between GetProof and the deferred SetProof.         *)
HasTaken(c) == c.pc \in {"got", "verify", "accepted", "refused", "failed"}

(* The object and its credentials have the proofs r, as far as a call of   *)
(* Verify has not taken one out, and who takes one takes one of r.         *)
Settled(o, r) ==
  \A x \in Objects : PartOf(o, x) =>
    /\ \/ object[x].proof = r[x]
       \/ object[x].proof = NoProof /\ \E q \in Procs : call[q].obj = x /\ InWindow(q)
    /\ \A q \in Procs : call[q].obj = x /\ HasTaken(call[q]) => call[q].proof = r[x]

(* A proof whose options nobody altered, over doc.                         *)
Covers(proof, doc) ==
  /\ DOMAIN proof.options = Options /\ proof.options.created # Nil
  /\ proof.jws.tbs = Digest(proof.options, doc)

PristineInv ==
  \A o \in pristine : o \in Objects /\ \E r : Settled(o, r) /\ Covers(r[o], Rested(o, r))

(* What a call that is alone can rely on.                                  *)
FirstProofInv ==
  \A p \in Procs :
    call[p].alone =>
      /\ call[p].pc = "attach" /\ call[p].first =>
           object[call[p].obj].proof = NoProof /\ Covers(call[p].proof, Read(call[p].obj))
      /\ call[p].pc = "verify" => object[call[p].obj].proof = NoProof

LEMMA EmbeddedIsCredential ==
  ASSUME Objective, NEW o \in Objects
  PROVE  /\ DOMAIN object[o].creds = 1..Len(object[o].creds)
         /\ \A i \in DOMAIN object[o].creds :
              /\ object[o].creds[i] \in Objects /\ object[o].creds[i] # o
              /\ Embeds(o, object[o].creds[i])
         /\ ~Embeds(o, o)
<1>1. IsObject(o, object[o])
  BY DEF Objective
<1> DEFINE cs == object[o].creds
<1>2. cs \in Seq(Credentials) /\ (o \in Credentials => cs = <<>>)
  BY <1>1 DEF IsObject
<1> HIDE DEF cs
<1>3. /\ Len(cs) \in Nat /\ DOMAIN cs = 1..Len(cs)
      /\ \A i \in DOMAIN cs : cs[i] \in Credentials
  BY <1>2
<1>4. o \in Credentials => DOMAIN cs = {}
  BY <1>2
<1>5. \A i \in DOMAIN cs : cs[i] # o
  BY <1>3, <1>4
<1> QED
  BY <1>3, <1>5 DEF cs, Objects, Embeds, Contains

(* What a call reads when the proofs are where they belong.                *)
LEMMA ReadIsRested ==
  ASSUME Shape, Objective, NEW o \in Objects, NEW r, NEW options,
         object[o].proof = NoProof,
         \A x \in Objects : Embeds(o, x) => object[x].proof = r[x]
  PROVE  Digest(options, Read(o)) = Digest(options, Rested(o, r))
<1> DEFINE cs == object[o].creds
           ds == [i \in DOMAIN cs |-> object[cs[i]]]
           rs == [i \in DOMAIN cs |->
                   [context |-> object[cs[i]].context, type |-> object[cs[i]].type,
                    field |-> object[cs[i]].field, proof |-> r[cs[i]]]]
<1>1. DOMAIN object[o] = {"context", "type", "creds", "proof", "field"}
  BY DEF Shape
<1>2. Read(o) = [object[o] EXCEPT !.creds = ds]
  BY <1>1 DEF Read
<1>3. /\ Read(o).context = object[o].context /\ Read(o).field = object[o].field
      /\ Read(o).type = object[o].type
      /\ Read(o).proof = object[o].proof /\ Read(o).creds = ds
  <2> HIDE DEF ds
  <2> QED BY <1>1, <1>2
<1>4. Rested(o, r) = [context |-> object[o].context, type |-> object[o].type,
                      field |-> object[o].field, proof |-> NoProof, creds |-> rs]
  BY DEF Rested
<1>5. /\ Rested(o, r).context = object[o].context /\ Rested(o, r).field = object[o].field
      /\ Rested(o, r).type = object[o].type
      /\ Rested(o, r).proof = NoProof /\ Rested(o, r).creds = rs
  <2> HIDE DEF rs
  <2> QED BY <1>4
<1>6. SameMembers(Read(o), Rested(o, r))
  BY <1>3, <1>5 DEF SameMembers
<1>7. DOMAIN ds = DOMAIN cs /\ DOMAIN rs = DOMAIN cs
  OBVIOUS
<1>8. \A i \in DOMAIN cs : SameMembers(ds[i], rs[i])
  <2> SUFFICES ASSUME NEW i \in DOMAIN cs PROVE SameMembers(ds[i], rs[i])
    OBVIOUS
  <2>1. cs[i] \in Objects /\ Embeds(o, cs[i])
    BY EmbeddedIsCredential
  <2>2. object[cs[i]].proof = r[cs[i]]
    BY <2>1
  <2>3. ds[i] = object[cs[i]]
    OBVIOUS
  <2>4. /\ rs[i].context = object[cs[i]].context /\ rs[i].type = object[cs[i]].type
        /\ rs[i].field = object[cs[i]].field /\ rs[i].proof = r[cs[i]]
    OBVIOUS
  <2> HIDE DEF ds, rs, cs
  <2> QED
    BY <2>2, <2>3, <2>4 DEF SameMembers
<1> HIDE DEF ds, rs, cs
<1> QED
  BY <1>3, <1>5, <1>6, <1>7, <1>8, SameMembersSameDigest

(* Taking proofs out and putting them back leaves the rest of an object.   *)
LEMMA RestedStays ==
  ASSUME Objective, NEW o \in Objects, NEW r,
         \A x \in Objects : PartOf(o, x) => SameContent(object'[x], object[x])
  PROVE  Rested(o, r)' = Rested(o, r) /\ \A x : PartOf(o, x)' <=> PartOf(o, x)
<1> DEFINE cs == object[o].creds
<1>1. SameContent(object'[o], object[o])
  BY DEF PartOf
<1>2. /\ object'[o].context = object[o].context /\ object'[o].type = object[o].type
      /\ object'[o].creds = cs /\ object'[o].field = object[o].field
  BY <1>1 DEF SameContent
<1>3. \A i \in DOMAIN cs : /\ object'[cs[i]].context = object[cs[i]].context
                           /\ object'[cs[i]].type = object[cs[i]].type
                           /\ object'[cs[i]].field = object[cs[i]].field
  BY EmbeddedIsCredential DEF PartOf, SameContent
<1>4. [i \in DOMAIN cs |->
         [context |-> object'[cs[i]].context, type |-> object'[cs[i]].type,
          field |-> object'[cs[i]].field, proof |-> r[cs[i]]]]
      = [i \in DOMAIN cs |->
         [context |-> object[cs[i]].context, type |-> object[cs[i]].type,
          field |-> object[cs[i]].field, proof |-> r[cs[i]]]]
  <2> HIDE DEF cs
  <2> QED BY <1>3
<1>5. Rested(o, r)' = Rested(o, r)
  BY <1>2, <1>4 DEF Rested
<1>6. \A x : PartOf(o, x)' <=> PartOf(o, x)
  BY <1>2 DEF PartOf, Embeds
<1> QED
  BY <1>5, <1>6

LEMMA FirstProofHolds ==
  ASSUME IInv, Objective, SignedInv, AloneInv, FirstProofInv, [Next]_vars
  PROVE  FirstProofInv'
<1> USE DEF IInv
<1> SUFFICES ASSUME NEW p \in Procs, call'[p].alone,
                    call'[p].pc \in {"attach", "verify"}
             PROVE  /\ call'[p].pc = "attach" /\ call'[p].first =>
                         object'[call'[p].obj].proof = NoProof /\ Covers(call'[p].proof, Read(call[p].obj)')
                    /\ call'[p].pc = "verify" => object'[call'[p].obj].proof = NoProof
  BY DEF FirstProofInv, Covers
<1>1. Active(p)
  BY NewCalls
<1>2. call[p].alone /\ call'[p].obj = call[p].obj /\ (Works(p) \/ SameSight(p))
  BY <1>1, AloneSees
<1>3. call[p].obj \in Objects
  BY <1>1 DEF Active, Shape
<1>4. CASE SameSight(p)
  <2>1. call'[p] = call[p] /\ object'[call[p].obj] = object[call[p].obj]
    BY <1>4 DEF SameSight
  <2>2. Read(call[p].obj)' = Read(call[p].obj)
    BY <1>3, <1>4, SightDecides
  <2>3. /\ call[p].pc = "attach" /\ call[p].first =>
             object[call[p].obj].proof = NoProof /\ Covers(call[p].proof, Read(call[p].obj))
        /\ call[p].pc = "verify" => object[call[p].obj].proof = NoProof
    BY <1>2 DEF FirstProofInv
  <2>4. call[p].pc = "attach" /\ call[p].first => Covers(call[p].proof, Read(call[p].obj)')
    BY <2>2, <2>3
  <2> QED
    BY <2>1, <2>3, <2>4
<1>5. CASE Works(p) /\ call'[p].pc = "verify"
  <2>1. VerifyClear(p)
    BY <1>5, OwnSteps
  <2>2. object' = [object EXCEPT ![call[p].obj].proof = NoProof]
    BY <2>1 DEF VerifyClear
  <2> QED
    BY <1>2, <1>3, <1>5, <2>2, SetProofKeepsContent, ZenonT(30)
<1>6. CASE Works(p) /\ call'[p].pc = "attach"
  <2>1. SignDocument(p)
    BY <1>6, OwnSteps
  <2> DEFINE doc == Read(call[p].obj)
             tbs == CreateVerifyHash(doc, call[p].options, call[p].contexts)
             x   == [options |-> call[p].options, jws |-> [key |-> call[p].key, tbs |-> tbs]]
             f   == (doc.proof = NoProof)
  <2>2. /\ call[p].pc = "sign" /\ object' = object
        /\ call' = [call EXCEPT ![p].pc = "attach", ![p].first = f, ![p].proof = x]
    BY <2>1 DEF SignDocument, builderVars
  <2>3. call'[p].first = f /\ call'[p].proof = x
    <3> HIDE DEF f, x
    <3> QED BY <2>2 DEF Shape, CallMembers
  <2>4. f => object[call[p].obj].proof = NoProof
    BY <1>3, ReadIsDocument
  <2>5. DOMAIN call[p].options = Options /\ call[p].options.created # Nil /\ IsSequence(call[p].contexts)
    BY <2>2 DEF SignedInv, CallFacts
  <2>6. tbs = Digest(call[p].options, doc)
    <3> HIDE DEF doc
    <3> QED BY <2>5, HashOf
  <2>7. x.options = call[p].options /\ x.jws.tbs = tbs
    <3> HIDE DEF tbs
    <3> QED OBVIOUS
  <2>8. Covers(x, doc)
    <3> HIDE DEF x, tbs, doc
    <3> QED BY <2>5, <2>6, <2>7 DEF Covers
  <2>9. Read(call[p].obj)' = doc
    BY <1>2, <2>2 DEF Read
  <2>10. Covers(call'[p].proof, Read(call[p].obj)')
    <3> HIDE DEF doc, x
    <3> QED BY <2>3, <2>8, <2>9
  <2> HIDE DEF f
  <2> QED
    BY <1>2, <1>6, <2>2, <2>3, <2>4, <2>10
<1> QED
  BY <1>2, <1>4, <1>5, <1>6

(* An object is pristine after a step if it was before, or if the step     *)
(* gave it its first proof.                                                *)
LEMMA PristineSteps ==
  ASSUME IInv, [Next]_vars, NEW o \in pristine'
  PROVE  \/ o \in pristine
         \/ \E p \in Procs : /\ SignAttach(p) /\ call[p].obj = o
                             /\ call[p].alone /\ call[p].first
<1>1. ASSUME NEW p \in Procs, SignAttach(p), o \notin pristine
      PROVE  call[p].obj = o /\ call[p].alone /\ call[p].first
  BY <1>1 DEF SignAttach
<1>2. ASSUME NEW p \in Procs, Step(p), ~SignAttach(p) PROVE pristine' = pristine
  BY <1>2 DEF Step, SignBegin, SignDocument, SignFails, VerifyBegin, VerifyClear, VerifyDocument,
              VerifyFails, VerifyRestore, Recovered
<1>3. ASSUME NEW x \in Objects, UseSetter(x) \/ UseBuild(x) \/ AlterProof(x)
      PROVE  pristine' \subseteq pristine
  BY <1>3 DEF UseSetter, UseBuild, AlterProof, Touch, suiteVars
<1>4. ASSUME UNCHANGED vars PROVE pristine' = pristine
  BY <1>4 DEF vars, suiteVars
<1> QED
  BY <1>1, <1>2, <1>3, <1>4 DEF Next

(* The first proof of an object.                                           *)
LEMMA FirstProofSettles ==
  ASSUME IInv, Objective, AloneInv, FirstProofInv,
         NEW p \in Procs, SignAttach(p), call[p].alone, call[p].first,
         NEW o, o = call[p].obj, NEW r, r = [x \in Objects |-> object'[x].proof]
  PROVE  o \in Objects /\ Settled(o, r)' /\ Covers(r[o], Rested(o, r)')
<1> USE DEF IInv
<1>1. /\ call[p].pc = "attach"
      /\ object' = [object EXCEPT ![o].proof = call[p].proof]
      /\ call' = [call EXCEPT ![p] = Idle]
  BY DEF SignAttach
<1>2. o \in Objects
  BY <1>1 DEF Shape
<1>3. /\ object'[o].proof = call[p].proof /\ SameContent(object'[o], object[o])
      /\ \A y \in Objects \ {o} : object'[y] = object[y]
  BY <1>1, <1>2, SetProofKeepsContent, ZenonT(30)
<1>4. object[o].proof = NoProof /\ Covers(call[p].proof, Read(o))
  BY <1>1 DEF FirstProofInv
<1>5. \A x \in Objects : PartOf(o, x)' <=> PartOf(o, x)
  BY <1>3 DEF PartOf, Embeds, SameContent
<1>6. Settled(o, r)'
  <2>1. /\ call'[p].pc = "idle" /\ \A q \in Procs \ {p} : call'[q] = call[q]
    BY <1>1 DEF Shape, Idle
  <2>2. ASSUME NEW x \in Objects, PartOf(o, x), NEW q \in Procs, call'[q].obj = x, HasTaken(call'[q])
        PROVE  FALSE
    <3>1. q # p /\ call'[q] = call[q]
      BY <2>1, <2>2 DEF HasTaken
    <3>2. Active(q) /\ Active(p) /\ call[q].obj = x
      BY <1>1, <2>2, <3>1 DEF HasTaken, Active
    <3> QED
      BY <2>2, <3>1, <3>2 DEF AloneInv, PartOf
  <2>3. \A x \in Objects : object'[x].proof = r[x]
    OBVIOUS
  <2> QED
    BY <1>5, <2>2, <2>3 DEF Settled
<1>7. Digest(call[p].proof.options, Read(o)) = Digest(call[p].proof.options, Rested(o, r))
  <2>1. \A x \in Objects : Embeds(o, x) => object[x].proof = r[x]
    BY <1>2, <1>3, EmbeddedIsCredential
  <2> QED
    BY <1>2, <1>4, <2>1, ReadIsRested
<1>8. Rested(o, r)' = Rested(o, r)
  <2>1. \A x \in Objects : SameContent(object'[x], object[x])
    BY <1>3 DEF SameContent
  <2> DEFINE cs == object[o].creds
  <2>2. /\ object'[o].context = object[o].context /\ object'[o].type = object[o].type
        /\ object'[o].creds = cs /\ object'[o].field = object[o].field
    BY <1>3 DEF SameContent
  <2>3. \A i \in DOMAIN cs : /\ object'[cs[i]].context = object[cs[i]].context
                             /\ object'[cs[i]].type = object[cs[i]].type
                             /\ object'[cs[i]].field = object[cs[i]].field
    BY <1>2, <2>1, EmbeddedIsCredential DEF SameContent
  <2>4. [i \in DOMAIN cs |->
           [context |-> object'[cs[i]].context, type |-> object'[cs[i]].type,
            field |-> object'[cs[i]].field, proof |-> r[cs[i]]]]
        = [i \in DOMAIN cs |->
           [context |-> object[cs[i]].context, type |-> object[cs[i]].type,
            field |-> object[cs[i]].field, proof |-> r[cs[i]]]]
    <3> HIDE DEF cs
    <3> QED BY <2>3
  <2> QED
    BY <2>2, <2>4 DEF Rested
<1>9. r[o] = call[p].proof
  BY <1>2, <1>3
<1>10. Covers(r[o], Rested(o, r)')
  <2> QED
    BY <1>4, <1>7, <1>8, <1>9 DEF Covers
<1> QED
  BY <1>2, <1>6, <1>10

(* The clause of Settled on one part of the object.                        *)
SettledAt(x, s) ==
  /\ \/ object[x].proof = s
     \/ object[x].proof = NoProof /\ \E q \in Procs : call[q].obj = x /\ InWindow(q)
  /\ \A q \in Procs : call[q].obj = x /\ HasTaken(call[q]) => call[q].proof = s

(* Nothing that anyone may do keeps a pristine object pristine and         *)
(* disturbs its proofs: calls of Verify put back what they took.           *)
LEMMA PartStays ==
  ASSUME IInv, Objective, [Next]_vars, NEW o \in Objects, o \in pristine, o \in pristine',
         \A p \in Procs : SignAttach(p) => call[p].obj # o,
         NEW x \in Objects, PartOf(o, x), NEW s, SettledAt(x, s)
  PROVE  SettledAt(x, s)' /\ SameContent(object'[x], object[x])
<1> USE DEF IInv
<1>0. SameContent(object[x], object[x])
  BY DEF SameContent
<1>1. ASSUME NEW p \in Procs, NEW y \in Objects, Enters(p, y)
      PROVE  SettledAt(x, s)' /\ SameContent(object'[x], object[x])
  <2>1. object' = object /\ ~Active(p) /\ Step(p)
    BY <1>1 DEF Enters
  <2>2. PICK c : DOMAIN c = CallMembers /\ Enter(p, y, c)
    BY <1>1 DEF Enters
  <2>3. \A q \in Procs \ {p} : /\ call'[q].pc = call[q].pc /\ call'[q].obj = call[q].obj
                               /\ call'[q].proof = call[q].proof
    BY <2>2, EnterBegins
  <2>4. call'[p].obj = x /\ HasTaken(call'[p]) => call'[p].proof = s
    <3> SUFFICES ASSUME call'[p].obj = x, HasTaken(call'[p]) PROVE call'[p].proof = s
      OBVIOUS
    <3>1. ~\E z \in Objects, w \in Signers : SignBegin(p, z, w)
      <4> SUFFICES ASSUME NEW z \in Objects, NEW w \in Signers, SignBegin(p, z, w) PROVE FALSE
        OBVIOUS
      <4> DEFINE d == [Idle EXCEPT
           !.pc = "sign", !.key = w.key, !.contexts = GetContextsFromProvable(z),
           !.options = [purpose |-> w.purpose, verificationMethod |-> w.key, created |-> signs + 1,
                        challenge |-> IF w.purpose = "authentication" THEN signs ELSE Nil]]
      <4>1. DOMAIN d = CallMembers /\ d.pc = "sign"
        BY DEF Idle, CallMembers
      <4>2. Enter(p, z, d)
        BY DEF SignBegin
      <4> HIDE DEF d
      <4>3. call'[p].pc = "sign"
        BY <4>1, <4>2, EnterBegins
      <4> QED
        BY <4>3 DEF HasTaken
    <3>2. ~SignDocument(p) /\ ~SignFails(p) /\ ~SignAttach(p) /\ ~VerifyClear(p) /\ ~VerifyDocument(p)
          /\ ~VerifyFails(p) /\ ~VerifyRestore(p) /\ ~Recovered(p)
      BY <2>1 DEF Active, SignDocument, SignFails, SignAttach, VerifyClear, VerifyDocument,
                  VerifyFails, VerifyRestore, Recovered
    <3>3. PICK z \in Objects, key \in Verifiers : VerifyBegin(p, z, key)
      BY <2>1, <3>1, <3>2 DEF Step
    <3> DEFINE d == [Idle EXCEPT !.key = key, !.proof = object[z].proof,
                                 !.pc = IF object[z].proof = NoProof THEN "panic" ELSE "got"]
    <3>4. /\ DOMAIN d = CallMembers /\ d.proof = object[z].proof
          /\ d.pc = IF object[z].proof = NoProof THEN "panic" ELSE "got"
      BY DEF Idle, CallMembers
    <3>5. Enter(p, z, d)
      BY <3>3 DEF VerifyBegin
    <3> HIDE DEF d
    <3>6. call'[p].obj = z /\ call'[p].proof = object[z].proof /\ call'[p].pc = d.pc
      BY <3>4, <3>5, EnterBegins
    <3>7. object[x].proof # NoProof /\ z = x
      BY <3>4, <3>6 DEF HasTaken
    <3> QED
      BY <3>6, <3>7 DEF SettledAt
  <2>5. \A q \in Procs : InWindow(q) => InWindow(q)' /\ call'[q].obj = call[q].obj
    BY <2>1, <2>3 DEF InWindow, Active
  <2>6. SettledAt(x, s)'
    BY <2>1, <2>3, <2>4, <2>5 DEF SettledAt, HasTaken
  <2> QED
    BY <1>0, <2>1, <2>6
<1>2. ASSUME NEW p \in Procs, Works(p)
      PROVE  SettledAt(x, s)' /\ SameContent(object'[x], object[x])
  <2>0. SameContent(object'[x], object[x])
    BY <1>0, <1>2 DEF Works
  <2>1. \A q \in Procs \ {p} : call'[q] = call[q]
    BY <1>2 DEF Works
  <2>2. Active(p) /\ call[p].obj \in Objects
    BY <1>2 DEF Works, Active, Shape
  <2>3. CASE call'[p].pc # "idle"
    <3>0. call'[p].obj = call[p].obj
      BY <1>2, <2>3 DEF Works
    <3>1. CASE SignDocument(p)
      <4>1. call[p].pc = "sign" /\ object' = object /\ call'[p].pc = "attach"
        BY <1>2, <2>3, <3>1, OwnSteps DEF SignDocument, VerifyClear, VerifyDocument, VerifyFails, builderVars
      <4>2. SettledAt(x, s)'
        BY <2>1, <4>1 DEF SettledAt, HasTaken, InWindow
      <4> QED
        BY <2>0, <4>2
    <3>2. CASE VerifyClear(p)
      <4> DEFINE ctx == GetContextsFromProvable(call[p].obj)
      <4>1. /\ call[p].pc = "got"
            /\ object' = [object EXCEPT ![call[p].obj].proof = NoProof]
            /\ call' = [call EXCEPT ![p].pc = "verify", ![p].contexts = ctx]
        BY <3>2 DEF VerifyClear
      <4> HIDE DEF ctx
      <4>2. call'[p].pc = "verify" /\ call'[p].proof = call[p].proof /\ call'[p].obj = call[p].obj
        BY <4>1 DEF Shape, CallMembers
      <4>3. /\ object'[call[p].obj].proof = NoProof
            /\ \A y \in Objects \ {call[p].obj} : object'[y] = object[y]
        BY <2>2, <4>1, SetProofKeepsContent
      <4>4. InWindow(p)' /\ HasTaken(call[p])
        BY <4>1, <4>2 DEF InWindow, HasTaken
      <4>5. \A q \in Procs : InWindow(q) => InWindow(q)' /\ call'[q].obj = call[q].obj
        BY <2>1, <4>2, <4>4 DEF InWindow
      <4>6. SettledAt(x, s)'
        <5>1. CASE x = call[p].obj
          BY <2>1, <4>2, <4>3, <4>4, <5>1 DEF SettledAt
        <5>2. CASE x # call[p].obj
          BY <2>1, <4>2, <4>3, <4>5, <5>2 DEF SettledAt
        <5> QED
          BY <5>1, <5>2
      <4> QED
        BY <2>0, <4>6
    <3>3. CASE VerifyDocument(p) \/ VerifyFails(p)
      <4>1. PICK pc \in {"accepted", "refused", "failed"} : call' = [call EXCEPT ![p].pc = pc]
        BY <3>3 DEF VerifyDocument, VerifyFails
      <4>2. call[p].pc = "verify" /\ object' = object
        BY <3>3 DEF VerifyDocument, VerifyFails, builderVars
      <4>3. call'[p].pc = pc /\ call'[p].proof = call[p].proof /\ call'[p].obj = call[p].obj
        BY <4>1 DEF Shape, CallMembers
      <4>4. \A q \in Procs : InWindow(q) => InWindow(q)' /\ call'[q].obj = call[q].obj
        BY <2>1, <4>3 DEF InWindow
      <4>5. HasTaken(call[p])
        BY <4>2 DEF HasTaken
      <4>6. SettledAt(x, s)'
        BY <2>1, <4>2, <4>3, <4>4, <4>5 DEF SettledAt
      <4> QED
        BY <2>0, <4>6
    <3> QED
      BY <1>2, <2>3, <3>1, <3>2, <3>3, OwnSteps
  <2>4. CASE call'[p].pc = "idle"
    <3>1. CASE VerifyRestore(p)
      <4>1. /\ call[p].pc \in {"accepted", "refused", "failed"}
            /\ object' = [object EXCEPT ![call[p].obj].proof = call[p].proof]
        BY <3>1 DEF VerifyRestore
      <4>2. /\ object'[call[p].obj].proof = call[p].proof
            /\ \A y \in Objects \ {call[p].obj} : object'[y] = object[y]
        BY <2>2, <4>1, SetProofKeepsContent
      <4>3. HasTaken(call[p]) /\ ~HasTaken(call'[p])
        BY <2>4, <4>1 DEF HasTaken
      <4>4. SettledAt(x, s)'
        <5>1. CASE x = call[p].obj
          BY <2>1, <4>2, <4>3, <5>1 DEF SettledAt
        <5>2. CASE x # call[p].obj
          BY <2>1, <4>2, <4>3, <5>2 DEF SettledAt, InWindow
        <5> QED
          BY <5>1, <5>2
      <4> QED
        BY <2>0, <4>4
    <3>2. CASE SignAttach(p)
      <4>1. /\ call[p].pc = "attach"
            /\ object' = [object EXCEPT ![call[p].obj].proof = call[p].proof]
            /\ call[p].obj # o /\ o \notin Holders(call[p].obj)
        BY <3>2 DEF SignAttach
      <4>2. x # call[p].obj
        BY <4>1 DEF Holders, PartOf
      <4>3. object'[x] = object[x]
        BY <2>2, <4>1, <4>2, SetProofKeepsContent
      <4>4. SettledAt(x, s)'
        BY <2>1, <2>4, <4>1, <4>3 DEF SettledAt, InWindow, HasTaken
      <4> QED
        BY <2>0, <4>4
    <3>3. CASE SignFails(p) \/ Recovered(p)
      <4>1. call[p].pc \in {"sign", "panic"} /\ object' = object
        BY <3>3 DEF SignFails, Recovered, builderVars
      <4>2. SettledAt(x, s)'
        BY <2>1, <2>4, <4>1 DEF SettledAt, InWindow, HasTaken
      <4> QED
        BY <2>0, <4>2
    <3>4. ~SignDocument(p) /\ ~VerifyClear(p) /\ ~VerifyDocument(p) /\ ~VerifyFails(p)
      <4>1. ASSUME SignDocument(p) PROVE FALSE
        <5> DEFINE f == (Read(call[p].obj).proof = NoProof)
                   w == [options |-> call[p].options,
                         jws |-> [key |-> call[p].key,
                                  tbs |-> CreateVerifyHash(Read(call[p].obj), call[p].options, call[p].contexts)]]
        <5>1. call' = [call EXCEPT ![p].pc = "attach", ![p].first = f, ![p].proof = w]
          BY <4>1 DEF SignDocument
        <5> HIDE DEF f, w
        <5> QED
          BY <2>4, <5>1 DEF Shape, CallMembers
      <4>2. ASSUME VerifyClear(p) PROVE FALSE
        <5> DEFINE ctx == GetContextsFromProvable(call[p].obj)
        <5>1. call' = [call EXCEPT ![p].pc = "verify", ![p].contexts = ctx]
          BY <4>2 DEF VerifyClear
        <5> HIDE DEF ctx
        <5> QED
          BY <2>4, <5>1 DEF Shape, CallMembers
      <4>3. ASSUME VerifyDocument(p) \/ VerifyFails(p) PROVE FALSE
        <5>1. PICK pc \in {"accepted", "refused", "failed"} : call' = [call EXCEPT ![p].pc = pc]
          BY <4>3 DEF VerifyDocument, VerifyFails
        <5> QED
          BY <2>4, <5>1 DEF Shape, CallMembers
      <4> QED
        BY <4>1, <4>2, <4>3
    <3>5. /\ ~\E z \in Objects, w \in Signers : SignBegin(p, z, w)
          /\ ~\E z \in Objects, key \in Verifiers : VerifyBegin(p, z, key)
      BY <2>2 DEF SignBegin, VerifyBegin, Enter
    <3> QED
      BY <1>2, <3>1, <3>2, <3>3, <3>4, <3>5 DEF Works, Step
  <2> QED
    BY <2>3, <2>4
<1>3. ASSUME NEW y \in Objects, UseSetter(y) \/ AlterProof(y)
      PROVE  SettledAt(x, s)' /\ SameContent(object'[x], object[x])
  <2>1. call' = Disturbed(y) /\ o \notin Holders(y)
    BY <1>3 DEF UseSetter, AlterProof, Touch
  <2>2. x # y
    BY <2>1 DEF Holders, PartOf
  <2>3. object'[x] = object[x]
    <3>1. CASE UseSetter(y)
      BY <2>2, <3>1, ChangeKeepsObjects DEF UseSetter
    <3>2. CASE AlterProof(y)
      <4>1. PICK w : object' = [object EXCEPT ![y].proof.options = w]
        BY <3>2 DEF AlterProof
      <4> QED
        BY <2>2, <4>1 DEF Shape
    <3> QED
      BY <1>3, <3>1, <3>2
  <2>4. \A q \in Procs : /\ call'[q].pc = call[q].pc /\ call'[q].obj = call[q].obj
                         /\ call'[q].proof = call[q].proof
    BY <2>1, DisturbedKeeps
  <2>5. SettledAt(x, s)'
    BY <2>3, <2>4 DEF SettledAt, InWindow, HasTaken
  <2> QED
    BY <1>0, <2>3, <2>5
<1>4. ASSUME call' = call, object' = object
      PROVE  SettledAt(x, s)' /\ SameContent(object'[x], object[x])
  BY <1>0, <1>4 DEF SettledAt, InWindow
<1>5. ASSUME NEW p \in Procs, Step(p)
      PROVE  (\E y \in Objects : Enters(p, y)) \/ Works(p)
  BY <1>5, StepIsOwn
<1>6. ASSUME (\E y \in Objects : UseBuild(y)) \/ UNCHANGED vars
      PROVE  call' = call /\ object' = object
  BY <1>6 DEF UseBuild, Build, suiteVars, vars, builderVars
<1> QED
  BY <1>1, <1>2, <1>3, <1>4, <1>5, <1>6 DEF Next

LEMMA PristineHolds ==
  ASSUME IInv, Objective, AloneInv, FirstProofInv, PristineInv, [Next]_vars
  PROVE  PristineInv'
<1> USE DEF IInv
<1> SUFFICES ASSUME NEW o \in pristine'
             PROVE  o \in Objects /\ \E r : Settled(o, r)' /\ Covers(r[o], Rested(o, r)')
  BY DEF PristineInv, Covers
<1>1. ASSUME NEW p \in Procs, SignAttach(p), call[p].obj = o, call[p].alone, call[p].first
      PROVE  o \in Objects /\ \E r : Settled(o, r)' /\ Covers(r[o], Rested(o, r)')
  <2>1. PICK r : r = [x \in Objects |-> object'[x].proof]
    OBVIOUS
  <2> QED
    BY <1>1, <2>1, FirstProofSettles
<1>2. ASSUME ~\E p \in Procs : SignAttach(p) /\ call[p].obj = o /\ call[p].alone /\ call[p].first
      PROVE  o \in Objects /\ \E r : Settled(o, r)' /\ Covers(r[o], Rested(o, r)')
  <2>1. o \in pristine
    BY <1>2, PristineSteps
  <2>2. o \in Objects /\ \E r : Settled(o, r) /\ Covers(r[o], Rested(o, r))
    BY <2>1 DEF PristineInv
  <2>3. PICK r : Settled(o, r) /\ Covers(r[o], Rested(o, r))
    BY <2>2
  <2>4. ASSUME NEW p \in Procs, SignAttach(p), call[p].obj = o
        PROVE  FALSE
    <3>1. o \in Holders(o)
      BY <2>2 DEF Holders
    <3>2. pristine' = (pristine \ Holders(o)) \cup (IF call[p].alone /\ call[p].first THEN {o} ELSE {})
      BY <2>4 DEF SignAttach
    <3> QED
      BY <1>2, <2>4, <3>1, <3>2
  <2>5. \A x \in Objects : PartOf(o, x) => SettledAt(x, r[x])
    BY <2>3 DEF Settled, SettledAt
  <2>6. \A x \in Objects : PartOf(o, x) => SettledAt(x, r[x])' /\ SameContent(object'[x], object[x])
    BY <2>1, <2>2, <2>4, <2>5, PartStays
  <2>7. Rested(o, r)' = Rested(o, r) /\ \A x : PartOf(o, x)' <=> PartOf(o, x)
    BY <2>2, <2>6, RestedStays
  <2>8. Settled(o, r)'
    BY <2>6, <2>7 DEF Settled, SettledAt
  <2>9. Covers(r[o], Rested(o, r)')
    BY <2>3, <2>7
  <2> QED
    BY <2>2, <2>8, <2>9
<1> QED
  BY <1>1, <1>2

(* An untouched object is accepted by the key that signed it.              *)
LEMMA PristineIsAccepted ==
  ASSUME IInv, Objective, SignedInv, AloneInv, FirstProofInv, PristineInv,
         NEW p \in Procs, call[p].pc = "verify", call[p].alone, call[p].obj \in pristine,
         call[p].key = call[p].proof.jws.key
  PROVE  Verdict(p)
<1> USE DEF IInv
<1> DEFINE c == call[p]
           o == call[p].obj
<1>1. o \in Objects /\ \E r : Settled(o, r) /\ Covers(r[o], Rested(o, r))
  BY DEF PristineInv
<1>2. PICK r : Settled(o, r) /\ Covers(r[o], Rested(o, r))
  BY <1>1
<1>3. HasTaken(c) /\ Active(p) /\ InWindow(p)
  BY DEF HasTaken, Active, InWindow
<1>4. c.proof = r[o]
  BY <1>1, <1>2, <1>3 DEF Settled, PartOf
<1>5. object[o].proof = NoProof
  BY DEF FirstProofInv
<1>6. ASSUME NEW x \in Objects, Embeds(o, x)
      PROVE  object[x].proof = r[x]
  <2>1. x # o
    BY <1>1, <1>6, EmbeddedIsCredential
  <2>2. ASSUME NEW q \in Procs, call[q].obj = x, InWindow(q)
        PROVE  FALSE
    <3>1. q # p /\ Active(q)
      BY <2>1, <2>2 DEF InWindow, Active
    <3> QED
      BY <1>3, <1>6, <2>2, <3>1 DEF AloneInv
  <2> QED
    BY <1>2, <1>6, <2>2 DEF Settled, PartOf
<1>7. Digest(c.proof.options, Read(o)) = Digest(c.proof.options, Rested(o, r))
  <2> HIDE DEF c, o
  <2> QED BY <1>1, <1>5, <1>6, ReadIsRested
<1>8. c.proof.jws.tbs = Digest(c.proof.options, Read(o))
  BY <1>2, <1>4, <1>7 DEF Covers
<1>9. DOMAIN c.proof.options = Options /\ c.proof.options.created # Nil
  BY <1>2, <1>4 DEF Covers
<1>10. IsSequence(c.contexts) /\ Backed(signed, c.proof, o)
  BY DEF SignedInv, CallFacts
<1>11. CreateVerifyHash(Read(o), c.proof.options, c.contexts) = Digest(c.proof.options, Read(o))
  <2> HIDE DEF c, o
  <2> QED BY <1>9, <1>10, HashOf
<1>12. PICK s \in signed : c.proof.jws = [key |-> s.key, tbs |-> s.tbs]
  BY <1>10 DEF Backed
<1>13. c.proof.jws = [key |-> c.proof.jws.key, tbs |-> c.proof.jws.tbs]
  <2> HIDE DEF c
  <2> QED BY <1>12
<1>14. c.proof.jws = [key |-> c.key, tbs |-> CreateVerifyHash(Read(o), c.proof.options, c.contexts)]
  BY <1>8, <1>11, <1>13
<1> QED
  BY <1>14 DEF Verdict

(* Nobody else attaches a proof to the object of a call that is alone.     *)
LEMMA AloneKeepsHistory ==
  ASSUME IInv, Objective, AloneInv, [Next]_vars, NEW p \in Procs, Active(p), call[p].alone, ~SignAttach(p)
  PROVE  /\ call[p].obj \in attached' => call[p].obj \in attached
         /\ call[p].obj \in pristine' => call[p].obj \in pristine
<1> USE DEF IInv
<1>1. ASSUME NEW q \in Procs, SignAttach(q), call[q].obj = call[p].obj
      PROVE  FALSE
  <2>1. Active(q) /\ q # p
    BY <1>1 DEF SignAttach, Active
  <2> QED
    BY <1>1, <2>1 DEF AloneInv
<1>2. call[p].obj \in pristine' => call[p].obj \in pristine
  BY <1>1, PristineSteps
<1>3. ASSUME NEW q \in Procs, SignAttach(q) PROVE attached' = attached \cup {call[q].obj}
  BY <1>3 DEF SignAttach
<1>4. ASSUME NEW q \in Procs, Step(q), ~SignAttach(q) PROVE attached' = attached
  BY <1>4 DEF Step, SignBegin, SignDocument, SignFails, VerifyBegin, VerifyClear, VerifyDocument,
              VerifyFails, VerifyRestore, Recovered
<1>5. ASSUME NEW x \in Objects, UseSetter(x) \/ UseBuild(x) \/ AlterProof(x)
      PROVE  attached' = attached
  BY <1>5 DEF UseSetter, UseBuild, AlterProof, Touch, suiteVars
<1>6. ASSUME UNCHANGED vars PROVE attached' = attached
  BY <1>6 DEF vars, suiteVars
<1>7. call[p].obj \in attached' => call[p].obj \in attached
  BY <1>1, <1>3, <1>4, <1>5, <1>6 DEF Next
<1> QED
  BY <1>2, <1>7

LEMMA RefusalHolds ==
  ASSUME IInv, Objective, SignedInv, AloneInv, FirstProofInv, PristineInv, RefusalHasACause, [Next]_vars
  PROVE  RefusalHasACause'
<1> USE DEF IInv
<1>1. ASSUME NEW p \in Procs, call'[p].alone, call'[p].pc = "panic"
      PROVE  call'[p].obj \notin attached'
  <2>1. CASE ~Active(p)
    <3>1. PICK o \in Objects : Enters(p, o)
      BY <1>1, <2>1, NewCalls
    <3>2. Step(p) /\ object' = object
      BY <3>1 DEF Enters
    <3>3. ~SignDocument(p) /\ ~SignFails(p) /\ ~SignAttach(p) /\ ~VerifyClear(p) /\ ~VerifyDocument(p)
          /\ ~VerifyFails(p) /\ ~VerifyRestore(p) /\ ~Recovered(p)
      BY <2>1 DEF Active, SignDocument, SignFails, SignAttach, VerifyClear, VerifyDocument,
                  VerifyFails, VerifyRestore, Recovered
    <3>4. ~\E z \in Objects, w \in Signers : SignBegin(p, z, w)
      <4> SUFFICES ASSUME NEW z \in Objects, NEW w \in Signers, SignBegin(p, z, w) PROVE FALSE
        OBVIOUS
      <4> DEFINE d == [Idle EXCEPT
           !.pc = "sign", !.key = w.key, !.contexts = GetContextsFromProvable(z),
           !.options = [purpose |-> w.purpose, verificationMethod |-> w.key, created |-> signs + 1,
                        challenge |-> IF w.purpose = "authentication" THEN signs ELSE Nil]]
      <4>1. DOMAIN d = CallMembers /\ d.pc = "sign"
        BY DEF Idle, CallMembers
      <4>2. Enter(p, z, d)
        BY DEF SignBegin
      <4> HIDE DEF d
      <4>3. call'[p].pc = "sign"
        BY <4>1, <4>2, EnterBegins
      <4> QED
        BY <1>1, <4>3
    <3>5. PICK z \in Objects, key \in Verifiers : VerifyBegin(p, z, key)
      BY <3>2, <3>3, <3>4 DEF Step
    <3> DEFINE d == [Idle EXCEPT !.key = key, !.proof = object[z].proof,
                                 !.pc = IF object[z].proof = NoProof THEN "panic" ELSE "got"]
               e == [d EXCEPT !.obj = z, !.alone = ~Overlaps(p, z)]
    <3>6. call' = [Disturbed(z) EXCEPT ![p] = e] /\ attached' = attached
      BY <3>5 DEF VerifyBegin, Enter
    <3>7. /\ e.pc = IF object[z].proof = NoProof THEN "panic" ELSE "got"
          /\ e.obj = z /\ (e.alone <=> ~Overlaps(p, z))
      BY DEF Idle
    <3> HIDE DEF d, e
    <3>8. call'[p] = e
      BY <3>6, DisturbedKeeps
    <3>9. object[z].proof = NoProof /\ ~Overlaps(p, z) /\ call'[p].obj = z
      BY <1>1, <3>7, <3>8
    <3>10. ASSUME z \in attached PROVE FALSE
      <4>1. PICK q \in Procs : call[q].obj = z /\ InWindow(q)
        BY <3>9, <3>10 DEF SignedStaysSigned
      <4>2. Active(q) /\ q # p /\ z \in Related(z)
        BY <2>1, <4>1 DEF InWindow, Active, Related
      <4> QED
        BY <3>9, <4>1, <4>2 DEF Overlaps
    <3> QED
      BY <3>6, <3>9, <3>10
  <2>2. CASE Active(p)
    <3>1. call[p].alone /\ call'[p].obj = call[p].obj /\ (Works(p) \/ SameSight(p))
      BY <1>1, <2>2, AloneSees
    <3>2. ~Works(p)
      BY <1>1, OwnSteps
    <3>3. call'[p] = call[p]
      BY <3>1, <3>2 DEF SameSight
    <3>4. ~SignAttach(p)
      BY <1>1, <3>3 DEF SignAttach
    <3>5. call[p].obj \notin attached
      BY <1>1, <3>1, <3>3 DEF RefusalHasACause
    <3> QED
      BY <2>2, <3>1, <3>4, <3>5, AloneKeepsHistory
  <2> QED
    BY <2>1, <2>2
<1>2. ASSUME NEW p \in Procs, call'[p].alone, call'[p].pc = "refused", call'[p].obj \in pristine'
      PROVE  call'[p].key # call'[p].proof.jws.key
  <2>1. Active(p)
    BY <1>2, NewCalls
  <2>2. call[p].alone /\ call'[p].obj = call[p].obj /\ (Works(p) \/ SameSight(p))
    BY <1>2, <2>1, AloneSees
  <2>3. CASE Works(p)
    <3>1. VerifyDocument(p) /\ ~Verdict(p)
      BY <1>2, <2>3, OwnSteps
    <3>2. /\ call[p].pc = "verify" /\ pristine' = pristine
          /\ call'[p].key = call[p].key /\ call'[p].proof = call[p].proof
      BY <3>1 DEF VerifyDocument, Shape, CallMembers
    <3> QED
      BY <1>2, <2>2, <3>1, <3>2, PristineIsAccepted
  <2>4. CASE SameSight(p)
    <3>1. call'[p] = call[p]
      BY <2>4 DEF SameSight
    <3>2. ~SignAttach(p)
      BY <1>2, <3>1 DEF SignAttach
    <3>3. call[p].obj \in pristine
      BY <1>2, <2>1, <2>2, <3>2, AloneKeepsHistory
    <3> QED
      BY <1>2, <3>1, <3>3 DEF RefusalHasACause
  <2> QED
    BY <2>2, <2>3, <2>4
<1> QED
  BY <1>1, <1>2 DEF RefusalHasACause

CauseInv == BackedInv /\ FirstProofInv /\ PristineInv /\ RefusalHasACause

(* Verify, called on an object that nobody else works on meanwhile, panics *)
(* only if the object was never signed.  If the object carries its first   *)
(* proof and neither it nor a credential in it was set, altered or signed  *)
(* since, Verify refuses only a verifier with another key, however many    *)
(* calls of Verify took the proofs out and put them back in between.       *)
THEOREM RefusalsHaveACause == Spec => []RefusalHasACause
<1>1. Init => CauseInv
  <2> SUFFICES ASSUME Init PROVE FirstProofInv /\ PristineInv /\ RefusalHasACause /\ AcceptedWasSigned
    BY InitHolds, InitObjective, InitSigned DEF CauseInv, BackedInv
  <2>1. \A p \in Procs : call[p].pc = "idle"
    BY DEF Init, Idle
  <2> QED
    BY <2>1 DEF Init, FirstProofInv, PristineInv, RefusalHasACause, AcceptedWasSigned
<1>2. CauseInv /\ [Next]_vars => CauseInv'
  BY StepHolds, ObjectiveHolds, SignedHolds, AloneHolds, AcceptedHolds, FirstProofHolds,
     PristineHolds, RefusalHolds DEF CauseInv, BackedInv
<1>3. CauseInv => RefusalHasACause
  BY DEF CauseInv
<1> QED
  BY <1>1, <1>2, <1>3, PTL DEF Spec
=============================================================================
