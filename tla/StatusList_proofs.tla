------------------------- MODULE StatusList_proofs -------------------------
(***************************************************************************)
(* What a published status list says of a credential, proved for every set *)
(* of credentials, every sequence of inclusions and reinstatements, and    *)
(* every batch size.                                                       *)
(***************************************************************************)
EXTENDS StatusList, WellFoundedInduction, FiniteSetTheorems, FunctionTheorems, TLAPS

(***************************************************************************)
(* The largest of finitely many numbers, by the least-number principle.    *)
(***************************************************************************)
LEMMA LeastNatural ==
  ASSUME NEW T \in SUBSET Nat, NEW t \in T
  PROVE  \E x \in T : \A y \in T : x <= y
<1>1. PICK x \in T : \A y \in T : <<y, x>> \notin OpToRel(<, Nat)
  BY WFMin, NatLessThanWellFounded
<1>2. \A y \in T : ~(y < x)
  BY <1>1 DEF OpToRel
<1> QED
  BY <1>2

LEMMA LargestExists ==
  ASSUME NEW n \in Nat, NEW f, \A k \in 1..n : f[k] \in Int, NEW b \in Int
  PROVE  \E x \in {b} \cup {f[k] : k \in 1..n} :
           \A y \in {b} \cup {f[k] : k \in 1..n} : y <= x
<1> DEFINE Upto(m) == {b} \cup {f[k] : k \in 1..m}
           Has(m)  == \E x \in Upto(m) : \A y \in Upto(m) : y <= x
           Bad     == {m \in 0..n : ~Has(m)}
<1>1. Bad = {}
  <2> SUFFICES ASSUME NEW t \in Bad PROVE FALSE
    OBVIOUS
  <2>1. PICK m \in Bad : \A y \in Bad : m <= y
    <3>1. Bad \in SUBSET Nat
      OBVIOUS
    <3> HIDE DEF Bad
    <3> QED BY <3>1, LeastNatural
  <2>2. Upto(0) = {b}
    OBVIOUS
  <2>3. m # 0
    BY <2>2
  <2>4. m \in 1..n /\ m - 1 \in 0..n /\ Has(m - 1)
    <3>1. m \in 1..n /\ m - 1 \in 0..n
      BY <2>3
    <3>2. m - 1 \notin Bad
      <4> HIDE DEF Bad
      <4> QED BY <2>1, <3>1
    <3> HIDE DEF Has
    <3> QED BY <3>1, <3>2
  <2>5. PICK x \in Upto(m - 1) : \A y \in Upto(m - 1) : y <= x
    BY <2>4
  <2>6. Upto(m) = Upto(m - 1) \cup {f[m]}
    <3>1. 1..m = 1..(m - 1) \cup {m}
      BY <2>4
    <3> QED BY <3>1
  <2>7. x \in Int /\ f[m] \in Int /\ \A y \in Upto(m - 1) : y \in Int
    BY <2>4, <2>5
  <2> HIDE DEF Upto
  <2>8. Has(m)
    <3>1. CASE f[m] <= x
      BY <2>5, <2>6, <3>1
    <3>2. CASE x < f[m]
      <4>1. \A y \in Upto(m) : y <= f[m]
        BY <2>5, <2>6, <2>7, <3>2
      <4>2. f[m] \in Upto(m)
        BY <2>6
      <4> QED BY <4>1, <4>2
    <3> QED BY <2>7, <3>1, <3>2
  <2> QED BY <2>8
<1>2. n \in 0..n
  OBVIOUS
<1> QED
  BY <1>1, <1>2

(***************************************************************************)
(* The bit set of a batch that passed the checks.                          *)
(***************************************************************************)
Checked(purpose, creds) ==
  prepareCredentialsForStatusList(purpose, creds) /\ bitstringChecks(creds)

LEMMA CredType ==
  ASSUME NEW c \in Creds
  PROVE  /\ c.shape \in Shapes /\ c.purpose \in Purposes
         /\ c.index.value \in Int /\ c.index.form \in Forms
         /\ c.index = [value |-> c.index.value, form |-> c.index.form]
<1>1. c \in [id : Nat, shape : Shapes, purpose : Purposes, index : [value : Int, form : Forms]]
  BY StatusAssumption
<1>2. c.index \in [value : Int, form : Forms]
  BY <1>1
<1> QED
  BY <1>1, <1>2

LEMMA BitsWithinLength ==
  ASSUME NEW creds \in Seq(Creds)
  PROVE  \A n \in Indices(creds) : n < bitstring(creds).len
<1> DEFINE S == {16 * KB} \cup {i + 1 : i \in Indices(creds)}
           f == [k \in 1..Len(creds) |-> creds[k].index.value + 1]
<1>1. Len(creds) \in Nat /\ DOMAIN creds = 1..Len(creds)
      /\ \A k \in 1..Len(creds) : creds[k] \in Creds
  OBVIOUS
<1>2. ASSUME NEW k \in 1..Len(creds) PROVE creds[k].index.value \in Int /\ f[k] \in Int
  <2>1. creds[k].index.value \in Int
    BY <1>1, CredType
  <2> QED BY <2>1
<1>3. S = {16 * KB} \cup {f[k] : k \in 1..Len(creds)}
  BY <1>1 DEF Indices
<1>4. 16 * KB \in Int
  BY DEF KB
<1>5. \E x \in S : \A y \in S : y <= x
  <2> HIDE DEF f
  <2> QED BY <1>1, <1>2, <1>3, <1>4, LargestExists
<1>6. \A y \in S : y <= bitstring(creds).len
  BY <1>5 DEF bitstring
<1>7. bitstring(creds).len \in S
  BY <1>5 DEF bitstring
<1>8. \A n \in Indices(creds) : n \in Int
  BY <1>1, <1>2 DEF Indices
<1> QED
  BY <1>4, <1>6, <1>7, <1>8

(* What is published with a list, said of the credentials it came from.    *)
Published ==
  /\ IsFiniteSet(source) /\ source \subseteq Creds
  /\ \A c \in source : /\ c.purpose = list.purpose
                       /\ HasStatusEntry(c)
                       /\ c.index.value >= 0
  /\ \A c, d \in source : c.index.value = d.index.value => c = d
  /\ list.encoded.bits = {c.index.value : c \in source}
  /\ \A n \in list.encoded.bits : n < list.encoded.len

ListInv ==
  /\ batch \in Seq(Creds)
  /\ list # NoList => Published

LEMMA GeneratePublishes ==
  ASSUME batch \in Seq(Creds), NEW purpose \in Purposes, Checked(purpose, batch),
         list' = [purpose |-> purpose, encoded |-> bitstring(batch)],
         source' = {batch[k] : k \in DOMAIN batch}
  PROVE  Published'
<1>1. Len(batch) \in Nat /\ DOMAIN batch = 1..Len(batch)
      /\ \A k \in 1..Len(batch) : batch[k] \in Creds
  OBVIOUS
<1>2. IsFiniteSet(source') /\ source' \subseteq Creds
  <2>1. IsFiniteSet(1..Len(batch))
    BY <1>1, FS_Interval
  <2>2. batch \in Surjection(1..Len(batch), source')
    BY <1>1, Fun_IsSurj
  <2> QED
    BY <1>1, <2>1, <2>2, FS_Surjection
<1>3. \A c \in source' : \E k \in DOMAIN batch : c = batch[k]
  OBVIOUS
<1>4. \A c \in source' : /\ c.purpose = purpose /\ HasStatusEntry(c)
                         /\ c.index.value >= 0
  BY <1>3 DEF Checked, prepareCredentialsForStatusList, bitstringChecks
<1>5. \A c, d \in source' : c.index.value = d.index.value => c = d
  BY <1>3 DEF Checked, bitstringChecks
<1>6. list'.purpose = purpose /\ list'.encoded = bitstring(batch)
      /\ bitstring(batch).bits = Indices(batch)
  BY DEF bitstring
<1>7. Indices(batch) = {c.index.value : c \in source'}
  BY <1>3 DEF Indices
<1>8. \A n \in Indices(batch) : n < bitstring(batch).len
  BY BitsWithinLength
<1> QED
  BY <1>2, <1>4, <1>5, <1>6, <1>7, <1>8 DEF Published

LEMMA ListInit == Init => ListInv
BY DEF Init, ListInv

LEMMA ListStep == ListInv /\ [Next]_vars => ListInv'
<1> SUFFICES ASSUME ListInv, [Next]_vars PROVE ListInv'
  OBVIOUS
<1>1. batch \in Seq(Creds)
  BY DEF ListInv
<1>2. ASSUME UNCHANGED <<list, source>>, batch' \in Seq(Creds) PROVE ListInv'
  BY <1>2 DEF ListInv, Published
<1>3. ASSUME NEW c \in Creds, Include(c) PROVE ListInv'
  BY <1>1, <1>2, <1>3 DEF Include
<1>4. CASE Reinstate
  <2>1. Tail(batch) \in Seq(Creds)
    BY <1>1, <1>4 DEF Reinstate
  <2> QED BY <1>2, <1>4, <2>1 DEF Reinstate
<1>5. ASSUME NEW purpose \in Purposes, Generate(purpose) PROVE ListInv'
  <2>1. batch' \in Seq(Creds)
    BY <1>1, <1>5 DEF Generate
  <2>2. CASE Checked(purpose, batch)
    BY <1>1, <1>5, <2>1, <2>2, GeneratePublishes DEF Generate, Checked, ListInv
  <2>3. CASE ~Checked(purpose, batch)
    BY <1>2, <1>5, <2>1, <2>3 DEF Generate, Checked
  <2> QED BY <2>2, <2>3
<1>6. ASSUME NEW c \in Creds, Validate(c) PROVE ListInv'
  BY <1>1, <1>2, <1>6 DEF Validate
<1>7. CASE UNCHANGED vars
  BY <1>1, <1>2, <1>7 DEF vars
<1> QED
  BY <1>3, <1>4, <1>5, <1>6, <1>7 DEF Next

(* Every revoked credential has a bit of its own, within the length that   *)
(* is published: the bits are as many as the credentials.                  *)
THEOREM ListsHaveOneBitEach == Spec => []OneBitEach
<1>1. ListInv => OneBitEach
  <2> SUFFICES ASSUME Published
               PROVE  /\ Cardinality(list.encoded.bits) = Cardinality(source)
                      /\ \A n \in list.encoded.bits : n >= 0 /\ n < list.encoded.len
    BY DEF ListInv, OneBitEach
  <2> DEFINE bit == [c \in source |-> c.index.value]
  <2>1. bit \in Surjection(source, list.encoded.bits)
    BY DEF Surjection, Published
  <2>2. bit \in Injection(source, list.encoded.bits)
    <3>1. bit \in [source -> list.encoded.bits]
      BY DEF Published
    <3>2. \A c, d \in source : bit[c] = bit[d] => c = d
      BY DEF Published
    <3> HIDE DEF bit
    <3> QED BY <3>1, <3>2, Fun_IsInj
  <2>3. Cardinality(list.encoded.bits) = Cardinality(source)
    <3> HIDE DEF bit
    <3> QED BY <2>1, <2>2, FS_Surjection DEF Published
  <2>4. \A n \in list.encoded.bits : n >= 0 /\ n < list.encoded.len
    BY DEF Published
  <2> QED BY <2>3, <2>4
<1> QED
  BY <1>1, ListInit, ListStep, PTL DEF Spec

(* A credential is reported as contained only when one with its index and  *)
(* its purpose was among those the list was generated from.                *)
THEOREM ListsRevokeNoOther == Spec => []NoFalseRevocation
<1>1. ListInv => NoFalseRevocation
  <2> SUFFICES ASSUME Published, NEW c \in Creds,
                      ValidateCredentialInStatusList(c, list) = "contained"
               PROVE  \E s \in source : s.index.value = c.index.value /\ s.purpose = c.purpose
    BY DEF ListInv, NoFalseRevocation
  <2>1. c.purpose = list.purpose /\ c.index \in bitstringExpansion(list)
    BY DEF ValidateCredentialInStatusList
  <2>2. c.index.value \in list.encoded.bits
    BY <2>1 DEF bitstringExpansion, FormatUint
  <2> QED
    BY <2>1, <2>2 DEF Published
<1> QED
  BY <1>1, ListInit, ListStep, PTL DEF Spec

(* A credential the list was generated from is never answered as absent    *)
(* when its index is written the way validation writes it, and it is       *)
(* reported as contained when its status is the struct or decoded JSON,    *)
(* though generation reads every Go value and validation only those two.   *)
THEOREM ListsReportPlainIndices == Spec => []PlainIsReported
<1>1. ListInv => PlainIsReported
  <2> SUFFICES ASSUME Published, NEW c \in source, c.index.form = "plain"
               PROVE  IF c.shape \in {"entry", "map"}
                      THEN ValidateCredentialInStatusList(c, list) = "contained"
                      ELSE ValidateCredentialInStatusList(c, list) # "absent"
    BY DEF ListInv, PlainIsReported
  <2>1. /\ c \in Creds /\ c.purpose = list.purpose /\ HasStatusEntry(c)
        /\ c.index.value \in list.encoded.bits /\ c.index.value < list.encoded.len
    BY DEF Published
  <2>2. c.index = FormatUint(c.index.value)
    BY <2>1, CredType DEF FormatUint
  <2>3. c.index \in bitstringExpansion(list)
    BY <2>1, <2>2 DEF bitstringExpansion
  <2>4. c.shape \in {"entry", "map", "typed", "foreign"}
    BY <2>1 DEF HasStatusEntry
  <2> QED
    BY <2>1, <2>3, <2>4 DEF ValidateCredentialInStatusList
<1> QED
  BY <1>1, ListInit, ListStep, PTL DEF Spec
=============================================================================
