-------------------------- MODULE IonAnchor_proofs --------------------------
(***************************************************************************)
(* The owner of a did:ion DID is never locked out, no request is applied   *)
(* twice and none of Deactivate is applied at all, proved for every way of *)
(* using the DID values, every pattern of lost, delayed and repeated calls *)
(* of Anchor, and a node that does or does not check signatures. With each *)
(* value used once, operations are applied in the order they were made.    *)
(***************************************************************************)
EXTENDS IonAnchor, TLAPS

(***************************************************************************)
(* The handles, for every set of inputs, every growth policy of append()   *)
(* and every bound.                                                        *)
(***************************************************************************)
(* A window grows by one per call, so MaxHandles bounds it: every capacity *)
(* the proofs meet is one for which GrowCap is assumed to grow.            *)
WindowBound == \A i \in DOMAIN dids : dids[i].len <= Len(dids)

LEMMA CommitType ==
  ASSUME NEW key \in Key
  PROVE  Commit(key).reveal \in Hash /\ Commit(key).commitment \in Hash
BY DEF Commit, Hash, Key

LEMMA NilRequestType == NilRequest \in Request
BY DEF NilRequest, Request, Types, Key, Body, NoHash, Hash, NoKey

LEMMA CreateType ==
  ASSUME NEW r \in Key, NEW u \in Key, NEW doc \in Docs
  PROVE  NewCreateRequest(r, u, doc) \in Request
BY CommitType DEF NewCreateRequest, Request, Types, Key, Body, NoHash, Hash, NoKey

LEMMA UpdateType ==
  ASSUME NEW s \in Key, NEW u \in Key, NEW nu \in Key, NEW sg \in Key, NEW c \in Changes
  PROVE  NewUpdateRequest(s, u, nu, sg, c) \in Request
BY CommitType DEF NewUpdateRequest, Request, Types, Key, Body, NoHash, Hash, NoKey

LEMMA RecoverType ==
  ASSUME NEW s \in Key, NEW r \in Key, NEW nr \in Key, NEW nu \in Key,
         NEW doc \in Docs, NEW sg \in Key
  PROVE  NewRecoverRequest(s, r, nr, nu, doc, sg) \in Request
BY CommitType DEF NewRecoverRequest, Request, Types, Key, Body, NoHash, Hash, NoKey

LEMMA DeactivateType ==
  ASSUME NEW s \in Key, NEW r \in Key, NEW sg \in Key
  PROVE  NewDeactivateRequest(s, r, sg) \in Request
BY CommitType DEF NewDeactivateRequest, Request, Types, Key, Body, NoHash, Hash, NoKey

TypeInv == TypeOK /\ WindowBound

(* The effect of append(d.operations, req) and of the DID literal around   *)
(* it, when the new window lies on array a: it shows the old requests and  *)
(* the new one, and every other slot of every array keeps its content.     *)
AppendsTo(a, i, req, u, r) ==
  /\ a \in DOMAIN arrays'
  /\ arrays' \in Seq(Seq(Request))
  /\ a = dids[i].arr \/ a \notin DOMAIN arrays
  /\ dids[i].len + 1 <= Len(arrays'[a])
  /\ dids' = Append(dids, [suffix |-> dids[i].suffix, arr |-> a,
            len |-> dids[i].len + 1, updateKey |-> u, recoveryKey |-> r])
  /\ \A k \in 1..dids[i].len : arrays'[a][k] = arrays[dids[i].arr][k]
  /\ arrays'[a][dids[i].len + 1] = req
  /\ \A b \in DOMAIN arrays :
       /\ b \in DOMAIN arrays'
       /\ Len(arrays'[b]) = Len(arrays[b])
       /\ \A k \in 1..Len(arrays[b]) :
            ~(b = a /\ k = dids[i].len + 1) => arrays'[b][k] = arrays[b][k]

LEMMA AppendShape ==
  ASSUME TypeInv, HasRoom, NEW i \in DOMAIN dids, NEW req \in Request,
         NEW u \in Key, NEW r \in Key, ReturnDID(i, req, u, r)
  PROVE  \E a : AppendsTo(a, i, req, u, r)
<1> DEFINE d == dids[i]
           n == d.len
           Value(arr) == [suffix |-> d.suffix, arr |-> arr, len |-> n + 1,
                          updateKey |-> u, recoveryKey |-> r]
<1>1. /\ d \in DID /\ d.arr \in DOMAIN arrays /\ n \in 1..Len(arrays[d.arr])
      /\ n \in 1..MaxHandles /\ arrays \in Seq(Seq(Request))
      /\ arrays[d.arr] \in Seq(Request)
  <2>1. /\ arrays \in Seq(Seq(Request)) /\ dids \in Seq(DID) /\ Len(dids) \in Nat
        /\ d.arr \in DOMAIN arrays /\ n \in 1..Len(arrays[d.arr]) /\ n <= Len(dids)
    BY DEF TypeInv, TypeOK, WindowBound
  <2>2. d \in DID /\ arrays[d.arr] \in Seq(Request)
    BY <2>1
  <2>3. n \in Nat /\ n \in 1..MaxHandles
    BY <2>1, <2>2, BoundsAssumption DEF HasRoom, DID
  <2> QED
    BY <2>1, <2>2, <2>3
<1>2. CASE AppendInPlace(d, req) /\ dids' = Append(dids, Value(d.arr))
  <2>1. arrays' = [arrays EXCEPT ![d.arr] = [@ EXCEPT ![n + 1] = req]] /\ n < Len(arrays[d.arr])
    BY <1>2 DEF AppendInPlace
  <2>2. [arrays[d.arr] EXCEPT ![n + 1] = req] \in Seq(Request)
    BY <1>1, <2>1
  <2>3. arrays' \in Seq(Seq(Request)) /\ DOMAIN arrays' = DOMAIN arrays
    BY <1>1, <2>1, <2>2
  <2>4. /\ arrays'[d.arr] = [arrays[d.arr] EXCEPT ![n + 1] = req]
        /\ \A b \in DOMAIN arrays : b # d.arr => arrays'[b] = arrays[b]
    BY <1>1, <2>1
  <2>5. /\ Len(arrays'[d.arr]) = Len(arrays[d.arr])
        /\ arrays'[d.arr][n + 1] = req
        /\ \A k \in 1..Len(arrays[d.arr]) :
              k # n + 1 => arrays'[d.arr][k] = arrays[d.arr][k]
    BY <1>1, <2>1, <2>4
  <2>6. \A b \in DOMAIN arrays :
          /\ b \in DOMAIN arrays'
          /\ Len(arrays'[b]) = Len(arrays[b])
          /\ \A k \in 1..Len(arrays[b]) :
               ~(b = d.arr /\ k = n + 1) => arrays'[b][k] = arrays[b][k]
    BY <2>3, <2>4, <2>5
  <2>7. \A k \in 1..n : arrays'[d.arr][k] = arrays[d.arr][k]
    BY <1>1, <2>1, <2>5
  <2>8. n + 1 <= Len(arrays'[d.arr])
    BY <1>1, <2>1, <2>5
  <2>9. AppendsTo(d.arr, i, req, u, r)
    BY <1>1, <1>2, <2>3, <2>5, <2>6, <2>7, <2>8 DEF AppendsTo
  <2> QED
    BY <2>9
<1>3. CASE AppendGrow(d, req) /\ dids' = Append(dids, Value(Len(arrays) + 1))
  <2> DEFINE new == [k \in 1..GrowCap(n) |->
               IF k <= n THEN arrays[d.arr][k]
               ELSE IF k = n + 1 THEN req ELSE NilRequest]
             a == Len(arrays) + 1
  <2>1. arrays' = Append(arrays, new) /\ n = Len(arrays[d.arr])
    BY <1>3 DEF AppendGrow
  <2>2. GrowCap(n) \in Nat /\ GrowCap(n) > n
    BY <1>1, GrowCapAssumption
  <2>3. new \in Seq(Request) /\ Len(new) = GrowCap(n)
    <3>1. \A k \in 1..GrowCap(n) : new[k] \in Request
      BY <1>1, <2>1, <2>2, NilRequestType
    <3> QED BY <2>2, <3>1
  <2>4. \A k \in 1..n : new[k] = arrays[d.arr][k]
    BY <1>1, <2>2
  <2>5. new[n + 1] = req
    BY <1>1, <2>2
  <2> HIDE DEF new
  <2>6. /\ arrays' \in Seq(Seq(Request)) /\ a \in DOMAIN arrays' /\ a \notin DOMAIN arrays
        /\ arrays'[a] = new
        /\ \A b \in DOMAIN arrays : b \in DOMAIN arrays' /\ arrays'[b] = arrays[b]
    BY <1>1, <2>1, <2>3
  <2>7. \A b \in DOMAIN arrays :
          /\ b \in DOMAIN arrays'
          /\ Len(arrays'[b]) = Len(arrays[b])
          /\ \A k \in 1..Len(arrays[b]) :
               ~(b = a /\ k = n + 1) => arrays'[b][k] = arrays[b][k]
    BY <2>6
  <2>8. n + 1 <= Len(arrays'[a])
    BY <1>1, <2>2, <2>3, <2>6
  <2>9. AppendsTo(a, i, req, u, r)
    BY <1>3, <2>4, <2>5, <2>6, <2>7, <2>8 DEF AppendsTo
  <2> QED
    BY <2>9
<1> QED
  BY <1>2, <1>3 DEF ReturnDID

(***************************************************************************)
(* The three methods have one shape: a request that continues the chain of *)
(* the receiver, and a value holding the keys the request commits to.      *)
(***************************************************************************)
Continues(i, req, u, r) ==
  /\ req.suffix = dids[i].suffix
  /\ \/ /\ req.type = "update"
        /\ req.revealValue = Commit(dids[i].updateKey).reveal
        /\ req.updateCommitment = Commit(u).commitment
        /\ nextKey <= u /\ r = dids[i].recoveryKey
     \/ /\ req.type = "recover"
        /\ req.revealValue = Commit(dids[i].recoveryKey).reveal
        /\ req.updateCommitment = Commit(u).commitment
        /\ req.recoveryCommitment = Commit(r).commitment
        /\ nextKey <= u /\ nextKey <= r
     \/ /\ req.type = "deactivate"
        /\ req.revealValue = Commit(dids[i].updateKey).reveal
        /\ u = dids[i].updateKey /\ r = dids[i].recoveryKey

(* The keys of the new value: both kept, or the update key newly generated *)
(* and the recovery key kept or newly generated.                           *)
KeyChange(i, u, r) ==
  /\ nextKey' >= nextKey
  /\ \/ u = dids[i].updateKey /\ r = dids[i].recoveryKey
     \/ /\ nextKey <= u /\ u < nextKey'
        /\ r = dids[i].recoveryKey \/ (nextKey <= r /\ r < nextKey' /\ r # u)

Extends(i) ==
  \E req \in Request, u \in Key, r \in Key :
    /\ ReturnDID(i, req, u, r)
    /\ Continues(i, req, u, r)
    /\ KeyChange(i, u, r)

Creates ==
  \E doc \in Docs : doc # EmptyDoc /\ HasRoom /\ NewIONDID(doc)

Refused == UNCHANGED <<arrays, dids, current, issued, nextKey>> /\ err' \in Errors

LEMMA DIDKeys ==
  ASSUME TypeOK, NEW i \in DOMAIN dids
  PROVE  /\ dids[i] \in DID /\ dids[i].suffix \in Key
         /\ dids[i].updateKey \in Key /\ dids[i].recoveryKey \in Key
<1>1. dids[i] \in DID
  BY DEF TypeOK
<1> QED
  BY <1>1 DEF DID

LEMMA UpdateCases ==
  ASSUME TypeOK, NEW i \in {EmptyReceiver} \cup DOMAIN dids,
         NEW change \in Changes, Update(i, change)
  PROVE  Refused \/ (i \in DOMAIN dids /\ HasRoom /\ nextKey' \in Nat \ {0} /\ Extends(i))
<1>1. CASE i = EmptyReceiver /\ Fails("DID cannot be empty")
  BY <1>1 DEF Fails, Refused, Errors
<1>2. CASE i # EmptyReceiver /\ Fails("invalid state change")
  BY <1>2 DEF Fails, Refused, Errors
<1>3. CASE /\ i # EmptyReceiver /\ HasRoom
           /\ ReturnDID(i, NewUpdateRequest(dids[i].suffix, dids[i].updateKey, nextKey,
                                            dids[i].updateKey, change),
                        nextKey, dids[i].recoveryKey)
           /\ nextKey' = nextKey + 1
  <2> DEFINE req == NewUpdateRequest(dids[i].suffix, dids[i].updateKey, nextKey,
                                     dids[i].updateKey, change)
  <2>1. i \in DOMAIN dids /\ nextKey \in Key /\ nextKey' \in Nat \ {0}
    BY <1>3 DEF TypeOK, Key
  <2>2. /\ dids[i].suffix \in Key /\ dids[i].updateKey \in Key
        /\ dids[i].recoveryKey \in Key
    BY <2>1, DIDKeys
  <2>3. req \in Request
    BY <2>1, <2>2, UpdateType
  <2>4. Continues(i, req, nextKey, dids[i].recoveryKey)
    BY <2>1 DEF Continues, NewUpdateRequest, Key
  <2>5. KeyChange(i, nextKey, dids[i].recoveryKey)
    BY <1>3, <2>1 DEF KeyChange, Key
  <2>6. Extends(i)
    BY <1>3, <2>1, <2>2, <2>3, <2>4, <2>5 DEF Extends
  <2> QED BY <1>3, <2>1, <2>6
<1> QED
  BY <1>1, <1>2, <1>3 DEF Update

LEMMA RecoverCases ==
  ASSUME TypeOK, NEW i \in {EmptyReceiver} \cup DOMAIN dids,
         NEW doc \in Docs, Recover(i, doc)
  PROVE  Refused \/ (i \in DOMAIN dids /\ HasRoom /\ nextKey' \in Nat \ {0} /\ Extends(i))
<1>1. CASE i = EmptyReceiver /\ Fails("DID cannot be empty")
  BY <1>1 DEF Fails, Refused, Errors
<1>2. CASE i # EmptyReceiver /\ Fails("document cannot be empty")
  BY <1>2 DEF Fails, Refused, Errors
<1>3. CASE /\ i # EmptyReceiver /\ HasRoom
           /\ ReturnDID(i, NewRecoverRequest(dids[i].suffix, dids[i].recoveryKey, nextKey,
                                             nextKey + 1, doc, dids[i].updateKey),
                        nextKey + 1, nextKey)
           /\ nextKey' = nextKey + 2
  <2> DEFINE req == NewRecoverRequest(dids[i].suffix, dids[i].recoveryKey, nextKey,
                                      nextKey + 1, doc, dids[i].updateKey)
  <2>1. i \in DOMAIN dids /\ nextKey \in Key /\ nextKey + 1 \in Key /\ nextKey' \in Nat \ {0}
    BY <1>3 DEF TypeOK, Key
  <2>2. /\ dids[i].suffix \in Key /\ dids[i].updateKey \in Key
        /\ dids[i].recoveryKey \in Key
    BY <2>1, DIDKeys
  <2>3. req \in Request
    BY <2>1, <2>2, RecoverType
  <2>4. Continues(i, req, nextKey + 1, nextKey)
    BY <2>1 DEF Continues, NewRecoverRequest, Key
  <2>5. KeyChange(i, nextKey + 1, nextKey)
    BY <1>3, <2>1 DEF KeyChange, Key
  <2>6. Extends(i)
    BY <1>3, <2>1, <2>3, <2>4, <2>5 DEF Extends
  <2> QED BY <1>3, <2>1, <2>6
<1> QED
  BY <1>1, <1>2, <1>3 DEF Recover

LEMMA DeactivateCases ==
  ASSUME TypeOK, NEW i \in {EmptyReceiver} \cup DOMAIN dids, Deactivate(i)
  PROVE  Refused \/ (i \in DOMAIN dids /\ HasRoom /\ nextKey' \in Nat \ {0} /\ Extends(i))
<1>1. CASE i = EmptyReceiver /\ Fails("DID cannot be empty")
  BY <1>1 DEF Fails, Refused, Errors
<1>2. CASE /\ i # EmptyReceiver /\ HasRoom
           /\ ReturnDID(i, NewDeactivateRequest(dids[i].suffix, dids[i].updateKey,
                                                dids[i].updateKey),
                        dids[i].updateKey, dids[i].recoveryKey)
           /\ UNCHANGED nextKey
  <2> DEFINE req == NewDeactivateRequest(dids[i].suffix, dids[i].updateKey,
                                         dids[i].updateKey)
  <2>1. i \in DOMAIN dids /\ nextKey' \in Nat \ {0}
    BY <1>2 DEF TypeOK
  <2>2. /\ dids[i].suffix \in Key /\ dids[i].updateKey \in Key
        /\ dids[i].recoveryKey \in Key
    BY <2>1, DIDKeys
  <2>3. req \in Request
    BY <2>2, DeactivateType
  <2>4. Continues(i, req, dids[i].updateKey, dids[i].recoveryKey)
    BY DEF Continues, NewDeactivateRequest
  <2>5. KeyChange(i, dids[i].updateKey, dids[i].recoveryKey)
    BY <1>2 DEF KeyChange, TypeOK
  <2>6. Extends(i)
    BY <1>2, <2>2, <2>3, <2>4, <2>5 DEF Extends
  <2> QED BY <1>2, <2>1, <2>6
<1> QED
  BY <1>1, <1>2 DEF Deactivate

LEMMA CreateCases ==
  ASSUME NEW doc \in Docs, NewIONDID(doc)
  PROVE  Refused \/ Creates
BY DEF NewIONDID, Fails, Refused, Creates, Errors

(* Every step of Next is refused, creates a DID or extends a value.        *)
LEMMA NextCases ==
  ASSUME TypeOK, Next
  PROVE  \/ Refused
         \/ Creates
         \/ \E i \in DOMAIN dids : HasRoom /\ nextKey' \in Nat \ {0} /\ Extends(i)
BY UpdateCases, RecoverCases, DeactivateCases, CreateCases DEF Next, Receiver

(* ... and in linear use it extends a value not used before.               *)
OnceNext ==
  \/ Refused
  \/ Creates
  \/ \E i \in current : HasRoom /\ nextKey' \in Nat \ {0} /\ Extends(i)

(***************************************************************************)
(* Type correctness.                                                       *)
(***************************************************************************)
LEMMA InitType == Init => TypeInv
BY DEF Init, TypeInv, TypeOK, WindowBound, Errors

LEMMA RefusedType == TypeInv /\ Refused => TypeInv'
BY DEF TypeInv, TypeOK, WindowBound, Refused

LEMMA StutterType == TypeInv /\ UNCHANGED vars => TypeInv'
BY DEF TypeInv, TypeOK, WindowBound, vars

LEMMA AppendProperties ==
  ASSUME NEW S, NEW s \in Seq(S), NEW e \in S
  PROVE  /\ Append(s, e) \in Seq(S)
         /\ Len(s) \in Nat /\ DOMAIN s = 1..Len(s)
         /\ Len(Append(s, e)) = Len(s) + 1
         /\ DOMAIN Append(s, e) = 1..(Len(s) + 1)
         /\ \A j \in DOMAIN s : Append(s, e)[j] = s[j]
         /\ Append(s, e)[Len(s) + 1] = e
OBVIOUS

Window(j) ==
  /\ dids[j].arr \in DOMAIN arrays
  /\ dids[j].len \in 1..Len(arrays[dids[j].arr])
  /\ dids[j].len <= Len(dids)

(* A new value whose window is in place, on a heap that only grows, leaves *)
(* every window in place.                                                  *)
LEMMA NewValue ==
  ASSUME TypeInv, NEW v \in DID, dids' = Append(dids, v),
         v.arr \in DOMAIN arrays', v.len \in 1..Len(arrays'[v.arr]), v.len <= Len(dids) + 1,
         \A b \in DOMAIN arrays : b \in DOMAIN arrays' /\ Len(arrays'[b]) = Len(arrays[b])
  PROVE  /\ dids' \in Seq(DID) /\ DOMAIN dids' = 1..(Len(dids) + 1)
         /\ DOMAIN dids = 1..Len(dids) /\ Len(dids) \in Nat
         /\ \A j \in DOMAIN dids : dids'[j] = dids[j]
         /\ dids'[Len(dids) + 1] = v
         /\ \A j \in DOMAIN dids' : Window(j)'
<1>1. dids \in Seq(DID)
  BY DEF TypeInv, TypeOK
<1>2. /\ dids' \in Seq(DID) /\ DOMAIN dids' = 1..(Len(dids) + 1)
      /\ DOMAIN dids = 1..Len(dids) /\ Len(dids) \in Nat /\ Len(dids') = Len(dids) + 1
      /\ \A j \in DOMAIN dids : dids'[j] = dids[j]
      /\ dids'[Len(dids) + 1] = v
  BY <1>1, AppendProperties
<1>3. ASSUME NEW j \in DOMAIN dids PROVE Window(j)'
  <2>1. Window(j) /\ dids[j].len \in Nat
    BY DIDKeys DEF TypeInv, TypeOK, WindowBound, Window, DID
  <2> QED
    BY <1>2, <2>1 DEF Window
<1>4. ASSUME NEW j \in DOMAIN dids', j \notin DOMAIN dids PROVE Window(j)'
  <2>1. dids'[j] = v
    BY <1>2, <1>4
  <2> QED
    BY <1>2, <2>1 DEF Window
<1>5. \A j \in DOMAIN dids' : Window(j)'
  BY <1>3, <1>4
<1> QED
  BY <1>2, <1>5

LEMMA CreatesType == TypeInv /\ Creates => TypeInv'
<1> SUFFICES ASSUME TypeInv, NEW doc \in Docs, doc # EmptyDoc, HasRoom, NewIONDID(doc)
             PROVE  TypeInv'
  BY DEF Creates
<1> DEFINE req == NewCreateRequest(nextKey + 1, nextKey, doc)
           v == [suffix |-> req.suffix, arr |-> Len(arrays) + 1, len |-> 1,
                 updateKey |-> nextKey, recoveryKey |-> nextKey + 1]
<1>1. /\ arrays' = Append(arrays, <<req>>) /\ dids' = Append(dids, v)
      /\ issued' = issued \cup {req} /\ current' = current \cup {Len(dids) + 1}
      /\ nextKey' = nextKey + 2 /\ err' = "nil"
  BY DEF NewIONDID
<1>2. nextKey \in Key /\ nextKey + 1 \in Key /\ nextKey' \in Nat \ {0}
  BY <1>1 DEF TypeInv, TypeOK, Key
<1>3. req \in Request /\ req.suffix = nextKey + 1
  BY <1>2, CreateType DEF NewCreateRequest
<1>4. /\ arrays \in Seq(Seq(Request)) /\ current \subseteq DOMAIN dids
      /\ issued \subseteq Request /\ Len(arrays) \in Nat
  BY DEF TypeInv, TypeOK
<1>5. v \in DID /\ v.arr = Len(arrays) + 1 /\ v.len = 1
  BY <1>2, <1>3, <1>4 DEF DID, Key
<1> HIDE DEF req, v
<1>6. <<req>> \in Seq(Request) /\ Len(<<req>>) = 1
  BY <1>3
<1>7. /\ arrays' \in Seq(Seq(Request)) /\ DOMAIN arrays' = 1..(Len(arrays) + 1)
      /\ DOMAIN arrays = 1..Len(arrays)
      /\ \A b \in DOMAIN arrays : arrays'[b] = arrays[b]
      /\ arrays'[Len(arrays) + 1] = <<req>>
  BY <1>1, <1>4, <1>6, AppendProperties
<1>8. Len(dids) \in Nat
  BY DEF TypeInv, TypeOK
<1>9. /\ dids' \in Seq(DID) /\ DOMAIN dids' = 1..(Len(dids) + 1)
      /\ DOMAIN dids = 1..Len(dids)
      /\ \A j \in DOMAIN dids' : Window(j)'
  BY <1>1, <1>4, <1>5, <1>6, <1>7, <1>8, NewValue
<1>10. current' \subseteq DOMAIN dids' /\ issued' \subseteq Request
  BY <1>1, <1>3, <1>4, <1>8, <1>9
<1> QED
  BY <1>1, <1>2, <1>7, <1>9, <1>10 DEF TypeInv, TypeOK, WindowBound, Window, Errors

LEMMA ExtendsType ==
  ASSUME TypeInv, HasRoom, nextKey' \in Nat \ {0}, NEW i \in DOMAIN dids, Extends(i)
  PROVE  TypeInv'
<1>1. PICK req \in Request, u \in Key, r \in Key : ReturnDID(i, req, u, r)
  BY DEF Extends
<1>2. PICK a : AppendsTo(a, i, req, u, r)
  BY <1>1, AppendShape
<1> DEFINE v == [suffix |-> dids[i].suffix, arr |-> a, len |-> dids[i].len + 1,
                 updateKey |-> u, recoveryKey |-> r]
<1>3. /\ current \subseteq DOMAIN dids /\ issued \subseteq Request
      /\ Len(dids) \in Nat /\ dids[i].len \in Nat /\ dids[i].len <= Len(dids)
      /\ dids[i].suffix \in Key
  <2>1. dids \in Seq(DID) /\ current \subseteq DOMAIN dids /\ issued \subseteq Request
    BY DEF TypeInv, TypeOK
  <2>2. dids[i] \in DID /\ Len(dids) \in Nat
    BY <2>1
  <2>3. dids[i].len <= Len(dids)
    BY DEF TypeInv, WindowBound
  <2> QED
    BY <2>1, <2>2, <2>3 DEF DID
<1>4. /\ arrays' \in Seq(Seq(Request)) /\ a \in DOMAIN arrays' /\ dids' = Append(dids, v)
      /\ dids[i].len + 1 <= Len(arrays'[a])
      /\ \A b \in DOMAIN arrays : b \in DOMAIN arrays' /\ Len(arrays'[b]) = Len(arrays[b])
  BY <1>2 DEF AppendsTo
<1>5. a \in Nat /\ Len(arrays'[a]) \in Nat
  BY <1>4
<1>6. v \in DID
  BY <1>3, <1>5 DEF DID
<1>7. v.arr = a /\ v.len = dids[i].len + 1
  OBVIOUS
<1> HIDE DEF v
<1>8. /\ dids' \in Seq(DID) /\ DOMAIN dids' = 1..(Len(dids) + 1)
      /\ DOMAIN dids = 1..Len(dids)
      /\ \A j \in DOMAIN dids' : Window(j)'
  BY <1>3, <1>4, <1>5, <1>6, <1>7, NewValue, SMTT(30)
<1>9. current' \subseteq DOMAIN dids' /\ issued' \subseteq Request /\ err' \in Errors
  BY <1>1, <1>3, <1>8 DEF ReturnDID, Errors
<1> QED
  BY <1>4, <1>8, <1>9 DEF TypeInv, TypeOK, WindowBound, Window

LEMMA NextType == TypeInv /\ [Next]_vars => TypeInv'
<1> SUFFICES ASSUME TypeInv, [Next]_vars PROVE TypeInv'
  OBVIOUS
<1>1. CASE UNCHANGED vars
  BY <1>1, StutterType
<1>2. CASE Next
  <2>1. TypeOK
    BY DEF TypeInv
  <2> QED
    BY <1>2, <2>1, NextCases, RefusedType, CreatesType, ExtendsType
<1> QED
  BY <1>1, <1>2

LEMMA OnceNextType == TypeInv /\ [OnceNext]_vars => TypeInv'
<1> SUFFICES ASSUME TypeInv, [OnceNext]_vars PROVE TypeInv'
  OBVIOUS
<1>1. CASE UNCHANGED vars
  BY <1>1, StutterType
<1>2. CASE OnceNext
  <2>1. TypeOK /\ current \subseteq DOMAIN dids
    BY DEF TypeInv, TypeOK
  <2> QED
    BY <1>2, <2>1, RefusedType, CreatesType, ExtendsType DEF OnceNext
<1> QED
  BY <1>1, <1>2

(* However callers use the values they hold, every slice window lies       *)
(* within its backing array and every value has its shape.                 *)
THEOREM TypeCorrect == Spec => []TypeOK
<1>1. TypeInv => TypeOK
  BY DEF TypeInv
<1> QED
  BY <1>1, InitType, NextType, PTL DEF Spec

(***************************************************************************)
(* Linear use.  Longest is what append() needs to be harmless:             *)
(* the slot behind the window of a current value is in no other window.    *)
(***************************************************************************)
Longest ==
  \A i \in current : \A j \in DOMAIN dids :
    i # j /\ dids[i].arr = dids[j].arr => dids[j].len < dids[i].len

LinearInv == TypeInv /\ Longest

(* What every value shows, value by value.                                 *)
Undisturbed ==
  \A j \in DOMAIN dids :
    /\ j \in DOMAIN dids'
    /\ dids'[j] = dids[j]
    /\ \A k \in 1..dids[j].len : arrays'[dids[j].arr][k] = arrays[dids[j].arr][k]

(* A created value has an array of its own.                                *)
LEMMA CreatesLinear ==
  ASSUME LinearInv, Creates
  PROVE  Longest' /\ Undisturbed
<1>1. PICK doc \in Docs : doc # EmptyDoc /\ HasRoom /\ NewIONDID(doc)
  BY DEF Creates
<1>2. PICK req, v :
        /\ arrays' = Append(arrays, <<req>>) /\ dids' = Append(dids, v)
        /\ v.arr = Len(arrays) + 1 /\ v.len = 1
        /\ current' = current \cup {Len(dids) + 1}
  BY <1>1 DEF NewIONDID
<1>3. /\ arrays \in Seq(Seq(Request)) /\ dids \in Seq(DID) /\ current \subseteq DOMAIN dids
      /\ DOMAIN dids = 1..Len(dids) /\ Len(dids) \in Nat
      /\ DOMAIN arrays = 1..Len(arrays) /\ Len(arrays) \in Nat
      /\ \A j \in DOMAIN dids : dids[j].arr \in DOMAIN arrays
  BY DEF LinearInv, TypeInv, TypeOK
<1>4. /\ DOMAIN dids' = 1..(Len(dids) + 1)
      /\ \A j \in DOMAIN dids : dids'[j] = dids[j]
      /\ dids'[Len(dids) + 1] = v
      /\ \A b \in DOMAIN arrays : arrays'[b] = arrays[b]
  BY <1>2, <1>3
<1>5. Undisturbed
  BY <1>3, <1>4 DEF Undisturbed
<1>6. ASSUME NEW p \in current', NEW q \in DOMAIN dids', p # q, dids'[p].arr = dids'[q].arr
      PROVE  dids'[q].len < dids'[p].len
  <2>1. CASE p \in DOMAIN dids /\ q \in DOMAIN dids
    <3>1. p \in current
      BY <1>2, <1>3, <1>6, <2>1
    <3> QED BY <1>4, <1>6, <2>1, <3>1 DEF LinearInv, Longest
  <2>2. CASE p \notin DOMAIN dids \/ q \notin DOMAIN dids
    BY <1>2, <1>3, <1>4, <1>6, <2>2
  <2> QED BY <2>1, <2>2
<1> QED
  BY <1>5, <1>6 DEF Longest

(* An extended value hands its place to the value returned.                *)
LEMMA ExtendsLinear ==
  ASSUME LinearInv, HasRoom, NEW i \in current, NEW req \in Request,
         NEW u \in Key, NEW r \in Key, ReturnDID(i, req, u, r)
  PROVE  Longest' /\ Undisturbed
<1>1. i \in DOMAIN dids /\ TypeInv
  BY DEF LinearInv, TypeInv, TypeOK
<1>2. PICK a : AppendsTo(a, i, req, u, r)
  BY <1>1, AppendShape
<1> DEFINE v == [suffix |-> dids[i].suffix, arr |-> a, len |-> dids[i].len + 1,
                 updateKey |-> u, recoveryKey |-> r]
<1>3. /\ dids \in Seq(DID) /\ current \subseteq DOMAIN dids
      /\ DOMAIN dids = 1..Len(dids) /\ Len(dids) \in Nat
  BY <1>1 DEF TypeInv, TypeOK
<1>4. ASSUME NEW j \in DOMAIN dids
      PROVE  /\ dids[j].arr \in DOMAIN arrays /\ dids[j].len \in Nat
             /\ dids[j].len \in 1..Len(arrays[dids[j].arr])
             /\ Len(arrays[dids[j].arr]) \in Nat
  <2>1. dids[j].arr \in DOMAIN arrays /\ dids[j].len \in 1..Len(arrays[dids[j].arr])
    BY <1>1 DEF TypeInv, TypeOK
  <2>2. arrays[dids[j].arr] \in Seq(Request)
    BY <1>1, <2>1 DEF TypeInv, TypeOK
  <2>3. Len(arrays[dids[j].arr]) \in Nat
    BY <2>2
  <2> QED
    BY <2>1, <2>3
<1>5. ASSUME NEW j \in DOMAIN dids, dids[j].arr = dids[i].arr, j # i
      PROVE  dids[j].len < dids[i].len /\ j \notin current
  BY <1>1, <1>4, <1>5 DEF LinearInv, Longest
<1>6. /\ dids' = Append(dids, v) /\ (a = dids[i].arr \/ a \notin DOMAIN arrays)
      /\ \A b \in DOMAIN arrays : \A k \in 1..Len(arrays[b]) :
            ~(b = a /\ k = dids[i].len + 1) => arrays'[b][k] = arrays[b][k]
  BY <1>2 DEF AppendsTo
<1>7. v.arr = a /\ v.len = dids[i].len + 1
  OBVIOUS
<1> HIDE DEF v
<1>8. /\ DOMAIN dids' = 1..(Len(dids) + 1)
      /\ \A j \in DOMAIN dids : dids'[j] = dids[j]
      /\ dids'[Len(dids) + 1] = v
  BY <1>3, <1>6
<1>9. Undisturbed
  <2> SUFFICES ASSUME NEW j \in DOMAIN dids, NEW k \in 1..dids[j].len
               PROVE  arrays'[dids[j].arr][k] = arrays[dids[j].arr][k]
    BY <1>3, <1>8 DEF Undisturbed
  <2>1. k \in 1..Len(arrays[dids[j].arr]) /\ dids[j].arr \in DOMAIN arrays /\ k <= dids[j].len
    BY <1>4
  <2>2. ~(dids[j].arr = a /\ k = dids[i].len + 1)
    BY <1>1, <1>4, <1>5, <1>6, <2>1
  <2> QED
    BY <1>6, <2>1, <2>2
<1>10. current' = (current \ {i}) \cup {Len(dids) + 1}
  BY DEF ReturnDID
<1>11. ASSUME NEW p \in current', NEW q \in DOMAIN dids', p # q, dids'[p].arr = dids'[q].arr
       PROVE  dids'[q].len < dids'[p].len
  <2>1. CASE p \in DOMAIN dids /\ q \in DOMAIN dids
    <3>1. p \in current
      BY <1>3, <1>10, <1>11, <2>1
    <3> QED BY <1>8, <1>11, <2>1, <3>1 DEF LinearInv, Longest
  <2>2. CASE p = Len(dids) + 1 /\ q \in DOMAIN dids
    <3>1. dids[q].arr = a /\ dids'[q] = dids[q] /\ dids'[p] = v
      BY <1>7, <1>8, <1>11, <2>2
    <3>2. a = dids[i].arr
      BY <1>4, <1>6, <3>1, <2>2
    <3>3. dids[q].len <= dids[i].len
      BY <1>1, <1>4, <1>5, <2>2, <3>1, <3>2
    <3> QED BY <1>1, <1>4, <1>7, <2>2, <3>1, <3>3
  <2>3. CASE p \in DOMAIN dids /\ q = Len(dids) + 1
    <3>1. p \in current /\ p # i
      BY <1>3, <1>10, <2>3
    <3>2. dids[p].arr = a
      BY <1>7, <1>8, <1>11, <2>3
    <3>3. a = dids[i].arr
      BY <1>4, <1>6, <3>2, <2>3
    <3> QED BY <1>5, <2>3, <3>1, <3>2, <3>3
  <2> QED
    BY <1>3, <1>8, <1>10, <1>11, <2>1, <2>2, <2>3
<1> QED
  BY <1>9, <1>11 DEF Longest

LEMMA QuietLinear ==
  ASSUME LinearInv, UNCHANGED <<arrays, dids, current>>
  PROVE  Longest' /\ Undisturbed
BY DEF LinearInv, Longest, Undisturbed

LEMMA LinearStep ==
  ASSUME LinearInv, [OnceNext]_vars
  PROVE  LinearInv' /\ Undisturbed
<1>1. TypeInv /\ TypeOK /\ TypeInv'
  BY OnceNextType DEF LinearInv, TypeInv
<1>2. CASE UNCHANGED vars
  BY <1>1, <1>2, QuietLinear DEF LinearInv, vars
<1>3. CASE Refused
  BY <1>1, <1>3, QuietLinear DEF LinearInv, Refused
<1>4. CASE Creates
  BY <1>1, <1>4, CreatesLinear DEF LinearInv
<1>5. CASE \E i \in current : HasRoom /\ nextKey' \in Nat \ {0} /\ Extends(i)
  BY <1>1, <1>5, ExtendsLinear DEF LinearInv, Extends
<1> QED
  BY <1>1, <1>2, <1>3, <1>4, <1>5 DEF OnceNext

LEMMA InitLinear == Init => LinearInv
BY InitType DEF Init, LinearInv, Longest

(* Every DID has a value to continue from.                                 *)
Covered ==
  \A j \in DOMAIN dids : \E i \in current : dids[i].suffix = dids[j].suffix

CoverInv == TypeInv /\ Covered

(* The values after a step that creates or extends one.                    *)
LEMMA CreatesValues ==
  ASSUME TypeInv, Creates
  PROVE  \E N :
           /\ DOMAIN dids = 1..Len(dids) /\ Len(dids) \in Nat /\ N = Len(dids) + 1
           /\ DOMAIN dids' = 1..N /\ \A j \in DOMAIN dids : dids'[j] = dids[j]
           /\ current' = current \cup {N}
<1>1. PICK doc \in Docs : doc # EmptyDoc /\ HasRoom /\ NewIONDID(doc)
  BY DEF Creates
<1>2. PICK v : dids' = Append(dids, v) /\ current' = current \cup {Len(dids) + 1}
  BY <1>1 DEF NewIONDID
<1>3. dids \in Seq(DID)
  BY DEF TypeInv, TypeOK
<1> QED
  BY <1>2, <1>3

LEMMA ExtendsValues ==
  ASSUME TypeInv, NEW i \in DOMAIN dids, Extends(i)
  PROVE  \E N :
           /\ DOMAIN dids = 1..Len(dids) /\ Len(dids) \in Nat /\ N = Len(dids) + 1
           /\ DOMAIN dids' = 1..N /\ \A j \in DOMAIN dids : dids'[j] = dids[j]
           /\ dids'[N].suffix = dids[i].suffix
           /\ current' = (current \ {i}) \cup {N}
<1>1. PICK v : /\ dids' = Append(dids, v) /\ v.suffix = dids[i].suffix
               /\ current' = (current \ {i}) \cup {Len(dids) + 1}
  BY DEF Extends, ReturnDID
<1>2. dids \in Seq(DID)
  BY DEF TypeInv, TypeOK
<1> QED
  BY <1>1, <1>2

LEMMA CoverStep == CoverInv /\ [Next]_vars => CoverInv'
<1> SUFFICES ASSUME CoverInv, [Next]_vars PROVE Covered'
  BY NextType DEF CoverInv
<1>1. TypeInv /\ TypeOK /\ Covered /\ current \subseteq DOMAIN dids
  BY DEF CoverInv, TypeInv, TypeOK
<1>2. CASE UNCHANGED <<dids, current>>
  BY <1>1, <1>2 DEF Covered
<1>3. CASE Creates
  BY <1>1, <1>3, CreatesValues DEF Covered
<1>4. ASSUME NEW i \in DOMAIN dids, Extends(i) PROVE Covered'
  <2>1. PICK N :
           /\ DOMAIN dids = 1..Len(dids) /\ Len(dids) \in Nat /\ N = Len(dids) + 1
           /\ DOMAIN dids' = 1..N /\ \A j \in DOMAIN dids : dids'[j] = dids[j]
           /\ dids'[N].suffix = dids[i].suffix
           /\ current' = (current \ {i}) \cup {N}
    BY <1>1, <1>4, ExtendsValues
  <2>2. ASSUME NEW j \in DOMAIN dids' PROVE \E c \in current' : dids'[c].suffix = dids'[j].suffix
    <3>1. CASE j = N \/ dids'[j].suffix = dids[i].suffix
      BY <2>1, <3>1
    <3>2. CASE j # N /\ dids'[j].suffix # dids[i].suffix
      <4>1. j \in DOMAIN dids /\ dids'[j] = dids[j]
        BY <2>1, <2>2, <3>2
      <4>2. PICK c \in current : dids[c].suffix = dids[j].suffix
        BY <1>1, <4>1 DEF Covered
      <4>3. c # i /\ c \in DOMAIN dids
        BY <1>1, <3>2, <4>1, <4>2
      <4> QED BY <2>1, <4>1, <4>2, <4>3
    <3> QED BY <3>1, <3>2
  <2> QED BY <2>2 DEF Covered
<1> QED
  BY <1>1, <1>2, <1>3, <1>4, NextCases DEF Refused, vars

LEMMA CoverInit == Init => CoverInv
BY InitType DEF Init, CoverInv, Covered

(* A second call on a value is never made good: when each DID has one      *)
(* value to continue from, it was so before, and the step continued it.    *)
LEMMA UsedOnceBefore ==
  ASSUME CoverInv, [Next]_vars, UsedOnce'
  PROVE  UsedOnce /\ [OnceNext]_vars
<1>1. TypeInv /\ TypeOK /\ Covered /\ current \subseteq DOMAIN dids
  BY DEF CoverInv, TypeInv, TypeOK
<1>2. CASE UNCHANGED vars
  BY <1>2 DEF UsedOnce, vars
<1>3. CASE Refused
  BY <1>3 DEF UsedOnce, Refused, OnceNext
<1>4. CASE Creates
  <2>1. \A j \in current : j \in current' /\ dids'[j] = dids[j]
    BY <1>1, <1>4, CreatesValues
  <2> QED BY <1>4, <2>1 DEF UsedOnce, OnceNext
<1>5. ASSUME NEW i \in DOMAIN dids, HasRoom /\ nextKey' \in Nat \ {0} /\ Extends(i)
      PROVE  UsedOnce /\ OnceNext
  <2>1. PICK N :
           /\ DOMAIN dids = 1..Len(dids) /\ Len(dids) \in Nat /\ N = Len(dids) + 1
           /\ DOMAIN dids' = 1..N /\ \A j \in DOMAIN dids : dids'[j] = dids[j]
           /\ dids'[N].suffix = dids[i].suffix
           /\ current' = (current \ {i}) \cup {N}
    BY <1>1, <1>5, ExtendsValues
  <2>2. ASSUME NEW c \in current, dids[c].suffix = dids[i].suffix PROVE c = i
    <3> SUFFICES ASSUME c # i PROVE FALSE
      OBVIOUS
    <3>1. c \in current' /\ N \in current' /\ c # N /\ dids'[c].suffix = dids'[N].suffix
      BY <1>1, <2>1, <2>2
    <3> QED BY <3>1 DEF UsedOnce
  <2>3. i \in current
    BY <1>1, <2>2 DEF Covered
  <2>4. ASSUME NEW a \in current, NEW b \in current, dids[a].suffix = dids[b].suffix PROVE a = b
    <3>1. CASE a = i \/ b = i
      BY <2>2, <2>4, <3>1
    <3>2. CASE a # i /\ b # i
      <4>1. a \in current' /\ b \in current' /\ dids'[a] = dids[a] /\ dids'[b] = dids[b]
        BY <1>1, <2>1, <2>4, <3>2
      <4> QED BY <2>4, <4>1 DEF UsedOnce
    <3> QED BY <3>1, <3>2
  <2> QED BY <1>5, <2>3, <2>4 DEF UsedOnce, OnceNext
<1> QED
  BY <1>1, <1>2, <1>3, <1>4, <1>5, NextCases

(* Used linearly, the value a caller continues from always has the longest *)
(* window on its backing array.                                            *)
THEOREM LinearUseKeepsLongest == Spec => []CurrentIsLongest
<1> DEFINE Inv == CoverInv /\ (UsedOnce => LinearInv)
<1>1. Inv => CurrentIsLongest
  BY DEF LinearInv, Longest, CurrentIsLongest
<1>2. Inv /\ [Next]_vars => Inv'
  BY CoverStep, UsedOnceBefore, LinearStep
<1>3. Init => Inv
  BY CoverInit, InitLinear
<1> QED
  BY <1>1, <1>2, <1>3, PTL DEF Spec

(* Used linearly, Update, Recover and Deactivate are side effect free, as  *)
(* the documentation of DID says, for every growth policy of append().     *)
THEOREM LinearUseIsSideEffectFree == Spec => SideEffectFreeOnce
<1> DEFINE Inv  == CoverInv /\ (UsedOnce => LinearInv)
           Free == UsedOnce' => LeavesValues
<1>1. ASSUME Inv, [Next]_vars PROVE Inv' /\ Free
  <2>1. CoverInv'
    BY <1>1, CoverStep
  <2>2. UsedOnce' => LinearInv' /\ Undisturbed
    BY <1>1, UsedOnceBefore, LinearStep
  <2> QED
    BY <2>1, <2>2 DEF Undisturbed, Operations, LeavesValues
<1>2. Inv /\ [Next]_vars => Inv'
  BY <1>1
<1>3. Inv /\ [Next]_vars => [Free]_vars
  BY <1>1
<1>4. Init => Inv
  BY CoverInit, InitLinear
<1> QED
  BY <1>2, <1>3, <1>4, PTL DEF Spec, SideEffectFreeOnce

(***************************************************************************)
(* The chain of commitments.                                               *)
(***************************************************************************)
Committed(j) ==
  LET d   == dids[j]
      ops == Operations(d)
  IN  /\ \E k \in 1..d.len :
           /\ SetsUpdate(ops, k, d.len)
           /\ ops[k].updateCommitment = Commit(d.updateKey).commitment
      /\ \E k \in 1..d.len :
           /\ SetsRecovery(ops, k, d.len)
           /\ ops[k].recoveryCommitment = Commit(d.recoveryKey).commitment

(* The request at position n of a list opens what the ones before it left. *)
OpensAt(ops, n) ==
  /\ ops[n].type = "update" =>
       \E k \in 1..(n - 1) :
         /\ SetsUpdate(ops, k, n - 1)
         /\ ops[k].updateCommitment = CommitmentOfReveal(ops[n].revealValue)
  /\ ops[n].type = "recover" =>
       \E k \in 1..(n - 1) :
         /\ SetsRecovery(ops, k, n - 1)
         /\ ops[k].recoveryCommitment = CommitmentOfReveal(ops[n].revealValue)

Chained(j) == \A n \in 1..dids[j].len : OpensAt(Operations(dids[j]), n)

ChainInv == /\ LinearInv
            /\ \A j \in DOMAIN dids : Committed(j) /\ Chained(j)

LEMMA UndisturbedChain ==
  ASSUME Undisturbed, NEW j \in DOMAIN dids, Committed(j), Chained(j)
  PROVE  Committed(j)' /\ Chained(j)'
<1>1. dids'[j] = dids[j] /\ Operations(dids[j])' = Operations(dids[j])
  BY DEF Undisturbed, Operations
<1>2. Committed(j)'
  BY <1>1 DEF Committed, SetsUpdate, SetsRecovery
<1>3. Chained(j)'
  BY <1>1 DEF Chained, OpensAt, SetsUpdate, SetsRecovery
<1> QED
  BY <1>2, <1>3

LEMMA RevealOpens ==
  ASSUME NEW key
  PROVE  CommitmentOfReveal(Commit(key).reveal) = Commit(key).commitment
BY DEF CommitmentOfReveal, Commit

(* A chain stays one when a request that continues it is appended.         *)
LEMMA ChainGrows ==
  ASSUME NEW n \in Nat, NEW old, NEW new, NEW i \in DOMAIN dids, NEW u, NEW r,
         n = dids[i].len, n >= 1, old = Operations(dids[i]),
         \A k \in 1..n : new[k] = old[k],
         Continues(i, new[n + 1], u, r), Committed(i), Chained(i)
  PROVE  /\ \E k \in 1..(n + 1) :
              /\ SetsUpdate(new, k, n + 1)
              /\ new[k].updateCommitment = Commit(u).commitment
         /\ \E k \in 1..(n + 1) :
              /\ SetsRecovery(new, k, n + 1)
              /\ new[k].recoveryCommitment = Commit(r).commitment
         /\ \A m \in 1..(n + 1) : OpensAt(new, m)
<1> DEFINE req == new[n + 1]
<1>1. PICK ku \in 1..n : /\ SetsUpdate(old, ku, n)
                         /\ old[ku].updateCommitment = Commit(dids[i].updateKey).commitment
  BY DEF Committed
<1>2. PICK kr \in 1..n : /\ SetsRecovery(old, kr, n)
                         /\ old[kr].recoveryCommitment = Commit(dids[i].recoveryKey).commitment
  BY DEF Committed
<1>3. SetsUpdate(new, ku, n) /\ new[ku].updateCommitment = Commit(dids[i].updateKey).commitment
  BY <1>1 DEF SetsUpdate
<1>4. SetsRecovery(new, kr, n) /\ new[kr].recoveryCommitment = Commit(dids[i].recoveryKey).commitment
  BY <1>2 DEF SetsRecovery
<1>5. ASSUME NEW m \in 1..n PROVE OpensAt(new, m)
  <2>1. OpensAt(old, m)
    BY DEF Chained
  <2>2. new[m] = old[m] /\ \A k \in 1..(m - 1) : new[k] = old[k]
    OBVIOUS
  <2> QED
    BY <2>1, <2>2 DEF OpensAt, SetsUpdate, SetsRecovery
<1>6. OpensAt(new, n + 1)
  BY <1>3, <1>4, RevealOpens DEF OpensAt, Continues
<1>7. \E k \in 1..(n + 1) : SetsUpdate(new, k, n + 1)
                          /\ new[k].updateCommitment = Commit(u).commitment
  <2>1. CASE req.type = "deactivate" /\ u = dids[i].updateKey
    BY <1>3, <2>1 DEF SetsUpdate
  <2>2. CASE req.type # "deactivate" /\ req.updateCommitment = Commit(u).commitment
    BY <2>2 DEF SetsUpdate
  <2> QED
    BY <2>1, <2>2 DEF Continues
<1>8. \E k \in 1..(n + 1) : SetsRecovery(new, k, n + 1)
                          /\ new[k].recoveryCommitment = Commit(r).commitment
  <2>1. CASE req.type \in {"update", "deactivate"} /\ r = dids[i].recoveryKey
    BY <1>4, <2>1 DEF SetsRecovery
  <2>2. CASE req.type = "recover" /\ req.recoveryCommitment = Commit(r).commitment
    BY <2>2 DEF SetsRecovery
  <2> QED
    BY <2>1, <2>2 DEF Continues
<1> QED
  BY <1>5, <1>6, <1>7, <1>8

LEMMA ExtendsChain ==
  ASSUME ChainInv, LinearInv', Undisturbed, HasRoom, NEW i \in current, NEW req \in Request,
         NEW u \in Key, NEW r \in Key, ReturnDID(i, req, u, r), Continues(i, req, u, r)
  PROVE  ChainInv'
<1>1. i \in DOMAIN dids /\ TypeInv /\ LinearInv
  BY DEF ChainInv, LinearInv, TypeInv, TypeOK
<1>2. PICK a : AppendsTo(a, i, req, u, r)
  BY <1>1, AppendShape
<1> DEFINE v == [suffix |-> dids[i].suffix, arr |-> a, len |-> dids[i].len + 1,
                 updateKey |-> u, recoveryKey |-> r]
           n == dids[i].len
<1>3. /\ dids \in Seq(DID) /\ DOMAIN dids = 1..Len(dids) /\ Len(dids) \in Nat
      /\ n \in Nat /\ n >= 1
  BY <1>1, DIDKeys DEF TypeInv, TypeOK, DID
<1>4. /\ dids' = Append(dids, v)
      /\ \A k \in 1..n : arrays'[a][k] = arrays[dids[i].arr][k]
      /\ arrays'[a][n + 1] = req
  BY <1>2 DEF AppendsTo
<1>5. v.arr = a /\ v.len = n + 1 /\ v.updateKey = u /\ v.recoveryKey = r
  OBVIOUS
<1> HIDE DEF v
<1>6. DOMAIN dids' = 1..(Len(dids) + 1) /\ dids'[Len(dids) + 1] = v
  BY <1>3, <1>4
<1>7. ASSUME NEW j \in DOMAIN dids' PROVE Committed(j)' /\ Chained(j)'
  <2>1. CASE j \in DOMAIN dids
    BY <2>1, UndisturbedChain DEF ChainInv
  <2>2. CASE j \notin DOMAIN dids
    <3>1. dids'[j] = v
      BY <1>3, <1>6, <2>2
    <3> DEFINE new == Operations(dids[j])'
               old == Operations(dids[i])
    <3>2. new = [k \in 1..(n + 1) |-> arrays'[a][k]]
      BY <1>5, <3>1 DEF Operations
    <3>3. old = [k \in 1..n |-> arrays[dids[i].arr][k]]
      BY DEF Operations
    <3>4. (\A k \in 1..n : new[k] = old[k]) /\ new[n + 1] = req
      BY <1>3, <1>4, <3>2, <3>3
    <3>5. Continues(i, new[n + 1], u, r) /\ Committed(i) /\ Chained(i)
      BY <1>1, <3>4 DEF ChainInv
    <3>6. /\ \E k \in 1..(n + 1) :
               /\ SetsUpdate(new, k, n + 1)
               /\ new[k].updateCommitment = Commit(u).commitment
          /\ \E k \in 1..(n + 1) :
               /\ SetsRecovery(new, k, n + 1)
               /\ new[k].recoveryCommitment = Commit(r).commitment
          /\ \A m \in 1..(n + 1) : OpensAt(new, m)
      <4> HIDE DEF new
      <4> QED BY <1>1, <1>3, <3>4, <3>5, ChainGrows, ZenonT(60)
    <3>7. Committed(j)'
      BY <1>5, <3>1, <3>6 DEF Committed, SetsUpdate, SetsRecovery
    <3>8. Chained(j)'
      BY <1>5, <3>1, <3>6 DEF Chained, OpensAt, SetsUpdate, SetsRecovery
    <3> QED
      BY <3>7, <3>8
  <2> QED
    BY <2>1, <2>2
<1> QED
  BY <1>7 DEF ChainInv

LEMMA CreatesChain ==
  ASSUME ChainInv, LinearInv', Undisturbed, Creates
  PROVE  ChainInv'
<1>1. PICK doc \in Docs : doc # EmptyDoc /\ HasRoom /\ NewIONDID(doc)
  BY DEF Creates
<1> DEFINE req == NewCreateRequest(nextKey + 1, nextKey, doc)
           v == [suffix |-> req.suffix, arr |-> Len(arrays) + 1, len |-> 1,
                 updateKey |-> nextKey, recoveryKey |-> nextKey + 1]
<1>2. /\ arrays' = Append(arrays, <<req>>) /\ dids' = Append(dids, v)
      /\ v.arr = Len(arrays) + 1 /\ v.len = 1
      /\ v.updateKey = nextKey /\ v.recoveryKey = nextKey + 1
  BY <1>1 DEF NewIONDID
<1>3. /\ dids \in Seq(DID) /\ DOMAIN dids = 1..Len(dids) /\ Len(dids) \in Nat
      /\ arrays \in Seq(Seq(Request)) /\ Len(arrays) \in Nat
  BY DEF ChainInv, LinearInv, TypeInv, TypeOK
<1>4. /\ req.type = "create" /\ req.updateCommitment = Commit(nextKey).commitment
      /\ req.recoveryCommitment = Commit(nextKey + 1).commitment
  BY DEF NewCreateRequest
<1> HIDE DEF req, v
<1>5. /\ DOMAIN dids' = 1..(Len(dids) + 1) /\ dids'[Len(dids) + 1] = v
      /\ arrays'[Len(arrays) + 1] = <<req>>
  BY <1>2, <1>3
<1>6. ASSUME NEW j \in DOMAIN dids' PROVE Committed(j)' /\ Chained(j)'
  <2>1. CASE j \in DOMAIN dids
    BY <2>1, UndisturbedChain DEF ChainInv
  <2>2. CASE j \notin DOMAIN dids
    <3>1. dids'[j] = v
      BY <1>3, <1>5, <2>2
    <3> DEFINE new == Operations(dids[j])'
    <3>2. new = [k \in 1..1 |-> arrays'[Len(arrays) + 1][k]]
      BY <1>2, <3>1 DEF Operations
    <3>3. new[1] = req
      BY <1>5, <3>2
    <3> HIDE DEF new
    <3>4. SetsUpdate(new, 1, 1) /\ SetsRecovery(new, 1, 1) /\ OpensAt(new, 1)
      BY <1>4, <3>3 DEF SetsUpdate, SetsRecovery, OpensAt
    <3>5. /\ new[1].updateCommitment = Commit(v.updateKey).commitment
          /\ new[1].recoveryCommitment = Commit(v.recoveryKey).commitment
      BY <1>2, <1>4, <3>3
    <3> USE DEF new
    <3>6. Committed(j)'
      BY <1>2, <3>1, <3>4, <3>5 DEF Committed, SetsUpdate, SetsRecovery
    <3>7. Chained(j)'
      BY <1>2, <3>1, <3>4 DEF Chained, OpensAt, SetsUpdate, SetsRecovery
    <3> QED
      BY <3>6, <3>7
  <2> QED
    BY <2>1, <2>2
<1> QED
  BY <1>6 DEF ChainInv

LEMMA ChainStep == ChainInv /\ [OnceNext]_vars => ChainInv'
<1> SUFFICES ASSUME ChainInv, [OnceNext]_vars PROVE ChainInv'
  OBVIOUS
<1>1. LinearInv /\ LinearInv' /\ Undisturbed /\ TypeOK
  BY LinearStep DEF ChainInv, LinearInv, TypeInv
<1>2. CASE dids' = dids
  BY <1>1, <1>2, UndisturbedChain DEF ChainInv
<1>3. CASE Creates
  BY <1>1, <1>3, CreatesChain
<1>4. CASE \E i \in current : HasRoom /\ nextKey' \in Nat \ {0} /\ Extends(i)
  BY <1>1, <1>4, ExtendsChain DEF Extends
<1> QED
  BY <1>1, <1>2, <1>3, <1>4 DEF OnceNext, Refused, vars

LEMMA InitChain == Init => ChainInv
BY InitLinear DEF Init, ChainInv

(* Used linearly, every value ever returned holds the private keys that    *)
(* open the commitments its own list of requests leaves in force.          *)
THEOREM LinearUseHoldsKeys == Spec => []OperationsCommitToKeys
<1> DEFINE Inv == CoverInv /\ (UsedOnce => ChainInv)
<1>1. Inv => OperationsCommitToKeys
  BY DEF ChainInv, Committed, OperationsCommitToKeys
<1>2. Inv /\ [Next]_vars => Inv'
  BY CoverStep, UsedOnceBefore, ChainStep
<1>3. Init => Inv
  BY CoverInit, InitChain
<1> QED
  BY <1>1, <1>2, <1>3, PTL DEF Spec

(* Used linearly, the list of every value is a valid chain of reveals and  *)
(* commitments.                                                            *)
THEOREM LinearUseIsAChain == Spec => []RevealsOpenCommitments
<1> DEFINE Inv == CoverInv /\ (UsedOnce => ChainInv)
<1>1. Inv => RevealsOpenCommitments
  BY DEF ChainInv, Chained, OpensAt, RevealsOpenCommitments
<1>2. Inv /\ [Next]_vars => Inv'
  BY CoverStep, UsedOnceBefore, ChainStep
<1>3. Init => Inv
  BY CoverInit, InitChain
<1> QED
  BY <1>1, <1>2, <1>3, PTL DEF Spec

(***************************************************************************)
(* Anchoring.                                                              *)
(***************************************************************************)

(* Keys in use were generated.                                             *)
KeysGenerated ==
  \A i \in DOMAIN dids : dids[i].updateKey < nextKey /\ dids[i].recoveryKey < nextKey

(* An update key belongs to one DID and comes with one recovery key, even  *)
(* though several values may hold it.                                      *)
UpdateKeyDetermines ==
  \A i, j \in DOMAIN dids : dids[i].updateKey = dids[j].updateKey =>
    dids[i].suffix = dids[j].suffix /\ dids[i].recoveryKey = dids[j].recoveryKey

(* A recovery key belongs to one DID, and no key is used for both purposes. *)
RecoveryKeyDetermines ==
  \A i, j \in DOMAIN dids :
    dids[i].recoveryKey = dids[j].recoveryKey => dids[i].suffix = dids[j].suffix

KeysApart == \A i, j \in DOMAIN dids : dids[i].updateKey # dids[j].recoveryKey

(* Value j opens the two commitments of the DID.                           *)
Holds(j, suffix, updateCommitment, recoveryCommitment) ==
  /\ dids[j].suffix = suffix
  /\ Commit(dids[j].updateKey).commitment = updateCommitment
  /\ Commit(dids[j].recoveryKey).commitment = recoveryCommitment

(* Behind every request there is the value it was returned with, and, for  *)
(* an update, the value it was called on.                                  *)
Backed(req) ==
  /\ req.type \in {"create", "recover"} =>
       \E j \in DOMAIN dids :
         Holds(j, req.suffix, req.updateCommitment, req.recoveryCommitment)
  /\ req.type = "update" =>
       \E i, j \in DOMAIN dids :
         /\ dids[i].suffix = req.suffix /\ dids[j].suffix = req.suffix
         /\ req.revealValue = Commit(dids[i].updateKey).reveal
         /\ req.updateCommitment = Commit(dids[j].updateKey).commitment
         /\ dids[j].recoveryKey = dids[i].recoveryKey
  /\ req.type \in {"create", "update", "recover", "deactivate"}

(* Which key a request reveals: Deactivate, like Update, the update key.   *)
Reveals(req) ==
  /\ req.type \in {"update", "deactivate"} =>
       \E i \in DOMAIN dids : req.revealValue = Commit(dids[i].updateKey).reveal
  /\ req.type = "recover" =>
       \E i \in DOMAIN dids : req.revealValue = Commit(dids[i].recoveryKey).reveal

(* The key a request commits to is younger than the one it reveals.        *)
Rotates(req) ==
  /\ req.type = "update" => req.revealValue.key < req.updateCommitment.key
  /\ req.type = "recover" => req.revealValue.key < req.recoveryCommitment.key

NodeTyped ==
  /\ posted \subseteq issued
  /\ node \in [Suffixes -> NodeState]
  /\ log \in Seq(issued)

HandleInv ==
  /\ TypeInv
  /\ KeysGenerated
  /\ UpdateKeyDetermines
  /\ RecoveryKeyDetermines
  /\ KeysApart
  /\ \A req \in issued : Backed(req) /\ Reveals(req) /\ Rotates(req)

AnchorInv == HandleInv /\ NodeTyped /\ NeverLockedOut

LEMMA CommitInjective ==
  ASSUME NEW k, NEW l
  PROVE  /\ Commit(k).commitment = Commit(l).commitment => k = l
         /\ CommitmentOfReveal(Commit(k).reveal) = Commit(k).commitment
BY DEF Commit, CommitmentOfReveal

(* Values are only added, so what they back stays backed.                  *)
ValuesKept ==
  /\ DOMAIN dids \subseteq DOMAIN dids'
  /\ \A j \in DOMAIN dids : dids'[j] = dids[j]

LEMMA BackedKept ==
  ASSUME ValuesKept, NEW req, Backed(req)
  PROVE  Backed(req)'
BY DEF ValuesKept, Backed, Holds

LEMMA RevealsKept ==
  ASSUME ValuesKept, NEW req, Reveals(req)
  PROVE  Reveals(req)'
BY DEF ValuesKept, Reveals

LEMMA OwnedKept ==
  ASSUME ValuesKept, UNCHANGED anchorVars, NeverLockedOut
  PROVE  NeverLockedOut'
BY DEF ValuesKept, NeverLockedOut, anchorVars, Suffixes

(***************************************************************************)
(* Steps of the handles.                                                   *)
(***************************************************************************)
LEMMA QuietHandles ==
  ASSUME HandleInv, TypeInv', UNCHANGED <<dids, issued, nextKey>>
  PROVE  HandleInv' /\ ValuesKept
<1>1. ValuesKept
  BY DEF ValuesKept
<1>2. KeysGenerated' /\ UpdateKeyDetermines' /\ RecoveryKeyDetermines' /\ KeysApart'
  BY DEF HandleInv, KeysGenerated, UpdateKeyDetermines, RecoveryKeyDetermines, KeysApart
<1>3. \A req \in issued' : Backed(req)' /\ Reveals(req)' /\ Rotates(req)
  BY <1>1, BackedKept, RevealsKept DEF HandleInv
<1> QED
  BY <1>1, <1>2, <1>3 DEF HandleInv, Rotates

LEMMA CreatesHandles ==
  ASSUME HandleInv, TypeInv', Creates
  PROVE  HandleInv' /\ ValuesKept
<1>1. PICK doc \in Docs : doc # EmptyDoc /\ HasRoom /\ NewIONDID(doc)
  BY DEF Creates
<1>0. PICK req : req = NewCreateRequest(nextKey + 1, nextKey, doc)
  OBVIOUS
<1> DEFINE v == [suffix |-> req.suffix, arr |-> Len(arrays) + 1, len |-> 1,
                 updateKey |-> nextKey, recoveryKey |-> nextKey + 1]
<1>2. dids' = Append(dids, v) /\ issued' = issued \cup {req} /\ nextKey' = nextKey + 2
  BY <1>0, <1>1 DEF NewIONDID
<1>3. /\ v.suffix = req.suffix /\ v.updateKey = nextKey /\ v.recoveryKey = nextKey + 1
      /\ req.type = "create" /\ req.updateCommitment = Commit(nextKey).commitment
      /\ req.recoveryCommitment = Commit(nextKey + 1).commitment
  BY <1>0 DEF NewCreateRequest
<1>4. /\ dids \in Seq(DID) /\ DOMAIN dids = 1..Len(dids) /\ Len(dids) \in Nat
      /\ nextKey \in Nat
      /\ \A j \in DOMAIN dids : dids[j].updateKey \in Nat /\ dids[j].recoveryKey \in Nat
  BY DIDKeys DEF HandleInv, TypeInv, TypeOK, Key
<1> HIDE DEF v
<1>5. /\ DOMAIN dids' = 1..(Len(dids) + 1) /\ dids'[Len(dids) + 1] = v
      /\ \A j \in DOMAIN dids : dids'[j] = dids[j]
  BY <1>2, <1>4
<1>6. ValuesKept
  BY <1>4, <1>5 DEF ValuesKept
<1>7. \A j \in DOMAIN dids' : j \in DOMAIN dids \/ (j = Len(dids) + 1 /\ dids'[j] = v)
  BY <1>4, <1>5
<1>8. KeysGenerated'
  BY <1>2, <1>3, <1>4, <1>5, <1>7 DEF HandleInv, KeysGenerated
<1>9. UpdateKeyDetermines'
  <2>1. \A j \in DOMAIN dids : dids[j].updateKey # v.updateKey
    BY <1>3, <1>4 DEF HandleInv, KeysGenerated
  <2>2. ASSUME NEW j \in DOMAIN dids', NEW k \in DOMAIN dids',
               dids'[j].updateKey = dids'[k].updateKey
        PROVE  dids'[j].suffix = dids'[k].suffix /\ dids'[j].recoveryKey = dids'[k].recoveryKey
    <3>1. CASE j \in DOMAIN dids /\ k \in DOMAIN dids
      BY <1>5, <2>2, <3>1 DEF HandleInv, UpdateKeyDetermines
    <3>2. CASE dids'[j] = v /\ dids'[k] = v
      BY <3>2
    <3> QED BY <1>5, <1>7, <2>1, <2>2, <3>1, <3>2
  <2> QED BY <2>2 DEF UpdateKeyDetermines
<1>10. Backed(req)'
  <2>1. Len(dids) + 1 \in DOMAIN dids'
    BY <1>4, <1>5
  <2> QED BY <1>3, <1>5, <2>1 DEF Backed, Holds
<1>11. Reveals(req)' /\ Rotates(req)
  BY <1>3 DEF Reveals, Rotates
<1>12. \A q \in issued' : Backed(q)' /\ Reveals(q)' /\ Rotates(q)
  BY <1>2, <1>6, <1>10, <1>11, BackedKept, RevealsKept DEF HandleInv
<1>13. RecoveryKeyDetermines' /\ KeysApart'
  <2>1. \A j \in DOMAIN dids : /\ dids[j].recoveryKey \notin {v.recoveryKey, v.updateKey}
                               /\ dids[j].updateKey # v.recoveryKey
    BY <1>3, <1>4 DEF HandleInv, KeysGenerated
  <2>2. v.updateKey # v.recoveryKey
    BY <1>3, <1>4
  <2>3. RecoveryKeyDetermines'
    BY <1>5, <1>7, <2>1 DEF HandleInv, RecoveryKeyDetermines
  <2>4. KeysApart'
    BY <1>5, <1>7, <2>1, <2>2, <1>3, <1>4 DEF HandleInv, KeysApart, KeysGenerated
  <2> QED BY <2>3, <2>4
<1> QED
  BY <1>6, <1>8, <1>9, <1>12, <1>13 DEF HandleInv, Rotates

LEMMA ExtendsHandles ==
  ASSUME HandleInv, TypeInv', HasRoom, NEW i \in DOMAIN dids, Extends(i), nextKey' \in Nat \ {0}
  PROVE  HandleInv' /\ ValuesKept
<1>1. PICK req \in Request, u \in Key, r \in Key :
        ReturnDID(i, req, u, r) /\ Continues(i, req, u, r) /\ KeyChange(i, u, r)
  BY DEF Extends
<1>2. TypeInv
  BY DEF HandleInv
<1>3. PICK a : AppendsTo(a, i, req, u, r)
  BY <1>1, <1>2, AppendShape
<1> DEFINE v == [suffix |-> dids[i].suffix, arr |-> a, len |-> dids[i].len + 1,
                 updateKey |-> u, recoveryKey |-> r]
<1>4. dids' = Append(dids, v) /\ issued' = issued \cup {req}
  BY <1>1, <1>3 DEF AppendsTo, ReturnDID
<1>5. v.suffix = dids[i].suffix /\ v.updateKey = u /\ v.recoveryKey = r
  OBVIOUS
<1>6. /\ dids \in Seq(DID) /\ DOMAIN dids = 1..Len(dids) /\ Len(dids) \in Nat
      /\ nextKey \in Nat
      /\ \A j \in DOMAIN dids : dids[j].updateKey \in Nat /\ dids[j].recoveryKey \in Nat
  BY DIDKeys DEF HandleInv, TypeInv, TypeOK, Key
<1> HIDE DEF v
<1>7. /\ DOMAIN dids' = 1..(Len(dids) + 1) /\ dids'[Len(dids) + 1] = v
      /\ \A j \in DOMAIN dids : dids'[j] = dids[j]
  BY <1>4, <1>6
<1>8. ValuesKept
  BY <1>6, <1>7 DEF ValuesKept
<1>9. \A j \in DOMAIN dids' : j \in DOMAIN dids \/ (j = Len(dids) + 1 /\ dids'[j] = v)
  BY <1>6, <1>7
<1>10. u \in Nat /\ r \in Nat
  BY DEF Key
<1>11. KeysGenerated'
  <2>1. u < nextKey' /\ r < nextKey'
    BY <1>1, <1>6, <1>10 DEF HandleInv, KeysGenerated, KeyChange
  <2> QED
    BY <1>1, <1>5, <1>6, <1>7, <1>9, <2>1 DEF HandleInv, KeysGenerated, KeyChange
<1>12. UpdateKeyDetermines'
  <2>1. ASSUME NEW j \in DOMAIN dids, dids[j].updateKey = u
        PROVE  dids[j].suffix = v.suffix /\ dids[j].recoveryKey = r
    BY <1>1, <1>5, <1>6, <1>10, <2>1 DEF HandleInv, KeysGenerated, UpdateKeyDetermines, KeyChange
  <2> QED
    BY <1>5, <1>7, <1>9, <2>1 DEF HandleInv, UpdateKeyDetermines
<1>13. Backed(req)'
  <2>1. Len(dids) + 1 \in DOMAIN dids' /\ i \in DOMAIN dids' /\ dids'[i] = dids[i]
    BY <1>6, <1>7
  <2> QED
    BY <1>1, <1>5, <1>7, <2>1 DEF Backed, Holds, Continues
<1>14. Reveals(req)'
  <2>1. i \in DOMAIN dids' /\ dids'[i] = dids[i]
    BY <1>6, <1>7
  <2> QED
    BY <1>1, <2>1 DEF Reveals, Continues
<1>15. Rotates(req)
  <2>1. \A k, l : Commit(k).reveal.key = k /\ Commit(l).commitment.key = l
    BY DEF Commit
  <2>2. dids[i].updateKey < nextKey /\ dids[i].recoveryKey < nextKey
    BY DEF HandleInv, KeysGenerated
  <2> QED
    BY <1>1, <1>6, <1>10, <2>1, <2>2, SMTT(30) DEF Rotates, Continues
<1>16. \A q \in issued' : Backed(q)' /\ Reveals(q)' /\ Rotates(q)
  BY <1>4, <1>8, <1>13, <1>14, <1>15, BackedKept, RevealsKept DEF HandleInv
<1>17. RecoveryKeyDetermines'
  <2>1. ASSUME NEW j \in DOMAIN dids, dids[j].recoveryKey = r
        PROVE  dids[j].suffix = v.suffix
    BY <1>1, <1>5, <1>6, <1>10, <2>1 DEF HandleInv, KeysGenerated, RecoveryKeyDetermines, KeyChange
  <2> QED
    BY <1>5, <1>7, <1>9, <2>1 DEF HandleInv, RecoveryKeyDetermines
<1>18. KeysApart'
  <2>1. \A j \in DOMAIN dids : dids[j].updateKey # r /\ dids[j].recoveryKey # u
    BY <1>1, <1>6, <1>10 DEF HandleInv, KeysGenerated, KeysApart, KeyChange
  <2>2. u # r
    BY <1>1, <1>6, <1>10 DEF HandleInv, KeysGenerated, KeysApart, KeyChange
  <2> QED
    BY <1>5, <1>7, <1>9, <2>1, <2>2 DEF HandleInv, KeysApart
<1> QED
  BY <1>8, <1>11, <1>12, <1>16, <1>17, <1>18 DEF HandleInv, Rotates

LEMMA HandleStep ==
  ASSUME HandleInv, Next
  PROVE  HandleInv' /\ ValuesKept /\ issued \subseteq issued'
<1>1. TypeInv /\ TypeOK /\ TypeInv'
  BY NextType DEF HandleInv, TypeInv
<1>2. CASE Refused
  BY <1>1, <1>2, QuietHandles DEF Refused
<1>3. CASE Creates
  BY <1>1, <1>3, CreatesHandles DEF Creates, NewIONDID
<1>4. CASE \E i \in DOMAIN dids : HasRoom /\ nextKey' \in Nat \ {0} /\ Extends(i)
  BY <1>1, <1>4, ExtendsHandles DEF Extends, ReturnDID
<1> QED
  BY <1>1, <1>2, <1>3, <1>4, NextCases

(***************************************************************************)
(* Steps of the node.                                                      *)
(***************************************************************************)
LEMMA NodeApplied ==
  ASSUME AnchorInv, NEW req \in issued, NodeApplies(req)
  PROVE  NodeTyped' /\ NeverLockedOut'
<1> DEFINE s == req.suffix
<1>1. /\ UNCHANGED <<arrays, dids, current, issued, nextKey, err>>
      /\ posted' = posted \ {req} /\ log' = Append(log, req)
      /\ node' = [t \in Suffixes \cup {s} |-> IF t = s THEN After(req) ELSE node[t]]
      /\ Acceptable(req)
  BY DEF NodeApplies, vars
<1>2. /\ Backed(req) /\ req \in Request /\ log \in Seq(issued) /\ posted \subseteq issued
      /\ node \in [Suffixes -> NodeState]
  BY DEF AnchorInv, HandleInv, NodeTyped, TypeInv, TypeOK
<1>3. /\ req.type = "update" => s \in Suffixes
      /\ req.type = "update" => CommitmentOfReveal(req.revealValue) = node[s].updateCommitment
      /\ req.type = "update" => ~node[s].deactivated
  BY <1>1 DEF Acceptable, Opens
<1>4. After(req) \in NodeState
  <2>1. /\ req.updateCommitment \in Hash /\ req.recoveryCommitment \in Hash /\ NoHash \in Hash
        /\ req.type = "update" => node[s].recoveryCommitment \in Hash
    BY <1>2, <1>3 DEF Request, NodeState, NoHash, NoKey, Hash, Key
  <2> QED BY <2>1 DEF After, NodeState
<1>5. DOMAIN node' = Suffixes \cup {s} /\ node' \in [Suffixes \cup {s} -> NodeState]
  BY <1>1, <1>2, <1>4
<1>6. NodeTyped'
  BY <1>1, <1>2, <1>5 DEF NodeTyped, Suffixes
<1>7. ASSUME ~After(req).deactivated
      PROVE  \E j \in DOMAIN dids : Holds(j, s, After(req).updateCommitment,
                                             After(req).recoveryCommitment)
  <2>1. CASE req.type \in {"create", "recover"}
    <3>1. /\ After(req).updateCommitment = req.updateCommitment
          /\ After(req).recoveryCommitment = req.recoveryCommitment
      BY <2>1 DEF After
    <3> QED BY <1>2, <2>1, <3>1 DEF Backed
  <2>2. CASE req.type = "update"
    <3>1. /\ After(req).updateCommitment = req.updateCommitment
          /\ After(req).recoveryCommitment = node[s].recoveryCommitment
      BY <2>2 DEF After
    <3>2. PICK i, j \in DOMAIN dids :
            /\ dids[i].suffix = s /\ dids[j].suffix = s
            /\ req.revealValue = Commit(dids[i].updateKey).reveal
            /\ req.updateCommitment = Commit(dids[j].updateKey).commitment
            /\ dids[j].recoveryKey = dids[i].recoveryKey
      BY <1>2, <2>2 DEF Backed
    <3>3. PICK h \in DOMAIN dids :
            /\ dids[h].suffix = s
            /\ Commit(dids[h].updateKey).commitment = node[s].updateCommitment
            /\ Commit(dids[h].recoveryKey).commitment = node[s].recoveryCommitment
      BY <1>3, <2>2 DEF AnchorInv, NeverLockedOut
    <3>4. dids[h].updateKey = dids[i].updateKey
      BY <1>3, <2>2, <3>2, <3>3, CommitInjective
    <3>5. dids[h].recoveryKey = dids[i].recoveryKey
      BY <3>4 DEF AnchorInv, HandleInv, UpdateKeyDetermines
    <3> QED
      BY <3>1, <3>2, <3>3, <3>5 DEF Holds
  <2>3. CASE req.type = "deactivate"
    BY <1>7, <2>3 DEF After
  <2> QED
    BY <1>2, <2>1, <2>2, <2>3 DEF Backed
<1>8. ASSUME NEW t \in DOMAIN node', ~node'[t].deactivated
      PROVE  \E i \in DOMAIN dids :
               /\ dids[i].suffix = t
               /\ Commit(dids[i].updateKey).commitment = node'[t].updateCommitment
               /\ Commit(dids[i].recoveryKey).commitment = node'[t].recoveryCommitment
  <2>1. CASE t = s
    <3>1. node'[t] = After(req)
      BY <1>1, <1>5, <2>1
    <3> QED BY <1>7, <1>8, <2>1, <3>1 DEF Holds
  <2>2. CASE t # s
    <3>1. t \in Suffixes /\ node'[t] = node[t]
      BY <1>1, <1>5, <2>2
    <3> QED BY <1>8, <3>1 DEF AnchorInv, NeverLockedOut
  <2> QED BY <2>1, <2>2
<1>9. NeverLockedOut'
  BY <1>1, <1>8 DEF NeverLockedOut, Suffixes
<1> QED
  BY <1>6, <1>9

LEMMA AnchorStepInv == AnchorInv /\ [AnchorNext]_allVars => AnchorInv'
<1> SUFFICES ASSUME AnchorInv, [AnchorNext]_allVars PROVE AnchorInv'
  OBVIOUS
<1>1. HandleInv /\ NodeTyped /\ NeverLockedOut /\ TypeInv
  BY DEF AnchorInv, HandleInv
<1>2. ASSUME UNCHANGED vars PROVE HandleInv' /\ ValuesKept
  BY <1>1, <1>2, StutterType, QuietHandles DEF vars
<1>3. CASE UNCHANGED allVars
  BY <1>1, <1>2, <1>3 DEF allVars, vars, AnchorInv, NodeTyped, NeverLockedOut, Suffixes
<1>4. CASE Next /\ UNCHANGED anchorVars
  <2>1. HandleInv' /\ ValuesKept /\ issued \subseteq issued'
    BY <1>1, <1>4, HandleStep
  <2>2. NeverLockedOut'
    BY <1>1, <1>4, <2>1, OwnedKept
  <2>3. NodeTyped'
    BY <1>1, <1>4, <2>1 DEF NodeTyped, anchorVars, Suffixes
  <2> QED BY <2>1, <2>2, <2>3 DEF AnchorInv
<1>5. CASE AnchorStep
  <2>1. PICK req \in issued : Anchor(req) \/ RequestLost(req) \/ NodeApplies(req) \/ NodeRefuses(req)
    BY <1>5 DEF AnchorStep
  <2>2. UNCHANGED vars
    BY <2>1 DEF Anchor, RequestLost, NodeApplies, NodeRefuses
  <2>3. CASE NodeApplies(req)
    BY <1>2, <2>2, <2>3, NodeApplied DEF AnchorInv
  <2>4. CASE Anchor(req) \/ RequestLost(req) \/ NodeRefuses(req)
    <3>1. posted' \subseteq issued /\ UNCHANGED <<node, log>>
      BY <1>1, <2>4 DEF Anchor, RequestLost, NodeRefuses, NodeTyped
    <3>2. UNCHANGED <<dids, issued>>
      BY <2>2 DEF vars
    <3>3. NodeTyped' /\ NeverLockedOut'
      BY <1>1, <3>1, <3>2 DEF NodeTyped, NeverLockedOut, Suffixes
    <3> QED BY <1>2, <2>2, <3>3 DEF AnchorInv
  <2> QED BY <2>1, <2>3, <2>4
<1> QED
  BY <1>3, <1>4, <1>5 DEF AnchorNext

LEMMA AnchorInitInv == AnchorInit => AnchorInv
<1> SUFFICES ASSUME AnchorInit PROVE AnchorInv
  OBVIOUS
<1>1. TypeInv
  BY InitType DEF AnchorInit
<1>2. HandleInv
  BY <1>1 DEF AnchorInit, Init, HandleInv, KeysGenerated, UpdateKeyDetermines,
                 RecoveryKeyDetermines, KeysApart
<1>3. NodeTyped /\ NeverLockedOut
  BY DEF AnchorInit, Init, NodeTyped, NeverLockedOut, Suffixes
<1> QED
  BY <1>2, <1>3 DEF AnchorInv

(* Whatever was lost, delayed, repeated or abandoned, and whichever of the *)
(* values returned by NewIONDID, Update, Recover and Deactivate the caller *)
(* went on with: for every live DID at the node some returned value holds  *)
(* the private keys behind both commitments in force.                      *)
THEOREM OwnerNeverLockedOut == AnchorSpec => []NeverLockedOut
<1>1. AnchorInv => NeverLockedOut
  BY DEF AnchorInv
<1> QED
  BY <1>1, AnchorInitInv, AnchorStepInv, PTL DEF AnchorSpec

(* The node only ever handles requests that the SDK issued.                *)
THEOREM AnchorTypeCorrect == AnchorSpec => []AnchorTypeOK
<1>1. AnchorInv => AnchorTypeOK
  BY DEF AnchorInv, HandleInv, TypeInv, NodeTyped, AnchorTypeOK
<1> QED
  BY <1>1, AnchorInitInv, AnchorStepInv, PTL DEF AnchorSpec

(***************************************************************************)
(* Replays.  A request that was applied is spent: the key it revealed is   *)
(* older than the one in force.  An update key is compared together with   *)
(* the recovery key it comes with, because the update key that a recover   *)
(* request commits to may be older than keys that later updates of the     *)
(* abandoned line already revealed.                                        *)
(***************************************************************************)
OlderThan(i, state) ==
  \/ dids[i].recoveryKey < state.recoveryCommitment.key
  \/ /\ dids[i].recoveryKey = state.recoveryCommitment.key
     /\ dids[i].updateKey < state.updateCommitment.key

Spent(req) ==
  /\ req.suffix \in Suffixes
  /\ req.type = "deactivate" => node[req.suffix].deactivated
  /\ ~node[req.suffix].deactivated =>
       /\ req.type = "update" =>
            \E i \in DOMAIN dids : /\ req.revealValue = Commit(dids[i].updateKey).reveal
                                   /\ OlderThan(i, node[req.suffix])
       /\ req.type = "recover" =>
            req.revealValue.key < node[req.suffix].recoveryCommitment.key

ReplayInv ==
  /\ AnchorInv
  /\ \A p \in DOMAIN log : Spent(log[p])
  /\ NoReplay

LEMMA HashKeys ==
  ASSUME NEW k
  PROVE  /\ Commit(k).reveal.key = k /\ Commit(k).commitment.key = k
         /\ \A v : CommitmentOfReveal(v).key = v.key
BY DEF Commit, CommitmentOfReveal

(* What the node found when it accepts a request.                          *)
LEMMA AcceptedOpens ==
  ASSUME AnchorInv, NEW req \in issued, Acceptable(req)
  PROVE  LET s == req.suffix IN
         /\ req.type = "create" => s \notin Suffixes
         /\ req.type # "create" => s \in Suffixes /\ ~node[s].deactivated
         /\ req.type = "recover" => req.revealValue.key = node[s].recoveryCommitment.key
         /\ req.type = "deactivate" => req.revealValue.key = node[s].recoveryCommitment.key
         /\ req.type = "update" =>
              /\ req.revealValue.key = node[s].updateCommitment.key
              /\ \A i \in DOMAIN dids : req.revealValue = Commit(dids[i].updateKey).reveal =>
                   /\ dids[i].updateKey = node[s].updateCommitment.key
                   /\ dids[i].recoveryKey = node[s].recoveryCommitment.key
<1> DEFINE s == req.suffix
<1>1. /\ req.type = "create" => s \notin Suffixes
      /\ req.type # "create" => s \in Suffixes /\ ~node[s].deactivated
      /\ req.type \in {"recover", "deactivate"} =>
           CommitmentOfReveal(req.revealValue) = node[s].recoveryCommitment
      /\ req.type = "update" =>
           CommitmentOfReveal(req.revealValue) = node[s].updateCommitment
  BY DEF Acceptable, Opens
<1>2. ASSUME req.type = "update", NEW i \in DOMAIN dids,
             req.revealValue = Commit(dids[i].updateKey).reveal
      PROVE  /\ dids[i].updateKey = node[s].updateCommitment.key
             /\ dids[i].recoveryKey = node[s].recoveryCommitment.key
  <2>1. PICK h \in DOMAIN dids :
          /\ Commit(dids[h].updateKey).commitment = node[s].updateCommitment
          /\ Commit(dids[h].recoveryKey).commitment = node[s].recoveryCommitment
    BY <1>1, <1>2 DEF AnchorInv, NeverLockedOut
  <2>2. dids[i].updateKey = node[s].updateCommitment.key /\ dids[h].updateKey = dids[i].updateKey
    BY <1>1, <1>2, <2>1, HashKeys
  <2>3. dids[h].recoveryKey = dids[i].recoveryKey
    BY <2>2 DEF AnchorInv, HandleInv, UpdateKeyDetermines
  <2> QED
    BY <2>1, <2>2, <2>3, HashKeys
<1> QED
  BY <1>1, <1>2, HashKeys

LEMMA NodeKeys ==
  ASSUME NodeTyped, NEW s \in Suffixes
  PROVE  node[s].recoveryCommitment.key \in Nat /\ node[s].updateCommitment.key \in Nat
<1>1. node[s] \in NodeState
  BY DEF NodeTyped
<1> QED
  BY <1>1 DEF NodeState, Hash, Key

(* A spent request is refused.                                             *)
LEMMA SpentRefused ==
  ASSUME AnchorInv, NEW req \in issued, Spent(req)
  PROVE  ~Acceptable(req)
<1> SUFFICES ASSUME Acceptable(req) PROVE FALSE
  OBVIOUS
<1>1. Backed(req) /\ NodeTyped
  BY DEF AnchorInv, HandleInv
<1>2. req.type \in {"update", "recover"}
  BY <1>1, AcceptedOpens DEF Spent, Backed
<1>3. req.suffix \in Suffixes /\ ~node[req.suffix].deactivated
  BY <1>2, AcceptedOpens
<1>4. /\ node[req.suffix].recoveryCommitment.key \in Nat
      /\ node[req.suffix].updateCommitment.key \in Nat
  BY <1>1, <1>3, NodeKeys
<1>5. CASE req.type = "update"
  <2>1. PICK i \in DOMAIN dids : /\ req.revealValue = Commit(dids[i].updateKey).reveal
                                 /\ OlderThan(i, node[req.suffix])
    BY <1>3, <1>5 DEF Spent
  <2>2. /\ dids[i].updateKey = node[req.suffix].updateCommitment.key
        /\ dids[i].recoveryKey = node[req.suffix].recoveryCommitment.key
    BY <1>5, <2>1, AcceptedOpens
  <2> QED BY <1>4, <2>1, <2>2 DEF OlderThan
<1>6. CASE req.type = "recover"
  BY <1>3, <1>4, <1>6, AcceptedOpens DEF Spent
<1> QED
  BY <1>2, <1>5, <1>6

(* An accepted request is spent by it, and what was spent stays spent.     *)
LEMMA AppliedSpends ==
  ASSUME AnchorInv, AnchorInv', NEW req \in issued, NodeApplies(req),
         NEW q \in issued, q = req \/ Spent(q)
  PROVE  Spent(q)'
<1> DEFINE s == req.suffix
<1>1. /\ UNCHANGED <<arrays, dids, current, issued, nextKey, err>>
      /\ node' = [t \in Suffixes \cup {s} |-> IF t = s THEN After(req) ELSE node[t]]
      /\ Acceptable(req)
  BY DEF NodeApplies, vars
<1>2. DOMAIN node' = Suffixes \cup {s} /\ node'[s] = After(req)
      /\ \A t \in Suffixes : t # s => node'[t] = node[t]
  BY <1>1
<1>3. Backed(req) /\ Reveals(req) /\ Rotates(req) /\ Backed(q) /\ req \in Request
  BY DEF AnchorInv, HandleInv, TypeInv, TypeOK
<1>4. CASE q # req /\ q.suffix # s
  <2>1. q.suffix \in Suffixes /\ node'[q.suffix] = node[q.suffix] /\ Spent(q)
    BY <1>2, <1>4 DEF Spent
  <2> QED
    BY <1>1, <1>2, <2>1 DEF Spent, OlderThan, Suffixes
<1>5. CASE q.suffix = s
  <2>1. s \in DOMAIN node' /\ (After(req).deactivated <=> req.type = "deactivate")
    BY <1>2 DEF After
  <2>2. CASE req.type = "deactivate"
    BY <1>2, <1>5, <2>1, <2>2 DEF Spent, Suffixes
  <2>3. CASE req.type = "create"
    <3>1. s \notin Suffixes
      BY <1>1, <2>3, AcceptedOpens
    <3>2. q = req
      BY <1>5, <3>1 DEF Spent
    <3> QED BY <1>2, <2>1, <2>3, <3>2 DEF Spent, Suffixes
  <2>4. CASE req.type \in {"update", "recover"}
    <3>1. s \in Suffixes /\ ~node[s].deactivated /\ NodeTyped /\ NodeTyped'
      BY <1>1, <2>4, AcceptedOpens DEF AnchorInv
    <3> DEFINE R == node[s].recoveryCommitment.key
               U == node[s].updateCommitment.key
               RR == After(req).recoveryCommitment.key
               UU == After(req).updateCommitment.key
    <3>2. R \in Nat /\ U \in Nat
      BY <3>1, NodeKeys
    <3>3. req.updateCommitment.key \in Nat /\ req.recoveryCommitment.key \in Nat
      BY <1>3 DEF Request, Hash, Key
    <3>4. R < RR \/ (R = RR /\ U < UU /\ req.type = "update")
      <4>1. CASE req.type = "update"
        <5>1. U = req.revealValue.key
          BY <1>1, <4>1, AcceptedOpens
        <5> QED BY <1>3, <4>1, <5>1 DEF After, Rotates
      <4>2. CASE req.type = "recover"
        <5>1. R = req.revealValue.key
          BY <1>1, <4>2, AcceptedOpens
        <5> QED BY <1>3, <4>2, <5>1 DEF After, Rotates
      <4> QED BY <2>4, <4>1, <4>2
    <3>5. RR \in Nat /\ UU \in Nat
      BY <2>4, <3>2, <3>3 DEF After
    <3>6. \A i \in DOMAIN dids : dids[i].updateKey \in Nat /\ dids[i].recoveryKey \in Nat
      BY DIDKeys DEF AnchorInv, HandleInv, TypeInv, Key
    <3>7. q.type # "deactivate"
      BY <1>5, <2>4, <3>1 DEF Spent
    <3>8. ASSUME q.type = "update"
          PROVE  \E i \in DOMAIN dids : /\ q.revealValue = Commit(dids[i].updateKey).reveal
                                        /\ OlderThan(i, After(req))
      <4>1. CASE q = req
        <5>1. PICK i \in DOMAIN dids : q.revealValue = Commit(dids[i].updateKey).reveal
          BY <1>3, <3>8, <4>1 DEF Reveals
        <5>2. dids[i].updateKey = U /\ dids[i].recoveryKey = R
          BY <1>1, <3>8, <4>1, <5>1, AcceptedOpens
        <5> QED BY <3>2, <3>4, <3>5, <5>1, <5>2 DEF OlderThan
      <4>2. CASE Spent(q)
        <5>1. PICK i \in DOMAIN dids : /\ q.revealValue = Commit(dids[i].updateKey).reveal
                                       /\ OlderThan(i, node[s])
          BY <1>5, <3>1, <3>8, <4>2 DEF Spent
        <5> HIDE DEF R, U, RR, UU
        <5>2. dids[i].recoveryKey < R \/ (dids[i].recoveryKey = R /\ dids[i].updateKey < U)
          BY <5>1 DEF OlderThan, R, U
        <5>3. dids[i].recoveryKey < RR \/ (dids[i].recoveryKey = RR /\ dids[i].updateKey < UU)
          BY <3>2, <3>4, <3>5, <3>6, <5>2
        <5> QED BY <5>1, <5>3 DEF OlderThan, RR, UU
      <4> QED BY <4>1, <4>2
    <3>9. ASSUME q.type = "recover"
          PROVE  q.revealValue.key < RR
      <4>0. q.revealValue.key \in Nat
        BY DEF AnchorInv, HandleInv, TypeInv, TypeOK, Request, Hash, Key
      <4>1. CASE q = req
        BY <1>1, <3>4, <3>9, <4>1, AcceptedOpens
      <4>2. CASE Spent(q)
        <5>1. q.revealValue.key < R
          BY <1>5, <3>1, <3>9, <4>2 DEF Spent
        <5> HIDE DEF R, U, RR, UU
        <5> QED BY <3>2, <3>4, <3>5, <4>0, <5>1
      <4> QED BY <4>1, <4>2
    <3> QED
      BY <1>1, <1>2, <1>5, <2>1, <3>7, <3>8, <3>9 DEF Spent, OlderThan, Suffixes
  <2> QED
    BY <1>3, <2>2, <2>3, <2>4 DEF Backed
<1> QED
  BY <1>4, <1>5

LEMMA SpentKept ==
  ASSUME ValuesKept, UNCHANGED node, NEW q, Spent(q)
  PROVE  Spent(q)'
BY DEF ValuesKept, Spent, Suffixes, OlderThan

LEMMA ReplayStep == ReplayInv /\ [AnchorNext]_allVars => ReplayInv'
<1> SUFFICES ASSUME ReplayInv, [AnchorNext]_allVars PROVE ReplayInv'
  OBVIOUS
<1>1. AnchorInv /\ AnchorInv' /\ NoReplay /\ (\A p \in DOMAIN log : Spent(log[p]))
  BY AnchorStepInv DEF ReplayInv
<1>2. CASE UNCHANGED <<node, log>>
  <2>1. ValuesKept
    <3>1. CASE Next
      BY <1>1, <3>1, HandleStep DEF AnchorInv
    <3>2. CASE UNCHANGED vars
      BY <3>2 DEF vars, ValuesKept
    <3> QED
      BY <3>1, <3>2 DEF AnchorNext, AnchorStep, Anchor, RequestLost, NodeApplies, NodeRefuses,
                        allVars, vars
  <2> QED
    BY <1>1, <1>2, <2>1, SpentKept DEF ReplayInv, NoReplay
<1>3. CASE \E req \in issued : NodeApplies(req)
  <2>1. PICK req \in issued : NodeApplies(req)
    BY <1>3
  <2>2. log' = Append(log, req) /\ log \in Seq(issued) /\ Acceptable(req)
    BY <1>1, <2>1 DEF NodeApplies, AnchorInv, NodeTyped
  <2>3. /\ Len(log) \in Nat /\ DOMAIN log = 1..Len(log) /\ DOMAIN log' = 1..(Len(log) + 1)
        /\ log'[Len(log) + 1] = req
        /\ \A p \in DOMAIN log : log'[p] = log[p] /\ log[p] \in issued
    BY <2>2, AppendProperties
  <2>4. \A p \in DOMAIN log : log[p] # req
    BY <1>1, <2>2, SpentRefused
  <2>5. NoReplay'
    BY <1>1, <2>3, <2>4 DEF NoReplay
  <2>6. ASSUME NEW p \in DOMAIN log' PROVE Spent(log[p])'
    <3>1. CASE p \in DOMAIN log
      <4>1. Spent(log[p]) /\ log[p] \in issued
        BY <1>1, <2>3, <3>1
      <4>2. PICK q \in issued : q = log[p]
        BY <4>1
      <4>3. Spent(q)'
        BY <1>1, <2>1, <4>1, <4>2, AppliedSpends
      <4>4. log'[p] = q
        BY <2>3, <3>1, <4>2
      <4> QED BY <4>3, <4>4 DEF Spent
    <3>2. CASE p \notin DOMAIN log
      <4>1. Spent(req)'
        BY <1>1, <2>1, AppliedSpends
      <4>2. log'[p] = req
        BY <2>3, <3>2
      <4> QED BY <4>1, <4>2 DEF Spent
    <3> QED BY <3>1, <3>2
  <2> QED
    BY <1>1, <2>5, <2>6 DEF ReplayInv
<1> QED
  BY <1>2, <1>3 DEF AnchorNext, AnchorStep, Anchor, RequestLost, NodeRefuses, allVars, anchorVars

(* However often Anchor is called again with requests it was called with   *)
(* before, and whichever values the caller forks its requests from, the    *)
(* node applies every request at most once.                                *)
THEOREM RequestsAreNotReplayed == AnchorSpec => []NoReplay
<1>1. AnchorInit => ReplayInv
  BY AnchorInitInv DEF AnchorInit, ReplayInv, NoReplay
<1>2. ReplayInv => NoReplay
  BY DEF ReplayInv
<1> QED
  BY <1>1, <1>2, ReplayStep, PTL DEF AnchorSpec

(* A deactivate request reveals an update key where the node holds the     *)
(* commitment to a recovery key, and no key is both.                       *)
LEMMA DeactivateNotAccepted ==
  ASSUME AnchorInv, NEW req \in issued, req.type = "deactivate"
  PROVE  ~Acceptable(req)
<1> SUFFICES ASSUME Acceptable(req) PROVE FALSE
  OBVIOUS
<1>1. /\ req.suffix \in Suffixes /\ ~node[req.suffix].deactivated
      /\ req.revealValue.key = node[req.suffix].recoveryCommitment.key
  BY AcceptedOpens
<1>2. PICK i \in DOMAIN dids : req.revealValue = Commit(dids[i].updateKey).reveal
  BY DEF AnchorInv, HandleInv, Reveals
<1>3. PICK h \in DOMAIN dids :
        Commit(dids[h].recoveryKey).commitment = node[req.suffix].recoveryCommitment
  BY <1>1 DEF AnchorInv, NeverLockedOut
<1>4. dids[i].updateKey = dids[h].recoveryKey
  BY <1>1, <1>2, <1>3, HashKeys
<1> QED
  BY <1>4 DEF AnchorInv, HandleInv, KeysApart

(* A node that compares reveal values with commitments never deactivates a *)
(* DID: the Deactivate of the SDK reveals the wrong key, every time.       *)
NeverDeactivated ==
  /\ \A s \in Suffixes : ~node[s].deactivated
  /\ \A p \in DOMAIN log : log[p].type # "deactivate"

LEMMA LiveStep == AnchorInv /\ NeverDeactivated /\ [AnchorNext]_allVars => NeverDeactivated'
<1> SUFFICES ASSUME AnchorInv, NeverDeactivated, [AnchorNext]_allVars PROVE NeverDeactivated'
  OBVIOUS
<1>1. CASE UNCHANGED <<node, log>>
  BY <1>1 DEF NeverDeactivated, Suffixes
<1>2. CASE \E req \in issued : NodeApplies(req)
  <2>1. PICK req \in issued : NodeApplies(req)
    BY <1>2
  <2>2. /\ log' = Append(log, req) /\ log \in Seq(issued) /\ Acceptable(req)
        /\ node' = [t \in Suffixes \cup {req.suffix} |->
                      IF t = req.suffix THEN After(req) ELSE node[t]]
    BY <2>1 DEF NodeApplies, AnchorInv, NodeTyped
  <2>3. req.type # "deactivate" /\ ~After(req).deactivated
    BY <2>2, DeactivateNotAccepted DEF After
  <2>4. /\ Len(log) \in Nat /\ DOMAIN log = 1..Len(log) /\ DOMAIN log' = 1..(Len(log) + 1)
        /\ log'[Len(log) + 1] = req /\ \A p \in DOMAIN log : log'[p] = log[p]
    BY <2>2, AppendProperties
  <2>5. \A p \in DOMAIN log' : log'[p].type # "deactivate"
    BY <2>3, <2>4 DEF NeverDeactivated
  <2>6. \A t \in DOMAIN node' : ~node'[t].deactivated
    BY <2>2, <2>3 DEF NeverDeactivated
  <2> QED
    BY <2>5, <2>6 DEF NeverDeactivated, Suffixes
<1> QED
  BY <1>1, <1>2 DEF AnchorNext, AnchorStep, Anchor, RequestLost, NodeRefuses, allVars, anchorVars

(* Whatever callers do, no request that Deactivate returned is ever        *)
(* applied by the node, and every DID anchored there stays live.           *)
THEOREM DeactivateNeverTakesEffect == AnchorSpec => []NeverDeactivated
<1>1. AnchorInit => AnchorInv /\ NeverDeactivated
  BY AnchorInitInv DEF AnchorInit, NeverDeactivated, Suffixes
<1>2. AnchorInv /\ NeverDeactivated /\ [AnchorNext]_allVars => (AnchorInv /\ NeverDeactivated)'
  BY AnchorStepInv, LiveStep
<1> QED
  BY <1>1, <1>2, PTL DEF AnchorSpec

(***************************************************************************)
(* Linear use: the order of the log.  The key a request commits its DID's  *)
(* updates to serves as its date: it rises along the list of the newest    *)
(* value, and along the log.                                               *)
(***************************************************************************)
Date(req) == req.updateCommitment.key

SuffixGenerated == \A i \in DOMAIN dids : dids[i].suffix < nextKey

(* A recover request leaves behind every value with the recovery key that  *)
(* it reveals, and no caller goes on with one of them.                     *)
RecoveredIsLeft ==
  \A req \in issued : req.type = "recover" =>
    /\ \A i \in current : req.revealValue.key # dids[i].recoveryKey
    /\ \A j \in DOMAIN dids :
         dids[j].recoveryKey = req.revealValue.key => dids[j].updateKey < Date(req)

(* The newest value of a DID lists every request that may take effect ...  *)
Listed(i) ==
  \A req \in issued : req.suffix = dids[i].suffix /\ req.type # "deactivate" =>
    \E a \in 1..dids[i].len : Operations(dids[i])[a] = req

(* ... by date.                                                            *)
Rising(i) ==
  \A b \in 1..dids[i].len : Operations(dids[i])[b].type # "deactivate" =>
    /\ Date(Operations(dids[i])[b]) <= dids[i].updateKey
    /\ \A a \in 1..(b - 1) : Operations(dids[i])[a].type # "deactivate" =>
         Date(Operations(dids[i])[a]) < Date(Operations(dids[i])[b])

LineInv ==
  /\ LinearInv
  /\ HandleInv
  /\ UsedOnce
  /\ SuffixGenerated
  /\ RecoveredIsLeft
  /\ \A i \in current : Listed(i) /\ Rising(i)

LogRising ==
  \A p, q \in DOMAIN log : p < q /\ log[p].suffix = log[q].suffix =>
    Date(log[p]) < Date(log[q])

LogDated ==
  \A p \in DOMAIN log :
    /\ log[p].suffix \in Suffixes
    /\ Date(log[p]) <= node[log[p].suffix].updateCommitment.key

OrderInv == LineInv /\ AnchorInv /\ NeverDeactivated /\ LogRising /\ LogDated

(* What extending value i by a request changes, when the value returned is *)
(* the N-th.                                                               *)
ExtendedBy(i, N, req, u, r) ==
  LET n == dids[i].len
  IN  /\ N = Len(dids) + 1
      /\ Continues(i, req, u, r) /\ KeyChange(i, u, r)
      /\ DOMAIN dids = 1..Len(dids) /\ Len(dids) \in Nat /\ n \in Nat
      /\ DOMAIN dids' = 1..N
      /\ \A j \in DOMAIN dids : dids'[j] = dids[j]
      /\ dids'[N].suffix = dids[i].suffix /\ dids'[N].len = n + 1
      /\ dids'[N].updateKey = u /\ dids'[N].recoveryKey = r
      /\ \A k \in 1..n : Operations(dids[N])'[k] = Operations(dids[i])[k]
      /\ Operations(dids[N])'[n + 1] = req
      /\ issued' = issued \cup {req}
      /\ current' = (current \ {i}) \cup {N}

LEMMA ExtendsShape ==
  ASSUME TypeInv, HasRoom, NEW i \in DOMAIN dids, Extends(i)
  PROVE  \E N \in Nat, req \in Request, u \in Key, r \in Key : ExtendedBy(i, N, req, u, r)
<1>1. PICK req \in Request, u \in Key, r \in Key :
        ReturnDID(i, req, u, r) /\ Continues(i, req, u, r) /\ KeyChange(i, u, r)
  BY DEF Extends
<1>2. PICK a : AppendsTo(a, i, req, u, r)
  BY <1>1, AppendShape
<1> DEFINE v == [suffix |-> dids[i].suffix, arr |-> a, len |-> dids[i].len + 1,
                 updateKey |-> u, recoveryKey |-> r]
           n == dids[i].len
<1>0. PICK N \in Nat : N = Len(dids) + 1
  BY DEF TypeInv, TypeOK
<1>3. /\ dids' = Append(dids, v) /\ issued' = issued \cup {req}
      /\ current' = (current \ {i}) \cup {N}
      /\ \A k \in 1..n : arrays'[a][k] = arrays[dids[i].arr][k]
      /\ arrays'[a][n + 1] = req
  BY <1>0, <1>1, <1>2 DEF AppendsTo, ReturnDID
<1>4. /\ v.suffix = dids[i].suffix /\ v.updateKey = u /\ v.recoveryKey = r
      /\ v.arr = a /\ v.len = n + 1
  OBVIOUS
<1>5. dids \in Seq(DID) /\ DOMAIN dids = 1..Len(dids) /\ Len(dids) \in Nat /\ n \in Nat
  BY DIDKeys, SMTT(30) DEF TypeInv, TypeOK, DID
<1> HIDE DEF v
<1>6. /\ DOMAIN dids' = 1..N /\ dids'[N] = v
      /\ \A j \in DOMAIN dids : dids'[j] = dids[j]
  BY <1>0, <1>3, <1>5
<1>7. /\ Operations(dids[N])' = [k \in 1..(n + 1) |-> arrays'[a][k]]
      /\ Operations(dids[i]) = [k \in 1..n |-> arrays[dids[i].arr][k]]
  BY <1>3, <1>4, <1>6 DEF Operations
<1>8. /\ \A k \in 1..n : Operations(dids[N])'[k] = Operations(dids[i])[k]
      /\ Operations(dids[N])'[n + 1] = req
  BY <1>3, <1>5, <1>7
<1>9. ExtendedBy(i, N, req, u, r)
  BY <1>0, <1>1, <1>3, <1>4, <1>5, <1>6, <1>8 DEF ExtendedBy
<1> QED
  BY <1>9

(* The requests a value lists are dated by numbers.                        *)
LEMMA ListTyped ==
  ASSUME TypeInv, NEW i \in DOMAIN dids, NEW a \in 1..dids[i].len
  PROVE  Operations(dids[i])[a] \in Request /\ Date(Operations(dids[i])[a]) \in Nat
<1>1. /\ dids[i].arr \in DOMAIN arrays /\ dids[i].len \in 1..Len(arrays[dids[i].arr])
      /\ arrays \in Seq(Seq(Request))
  BY DEF TypeInv, TypeOK
<1>2. arrays[dids[i].arr] \in Seq(Request)
  BY <1>1
<1>3. Operations(dids[i])[a] = arrays[dids[i].arr][a] /\ a \in 1..Len(arrays[dids[i].arr])
  BY <1>1, <1>2 DEF Operations
<1>4. Operations(dids[i])[a] \in Request
  BY <1>2, <1>3
<1> QED
  BY <1>4 DEF Date, Request, Hash, Key

(* What other callers go on with keeps its list.                           *)
LEMMA LineKept ==
  ASSUME Undisturbed, NEW j \in DOMAIN dids, Listed(j), Rising(j),
         \A req \in issued' : req \in issued \/ req.suffix # dids[j].suffix
  PROVE  Listed(j)' /\ Rising(j)'
<1>1. dids'[j] = dids[j] /\ Operations(dids[j])' = Operations(dids[j])
  BY DEF Undisturbed, Operations
<1> QED
  BY <1>1 DEF Listed, Rising

LEMMA ExtendsLine ==
  ASSUME LineInv, LinearInv', HandleInv', Undisturbed, HasRoom, nextKey' \in Nat \ {0},
         NEW i \in current, Extends(i)
  PROVE  LineInv'
<1>1. TypeInv /\ i \in DOMAIN dids /\ current \subseteq DOMAIN dids /\ nextKey \in Nat
  BY DEF LineInv, LinearInv, TypeInv, TypeOK
<1>2. PICK N \in Nat, req \in Request, u \in Key, r \in Key : ExtendedBy(i, N, req, u, r)
  BY <1>1, ExtendsShape
<1> DEFINE n == dids[i].len
<1>3. /\ Continues(i, req, u, r) /\ KeyChange(i, u, r)
      /\ DOMAIN dids = 1..Len(dids) /\ Len(dids) \in Nat /\ n \in Nat
      /\ DOMAIN dids' = 1..N /\ N \in DOMAIN dids' /\ N \notin DOMAIN dids /\ N = Len(dids) + 1
      /\ \A j \in DOMAIN dids : dids'[j] = dids[j]
      /\ dids'[N].suffix = dids[i].suffix /\ dids'[N].len = n + 1
      /\ dids'[N].updateKey = u /\ dids'[N].recoveryKey = r
  BY <1>2 DEF ExtendedBy
<1>4. /\ \A k \in 1..n : Operations(dids[N])'[k] = Operations(dids[i])[k]
      /\ Operations(dids[N])'[n + 1] = req
      /\ issued' = issued \cup {req}
      /\ current' = (current \ {i}) \cup {N}
  BY <1>2 DEF ExtendedBy
<1>5. ASSUME NEW j \in DOMAIN dids
      PROVE  /\ dids[j].updateKey \in Nat /\ dids[j].recoveryKey \in Nat /\ dids[j].suffix \in Nat
             /\ dids[j].updateKey < nextKey /\ dids[j].recoveryKey < nextKey
             /\ dids[j].suffix < nextKey
  BY <1>1, DIDKeys DEF TypeInv, Key, LineInv, HandleInv, KeysGenerated, SuffixGenerated
<1>6. u \in Nat /\ r \in Nat /\ nextKey' \in Nat /\ nextKey <= nextKey' /\ req.suffix = dids[i].suffix
  BY <1>3 DEF Key, KeyChange, Continues
<1>7. \A j \in current' : j = N \/ (j \in current /\ j # i /\ j \in DOMAIN dids)
  BY <1>1, <1>4
<1>8. \A j \in current : j # i => dids[j].suffix # dids[i].suffix
  BY DEF LineInv, UsedOnce
<1>9. UsedOnce'
  BY <1>3, <1>7, <1>8 DEF LineInv, UsedOnce
<1>10. SuffixGenerated'
  BY <1>3, <1>5, <1>6, <1>1, SMTT(30) DEF SuffixGenerated
<1>11. RecoveredIsLeft'
  <2> SUFFICES ASSUME NEW q \in issued', q.type = "recover"
               PROVE  /\ \A j \in current' : q.revealValue.key # dids'[j].recoveryKey
                      /\ \A j \in DOMAIN dids' :
                           dids'[j].recoveryKey = q.revealValue.key => dids'[j].updateKey < Date(q)
    BY DEF RecoveredIsLeft, Date
  <2>1. \A j \in DOMAIN dids' : j = N \/ j \in DOMAIN dids
    BY <1>3
  <2>2. CASE q \in issued
    <3>1. /\ \A j \in current : q.revealValue.key # dids[j].recoveryKey
          /\ \A j \in DOMAIN dids :
               dids[j].recoveryKey = q.revealValue.key => dids[j].updateKey < Date(q)
      BY <2>2 DEF LineInv, RecoveredIsLeft
    <3>2. PICK h \in DOMAIN dids : q.revealValue = Commit(dids[h].recoveryKey).reveal
      BY <2>2 DEF LineInv, HandleInv, Reveals
    <3>3. q.revealValue.key < nextKey /\ q.revealValue.key \in Nat
      BY <1>5, <3>2, HashKeys
    <3>4. q.revealValue.key # r
      <4>1. r = dids[i].recoveryKey \/ nextKey <= r
        BY <1>3 DEF KeyChange
      <4> QED BY <1>1, <1>6, <3>1, <3>3, <4>1
    <3> QED
      BY <1>3, <1>7, <2>1, <3>1, <3>4
  <2>3. CASE q = req
    <3>1. q.revealValue.key = dids[i].recoveryKey /\ Date(q) = u /\ nextKey <= u /\ nextKey <= r
      BY <1>3, <2>3, HashKeys DEF Continues, Date
    <3>2. \A j \in current : j # i => dids[j].recoveryKey # dids[i].recoveryKey
      BY <1>1, <1>8 DEF LineInv, HandleInv, RecoveryKeyDetermines
    <3>3. q.revealValue.key # r
      BY <1>1, <1>5, <1>6, <3>1
    <3>4. \A j \in DOMAIN dids : dids[j].updateKey < Date(q)
      BY <1>1, <1>5, <1>6, <3>1
    <3> QED
      BY <1>3, <1>7, <2>1, <3>1, <3>2, <3>3, <3>4
  <2> QED
    BY <1>4, <2>2, <2>3
<1>12. ASSUME NEW j \in current' PROVE Listed(j)' /\ Rising(j)'
  <2>1. CASE j # N
    <3>1. j \in current /\ j \in DOMAIN dids /\ dids[j].suffix # dids[i].suffix
      BY <1>7, <1>8, <2>1
    <3>2. Listed(j) /\ Rising(j)
      BY <3>1 DEF LineInv
    <3> QED
      BY <1>4, <1>6, <3>1, <3>2, LineKept
  <2>2. CASE j = N
    <3> DEFINE new == Operations(dids[N])'
               old == Operations(dids[i])
    <3>1. (\A k \in 1..n : new[k] = old[k]) /\ new[n + 1] = req
      BY <1>4
    <3>2. /\ \A q \in issued : q.suffix = dids[i].suffix /\ q.type # "deactivate" =>
               \E a \in 1..n : old[a] = q
          /\ \A b \in 1..n : old[b].type # "deactivate" =>
               /\ Date(old[b]) <= dids[i].updateKey
               /\ \A a \in 1..(b - 1) : old[a].type # "deactivate" => Date(old[a]) < Date(old[b])
          /\ \A b \in 1..n : Date(old[b]) \in Nat
      BY <1>1, ListTyped DEF LineInv, Listed, Rising
    <3> HIDE DEF new, old
    <3>3. \A q \in issued' : q.suffix = dids[i].suffix /\ q.type # "deactivate" =>
            \E a \in 1..(n + 1) : new[a] = q
      <4>1. \A a \in 1..n : a \in 1..(n + 1)
        BY <1>3
      <4>2. n + 1 \in 1..(n + 1)
        BY <1>3
      <4> QED BY <1>4, <3>1, <3>2, <4>1, <4>2
    <3>4. dids[i].updateKey <= u
      BY <1>1, <1>3, <1>5, <1>6 DEF KeyChange
    <3>5. req.type # "deactivate" => Date(req) = u /\ dids[i].updateKey < u
      BY <1>1, <1>3, <1>5, <1>6, HashKeys DEF Continues, Date
    <3>6. ASSUME NEW b \in 1..(n + 1), new[b].type # "deactivate"
          PROVE  /\ Date(new[b]) <= u
                 /\ \A a \in 1..(b - 1) : new[a].type # "deactivate" =>
                      Date(new[a]) < Date(new[b])
      <4>1. CASE b \in 1..n
        <5>1. new[b] = old[b] /\ \A a \in 1..(b - 1) : a \in 1..n /\ new[a] = old[a]
          BY <1>3, <3>1, <4>1
        <5>2. Date(old[b]) <= dids[i].updateKey /\ Date(old[b]) \in Nat
          BY <3>2, <3>6, <4>1, <5>1
        <5>3. Date(new[b]) <= u
          BY <1>1, <1>5, <1>6, <3>4, <5>1, <5>2
        <5> QED BY <3>2, <3>6, <4>1, <5>1, <5>3
      <4>2. CASE b = n + 1
        <5>1. new[b] = req /\ Date(new[b]) = u /\ dids[i].updateKey < u
          BY <3>1, <3>5, <3>6, <4>2
        <5>2. ASSUME NEW a \in 1..(b - 1), new[a].type # "deactivate"
              PROVE  Date(new[a]) < Date(new[b])
          <6>1. a \in 1..n /\ new[a] = old[a]
            BY <1>3, <3>1, <4>2
          <6>2. Date(old[a]) <= dids[i].updateKey /\ Date(old[a]) \in Nat
            BY <3>2, <5>2, <6>1
          <6> QED BY <1>1, <1>5, <1>6, <5>1, <6>1, <6>2
        <5> QED BY <1>6, <5>1, <5>2
      <4> QED BY <1>3, <4>1, <4>2
    <3>7. Listed(N)'
      BY <1>3, <3>3 DEF Listed, new
    <3>8. Rising(N)'
      BY <1>3, <3>6 DEF Rising, Date, new
    <3> QED BY <2>2, <3>7, <3>8
  <2> QED BY <2>1, <2>2
<1> QED
  BY <1>9, <1>10, <1>11, <1>12 DEF LineInv

LEMMA CreatesLine ==
  ASSUME LineInv, LinearInv', HandleInv', Undisturbed, Creates
  PROVE  LineInv'
<1>1. TypeInv /\ current \subseteq DOMAIN dids /\ nextKey \in Nat
  BY DEF LineInv, LinearInv, TypeInv, TypeOK
<1>2. PICK doc \in Docs : doc # EmptyDoc /\ HasRoom /\ NewIONDID(doc)
  BY DEF Creates
<1>3. PICK N, req : N \in Nat /\ N = Len(dids) + 1
                    /\ req = NewCreateRequest(nextKey + 1, nextKey, doc)
  BY <1>1 DEF TypeInv, TypeOK
<1> DEFINE v == [suffix |-> req.suffix, arr |-> Len(arrays) + 1, len |-> 1,
                 updateKey |-> nextKey, recoveryKey |-> nextKey + 1]
<1>4. /\ arrays' = Append(arrays, <<req>>) /\ dids' = Append(dids, v)
      /\ issued' = issued \cup {req} /\ current' = current \cup {N} /\ nextKey' = nextKey + 2
  BY <1>2, <1>3 DEF NewIONDID
<1>5. /\ v.suffix = nextKey + 1 /\ v.arr = Len(arrays) + 1 /\ v.len = 1
      /\ v.updateKey = nextKey /\ v.recoveryKey = nextKey + 1
      /\ req.type = "create" /\ req.suffix = nextKey + 1 /\ Date(req) = nextKey
  BY <1>3, HashKeys DEF NewCreateRequest, Date
<1>6. /\ dids \in Seq(DID) /\ DOMAIN dids = 1..Len(dids) /\ Len(dids) \in Nat
      /\ arrays \in Seq(Seq(Request)) /\ Len(arrays) \in Nat
  BY <1>1 DEF TypeInv, TypeOK
<1> HIDE DEF v
<1>7. /\ DOMAIN dids' = 1..N /\ dids'[N] = v /\ N \in DOMAIN dids' /\ N \notin DOMAIN dids
      /\ \A j \in DOMAIN dids : dids'[j] = dids[j]
      /\ arrays'[Len(arrays) + 1] = <<req>>
      /\ \A j \in DOMAIN dids' : j = N \/ j \in DOMAIN dids
  BY <1>3, <1>4, <1>6
<1>8. ASSUME NEW j \in DOMAIN dids
      PROVE  /\ dids[j].recoveryKey \in Nat /\ dids[j].suffix \in Nat
             /\ dids[j].recoveryKey < nextKey /\ dids[j].suffix < nextKey
  BY <1>1, DIDKeys DEF TypeInv, Key, LineInv, HandleInv, KeysGenerated, SuffixGenerated
<1>9. \A j \in current' : j = N \/ (j \in current /\ j \in DOMAIN dids /\ j # N)
  BY <1>1, <1>4, <1>7
<1>10. \A j \in DOMAIN dids : dids[j].suffix # nextKey + 1
  BY <1>1, <1>8
<1>11. UsedOnce'
  BY <1>5, <1>7, <1>9, <1>10 DEF LineInv, UsedOnce
<1>12. SuffixGenerated'
  BY <1>1, <1>4, <1>5, <1>7, <1>8 DEF SuffixGenerated
<1>13. RecoveredIsLeft'
  <2> SUFFICES ASSUME NEW q \in issued', q.type = "recover"
               PROVE  /\ \A j \in current' : q.revealValue.key # dids'[j].recoveryKey
                      /\ \A j \in DOMAIN dids' :
                           dids'[j].recoveryKey = q.revealValue.key => dids'[j].updateKey < Date(q)
    BY DEF RecoveredIsLeft, Date
  <2>1. q \in issued
    BY <1>4, <1>5
  <2>2. /\ \A j \in current : q.revealValue.key # dids[j].recoveryKey
        /\ \A j \in DOMAIN dids :
             dids[j].recoveryKey = q.revealValue.key => dids[j].updateKey < Date(q)
    BY <2>1 DEF LineInv, RecoveredIsLeft
  <2>3. PICK h \in DOMAIN dids : q.revealValue = Commit(dids[h].recoveryKey).reveal
    BY <2>1 DEF LineInv, HandleInv, Reveals
  <2>4. q.revealValue.key # v.recoveryKey
    BY <1>1, <1>5, <1>8, <2>3, HashKeys
  <2> QED
    BY <1>7, <1>9, <2>2, <2>4
<1>14. ASSUME NEW j \in current' PROVE Listed(j)' /\ Rising(j)'
  <2>1. CASE j # N
    <3>1. j \in current /\ j \in DOMAIN dids /\ Listed(j) /\ Rising(j)
      BY <1>9, <2>1 DEF LineInv
    <3>2. \A q \in issued' : q \in issued \/ q.suffix # dids[j].suffix
      BY <1>4, <1>5, <1>10, <3>1
    <3> QED
      BY <3>1, <3>2, LineKept
  <2>2. CASE j = N
    <3> DEFINE new == Operations(dids[N])'
    <3>1. new = [k \in 1..1 |-> arrays'[Len(arrays) + 1][k]]
      BY <1>5, <1>7 DEF Operations
    <3>2. new[1] = req
      BY <1>7, <3>1
    <3> HIDE DEF new
    <3>3. ASSUME NEW q \in issued', q.suffix = nextKey + 1, q.type # "deactivate"
          PROVE  q = req
      <4>1. q \in issued => \E h \in DOMAIN dids : dids[h].suffix = q.suffix
        BY <3>3 DEF LineInv, HandleInv, Backed, Holds
      <4> QED BY <1>4, <1>10, <3>3, <4>1
    <3>4. Listed(N)'
      BY <1>5, <1>7, <3>2, <3>3 DEF Listed, new
    <3>5. Rising(N)'
      BY <1>1, <1>5, <1>7, <3>2 DEF Rising, Date, new
    <3> QED BY <2>2, <3>4, <3>5
  <2> QED BY <2>1, <2>2
<1> QED
  BY <1>11, <1>12, <1>13, <1>14 DEF LineInv

LEMMA QuietLine ==
  ASSUME LineInv, LinearInv', HandleInv', Undisturbed,
         UNCHANGED <<arrays, dids, current, issued, nextKey>>
  PROVE  LineInv'
<1>1. UsedOnce' /\ SuffixGenerated' /\ RecoveredIsLeft'
  BY DEF LineInv, UsedOnce, SuffixGenerated, RecoveredIsLeft, Date
<1>2. ASSUME NEW j \in current' PROVE Listed(j)' /\ Rising(j)'
  <2>1. j \in current /\ j \in DOMAIN dids
    BY DEF LineInv, LinearInv, TypeInv, TypeOK
  <2> QED BY <2>1, LineKept DEF LineInv
<1> QED
  BY <1>1, <1>2 DEF LineInv

LEMMA LineStep ==
  ASSUME LineInv, [Next]_vars, [OnceNext]_vars
  PROVE  LineInv' /\ ValuesKept
<1>1. LinearInv /\ HandleInv /\ TypeInv /\ TypeOK /\ LinearInv' /\ Undisturbed
  BY LinearStep DEF LineInv, LinearInv, TypeInv
<1>2. HandleInv' /\ ValuesKept
  <2>1. CASE Next
    BY <1>1, <2>1, HandleStep
  <2>2. CASE UNCHANGED vars
    <3>1. TypeInv'
      BY <1>1, <2>2, StutterType
    <3> QED BY <1>1, <2>2, <3>1, QuietHandles DEF vars
  <2> QED BY <2>1, <2>2
<1>3. CASE UNCHANGED vars
  BY <1>1, <1>2, <1>3, QuietLine DEF vars
<1>4. CASE Refused
  BY <1>1, <1>2, <1>4, QuietLine DEF Refused
<1>5. CASE Creates
  BY <1>1, <1>2, <1>5, CreatesLine
<1>6. CASE \E i \in current : HasRoom /\ nextKey' \in Nat \ {0} /\ Extends(i)
  BY <1>1, <1>2, <1>6, ExtendsLine
<1> QED
  BY <1>1, <1>2, <1>3, <1>4, <1>5, <1>6 DEF OnceNext

(* An accepted request is younger than what it replaces.                   *)
LEMMA AcceptedIsYounger ==
  ASSUME LineInv, AnchorInv, NEW req \in issued, Acceptable(req), req.suffix \in Suffixes
  PROVE  node[req.suffix].updateCommitment.key < Date(req)
<1> DEFINE s == req.suffix
<1>1. Backed(req) /\ Rotates(req)
  BY DEF AnchorInv, HandleInv
<1>2. req.type \in {"update", "recover"} /\ ~node[s].deactivated
  BY <1>1, AcceptedOpens, DeactivateNotAccepted DEF Backed
<1>3. CASE req.type = "update"
  BY <1>1, <1>3, AcceptedOpens DEF Rotates, Date
<1>4. CASE req.type = "recover"
  <2>1. PICK h \in DOMAIN dids :
          /\ Commit(dids[h].updateKey).commitment = node[s].updateCommitment
          /\ Commit(dids[h].recoveryKey).commitment = node[s].recoveryCommitment
    BY <1>2 DEF AnchorInv, NeverLockedOut
  <2>2. /\ dids[h].updateKey = node[s].updateCommitment.key
        /\ dids[h].recoveryKey = req.revealValue.key
    BY <1>4, <2>1, HashKeys, AcceptedOpens
  <2> QED
    BY <1>4, <2>2 DEF LineInv, RecoveredIsLeft
<1> QED
  BY <1>2, <1>3, <1>4

LEMMA AppliedInOrder ==
  ASSUME OrderInv, NEW req \in issued, NodeApplies(req)
  PROVE  LogRising' /\ LogDated'
<1> DEFINE s == req.suffix
<1>1. /\ log' = Append(log, req) /\ log \in Seq(issued) /\ Acceptable(req)
      /\ node' = [t \in Suffixes \cup {s} |-> IF t = s THEN After(req) ELSE node[t]]
      /\ NodeTyped /\ AnchorInv /\ LineInv /\ issued \subseteq Request
  BY DEF NodeApplies, OrderInv, AnchorInv, HandleInv, TypeInv, TypeOK, NodeTyped
<1>2. /\ Len(log) \in Nat /\ DOMAIN log = 1..Len(log) /\ DOMAIN log' = 1..(Len(log) + 1)
      /\ log'[Len(log) + 1] = req
      /\ \A p \in DOMAIN log : log'[p] = log[p] /\ log[p] \in issued
  BY <1>1, AppendProperties
<1>3. /\ DOMAIN node' = Suffixes \cup {s} /\ node'[s] = After(req)
      /\ \A t \in Suffixes : t # s => node'[t] = node[t]
  BY <1>1
<1>4. \A q \in issued : Date(q) \in Nat
  BY <1>1 DEF Date, Request, Hash, Key
<1>5. After(req).updateCommitment.key = Date(req)
  BY <1>1, DeactivateNotAccepted DEF After, Date
<1>6. ASSUME NEW p \in DOMAIN log, log[p].suffix = s
      PROVE  Date(log[p]) < Date(req)
  <2>1. s \in Suffixes /\ Date(log[p]) <= node[s].updateCommitment.key
    BY <1>6 DEF OrderInv, LogDated
  <2>2. node[s].updateCommitment.key < Date(req)
    BY <1>1, <2>1, AcceptedIsYounger
  <2>3. node[s].updateCommitment.key \in Nat
    BY <1>1, <2>1, NodeKeys
  <2>4. Date(log[p]) \in Nat /\ Date(req) \in Nat
    BY <1>2, <1>4
  <2> QED BY <2>1, <2>2, <2>3, <2>4
<1>7. ASSUME NEW p \in DOMAIN log', NEW q \in DOMAIN log', p < q, log'[p].suffix = log'[q].suffix
      PROVE  Date(log'[p]) < Date(log'[q])
  <2>1. p \in DOMAIN log
    BY <1>2, <1>7
  <2>2. CASE q \in DOMAIN log
    BY <1>2, <1>7, <2>1, <2>2 DEF OrderInv, LogRising
  <2>3. CASE q = Len(log) + 1
    BY <1>2, <1>6, <1>7, <2>1, <2>3
  <2> QED BY <1>2, <2>2, <2>3
<1>8. ASSUME NEW p \in DOMAIN log'
      PROVE  /\ log'[p].suffix \in DOMAIN node'
             /\ Date(log'[p]) <= node'[log'[p].suffix].updateCommitment.key
  <2>1. CASE p = Len(log) + 1
    BY <1>2, <1>3, <1>4, <1>5, <2>1
  <2>2. CASE p \in DOMAIN log /\ log[p].suffix = s
    BY <1>2, <1>3, <1>4, <1>5, <1>6, <2>2
  <2>3. CASE p \in DOMAIN log /\ log[p].suffix # s
    BY <1>2, <1>3, <2>3 DEF OrderInv, LogDated
  <2> QED BY <1>2, <2>1, <2>2, <2>3
<1> QED
  BY <1>7, <1>8 DEF LogRising, LogDated, Suffixes, Date

LEMMA OrderStep ==
  ASSUME OrderInv, CoverInv, [AnchorNext]_allVars, UsedOnce'
  PROVE  OrderInv'
<1>1. LineInv /\ AnchorInv /\ NeverDeactivated /\ TypeOK
  BY DEF OrderInv, LineInv, LinearInv, TypeInv
<1>2. AnchorInv' /\ NeverDeactivated'
  BY <1>1, AnchorStepInv, LiveStep
<1>3. [Next]_vars
  BY DEF AnchorNext, AnchorStep, Anchor, RequestLost, NodeApplies, NodeRefuses, allVars, vars
<1>4. [OnceNext]_vars
  BY <1>3, UsedOnceBefore
<1>5. LineInv'
  BY <1>1, <1>3, <1>4, LineStep
<1>6. CASE UNCHANGED <<node, log>>
  BY <1>1, <1>2, <1>5, <1>6 DEF OrderInv, LogRising, LogDated, Suffixes, Date
<1>7. CASE \E req \in issued : NodeApplies(req)
  BY <1>2, <1>5, <1>7, AppliedInOrder DEF OrderInv
<1> QED
  BY <1>6, <1>7 DEF AnchorNext, AnchorStep, Anchor, RequestLost, NodeRefuses,
                    allVars, anchorVars

LEMMA OrderInit == AnchorInit => OrderInv
<1> SUFFICES ASSUME AnchorInit PROVE OrderInv
  OBVIOUS
<1>1. AnchorInv /\ HandleInv /\ LinearInv
  BY AnchorInitInv, InitLinear DEF AnchorInit, AnchorInv
<1>2. LineInv
  BY <1>1 DEF AnchorInit, Init, LineInv, UsedOnce, SuffixGenerated, RecoveredIsLeft
<1> QED
  BY <1>1, <1>2 DEF AnchorInit, OrderInv, NeverDeactivated, LogRising, LogDated, Suffixes

LEMMA DatesOrder == OrderInv => AnchoredInOrder
<1> SUFFICES ASSUME OrderInv, NEW i \in current, NEW p \in DOMAIN log, NEW q \in DOMAIN log, p < q,
                    log[p].suffix = dids[i].suffix, log[q].suffix = dids[i].suffix
             PROVE  \E a, b \in 1..dids[i].len :
                      /\ a < b
                      /\ Operations(dids[i])[a] = log[p]
                      /\ Operations(dids[i])[b] = log[q]
  BY DEF AnchoredInOrder
<1>1. /\ TypeInv /\ i \in DOMAIN dids /\ dids[i].len \in Nat /\ Listed(i) /\ Rising(i)
      /\ log[p] \in issued /\ log[q] \in issued
      /\ log[p].type # "deactivate" /\ log[q].type # "deactivate"
      /\ Date(log[p]) < Date(log[q])
  <2>1. TypeInv /\ i \in DOMAIN dids /\ log \in Seq(issued)
    BY DEF OrderInv, LineInv, LinearInv, TypeInv, TypeOK, AnchorInv, NodeTyped
  <2>2. dids[i].len \in Nat
    BY <2>1, DIDKeys DEF TypeInv, DID
  <2>3. Date(log[p]) < Date(log[q])
    BY DEF OrderInv, LogRising
  <2> QED BY <2>1, <2>2, <2>3 DEF OrderInv, LineInv, NeverDeactivated
<1>2. PICK a \in 1..dids[i].len : Operations(dids[i])[a] = log[p]
  BY <1>1 DEF Listed
<1>3. PICK b \in 1..dids[i].len : Operations(dids[i])[b] = log[q]
  BY <1>1 DEF Listed
<1>4. Date(log[p]) \in Nat /\ Date(log[q]) \in Nat
  BY <1>1, <1>2, <1>3, ListTyped
<1>5. a # b
  BY <1>1, <1>2, <1>3, <1>4
<1>6. ~(b < a)
  <2> SUFFICES ASSUME b < a PROVE FALSE
    OBVIOUS
  <2>1. b \in 1..(a - 1)
    BY <1>1
  <2>2. Date(log[q]) < Date(log[p])
    BY <1>1, <1>2, <1>3, <2>1 DEF Rising
  <2> QED BY <1>1, <1>4, <2>2
<1> QED
  BY <1>1, <1>2, <1>3, <1>5, <1>6

(* Anchoring does not disturb the handles: what Spec promises of them also *)
(* holds while requests are under way.                                     *)
THEOREM AnchoringKeepsHandles == AnchorSpec => Spec
<1>1. AnchorInit => Init
  BY DEF AnchorInit
<1>2. [AnchorNext]_allVars => [Next]_vars
  BY DEF AnchorNext, AnchorStep, Anchor, RequestLost, NodeApplies, NodeRefuses, allVars, vars
<1> QED
  BY <1>1, <1>2, PTL DEF AnchorSpec, Spec

(* For as long as callers use each value once, the node applies the        *)
(* requests of a DID in the order in which the newest value lists them,    *)
(* whatever was lost, delayed or repeated on the way.                      *)
THEOREM LinearUseIsAnchoredInOrder == AnchorSpec => []AnchoredInOrder
<1> DEFINE Inv == CoverInv /\ (UsedOnce => OrderInv)
<1>1. AnchorInit => Inv
  BY OrderInit, CoverInit DEF AnchorInit
<1>2. ASSUME Inv, [AnchorNext]_allVars PROVE Inv'
  <2>1. [Next]_vars
    BY <1>2 DEF AnchorNext, AnchorStep, Anchor, RequestLost, NodeApplies, NodeRefuses, allVars, vars
  <2>2. CoverInv'
    BY <1>2, <2>1, CoverStep
  <2>3. UsedOnce' => OrderInv'
    BY <1>2, <2>1, UsedOnceBefore, OrderStep
  <2> QED BY <2>2, <2>3
<1>3. Inv => AnchoredInOrder
  BY DatesOrder DEF AnchoredInOrder
<1> QED
  BY <1>1, <1>2, <1>3, PTL DEF AnchorSpec
=============================================================================
