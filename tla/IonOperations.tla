---------------------------- MODULE IonOperations ----------------------------
(***************************************************************************)
(* The did:ion handles of did/ion/operations.go.                           *)
(*                                                                         *)
(* A DID value carries an update key, a recovery key and the list of the   *)
(* requests that were generated for it.  Update, Recover and Deactivate    *)
(* have value receivers and return a new DID value, but the list is a Go   *)
(* slice: append() writes into the backing array that older values still   *)
(* point at whenever that array has room.  The module therefore keeps the  *)
(* backing arrays explicitly, and a handle is a window (array, length) on  *)
(* one of them.                                                            *)
(*                                                                         *)
(* A generated key is a positive number, fresh on every generation.  The   *)
(* content of a document or of a state change is opaque here: only         *)
(* Document.IsEmpty and StateChange.IsValid are consulted (the latter is   *)
(* spelled out in IonDocument).                                            *)
(***************************************************************************)
EXTENDS Integers, Sequences

CONSTANTS
  Docs,           \* ion.Document values a caller passes
  EmptyDoc,       \* the Document for which IsEmpty() holds
  Changes,        \* StateChange values a caller passes
  ValidChanges,   \* the ones for which IsValid() returns nil
  NoBody,         \* the content of a request that carries no patches
  GrowCap(_),     \* capacity the Go runtime gives a slice that outgrew one
  MaxHandles      \* bound: DID values created in one behaviour


ASSUME BoundsAssumption == MaxHandles \in Nat

ASSUME InputsAssumption == ValidChanges \subseteq Changes

(* What the language promises of append: the new array is strictly larger. *)
ASSUME GrowCapAssumption ==
  \A c \in 1..MaxHandles : GrowCap(c) \in Nat /\ GrowCap(c) > c

VARIABLES
  arrays,    \* the backing arrays of every operations slice ever allocated
  dids,      \* the DID values, in the order in which they were returned
  current,   \* the values no call has been made on since they were returned
  issued,    \* the requests returned to callers
  nextKey,   \* the next key crypto.GenerateSECP256k1Key will return
  err        \* the outcome of the last call

vars == <<arrays, dids, current, issued, nextKey, err>>

(***************************************************************************)
(* Keys, hashes and requests.                                              *)
(***************************************************************************)
NoKey == 0
Key   == Nat
Hash  == [form : {"none", "reveal", "commitment"}, key : Key]
NoHash == [form |-> "none", key |-> NoKey]

(* Commit hashes the canonical JWK once for the reveal value and once more *)
(* for the commitment; both are injective in the key and never equal.      *)
Commit(key) ==
  [reveal     |-> [form |-> "reveal",     key |-> key],
   commitment |-> [form |-> "commitment", key |-> key]]

(* What a verifier of a request computes from a reveal value.              *)
CommitmentOfReveal(v) == [form |-> "commitment", key |-> v.key]

Types == {"none", "create", "update", "recover", "deactivate"}
Body  == Docs \cup Changes \cup {NoBody}

Request ==
  [type : Types, suffix : Key, revealValue : Hash, signedKey : Key,
   signedBy : Key, updateCommitment : Hash, recoveryCommitment : Hash,
   body : Body]

(* The content of a slot no append has written yet.                        *)
NilRequest ==
  [type |-> "none", suffix |-> NoKey, revealValue |-> NoHash,
   signedKey |-> NoKey, signedBy |-> NoKey, updateCommitment |-> NoHash,
   recoveryCommitment |-> NoHash, body |-> NoBody]

(* The suffix is the hash of the suffix data, which holds the commitment   *)
(* to a fresh recovery key: the recovery key names it.                     *)
NewCreateRequest(recoveryKey, updateKey, doc) ==
  [type |-> "create", suffix |-> recoveryKey, revealValue |-> NoHash,
   signedKey |-> NoKey, signedBy |-> NoKey,
   updateCommitment |-> Commit(updateKey).commitment,
   recoveryCommitment |-> Commit(recoveryKey).commitment, body |-> doc]

(* Mutant: reveals the key it should commit to.                            *)
UpdateRevealsNextKey(suffix, updateKey, nextUpdateKey, signer, change) ==
  [type |-> "update", suffix |-> suffix,
   revealValue |-> Commit(nextUpdateKey).reveal,
   signedKey |-> updateKey, signedBy |-> signer,
   updateCommitment |-> Commit(nextUpdateKey).commitment,
   recoveryCommitment |-> NoHash, body |-> change]

(* Mutant: commits to the key it reveals, so that the key is never rotated. *)
UpdateKeepsCommitment(suffix, updateKey, nextUpdateKey, signer, change) ==
  [type |-> "update", suffix |-> suffix,
   revealValue |-> Commit(updateKey).reveal,
   signedKey |-> updateKey, signedBy |-> signer,
   updateCommitment |-> Commit(updateKey).commitment,
   recoveryCommitment |-> NoHash, body |-> change]

NewUpdateRequest(suffix, updateKey, nextUpdateKey, signer, change) ==
  [type |-> "update", suffix |-> suffix,
   revealValue |-> Commit(updateKey).reveal,
   signedKey |-> updateKey, signedBy |-> signer,
   updateCommitment |-> Commit(nextUpdateKey).commitment,
   recoveryCommitment |-> NoHash, body |-> change]

NewRecoverRequest(suffix, recoveryKey, nextRecoveryKey, nextUpdateKey, doc, signer) ==
  [type |-> "recover", suffix |-> suffix,
   revealValue |-> Commit(recoveryKey).reveal,
   signedKey |-> recoveryKey, signedBy |-> signer,
   updateCommitment |-> Commit(nextUpdateKey).commitment,
   recoveryCommitment |-> Commit(nextRecoveryKey).commitment, body |-> doc]

NewDeactivateRequest(suffix, recoveryKey, signer) ==
  [type |-> "deactivate", suffix |-> suffix,
   revealValue |-> Commit(recoveryKey).reveal,
   signedKey |-> recoveryKey, signedBy |-> signer,
   updateCommitment |-> NoHash, recoveryCommitment |-> NoHash,
   body |-> NoBody]

(***************************************************************************)
(* DID values and their slices.                                            *)
(***************************************************************************)
DID == [suffix : Key, arr : Nat, len : Nat, updateKey : Key, recoveryKey : Key]

(* The receiver 0 stands for the zero value DID{}, for which IsEmpty().    *)
EmptyReceiver == 0
Receiver == {EmptyReceiver} \cup DOMAIN dids

(* (d DID) Operations(): what the window of d shows.                       *)
Operations(d) == [k \in 1..d.len |-> arrays[d.arr][k]]

(* Mutant: the request overwrites the last one instead of following it.    *)
AppendOverLast(d, req) ==
  /\ d.len < Len(arrays[d.arr])
  /\ arrays' = [arrays EXCEPT ![d.arr] = [@ EXCEPT ![d.len] = req]]

(* append(d.operations, req): a slot of the same array when there is one,  *)
(* else a copy into a larger array.                                        *)
AppendInPlace(d, req) ==
  /\ d.len < Len(arrays[d.arr])
  /\ arrays' = [arrays EXCEPT ![d.arr] = [@ EXCEPT ![d.len + 1] = req]]

AppendGrow(d, req) ==
  /\ d.len = Len(arrays[d.arr])
  /\ arrays' = Append(arrays,
       [k \in 1..GrowCap(d.len) |->
          IF k <= d.len THEN arrays[d.arr][k]
          ELSE IF k = d.len + 1 THEN req ELSE NilRequest])

(* Mutant: the literal takes d.operations, not the result of append.       *)
ReturnOldWindow(i, req, updateKey, recoveryKey) ==
  LET d == dids[i]
      Value(arr) == [suffix |-> d.suffix, arr |-> arr, len |-> d.len,
                     updateKey |-> updateKey, recoveryKey |-> recoveryKey]
  IN  /\ AppendInPlace(d, req) \/ AppendGrow(d, req)
      /\ dids' = Append(dids, Value(d.arr))
      /\ current' = (current \ {i}) \cup {Len(dids) + 1}
      /\ issued' = issued \cup {req}
      /\ err' = "nil"

(* The tail of the three methods: the DID literal around the append, and   *)
(* the two results.                                                        *)
ReturnDID(i, req, updateKey, recoveryKey) ==
  LET d == dids[i]
      Value(arr) == [suffix |-> d.suffix, arr |-> arr, len |-> d.len + 1,
                     updateKey |-> updateKey, recoveryKey |-> recoveryKey]
  IN  /\ \/ AppendInPlace(d, req) /\ dids' = Append(dids, Value(d.arr))
         \/ AppendGrow(d, req) /\ dids' = Append(dids, Value(Len(arrays) + 1))
      /\ current' = (current \ {i}) \cup {Len(dids) + 1}
      /\ issued' = issued \cup {req}
      /\ err' = "nil"

Fails(e) == err' = e /\ UNCHANGED <<arrays, dids, current, issued, nextKey>>

(***************************************************************************)
(* The operations.                                                         *)
(***************************************************************************)
Init ==
  /\ arrays = <<>>
  /\ dids = <<>>
  /\ current = {}
  /\ issued = {}
  /\ nextKey = 1
  /\ err = "nil"

HasRoom == Len(dids) < MaxHandles

(* NewIONDID(doc): the update key is generated first, then the recovery    *)
(* key; []any{createRequest} allocates an array of capacity one.           *)
NewIONDID(doc) ==
  \/ doc = EmptyDoc /\ Fails("document cannot be empty")
  \/ /\ doc # EmptyDoc /\ HasRoom
     /\ LET updateKey   == nextKey
            recoveryKey == nextKey + 1
            req         == NewCreateRequest(recoveryKey, updateKey, doc)
        IN  /\ arrays' = Append(arrays, <<req>>)
            /\ dids' = Append(dids, [suffix |-> req.suffix, arr |-> Len(arrays) + 1,
                  len |-> 1, updateKey |-> updateKey, recoveryKey |-> recoveryKey])
            /\ issued' = issued \cup {req}
     /\ current' = current \cup {Len(dids) + 1}
     /\ nextKey' = nextKey + 2
     /\ err' = "nil"

(* Mutant: the returned value keeps the update key that was just revealed. *)
UpdateKeepsKey(i, change) ==
  \/ i = EmptyReceiver /\ Fails("DID cannot be empty")
  \/ /\ i # EmptyReceiver /\ change \notin ValidChanges
     /\ Fails("invalid state change")
  \/ /\ i # EmptyReceiver /\ change \in ValidChanges /\ HasRoom
     /\ ReturnDID(i, NewUpdateRequest(dids[i].suffix, dids[i].updateKey, nextKey,
                                      dids[i].updateKey, change),
                  dids[i].updateKey, dids[i].recoveryKey)
     /\ nextKey' = nextKey + 1

(* (d DID) Update(stateChange).                                            *)
Update(i, change) ==
  \/ i = EmptyReceiver /\ Fails("DID cannot be empty")
  \/ /\ i # EmptyReceiver /\ change \notin ValidChanges
     /\ Fails("invalid state change")
  \/ /\ i # EmptyReceiver /\ change \in ValidChanges /\ HasRoom
     /\ ReturnDID(i, NewUpdateRequest(dids[i].suffix, dids[i].updateKey, nextKey,
                                      dids[i].updateKey, change),
                  nextKey, dids[i].recoveryKey)
     /\ nextKey' = nextKey + 1

(* Mutant: the two generated keys are swapped in the returned value.       *)
RecoverSwapsKeys(i, doc) ==
  \/ i = EmptyReceiver /\ Fails("DID cannot be empty")
  \/ i # EmptyReceiver /\ doc = EmptyDoc /\ Fails("document cannot be empty")
  \/ /\ i # EmptyReceiver /\ doc # EmptyDoc /\ HasRoom
     /\ ReturnDID(i, NewRecoverRequest(dids[i].suffix, dids[i].recoveryKey, nextKey,
                                       nextKey + 1, doc, dids[i].updateKey),
                  nextKey, nextKey + 1)
     /\ nextKey' = nextKey + 2

(* (d DID) Recover(doc): the recovery key is generated first, and the      *)
(* request is signed with the current update key.                          *)
Recover(i, doc) ==
  \/ i = EmptyReceiver /\ Fails("DID cannot be empty")
  \/ i # EmptyReceiver /\ doc = EmptyDoc /\ Fails("document cannot be empty")
  \/ /\ i # EmptyReceiver /\ doc # EmptyDoc /\ HasRoom
     /\ ReturnDID(i, NewRecoverRequest(dids[i].suffix, dids[i].recoveryKey, nextKey,
                                       nextKey + 1, doc, dids[i].updateKey),
                  nextKey + 1, nextKey)
     /\ nextKey' = nextKey + 2

(* (d DID) Deactivate(): passes and signs with the update key, and keeps   *)
(* both keys.                                                              *)
Deactivate(i) ==
  \/ i = EmptyReceiver /\ Fails("DID cannot be empty")
  \/ /\ i # EmptyReceiver /\ HasRoom
     /\ ReturnDID(i, NewDeactivateRequest(dids[i].suffix, dids[i].updateKey,
                                          dids[i].updateKey),
                  dids[i].updateKey, dids[i].recoveryKey)
     /\ UNCHANGED nextKey

(* Callers may invoke a method on any value they ever obtained.            *)
Next ==
  \/ \E doc \in Docs : NewIONDID(doc)
  \/ \E i \in Receiver, change \in Changes : Update(i, change)
  \/ \E i \in Receiver, doc \in Docs : Recover(i, doc)
  \/ \E i \in Receiver : Deactivate(i)

Spec == Init /\ [][Next]_vars

(***************************************************************************)
(* Properties.                                                             *)
(***************************************************************************)
Errors == {"nil", "DID cannot be empty", "document cannot be empty",
           "invalid state change"}

(* Every slice window lies within its backing array, and every variable    *)
(* has the shape the code gives it.                                        *)
TypeOK ==
  /\ arrays \in Seq(Seq(Request))
  /\ dids \in Seq(DID)
  /\ \A i \in DOMAIN dids :
       /\ dids[i].arr \in DOMAIN arrays
       /\ dids[i].len \in 1..Len(arrays[dids[i].arr])
  /\ current \subseteq DOMAIN dids
  /\ issued \subseteq Request
  /\ nextKey \in Nat \ {0}
  /\ err \in Errors

(* Linear use, the usage of the package documentation and the tests: every *)
(* call was made on the value the previous call returned, so that each DID *)
(* has one value on which nothing has been called yet.  A second call on   *)
(* an older value leaves two of them, for good.                            *)
UsedOnce ==
  \A i, j \in current : dids[i].suffix = dids[j].suffix => i = j

(* The request of the first n that last set the update commitment is the   *)
(* one at position k.                                                      *)
SetsUpdate(ops, k, n) ==
  /\ ops[k].type # "deactivate"
  /\ \A j \in (k + 1)..n : ops[j].type = "deactivate"

(* ... and the recovery commitment, which only create and recover set.     *)
SetsRecovery(ops, k, n) ==
  /\ ops[k].type \in {"create", "recover"}
  /\ \A j \in (k + 1)..n : ops[j].type \in {"update", "deactivate"}

(* The private keys a DID value holds (GetUpdatePrivateKey and             *)
(* GetRecoveryPrivateKey) open the commitments that its own Operations()   *)
(* leave in force, in linear use.  A value whose list no longer ends in    *)
(* those commitments could never be updated or recovered from what it says *)
(* of itself.                                                              *)
OperationsCommitToKeys ==
  UsedOnce => \A i \in DOMAIN dids :
    LET d   == dids[i]
        ops == Operations(d)
    IN  /\ \E k \in 1..d.len :
             /\ SetsUpdate(ops, k, d.len)
             /\ ops[k].updateCommitment = Commit(d.updateKey).commitment
        /\ \E k \in 1..d.len :
             /\ SetsRecovery(ops, k, d.len)
             /\ ops[k].recoveryCommitment = Commit(d.recoveryKey).commitment

(* Within the Operations() of a value, each update opens the commitment    *)
(* left by the requests before it, and so does each recover: in linear use *)
(* the list, replayed in order, is a valid chain.                          *)
RevealsOpenCommitments ==
  UsedOnce => \A i \in DOMAIN dids :
    LET ops == Operations(dids[i]) IN
      \A n \in 1..dids[i].len :
        /\ ops[n].type = "update" =>
             \E k \in 1..(n - 1) :
               /\ SetsUpdate(ops, k, n - 1)
               /\ ops[k].updateCommitment = CommitmentOfReveal(ops[n].revealValue)
        /\ ops[n].type = "recover" =>
             \E k \in 1..(n - 1) :
               /\ SetsRecovery(ops, k, n - 1)
               /\ ops[k].recoveryCommitment = CommitmentOfReveal(ops[n].revealValue)

(* A call leaves what the values already returned show.                    *)
LeavesValues ==
  \A i \in DOMAIN dids :
    /\ dids'[i] = dids[i]
    /\ Operations(dids[i])' = Operations(dids[i])

(* "All receiver methods are side effect free": no call changes what an    *)
(* already returned value shows.                                           *)
SideEffectFree == [][LeavesValues]_vars

(* They are for as long as every value is used once, whatever spare        *)
(* capacity append() finds.                                                *)
SideEffectFreeOnce == [][UsedOnce' => LeavesValues]_vars

(* "recoveryKey" is what NewDeactivateRequest and NewRecoverRequest take,  *)
(* reveal and put into the signed data, and what their tests sign with: a  *)
(* value that ends in such a request revealed the recovery key its own     *)
(* list committed to before, and signed with it.                           *)
RecoveryKeyAuthorises ==
  \A i \in DOMAIN dids :
    LET ops == Operations(dids[i])
        n   == dids[i].len
    IN  ops[n].type \in {"recover", "deactivate"} =>
          /\ ops[n].signedBy = ops[n].signedKey
          /\ \E k \in 1..(n - 1) :
               /\ SetsRecovery(ops, k, n - 1)
               /\ ops[k].recoveryCommitment = CommitmentOfReveal(ops[n].revealValue)

(* The part of the inductive invariant that makes linear use safe: the     *)
(* value a caller continues from has the longest window on its array.      *)
CurrentIsLongest ==
  UsedOnce => \A i \in current : \A j \in DOMAIN dids :
    i # j /\ dids[i].arr = dids[j].arr => dids[j].len < dids[i].len
=============================================================================
