------------------------------ MODULE IonAnchor ------------------------------
(***************************************************************************)
(* The did:ion handles of IonOperations together with Resolver.Anchor      *)
(* (did/ion/resolver.go) and the ION node behind it.                       *)
(*                                                                         *)
(* Anchor is one HTTP POST: the call keeps no state and does not retry.    *)
(* It returns an error when the request was lost, when the node refused    *)
(* it, and also when the node applied it and the answer was lost or could  *)
(* not be parsed, so its result tells the caller too little to choose by:  *)
(* whatever it was, the caller may call Anchor again with any request it   *)
(* holds, or go on with any DID value it holds.  The model allows both at  *)
(* all times and leaves the returned result out of the state.              *)
(*                                                                         *)
(* The node is outside the repository.  It is modelled from what the       *)
(* requests carry for it: a reveal value to be compared with the           *)
(* commitment in force and signed data.                                    *)
(***************************************************************************)
EXTENDS IonOperations

CONSTANT VerifiesSignature   \* does the node check the signed data?

ASSUME VerifiesSignatureAssumption == VerifiesSignature \in BOOLEAN

VARIABLES
  posted,     \* requests of Anchor calls that the node has not read yet
  node,       \* per DID suffix, the commitments in force at the node
  log         \* the requests the node applied, in order

anchorVars == <<posted, node, log>>
allVars    == <<arrays, dids, current, issued, nextKey, err, posted, node, log>>

Suffixes  == DOMAIN node
NodeState == [updateCommitment : Hash, recoveryCommitment : Hash,
              deactivated : BOOLEAN]

(* The checks of a Sidetree node on a request.                             *)
SignatureOK(req) == VerifiesSignature => req.signedBy = req.signedKey

Opens(req, commitment) ==
  /\ CommitmentOfReveal(req.revealValue) = commitment
  /\ SignatureOK(req)

Acceptable(req) ==
  LET s == req.suffix IN
  IF req.type = "create" THEN s \notin Suffixes
  ELSE /\ s \in Suffixes
       /\ ~node[s].deactivated
       /\ Opens(req, IF req.type = "update" THEN node[s].updateCommitment
                                            ELSE node[s].recoveryCommitment)

(* The state the node keeps for the suffix of an accepted request.         *)
After(req) ==
  LET s == req.suffix IN
  [updateCommitment   |-> IF req.type = "deactivate" THEN NoHash
                          ELSE req.updateCommitment,
   recoveryCommitment |-> IF req.type = "update" THEN node[s].recoveryCommitment
                          ELSE req.recoveryCommitment,
   deactivated        |-> req.type = "deactivate"]

AnchorInit ==
  /\ Init
  /\ posted = {}
  /\ node = [s \in {} |-> NoHash]
  /\ log = <<>>

(* Mutant: the signed data does not survive the encoding.                  *)
AnchorUnsigned(req) ==
  /\ posted' = posted \cup {[req EXCEPT !.signedBy = NoKey]}
  /\ UNCHANGED <<vars, node, log>>

(* Resolver.Anchor(op): the POST leaves the process.                       *)
Anchor(req) ==
  /\ posted' = posted \cup {req}
  /\ UNCHANGED <<vars, node, log>>

(* The connection breaks before the node reads the request.                *)
RequestLost(req) ==
  /\ req \in posted
  /\ posted' = posted \ {req}
  /\ UNCHANGED <<vars, node, log>>

NodeApplies(req) ==
  /\ req \in posted
  /\ Acceptable(req)
  /\ posted' = posted \ {req}
  /\ node' = [s \in Suffixes \cup {req.suffix} |->
                IF s = req.suffix THEN After(req) ELSE node[s]]
  /\ log' = Append(log, req)
  /\ UNCHANGED vars

(* A status outside 2xx: Anchor returns "anchor operation failed".         *)
NodeRefuses(req) ==
  /\ req \in posted
  /\ ~Acceptable(req)
  /\ posted' = posted \ {req}
  /\ UNCHANGED <<vars, node, log>>

AnchorStep ==
  \E req \in issued :
    \/ Anchor(req)
    \/ RequestLost(req)
    \/ NodeApplies(req)
    \/ NodeRefuses(req)

AnchorNext == (Next /\ UNCHANGED anchorVars) \/ AnchorStep
AnchorSpec == AnchorInit /\ [][AnchorNext]_allVars

(***************************************************************************)
(* Properties.                                                             *)
(***************************************************************************)

(* The node knows only what callers were given: every request in flight or *)
(* applied was issued by the SDK.                                          *)
AnchorTypeOK ==
  /\ TypeOK
  /\ posted \subseteq issued
  /\ node \in [Suffixes -> NodeState]
  /\ log \in Seq(issued)

(* No sequence of lost, delayed, repeated and abandoned operations, on any *)
(* of the values ever returned, locks the owner out: for every live DID at *)
(* the node some value the SDK returned holds both private keys that open  *)
(* the commitments in force.                                               *)
NeverLockedOut ==
  \A s \in Suffixes : ~node[s].deactivated =>
    \E i \in DOMAIN dids :
      /\ dids[i].suffix = s
      /\ Commit(dids[i].updateKey).commitment = node[s].updateCommitment
      /\ Commit(dids[i].recoveryKey).commitment = node[s].recoveryCommitment

(* Calling Anchor again with a request that was already applied never      *)
(* applies it twice: every key is revealed to the node once.               *)
NoReplay ==
  \A p, q \in DOMAIN log : log[p] = log[q] => p = q

(* When callers use each value once, the node applies the requests of a    *)
(* DID in the order in which the newest value lists them, whatever was     *)
(* lost, delayed or repeated on the way.                                   *)
AnchoredInOrder ==
  UsedOnce => \A i \in current : \A p, q \in DOMAIN log :
    (p < q /\ log[p].suffix = dids[i].suffix /\ log[q].suffix = dids[i].suffix) =>
      \E a, b \in 1..dids[i].len :
        /\ a < b
        /\ Operations(dids[i])[a] = log[p]
        /\ Operations(dids[i])[b] = log[q]
=============================================================================
