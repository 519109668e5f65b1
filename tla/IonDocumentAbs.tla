--------------------------- MODULE IonDocumentAbs ---------------------------
(***************************************************************************)
(* What applying Sidetree patches to a DID document promises, with no      *)
(* lists, no order and no loops: a set of keys, a set of services and a    *)
(* relation between purposes and keys.  Removing a key removes every       *)
(* reference to it.  A call fails exactly when a patch removes a key that  *)
(* is not there or names a purpose that does not exist, and a failed call  *)
(* yields no document.  This is promised for as long as every patch        *)
(* introduces its ids once; after that nothing is.                         *)
(***************************************************************************)
CONSTANTS Ids, Purposes, AllPurposes

VARIABLES
  op,         \* the patch to apply next, reduced to sets
  keys,       \* ids of the verification methods
  services,   \* ids of the services
  refs,       \* pairs <<purpose, key id>>
  failed,     \* the call returned an error
  once        \* every patch so far introduced its ids once

vars == <<op, keys, services, refs, failed, once>>

Ops ==
  [action : {"none", "replace", "add-services", "remove-services",
             "add-public-keys", "remove-public-keys"},
   services : SUBSET Ids, keys : SUBSET Ids, refs : SUBSET (AllPurposes \X Ids)]

Init ==
  /\ op \in Ops /\ op.action = "replace"
  /\ keys = {} /\ services = {} /\ refs = {} /\ failed = FALSE /\ once = TRUE

(* The next update request arrives, or the document is returned.           *)
Take == op.action = "none" /\ UNCHANGED <<keys, services, refs, failed>>

Refused ==
  \/ op.action = "remove-public-keys" /\ ~(op.keys \subseteq keys)
  \/ ~(op.refs \subseteq Purposes \X Ids)

Fail ==
  /\ Refused
  /\ failed' = TRUE
  /\ keys' = {} /\ services' = {} /\ refs' = {}

Changed(K, S, R) ==
  /\ ~Refused
  /\ keys' = K /\ services' = S /\ refs' = R
  /\ UNCHANGED failed

Replace == op.action = "replace" /\ Changed(op.keys, op.services, op.refs)

AddServices == op.action = "add-services" /\ Changed(keys, services \cup op.services, refs)

(* Ids that are not services of the document are ignored.                  *)
RemoveServices ==
  op.action = "remove-services" /\ Changed(keys, services \ op.services, refs)

AddPublicKeys ==
  op.action = "add-public-keys" /\ Changed(keys \cup op.keys, services, refs \cup op.refs)

RemovePublicKeys ==
  /\ op.action = "remove-public-keys"
  /\ Changed(keys \ op.keys, services, {r \in refs : r[2] \notin op.keys})

Promised ==
  /\ once /\ once' /\ ~failed
  /\ op' \in Ops
  /\ \/ Take \/ Fail \/ Replace \/ AddServices \/ RemoveServices
     \/ AddPublicKeys \/ RemovePublicKeys

Next == Promised \/ once' = FALSE

Spec == Init /\ [][Next]_vars
=============================================================================
