-------------------------- MODULE MCDataIntegrity --------------------------
(* One credential, one presentation and two goroutines.                    *)
EXTENDS DataIntegrity

MCValues   == {[kind |-> "object", n |-> 2], [kind |-> "none", n |-> 0]}
First      == [kind |-> "object", n |-> 1]
MCDrafts   == {[issuer |-> First, credentialSubject |-> First, credentialSchema |-> First]}
MCSigners  == {[key |-> "k1", purpose |-> "assertion"], [key |-> "k2", purpose |-> "authentication"]}
MCTypes    == {<<"member">>}
MCContexts == {<<"extra", "suite">>}
MCDefines  == [base  |-> {"id", "type", "issuer", "credentialSubject", "issuanceDate", "proof"},
               suite |-> Members,
               extra |-> {"credentialSchema", "member"}]
Symmetry   == Permutations(Procs)
=============================================================================
