------------------------ MODULE MCCredentialRenewal ------------------------
(* CredentialRenewal for TLC. *)
EXTENDS CredentialRenewal

CONSTANT RenewalLimit  \* bound: badges minted, proposals and claims begun, together

Begun == {p \in Proposal : proposal[p].pc # "idle"} \cup {c \in Claimer : claimer[c].pc # "idle"}

BoundedNext == RenewalNext /\ minted' + Cardinality(Begun') <= RenewalLimit

BoundedSpec == RenewalInit /\ [][BoundedNext]_renewalVars /\ RenewalFairness
=============================================================================
