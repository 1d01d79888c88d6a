------------------------- MODULE OnboardingRefinement --------------------------
(* The refinement mapping from onboarding to the registry it keeps.  *)
EXTENDS Onboarding

\* Every certificate signed has been put on record unless its Renew has yet to write.
Spent == {c \in Certs : c <= signed /\ \A r \in renewals : r[2] # c}

Registry == INSTANCE IdentityLedger WITH
    Ids <- NodeIds,
    Homes <- Gateways,
    SerialNumbers <- Serials,
    Certificates <- Certs,
    Nothing <- NULL,
    standing <- [n \in NodeIds |-> identities[n].status],
    bond <- [n \in NodeIds |-> <<identities[n].gateway, identities[n].serial>>],
    record <- [n \in NodeIds |-> identities[n].fingerprint],
    spent <- Spent

\* Onboarding keeps the registry, although a Renew reads and writes in two statements:
\* a node is admitted once, with a serial no live node has, and keeps its gateway and
\* serial; in whatever order renewals write, with a revocation between or not, a
\* certificate is on record for one node only, and one that was replaced never again.
ImplementsRegistry == Registry!RegistrySpec
===============================================================================
