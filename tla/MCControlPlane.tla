---------------------------- MODULE MCControlPlane ----------------------------
(* The registry of gateways, the List operations, and the life of the servers: *)
(* unrelated state, so each is explored while the others are in an initial     *)
(* state.                                                                      *)
EXTENDS GatewayRegistry, Listing, Servers

\* Four rows, two of them of one transaction.
MCCreatedAt == <<1, 2, 2, 3>>

CpInit == RegInit /\ ListInit /\ SrvInit

CpNext ==
    \/ /\ ListInit /\ match = {} /\ SrvInit /\ ~mtls
       /\ RegNext /\ UNCHANGED <<listingVars, serverVars>>
    \/ /\ RegInit /\ SrvInit /\ ~mtls
       /\ ListNext /\ UNCHANGED <<registryVars, serverVars>>
    \/ /\ RegInit /\ ListInit /\ match = {}
       /\ SrvNext /\ UNCHANGED <<registryVars, listingVars>>

CpSpec == CpInit /\ [][CpNext]_<<registryVars, listingVars, serverVars>> /\ SrvFairness
===============================================================================
