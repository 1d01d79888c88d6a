---------------------------- MODULE IdentityLedger -----------------------------
(***************************************************************************)
(* What onboarding promises about the identity of a node, without tokens,  *)
(* transactions or certificates under way: it is admitted once, to one     *)
(* gateway and for one serial, it is revoked for good, and a certificate   *)
(* is on record for one node, once.  Onboarding implements it              *)
(* (OnboardingRefinement).                                                 *)
(***************************************************************************)
EXTENDS Naturals

CONSTANTS Ids, Homes, SerialNumbers, Certificates, Nothing

VARIABLES standing,  \* of each node: "Absent", "Active" or "Revoked"
          bond,      \* its gateway and its serial
          record,    \* the certificate on record for it
          spent      \* the certificates that are or were on record

registryVars == <<standing, bond, record, spent>>

RegistryInit ==
    /\ standing = [n \in Ids |-> "Absent"]
    /\ bond = [n \in Ids |-> <<Nothing, Nothing>>]
    /\ record = [n \in Ids |-> Nothing]
    /\ spent = {}

\* A certificate that was never on record goes on record for a node.
PutOnRecord(n) ==
    \E c \in Certificates \ spent :
        /\ spent' = spent \cup {c}
        /\ record' = [record EXCEPT ![n] = c]

Admit(n) ==
    /\ standing[n] = "Absent"
    /\ standing' = [standing EXCEPT ![n] = "Active"]
    /\ \E home \in Homes, serial \in SerialNumbers :
        /\ \A m \in Ids : standing[m] = "Active" => bond[m][2] # serial
        /\ bond' = [bond EXCEPT ![n] = <<home, serial>>]
    /\ PutOnRecord(n)

\* A renewal, which a revocation may have overtaken.
Replace(n) ==
    /\ standing[n] # "Absent"
    /\ PutOnRecord(n)
    /\ UNCHANGED <<standing, bond>>

Revoke(n) ==
    /\ standing[n] = "Active"
    /\ standing' = [standing EXCEPT ![n] = "Revoked"]
    /\ UNCHANGED <<bond, record, spent>>

RegistryNext == \E n \in Ids : Admit(n) \/ Replace(n) \/ Revoke(n)

RegistrySpec == RegistryInit /\ [][RegistryNext]_registryVars
===============================================================================
