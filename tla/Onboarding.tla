------------------------------ MODULE Onboarding ------------------------------
(***************************************************************************)
(* Node onboarding in the control plane (internal/onboarding): bootstrap   *)
(* tokens, nodes, identities, and the operations that create, renew and    *)
(* revoke them.  Bootstrap and RevokeNode are one serializable transaction *)
(* each; Renew reads and writes in two statements of their own.            *)
(*                                                                         *)
(* Node ids and certificate fingerprints are numbers in order of creation. *)
(* A clock is abstracted to the two facts the code asks it: a token has    *)
(* expired, a certificate is within the renewal threshold.                 *)
(***************************************************************************)
EXTENDS Naturals, FiniteSets

CONSTANTS Tokens,       \* bootstrap tokens (their hashes)
          Gateways,     \* gateway ids
          Serials,      \* device serials, EmptySerial among them
          EmptySerial,  \* the serial of a request that carries none
          NULL,
          MaxUses,      \* max_uses a token is created with
          MaxNodes,     \* bound on the rows of edge_nodes
          MaxCerts,     \* bound on the certificates the signer issues
          AuditRowAccepted
              \* whether task_events takes the audit row of RevokeNode, whose
              \* task_id is an identity id: FALSE with the foreign key of
              \* migrations/000007, TRUE without it

ASSUME BoundsAssumption == MaxUses \in Nat /\ MaxNodes \in Nat /\ MaxCerts \in Nat
ASSUME SerialAssumption == EmptySerial \in Serials
ASSUME AuditAssumption == AuditRowAccepted \in BOOLEAN
ASSUME NullAssumption == NULL \notin Gateways /\ NULL \notin Tokens /\ NULL \notin Serials

VARIABLES tokens,      \* table bootstrap_tokens
          identities,  \* table edge_identities, by node id
          nodes,       \* column status of edge_nodes
          signed,      \* number of certificates issued
          renewals,    \* Renew calls between the read and the write
          asked,       \* history: nodes RevokeNode found revocable
          conflicts    \* history: serials rejected with IDENTITY_CONFLICT

onboardingVars == <<tokens, identities, nodes, signed, renewals, asked, conflicts>>

NodeIds == 1 .. MaxNodes
Certs == 1 .. MaxCerts

NoToken == [status |-> "Absent", gateway |-> NULL, used |-> 0, expired |-> FALSE]
NoIdentity == [status |-> "Absent", gateway |-> NULL, serial |-> NULL, fingerprint |-> NULL,
               renewable |-> FALSE, token |-> NULL]

OnbInit ==
    /\ tokens = [k \in Tokens |-> NoToken]
    /\ identities = [n \in NodeIds |-> NoIdentity]
    /\ nodes = [n \in NodeIds |-> "Absent"]
    /\ signed = 0
    /\ renewals = {}
    /\ asked = {}
    /\ conflicts = {}

-------------------------------------------------------------------------------
(* Bootstrap tokens *)

CreateBootstrapToken(k, g) ==
    /\ tokens[k].status = "Absent"
    /\ tokens' = [tokens EXCEPT ![k] = [NoToken EXCEPT !.status = "Active", !.gateway = g]]
    /\ UNCHANGED <<identities, nodes, signed, renewals, asked, conflicts>>

\* TokenStore.UpdateStatus: the new status replaces any other.
UpdateTokenStatus(k, status) ==
    /\ tokens[k].status # "Absent"
    /\ tokens' = [tokens EXCEPT ![k].status = status]
    /\ UNCHANGED <<identities, nodes, signed, renewals, asked, conflicts>>

FreezeBootstrapToken(k) == UpdateTokenStatus(k, "Frozen")
RevokeBootstrapToken(k) == UpdateTokenStatus(k, "Revoked")

\* expires_at passes.
TokenExpires(k) ==
    /\ tokens[k].status # "Absent" /\ ~tokens[k].expired
    /\ tokens' = [tokens EXCEPT ![k].expired = TRUE]
    /\ UNCHANGED <<identities, nodes, signed, renewals, asked, conflicts>>

\* Mutant of TokenValid: the budget is compared with <=.
TokenValidOneMore(k, g) ==
    /\ tokens[k].status = "Active" /\ ~tokens[k].expired
    /\ tokens[k].used <= MaxUses
    /\ tokens[k].gateway = g

\* Mutant of TokenValid: only Revoked is checked, not Frozen.
TokenValidWhileFrozen(k, g) ==
    /\ tokens[k].status \notin {"Absent", "Revoked"} /\ ~tokens[k].expired
    /\ tokens[k].used < MaxUses
    /\ tokens[k].gateway = g

\* The checks of ValidateAndConsume, which then adds one to used_count.
TokenValid(k, g) ==
    /\ tokens[k].status \notin {"Absent", "Revoked"}
    /\ tokens[k].status # "Frozen"
    /\ ~tokens[k].expired
    /\ tokens[k].used < MaxUses
    /\ tokens[k].gateway = g

-------------------------------------------------------------------------------
(* Identities *)

Live(n) == identities[n].status = "Active"

\* Mutant of SerialTaken: an identity whose certificate runs out is overlooked.
SerialTakenByFreshOnly(serial) ==
    \E n \in NodeIds : Live(n) /\ ~identities[n].renewable /\ identities[n].serial = serial

\* Both the SELECT of Bootstrap, for a serial that is not empty, and the partial
\* unique index on serial, for every serial.
SerialTaken(serial) == \E n \in NodeIds : Live(n) /\ identities[n].serial = serial

\* Bootstrap commits: token, node, certificate and identity in one transaction.
Bootstrap(k, g, serial) ==
    /\ TokenValid(k, g) /\ ~SerialTaken(serial)
    /\ signed < MaxCerts
    /\ \E n \in NodeIds :
        /\ nodes[n] = "Absent" /\ \A m \in 1 .. n - 1 : nodes[m] # "Absent"
        /\ tokens' = [tokens EXCEPT ![k].used = @ + 1]
        /\ nodes' = [nodes EXCEPT ![n] = "Active"]
        /\ identities' = [identities EXCEPT ![n] =
                [status |-> "Active", gateway |-> g, serial |-> serial,
                 fingerprint |-> signed + 1, renewable |-> FALSE, token |-> k]]
    /\ signed' = signed + 1
    /\ UNCHANGED <<renewals, asked, conflicts>>

\* Bootstrap fails on the serial and rolls everything back.
BootstrapConflict(k, g, serial) ==
    /\ TokenValid(k, g) /\ SerialTaken(serial)
    /\ conflicts' = conflicts \cup {serial}
    /\ UNCHANGED <<tokens, identities, nodes, signed, renewals, asked>>

\* The certificate's remaining life falls below renewThreshold.
CertificateAges(n) ==
    /\ Live(n) /\ ~identities[n].renewable
    /\ identities' = [identities EXCEPT ![n].renewable = TRUE]
    /\ UNCHANGED <<tokens, nodes, signed, renewals, asked, conflicts>>

\* Renew: the identity is Active and its certificate old enough; a new one is signed.
RenewRead(n) ==
    /\ Live(n) /\ identities[n].renewable /\ signed < MaxCerts
    /\ signed' = signed + 1
    /\ renewals' = renewals \cup {<<n, signed + 1>>}
    /\ UNCHANGED <<tokens, identities, nodes, asked, conflicts>>

\* Mutant of RenewWrite: the fingerprint is taken of an empty certificate.
RenewWriteEmptyFingerprint(n, f) ==
    /\ <<n, f>> \in renewals
    /\ identities' = [identities EXCEPT ![n].fingerprint = 0, ![n].renewable = FALSE]
    /\ renewals' = renewals \ {<<n, f>>}
    /\ UNCHANGED <<tokens, nodes, signed, asked, conflicts>>

\* Mutant of RenewWrite: the row is written back whole, as it was read.
RenewWriteWholeRow(n, f) ==
    /\ <<n, f>> \in renewals
    /\ identities' = [identities EXCEPT ![n].fingerprint = f, ![n].renewable = FALSE,
                                        ![n].status = "Active"]
    /\ renewals' = renewals \ {<<n, f>>}
    /\ UNCHANGED <<tokens, nodes, signed, asked, conflicts>>

\* Mutant of RenewWrite: an UPDATE that was done is sent again later.
RenewWriteAgain(n, f) ==
    /\ <<n, f>> \in renewals
    /\ identities' = [identities EXCEPT ![n].fingerprint = f, ![n].renewable = FALSE]
    /\ UNCHANGED <<tokens, nodes, signed, renewals, asked, conflicts>>

\* Renew: UPDATE edge_identities ... WHERE id, whatever the status is by now.
RenewWrite(n, f) ==
    /\ <<n, f>> \in renewals
    /\ identities' = [identities EXCEPT ![n].fingerprint = f, ![n].renewable = FALSE]
    /\ renewals' = renewals \ {<<n, f>>}
    /\ UNCHANGED <<tokens, nodes, signed, asked, conflicts>>

\* RevokeNode: an audit row the table rejects aborts the transaction, and the
\* commit that follows rolls the revocation back.
RevokeNode(n) ==
    /\ Live(n)
    /\ asked' = asked \cup {n}
    /\ IF AuditRowAccepted
       THEN /\ identities' = [identities EXCEPT ![n].status = "Revoked"]
            /\ nodes' = [nodes EXCEPT ![n] = "Revoked"]
       ELSE UNCHANGED <<identities, nodes>>
    /\ UNCHANGED <<tokens, signed, renewals, conflicts>>

TokenNext ==
    \/ \E k \in Tokens, g \in Gateways : CreateBootstrapToken(k, g)
    \/ \E k \in Tokens : FreezeBootstrapToken(k) \/ RevokeBootstrapToken(k) \/ TokenExpires(k)

IdentityNext ==
    \/ \E k \in Tokens, g \in Gateways, serial \in Serials :
          Bootstrap(k, g, serial) \/ BootstrapConflict(k, g, serial)
    \/ \E n \in NodeIds : CertificateAges(n) \/ RenewRead(n) \/ RevokeNode(n)
    \/ \E n \in NodeIds, f \in Certs : RenewWrite(n, f)

OnbNext == TokenNext \/ IdentityNext

OnbSpec == OnbInit /\ [][OnbNext]_onboardingVars

-------------------------------------------------------------------------------
(* Properties *)

\* The nodes a token admitted.
AdmittedBy(k) == {n \in NodeIds : identities[n].token = k}

\* used_count counts the nodes the token admitted, each exactly once, and never
\* passes max_uses, also when registrations fail after the token was consumed.
TokenBudget ==
    \A k \in Tokens :
        tokens[k].used = Cardinality(AdmittedBy(k)) /\ tokens[k].used <= MaxUses

\* A token that was frozen, revoked or has expired never admits a node again,
\* whatever freeze, revoke and bootstrap requests follow.
DeadTokenStaysDead ==
    [][\A k \in Tokens :
          (tokens[k].status \in {"Frozen", "Revoked"} \/ tokens[k].expired) =>
              AdmittedBy(k)' = AdmittedBy(k)]_onboardingVars

\* No two live identities share a serial: a cloned device gets no parallel
\* identity, neither by registering nor by renewing.
OneLiveIdentityPerSerial ==
    \A n, m \in NodeIds :
        (Live(n) /\ Live(m) /\ identities[n].serial = identities[m].serial) => n = m

\* Revocation is final: neither a Renew that read the identity before it was
\* revoked nor a later Bootstrap makes it Active again, and the node row agrees.
RevocationSticks ==
    [][\A n \in NodeIds :
          identities[n].status = "Revoked" =>
              identities'[n].status = "Revoked" /\ nodes'[n] = "Revoked"]_onboardingVars

\* RevokeNode "revokes a node's identity and records an audit event", where the
\* audit is "best-effort": a revocation that found a live identity revokes it.
RevokeTakesEffect == \A n \in asked : identities[n].status = "Revoked"

\* The serial conflict is for devices that have one: a registration without a
\* serial is never taken for a clone.
EmptySerialNeverConflicts == EmptySerial \notin conflicts
===============================================================================
