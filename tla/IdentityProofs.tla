---------------------------- MODULE IdentityProofs ----------------------------
(***************************************************************************)
(* Proofs about Onboarding, IdentityCache and AgentIdentity, for any sets  *)
(* of tokens, gateways and serials and any bounds: the budget and the life *)
(* of tokens, the uniqueness and the revocation of identities and the      *)
(* registry they make up, the binding of what a gateway lets through, and  *)
(* the files a device starts from.                                         *)
(***************************************************************************)
EXTENDS IdentityCache, AgentIdentity, OnboardingRefinement, FiniteSetTheorems, TLAPS

-------------------------------------------------------------------------------
(* Onboarding *)

TokenRow == [status : {"Absent", "Active", "Frozen", "Revoked"},
             gateway : Gateways \cup {NULL}, used : Nat, expired : BOOLEAN]
IdentityRow == [status : {"Absent", "Active", "Revoked"},
                gateway : Gateways \cup {NULL}, serial : Serials \cup {NULL},
                fingerprint : Nat \cup {NULL}, renewable : BOOLEAN,
                token : Tokens \cup {NULL}]

OnbTypes ==
    /\ tokens \in [Tokens -> TokenRow]
    /\ identities \in [NodeIds -> IdentityRow]
    /\ nodes \in [NodeIds -> {"Absent", "Active", "Revoked"}]
    /\ signed \in 0 .. MaxCerts
    /\ renewals \subseteq NodeIds \X Certs

\* The rows of a node and of its identity appear together and have the same status:
\* that is why a Bootstrap only ever fills an absent identity, and a Renew in flight
\* only ever writes to one that exists.
RowsAgree ==
    /\ \A n \in NodeIds : nodes[n] = identities[n].status
    /\ \A n \in NodeIds : identities[n].status = "Absent" => identities[n] = NoIdentity
    /\ \A k \in Tokens : tokens[k].status = "Absent" => tokens[k] = NoToken
    /\ \A r \in renewals : identities[r[1]].status # "Absent"

OnbInv == OnbTypes /\ RowsAgree /\ OneLiveIdentityPerSerial /\ TokenBudget

\* The onboarding tables start well typed.
LEMMA OnbTypesInit == OnbInit => OnbTypes /\ RowsAgree
BY BoundsAssumption DEF OnbInit, OnbTypes, RowsAgree, TokenRow, IdentityRow, NoToken, NoIdentity

\* The steps on tokens leave identities and nodes alone.
LEMMA TokenStep ==
  ASSUME OnbTypes, RowsAgree, TokenNext
  PROVE  /\ OnbTypes' /\ RowsAgree'
         /\ UNCHANGED <<identities, nodes, signed, renewals>>
         /\ \A k \in Tokens : tokens'[k].used = tokens[k].used
<1>1. ASSUME NEW k \in Tokens, NEW g \in Gateways, CreateBootstrapToken(k, g)
      PROVE  /\ tokens' \in [Tokens -> TokenRow]
             /\ \A l \in Tokens : tokens'[l].status = "Absent" => tokens'[l] = NoToken
             /\ \A l \in Tokens : tokens'[l].used = tokens[l].used
  <2> DEFINE row == [NoToken EXCEPT !.status = "Active", !.gateway = g]
  <2>1. row \in TokenRow /\ row.status = "Active" /\ row.used = 0
    BY DEF NoToken, TokenRow
  <2>2. tokens[k] = NoToken /\ tokens' = [tokens EXCEPT ![k] = row]
    BY <1>1 DEF CreateBootstrapToken, RowsAgree
  <2>3. tokens[k].used = 0
    BY <2>2 DEF NoToken
  <2> HIDE DEF row
  <2>4. tokens' \in [Tokens -> TokenRow]
    BY <2>1, <2>2 DEF OnbTypes
  <2>5. \A l \in Tokens : tokens'[l] = IF l = k THEN row ELSE tokens[l]
    BY <2>2 DEF OnbTypes
  <2>6. \A l \in Tokens : tokens'[l].status = "Absent" => tokens'[l] = NoToken
    BY <2>1, <2>5 DEF RowsAgree
  <2>7. \A l \in Tokens : tokens'[l].used = tokens[l].used
    BY <2>1, <2>3, <2>5
  <2> QED BY <2>4, <2>6, <2>7
<1>2. ASSUME NEW k \in Tokens,
             FreezeBootstrapToken(k) \/ RevokeBootstrapToken(k) \/ TokenExpires(k)
      PROVE  /\ tokens' \in [Tokens -> TokenRow]
             /\ \A l \in Tokens : tokens'[l].status = "Absent" => tokens'[l] = NoToken
             /\ \A l \in Tokens : tokens'[l].used = tokens[l].used
  <2>1. PICK row \in TokenRow : /\ tokens' = [tokens EXCEPT ![k] = row]
                                /\ row.status # "Absent" /\ row.used = tokens[k].used
    <3>1. /\ [tokens[k] EXCEPT !.status = "Frozen"] \in TokenRow
          /\ [tokens[k] EXCEPT !.status = "Revoked"] \in TokenRow
          /\ [tokens[k] EXCEPT !.expired = TRUE] \in TokenRow
      BY DEF OnbTypes, TokenRow
    <3> QED BY <1>2, <3>1 DEF FreezeBootstrapToken, RevokeBootstrapToken, TokenExpires,
                              UpdateTokenStatus, OnbTypes, TokenRow
  <2> QED BY <2>1 DEF OnbTypes, RowsAgree
<1>3. UNCHANGED <<identities, nodes, signed, renewals>>
  BY DEF TokenNext, CreateBootstrapToken, FreezeBootstrapToken, RevokeBootstrapToken,
         TokenExpires, UpdateTokenStatus
<1>4. /\ tokens' \in [Tokens -> TokenRow]
      /\ \A l \in Tokens : tokens'[l].status = "Absent" => tokens'[l] = NoToken
      /\ \A l \in Tokens : tokens'[l].used = tokens[l].used
  BY <1>1, <1>2 DEF TokenNext
<1> QED BY <1>3, <1>4 DEF OnbTypes, RowsAgree

\* A Bootstrap fills the rows of a node that had none, and takes one use of its token.
LEMMA BootstrapIs ==
  ASSUME OnbTypes, RowsAgree, NEW k \in Tokens, NEW g \in Gateways, NEW serial \in Serials,
         Bootstrap(k, g, serial)
  PROVE  \E n \in NodeIds, row \in IdentityRow :
            /\ identities[n] = NoIdentity
            /\ row.status = "Active" /\ row.gateway = g /\ row.serial = serial /\ row.token = k
            /\ row.fingerprint = signed + 1
            /\ identities' = [identities EXCEPT ![n] = row]
            /\ nodes' = [nodes EXCEPT ![n] = "Active"]
            /\ tokens' = [tokens EXCEPT ![k].used = @ + 1]
            /\ signed' = signed + 1 /\ signed < MaxCerts /\ UNCHANGED renewals
<1>1. PICK n \in NodeIds :
            /\ nodes[n] = "Absent"
            /\ tokens' = [tokens EXCEPT ![k].used = @ + 1]
            /\ nodes' = [nodes EXCEPT ![n] = "Active"]
            /\ identities' = [identities EXCEPT ![n] =
                    [status |-> "Active", gateway |-> g, serial |-> serial,
                     fingerprint |-> signed + 1, renewable |-> FALSE, token |-> k]]
  BY DEF Bootstrap
<1> DEFINE row == [status |-> "Active", gateway |-> g, serial |-> serial,
                   fingerprint |-> signed + 1, renewable |-> FALSE, token |-> k]
<1>2. signed + 1 \in Nat
  BY BoundsAssumption DEF OnbTypes
<1>3. row \in IdentityRow
  BY <1>2 DEF IdentityRow
<1>4. identities[n] = NoIdentity
  BY <1>1 DEF RowsAgree
<1> QED BY <1>1, <1>3, <1>4 DEF Bootstrap

\* What a step on identities does to one row, other than a Bootstrap: it moves or
\* renews one that exists and keeps where it belongs.
LEMMA IdentityStep ==
  ASSUME OnbTypes, RowsAgree, NEW n \in NodeIds,
         \/ CertificateAges(n) \/ RenewRead(n) \/ RevokeNode(n)
         \/ \E f \in Certs : RenewWrite(n, f)
  PROVE  \E row \in IdentityRow :
            /\ identities' = [identities EXCEPT ![n] = row]
            /\ nodes' = [nodes EXCEPT ![n] = row.status]
            /\ identities[n].status # "Absent"
            /\ \/ row.status = identities[n].status
               \/ identities[n].status = "Active" /\ row.status = "Revoked"
            /\ row.gateway = identities[n].gateway /\ row.serial = identities[n].serial
            /\ row.token = identities[n].token
            /\ UNCHANGED tokens /\ signed' \in 0 .. MaxCerts
            /\ renewals' \subseteq renewals \cup ({n} \X Certs)
<1> DEFINE old == identities[n]
<1>1. /\ old \in IdentityRow /\ nodes[n] = old.status /\ signed \in 0 .. MaxCerts
      /\ identities = [identities EXCEPT ![n] = old] /\ nodes = [nodes EXCEPT ![n] = old.status]
  BY DEF OnbTypes, RowsAgree
<1>2. CASE CertificateAges(n)
  <2> DEFINE row == [old EXCEPT !.renewable = TRUE]
  <2>1. row \in IdentityRow /\ row.status = old.status /\ row.gateway = old.gateway
        /\ row.serial = old.serial /\ row.token = old.token
    BY <1>1 DEF IdentityRow
  <2>2. identities' = [identities EXCEPT ![n] = row] /\ old.status = "Active"
    BY <1>2 DEF CertificateAges, Live
  <2> HIDE DEF row
  <2> QED BY <1>1, <1>2, <2>1, <2>2 DEF CertificateAges
<1>3. CASE RenewRead(n)
  <2>1. signed + 1 \in Certs /\ signed' = signed + 1 /\ signed' \in 0 .. MaxCerts
    BY <1>1, <1>3, BoundsAssumption DEF RenewRead, Certs
  <2>2. renewals' = renewals \cup {<<n, signed + 1>>} /\ old.status = "Active"
    BY <1>3 DEF RenewRead, Live
  <2>3. renewals' \subseteq renewals \cup ({n} \X Certs)
    BY <2>1, <2>2
  <2> QED BY <1>1, <1>3, <2>1, <2>2, <2>3 DEF RenewRead
<1>4. CASE RevokeNode(n)
  <2>1. CASE AuditRowAccepted
    <3> DEFINE row == [old EXCEPT !.status = "Revoked"]
    <3>1. row \in IdentityRow /\ row.status = "Revoked" /\ row.gateway = old.gateway
          /\ row.serial = old.serial /\ row.token = old.token
      BY <1>1 DEF IdentityRow
    <3>2. /\ identities' = [identities EXCEPT ![n] = row] /\ old.status = "Active"
          /\ nodes' = [nodes EXCEPT ![n] = "Revoked"]
      BY <1>4, <2>1 DEF RevokeNode, Live
    <3> HIDE DEF row
    <3> QED BY <1>1, <1>4, <3>1, <3>2 DEF RevokeNode
  <2>2. CASE ~AuditRowAccepted
    BY <1>1, <1>4, <2>2 DEF RevokeNode, Live
  <2> QED BY <2>1, <2>2
<1>5. ASSUME NEW f \in Certs, RenewWrite(n, f)
      PROVE  \E row \in IdentityRow :
                /\ identities' = [identities EXCEPT ![n] = row]
                /\ row.status = old.status /\ row.gateway = old.gateway
                /\ row.serial = old.serial /\ row.token = old.token
                /\ old.status # "Absent"
  <2> DEFINE row == [[old EXCEPT !.fingerprint = f] EXCEPT !.renewable = FALSE]
  <2>1. f \in Nat
    BY BoundsAssumption DEF Certs
  <2>2. row \in IdentityRow /\ row.status = old.status /\ row.gateway = old.gateway
        /\ row.serial = old.serial /\ row.token = old.token
    BY <1>1, <2>1 DEF IdentityRow
  <2>3. old.status # "Absent"
    BY <1>5 DEF RenewWrite, RowsAgree
  <2>4. identities' = [identities EXCEPT ![n] = row]
    BY <1>5 DEF RenewWrite, OnbTypes
  <2> QED BY <2>2, <2>3, <2>4
<1>6. CASE \E f \in Certs : RenewWrite(n, f)
  BY <1>1, <1>5, <1>6 DEF RenewWrite
<1> QED BY <1>2, <1>3, <1>4, <1>6

\* The nodes of a token are finite in number: a Bootstrap adds one, no other step does.
LEMMA AdmittedGrows ==
  ASSUME OnbTypes, NEW n \in NodeIds, NEW row \in IdentityRow, NEW k \in Tokens,
         identities[n] = NoIdentity, row.token = k,
         identities' = [identities EXCEPT ![n] = row]
  PROVE  /\ Cardinality(AdmittedBy(k)') = Cardinality(AdmittedBy(k)) + 1
         /\ \A l \in Tokens : l # k => AdmittedBy(l)' = AdmittedBy(l)
<1>1. identities[n].token = NULL /\ NULL \notin Tokens
  BY NullAssumption DEF NoIdentity
<1>2. \A m \in NodeIds : identities'[m] = IF m = n THEN row ELSE identities[m]
  BY DEF OnbTypes
<1>3. AdmittedBy(k)' = AdmittedBy(k) \cup {n} /\ n \notin AdmittedBy(k)
  BY <1>1, <1>2 DEF AdmittedBy
<1>4. \A l \in Tokens : l # k => AdmittedBy(l)' = AdmittedBy(l)
  BY <1>1, <1>2 DEF AdmittedBy
<1>5. IsFiniteSet(NodeIds)
  BY FS_Interval, BoundsAssumption DEF NodeIds
<1>6. IsFiniteSet(AdmittedBy(k))
  BY <1>5, FS_Subset DEF AdmittedBy
<1> HIDE DEF AdmittedBy
<1>7. Cardinality(AdmittedBy(k) \cup {n}) = Cardinality(AdmittedBy(k)) + 1
  BY <1>3, <1>6, FS_AddElement
<1> QED BY <1>3, <1>4, <1>7

\* What a Bootstrap preserves: it takes a use of a token that has one left, and a
\* serial that no live identity has.
LEMMA BootstrapKeeps ==
  ASSUME OnbInv, NEW k \in Tokens, NEW g \in Gateways, NEW serial \in Serials,
         Bootstrap(k, g, serial)
  PROVE  OnbInv'
<1>1. PICK n \in NodeIds, row \in IdentityRow :
            /\ identities[n] = NoIdentity
            /\ row.status = "Active" /\ row.gateway = g /\ row.serial = serial /\ row.token = k
            /\ identities' = [identities EXCEPT ![n] = row]
            /\ nodes' = [nodes EXCEPT ![n] = "Active"]
            /\ tokens' = [tokens EXCEPT ![k].used = @ + 1]
            /\ signed' = signed + 1 /\ signed < MaxCerts /\ UNCHANGED renewals
  BY BootstrapIs DEF OnbInv
<1>2. \A m \in NodeIds : identities'[m] = IF m = n THEN row ELSE identities[m]
  BY <1>1 DEF OnbInv, OnbTypes
<1>3. /\ tokens[k].status # "Absent" /\ tokens[k].used < MaxUses
      /\ tokens[k] \in TokenRow
  BY DEF Bootstrap, TokenValid, OnbInv, OnbTypes
<1> DEFINE used == [tokens[k] EXCEPT !.used = @ + 1]
<1>4. /\ used \in TokenRow /\ used.status = tokens[k].status
      /\ used.used = tokens[k].used + 1
  BY <1>3 DEF TokenRow
<1>5. tokens' = [tokens EXCEPT ![k] = used]
  BY <1>1
<1> HIDE DEF used
<1>6. \A l \in Tokens : tokens'[l] = IF l = k THEN used ELSE tokens[l]
  BY <1>5 DEF OnbInv, OnbTypes
<1>7. OnbTypes'
  <2>1. signed' \in 0 .. MaxCerts
    BY <1>1, BoundsAssumption DEF OnbInv, OnbTypes
  <2> QED BY <1>1, <1>4, <1>5, <2>1 DEF OnbInv, OnbTypes
<1>8. RowsAgree'
  <2>1. \A m \in NodeIds : nodes'[m] = identities'[m].status
    BY <1>1, <1>2 DEF OnbInv, OnbTypes, RowsAgree
  <2>2. \A m \in NodeIds : identities'[m].status = "Absent" => identities'[m] = NoIdentity
    BY <1>1, <1>2 DEF OnbInv, RowsAgree
  <2>3. \A l \in Tokens : tokens'[l].status = "Absent" => tokens'[l] = NoToken
    BY <1>3, <1>4, <1>6 DEF OnbInv, RowsAgree
  <2>4. \A r \in renewals' : identities'[r[1]].status # "Absent"
    BY <1>1, <1>2 DEF OnbInv, OnbTypes, RowsAgree
  <2> QED BY <2>1, <2>2, <2>3, <2>4 DEF RowsAgree
<1>9. OneLiveIdentityPerSerial'
  <2>1. \A m \in NodeIds : Live(m) => identities[m].serial # serial
    BY DEF Bootstrap, SerialTaken
  <2> QED BY <1>1, <1>2, <2>1 DEF OnbInv, OneLiveIdentityPerSerial, Live
<1>10. TokenBudget'
  <2>1. /\ Cardinality(AdmittedBy(k)') = Cardinality(AdmittedBy(k)) + 1
        /\ \A l \in Tokens : l # k => AdmittedBy(l)' = AdmittedBy(l)
    BY <1>1, AdmittedGrows DEF OnbInv
  <2>2. tokens'[k].used = tokens[k].used + 1 /\ tokens[k].used \in Nat
    BY <1>3, <1>4, <1>6 DEF TokenRow
  <2>3. tokens'[k].used = Cardinality(AdmittedBy(k)') /\ tokens'[k].used <= MaxUses
    BY <1>3, <2>1, <2>2, BoundsAssumption DEF OnbInv, TokenBudget
  <2>4. \A l \in Tokens : l # k => tokens'[l].used = tokens[l].used
    BY <1>6
  <2>5. ASSUME NEW l \in Tokens, l # k
        PROVE  tokens'[l].used = Cardinality(AdmittedBy(l)') /\ tokens'[l].used <= MaxUses
    BY <2>1, <2>4, <2>5 DEF OnbInv, TokenBudget
  <2> QED BY <2>3, <2>5 DEF TokenBudget, AdmittedBy
<1> QED BY <1>7, <1>8, <1>9, <1>10 DEF OnbInv

\* The other steps on an identity keep its token and serial and revive nothing.
LEMMA IdentityKeeps ==
  ASSUME OnbInv, NEW n \in NodeIds,
         \/ CertificateAges(n) \/ RenewRead(n) \/ RevokeNode(n)
         \/ \E f \in Certs : RenewWrite(n, f)
  PROVE  OnbInv' /\ \A l \in Tokens : AdmittedBy(l)' = AdmittedBy(l)
<1>1. PICK row \in IdentityRow :
            /\ identities' = [identities EXCEPT ![n] = row]
            /\ nodes' = [nodes EXCEPT ![n] = row.status]
            /\ identities[n].status # "Absent"
            /\ \/ row.status = identities[n].status
               \/ identities[n].status = "Active" /\ row.status = "Revoked"
            /\ row.gateway = identities[n].gateway /\ row.serial = identities[n].serial
            /\ row.token = identities[n].token
            /\ UNCHANGED tokens /\ signed' \in 0 .. MaxCerts
            /\ renewals' \subseteq renewals \cup ({n} \X Certs)
  BY IdentityStep DEF OnbInv
<1>2. \A m \in NodeIds : identities'[m] = IF m = n THEN row ELSE identities[m]
  BY <1>1 DEF OnbInv, OnbTypes
<1>3. OnbTypes'
  <2>1. row.status \in {"Active", "Revoked"}
    BY <1>1 DEF IdentityRow
  <2> QED BY <1>1, <2>1 DEF OnbInv, OnbTypes
<1>4. RowsAgree'
  <2>1. \A m \in NodeIds : nodes'[m] = identities'[m].status
    BY <1>1, <1>2 DEF OnbInv, OnbTypes, RowsAgree
  <2>2. \A m \in NodeIds : identities'[m].status = "Absent" => identities'[m] = NoIdentity
    BY <1>1, <1>2 DEF OnbInv, RowsAgree
  <2>3. \A r \in renewals' : identities'[r[1]].status # "Absent"
    BY <1>1, <1>2 DEF OnbInv, OnbTypes, RowsAgree
  <2> QED BY <1>1, <2>1, <2>2, <2>3 DEF OnbInv, RowsAgree
<1>5. OneLiveIdentityPerSerial'
  BY <1>1, <1>2 DEF OnbInv, OneLiveIdentityPerSerial, Live
<1>6. \A l \in Tokens : AdmittedBy(l)' = AdmittedBy(l)
  BY <1>1, <1>2 DEF AdmittedBy
<1>7. TokenBudget'
  BY <1>1, <1>6 DEF OnbInv, TokenBudget
<1> QED BY <1>3, <1>4, <1>5, <1>6, <1>7 DEF OnbInv

\* Token administration keeps the invariant and admits nobody.
LEMMA TokenKeeps ==
  ASSUME OnbInv, TokenNext
  PROVE  OnbInv' /\ \A l \in Tokens : AdmittedBy(l)' = AdmittedBy(l)
<1>1. /\ OnbTypes' /\ RowsAgree' /\ UNCHANGED <<identities, nodes, signed, renewals>>
      /\ \A k \in Tokens : tokens'[k].used = tokens[k].used
  BY TokenStep DEF OnbInv
<1>2. \A l \in Tokens : AdmittedBy(l)' = AdmittedBy(l)
  BY <1>1 DEF AdmittedBy
<1> QED BY <1>1, <1>2 DEF OnbInv, OneLiveIdentityPerSerial, Live, TokenBudget

\* Nobody is registered at first.
LEMMA OnbInvInit == OnbInit => OnbInv
<1> SUFFICES ASSUME OnbInit PROVE OnbInv
  OBVIOUS
<1>1. OnbTypes /\ RowsAgree
  BY OnbTypesInit
<1>2. OneLiveIdentityPerSerial
  BY DEF OnbInit, OneLiveIdentityPerSerial, Live, NoIdentity
<1>3. \A k \in Tokens : AdmittedBy(k) = {} /\ tokens[k].used = 0
  BY NullAssumption DEF OnbInit, AdmittedBy, NoIdentity, NoToken
<1>4. TokenBudget
  BY <1>3, FS_EmptySet, BoundsAssumption DEF TokenBudget
<1> QED BY <1>1, <1>2, <1>4 DEF OnbInv

\* A step of others leaves the onboarding tables alone.
LEMMA OnbInvStutter == OnbInv /\ UNCHANGED onboardingVars => OnbInv'
<1> SUFFICES ASSUME OnbInv, UNCHANGED onboardingVars PROVE OnbInv'
  OBVIOUS
<1>1. UNCHANGED <<tokens, identities, nodes, signed, renewals>>
  BY DEF onboardingVars
<1>2. \A k \in Tokens : AdmittedBy(k)' = AdmittedBy(k)
  BY <1>1 DEF AdmittedBy
<1> QED BY <1>1, <1>2 DEF OnbInv, OnbTypes, RowsAgree, OneLiveIdentityPerSerial, Live, TokenBudget

\* OnbInv is inductive.
LEMMA OnbStep == OnbInv /\ [OnbNext]_onboardingVars => OnbInv'
<1> SUFFICES ASSUME OnbInv, [OnbNext]_onboardingVars PROVE OnbInv'
  OBVIOUS
<1>1. CASE TokenNext
  BY <1>1, TokenKeeps
<1>2. ASSUME NEW k \in Tokens, NEW g \in Gateways, NEW serial \in Serials,
             Bootstrap(k, g, serial)
      PROVE  OnbInv'
  BY <1>2, BootstrapKeeps
<1>3. ASSUME NEW k \in Tokens, NEW g \in Gateways, NEW serial \in Serials,
             BootstrapConflict(k, g, serial)
      PROVE  OnbInv'
  <2>1. UNCHANGED <<tokens, identities, nodes, signed, renewals>>
    BY <1>3 DEF BootstrapConflict
  <2>2. \A l \in Tokens : AdmittedBy(l)' = AdmittedBy(l)
    BY <2>1 DEF AdmittedBy
  <2> QED BY <2>1, <2>2 DEF OnbInv, OnbTypes, RowsAgree, OneLiveIdentityPerSerial, Live,
                            TokenBudget
<1>4. ASSUME NEW n \in NodeIds,
             \/ CertificateAges(n) \/ RenewRead(n) \/ RevokeNode(n)
             \/ \E f \in Certs : RenewWrite(n, f)
      PROVE  OnbInv'
  BY <1>4, IdentityKeeps
<1>5. CASE UNCHANGED onboardingVars
  BY <1>5, OnbInvStutter
<1> QED BY <1>1, <1>2, <1>3, <1>4, <1>5 DEF OnbNext, IdentityNext

\* For any number of tokens and nodes, used_count is the number of nodes the token
\* admitted and stays within max_uses (ValidateAndConsume inside Bootstrap's transaction).
THEOREM BudgetHolds == OnbSpec => []TokenBudget
<1>1. OnbInv => TokenBudget
  BY DEF OnbInv
<1> QED BY <1>1, OnbInvInit, OnbStep, PTL DEF OnbSpec

\* No two live identities of any number of them share a serial (Bootstrap, Renew).
THEOREM SerialsUnique == OnbSpec => []OneLiveIdentityPerSerial
<1>1. OnbInv => OneLiveIdentityPerSerial
  BY DEF OnbInv
<1> QED BY <1>1, OnbInvInit, OnbStep, PTL DEF OnbSpec

\* No step admits a node by a token that is dead.
LEMMA AdmissionNeedsToken ==
  ASSUME OnbInv, [OnbNext]_onboardingVars, NEW k \in Tokens,
         tokens[k].status \in {"Frozen", "Revoked"} \/ tokens[k].expired
  PROVE  AdmittedBy(k)' = AdmittedBy(k)
<1>1. CASE TokenNext
  BY <1>1, TokenKeeps
<1>2. ASSUME NEW l \in Tokens, NEW g \in Gateways, NEW serial \in Serials,
             Bootstrap(l, g, serial)
      PROVE  AdmittedBy(k)' = AdmittedBy(k)
  <2>1. l # k
    BY <1>2 DEF Bootstrap, TokenValid
  <2>2. PICK n \in NodeIds, row \in IdentityRow :
            /\ identities[n] = NoIdentity /\ row.token = l
            /\ identities' = [identities EXCEPT ![n] = row]
    BY <1>2, BootstrapIs DEF OnbInv
  <2> QED BY <2>1, <2>2, AdmittedGrows DEF OnbInv
<1>3. ASSUME NEW l \in Tokens, NEW g \in Gateways, NEW serial \in Serials,
             BootstrapConflict(l, g, serial)
      PROVE  AdmittedBy(k)' = AdmittedBy(k)
  BY <1>3 DEF BootstrapConflict, AdmittedBy
<1>4. ASSUME NEW n \in NodeIds,
             \/ CertificateAges(n) \/ RenewRead(n) \/ RevokeNode(n)
             \/ \E f \in Certs : RenewWrite(n, f)
      PROVE  AdmittedBy(k)' = AdmittedBy(k)
  BY <1>4, IdentityKeeps
<1>5. CASE UNCHANGED onboardingVars
  BY <1>5 DEF onboardingVars, AdmittedBy
<1> QED BY <1>1, <1>2, <1>3, <1>4, <1>5 DEF OnbNext, IdentityNext

\* A token that was frozen, revoked or has expired admits no node ever again.
THEOREM DeadTokensStayDead == OnbSpec => DeadTokenStaysDead
<1>1. OnbInv /\ [OnbNext]_onboardingVars =>
        [\A k \in Tokens :
            (tokens[k].status \in {"Frozen", "Revoked"} \/ tokens[k].expired) =>
              AdmittedBy(k)' = AdmittedBy(k)]_onboardingVars
  BY AdmissionNeedsToken
<1> QED BY <1>1, OnbInvInit, OnbStep, PTL DEF OnbSpec, DeadTokenStaysDead

\* Renew and Bootstrap, whatever they read before, leave a revoked identity revoked.
LEMMA RevokedStays ==
  ASSUME OnbInv, [OnbNext]_onboardingVars, NEW m \in NodeIds, identities[m].status = "Revoked"
  PROVE  identities'[m].status = "Revoked" /\ nodes'[m] = "Revoked"
<1>1. nodes[m] = "Revoked"
  BY DEF OnbInv, RowsAgree
<1>2. CASE TokenNext
  BY <1>1, <1>2, TokenStep DEF OnbInv
<1>3. ASSUME NEW l \in Tokens, NEW g \in Gateways, NEW serial \in Serials,
             Bootstrap(l, g, serial)
      PROVE  identities'[m].status = "Revoked" /\ nodes'[m] = "Revoked"
  <2>1. PICK n \in NodeIds, row \in IdentityRow :
            /\ identities[n] = NoIdentity
            /\ identities' = [identities EXCEPT ![n] = row]
            /\ nodes' = [nodes EXCEPT ![n] = "Active"]
    BY <1>3, BootstrapIs DEF OnbInv
  <2>2. n # m
    BY <2>1 DEF NoIdentity
  <2> QED BY <1>1, <2>1, <2>2 DEF OnbInv, OnbTypes
<1>4. ASSUME NEW l \in Tokens, NEW g \in Gateways, NEW serial \in Serials,
             BootstrapConflict(l, g, serial)
      PROVE  identities'[m].status = "Revoked" /\ nodes'[m] = "Revoked"
  BY <1>1, <1>4 DEF BootstrapConflict
<1>5. ASSUME NEW n \in NodeIds,
             \/ CertificateAges(n) \/ RenewRead(n) \/ RevokeNode(n)
             \/ \E f \in Certs : RenewWrite(n, f)
      PROVE  identities'[m].status = "Revoked" /\ nodes'[m] = "Revoked"
  <2>1. PICK row \in IdentityRow :
            /\ identities' = [identities EXCEPT ![n] = row]
            /\ nodes' = [nodes EXCEPT ![n] = row.status]
            /\ \/ row.status = identities[n].status
               \/ identities[n].status = "Active" /\ row.status = "Revoked"
    BY <1>5, IdentityStep DEF OnbInv
  <2> QED BY <1>1, <2>1 DEF OnbInv, OnbTypes
<1>6. CASE UNCHANGED onboardingVars
  BY <1>1, <1>6 DEF onboardingVars
<1> QED BY <1>2, <1>3, <1>4, <1>5, <1>6 DEF OnbNext, IdentityNext

\* A revoked identity never becomes Active again, whatever renewal was in flight.
THEOREM RevocationIsFinal == OnbSpec => RevocationSticks
<1>1. OnbInv /\ [OnbNext]_onboardingVars =>
        [\A n \in NodeIds :
            identities[n].status = "Revoked" =>
              identities'[n].status = "Revoked" /\ nodes'[n] = "Revoked"]_onboardingVars
  BY RevokedStays
<1> QED BY <1>1, OnbInvInit, OnbStep, PTL DEF OnbSpec, RevocationSticks

-------------------------------------------------------------------------------
(* Onboarding keeps the registry *)

\* A certificate under way was signed, and for one Renew.
UnderWay ==
    /\ \A r \in renewals : r[2] <= signed
    /\ \A r, s \in renewals : r[2] = s[2] => r = s

\* What the registry sees of the identity rows.
SeenStanding == [n \in NodeIds |-> identities[n].status]
SeenBond == [n \in NodeIds |-> <<identities[n].gateway, identities[n].serial>>]
SeenRecord == [n \in NodeIds |-> identities[n].fingerprint]

\* A Bootstrap admits its node with the certificate it signs, which no Renew has.
LEMMA MapsToAdmit ==
  ASSUME OnbInv, UnderWay, NEW k \in Tokens, NEW g \in Gateways, NEW serial \in Serials,
         Bootstrap(k, g, serial)
  PROVE  UnderWay' /\ Registry!RegistryNext
<1>1. PICK n \in NodeIds, row \in IdentityRow :
            /\ identities[n] = NoIdentity
            /\ row.status = "Active" /\ row.gateway = g /\ row.serial = serial
            /\ row.fingerprint = signed + 1
            /\ identities' = [identities EXCEPT ![n] = row]
            /\ signed' = signed + 1 /\ signed < MaxCerts /\ UNCHANGED renewals
  BY BootstrapIs DEF OnbInv
<1>2. PICK c \in Certs : c = signed + 1 /\ signed \in Nat
  BY <1>1, BoundsAssumption DEF OnbInv, OnbTypes, Certs
<1>3. \A r \in renewals : r[2] \in Nat /\ r[2] <= signed /\ r[2] # c
  BY <1>2, BoundsAssumption DEF UnderWay, OnbInv, OnbTypes, Certs
<1>4. UnderWay'
  BY <1>1, <1>2, <1>3 DEF UnderWay
<1>5. Spent' = Spent \cup {c} /\ c \notin Spent
  <2>1. \A b \in Certs : b \in Nat
    BY BoundsAssumption DEF Certs
  <2>2. \A b \in Certs : (b <= signed') = (b <= signed \/ b = c)
    BY <1>1, <1>2, <2>1
  <2>3. ~(c <= signed)
    BY <1>2
  <2> QED BY <1>1, <1>3, <2>2, <2>3 DEF Spent
<1>6. \A m \in NodeIds : identities[m].status = "Active" => identities[m].serial # serial
  BY DEF Bootstrap, SerialTaken, Live
<1>7. /\ SeenStanding' = [SeenStanding EXCEPT ![n] = "Active"] /\ SeenStanding[n] = "Absent"
      /\ SeenBond' = [SeenBond EXCEPT ![n] = <<g, serial>>]
      /\ SeenRecord' = [SeenRecord EXCEPT ![n] = c]
  <2>1. identities[n].status = "Absent"
    BY <1>1 DEF NoIdentity
  <2>2. \A m \in NodeIds : identities'[m] = IF m = n THEN row ELSE identities[m]
    BY <1>1 DEF OnbInv, OnbTypes
  <2>3. ASSUME NEW m \in NodeIds
        PROVE  /\ identities'[m].status = IF m = n THEN "Active" ELSE identities[m].status
               /\ <<identities'[m].gateway, identities'[m].serial>> =
                     IF m = n THEN <<g, serial>> ELSE <<identities[m].gateway, identities[m].serial>>
               /\ identities'[m].fingerprint = IF m = n THEN c ELSE identities[m].fingerprint
    BY <1>1, <1>2, <2>2
  <2>4. SeenStanding' = [SeenStanding EXCEPT ![n] = "Active"] /\ SeenStanding[n] = "Absent"
    BY <2>1, <2>3 DEF SeenStanding
  <2>5. SeenBond' = [SeenBond EXCEPT ![n] = <<g, serial>>]
    BY <2>3 DEF SeenBond
  <2>6. SeenRecord' = [SeenRecord EXCEPT ![n] = c]
    BY <2>3 DEF SeenRecord
  <2> QED BY <2>4, <2>5, <2>6
<1>8. \A m \in NodeIds : SeenStanding[m] = "Active" => SeenBond[m][2] # serial
  BY <1>6 DEF SeenStanding, SeenBond
<1>9. Registry!PutOnRecord(n)
  BY <1>5, <1>7 DEF Registry!PutOnRecord, SeenRecord
<1>10. Registry!Admit(n)
  BY <1>7, <1>8, <1>9 DEF Registry!Admit, SeenStanding, SeenBond
<1> QED BY <1>4, <1>10 DEF Registry!RegistryNext

\* The read of a Renew signs a certificate and leaves the registry as it is.
LEMMA MapsToNothing ==
  ASSUME OnbInv, UnderWay, NEW n \in NodeIds, CertificateAges(n) \/ RenewRead(n)
  PROVE  UnderWay' /\ UNCHANGED Registry!registryVars
<1>1. CASE CertificateAges(n)
  <2>1. identities' = [identities EXCEPT ![n] = [identities[n] EXCEPT !.renewable = TRUE]]
    BY <1>1 DEF CertificateAges
  <2>2. identities[n] \in IdentityRow
    BY DEF OnbInv, OnbTypes
  <2>3. ASSUME NEW m \in NodeIds
        PROVE  /\ identities'[m].status = identities[m].status
               /\ identities'[m].gateway = identities[m].gateway
               /\ identities'[m].serial = identities[m].serial
               /\ identities'[m].fingerprint = identities[m].fingerprint
    BY <2>1, <2>2 DEF OnbInv, OnbTypes, IdentityRow
  <2>4. UNCHANGED <<signed, renewals>>
    BY <1>1 DEF CertificateAges
  <2> QED BY <2>3, <2>4 DEF UnderWay, Registry!registryVars, Spent
<1>2. CASE RenewRead(n)
  <2>1. /\ signed' = signed + 1 /\ renewals' = renewals \cup {<<n, signed + 1>>}
        /\ UNCHANGED identities /\ signed \in Nat
    BY <1>2, BoundsAssumption DEF RenewRead, OnbInv, OnbTypes
  <2>2. \A r \in renewals : r[2] \in Nat /\ r[2] <= signed
    BY BoundsAssumption DEF UnderWay, OnbInv, OnbTypes, Certs
  <2>3. UnderWay'
    BY <2>1, <2>2 DEF UnderWay
  <2>4. Spent' = Spent
    <3>1. \A c \in Certs : c \in Nat
      BY BoundsAssumption DEF Certs
    <3>2. \A c \in Certs : (c <= signed') = (c <= signed \/ c = signed + 1)
      BY <2>1, <3>1
    <3>3. ASSUME NEW c \in Certs
          PROVE  (\A r \in renewals' : r[2] # c) <=> (c # signed + 1 /\ \A r \in renewals : r[2] # c)
      <4>1. PICK pair : pair = <<n, signed + 1>> /\ pair[2] = signed + 1
        <5>1. <<n, signed + 1>>[2] = signed + 1
          OBVIOUS
        <5> QED BY <5>1, Zenon
      <4>2. renewals' = renewals \cup {pair}
        BY <2>1, <4>1
      <4> QED BY <4>1, <4>2
    <3>4. ~(signed + 1 <= signed)
      BY <2>1
    <3> QED BY <3>2, <3>3, <3>4 DEF Spent
  <2> QED BY <2>1, <2>3, <2>4 DEF Registry!registryVars
<1> QED BY <1>1, <1>2

\* The write of a Renew replaces the certificate on record, whatever happened since its
\* read, by the one signed for it.
LEMMA MapsToReplace ==
  ASSUME OnbInv, UnderWay, NEW n \in NodeIds, NEW f \in Certs, RenewWrite(n, f)
  PROVE  UnderWay' /\ Registry!RegistryNext
<1>1. /\ <<n, f>> \in renewals /\ renewals' = renewals \ {<<n, f>>} /\ UNCHANGED signed
      /\ identities' = [identities EXCEPT ![n].fingerprint = f, ![n].renewable = FALSE]
  BY DEF RenewWrite
<1>2. f <= signed /\ \A r \in renewals : r[2] = f => r = <<n, f>>
  BY <1>1 DEF UnderWay
<1>3. UnderWay'
  BY <1>1 DEF UnderWay
<1>4. Spent' = Spent \cup {f} /\ f \notin Spent
  <2>1. ASSUME NEW c \in Certs
        PROVE  (\A r \in renewals' : r[2] # c) <=> (c = f \/ \A r \in renewals : r[2] # c)
    BY <1>1, <1>2
  <2>2. ~(\A r \in renewals : r[2] # f)
    BY <1>1
  <2> QED BY <1>1, <1>2, <2>1, <2>2 DEF Spent
<1>5. identities[n].status # "Absent"
  BY <1>1 DEF OnbInv, RowsAgree
<1>6. ASSUME NEW m \in NodeIds
      PROVE  /\ identities'[m].status = identities[m].status
             /\ identities'[m].gateway = identities[m].gateway
             /\ identities'[m].serial = identities[m].serial
             /\ identities'[m].fingerprint = IF m = n THEN f ELSE identities[m].fingerprint
  <2>1. identities[n] \in IdentityRow /\ identities \in [NodeIds -> IdentityRow]
    BY DEF OnbInv, OnbTypes
  <2>2. identities' = [identities EXCEPT ![n] = [[identities[n] EXCEPT !.fingerprint = f] EXCEPT !.renewable = FALSE]]
    BY <1>1, <2>1
  <2> QED BY <2>1, <2>2 DEF IdentityRow
<1>7. /\ SeenStanding' = SeenStanding /\ SeenBond' = SeenBond
      /\ SeenRecord' = [SeenRecord EXCEPT ![n] = f] /\ SeenStanding[n] # "Absent"
  BY <1>5, <1>6 DEF SeenStanding, SeenBond, SeenRecord
<1>8. Registry!PutOnRecord(n)
  BY <1>4, <1>7 DEF Registry!PutOnRecord, SeenRecord
<1>9. Registry!Replace(n)
  BY <1>7, <1>8 DEF Registry!Replace, SeenStanding, SeenBond
<1> QED BY <1>3, <1>9 DEF Registry!RegistryNext

\* RevokeNode revokes a live node, or changes nothing if its audit row is rejected.
LEMMA MapsToRevoke ==
  ASSUME OnbInv, UnderWay, NEW n \in NodeIds, RevokeNode(n)
  PROVE  UnderWay' /\ (Registry!RegistryNext \/ UNCHANGED Registry!registryVars)
<1>1. UNCHANGED <<signed, renewals>> /\ identities[n].status = "Active"
  BY DEF RevokeNode, Live
<1>2. UnderWay' /\ Spent' = Spent
  BY <1>1 DEF UnderWay, Spent
<1>3. CASE AuditRowAccepted
  <2>1. identities' = [identities EXCEPT ![n] = [identities[n] EXCEPT !.status = "Revoked"]]
    BY <1>3 DEF RevokeNode
  <2>2. identities[n] \in IdentityRow
    BY DEF OnbInv, OnbTypes
  <2>3. ASSUME NEW m \in NodeIds
        PROVE  /\ identities'[m].status = IF m = n THEN "Revoked" ELSE identities[m].status
               /\ identities'[m].gateway = identities[m].gateway
               /\ identities'[m].serial = identities[m].serial
               /\ identities'[m].fingerprint = identities[m].fingerprint
    BY <2>1, <2>2 DEF OnbInv, OnbTypes, IdentityRow
  <2>4. /\ SeenStanding' = [SeenStanding EXCEPT ![n] = "Revoked"] /\ SeenStanding[n] = "Active"
        /\ SeenBond' = SeenBond /\ SeenRecord' = SeenRecord
    BY <1>1, <2>3 DEF SeenStanding, SeenBond, SeenRecord
  <2>5. Registry!Revoke(n)
    BY <1>2, <2>4 DEF Registry!Revoke, SeenStanding, SeenBond, SeenRecord
  <2> QED BY <1>2, <2>5 DEF Registry!RegistryNext
<1>4. CASE ~AuditRowAccepted
  <2>1. UNCHANGED identities
    BY <1>4 DEF RevokeNode
  <2> QED BY <1>2, <2>1 DEF Registry!registryVars
<1> QED BY <1>3, <1>4

\* Every step of onboarding is one of the registry or leaves it alone.
LEMMA RegistryStep ==
  ASSUME OnbInv, UnderWay, [OnbNext]_onboardingVars
  PROVE  UnderWay' /\ (Registry!RegistryNext \/ UNCHANGED Registry!registryVars)
<1>1. CASE UNCHANGED <<identities, signed, renewals>>
  BY <1>1 DEF UnderWay, Registry!registryVars, Spent
<1>2. CASE TokenNext
  BY <1>1, <1>2, TokenStep DEF OnbInv
<1>3. ASSUME NEW k \in Tokens, NEW g \in Gateways, NEW serial \in Serials, BootstrapConflict(k, g, serial)
      PROVE  UNCHANGED <<identities, signed, renewals>>
  BY <1>3 DEF BootstrapConflict
<1>4. CASE UNCHANGED onboardingVars
  BY <1>1, <1>4 DEF onboardingVars
<1> QED BY <1>1, <1>2, <1>3, <1>4, MapsToAdmit, MapsToNothing, MapsToReplace, MapsToRevoke
        DEF OnbNext, IdentityNext

\* No rows, no certificates.
LEMMA RegistryInitial == OnbInit => UnderWay /\ Registry!RegistryInit
<1> SUFFICES ASSUME OnbInit PROVE UnderWay /\ Registry!RegistryInit
  OBVIOUS
<1>1. renewals = {} /\ signed = 0 /\ identities = [n \in NodeIds |-> NoIdentity]
  BY DEF OnbInit
<1>2. UnderWay /\ Spent = {}
  BY <1>1, BoundsAssumption DEF UnderWay, Spent, Certs
<1> QED BY <1>1, <1>2 DEF Registry!RegistryInit, NoIdentity

\* Onboarding keeps the registry of identities: for any number of nodes, a Renew in two
\* statements acts as one, and its certificate is on record for its node alone.
THEOREM RegistryKept == OnbSpec => ImplementsRegistry
<1>1. OnbInv /\ UnderWay /\ [OnbNext]_onboardingVars
        => UnderWay' /\ [Registry!RegistryNext]_Registry!registryVars
  BY RegistryStep
<1> QED BY <1>1, OnbInvInit, OnbStep, RegistryInitial, PTL
        DEF OnbSpec, ImplementsRegistry, Registry!RegistrySpec

-------------------------------------------------------------------------------
(* IdentityCache *)

Entry == [state : {"none", "fresh", "stale"}, node : NodeIds \cup {NULL},
          gateway : Gateways \cup {NULL}]

\* What an entry says is so for good: its node exists and belongs to its gateway.
Bound(e) ==
    e.state # "none" =>
        /\ e.node \in NodeIds /\ identities[e.node].status # "Absent"
        /\ e.gateway = identities[e.node].gateway

CacheInv ==
    /\ cache \in [Observed -> [Certs -> Entry]]
    /\ \A g \in Observed, f \in Certs : Bound(cache[g][f])
    /\ \A l \in loads : /\ l[1] \in Observed /\ l[2] \in Certs /\ l[3] \in Entry
                        /\ Bound(l[3]) /\ (l[3] = NoEntry \/ l[3].state = "fresh")
    /\ \A s \in served : /\ s[2] \in NodeIds /\ identities[s[2]].status # "Absent"
                         /\ identities[s[2]].gateway = s[1]

\* The gateway only reads the tables: to them, its steps are stuttering.
LEMMA GatewayStepIsOnb == [IdNext]_idVars => [OnbNext]_onboardingVars
BY DEF IdNext, idVars, OnbNext, TokenNext, LookupHit, LoadRead, LoadMiss, LoadStore,
       EntryExpires, HandleIdentityEvent, probe, Sync

\* A row of edge_identities, once there, keeps its gateway.
LEMMA GatewayFixed ==
  ASSUME OnbInv, [OnbNext]_onboardingVars, NEW m \in NodeIds, identities[m].status # "Absent"
  PROVE  identities'[m].status # "Absent" /\ identities'[m].gateway = identities[m].gateway
<1>1. CASE TokenNext
  BY <1>1, TokenStep DEF OnbInv
<1>2. ASSUME NEW l \in Tokens, NEW g \in Gateways, NEW serial \in Serials,
             Bootstrap(l, g, serial)
      PROVE  identities'[m] = identities[m]
  <2>1. PICK n \in NodeIds, row \in IdentityRow :
            identities[n] = NoIdentity /\ identities' = [identities EXCEPT ![n] = row]
    BY <1>2, BootstrapIs DEF OnbInv
  <2>2. n # m
    BY <2>1 DEF NoIdentity
  <2> QED BY <2>1, <2>2 DEF OnbInv, OnbTypes
<1>3. ASSUME NEW l \in Tokens, NEW g \in Gateways, NEW serial \in Serials,
             BootstrapConflict(l, g, serial)
      PROVE  identities'[m] = identities[m]
  BY <1>3 DEF BootstrapConflict
<1>4. ASSUME NEW n \in NodeIds,
             \/ CertificateAges(n) \/ RenewRead(n) \/ RevokeNode(n)
             \/ \E f \in Certs : RenewWrite(n, f)
      PROVE  identities'[m].status # "Absent" /\ identities'[m].gateway = identities[m].gateway
  <2>1. PICK row \in IdentityRow :
            /\ identities' = [identities EXCEPT ![n] = row]
            /\ \/ row.status = identities[n].status
               \/ identities[n].status = "Active" /\ row.status = "Revoked"
            /\ row.gateway = identities[n].gateway
    BY <1>4, IdentityStep DEF OnbInv
  <2> QED BY <2>1 DEF OnbInv, OnbTypes
<1>5. CASE UNCHANGED onboardingVars
  BY <1>5 DEF onboardingVars
<1> QED BY <1>1, <1>2, <1>3, <1>4, <1>5 DEF OnbNext, IdentityNext

\* So what was true of an entry stays true of it.
LEMMA BoundStays ==
  ASSUME OnbInv, [OnbNext]_onboardingVars
  PROVE  \A e \in Entry : Bound(e) => Bound(e)'
BY GatewayFixed DEF Bound

\* Whom a gateway served stays registered, and at that gateway.
LEMMA ServedStays ==
  ASSUME OnbInv, [OnbNext]_onboardingVars, CacheInv
  PROVE  \A s \in served : /\ s[2] \in NodeIds /\ identities'[s[2]].status # "Absent"
                           /\ identities'[s[2]].gateway = s[1]
BY GatewayFixed DEF CacheInv

\* A step that stores one entry, one load and one admission at most.
LEMMA CacheStep ==
  ASSUME OnbInv, CacheInv, [IdNext]_idVars
  PROVE  CacheInv'
<1>1. [OnbNext]_onboardingVars
  BY GatewayStepIsOnb
<1>2. \A e \in Entry : Bound(e) => Bound(e)'
  BY <1>1, BoundStays
<1>3. \A s \in served : /\ s[2] \in NodeIds /\ identities'[s[2]].status # "Absent"
                        /\ identities'[s[2]].gateway = s[1]
  BY <1>1, ServedStays
<1>4. NoEntry \in Entry /\ Bound(NoEntry)
  BY DEF NoEntry, Entry, Bound
<1>5. /\ cache \in [Observed -> [Certs -> Entry]]
      /\ \A g \in Observed, f \in Certs : cache[g][f] \in Entry /\ Bound(cache[g][f])
  BY DEF CacheInv
<1>6. \A l \in loads : /\ l[1] \in Observed /\ l[2] \in Certs /\ l[3] \in Entry
                       /\ Bound(l[3]) /\ (l[3] = NoEntry \/ l[3].state = "fresh")
  BY DEF CacheInv
<1>7. CASE UNCHANGED cacheVars
  BY <1>2, <1>3, <1>5, <1>6, <1>7 DEF CacheInv, cacheVars
<1>8. ASSUME NEW g \in Observed, NEW e \in Entry, Bound(e), e.state # "none", Admit(g, e)
      PROVE  \A s \in served' : /\ s[2] \in NodeIds /\ identities'[s[2]].status # "Absent"
                                /\ identities'[s[2]].gateway = s[1]
  <2>1. /\ e.node \in NodeIds /\ identities'[e.node].status # "Absent"
        /\ e.gateway = identities'[e.node].gateway
    BY <1>2, <1>8 DEF Bound
  <2>2. CASE e.gateway = g
    <3>1. served' = served \cup {<<g, e.node, e.gateway>>}
      BY <1>8, <2>2 DEF Admit
    <3>2. ASSUME NEW s, s = <<g, e.node, e.gateway>>
          PROVE  /\ s[2] \in NodeIds /\ identities'[s[2]].status # "Absent"
                 /\ identities'[s[2]].gateway = s[1]
      <4>1. s[1] = g /\ s[2] = e.node
        BY <3>2
      <4> QED BY <2>1, <2>2, <4>1
    <3> QED BY <1>3, <3>1, <3>2
  <2>3. CASE e.gateway # g
    BY <1>3, <1>8, <2>3 DEF Admit
  <2> QED BY <2>2, <2>3
\* one entry is replaced by another that is bound
<1>9. ASSUME NEW g \in Observed, NEW f \in Certs, NEW e \in Entry, Bound(e),
             cache' = [cache EXCEPT ![g][f] = e]
      PROVE  /\ cache' \in [Observed -> [Certs -> Entry]]
             /\ (\A h \in Observed, c \in Certs : Bound(cache[h][c]))'
  <2>1. cache' \in [Observed -> [Certs -> Entry]]
    BY <1>5, <1>9
  <2>2. ASSUME NEW h \in Observed, NEW c \in Certs
        PROVE  Bound(cache[h][c])'
    <3>1. cache'[h][c] = e \/ cache'[h][c] = cache[h][c]
      BY <1>5, <1>9
    <3>2. PICK b \in Entry : cache'[h][c] = b /\ Bound(b)
      BY <1>5, <1>9, <3>1
    <3>3. Bound(b)'
      BY <1>2, <3>2
    <3> QED BY <3>2, <3>3 DEF Bound
  <2> QED BY <2>1, <2>2
<1>10. ASSUME NEW g \in Observed, NEW f \in Certs, LookupHit(g, f)
       PROVE  CacheInv'
  <2>1. cache[g][f] \in Entry /\ Bound(cache[g][f]) /\ cache[g][f].state # "none"
    BY <1>5, <1>10 DEF LookupHit
  <2>2. Admit(g, cache[g][f]) /\ UNCHANGED <<cache, loads>>
    BY <1>10 DEF LookupHit
  <2>3. \A s \in served' : /\ s[2] \in NodeIds /\ identities'[s[2]].status # "Absent"
                           /\ identities'[s[2]].gateway = s[1]
    BY <1>8, <2>1, <2>2
  <2> QED BY <1>2, <1>5, <1>6, <2>2, <2>3 DEF CacheInv
<1>11. ASSUME NEW g \in Observed, NEW f \in Certs, NEW e \in Entry, Bound(e),
              e = NoEntry \/ e.state = "fresh", loads' = loads \cup {<<g, f, e>>},
              UNCHANGED <<cache, served>>
       PROVE  CacheInv'
  <2>1. \A l \in loads' : /\ l[1] \in Observed /\ l[2] \in Certs /\ l[3] \in Entry
                          /\ Bound(l[3]) /\ (l[3] = NoEntry \/ l[3].state = "fresh")
    BY <1>6, <1>11
  <2>2. \A l \in loads' : Bound(l[3])'
    BY <1>2, <2>1
  <2> QED BY <1>2, <1>3, <1>5, <1>11, <2>1, <2>2 DEF CacheInv
<1>12. ASSUME NEW g \in Observed, NEW f \in Certs, LoadRead(g, f)
       PROVE  CacheInv'
  <2>1. PICK n \in ActiveWith(f) :
            loads' = loads \cup {<<g, f, [state |-> "fresh", node |-> n,
                                          gateway |-> identities[n].gateway]>>}
    BY <1>12 DEF LoadRead
  <2> DEFINE e == [state |-> "fresh", node |-> n, gateway |-> identities[n].gateway]
  <2>2. n \in NodeIds /\ identities[n].status = "Active"
    BY DEF ActiveWith, Live
  <2>3. identities[n].gateway \in Gateways \cup {NULL}
    BY <2>2 DEF OnbInv, OnbTypes, IdentityRow
  <2>4. e \in Entry /\ Bound(e) /\ e.state = "fresh"
    BY <2>2, <2>3 DEF Entry, Bound
  <2>5. loads' = loads \cup {<<g, f, e>>} /\ UNCHANGED <<cache, served>>
    BY <1>12, <2>1 DEF LoadRead
  <2> HIDE DEF e
  <2> QED BY <1>11, <2>4, <2>5
<1>13. ASSUME NEW g \in Observed, NEW f \in Certs, LoadMiss(g, f)
       PROVE  CacheInv'
  <2>1. loads' = loads \cup {<<g, f, NoEntry>>} /\ UNCHANGED <<cache, served>>
    BY <1>13 DEF LoadMiss
  <2> QED BY <1>4, <1>11, <2>1
<1>14. ASSUME NEW l \in loads, LoadStore(l[1], l[2], l[3])
       PROVE  CacheInv'
  <2>1. /\ l[1] \in Observed /\ l[2] \in Certs /\ l[3] \in Entry
        /\ Bound(l[3]) /\ (l[3] = NoEntry \/ l[3].state = "fresh")
    BY <1>6
  <2>2. cache' = [cache EXCEPT ![l[1]][l[2]] = l[3]] /\ loads' \subseteq loads
    BY <1>14 DEF LoadStore
  <2>3. /\ cache' \in [Observed -> [Certs -> Entry]]
        /\ (\A h \in Observed, c \in Certs : Bound(cache[h][c]))'
    BY <1>9, <2>1, <2>2
  <2>4. CASE l[3] = NoEntry
    <3>1. served' = served
      BY <1>14, <2>4 DEF LoadStore
    <3> QED BY <1>2, <1>3, <1>6, <2>2, <2>3, <3>1 DEF CacheInv
  <2>5. CASE l[3] # NoEntry
    <3>1. Admit(l[1], l[3]) /\ l[3].state # "none"
      BY <1>14, <2>1, <2>5 DEF LoadStore
    <3>2. \A s \in served' : /\ s[2] \in NodeIds /\ identities'[s[2]].status # "Absent"
                             /\ identities'[s[2]].gateway = s[1]
      BY <1>8, <2>1, <3>1
    <3> QED BY <1>2, <1>6, <2>2, <2>3, <3>2 DEF CacheInv
  <2> QED BY <2>4, <2>5
<1>15. ASSUME NEW g \in Observed, NEW f \in Certs, EntryExpires(g, f) \/ HandleIdentityEvent(g, f)
       PROVE  CacheInv'
  <2>1. PICK e \in Entry : Bound(e) /\ cache' = [cache EXCEPT ![g][f] = e]
    <3> DEFINE stale == [cache[g][f] EXCEPT !.state = "stale"]
    <3>1. cache[g][f] \in Entry /\ Bound(cache[g][f])
      BY <1>5
    <3>2. stale \in Entry /\ (cache[g][f].state = "fresh" => Bound(stale))
      BY <3>1 DEF Entry, Bound
    <3>3. EntryExpires(g, f) => cache[g][f].state = "fresh" /\ cache' = [cache EXCEPT ![g][f] = stale]
      BY <1>5 DEF EntryExpires
    <3>4. HandleIdentityEvent(g, f) => cache' = [cache EXCEPT ![g][f] = NoEntry]
      BY DEF HandleIdentityEvent
    <3> HIDE DEF stale
    <3> QED BY <1>4, <1>15, <3>2, <3>3, <3>4
  <2>2. UNCHANGED <<loads, served>>
    BY <1>15 DEF EntryExpires, HandleIdentityEvent
  <2>3. /\ cache' \in [Observed -> [Certs -> Entry]]
        /\ (\A h \in Observed, c \in Certs : Bound(cache[h][c]))'
    BY <1>9, <2>1
  <2> QED BY <1>2, <1>3, <1>6, <2>2, <2>3 DEF CacheInv
<1>16. ASSUME NEW g \in Observed, Sync(g)
       PROVE  CacheInv'
  <2>1. cache' = [cache EXCEPT ![g] = [f \in Certs |-> NoEntry]] /\ UNCHANGED <<loads, served>>
    BY <1>16 DEF Sync
  <2>2. cache' \in [Observed -> [Certs -> Entry]]
    BY <1>4, <1>5, <2>1
  <2>3. \A h \in Observed, c \in Certs : cache'[h][c] = NoEntry \/ cache'[h][c] = cache[h][c]
    BY <1>5, <2>1
  <2>4. (\A h \in Observed, c \in Certs : Bound(cache[h][c]))'
    BY <1>2, <1>4, <1>5, <2>3
  <2> QED BY <1>2, <1>3, <1>6, <2>1, <2>2, <2>4 DEF CacheInv
<1>17. ASSUME NEW g \in Observed, NEW reachable \in BOOLEAN, probe(g, reachable)
       PROVE  CacheInv'
  <2>1. UNCHANGED <<cache, loads, served>>
    BY <1>17 DEF probe
  <2> QED BY <1>2, <1>3, <1>5, <1>6, <2>1 DEF CacheInv
<1>18. CASE UNCHANGED idVars
  BY <1>7, <1>18 DEF idVars
<1> QED BY <1>7, <1>10, <1>12, <1>13, <1>14, <1>15, <1>16, <1>17, <1>18 DEF IdNext

\* A gateway lets a request through only as a node registered at that gateway, for any
\* number of gateways, nodes, requests in flight and cached, stale or deleted entries.
THEOREM ServedOnlyAtHome == IdSpec => []ServedAtHome
<1>1. IdInit => OnbInv /\ CacheInv
  <2> SUFFICES ASSUME IdInit PROVE OnbInv /\ CacheInv
    OBVIOUS
  <2>1. NoEntry \in Entry /\ Bound(NoEntry)
    BY DEF NoEntry, Entry, Bound
  <2>2. OnbInv
    BY OnbInvInit DEF IdInit
  <2> QED BY <2>1, <2>2 DEF IdInit, CacheInv
<1>2. OnbInv /\ CacheInv /\ [IdNext]_idVars => (OnbInv /\ CacheInv)'
  BY GatewayStepIsOnb, OnbStep, CacheStep
<1>3. CacheInv => ServedAtHome
  BY DEF CacheInv, ServedAtHome
<1> QED BY <1>1, <1>2, <1>3, PTL DEF IdSpec

-------------------------------------------------------------------------------
(* AgentIdentity *)

FileNames == {"key", "cert", "ca", "node"}
Number == Nat \cup {NULL}
Process == [phase : {"off", "bootstrap", "persist", "up", "renewing", "renew"},
            node : Number, cert : Number, dialled : Number]

DevTypes ==
    /\ owner \in [Certs -> NodeIds \cup {NULL}]
    /\ files \in [FileNames -> Number]
    /\ agent \in Process

\* Certificates are issued in order, to nodes that are registered; a renewal of one of
\* the device's nodes is one the device asked for, and its certificate is the one on disk
\* or follows it.
Issued ==
    /\ \A c \in Certs : owner[c] # NULL => c <= signed /\ nodes[owner[c]] # "Absent"
    /\ \A r \in renewals : r[2] <= signed /\ (r[1] \in Mine => owner[r[2]] = r[1])
    /\ files["cert"] \notin {NULL, Torn} =>
          files["cert"] \in Certs /\ owner[files["cert"]] # NULL

\* What a phase of the agent can count on.  Known: the control plane has the certificate
\* on record.  Unrenewed: no Renew of the node is in flight, which could replace it.
Known(c) == identities[owner[c]].fingerprint = c
Unrenewed(n) == \A r \in renewals : r[1] # n
Lost == "unanswered" \in marks
\* The agent waits for no Renew of the node whose only one is in flight.
Unwaited(n) == agent.phase = "renewing" => Lost \/ n # owner[agent.dialled]
Agree == owner[files["cert"]] = files["node"] \/ "mixed" \in marks
Sure == Lost \/ (Known(files["cert"]) /\ Unrenewed(owner[files["cert"]]))
\* A connected agent's node is the one beside which its files lie; a certificate file
\* that a failed write tore is one the agent gave up.
Whole == files["cert"] \notin {NULL, Torn}
Same == owner[agent.dialled] = files["node"] \/ "mixed" \in marks
Connected == /\ agent.dialled \in Certs /\ owner[agent.dialled] # NULL /\ Same
             /\ Whole \/ Lost
             /\ Whole => owner[agent.dialled] = owner[files["cert"]]

WhenOff == pending = <<>> /\ (Loadable => Agree /\ Sure)
WhenBootstrap == pending = <<>> /\ ~Loadable
WhenUp ==
    /\ pending = <<>> /\ Connected /\ Sure
    /\ Lost \/ "renewed" \in marks \/ Known(agent.dialled)
WhenRenewing ==
    /\ pending = <<>> /\ Connected
    /\ Lost \/ (/\ Known(files["cert"])
                /\ \E f \in Certs : \A r \in renewals : r[1] = owner[agent.dialled] => r[2] = f)

\* A fresh identity is written from key to node-id: until the certificate is there the
\* files do not load, from then on they hold the new certificate.
Persisting(n, c) ==
    \/ pending = Writes(n, c) /\ ~Loadable /\ files["cert"] # c
    \/ /\ pending = <<<<"cert", c>>, <<"ca", 1>>, <<"node", n>>>>
       /\ files["key"] = c /\ files["cert"] # c
    \/ pending = <<<<"ca", 1>>, <<"node", n>>>> /\ files["cert"] = c
    \/ pending = <<<<"node", n>>>> /\ files["cert"] = c
WhenPersist ==
    /\ agent.cert \in Certs /\ agent.node \in NodeIds
    /\ owner[agent.cert] = agent.node /\ Known(agent.cert) /\ Unrenewed(agent.node)
    /\ Persisting(agent.node, agent.cert)

\* A renewed one is written from key to CA beside the node-id that is there.
Replacing(f) ==
    \/ pending = <<<<"key", f>>, <<"cert", f>>, <<"ca", 1>>>>
    \/ pending = <<<<"cert", f>>, <<"ca", 1>>>>
    \/ pending = <<<<"ca", 1>>>> /\ files["cert"] = f
WhenRenew ==
    /\ Connected
    /\ \E f \in Certs : /\ owner[f] = owner[agent.dialled]
                        /\ Lost \/ (Known(f) /\ Unrenewed(owner[f]))
                        /\ Replacing(f)

Phases ==
    /\ agent.phase = "off" => WhenOff
    /\ agent.phase = "bootstrap" => WhenBootstrap
    /\ agent.phase = "persist" => WhenPersist
    /\ agent.phase = "up" => WhenUp
    /\ agent.phase = "renewing" => WhenRenewing
    /\ agent.phase = "renew" => WhenRenew

\* What the phases promise together is inductive: the files of a phase are the ones its
\* predecessor left, and a Renew may only be in flight where its answer counts as lost.
DevInv == DevTypes /\ Issued /\ Phases

\* To the control plane, the device is one more client.
LEMMA DeviceStepIsOnb ==
  ASSUME OnbInv, DevInv, [AgNext]_deviceVars
  PROVE  [OnbNext]_onboardingVars
<1>1. CASE AgentBootstrap
  BY <1>1, DeviceAssumption, SerialAssumption DEF AgentBootstrap, OnbNext, IdentityNext
<1>2. CASE AgentRenew
  <2>1. owner[agent.dialled] \in NodeIds
    BY <1>2 DEF AgentRenew, DevInv, Phases, WhenUp, Connected, Issued, DevTypes
  <2> QED BY <1>2, <2>1 DEF AgentRenew, OnbNext, IdentityNext
<1>3. ASSUME NEW f \in Certs, AgentRenewAnswer(f)
      PROVE  OnbNext
  <2>1. RenewWrite(owner[agent.dialled], f)
    BY <1>3 DEF AgentRenewAnswer
  <2>2. <<owner[agent.dialled], f>> \in NodeIds \X Certs
    BY <2>1 DEF RenewWrite, OnbInv, OnbTypes
  <2>3. owner[agent.dialled] \in NodeIds
    BY <2>2
  <2> QED BY <2>1, <2>3 DEF OnbNext, IdentityNext
<1>4. Mine \subseteq NodeIds
  BY DEF DevInv, DevTypes, Mine
<1>5. CASE \/ AgentStart \/ AgentBootstrapRefused \/ AgentWrite \/ AgentCrash
           \/ AgentRenewTimeout \/ AgentRenewWriteFails
  BY <1>5 DEF AgentStart, AgentBootstrapRefused, AgentWrite, AgentCrash, AgentRenewTimeout,
              AgentRenewWriteFails
<1>6. CASE \E n \in Mine, f \in Certs : OrphanedRenewal(n, f)
  BY <1>4, <1>6 DEF OrphanedRenewal, OnbNext, IdentityNext
<1>7. CASE UNCHANGED deviceVars
  BY <1>7 DEF deviceVars
<1> QED BY <1>1, <1>2, <1>3, <1>5, <1>6, <1>7 DEF AgNext, OnbNext, IdentityNext

\* What a step the device takes no part in leaves as it was for the device's nodes.
LEMMA QuietStep ==
  ASSUME OnbInv, DevInv, UNCHANGED agentVars,
         \/ TokenNext
         \/ \E k \in Tokens, g \in Gateways, serial \in Serials :
               Bootstrap(k, g, serial) \/ BootstrapConflict(k, g, serial)
         \/ \E n \in NodeIds : CertificateAges(n) \/ RevokeNode(n) \/ (n \notin Mine /\ RenewRead(n))
         \/ \E n \in NodeIds \ Mine, f \in Certs : RenewWrite(n, f)
         \/ \E n \in Mine, f \in Certs : OrphanedRenewal(n, f)
  PROVE  /\ signed <= signed'
         /\ \A n \in NodeIds : nodes[n] # "Absent" => nodes'[n] # "Absent"
         /\ \A r \in renewals' : r \in renewals \/ (r[1] \notin Mine /\ r[2] <= signed')
         /\ \A n \in Mine : /\ nodes[n] # "Absent"
                            /\ \/ identities'[n].fingerprint = identities[n].fingerprint
                               \/ ~Unrenewed(n) /\ Unwaited(n)
<1> DEFINE Post ==
         /\ signed <= signed'
         /\ \A n \in NodeIds : nodes[n] # "Absent" => nodes'[n] # "Absent"
         /\ \A r \in renewals' : r \in renewals \/ (r[1] \notin Mine /\ r[2] <= signed')
         /\ \A n \in Mine : /\ nodes[n] # "Absent"
                            /\ \/ identities'[n].fingerprint = identities[n].fingerprint
                               \/ ~Unrenewed(n) /\ Unwaited(n)
<1>0. /\ OnbTypes /\ RowsAgree /\ signed \in Nat
      /\ \A n \in Mine : n \in NodeIds /\ nodes[n] # "Absent"
  BY BoundsAssumption DEF OnbInv, OnbTypes, DevInv, DevTypes, Issued, Mine
<1>1. CASE TokenNext
  BY <1>0, <1>1, TokenStep
<1>2. ASSUME NEW k \in Tokens, NEW g \in Gateways, NEW serial \in Serials,
             Bootstrap(k, g, serial)
      PROVE  Post
  <2>1. PICK n \in NodeIds, row \in IdentityRow :
            /\ identities[n] = NoIdentity
            /\ identities' = [identities EXCEPT ![n] = row]
            /\ nodes' = [nodes EXCEPT ![n] = "Active"]
            /\ signed' = signed + 1 /\ UNCHANGED renewals
    BY <1>0, <1>2, BootstrapIs
  <2>2. nodes[n] = "Absent"
    BY <1>0, <2>1 DEF RowsAgree, NoIdentity
  <2> QED BY <1>0, <2>1, <2>2 DEF OnbTypes
<1>3. ASSUME NEW k \in Tokens, NEW g \in Gateways, NEW serial \in Serials,
             BootstrapConflict(k, g, serial)
      PROVE  Post
  BY <1>0, <1>3 DEF BootstrapConflict
<1>4. ASSUME NEW n \in NodeIds, CertificateAges(n) \/ RevokeNode(n)
      PROVE  Post
  <2>1. /\ \A m \in NodeIds : identities'[m].fingerprint = identities[m].fingerprint
        /\ UNCHANGED <<signed, renewals>>
        /\ \A m \in NodeIds : nodes[m] # "Absent" => nodes'[m] # "Absent"
    BY <1>0, <1>4 DEF CertificateAges, RevokeNode, OnbTypes, IdentityRow
  <2> QED BY <1>0, <2>1
<1>5. ASSUME NEW n \in NodeIds, n \notin Mine, RenewRead(n)
      PROVE  Post
  <2>1. /\ UNCHANGED <<identities, nodes>> /\ signed' = signed + 1
        /\ renewals' = renewals \cup {<<n, signed + 1>>}
    BY <1>5 DEF RenewRead
  <2> QED BY <1>0, <1>5, <2>1
<1>6. ASSUME NEW n \in NodeIds, NEW f \in Certs, RenewWrite(n, f),
             n \notin Mine \/ ~Awaited(n, f)
      PROVE  Post
  <2>1. /\ UNCHANGED <<nodes, signed>> /\ renewals' \subseteq renewals
        /\ \A m \in NodeIds : m # n => identities'[m] = identities[m]
        /\ <<n, f>> \in renewals
    BY <1>0, <1>6 DEF RenewWrite, OnbTypes
  <2>2. ~Unrenewed(n)
    BY <2>1 DEF Unrenewed
  <2>3. ASSUME n \in Mine PROVE Unwaited(n)
    <3> SUFFICES ASSUME agent.phase = "renewing", ~Lost, n = owner[agent.dialled] PROVE FALSE
      BY DEF Unwaited
    <3>1. PICK e \in Certs : \A r \in renewals : r[1] = n => r[2] = e
      BY DEF DevInv, Phases, WhenRenewing
    <3>2. f = e /\ f \in Nat
      BY <2>1, <3>1 DEF Certs
    <3>3. Awaited(n, f)
      BY <3>1, <3>2 DEF Awaited
    <3> QED BY <1>6, <2>3, <3>3
  <2> QED BY <1>0, <1>6, <2>1, <2>2, <2>3
<1> QED BY <1>0, <1>1, <1>2, <1>3, <1>4, <1>5, <1>6 DEF OrphanedRenewal

\* So other clients, token administration and a Renew whose caller is gone keep what the
\* device counts on.
LEMMA QuietKeeps ==
  ASSUME OnbInv, DevInv, UNCHANGED agentVars, signed <= signed', signed' \in Nat,
         \A n \in NodeIds : nodes[n] # "Absent" => nodes'[n] # "Absent",
         \A r \in renewals' : r \in renewals \/ (r[1] \notin Mine /\ r[2] <= signed'),
         \A n \in Mine : /\ nodes[n] # "Absent"
                         /\ \/ identities'[n].fingerprint = identities[n].fingerprint
                            \/ ~Unrenewed(n) /\ Unwaited(n)
  PROVE  DevInv'
<1>1. UNCHANGED <<files, agent, pending, owner, marks>>
  BY DEF agentVars
<1>2. DevTypes'
  BY <1>1 DEF DevInv, DevTypes
<1>3. /\ \A c \in Certs : owner[c] # NULL => owner[c] \in NodeIds /\ owner[c] \in Mine
      /\ \A c \in Certs : c \in Nat
      /\ signed \in Nat /\ \A r \in renewals : r[2] \in Nat /\ r[2] \in Certs
  BY BoundsAssumption DEF DevInv, DevTypes, Mine, Certs, OnbInv, OnbTypes
<1>4. Mine' = Mine
  BY <1>1 DEF Mine
<1>5. Issued'
  <2>1. \A c \in Certs : owner[c] # NULL => c <= signed' /\ nodes'[owner[c]] # "Absent"
    BY <1>3 DEF DevInv, Issued
  <2>2. \A r \in renewals' : r[2] <= signed' /\ (r[1] \in Mine => owner[r[2]] = r[1])
    BY <1>3 DEF DevInv, Issued
  <2> QED BY <1>1, <1>4, <2>1, <2>2 DEF DevInv, Issued
<1>6. \A n \in Mine : Unrenewed(n) => Unrenewed(n)'
  BY DEF Unrenewed
<1>7. ASSUME NEW c \in Certs, owner[c] # NULL, Known(c),
             Unrenewed(owner[c]) \/ ~Unwaited(owner[c])
      PROVE  Known(c)'
  BY <1>1, <1>3, <1>7 DEF Known
<1>8. /\ Lost' = Lost /\ Agree' = Agree /\ Connected' = Connected /\ Loadable' = Loadable
      /\ \A n \in NodeIds, c \in Certs : Persisting(n, c)' = Persisting(n, c)
      /\ \A f \in Certs : Replacing(f)' = Replacing(f)
  BY <1>1 DEF Lost, Agree, Connected, Whole, Same, Loadable, Persisting, Writes, Replacing
<1>9. Whole => /\ files["cert"] \in Certs /\ owner[files["cert"]] # NULL
               /\ owner[files["cert"]] \in Mine
  BY <1>3 DEF Whole, DevInv, Issued
<1>10. Whole \/ Lost => (Sure => Sure')
  BY <1>1, <1>6, <1>7, <1>8, <1>9 DEF Sure
<1>11. agent.phase = "off" => WhenOff'
  <2>1. Loadable => Whole
    BY DEF Loadable, Whole, DevInv, DevTypes, FileNames
  <2> QED BY <1>1, <1>8, <1>10, <2>1 DEF DevInv, Phases, WhenOff
<1>12. agent.phase = "bootstrap" => WhenBootstrap'
  BY <1>1, <1>8 DEF DevInv, Phases, WhenBootstrap
<1>13. agent.phase = "persist" => WhenPersist'
  <2> SUFFICES ASSUME agent.phase = "persist" PROVE WhenPersist'
    OBVIOUS
  <2>1. WhenPersist
    BY DEF DevInv, Phases
  <2>2. owner[agent.cert] # NULL /\ owner[agent.cert] \in Mine
    BY <1>3, <2>1, NoNumberAssumption, BoundsAssumption DEF WhenPersist, NodeIds
  <2>3. Known(agent.cert)' /\ Unrenewed(agent.node)'
    BY <1>1, <1>6, <1>7, <2>1, <2>2 DEF WhenPersist
  <2> QED BY <1>1, <1>8, <2>1, <2>3 DEF WhenPersist
<1>14. agent.phase = "up" => WhenUp'
  <2> SUFFICES ASSUME agent.phase = "up" PROVE WhenUp'
    OBVIOUS
  <2>1. WhenUp /\ (Whole \/ Lost)
    BY DEF DevInv, Phases, WhenUp, Connected
  <2>2. Lost \/ "renewed" \in marks \/ Known(agent.dialled)'
    <3>1. \A c \in Certs : c = agent.dialled => (Known(c)' <=> Known(agent.dialled)')
      BY <1>1 DEF Known
    <3> QED BY <1>7, <1>9, <2>1, <3>1 DEF WhenUp, Sure, Connected
  <2> QED BY <1>1, <1>8, <1>10, <2>1, <2>2 DEF WhenUp
<1>15. agent.phase = "renewing" => WhenRenewing'
  <2> SUFFICES ASSUME agent.phase = "renewing" PROVE WhenRenewing'
    OBVIOUS
  <2>1. WhenRenewing
    BY DEF DevInv, Phases
  <2>3. CASE Lost
    BY <1>1, <1>8, <2>1, <2>3 DEF WhenRenewing
  <2>4. CASE ~Lost
    <3>0. Whole /\ owner[agent.dialled] = owner[files["cert"]]
      BY <2>1, <2>4 DEF WhenRenewing, Connected
    <3>1. Known(files["cert"])'
      <4>1. ~Unwaited(owner[files["cert"]])
        BY <2>4, <3>0 DEF Unwaited
      <4> QED BY <1>1, <1>7, <1>9, <2>1, <2>4, <3>0, <4>1 DEF WhenRenewing
    <3>2. PICK f \in Certs : \A r \in renewals : r[1] = owner[agent.dialled] => r[2] = f
      BY <2>1, <2>4 DEF WhenRenewing
    <3>3. \A r \in renewals' : r[1] = owner[agent.dialled] => r[2] = f
      BY <1>9, <3>0, <3>2
    <3> QED BY <1>1, <1>8, <2>1, <3>1, <3>3 DEF WhenRenewing
  <2> QED BY <2>3, <2>4
<1>16. agent.phase = "renew" => WhenRenew'
  <2> SUFFICES ASSUME agent.phase = "renew" PROVE WhenRenew'
    OBVIOUS
  <2>1. WhenRenew
    BY DEF DevInv, Phases
  <2>2. PICK f \in Certs : /\ owner[f] = owner[agent.dialled]
                           /\ Lost \/ (Known(f) /\ Unrenewed(owner[f]))
                           /\ Replacing(f)
    BY <2>1 DEF WhenRenew
  <2>3. owner[f] # NULL /\ owner[f] \in Mine
    BY <1>3, <2>1, <2>2 DEF WhenRenew, Connected
  <2>4. Lost \/ (Known(f)' /\ Unrenewed(owner[f])')
    BY <1>1, <1>6, <1>7, <2>2, <2>3
  <2> QED BY <1>1, <1>8, <2>1, <2>2, <2>4 DEF WhenRenew
<1> QED BY <1>1, <1>2, <1>5, <1>11, <1>12, <1>13, <1>14, <1>15, <1>16 DEF DevInv, Phases

\* A process that starts keeps the promise of the files it finds.
LEMMA StartKeeps ==
  ASSUME OnbInv, DevInv, AgentStart
  PROVE  DevInv'
<1>1. /\ agent.phase = "off" /\ UNCHANGED <<onboardingVars, files, pending, owner>>
      /\ marks' = marks \ {"renewed"}
  BY DEF AgentStart
<1>2. WhenOff
  BY <1>1 DEF DevInv, Phases
<1>3. /\ Lost' = Lost /\ Agree' = Agree /\ Sure' = Sure /\ Loadable' = Loadable /\ Issued' = Issued
  BY <1>1 DEF Lost, Agree, Sure, Known, Unrenewed, Loadable, Issued, Mine, onboardingVars
<1>4. CASE Loadable
  <2>1. /\ files["cert"] \notin {NULL, Torn} /\ files["cert"] \in Number /\ files["node"] \in Number
    BY <1>4 DEF Loadable, DevInv, DevTypes, FileNames
  <2>2. agent' = Running(files["node"], files["cert"])
    BY <1>4 DEF AgentStart
  <2>3. agent'.phase = "up" /\ agent'.dialled = files["cert"] /\ agent' \in Process
    BY <2>1, <2>2 DEF Running, Process
  <2>4. Connected'
    <3>1. owner'[agent'.dialled] = owner[files["cert"]] /\ UNCHANGED <<files, owner>>
      BY <1>1, <2>3
    <3>2. Same'
      BY <1>2, <1>3, <1>4, <3>1 DEF WhenOff, Agree, Same
    <3>3. files["cert"] \in Certs /\ owner[files["cert"]] # NULL
      BY <2>1 DEF DevInv, Issued
    <3> QED BY <2>1, <2>3, <3>1, <3>2, <3>3 DEF Connected, Whole
  <2>5. Lost' \/ Known(agent.dialled)'
    BY <1>1, <1>2, <1>4, <2>3 DEF WhenOff, Sure, Known, Lost, onboardingVars
  <2>6. WhenUp'
    BY <1>1, <1>2, <1>3, <1>4, <2>4, <2>5 DEF WhenOff, WhenUp
  <2> QED BY <1>1, <1>3, <2>3, <2>6 DEF DevInv, DevTypes, Phases
<1>5. CASE ~Loadable
  <2>1. agent' = [Off EXCEPT !.phase = "bootstrap"]
    BY <1>5 DEF AgentStart
  <2>2. agent'.phase = "bootstrap" /\ agent' \in Process
    BY <2>1 DEF Off, Process, Number
  <2>3. WhenBootstrap'
    BY <1>1, <1>2, <1>3, <1>5 DEF WhenOff, WhenBootstrap
  <2> QED BY <1>1, <1>3, <2>2, <2>3 DEF DevInv, DevTypes, Phases
<1> QED BY <1>4, <1>5

\* An agent that ends leaves files that either do not load or keep the promise.
LEMMA OffKeeps ==
  ASSUME DevInv, DevTypes', Issued', agent' = Off, pending' = <<>>,
         Loadable' => Agree' /\ Sure'
  PROVE  DevInv'
BY DEF DevInv, Phases, WhenOff, Off

\* The node a Bootstrap registers is the one that was not there.
LEMMA NewNodeIs ==
  ASSUME OnbInv, NEW n \in NodeIds, nodes[n] = "Absent", nodes' = [nodes EXCEPT ![n] = "Active"]
  PROVE  NewNode = n
<1>1. /\ nodes[n] = "Absent" /\ nodes'[n] # "Absent"
      /\ \A m \in NodeIds : nodes[m] = "Absent" /\ nodes'[m] # "Absent" => m = n
  BY DEF OnbInv, OnbTypes
<1> QED BY <1>1 DEF NewNode

\* A registration numbers its certificate after all others, so that none of the files
\* holds it yet, and no Renew of the new node can be in flight.
LEMMA BootstrapStepKeeps ==
  ASSUME OnbInv, DevInv, AgentBootstrap
  PROVE  DevInv'
<1>1. PICK n \in NodeIds, row \in IdentityRow :
            /\ identities[n] = NoIdentity
            /\ row.fingerprint = signed + 1
            /\ identities' = [identities EXCEPT ![n] = row]
            /\ nodes' = [nodes EXCEPT ![n] = "Active"]
            /\ signed' = signed + 1 /\ signed < MaxCerts /\ UNCHANGED renewals
  BY BootstrapIs, DeviceAssumption, SerialAssumption DEF OnbInv, AgentBootstrap
<1>2. nodes[n] = "Absent" /\ \A r \in renewals : r[1] # n
  BY <1>1 DEF OnbInv, OnbTypes, RowsAgree, NoIdentity
<1>3. NewNode = n
  BY <1>1, <1>2, NewNodeIs
<1> DEFINE c == signed + 1
<1>4. c \in Certs /\ c \in Nat /\ c # 0 /\ n \in Nat /\ signed < c
  BY <1>1, BoundsAssumption DEF OnbInv, OnbTypes, Certs, NodeIds
<1>5. /\ ~Loadable /\ UNCHANGED files /\ marks' = {} /\ owner' = [owner EXCEPT ![c] = n]
  BY <1>1, <1>3 DEF AgentBootstrap, DevInv, Phases, WhenBootstrap
<1>6. /\ \A m \in NodeIds : m # n => nodes'[m] = nodes[m]
      /\ nodes'[n] = "Active" /\ identities'[n].fingerprint = c
  BY <1>1 DEF OnbInv, OnbTypes
<1>7. /\ owner' \in [Certs -> NodeIds \cup {NULL}] /\ owner'[c] = n
      /\ \A d \in Certs : d # c => owner'[d] = owner[d]
  BY <1>4, <1>5 DEF DevInv, DevTypes
<1>8. files["cert"] # c
  BY <1>4, NoNumberAssumption, BoundsAssumption DEF DevInv, Issued, Torn, OnbInv, OnbTypes
<1> HIDE DEF c
<1>9. Issued'
  <2>1. ASSUME NEW d \in Certs, owner'[d] # NULL
        PROVE  d <= signed' /\ nodes'[owner'[d]] # "Absent"
    <3>1. CASE d = c
      BY <1>1, <1>4, <1>6, <1>7, <3>1 DEF c
    <3>2. CASE d # c
      <4>1. owner'[d] = owner[d] /\ owner[d] \in NodeIds /\ d <= signed /\ nodes[owner[d]] # "Absent"
        BY <1>7, <2>1, <3>2 DEF DevInv, DevTypes, Issued
      <4>2. d \in Nat /\ signed \in Nat
        BY BoundsAssumption DEF Certs, OnbInv, OnbTypes
      <4> QED BY <1>1, <1>2, <1>6, <4>1, <4>2
    <3> QED BY <3>1, <3>2
  <2>2. ASSUME NEW r \in renewals'
        PROVE  r[2] <= signed' /\ (r[1] \in Mine' => owner'[r[2]] = r[1])
    <3>1. /\ r \in renewals /\ r[1] # n /\ r[2] <= signed /\ r[2] \in Certs
          /\ r[2] \in Nat /\ signed \in Nat
      BY <1>1, <1>2, <2>2, BoundsAssumption DEF DevInv, Issued, OnbInv, OnbTypes, Certs
    <3>2. r[1] \in Mine' => r[1] \in Mine
      BY <1>7, <3>1 DEF Mine
    <3>3. r[2] # c
      BY <1>4, <3>1
    <3> QED BY <1>1, <1>7, <3>1, <3>2, <3>3 DEF DevInv, Issued
  <2>3. files["cert"] \notin {NULL, Torn} => files["cert"] \in Certs /\ owner'[files["cert"]] # NULL
    BY <1>7, <1>8 DEF DevInv, Issued
  <2> QED BY <1>5, <2>1, <2>2, <2>3 DEF Issued
<1>10. CASE pending' = Writes(n, c) /\ agent' = [phase |-> "persist", node |-> n, cert |-> c,
                                                 dialled |-> NULL]
  <2>1. /\ agent'.phase = "persist" /\ agent'.node = n /\ agent'.cert = c /\ agent' \in Process
    BY <1>4, <1>10 DEF Process, Number
  <2>2. DevTypes'
    BY <1>5, <1>7, <2>1 DEF DevInv, DevTypes
  <2>3. Known(agent.cert)' /\ Unrenewed(agent.node)'
    BY <1>1, <1>2, <1>6, <1>7, <2>1 DEF Known, Unrenewed
  <2>4. Persisting(agent.node, agent.cert)'
    BY <1>5, <1>8, <1>10, <2>1 DEF Persisting, Writes, Loadable
  <2>5. WhenPersist'
    BY <1>4, <1>7, <2>1, <2>3, <2>4 DEF WhenPersist
  <2> QED BY <1>9, <2>1, <2>2, <2>5 DEF DevInv, Phases
<1>11. CASE AgentStop
  <2>1. agent' = Off /\ pending' = <<>> /\ ~Loadable'
    BY <1>5, <1>11 DEF AgentStop, Loadable
  <2>2. DevTypes'
    BY <1>5, <1>7, <2>1 DEF DevInv, DevTypes, Off, Process, Number
  <2> QED BY <1>9, <2>1, <2>2, OffKeeps
<1> QED BY <1>1, <1>3, <1>10, <1>11 DEF AgentBootstrap, c

\* A write replaces one file; after the last one the identity is in use.
LEMMA WriteIs ==
  ASSUME AgentWrite
  PROVE  /\ UNCHANGED <<onboardingVars, owner>> /\ pending' = Tail(pending)
         /\ \A name, content : Head(pending) = <<name, content>> =>
                files' = [files EXCEPT ![name] = content]
         /\ Len(pending) > 1 => agent' = agent /\ marks' = marks
         /\ Len(pending) = 1 /\ agent.phase = "persist" =>
                agent' = Running(agent.node, agent.cert) /\ marks' = marks
         /\ Len(pending) = 1 /\ agent.phase = "renew" =>
                /\ agent' = [agent EXCEPT !.phase = "up", !.cert = files'["cert"]]
                /\ marks' = marks \cup {"renewed"}
<1>1. ASSUME NEW name, NEW content, Head(pending) = <<name, content>>
      PROVE  files' = [files EXCEPT ![name] = content]
  <2>1. Head(pending)[1] = name /\ Head(pending)[2] = content
    BY <1>1
  <2>2. files' = [files EXCEPT ![Head(pending)[1]] = Head(pending)[2]]
    BY DEF AgentWrite
  <2> QED BY <2>1, <2>2, Zenon
<1>2. Len(pending) > 1 => agent' = agent
  BY Zenon DEF AgentWrite
<1>3. Len(pending) = 1 => ~(Len(pending) > 1)
  OBVIOUS
<1>9. Len(pending) > 1 => marks' = marks
  <2>1. Len(pending) # 1 => marks' = marks
    BY Zenon DEF AgentWrite
  <2> QED BY <1>3, <2>1
<1>4. Len(pending) = 1 /\ agent.phase = "persist" => agent' = Running(agent.node, agent.cert)
  <2>1. ~(Len(pending) > 1) /\ agent.phase = "persist" => agent' = Running(agent.node, agent.cert)
    BY Zenon DEF AgentWrite
  <2> QED BY <1>3, <2>1
<1>5. Len(pending) = 1 /\ agent.phase = "persist" => marks' = marks
  BY DEF AgentWrite
<1>6. Len(pending) = 1 /\ agent.phase = "renew" =>
        agent' = [agent EXCEPT !.phase = "up", !.cert = files'["cert"]]
  <2>1. ~(Len(pending) > 1) /\ agent.phase # "persist" =>
          agent' = [agent EXCEPT !.phase = "up", !.cert = files'["cert"]]
    BY Zenon DEF AgentWrite
  <2> QED BY <1>3, <2>1
<1>7. Len(pending) = 1 /\ agent.phase = "renew" => marks' = marks \cup {"renewed"}
  BY DEF AgentWrite
<1>8. UNCHANGED <<onboardingVars, owner>> /\ pending' = Tail(pending)
  BY DEF AgentWrite
<1> QED BY <1>1, <1>2, <1>4, <1>5, <1>6, <1>7, <1>8, <1>9, Zenon

\* The next file of a fresh identity.
LEMMA PersistWriteKeeps ==
  ASSUME OnbInv, DevInv, AgentWrite, agent.phase = "persist"
  PROVE  DevInv'
<1>1. PICK c \in Certs, n \in NodeIds :
            /\ agent.cert = c /\ agent.node = n
            /\ owner[c] = n /\ Known(c) /\ Unrenewed(n) /\ Persisting(n, c)
  BY DEF DevInv, Phases, WhenPersist
<1>2. /\ UNCHANGED <<onboardingVars, owner>> /\ pending' = Tail(pending)
      /\ \A name, content : Head(pending) = <<name, content>> =>
                files' = [files EXCEPT ![name] = content]
      /\ Len(pending) > 1 => agent' = agent /\ marks' = marks
      /\ Len(pending) = 1 => agent' = Running(n, c) /\ marks' = marks
  BY <1>1, WriteIs
<1>3. /\ c \in Nat /\ c # 0 /\ n \in Nat /\ n # NULL /\ c # NULL /\ 1 # NULL
      /\ files \in [FileNames -> Number] /\ agent \in Process
  BY <1>1, NoNumberAssumption, BoundsAssumption DEF Certs, NodeIds, DevInv, DevTypes
<1>4. ASSUME NEW name \in FileNames, NEW content \in Nat, Head(pending) = <<name, content>>,
             name = "cert" => content = c, agent' \in Process
      PROVE  /\ DevTypes' /\ Issued' /\ files'[name] = content
             /\ \A other \in FileNames : other # name => files'[other] = files[other]
  <2>1. files' = [files EXCEPT ![name] = content]
    BY <1>2, <1>4
  <2>2. /\ files' \in [FileNames -> Number] /\ files'[name] = content
        /\ \A other \in FileNames : other # name => files'[other] = files[other]
    BY <1>3, <2>1 DEF Number
  <2>3. DevTypes'
    BY <1>2, <1>4, <2>2 DEF DevInv, DevTypes
  <2>4. files'["cert"] = c \/ files'["cert"] = files["cert"]
    BY <1>4, <2>2 DEF FileNames
  <2>5. Issued'
    BY <1>1, <1>2, <1>3, <2>4 DEF DevInv, Issued, Mine, onboardingVars
  <2> QED BY <2>2, <2>3, <2>5
<1>5. ASSUME agent' = agent, Persisting(n, c)', DevTypes', Issued'
      PROVE  DevInv'
  <2>1. Known(c)' /\ Unrenewed(n)'
    BY <1>1, <1>2 DEF Known, Unrenewed, onboardingVars
  <2>2. Known(agent.cert)' /\ Unrenewed(agent.node)' /\ Persisting(agent.node, agent.cert)'
    BY <1>1, <1>5, <2>1 DEF Known, Unrenewed, Persisting, Writes
  <2>3. WhenPersist'
    BY <1>1, <1>2, <1>5, <2>2 DEF WhenPersist
  <2>4. agent'.phase = "persist"
    BY <1>5
  <2> QED BY <1>5, <2>3, <2>4 DEF DevInv, Phases
<1>6. CASE pending = Writes(n, c) /\ ~Loadable /\ files["cert"] # c
  <2>1. /\ Head(pending) = <<"key", c>> /\ Len(pending) > 1
        /\ pending' = <<<<"cert", c>>, <<"ca", 1>>, <<"node", n>>>>
    BY <1>2, <1>6 DEF Writes
  <2>2. DevTypes' /\ Issued' /\ files'["key"] = c /\ files'["cert"] = files["cert"]
    BY <1>2, <1>3, <1>4, <2>1 DEF FileNames
  <2>3. Persisting(n, c)'
    BY <1>6, <2>1, <2>2 DEF Persisting
  <2> QED BY <1>2, <1>5, <2>1, <2>2, <2>3
<1>7. CASE /\ pending = <<<<"cert", c>>, <<"ca", 1>>, <<"node", n>>>>
           /\ files["key"] = c /\ files["cert"] # c
  <2>1. /\ Head(pending) = <<"cert", c>> /\ Len(pending) > 1
        /\ pending' = <<<<"ca", 1>>, <<"node", n>>>>
    BY <1>2, <1>7
  <2>2. DevTypes' /\ Issued' /\ files'["cert"] = c
    BY <1>2, <1>3, <1>4, <2>1 DEF FileNames
  <2>3. Persisting(n, c)'
    BY <2>1, <2>2 DEF Persisting
  <2> QED BY <1>2, <1>5, <2>1, <2>2, <2>3
<1>8. CASE pending = <<<<"ca", 1>>, <<"node", n>>>> /\ files["cert"] = c
  <2>1. /\ Head(pending) = <<"ca", 1>> /\ Len(pending) > 1
        /\ pending' = <<<<"node", n>>>>
    BY <1>2, <1>8
  <2>2. DevTypes' /\ Issued' /\ files'["cert"] = c
    BY <1>2, <1>3, <1>4, <1>8, <2>1 DEF FileNames
  <2>3. Persisting(n, c)'
    BY <2>1, <2>2 DEF Persisting
  <2> QED BY <1>2, <1>5, <2>1, <2>2, <2>3
<1>9. CASE pending = <<<<"node", n>>>> /\ files["cert"] = c
  <2>1. Head(pending) = <<"node", n>> /\ Len(pending) = 1 /\ pending' = <<>>
    BY <1>2, <1>9
  <2>2. agent' = Running(n, c)
    BY <1>2, <2>1
  <2>3. agent'.phase = "up" /\ agent'.dialled = c /\ agent' \in Process
    BY <1>3, <2>2 DEF Running, Process, Number
  <2>4. DevTypes' /\ Issued' /\ files'["node"] = n /\ files'["cert"] = c
    BY <1>3, <1>4, <1>9, <2>1, <2>3 DEF FileNames
  <2>5. Known(c)' /\ Unrenewed(n)'
    BY <1>1, <1>2 DEF Known, Unrenewed, onboardingVars
  <2>6. Sure' /\ Connected'
    BY <1>1, <1>2, <1>3, <2>3, <2>4, <2>5 DEF Sure, Connected, Whole, Same, Known, Unrenewed, Torn
  <2>7. Known(agent.dialled)'
    BY <2>3, <2>5 DEF Known
  <2>8. WhenUp'
    BY <2>1, <2>6, <2>7 DEF WhenUp
  <2> QED BY <2>3, <2>4, <2>8 DEF DevInv, Phases
<1> QED BY <1>1, <1>6, <1>7, <1>8, <1>9 DEF Persisting

\* The next file of a renewed one: the old certificate gives way to one of the same node.
LEMMA RenewedWriteKeeps ==
  ASSUME OnbInv, DevInv, AgentWrite, agent.phase = "renew"
  PROVE  DevInv'
<1>1. PICK f \in Certs : /\ owner[f] = owner[agent.dialled]
                         /\ Lost \/ (Known(f) /\ Unrenewed(owner[f]))
                         /\ Replacing(f)
  BY DEF DevInv, Phases, WhenRenew
<1>2. Connected
  BY DEF DevInv, Phases, WhenRenew
<1>3. /\ UNCHANGED <<onboardingVars, owner>> /\ pending' = Tail(pending)
      /\ \A name, content : Head(pending) = <<name, content>> =>
                files' = [files EXCEPT ![name] = content]
      /\ Len(pending) > 1 => agent' = agent /\ marks' = marks
      /\ Len(pending) = 1 => /\ agent' = [agent EXCEPT !.phase = "up", !.cert = files'["cert"]]
                             /\ marks' = marks \cup {"renewed"}
  BY WriteIs
<1>4. /\ f \in Nat /\ f # 0 /\ f # NULL /\ 1 # NULL /\ owner[f] # NULL
      /\ files \in [FileNames -> Number] /\ agent \in Process
  BY <1>1, <1>2, NoNumberAssumption, BoundsAssumption DEF Certs, DevInv, DevTypes, Issued, Connected
<1>5. ASSUME NEW name \in FileNames \ {"node"}, NEW content \in Nat,
             Head(pending) = <<name, content>>,
             name = "cert" => content = f, agent' \in Process, agent'.dialled = agent.dialled,
             marks \subseteq marks'
      PROVE  /\ DevTypes' /\ Issued' /\ Connected' /\ (Lost => Lost')
             /\ files'[name] = content
             /\ \A other \in FileNames : other # name => files'[other] = files[other]
  <2>1. files' = [files EXCEPT ![name] = content]
    BY <1>3, <1>5
  <2>2. /\ files' \in [FileNames -> Number] /\ files'[name] = content
        /\ \A other \in FileNames : other # name => files'[other] = files[other]
    BY <1>4, <2>1 DEF Number
  <2>3. DevTypes'
    BY <1>3, <1>5, <2>2 DEF DevInv, DevTypes
  <2>4. /\ files'["cert"] = f \/ files'["cert"] = files["cert"]
        /\ files'["node"] = files["node"]
    BY <1>5, <2>2 DEF FileNames
  <2>5. Issued'
    BY <1>1, <1>3, <1>4, <2>4 DEF DevInv, Issued, Mine, onboardingVars
  <2>7. Lost => Lost'
    BY <1>5 DEF Lost
  <2>6. Connected'
    <3>1. Same'
      BY <1>2, <1>3, <1>5, <2>4 DEF Connected, Same
    <3> QED BY <1>1, <1>2, <1>3, <1>4, <1>5, <2>4, <2>7, <3>1 DEF Connected, Whole, Torn
  <2> QED BY <2>2, <2>3, <2>5, <2>6, <2>7
<1>6. ASSUME agent' = agent, marks' = marks, Replacing(f)', DevTypes', Issued', Connected'
      PROVE  DevInv'
  <2>1. Lost' \/ (Known(f)' /\ Unrenewed(owner[f])')
    BY <1>1, <1>3, <1>6 DEF Lost, Known, Unrenewed, onboardingVars
  <2>2. WhenRenew'
    BY <1>1, <1>3, <1>6, <2>1 DEF WhenRenew
  <2> QED BY <1>6, <2>2 DEF DevInv, Phases
<1>7. CASE pending = <<<<"key", f>>, <<"cert", f>>, <<"ca", 1>>>>
  <2>1. /\ Head(pending) = <<"key", f>> /\ Len(pending) > 1
        /\ pending' = <<<<"cert", f>>, <<"ca", 1>>>>
    BY <1>3, <1>7
  <2>2. Replacing(f)'
    BY <2>1 DEF Replacing
  <2> QED BY <1>3, <1>4, <1>5, <1>6, <2>1, <2>2 DEF FileNames
<1>8. CASE pending = <<<<"cert", f>>, <<"ca", 1>>>>
  <2>1. Head(pending) = <<"cert", f>> /\ Len(pending) > 1 /\ pending' = <<<<"ca", 1>>>>
    BY <1>3, <1>8
  <2>2. DevTypes' /\ Issued' /\ Connected' /\ files'["cert"] = f
    BY <1>3, <1>4, <1>5, <2>1 DEF FileNames
  <2>3. Replacing(f)'
    BY <2>1, <2>2 DEF Replacing
  <2> QED BY <1>3, <1>6, <2>1, <2>2, <2>3
<1>9. CASE pending = <<<<"ca", 1>>>> /\ files["cert"] = f
  <2>1. Head(pending) = <<"ca", 1>> /\ Len(pending) = 1 /\ pending' = <<>>
    BY <1>3, <1>9
  <2>2. files'["cert"] = f
    BY <1>3, <1>4, <1>9, <2>1 DEF FileNames
  <2>3. agent' = [[agent EXCEPT !.phase = "up"] EXCEPT !.cert = f] /\ "renewed" \in marks'
    BY <1>3, <1>4, <2>1, <2>2 DEF Process
  <2>4. agent'.phase = "up" /\ agent'.dialled = agent.dialled /\ agent' \in Process
    BY <1>4, <2>3 DEF Process, Number
  <2>5. DevTypes' /\ Issued' /\ Connected' /\ (Lost => Lost')
    BY <1>3, <1>4, <1>5, <2>1, <2>4 DEF FileNames
  <2>6. Sure'
    BY <1>1, <1>3, <2>2, <2>5 DEF Sure, Known, Unrenewed, onboardingVars
  <2>7. WhenUp'
    BY <2>1, <2>3, <2>5, <2>6 DEF WhenUp
  <2> QED BY <2>4, <2>5, <2>7 DEF DevInv, Phases
<1> QED BY <1>1, <1>7, <1>8, <1>9 DEF Replacing

\* A renewal starts from an agent the control plane knows by the certificate it dialled
\* with.
LEMMA RenewKeeps ==
  ASSUME OnbInv, DevInv, AgentRenew
  PROVE  DevInv'
<1>1. PICK n \in NodeIds, d \in Certs :
        /\ agent.dialled = d /\ owner[d] = n
        /\ Whole \/ Lost
        /\ Whole => files["cert"] \in Certs /\ owner[files["cert"]] = n
  BY DEF AgentRenew, Whole, DevInv, Phases, WhenUp, Connected, Issued, DevTypes
<1> DEFINE f == signed + 1
<1>2. /\ agent.phase = "up" /\ WhenUp
      /\ signed' = f /\ renewals' = renewals \cup {<<n, f>>} /\ owner' = [owner EXCEPT ![f] = n]
      /\ UNCHANGED <<identities, nodes, files, pending, marks>>
      /\ agent' = [agent EXCEPT !.phase = "renewing"] /\ signed < MaxCerts
  BY <1>1 DEF AgentRenew, RenewRead, DevInv, Phases
<1>3. /\ f \in Certs /\ f \in Nat /\ signed \in Nat /\ signed < f /\ n # NULL
      /\ \A e \in Certs : e \in Nat
      /\ \A r \in renewals : r[2] \in Certs
  BY <1>2, NoNumberAssumption, BoundsAssumption DEF OnbInv, OnbTypes, Certs, NodeIds
<1>4. /\ owner' \in [Certs -> NodeIds \cup {NULL}] /\ owner'[f] = n
      /\ \A e \in Certs : e # f => owner'[e] = owner[e]
  BY <1>2, <1>3 DEF DevInv, DevTypes
<1>5. /\ d # f
      /\ Whole => files["cert"] # f /\ owner'[files["cert"]] = n
  <2>1. \A e \in Certs : owner[e] # NULL => e # f
    BY <1>3 DEF DevInv, Issued
  <2> QED BY <1>1, <1>3, <1>4, <2>1
<1> HIDE DEF f
<1>6. /\ agent'.phase = "renewing" /\ agent'.dialled = d /\ agent' \in Process
  BY <1>1, <1>2 DEF DevInv, DevTypes, Process
<1>7. n \in Mine /\ Mine' = Mine
  <2>1. n \in Mine
    BY <1>1, <1>3 DEF Mine
  <2>2. owner[f] = NULL
    BY <1>3 DEF DevInv, Issued
  <2> QED BY <1>2, <1>3, <1>4, <2>1, <2>2 DEF Mine, DevInv, DevTypes
<1>8. Issued'
  <2>1. nodes[n] # "Absent"
    BY <1>1, <1>3 DEF DevInv, Issued
  <2>2. ASSUME NEW e \in Certs, owner'[e] # NULL
        PROVE  e <= signed' /\ nodes'[owner'[e]] # "Absent"
    BY <1>2, <1>3, <1>4, <2>1, <2>2 DEF DevInv, Issued
  <2>3. ASSUME NEW r \in renewals'
        PROVE  r[2] <= signed' /\ (r[1] \in Mine => owner'[r[2]] = r[1])
    <3>1. CASE r = <<n, f>>
      BY <1>2, <1>3, <1>4, <3>1
    <3>2. CASE r \in renewals
      <4>1. r[2] <= signed /\ r[2] \in Certs /\ (r[1] \in Mine => owner[r[2]] = r[1])
        BY <1>3, <3>2 DEF DevInv, Issued
      <4>2. r[2] \in Nat
        BY <1>3, <4>1
      <4>3. ~(f <= signed) /\ (\A x \in Nat : x <= signed => x <= f)
        BY <1>3
      <4>4. r[2] # f /\ r[2] <= f
        BY <4>1, <4>2, <4>3
      <4> QED BY <1>2, <1>4, <4>1, <4>4
    <3> QED BY <1>2, <2>3, <3>1, <3>2
  <2>4. files'["cert"] \notin {NULL, Torn} =>
            files'["cert"] \in Certs /\ owner'[files'["cert"]] # NULL
    BY <1>1, <1>2, <1>3, <1>5 DEF Whole
  <2> QED BY <1>7, <2>2, <2>3, <2>4 DEF Issued
<1>9. DevTypes'
  BY <1>2, <1>4, <1>6 DEF DevInv, DevTypes
<1>10. Connected'
  <2>1. owner'[agent'.dialled] = n /\ Whole' = Whole /\ Lost' = Lost
    BY <1>1, <1>2, <1>4, <1>5, <1>6 DEF Whole, Lost
  <2>2. Same'
    BY <1>1, <1>2, <2>1 DEF WhenUp, Connected, Same
  <2> QED BY <1>1, <1>2, <1>3, <1>5, <1>6, <2>1, <2>2 DEF Connected
<1>11. Lost \/ (/\ Known(files["cert"])'
                /\ \A r \in renewals' : r[1] = n => r[2] = f)
  <2> SUFFICES ASSUME ~Lost PROVE /\ Known(files["cert"])'
                                  /\ \A r \in renewals' : r[1] = n => r[2] = f
    OBVIOUS
  <2>1. Whole /\ identities[n].fingerprint = files["cert"] /\ \A r \in renewals : r[1] # n
    BY <1>1, <1>2 DEF WhenUp, Sure, Known, Unrenewed
  <2>2. Known(files["cert"])'
    BY <1>1, <1>2, <1>5, <2>1 DEF Known
  <2> QED BY <1>2, <2>1, <2>2
<1>12. WhenRenewing'
  <2>1. Lost' = Lost /\ pending' = <<>> /\ owner'[agent'.dialled] = n
    BY <1>1, <1>2, <1>4, <1>5, <1>6 DEF Lost, WhenUp
  <2> QED BY <1>3, <1>10, <1>11, <2>1 DEF WhenRenewing
<1> QED BY <1>6, <1>8, <1>9, <1>12 DEF DevInv, Phases

\* The row takes the certificate of the only renewal in flight; when the answer is lost,
\* the certificate on disk no longer counts.
LEMMA RenewAnswerKeeps ==
  ASSUME OnbInv, DevInv, NEW f \in Certs, AgentRenewAnswer(f)
  PROVE  DevInv'
<1>1. PICK n \in NodeIds, d \in Certs : agent.dialled = d /\ owner[d] = n
  BY DEF AgentRenewAnswer, Awaited, DevInv, Phases, WhenRenewing, Connected, Issued, DevTypes
<1>2. /\ agent.phase = "renewing" /\ WhenRenewing /\ RenewWrite(n, f)
      /\ UNCHANGED <<files, owner>>
  BY <1>1 DEF AgentRenewAnswer, Awaited, DevInv, Phases
<1>3. /\ <<n, f>> \in renewals /\ renewals' = renewals \ {<<n, f>>}
      /\ UNCHANGED <<nodes, signed>> /\ identities'[n].fingerprint = f
  BY <1>2 DEF RenewWrite, OnbInv, OnbTypes, IdentityRow
<1>4. n # NULL /\ n \in Mine /\ owner[f] = n /\ n \in Nat
  <2>1. n # NULL /\ n \in Nat
    BY NoNumberAssumption, BoundsAssumption DEF NodeIds
  <2>2. n \in Mine
    BY <1>1, <2>1 DEF Mine
  <2> QED BY <1>3, <2>1, <2>2 DEF DevInv, Issued
<1>5. Issued'
  BY <1>2, <1>3 DEF DevInv, Issued, Mine
<1>6. \A q \in {"up", "renew"} : agent' = [agent EXCEPT !.phase = q] =>
         /\ agent'.phase = q /\ DevTypes' /\ Connected'
  <2> SUFFICES ASSUME NEW q \in {"up", "renew"}, agent' = [agent EXCEPT !.phase = q]
               PROVE  agent'.phase = q /\ DevTypes' /\ Connected'
    OBVIOUS
  <2>1. agent'.phase = q /\ agent'.dialled = agent.dialled /\ agent' \in Process
    BY DEF DevInv, DevTypes, Process
  <2>2. marks \subseteq marks'
    BY DEF AgentRenewAnswer
  <2>3. Connected'
    BY <1>2, <2>1, <2>2 DEF WhenRenewing, Connected, Whole, Same, Lost
  <2> QED BY <1>2, <2>1, <2>3 DEF DevInv, DevTypes
<1>7. CASE /\ agent' = [agent EXCEPT !.phase = "renew"]
           /\ pending' = <<<<"key", f>>, <<"cert", f>>, <<"ca", 1>>>>
           /\ UNCHANGED marks
  <2>1. Known(f)'
    BY <1>2, <1>3, <1>4 DEF Known
  <2>2. Lost \/ \A r \in renewals' : r[1] # n
    <3> SUFFICES ASSUME ~Lost PROVE \A r \in renewals' : r[1] # n
      OBVIOUS
    <3>1. PICK e \in Certs : \A r \in renewals : r[1] = n => r[2] = e
      BY <1>1, <1>2 DEF WhenRenewing
    <3>2. e = f
      BY <1>3, <3>1
    <3>3. \A r \in renewals : r[1] = n => r = <<n, f>>
      BY <3>1, <3>2 DEF OnbInv, OnbTypes
    <3> QED BY <1>3, <3>3
  <2>3. Lost' \/ (Known(f)' /\ Unrenewed(owner[f])')
    BY <1>2, <1>4, <1>7, <2>1, <2>2 DEF Lost, Unrenewed
  <2>4. agent'.phase = "renew" /\ DevTypes' /\ Connected' /\ agent'.dialled = d
    BY <1>1, <1>6, <1>7 DEF DevInv, DevTypes, Process
  <2>5. Replacing(f)'
    BY <1>7 DEF Replacing
  <2>6. WhenRenew'
    BY <1>1, <1>2, <1>4, <2>3, <2>4, <2>5 DEF WhenRenew
  <2> QED BY <1>5, <2>4, <2>6 DEF DevInv, Phases
<1>8. CASE /\ agent' = [agent EXCEPT !.phase = "up"]
           /\ marks' = marks \cup {"unanswered"}
           /\ UNCHANGED pending
  <2>1. agent'.phase = "up" /\ DevTypes' /\ Connected' /\ Lost' /\ pending' = <<>>
    BY <1>2, <1>6, <1>8 DEF Lost, WhenRenewing
  <2>2. WhenUp'
    BY <2>1 DEF WhenUp, Sure
  <2> QED BY <1>5, <2>1, <2>2 DEF DevInv, Phases
<1> QED BY <1>7, <1>8 DEF AgentRenewAnswer

\* A process cut off in a write leaves that file torn or as it was.
LEMMA CrashKeeps ==
  ASSUME OnbInv, DevInv, AgentCrash
  PROVE  DevInv'
<1>1. /\ agent' = Off /\ pending' = <<>> /\ UNCHANGED <<onboardingVars, owner>>
      /\ marks \subseteq marks'
      /\ agent.phase \in {"renewing", "renew"} => Lost'
      /\ agent.phase = "persist" /\ files'["node"] # NULL => "mixed" \in marks'
      /\ agent.phase # "off"
  BY DEF AgentCrash, AgentStop, Lost
<1>2. files' = files \/ (pending # <<>> /\ files' = [files EXCEPT ![Head(pending)[1]] = Torn])
  BY DEF AgentCrash
<1>3. /\ files \in [FileNames -> Number] /\ agent \in Process /\ Torn \in Number
      /\ agent' \in Process
  BY <1>1 DEF DevInv, DevTypes, Number, Torn, Off, Process
<1>4. ASSUME NEW name \in FileNames, pending # <<>> => Head(pending)[1] = name
      PROVE  \/ files' = files
             \/ /\ files' \in [FileNames -> Number] /\ files'[name] = Torn
                /\ \A other \in FileNames : other # name => files'[other] = files[other]
  BY <1>2, <1>3, <1>4
\* in any case the certificate file holds what it held, or is torn
<1>5. PICK name \in FileNames : pending # <<>> => Head(pending)[1] = name
  <2>1. agent.phase \in {"off", "bootstrap", "up", "renewing"} => pending = <<>>
    BY DEF DevInv, Phases, WhenOff, WhenBootstrap, WhenUp, WhenRenewing
  <2>2. agent.phase = "persist" => \E name \in FileNames : Head(pending)[1] = name
    BY DEF DevInv, Phases, WhenPersist, Persisting, Writes, FileNames
  <2>3. agent.phase = "renew" => \E name \in FileNames : Head(pending)[1] = name
    BY DEF DevInv, Phases, WhenRenew, Replacing, FileNames
  <2> QED BY <1>3, <2>1, <2>2, <2>3 DEF Process, FileNames
<1>6. files' \in [FileNames -> Number] /\ files'["cert"] \in {files["cert"], Torn}
  BY <1>3, <1>4, <1>5 DEF FileNames
<1>7. DevTypes' /\ Issued'
  <2>1. DevTypes'
    BY <1>1, <1>3, <1>6 DEF DevInv, DevTypes
  <2>2. Issued'
    BY <1>1, <1>6 DEF DevInv, Issued, Mine, onboardingVars
  <2> QED BY <2>1, <2>2
<1>8. /\ files' = files => Loadable' = Loadable
      /\ \A c \in Certs : Known(c)' = Known(c)
      /\ \A n \in NodeIds : Unrenewed(n)' = Unrenewed(n)
      /\ Lost => Lost'
  BY <1>1 DEF Loadable, Known, Unrenewed, Lost, onboardingVars
<1>9. \* files that load hold a whole certificate
      Loadable' => Whole'
  BY <1>6 DEF Loadable, Whole, FileNames
<1>10. CASE agent.phase = "bootstrap"
  <2>1. ~Loadable /\ files' = files
    BY <1>2, <1>10 DEF DevInv, Phases, WhenBootstrap
  <2> QED BY <1>1, <1>7, <1>8, <2>1, OffKeeps
<1>11. CASE agent.phase = "persist"
  <2>1. PICK c \in Certs, n \in NodeIds :
            owner[c] = n /\ Known(c) /\ Unrenewed(n) /\ Persisting(n, c)
    BY <1>11 DEF DevInv, Phases, WhenPersist
  <2>2. c \in Nat /\ c # Torn /\ c # NULL
    BY NoNumberAssumption, BoundsAssumption DEF Certs, Torn
  <2>3. ASSUME Loadable' PROVE files'["cert"] = c
    <3>1. files'["key"] = files'["cert"] /\ files'["cert"] # Torn /\ files'["ca"] # Torn
      BY <2>3 DEF Loadable
    <3>2. CASE pending = Writes(n, c) /\ ~Loadable /\ files["cert"] # c
      <4>1. pending # <<>> => Head(pending)[1] = "key"
        BY <3>2 DEF Writes
      <4>2. files' = files \/ files'["key"] = Torn
        BY <1>4, <4>1 DEF FileNames
      <4> QED BY <1>8, <2>3, <3>1, <3>2, <4>2
    <3>3. CASE /\ pending = <<<<"cert", c>>, <<"ca", 1>>, <<"node", n>>>>
               /\ files["key"] = c /\ files["cert"] # c
      <4>1. pending # <<>> => Head(pending)[1] = "cert"
        BY <3>3
      <4>2. files' = files \/ files'["cert"] = Torn
        BY <1>4, <4>1 DEF FileNames
      <4> QED BY <3>1, <3>3, <4>2
    <3>4. CASE files["cert"] = c
      BY <1>6, <3>1, <3>4
    <3> QED BY <2>1, <3>2, <3>3, <3>4 DEF Persisting
  <2>4. ASSUME Loadable' PROVE Agree' /\ Sure'
    <3>1. files'["node"] # NULL
      BY <1>6, <2>4 DEF Loadable, FileNames
    <3>2. Agree'
      BY <1>1, <1>11, <3>1 DEF Agree
    <3>3. Sure'
      BY <1>1, <2>1, <2>3, <2>4 DEF Sure, Known, Unrenewed, onboardingVars
    <3> QED BY <3>2, <3>3
  <2> QED BY <1>1, <1>7, <2>4, OffKeeps
<1>12. CASE agent.phase = "up"
  <2>1. Connected /\ Sure /\ files' = files
    BY <1>2, <1>12 DEF DevInv, Phases, WhenUp
  <2>2. Loadable' => Agree' /\ Sure'
    BY <1>1, <1>9, <2>1
       DEF Connected, Whole, Same, Agree, Sure, Lost, Known, Unrenewed, onboardingVars
  <2> QED BY <1>1, <1>7, <2>2, OffKeeps
<1>13. CASE agent.phase \in {"renewing", "renew"}
  <2>1. Connected /\ (pending # <<>> => \E other \in {"key", "cert", "ca"} : Head(pending)[1] = other)
    BY <1>13 DEF DevInv, Phases, WhenRenewing, WhenRenew, Replacing
  <2>2. files'["node"] = files["node"]
    BY <1>4, <2>1 DEF FileNames
  <2>3. ASSUME Loadable' PROVE Agree' /\ Sure'
    <3>1. files'["cert"] = files["cert"] /\ Whole
      BY <1>6, <1>9, <2>3 DEF Loadable, Whole
    <3> QED BY <1>1, <1>13, <2>1, <2>2, <3>1 DEF Connected, Same, Agree, Sure
  <2> QED BY <1>1, <1>7, <2>3, OffKeeps
<1> QED BY <1>1, <1>3, <1>10, <1>11, <1>12, <1>13 DEF Process

\* A renewal that is given up: the certificate on disk no longer counts.
LEMMA TimeoutKeeps ==
  ASSUME OnbInv, DevInv, AgentRenewTimeout
  PROVE  DevInv'
<1>1. /\ agent.phase = "renewing" /\ WhenRenewing
      /\ agent' = [agent EXCEPT !.phase = "up"] /\ marks' = marks \cup {"unanswered"}
      /\ UNCHANGED <<onboardingVars, files, pending, owner>>
  BY DEF AgentRenewTimeout, DevInv, Phases
<1>2. agent'.phase = "up" /\ agent'.dialled = agent.dialled /\ agent' \in Process
  BY <1>1 DEF DevInv, DevTypes, Process
<1>3. DevTypes' /\ Issued'
  BY <1>1, <1>2 DEF DevInv, DevTypes, Issued, Mine, onboardingVars
<1>4. Connected' /\ Lost' /\ pending' = <<>>
  BY <1>1, <1>2 DEF WhenRenewing, Connected, Whole, Same, Lost
<1>5. WhenUp'
  BY <1>4 DEF WhenUp, Sure
<1> QED BY <1>2, <1>3, <1>5 DEF DevInv, Phases

\* A renewal whose files cannot be written: they are as they were, or one is torn.
LEMMA WriteFailsKeeps ==
  ASSUME OnbInv, DevInv, AgentRenewWriteFails
  PROVE  DevInv'
<1>1. /\ agent.phase = "renew" /\ WhenRenew
      /\ agent' = [agent EXCEPT !.phase = "up"] /\ marks' = marks \cup {"unanswered"}
      /\ pending' = <<>> /\ UNCHANGED <<onboardingVars, owner>>
  BY DEF AgentRenewWriteFails, DevInv, Phases
<1>2. agent'.phase = "up" /\ agent'.dialled = agent.dialled /\ agent' \in Process
  BY <1>1 DEF DevInv, DevTypes, Process
<1>3. /\ files \in [FileNames -> Number] /\ files' \in [FileNames -> Number]
      /\ files'["cert"] \in {files["cert"], Torn} /\ files'["node"] = files["node"]
  <2>1. PICK name \in {"key", "cert", "ca"} : Head(pending)[1] = name
    BY <1>1 DEF WhenRenew, Replacing
  <2>2. files' = files \/ files' = [files EXCEPT ![name] = Torn]
    BY <2>1 DEF AgentRenewWriteFails
  <2>3. files \in [FileNames -> Number] /\ Torn \in Number
    BY DEF DevInv, DevTypes, Number, Torn
  <2> QED BY <2>2, <2>3 DEF FileNames
<1>4. DevTypes' /\ Issued'
  <2>1. DevTypes'
    BY <1>1, <1>2, <1>3 DEF DevInv, DevTypes
  <2>2. Issued'
    BY <1>1, <1>3 DEF DevInv, Issued, Mine, onboardingVars
  <2> QED BY <2>1, <2>2
<1>5. Connected' /\ Lost'
  <2>1. Lost'
    BY <1>1 DEF Lost
  <2>2. Same'
    BY <1>1, <1>2, <1>3 DEF WhenRenew, Connected, Same
  <2>3. Whole' => Whole /\ files'["cert"] = files["cert"]
    BY <1>3 DEF Whole
  <2> QED BY <1>1, <1>2, <2>1, <2>2, <2>3 DEF WhenRenew, Connected
<1>6. WhenUp'
  BY <1>1, <1>5 DEF WhenUp, Sure
<1> QED BY <1>2, <1>4, <1>6 DEF DevInv, Phases

\* Every step of the device and of the control plane keeps the invariant.
LEMMA DevStep ==
  ASSUME OnbInv, DevInv, [AgNext]_deviceVars
  PROVE  OnbInv' /\ DevInv'
<1>1. OnbInv'
  BY DeviceStepIsOnb, OnbStep
<1>2. CASE /\ UNCHANGED agentVars
           /\ \/ TokenNext
              \/ \E k \in Tokens, g \in Gateways, serial \in Serials :
                    Bootstrap(k, g, serial) \/ BootstrapConflict(k, g, serial)
              \/ \E n \in NodeIds : CertificateAges(n) \/ RevokeNode(n)
                                       \/ (n \notin Mine /\ RenewRead(n))
              \/ \E n \in NodeIds \ Mine, f \in Certs : RenewWrite(n, f)
              \/ \E n \in Mine, f \in Certs : OrphanedRenewal(n, f)
  <2>1. signed' \in Nat
    BY <1>1, BoundsAssumption DEF OnbInv, OnbTypes
  <2>2. /\ signed <= signed'
        /\ \A n \in NodeIds : nodes[n] # "Absent" => nodes'[n] # "Absent"
        /\ \A r \in renewals' : r \in renewals \/ (r[1] \notin Mine /\ r[2] <= signed')
        /\ \A n \in Mine : /\ nodes[n] # "Absent"
                           /\ \/ identities'[n].fingerprint = identities[n].fingerprint
                              \/ ~Unrenewed(n) /\ Unwaited(n)
    BY <1>2, QuietStep
  <2>3. DevInv'
    BY <1>2, <2>1, <2>2, QuietKeeps
  <2> QED BY <1>1, <2>3
<1>3. CASE AgentStart
  BY <1>1, <1>3, StartKeeps
<1>4. CASE AgentBootstrap
  BY <1>1, <1>4, BootstrapStepKeeps
<1>5. CASE AgentBootstrapRefused
  <2>1. ~Loadable /\ agent' = Off /\ pending' = <<>> /\ UNCHANGED <<onboardingVars, files, owner, marks>>
    BY <1>5 DEF AgentBootstrapRefused, AgentStop, DevInv, Phases, WhenBootstrap
  <2>2. DevTypes' /\ Issued' /\ ~Loadable'
    BY <2>1 DEF DevInv, DevTypes, Issued, Mine, Loadable, onboardingVars, Off, Process, Number
  <2> QED BY <1>1, <2>1, <2>2, OffKeeps
<1>6. CASE AgentWrite
  <2>1. pending # <<>>
    BY <1>6 DEF AgentWrite
  <2>2. agent.phase \in {"persist", "renew"}
    BY <2>1 DEF DevInv, DevTypes, Process, Phases, WhenOff, WhenBootstrap, WhenUp, WhenRenewing
  <2> QED BY <1>1, <1>6, <2>2, PersistWriteKeeps, RenewedWriteKeeps
<1>7. CASE AgentRenew
  BY <1>1, <1>7, RenewKeeps
<1>8. CASE \E f \in Certs : AgentRenewAnswer(f)
  BY <1>1, <1>8, RenewAnswerKeeps
<1>9. CASE AgentCrash
  BY <1>1, <1>9, CrashKeeps
<1>10. CASE AgentRenewTimeout
  BY <1>1, <1>10, TimeoutKeeps
<1>11. CASE AgentRenewWriteFails
  BY <1>1, <1>11, WriteFailsKeeps
<1>12. CASE UNCHANGED deviceVars
  BY <1>1, <1>12
     DEF deviceVars, onboardingVars, agentVars, DevInv, DevTypes, Issued, Mine, Phases, WhenOff,
         WhenBootstrap, WhenPersist, WhenUp, WhenRenewing, WhenRenew, Persisting, Writes, Replacing,
         Agree, Sure, Whole, Same, Lost, Known, Unrenewed, Connected, Loadable
<1> QED BY <1>1, <1>2, <1>3, <1>4, <1>5, <1>6, <1>7, <1>8, <1>9, <1>10, <1>11, <1>12
        DEF AgNext, OrphanedRenewal

\* A device that was never started has no files.
LEMMA DevInvInit == AgInit => OnbInv /\ DevInv
<1> SUFFICES ASSUME AgInit PROVE OnbInv /\ DevInv
  OBVIOUS
<1>1. OnbInv
  BY OnbInvInit DEF AgInit
<1>2. /\ agent = Off /\ pending = <<>> /\ renewals = {}
      /\ \A c \in Certs : owner[c] = NULL
      /\ \A f \in FileNames : files[f] = NULL
  BY DEF AgInit, OnbInit, FileNames
<1>3. DevTypes
  BY DEF AgInit, DevTypes, Off, Process, Number, FileNames
<1>4. Issued /\ ~Loadable
  BY <1>2 DEF AgInit, Issued, Loadable, FileNames
<1> QED BY <1>1, <1>2, <1>3, <1>4 DEF DevInv, Phases, WhenOff, Off

\* The tables the device talks to keep every promise of Onboarding: for them the device,
\* with its crashes, lost answers and renewals, is one more client.
THEOREM DeviceIsAClient == AgSpec => OnbSpec
<1>1. AgInit => OnbInit
  BY DEF AgInit
<1>2. OnbInv /\ DevInv /\ [AgNext]_deviceVars => [OnbNext]_onboardingVars
  BY DeviceStepIsOnb
<1>3. OnbInv /\ DevInv /\ [AgNext]_deviceVars => (OnbInv /\ DevInv)'
  BY DevStep
<1> QED BY <1>1, <1>2, <1>3, DevInvInit, PTL DEF AgSpec, OnbSpec

\* The registry is kept with agents that crash, lose answers and leave renewals behind.
THEOREM RegistryKeptUnderAgents == AgSpec => ImplementsRegistry
BY DeviceIsAClient, RegistryKept, PTL

\* Files that load are one identity, wherever a bootstrap or a renewal was cut off,
\* except after a registration was cut off over an older node-id.
THEOREM FilesAreOneIdentity == AgSpec => []FilesAgree
<1>1. OnbInv /\ DevInv => FilesAgree
  <2> SUFFICES ASSUME DevInv, Loadable, pending = <<>>
               PROVE  owner[files["cert"]] = files["node"] \/ "mixed" \in marks
    BY DEF FilesAgree
  <2>1. agent.phase \notin {"persist", "renew"}
    BY DEF DevInv, Phases, WhenPersist, Persisting, Writes, WhenRenew, Replacing
  <2>2. files["cert"] \notin {NULL, Torn}
    BY DEF Loadable, DevInv, DevTypes, FileNames
  <2> QED BY <2>1, <2>2 DEF DevInv, DevTypes, Process, Phases, WhenOff, WhenBootstrap, WhenUp,
                            WhenRenewing, Connected, Whole, Same, Agree
<1> QED BY <1>1, DevInvInit, DevStep, PTL DEF AgSpec

\* A running agent presents the certificate on record for its node, unless it renewed
\* since it dialled or an answer of Renew never reached its disk.
THEOREM AgentIsKnown == AgSpec => []PresentsKnownCertificate
<1>1. OnbInv /\ DevInv => PresentsKnownCertificate
  BY DEF DevInv, Phases, WhenUp, Lost, Known, PresentsKnownCertificate
<1> QED BY <1>1, DevInvInit, DevStep, PTL DEF AgSpec
===============================================================================
