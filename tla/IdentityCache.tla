---------------------------- MODULE IdentityCache -----------------------------
(***************************************************************************)
(* The gateway's identity cache (internal/gateway/identity_cache.go) and   *)
(* the request authentication that consults it, over the identities the    *)
(* control plane creates, renews and revokes.  Lookup reads the entry,     *)
(* reads the database and stores the entry in three separate steps; many   *)
(* requests run at once.  An entry's TTL is the fact whether it has passed.*)
(***************************************************************************)
EXTENDS Onboarding

CONSTANTS Observed,  \* the gateways whose caches are followed: caches share nothing
                     \* but the database, so one of them shows what each can do
          MaxSyncs   \* bound on the Sync goroutines at once
ASSUME ObservedAssumption == Observed \subseteq Gateways /\ MaxSyncs \in Nat

VARIABLES cache,     \* IdentityCache.entries, per gateway and fingerprint
          loads,     \* Lookups that read the database and have not stored yet
          served,    \* history: requests let through, <<gateway, node, binding>>
          online,    \* ConnectivityMonitor.state, per gateway
          syncs      \* Sync goroutines that have not cleared the cache yet

monitorVars == <<online, syncs>>
cacheVars == <<cache, loads, served, online, syncs>>
idVars == <<onboardingVars, cacheVars>>

NoEntry == [state |-> "none", node |-> NULL, gateway |-> NULL]

IdInit ==
    /\ OnbInit
    /\ cache = [g \in Observed |-> [f \in Certs |-> NoEntry]]
    /\ loads = {}
    /\ served = {}
    /\ online = [g \in Observed |-> TRUE]
    /\ syncs = [g \in Observed |-> 0]

\* Mutant of ActiveWith: the SELECT forgets the status.
ActiveWithAnyStatus(f) == {n \in NodeIds : identities[n].fingerprint = f}

\* The rows loadFromDB's SELECT matches.
ActiveWith(f) == {n \in NodeIds : Live(n) /\ identities[n].fingerprint = f}

\* Mutant of Admit: the binding is not compared with the gateway.
AdmitUnbound(g, entry) == served' = served \cup {<<g, entry.node, entry.gateway>>}

\* The interceptor after Lookup: the binding decides, the handler runs as node.
Admit(g, entry) ==
    served' = IF entry.gateway = g THEN served \cup {<<g, entry.node, entry.gateway>>} ELSE served

\* A request finds an entry whose TTL has not passed.
LookupHit(g, f) ==
    /\ cache[g][f].state = "fresh"
    /\ Admit(g, cache[g][f])
    /\ UNCHANGED <<onboardingVars, cache, loads>>

\* A request finds no usable entry and reads an Active row from the database.
LoadRead(g, f) ==
    /\ cache[g][f].state # "fresh"
    /\ \E n \in ActiveWith(f) :
          loads' = loads \cup {<<g, f, [state |-> "fresh", node |-> n,
                                        gateway |-> identities[n].gateway]>>}
    /\ UNCHANGED <<onboardingVars, cache, served>>

\* The database has no Active row: the entry is deleted, the request rejected.
\* The deletion is a step of its own, after other requests may have stored one.
LoadMiss(g, f) ==
    /\ cache[g][f].state # "fresh" /\ ActiveWith(f) = {}
    /\ loads' = loads \cup {<<g, f, NoEntry>>}
    /\ UNCHANGED <<onboardingVars, cache, served>>

\* The entry is stored (or deleted) under the lock and the request goes on.
LoadStore(g, f, entry) ==
    /\ <<g, f, entry>> \in loads
    /\ cache' = [cache EXCEPT ![g][f] = entry]
    /\ loads' = loads \ {<<g, f, entry>>}
    /\ IF entry = NoEntry THEN served' = served ELSE Admit(g, entry)
    /\ UNCHANGED onboardingVars

\* ExpireAt passes.
EntryExpires(g, f) ==
    /\ cache[g][f].state = "fresh"
    /\ cache' = [cache EXCEPT ![g][f].state = "stale"]
    /\ UNCHANGED <<onboardingVars, loads, served>>

\* NotifyIdentityEvent for a certificate that is no longer valid: the control
\* plane announces a revocation, or a renewal with the old fingerprint.
HandleIdentityEvent(g, f) ==
    /\ f \in 1 .. signed /\ ActiveWith(f) = {} /\ \A r \in renewals : r[2] # f
    /\ cache' = [cache EXCEPT ![g][f] = NoEntry]
    /\ UNCHANGED <<onboardingVars, loads, served>>

\* A probe of the cloud: when it is reachable again, a goroutine is started for
\* Sync.  (checkHealth is always true without CLOUD_HEALTH_URL; nothing consults
\* the state, and the gateway reads the database in either.)
probe(g, reachable) ==
    /\ online' = [online EXCEPT ![g] = reachable]
    /\ IF reachable /\ ~online[g]
       THEN syncs[g] < MaxSyncs /\ syncs' = [syncs EXCEPT ![g] = @ + 1]
       ELSE UNCHANGED syncs
    /\ UNCHANGED <<onboardingVars, cache, loads, served>>

\* IncrementalSyncer.Sync empties the map.
Sync(g) ==
    /\ syncs[g] > 0
    /\ syncs' = [syncs EXCEPT ![g] = @ - 1]
    /\ cache' = [cache EXCEPT ![g] = [f \in Certs |-> NoEntry]]
    /\ UNCHANGED <<onboardingVars, loads, served, online>>

\* Freezing, revoking or expiring a token only keeps nodes from registering, which
\* no gateway can tell from a token that was never used: these steps are left out.
IdNext ==
    \/ /\ \/ \E k \in Tokens, g \in Gateways : CreateBootstrapToken(k, g)
          \/ IdentityNext
       /\ UNCHANGED cacheVars
    \/ /\ \/ \E g \in Observed, f \in Certs :
                \/ LookupHit(g, f) \/ LoadRead(g, f) \/ LoadMiss(g, f)
                \/ EntryExpires(g, f) \/ HandleIdentityEvent(g, f)
          \/ \E l \in loads : LoadStore(l[1], l[2], l[3])
       /\ UNCHANGED monitorVars
    \/ \E g \in Observed : Sync(g) \/ \E reachable \in BOOLEAN : probe(g, reachable)

IdSpec == IdInit /\ [][IdNext]_idVars

\* A Lookup that has read the database stores what it read; a TTL passes.
IdFairness ==
    \A g \in Observed, f \in Certs :
        /\ WF_idVars(EntryExpires(g, f) /\ UNCHANGED monitorVars)
        /\ WF_idVars(/\ \E l \in loads : l[1] = g /\ l[2] = f /\ LoadStore(l[1], l[2], l[3])
                     /\ UNCHANGED monitorVars)

-------------------------------------------------------------------------------
(* Properties *)

\* Whatever is cached, in flight, renewed or revoked meanwhile, a request is let
\* through only as a node registered at that gateway.
ServedAtHome == \A s \in served : identities[s[2]].gateway = s[1]

\* A revoked node is locked out for good after the entries read before the
\* revocation have run out: from some time on no gateway holds a usable entry
\* for a certificate of the node.
RevokedIsLockedOut ==
    \A n \in NodeIds, g \in Observed :
        [](identities[n].status = "Revoked" =>
              <>[](\A f \in Certs : ~(cache[g][f].state = "fresh" /\ cache[g][f].node = n)))
===============================================================================
