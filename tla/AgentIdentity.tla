---------------------------- MODULE AgentIdentity -----------------------------
(***************************************************************************)
(* One edge agent's identity on disk, in memory and on the wire            *)
(* (internal/agent/bootstrap.go, cert_renew.go, cmd/edge-agent/main.go)    *)
(* against the control plane's tables of Onboarding: load or bootstrap at  *)
(* start, renewal by CertRenewer, a crash between any two writes, a lost   *)
(* answer in either, and a renewal that times out or whose files cannot be *)
(* written, which the process survives.  Both go through the gateway's     *)
(* OnboardingProxy (internal/gateway/proxy.go).  It passes no client       *)
(* certificate on, so the apiserver refuses every Renew that comes through *)
(* it and the renewer logs an error; renewal is modelled for a caller the  *)
(* apiserver recognises, as Renew and the renewer are written for.         *)
(*                                                                         *)
(* Key and certificate are known by the certificate's number: they fit if  *)
(* these are equal.  The agent sends no serial.                            *)
(***************************************************************************)
EXTENDS Onboarding, Sequences

CONSTANTS DeviceToken,    \* Config.Token
          DeviceGateway,  \* Config.GatewayID, or the id the proxy fills in for an empty one
          MaxStops        \* bound on crashes, lost answers, timeouts and failed writes

ASSUME DeviceAssumption ==
    DeviceToken \in Tokens /\ DeviceGateway \in Gateways /\ MaxStops \in Nat
ASSUME NoNumberAssumption == NULL \notin Nat  \* no file is mistaken for a missing one

VARIABLES files,   \* node.key, node.crt, ca.crt and node-id in DataDir
          agent,   \* the process: phase, Identity in memory, the connection's certificate
          pending, \* the writes left to do, each <<file, content>>
          owner,   \* history: the node a certificate was issued to
          marks,   \* history: what happened to the device, see the properties
          stops

agentVars == <<files, agent, pending, owner, marks, stops>>
deviceVars == <<onboardingVars, agentVars>>

\* A file os.WriteFile has truncated and not filled yet.
Torn == 0

Off == [phase |-> "off", node |-> NULL, cert |-> NULL, dialled |-> NULL]

AgInit ==
    /\ OnbInit
    /\ files = [f \in {"key", "cert", "ca", "node"} |-> NULL]
    /\ agent = Off
    /\ pending = <<>>
    /\ owner = [c \in Certs |-> NULL]
    /\ marks = {}
    /\ stops = 0

\* The nodes registered by this device.
Mine == {owner[c] : c \in {c \in Certs : owner[c] # NULL}}

\* loadIdentity: a certificate, its own key, the CA and a node id, which is not
\* looked at.
Loadable ==
    /\ \A f \in DOMAIN files : files[f] # NULL
    /\ files["key"] = files["cert"] /\ files["cert"] # Torn /\ files["ca"] # Torn

\* The agent runs with an identity and has dialled the gateway with it.
Running(node, cert) == [phase |-> "up", node |-> node, cert |-> cert, dialled |-> cert]

\* The process starts: LoadOrBootstrap.  What a process that is gone renewed or
\* dialled no longer counts.
AgentStart ==
    /\ agent.phase = "off"
    /\ agent' = IF Loadable THEN Running(files["node"], files["cert"])
                ELSE [Off EXCEPT !.phase = "bootstrap"]
    /\ marks' = marks \ {"renewed"}
    /\ UNCHANGED <<onboardingVars, files, pending, owner, stops>>

\* The process ends: stopped, crashed, or by log.Fatal after an error.
AgentStop ==
    /\ agent' = Off
    /\ pending' = <<>>

\* Mutant of Writes: a node-id that is there is kept.
WritesKeepNodeId(node, cert) ==
    <<<<"key", cert>>, <<"cert", cert>>, <<"ca", 1>>>> \o
        (IF files["node"] = NULL THEN <<<<"node", node>>>> ELSE <<>>)

\* persistIdentity writes the files in this order.
Writes(node, cert) == <<<<"key", cert>>, <<"cert", cert>>, <<"ca", 1>>, <<"node", node>>>>

\* The node and the certificate of a Bootstrap step.
NewNode == CHOOSE n \in NodeIds : nodes[n] = "Absent" /\ nodes'[n] # "Absent"

\* bootstrap: the control plane registers the device; the answer arrives and is
\* to be persisted, or it is lost and the agent exits.  Whatever happened to an
\* earlier registration is over.
AgentBootstrap ==
    /\ agent.phase = "bootstrap"
    /\ Bootstrap(DeviceToken, DeviceGateway, EmptySerial)
    /\ owner' = [owner EXCEPT ![signed'] = NewNode]
    /\ \/ /\ pending' = Writes(NewNode, signed')
          /\ agent' = [phase |-> "persist", node |-> NewNode, cert |-> signed', dialled |-> NULL]
          /\ UNCHANGED stops
       \/ /\ stops < MaxStops /\ stops' = stops + 1
          /\ AgentStop
    /\ marks' = {}
    /\ UNCHANGED files

\* The registration is refused: the agent exits.
AgentBootstrapRefused ==
    /\ agent.phase = "bootstrap"
    /\ ~TokenValid(DeviceToken, DeviceGateway) \/ SerialTaken(EmptySerial)
    /\ stops < MaxStops /\ stops' = stops + 1
    /\ AgentStop
    /\ UNCHANGED <<onboardingVars, files, owner, marks>>

\* The next file is written; after the last one the identity is in use: a fresh
\* one is dialled with, a renewed one only replaces the identity in memory.
AgentWrite ==
    /\ pending # <<>>
    /\ files' = [files EXCEPT ![Head(pending)[1]] = Head(pending)[2]]
    /\ pending' = Tail(pending)
    /\ agent' = IF Len(pending) > 1 THEN agent
                ELSE IF agent.phase = "persist" THEN Running(agent.node, agent.cert)
                ELSE [agent EXCEPT !.phase = "up", !.cert = files'["cert"]]
    /\ marks' = IF Len(pending) = 1 /\ agent.phase = "renew" THEN marks \cup {"renewed"} ELSE marks
    /\ UNCHANGED <<onboardingVars, owner, stops>>

\* checkAndRenew of an old certificate: the gateway knows the dialled one, the
\* control plane takes the node from it and signs a new one.
AgentRenew ==
    /\ agent.phase = "up"
    /\ LET n == owner[agent.dialled]
       IN  /\ Live(n) /\ identities[n].fingerprint = agent.dialled
           /\ RenewRead(n)
           /\ owner' = [owner EXCEPT ![signed'] = n]
    /\ agent' = [agent EXCEPT !.phase = "renewing"]
    /\ UNCHANGED <<files, pending, marks, stops>>

\* The renewal the agent waits for: the ones it gave up are older.
Awaited(n, f) ==
    /\ agent.phase = "renewing" /\ n = owner[agent.dialled]
    /\ \A r \in renewals : r[1] = n => r[2] <= f

\* The UPDATE of the renewal, and its answer, which may be lost.
AgentRenewAnswer(f) ==
    /\ Awaited(owner[agent.dialled], f)
    /\ RenewWrite(owner[agent.dialled], f)
    /\ \/ /\ agent' = [agent EXCEPT !.phase = "renew"]
          /\ pending' = <<<<"key", f>>, <<"cert", f>>, <<"ca", 1>>>>
          /\ UNCHANGED <<marks, stops>>
       \/ /\ stops < MaxStops /\ stops' = stops + 1
          /\ agent' = [agent EXCEPT !.phase = "up"]
          /\ marks' = marks \cup {"unanswered"}
          /\ UNCHANGED pending
    /\ UNCHANGED <<files, owner>>

\* renewCtx runs out: the error is logged, and the Renew goes on without a caller.
AgentRenewTimeout ==
    /\ agent.phase = "renewing"
    /\ stops < MaxStops /\ stops' = stops + 1
    /\ agent' = [agent EXCEPT !.phase = "up"]
    /\ marks' = marks \cup {"unanswered"}
    /\ UNCHANGED <<onboardingVars, files, pending, owner>>

\* A write of the renewal fails, before or after the file was truncated: the error is
\* logged, the other files are not written, and the identity in memory stays.
AgentRenewWriteFails ==
    /\ agent.phase = "renew"
    /\ stops < MaxStops /\ stops' = stops + 1
    /\ files' \in {files, [files EXCEPT ![Head(pending)[1]] = Torn]}
    /\ pending' = <<>>
    /\ agent' = [agent EXCEPT !.phase = "up"]
    /\ marks' = marks \cup {"unanswered"}
    /\ UNCHANGED <<onboardingVars, owner>>

\* The process ends at any other moment, in the middle of a write too.  A
\* registration cut off leaves an earlier one's node-id in place, or a torn one;
\* the answer of a renewal cut off is lost.
AgentCrash ==
    /\ agent.phase # "off" /\ stops < MaxStops
    /\ stops' = stops + 1
    /\ AgentStop
    /\ files' \in {files} \cup (IF pending = <<>> THEN {}
                                ELSE {[files EXCEPT ![Head(pending)[1]] = Torn]})
    /\ marks' = marks
          \cup (IF agent.phase = "persist" /\ files'["node"] # NULL THEN {"mixed"} ELSE {})
          \cup (IF agent.phase \in {"renewing", "renew"} THEN {"unanswered"} ELSE {})
    /\ UNCHANGED <<onboardingVars, owner>>

\* A Renew whose caller is gone still writes.
OrphanedRenewal(n, f) ==
    /\ ~Awaited(n, f)
    /\ RenewWrite(n, f)
    /\ UNCHANGED agentVars

AgNext ==
    \/ TokenNext /\ UNCHANGED agentVars
    \/ /\ \E k \in Tokens, g \in Gateways, serial \in Serials :
             Bootstrap(k, g, serial) \/ BootstrapConflict(k, g, serial)
       /\ UNCHANGED agentVars
    \/ /\ \E n \in NodeIds : CertificateAges(n) \/ RevokeNode(n) \/ (n \notin Mine /\ RenewRead(n))
       /\ UNCHANGED agentVars
    \/ \E n \in NodeIds \ Mine, f \in Certs : RenewWrite(n, f) /\ UNCHANGED agentVars
    \/ \E n \in Mine, f \in Certs : OrphanedRenewal(n, f)
    \/ \E f \in Certs : AgentRenewAnswer(f)
    \/ AgentStart \/ AgentBootstrap \/ AgentBootstrapRefused
    \/ AgentWrite \/ AgentRenew \/ AgentRenewTimeout \/ AgentRenewWriteFails \/ AgentCrash

AgSpec == AgInit /\ [][AgNext]_deviceVars

-------------------------------------------------------------------------------
(* Properties *)

\* Files that load are one identity: the certificate was issued to the node whose
\* id lies beside it, wherever a bootstrap or a renewal was cut off.  The one way
\* out is a registration cut off before it wrote the node-id where an earlier
\* one's lies, or while it writes it: the agent then runs with one node's
\* certificate and another's id, or with none.
FilesAgree ==
    (Loadable /\ pending = <<>>) => owner[files["cert"]] = files["node"] \/ "mixed" \in marks

\* A running agent presents the certificate the control plane has on record for its
\* node, so that a gateway knows it until the node is revoked, unless it renewed
\* since it dialled (the connection keeps the old certificate) or an answer of Renew
\* never reached its disk.
PresentsKnownCertificate ==
    agent.phase = "up" =>
        \/ marks \cap {"renewed", "unanswered"} # {}
        \/ LET n == owner[agent.dialled]
           IN  identities[n].fingerprint = agent.dialled
===============================================================================
