---------------------------- MODULE GatewayRegistry ---------------------------
(***************************************************************************)
(* The gateways table and who writes it: GatewayManagementService          *)
(* (internal/gateway/gateway_service.go), the self-registration every      *)
(* gateway-runtime does before it serves (self_register.go,                *)
(* cmd/gateway-runtime/main.go) and the gateway commands of edgectl        *)
(* (cmd/edgectl/gateway.go).                                               *)
(*                                                                         *)
(* A registration is a CreateGateway and, if the name is taken, a lookup   *)
(* in one page of ListGateways: two calls with other clients in between,   *)
(* and either answer can be lost.  Ids are 1, 2, ... in the order of       *)
(* created_at; the column endpoint is handled like region.                 *)
(***************************************************************************)
EXTENDS Naturals, Sequences, FiniteSets

CONSTANTS Names,      \* gateway names
          Regions,    \* region values, "" (none) among them
          LabelSets,  \* label maps, "{}" among them
          nil,        \* the labels of a request that carries none
          Clients,    \* gateway-runtimes and edgectl commands
          PageLimit,  \* the page a name is looked up in: 1000 in the code
          MaxFailures \* bound on lost answers and ends of a gateway-runtime

ASSUME RegistryAssumption ==
    /\ PageLimit \in Nat \ {0} /\ MaxFailures \in Nat
    /\ "" \in Regions /\ "{}" \in LabelSets /\ nil \notin LabelSets

VARIABLES gateways,  \* table gateways
          client,    \* the clients
          told,      \* history: the ids answered for each name
          failures

registryVars == <<gateways, client, told, failures>>

Inactive == [phase |-> "idle", name |-> "", id |-> 0]

RegInit ==
    /\ gateways = <<>>
    /\ client = [c \in Clients |-> Inactive]
    /\ told = {}
    /\ failures = 0

-------------------------------------------------------------------------------
(* GatewayManagementService *)

Ids == DOMAIN gateways

\* Mutant of NameTaken: a deleted gateway gives its name free.
NameTakenUnlessDeleted(name) ==
    \E i \in Ids : gateways[i].name = name /\ gateways[i].status # "Deleted"

\* The unique index on name, of deleted rows too.
NameTaken(name) == \E i \in Ids : gateways[i].name = name

\* marshalLabels of an absent map is NULL, which the column does not take.
LabelsStorable(labels) == labels # nil

CreateGateway(name, region, labels) ==
    /\ LabelsStorable(labels) /\ ~NameTaken(name)
    /\ gateways' = Append(gateways, [name |-> name, region |-> region, labels |-> labels,
                                     status |-> "Active"])

\* An empty region and absent labels leave the columns alone; a deleted row is
\* updated like any other.
UpdateGateway(id, region, labels) ==
    gateways' = [gateways EXCEPT ![id].region = IF region = "" THEN @ ELSE region,
                                 ![id].labels = IF labels = nil THEN @ ELSE labels]

DeleteGateway(id) ==
    /\ gateways[id].status # "Deleted"
    /\ gateways' = [gateways EXCEPT ![id].status = "Deleted"]

\* Mutant of FirstPage: deleted gateways are not listed.
FirstPageNotDeleted == {i \in Ids : gateways[i].status # "Deleted"}

\* The first page of ListGateways, newest first.
FirstPage == {i \in Ids : i > Len(gateways) - PageLimit}

-------------------------------------------------------------------------------
(* SelfRegister, and edgectl gateway register *)

\* The call is answered, or its answer is lost and the client exits; a
\* gateway-runtime is started again by its DaemonSet.
Answered(c, name, id, phase) ==
    \/ /\ client' = [client EXCEPT ![c] = [phase |-> phase, name |-> name, id |-> id]]
       /\ told' = IF phase = "registered" THEN told \cup {<<name, id>>} ELSE told
       /\ UNCHANGED failures
    \/ /\ failures < MaxFailures /\ failures' = failures + 1
       /\ client' = [client EXCEPT ![c] = Inactive]
       /\ UNCHANGED told

\* The first call: a new row, or the name is taken and must be looked up.  Any
\* other error, such as that of absent labels, ends the client.
SelfRegister(c, name, region, labels) ==
    /\ client[c] = Inactive
    /\ \/ /\ CreateGateway(name, region, labels)
          /\ Answered(c, name, Len(gateways'), "registered")
       \/ /\ LabelsStorable(labels) /\ NameTaken(name)
          /\ Answered(c, name, 0, "lookup")
          /\ UNCHANGED gateways

\* findGatewayByName, lookupGatewayByName: one page is searched.
Found(name) == {i \in FirstPage : gateways[i].name = name}

findGatewayByName(c) ==
    /\ client[c].phase = "lookup"
    /\ \/ \E i \in Found(client[c].name) : Answered(c, client[c].name, i, "registered")
       \/ /\ Found(client[c].name) = {}
          /\ client' = [client EXCEPT ![c] = Inactive]
          /\ UNCHANGED <<told, failures>>
    /\ UNCHANGED gateways

\* The process ends: edgectl after printing the id, a gateway-runtime some day.
ClientExits(c) ==
    /\ client[c].phase = "registered"
    /\ client' = [client EXCEPT ![c] = Inactive]
    /\ UNCHANGED <<gateways, told, failures>>

-------------------------------------------------------------------------------
(* The other commands of edgectl *)

\* resolveGateway: by id, or by name in one page.
resolveGateway(c, id, byName) ==
    /\ client[c] = Inactive
    /\ byName => id \in FirstPage
    /\ client' = [client EXCEPT ![c] = [phase |-> "resolved", name |-> gateways[id].name, id |-> id]]
    /\ UNCHANGED <<gateways, told, failures>>

\* gateway update: at least one field, of the row that was resolved.
gatewayUpdateCmd(c, region, labels) ==
    /\ client[c].phase = "resolved"
    /\ region # "" \/ labels # nil
    /\ UpdateGateway(client[c].id, region, labels)
    /\ client' = [client EXCEPT ![c] = Inactive]
    /\ UNCHANGED <<told, failures>>

gatewayDeleteCmd(id) == DeleteGateway(id) /\ UNCHANGED <<client, told, failures>>

RegNext ==
    \/ \E c \in Clients :
        \/ \E name \in Names, region \in Regions, labels \in LabelSets \cup {nil} :
              SelfRegister(c, name, region, labels)
        \/ findGatewayByName(c) \/ ClientExits(c)
        \/ \E id \in Ids, byName \in BOOLEAN : resolveGateway(c, id, byName)
        \/ \E region \in Regions, labels \in LabelSets \cup {nil} :
              gatewayUpdateCmd(c, region, labels)
    \/ \E id \in Ids : gatewayDeleteCmd(id)

RegSpec == RegInit /\ [][RegNext]_registryVars

-------------------------------------------------------------------------------
(* Properties *)

\* Registering is idempotent on the name: whatever restarts, lost answers,
\* deletions and concurrent registrations come between, every answer for a name
\* is the id of the one row that has it, also long after the row was deleted.
OneIdPerName ==
    \A t \in told :
        /\ gateways[t[2]].name = t[1]
        /\ \A i \in Ids : gateways[i].name = t[1] => i = t[2]

\* A client that was told the name is taken finds the row: the lookup, a second
\* call after others had their turn, misses it only when it was pushed out of
\* the one page that is searched.
LookupFindsRow ==
    \A c \in Clients :
        client[c].phase = "lookup" => Found(client[c].name) # {} \/ Len(gateways) > PageLimit
===============================================================================
