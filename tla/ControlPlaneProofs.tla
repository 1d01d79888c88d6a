-------------------------- MODULE ControlPlaneProofs --------------------------
(***************************************************************************)
(* Proofs about GatewayRegistry, Listing, Servers and RetryPolicy: that    *)
(* registering is idempotent, that a walk through the pages of a list is   *)
(* exact, in which order the servers take leave of their calls and the     *)
(* database, and how the backoff of a retry grows.                         *)
(***************************************************************************)
EXTENDS GatewayRegistry, Listing, Servers, RetryPolicy, FiniteSetTheorems, SequenceTheorems, TLAPS

-------------------------------------------------------------------------------
(* GatewayRegistry *)

GatewayRow == [name : Names, region : Regions, labels : LabelSets,
               status : {"Active", "Deleted"}]
Client == [phase : {"idle", "registered", "lookup", "resolved"}, name : Names \cup {""}, id : Nat]

RegTypes ==
    /\ gateways \in Seq(GatewayRow)
    /\ client \in [Clients -> Client]

\* Names are unique, an id that a client holds or was told is that of a row, and a
\* client looks up only a name that some row has: rows are never removed or renamed.
RegInv ==
    /\ RegTypes
    /\ \A i, j \in Ids : gateways[i].name = gateways[j].name => i = j
    /\ \A t \in told : t[2] \in Ids /\ gateways[t[2]].name = t[1]
    /\ \A c \in Clients :
        /\ client[c].phase = "lookup" => NameTaken(client[c].name)
        /\ client[c].phase = "resolved" => client[c].id \in Ids

\* What the steps on the table have in common.
TableKept ==
    /\ gateways' \in Seq(GatewayRow)
    /\ Ids \subseteq Ids'
    /\ \A i \in Ids : gateways'[i].name = gateways[i].name
    /\ \A i, j \in Ids' : gateways'[i].name = gateways'[j].name => i = j

\* CreateGateway appends the one row of its name.
LEMMA CreateKeepsTable ==
  ASSUME RegInv, NEW name \in Names, NEW region \in Regions, NEW labels \in LabelSets \cup {nil},
         CreateGateway(name, region, labels)
  PROVE  /\ TableKept
         /\ Len(gateways') \in Ids' /\ gateways'[Len(gateways')].name = name
<1> DEFINE row == [name |-> name, region |-> region, labels |-> labels, status |-> "Active"]
<1>1. row \in GatewayRow /\ row.name = name
  BY RegistryAssumption DEF GatewayRow, CreateGateway, LabelsStorable
<1>2. gateways' = Append(gateways, row) /\ gateways \in Seq(GatewayRow)
  BY DEF CreateGateway, RegInv, RegTypes
<1> HIDE DEF row
<1>3. /\ gateways' \in Seq(GatewayRow) /\ Len(gateways') = Len(gateways) + 1
      /\ \A i \in 1 .. Len(gateways) : gateways'[i] = gateways[i]
      /\ gateways'[Len(gateways) + 1] = row
      /\ Len(gateways) \in Nat
  BY <1>1, <1>2, AppendProperties, LenProperties
<1>4. Ids = 1 .. Len(gateways) /\ Ids' = 1 .. Len(gateways) + 1
  BY <1>2, <1>3, LenProperties DEF Ids
<1>5. \A i \in Ids : gateways[i].name # name
  BY DEF CreateGateway, NameTaken
<1>6. \A i \in Ids' : i \in Ids \/ i = Len(gateways) + 1
  BY <1>3, <1>4
<1>7. \A i, j \in Ids' : gateways'[i].name = gateways'[j].name => i = j
  BY <1>1, <1>3, <1>4, <1>5, <1>6 DEF RegInv
<1> QED BY <1>1, <1>3, <1>4, <1>7 DEF TableKept

\* An update or a deletion rewrites one row and leaves its name.
LEMMA RewriteKeepsTable ==
  ASSUME RegInv, NEW id \in Ids,
         \/ \E region \in Regions, labels \in LabelSets \cup {nil} : UpdateGateway(id, region, labels)
         \/ DeleteGateway(id)
  PROVE  TableKept
<1>1. gateways[id] \in GatewayRow /\ gateways \in Seq(GatewayRow)
  BY ElementOfSeq, LenProperties DEF RegInv, RegTypes, Ids
<1>2. PICK row \in GatewayRow : row.name = gateways[id].name /\ gateways' = [gateways EXCEPT ![id] = row]
  <2>1. CASE DeleteGateway(id)
    <3>1. [gateways[id] EXCEPT !.status = "Deleted"] \in GatewayRow
      BY <1>1 DEF GatewayRow
    <3>2. gateways' = [gateways EXCEPT ![id] = [gateways[id] EXCEPT !.status = "Deleted"]]
      BY <2>1 DEF DeleteGateway
    <3> QED BY <1>1, <3>1, <3>2 DEF GatewayRow
  <2>2. ASSUME NEW region \in Regions, NEW labels \in LabelSets \cup {nil},
               UpdateGateway(id, region, labels)
        PROVE  \E row \in GatewayRow : row.name = gateways[id].name /\ gateways' = [gateways EXCEPT ![id] = row]
    <3> DEFINE r == IF region = "" THEN gateways[id].region ELSE region
               l == IF labels = nil THEN gateways[id].labels ELSE labels
               row == [[gateways[id] EXCEPT !.region = r] EXCEPT !.labels = l]
    <3>1. r \in Regions /\ l \in LabelSets
      BY <1>1 DEF GatewayRow
    <3>2. gateways' = [gateways EXCEPT ![id] = row]
      BY <1>1, <2>2 DEF UpdateGateway, GatewayRow, Ids
    <3> HIDE DEF r, l
    <3>3. row \in GatewayRow /\ row.name = gateways[id].name
      BY <1>1, <3>1 DEF GatewayRow
    <3> QED BY <3>2, <3>3
  <2> QED BY <2>1, <2>2
<1>3. gateways' \in Seq(GatewayRow) /\ Ids' = Ids
  BY <1>1, <1>2, ExceptSeq DEF Ids
<1>4. \A i \in Ids : gateways'[i].name = gateways[i].name
  BY <1>2 DEF Ids
<1> QED BY <1>3, <1>4 DEF TableKept, RegInv

\* The registry starts empty, with idle clients.
LEMMA RegInvInit == RegInit => RegInv
<1> SUFFICES ASSUME RegInit PROVE RegInv
  OBVIOUS
<1>1. Ids = {} /\ gateways \in Seq(GatewayRow)
  BY EmptySeq DEF RegInit, Ids
<1>2. client \in [Clients -> Client] /\ \A c \in Clients : client[c].phase = "idle"
  BY DEF RegInit, Client, Inactive
<1> QED BY <1>1, <1>2 DEF RegInv, RegTypes, RegInit

\* What was said of the table stays true when the table is kept.
LEMMA KeptStays ==
  ASSUME RegInv, TableKept
  PROVE  /\ \A t \in told : t[2] \in Ids' /\ gateways'[t[2]].name = t[1]
         /\ \A name : NameTaken(name) => NameTaken(name)'
         /\ \A c \in Clients : client[c].phase = "resolved" => client[c].id \in Ids'
<1>1. \A t \in told : t[2] \in Ids /\ gateways[t[2]].name = t[1]
  BY DEF RegInv
<1>2. \A i \in Ids : i \in Ids' /\ gateways'[i].name = gateways[i].name
  BY DEF TableKept
<1>3. \A name : NameTaken(name) => NameTaken(name)'
  BY <1>2 DEF NameTaken
<1> QED BY <1>1, <1>2, <1>3 DEF RegInv

\* An answer: the client goes on with what it was told, or ends.
LEMMA AnsweredKeeps ==
  ASSUME RegInv, TableKept, NEW c \in Clients, NEW name \in Names, NEW id \in Nat,
         NEW what \in {"registered", "lookup"}, Answered(c, name, id, what),
         what = "registered" => id \in Ids' /\ gateways'[id].name = name,
         what = "lookup" => NameTaken(name)'
  PROVE  RegInv'
<1>1. PICK new \in Client : /\ client' = [client EXCEPT ![c] = new]
                            /\ new.phase = "lookup" => NameTaken(new.name)'
                            /\ new.phase # "resolved"
  <2>1. [phase |-> what, name |-> name, id |-> id] \in Client /\ Inactive \in Client
    BY DEF Client, Inactive
  <2> QED BY <2>1 DEF Answered, Inactive
<1>2. \A t \in told' : t[2] \in Ids' /\ gateways'[t[2]].name = t[1]
  <2>1. \A t \in told : t[2] \in Ids' /\ gateways'[t[2]].name = t[1]
    BY KeptStays
  <2>2. \/ told' = told
        \/ told' = told \cup {<<name, id>>} /\ what = "registered"
    BY DEF Answered
  <2> QED BY <2>1, <2>2
<1>3. client' \in [Clients -> Client]
  BY <1>1 DEF RegInv, RegTypes
<1>4. ASSUME NEW d \in Clients
      PROVE  /\ client'[d].phase = "lookup" => NameTaken(client[d].name)'
             /\ client'[d].phase = "resolved" => client'[d].id \in Ids'
  <2>1. CASE d = c
    <3>1. client'[d] = new
      BY <1>1, <2>1 DEF RegInv, RegTypes
    <3> QED BY <1>1, <3>1 DEF NameTaken
  <2>2. CASE d # c
    <3>1. PICK old \in Client : client[d] = old /\ client'[d] = old
      BY <1>1, <2>2 DEF RegInv, RegTypes
    <3>2. old.phase = "lookup" => NameTaken(old.name)
      BY <3>1 DEF RegInv
    <3>3. old.phase = "lookup" => NameTaken(old.name)'
      BY <3>2, KeptStays
    <3>4. old.phase = "resolved" => old.id \in Ids'
      BY <3>1, KeptStays
    <3> QED BY <3>1, <3>3, <3>4 DEF NameTaken
  <2> QED BY <2>1, <2>2
<1> QED BY <1>2, <1>3, <1>4 DEF RegInv, RegTypes, TableKept

\* A client that ends or resolves an id, and nobody is told anything.
LEMMA ClientKeeps ==
  ASSUME RegInv, TableKept, NEW c \in Clients, NEW new \in Client,
         client' = [client EXCEPT ![c] = new] \/ client' = client, UNCHANGED told,
         new.phase # "lookup", new.phase = "resolved" => new.id \in Ids'
  PROVE  RegInv'
<1>1. client' \in [Clients -> Client]
  BY DEF RegInv, RegTypes
<1>2. ASSUME NEW d \in Clients
      PROVE  /\ client'[d].phase = "lookup" => NameTaken(client[d].name)'
             /\ client'[d].phase = "resolved" => client'[d].id \in Ids'
  <2>1. PICK old \in Client : client[d] = old /\ (client'[d] = new \/ client'[d] = old)
    BY DEF RegInv, RegTypes
  <2>2. CASE client'[d] = new
    BY <2>2 DEF NameTaken
  <2>3. CASE client'[d] = old
    <3>1. old.phase = "lookup" => NameTaken(old.name)
      BY <2>1 DEF RegInv
    <3>2. old.phase = "lookup" => NameTaken(old.name)'
      BY <3>1, KeptStays
    <3>3. old.phase = "resolved" => old.id \in Ids'
      BY <2>1, KeptStays
    <3> QED BY <2>3, <3>2, <3>3 DEF NameTaken
  <2> QED BY <2>1, <2>2, <2>3
<1>3. \A t \in told' : t[2] \in Ids' /\ gateways'[t[2]].name = t[1]
  BY KeptStays
<1> QED BY <1>1, <1>2, <1>3 DEF RegInv, RegTypes, TableKept

\* A table that only grows keeps what every client knows of it.
LEMMA KeptClients ==
  ASSUME RegInv, TableKept, UNCHANGED <<client, told>>
  PROVE  RegInv'
<1>1. ASSUME NEW d \in Clients
      PROVE  /\ client'[d].phase = "lookup" => NameTaken(client[d].name)'
             /\ client'[d].phase = "resolved" => client'[d].id \in Ids'
  <2>1. PICK old \in Client : client[d] = old /\ client'[d] = old
    BY DEF RegInv, RegTypes
  <2>2. old.phase = "lookup" => NameTaken(old.name)
    BY <2>1 DEF RegInv
  <2>3. old.phase = "lookup" => NameTaken(old.name)'
    BY <2>2, KeptStays
  <2>4. old.phase = "resolved" => old.id \in Ids'
    BY <2>1, KeptStays
  <2> QED BY <2>1, <2>3, <2>4 DEF NameTaken
<1>2. \A t \in told' : t[2] \in Ids' /\ gateways'[t[2]].name = t[1]
  BY KeptStays
<1> QED BY <1>1, <1>2 DEF RegInv, RegTypes, TableKept

\* Every call, lost answer and update of the registry keeps the invariant.
LEMMA RegStep == RegInv /\ [RegNext]_registryVars => RegInv'
<1> SUFFICES ASSUME RegInv, [RegNext]_registryVars PROVE RegInv'
  OBVIOUS
<1>1. UNCHANGED gateways => TableKept
  BY DEF RegInv, RegTypes, TableKept, Ids
<1>2. Inactive \in Client /\ Inactive.phase # "lookup" /\ Inactive.phase # "resolved"
  BY DEF Client, Inactive
<1>3. Ids \subseteq Nat
  BY LenProperties DEF RegInv, RegTypes, Ids
<1>4. ASSUME NEW c \in Clients, NEW name \in Names, NEW region \in Regions,
             NEW labels \in LabelSets \cup {nil}, SelfRegister(c, name, region, labels)
      PROVE  RegInv'
  <2>1. CASE CreateGateway(name, region, labels) /\ Answered(c, name, Len(gateways'), "registered")
    <3>1. /\ TableKept
          /\ Len(gateways') \in Ids' /\ gateways'[Len(gateways')].name = name
      BY <2>1, CreateKeepsTable
    <3>2. PICK id \in Nat : id = Len(gateways')
      BY <3>1, LenProperties DEF TableKept
    <3> QED BY <2>1, <3>1, <3>2, AnsweredKeeps
  <2>2. CASE NameTaken(name) /\ Answered(c, name, 0, "lookup") /\ UNCHANGED gateways
    <3>1. TableKept /\ NameTaken(name)'
      BY <1>1, <2>2 DEF NameTaken, Ids
    <3> QED BY <2>2, <3>1, AnsweredKeeps
  <2> QED BY <1>4, <2>1, <2>2 DEF SelfRegister
<1>5. ASSUME NEW c \in Clients, findGatewayByName(c)
      PROVE  RegInv'
  <2>1. TableKept /\ UNCHANGED gateways
    BY <1>1, <1>5 DEF findGatewayByName
  <2>2. ASSUME NEW i \in Found(client[c].name), Answered(c, client[c].name, i, "registered")
        PROVE  RegInv'
    <3>1. client[c] \in Client /\ client[c].phase = "lookup"
      BY <1>5 DEF findGatewayByName, RegInv, RegTypes
    <3>2. i \in Ids /\ gateways[i].name = client[c].name
      BY DEF Found, FirstPage
    <3>3. client[c].name \in Names
      <4>1. gateways[i] \in GatewayRow
        BY <3>2, ElementOfSeq DEF RegInv, RegTypes, Ids
      <4> QED BY <3>2, <4>1 DEF GatewayRow
    <3>4. i \in Ids' /\ gateways'[i].name = client[c].name
      BY <2>1, <3>2 DEF Ids
    <3> QED BY <1>3, <2>1, <2>2, <3>2, <3>3, <3>4, AnsweredKeeps
  <2>3. CASE client' = [client EXCEPT ![c] = Inactive] /\ UNCHANGED told
    BY <1>2, <2>1, <2>3, ClientKeeps
  <2> QED BY <1>5, <2>2, <2>3 DEF findGatewayByName
<1>6. ASSUME NEW c \in Clients, ClientExits(c)
      PROVE  RegInv'
  BY <1>1, <1>2, <1>6, ClientKeeps DEF ClientExits
<1>7. ASSUME NEW c \in Clients, NEW id \in Ids, NEW byName \in BOOLEAN,
             resolveGateway(c, id, byName)
      PROVE  RegInv'
  <2> DEFINE new == [phase |-> "resolved", name |-> gateways[id].name, id |-> id]
  <2>1. gateways[id] \in GatewayRow
    BY ElementOfSeq DEF RegInv, RegTypes, Ids
  <2>2. new \in Client /\ new.phase # "lookup" /\ new.id = id
    BY <1>3, <2>1 DEF Client, GatewayRow
  <2>3. TableKept /\ UNCHANGED told /\ id \in Ids' /\ client' = [client EXCEPT ![c] = new]
    BY <1>1, <1>7 DEF resolveGateway, Ids
  <2> HIDE DEF new
  <2> QED BY <2>2, <2>3, ClientKeeps
<1>8. ASSUME NEW c \in Clients, NEW region \in Regions, NEW labels \in LabelSets \cup {nil},
             gatewayUpdateCmd(c, region, labels)
      PROVE  RegInv'
  <2>1. client[c].id \in Ids
    BY <1>8 DEF gatewayUpdateCmd, RegInv
  <2>2. TableKept
    BY <1>8, <2>1, RewriteKeepsTable DEF gatewayUpdateCmd
  <2> QED BY <1>2, <1>8, <2>2, ClientKeeps DEF gatewayUpdateCmd
<1>9. ASSUME NEW id \in Ids, gatewayDeleteCmd(id)
      PROVE  RegInv'
  <2>1. TableKept /\ UNCHANGED <<client, told>>
    BY <1>9, RewriteKeepsTable DEF gatewayDeleteCmd
  <2> QED BY <2>1, KeptClients
<1>10. CASE UNCHANGED registryVars
  <2>1. TableKept /\ UNCHANGED <<client, told>>
    BY <1>1, <1>10 DEF registryVars
  <2> QED BY <2>1, KeptClients
<1> QED BY <1>4, <1>5, <1>6, <1>7, <1>8, <1>9, <1>10 DEF RegNext

\* Registering is idempotent on the name, for any number of clients, names and rows.
THEOREM RegistrationIdempotent == RegSpec => []OneIdPerName
<1>1. RegInv => OneIdPerName
  BY DEF RegInv, OneIdPerName
<1> QED BY <1>1, RegInvInit, RegStep, PTL DEF RegSpec

\* A client that was told the name is taken finds the row, unless it fell off the page.
THEOREM LookupSucceeds == RegSpec => []LookupFindsRow
<1>1. RegInv => LookupFindsRow
  <2> SUFFICES ASSUME RegInv, NEW c \in Clients, client[c].phase = "lookup",
                      ~(Len(gateways) > PageLimit)
               PROVE  Found(client[c].name) # {}
    BY DEF LookupFindsRow
  <2>1. PICK i \in Ids : gateways[i].name = client[c].name
    BY DEF RegInv, NameTaken
  <2>2. Len(gateways) \in Nat /\ i \in 1 .. Len(gateways)
    BY LenProperties DEF RegInv, RegTypes, Ids
  <2>3. PageLimit \in Nat
    BY RegistryAssumption
  <2>4. i > Len(gateways) - PageLimit
    BY <2>2, <2>3
  <2> QED BY <2>1, <2>4 DEF Found, FirstPage
<1> QED BY <1>1, RegInvInit, RegStep, PTL DEF RegSpec

-------------------------------------------------------------------------------
(* Listing *)

Scheme == [counted : BOOLEAN, capped : BOOLEAN, mutable : BOOLEAN]
Walk == [phase : {"count", "select", "done"}, list : Scheme, size : Nat \ {0},
         off : Nat, total : Nat]
Events == [kept : SUBSET Rows, twice : SUBSET Rows, cut : SUBSET Rows,
           came : BOOLEAN, left : BOOLEAN, raced : BOOLEAN]

\* The first position of row r and the rows beside it, and the one after their last.
From(r) == Cardinality(Before(r))
Upto(r) == Cardinality(Before(r)) + Cardinality(Beside(r))

\* Nothing happened that lets a walk miss a row.
Straight == ~events.left /\ ~events.raced /\ ~(walk.list.capped /\ walk.size > MaxLimit)

\* A row that matched all along is in a page so far or still ahead of the walk; one
\* that was returned is behind it unless a row came.  Of rows that tie this holds as
\* long as no page was cut between them.
Walking ==
    /\ events.kept \subseteq match
    /\ Straight => \A r \in events.kept : r \in got \cup events.cut \/ walk.off <= From(r)
    /\ ~events.came => \A r \in got \cap match : r \in events.cut \/ Upto(r) <= walk.off
    /\ (walk.phase = "select" /\ walk.list.counted /\ Straight) => walk.total = Cardinality(match)

ListInv ==
    /\ match \subseteq Rows
    /\ walk = NoWalk \/ walk \in Walk
    /\ events \in Events
    /\ events.came \/ events.twice \subseteq events.cut
    /\ walk.phase \in {"count", "select"} => Walking
    /\ (walk.phase = "done" /\ walk.list.counted /\ Straight) => events.kept \subseteq got \cup events.cut

\* A table has finitely many rows, and a row comes after others than itself.
LEMMA MatchFinite ==
  ASSUME match \subseteq Rows
  PROVE  /\ IsFiniteSet(match) /\ Cardinality(match) \in Nat
         /\ \A r : /\ From(r) \in Nat /\ Upto(r) \in Nat /\ IsFiniteSet(Beside(r))
                  /\ Cardinality(Beside(r)) \in Nat
         /\ \A r \in match : From(r) < Upto(r) /\ From(r) < Cardinality(match)
<1>1. IsFiniteSet(match) /\ Cardinality(match) \in Nat
  BY ListingAssumption, FS_Subset, FS_CardinalityType
<1>2. ASSUME NEW r
      PROVE  /\ From(r) \in Nat /\ Upto(r) \in Nat
             /\ IsFiniteSet(Beside(r)) /\ Cardinality(Beside(r)) \in Nat
  <2>1. Before(r) \in SUBSET match /\ Beside(r) \in SUBSET match
    BY DEF Before, Beside
  <2>2. IsFiniteSet(Before(r)) /\ IsFiniteSet(Beside(r))
    BY <1>1, <2>1, FS_Subset
  <2> QED BY <2>2, FS_CardinalityType DEF From, Upto
<1>3. ASSUME NEW r \in match
      PROVE  From(r) < Upto(r) /\ From(r) < Cardinality(match)
  <2>1. r \in Beside(r) /\ Before(r) \in SUBSET (match \ {r})
    BY ListingAssumption DEF Beside, Before
  <2>2. Cardinality(Beside(r)) # 0
    BY <1>2, <2>1, FS_EmptySet
  <2>3. IsFiniteSet(match \ {r}) /\ Cardinality(match \ {r}) = Cardinality(match) - 1
    BY <1>1, FS_RemoveElement
  <2>4. From(r) <= Cardinality(match \ {r})
    BY <2>1, <2>3, FS_Subset DEF From
  <2> QED BY <1>1, <1>2, <2>2, <2>3, <2>4 DEF From, Upto
<1> QED BY <1>1, <1>2, <1>3

\* Rows move back when others come, and up when others leave.
LEMMA MovedBack ==
  ASSUME match \subseteq match', IsFiniteSet(match'), NEW r
  PROVE  From(r) <= From(r)'
<1> DEFINE M == match'
           B == {s \in M : CreatedAt[s] > CreatedAt[r]}
<1>1. Before(r) \in SUBSET B /\ B \in SUBSET M
  BY DEF Before
<1>2. IsFiniteSet(B)
  BY <1>1, FS_Subset
<1> QED BY <1>1, <1>2, FS_Subset DEF From, Before

\* A row that leaves moves the older ones up in the list, never down.
LEMMA MovedUp ==
  ASSUME match' \subseteq match, IsFiniteSet(match), NEW r
  PROVE  Upto(r)' <= Upto(r)
<1> DEFINE M == match'
           B == {s \in M : CreatedAt[s] > CreatedAt[r]}
           E == {s \in M : CreatedAt[s] = CreatedAt[r]}
<1>1. /\ B \in SUBSET Before(r) /\ Before(r) \in SUBSET match
      /\ E \in SUBSET Beside(r) /\ Beside(r) \in SUBSET match
  BY DEF Before, Beside
<1>2. IsFiniteSet(Before(r)) /\ IsFiniteSet(Beside(r))
  BY <1>1, FS_Subset
<1>3. /\ Cardinality(B) <= Cardinality(Before(r)) /\ IsFiniteSet(B)
      /\ Cardinality(E) <= Cardinality(Beside(r)) /\ IsFiniteSet(E)
  BY <1>1, <1>2, FS_Subset
<1>4. /\ Cardinality(B) \in Nat /\ Cardinality(Before(r)) \in Nat
      /\ Cardinality(E) \in Nat /\ Cardinality(Beside(r)) \in Nat
  BY <1>2, <1>3, FS_CardinalityType
<1>5. Upto(r)' = Cardinality(B) + Cardinality(E)
  BY DEF Upto, Before, Beside
<1> QED BY <1>3, <1>4, <1>5 DEF Upto

\* What a page holds of rows that tie: a row whose position is in the page whatever
\* their order is in it, or is cut; one in the page is cut or has no row after it.
LEMMA PageHolds ==
  ASSUME match \subseteq Rows, NEW n \in Nat, NEW off \in Nat,
         NEW page \in Pages(n, off), NEW r \in match
  PROVE  /\ off <= From(r) /\ From(r) < off + n => r \in page \cup CutBy(page)
         /\ r \in page => off < Upto(r) /\ (r \in CutBy(page) \/ Upto(r) <= off + n)
<1> DEFINE P == Positions(r)
           W == off .. off + n - 1
<1>1. PICK first \in Nat, last \in Nat :
        first = From(r) /\ last = Upto(r) /\ first < last
  BY MatchFinite
<1>8. P = first .. last - 1 /\ Cardinality(Beside(r)) = last - first
  BY <1>1, MatchFinite DEF From, Upto, Positions
<1>2. page \subseteq match /\ Cardinality(page \cap Beside(r)) = Cardinality(P \cap W)
  BY DEF Pages
<1>3. /\ IsFiniteSet(P) /\ Cardinality(P) = last - first
      /\ IsFiniteSet(P \cap W) /\ Cardinality(P \cap W) \in Nat
  <2>1. IsFiniteSet(P) /\ Cardinality(P) = last - first
    <3>1. first \in Int /\ last - 1 \in Int /\ first <= last - 1
      BY <1>1
    <3> QED BY <1>8, <3>1, FS_Interval
  <2>2. P \cap W \in SUBSET P
    OBVIOUS
  <2> QED BY <2>1, <2>2, FS_Subset, FS_CardinalityType
<1>4. r \in Beside(r) /\ IsFiniteSet(Beside(r))
  BY MatchFinite DEF Beside
<1>5. (page \cap Beside(r) = {}) <=> (P \cap W = {})
  <2>1. IsFiniteSet(page \cap Beside(r))
    <3>1. page \cap Beside(r) \in SUBSET Beside(r)
      OBVIOUS
    <3> QED BY <1>4, <3>1, FS_Subset
  <2> QED BY <1>2, <1>3, <2>1, FS_EmptySet
<1> HIDE DEF P
<1>6. ASSUME off <= From(r), From(r) < off + n
      PROVE  r \in page \cup CutBy(page)
  <2>1. first \in P \cap W
    <3>1. first \in first .. last - 1 /\ first \in W
      BY <1>1, <1>6
    <3> QED BY <1>8, <3>1
  <2>2. page \cap Beside(r) # {}
    BY <1>5, <2>1
  <2> QED BY <1>4, <2>2 DEF CutBy
<1>7. ASSUME r \in page
      PROVE  off < Upto(r) /\ (r \in CutBy(page) \/ Upto(r) <= off + n)
  <2>1. P \cap W # {} /\ page \cap Beside(r) # {}
    BY <1>4, <1>5, <1>7
  <2>2. off < last
    BY <1>1, <1>8, <2>1
  <2>3. ASSUME r \notin CutBy(page)
        PROVE  last <= off + n
    <3>1. page \cap Beside(r) = Beside(r)
      BY <2>1, <2>3 DEF CutBy
    <3>2. Cardinality(P \cap W) = Cardinality(P)
      BY <1>2, <1>3, <1>8, <3>1
    <3>3. P \cap W = P
      BY <1>3, <3>2, FS_Subset
    <3>4. last - 1 \in W
      <4>1. last - 1 \in first .. last - 1
        BY <1>1
      <4> QED BY <1>8, <3>3, <4>1
    <3> QED BY <1>1, <3>4
  <2> QED BY <1>1, <2>2, <2>3
<1> QED BY <1>6, <1>7

\* No walk has begun.
LEMMA ListInvInit == ListInit => ListInv
<1> SUFFICES ASSUME ListInit PROVE ListInv
  OBVIOUS
<1>1. match \subseteq Rows
  BY DEF ListInit
<1>2. events \in Events /\ events.twice = {}
  BY DEF ListInit, NoEvents, Events
<1>3. walk = NoWalk /\ walk.phase = "idle"
  BY DEF ListInit, NoWalk
<1> QED BY <1>1, <1>2, <1>3 DEF ListInv

\* A walk begins on its first page with nothing collected.
LEMMA BeginKeeps ==
  ASSUME ListInv, NEW list \in Lists, NEW size \in PageSizes, Begin(list, size)
  PROVE  ListInv'
<1>1. list \in Scheme
  <2>1. /\ ListGateways \in Scheme /\ ListNodes \in Scheme /\ ListIdentities \in Scheme
        /\ ListBootstrapTokens \in Scheme
    BY DEF Scheme, ListGateways, ListNodes, ListIdentities, ListBootstrapTokens
  <2>2. ListTasks \in Scheme /\ ListModels \in Scheme /\ ListDeployments \in Scheme
    BY DEF Scheme, ListTasks, ListModels, ListDeployments
  <2> QED BY <2>1, <2>2, Zenon DEF Lists
<1>2. pageSize(size) \in Nat \ {0}
  <2>1. size \in Nat /\ DefaultLimit \in Nat \ {0}
    BY ListingAssumption
  <2> QED BY <2>1 DEF pageSize
<1>3. walk' \in Walk /\ walk'.phase \in {"count", "select"} /\ walk'.off = 0
      /\ (walk'.phase = "select" => ~walk'.list.counted)
  BY <1>1, <1>2 DEF Begin, Walk, Scheme
<1>4. events' \in Events /\ events'.twice = {} /\ events'.kept = match
  BY DEF Begin, Events, NoEvents, ListInv
<1>5. UNCHANGED match /\ got' = {}
  BY DEF Begin
<1>6. \A r \in match : 0 <= From(r)'
  <2>1. \A r : From(r)' = From(r)
    BY <1>5 DEF From, Before
  <2> QED BY <2>1, MatchFinite DEF ListInv
<1>7. Walking'
  BY <1>3, <1>4, <1>5, <1>6 DEF Walking
<1> QED BY <1>3, <1>4, <1>5, <1>7 DEF ListInv

\* COUNT reads the number of matching rows.
LEMMA CountKeeps ==
  ASSUME ListInv, Count
  PROVE  ListInv'
<1>1. walk \in Walk /\ walk.phase = "count" /\ Walking /\ match \subseteq Rows
  BY DEF ListInv, Count, NoWalk
<1>2. /\ walk' \in Walk /\ walk'.phase = "select" /\ walk'.total = Cardinality(match)
      /\ walk'.list = walk.list /\ walk'.size = walk.size /\ walk'.off = walk.off
  BY <1>1, MatchFinite DEF Count, Walk
<1>3. Straight' = Straight /\ UNCHANGED <<match, got, events>>
  BY <1>2 DEF Straight, Count
<1>4. \A r : From(r)' = From(r) /\ Upto(r)' = Upto(r)
  BY <1>3 DEF From, Upto, Before, Beside
<1>5. Walking'
  BY <1>1, <1>2, <1>3, <1>4 DEF Walking
<1> QED BY <1>2, <1>3, <1>5 DEF ListInv

\* SELECT adds one page; the walk goes on where that page ends.
LEMMA SelectKeeps ==
  ASSUME ListInv, Select
  PROVE  ListInv'
<1> DEFINE n == limit(walk.list, walk.size)
<1>1. walk \in Walk /\ walk.phase = "select" /\ Walking /\ match \subseteq Rows
  BY DEF ListInv, Select, NoWalk
<1>2. PICK size \in Nat \ {0}, off \in Nat, total \in Nat :
          walk.size = size /\ walk.off = off /\ walk.total = total
  BY <1>1 DEF Walk
<1>3. /\ n \in Nat /\ n <= size
      /\ ~(walk.list.capped /\ size > MaxLimit) => n = size
  <2>1. MaxLimit \in Nat /\ DefaultLimit \in Nat /\ DefaultLimit <= MaxLimit
    BY ListingAssumption
  <2>2. CASE walk.list.capped /\ size > MaxLimit
    BY <1>2, <2>1, <2>2 DEF limit
  <2>3. CASE ~(walk.list.capped /\ size > MaxLimit)
    <3>1. n = size
      BY <1>2, <2>1, <2>3 DEF limit
    <3> QED BY <1>2, <3>1
  <2> QED BY <2>2, <2>3
<1>4. PICK page \in Pages(n, off) :
        /\ got' = got \cup page
        /\ events' = [events EXCEPT !.twice = @ \cup (page \cap got), !.cut = @ \cup CutBy(page)]
  <2>1. Pages(n, walk.off) = Pages(n, off)
    BY <1>2
  <2> QED BY <2>1, Zenon DEF Select
<1>5. UNCHANGED match
  BY DEF Select
<1> HIDE DEF n
<1>6. \A r \in match : From(r) \in Nat /\ Upto(r) \in Nat /\ From(r) < Cardinality(match)
  BY <1>1, MatchFinite
<1>7. /\ page \subseteq match /\ CutBy(page) \subseteq match
      /\ \A r \in match :
           /\ off <= From(r) /\ From(r) < off + n => r \in page \cup CutBy(page)
           /\ r \in page => off < Upto(r) /\ (r \in CutBy(page) \/ Upto(r) <= off + n)
  <2>1. page \subseteq match /\ CutBy(page) \subseteq match
    BY DEF Pages, CutBy
  <2> QED BY <1>1, <1>3, <2>1, PageHolds
<1>8. /\ events' \in Events /\ events'.twice = events.twice \cup (page \cap got)
      /\ events'.cut = events.cut \cup CutBy(page)
      /\ events'.kept = events.kept /\ events'.came = events.came
      /\ events'.left = events.left /\ events'.raced = events.raced
  BY <1>1, <1>4, <1>7 DEF ListInv, Events
<1>9. ASSUME ~events.came, NEW r \in page, r \in got
      PROVE  r \in events.cut
  <2>1. r \in events.cut \/ Upto(r) <= off
    BY <1>1, <1>2, <1>7, <1>9 DEF Walking
  <2>2. Upto(r) \in Nat /\ off < Upto(r)
    BY <1>6, <1>7
  <2> QED BY <2>1, <2>2
<1>10. events'.came \/ events'.twice \subseteq events'.cut
  BY <1>8, <1>9 DEF ListInv
<1>11. \A r : From(r)' = From(r) /\ Upto(r)' = Upto(r)
  BY <1>5 DEF From, Upto, Before, Beside
<1>12. CASE walk.list.counted /\ HasNext(walk.off, walk.size, walk.total)
  <2>1. /\ walk' \in Walk /\ walk'.phase = "count" /\ walk'.off = off + size
        /\ walk'.list = walk.list /\ walk'.size = walk.size
    <3> DEFINE new == [walk EXCEPT !.phase = "count", !.off = nextOffset(walk.off, walk.size)]
    <3>1. off + size \in Nat /\ nextOffset(walk.off, walk.size) = off + size
      BY <1>2 DEF nextOffset
    <3>2. /\ new \in Walk /\ new.phase = "count" /\ new.off = off + size
          /\ new.list = walk.list /\ new.size = walk.size
      BY <1>1, <3>1 DEF Walk
    <3>3. walk' = new
      BY <1>12 DEF Select
    <3> QED BY <3>2, <3>3
  <2>2. Straight' = Straight
    BY <1>8, <2>1 DEF Straight
  <2>3. ASSUME Straight, NEW r \in events.kept
        PROVE  r \in got' \cup events'.cut \/ off + size <= From(r)'
    <3>1. n = size
      BY <1>2, <1>3, <2>3 DEF Straight
    <3>2. r \in match /\ (r \in got \cup events.cut \/ off <= From(r))
      BY <1>1, <1>2, <2>3 DEF Walking
    <3>3. From(r) \in Nat /\ From(r)' = From(r)
      BY <1>6, <1>11, <3>2
    <3> QED BY <1>4, <1>7, <1>8, <3>1, <3>2, <3>3
  <2>4. ASSUME ~events.came, NEW r \in got' \cap match
        PROVE  r \in events'.cut \/ Upto(r)' <= off + size
    <3>1. Upto(r) \in Nat /\ Upto(r)' = Upto(r)
      BY <1>6, <1>11
    <3>2. CASE r \in got
      <4>1. r \in events.cut \/ Upto(r) <= off
        BY <1>1, <1>2, <2>4, <3>2 DEF Walking
      <4> QED BY <1>8, <3>1, <4>1
    <3>3. CASE r \in page
      <4>1. r \in CutBy(page) \/ Upto(r) <= off + n
        BY <1>7, <3>3
      <4> QED BY <1>3, <1>8, <3>1, <4>1
    <3> QED BY <1>4, <2>4, <3>2, <3>3
  <2>5. Walking'
    BY <1>1, <1>5, <1>8, <2>1, <2>2, <2>3, <2>4 DEF Walking
  <2> QED BY <1>1, <1>5, <1>8, <1>10, <2>1, <2>5 DEF ListInv
<1>13. CASE ~(walk.list.counted /\ HasNext(walk.off, walk.size, walk.total))
  <2>1. /\ walk' \in Walk /\ walk'.phase = "done"
        /\ walk'.list = walk.list /\ walk'.size = walk.size
    BY <1>1, <1>13 DEF Select, Walk
  <2>2. Straight' = Straight
    BY <1>8, <2>1 DEF Straight
  <2>3. ASSUME walk.list.counted, Straight, NEW r \in events.kept
        PROVE  r \in got' \cup events'.cut
    <3>1. n = size
      BY <1>2, <1>3, <2>3 DEF Straight
    <3>2. r \in match /\ (r \in got \cup events.cut \/ off <= From(r))
      BY <1>1, <1>2, <2>3 DEF Walking
    <3>3. ~(off + size < total) /\ total = Cardinality(match)
      BY <1>1, <1>2, <1>13, <2>3 DEF Walking, HasNext, nextOffset
    <3>4. From(r) < off + size
      BY <1>6, <3>2, <3>3
    <3> QED BY <1>4, <1>7, <1>8, <3>1, <3>2, <3>4
  <2> QED BY <1>1, <1>5, <1>8, <1>10, <2>1, <2>2, <2>3 DEF ListInv
<1> QED BY <1>12, <1>13

\* Rows inserted during a walk move the page boundaries down.
LEMMA ComesKeeps ==
  ASSUME ListInv, RowComes
  PROVE  ListInv'
<1>1. walk \in Walk /\ Walking /\ match \subseteq Rows
  BY DEF ListInv, RowComes, NoWalk
<1>2. match' \subseteq Rows /\ match \subseteq match' /\ UNCHANGED <<walk, got>>
  BY <1>1 DEF RowComes
<1>3. events \in Events /\ walk.list.counted \in BOOLEAN
  BY <1>1 DEF ListInv, Walk, Scheme
<1>4. /\ events' \in Events /\ events'.came /\ events'.kept = events.kept
      /\ events'.left = events.left /\ events'.cut = events.cut
      /\ events'.raced = (events.raced \/ (walk.list.counted /\ walk.phase = "select"))
  BY <1>3 DEF RowComes, Events
<1>5. IsFiniteSet(match')
  BY <1>2, ListingAssumption, FS_Subset
<1>6. \A r : From(r) <= From(r)'
  BY <1>2, <1>5, MovedBack
<1>7. Straight' => Straight /\ ~(walk.list.counted /\ walk.phase = "select")
  BY <1>2, <1>4 DEF Straight
<1>8. ASSUME Straight', NEW r \in events.kept
      PROVE  r \in got \cup events.cut \/ walk.off <= From(r)'
  <2>1. r \in got \cup events.cut \/ walk.off <= From(r)
    BY <1>1, <1>7, <1>8 DEF Walking
  <2>2. r \in match /\ From(r) \in Nat /\ walk.off \in Nat
    BY <1>1, MatchFinite, <1>8 DEF Walking, Walk
  <2>3. From(r)' \in Nat
    <3> DEFINE M == match'
               B == {s \in M : CreatedAt[s] > CreatedAt[r]}
    <3>1. B \in SUBSET M
      OBVIOUS
    <3>2. Cardinality(B) \in Nat
      BY <1>5, <3>1, FS_Subset, FS_CardinalityType
    <3> QED BY <3>2 DEF From, Before
  <2> QED BY <1>6, <2>1, <2>2, <2>3
<1>9. Walking'
  BY <1>1, <1>2, <1>4, <1>7, <1>8 DEF Walking
<1> QED BY <1>1, <1>2, <1>4, <1>9 DEF ListInv, RowComes

\* A row that no longer matches moves the page boundaries up.
LEMMA LeavesKeeps ==
  ASSUME ListInv, RowLeaves
  PROVE  ListInv'
<1>1. walk \in Walk /\ Walking /\ match \subseteq Rows
  BY DEF ListInv, RowLeaves, NoWalk
<1>2. PICK r \in match : /\ match' = match \ {r} /\ UNCHANGED <<walk, got>>
                         /\ events' = [events EXCEPT !.left = TRUE, !.kept = @ \ {r}]
  BY Zenon DEF RowLeaves
<1>3. /\ events' \in Events /\ events'.left /\ events'.kept = events.kept \ {r}
      /\ events'.came = events.came /\ events'.twice = events.twice /\ events'.cut = events.cut
  BY <1>2 DEF ListInv, Events
<1>4. ~Straight'
  BY <1>3 DEF Straight
<1>5. ASSUME ~events.came, NEW q \in got \cap match'
      PROVE  q \in events.cut \/ Upto(q)' <= walk.off
  <2>1. q \in match /\ (q \in events.cut \/ Upto(q) <= walk.off)
    BY <1>1, <1>2, <1>5 DEF Walking
  <2>2. Upto(q) \in Nat /\ walk.off \in Nat /\ IsFiniteSet(match)
    BY <1>1, MatchFinite DEF Walk
  <2>3. Upto(q)' <= Upto(q)
    BY <1>2, <2>2, MovedUp
  <2>4. Upto(q)' \in Nat
    <3> DEFINE M == match'
               B == {s \in M : CreatedAt[s] > CreatedAt[q]}
               E == {s \in M : CreatedAt[s] = CreatedAt[q]}
    <3>1. B \in SUBSET match /\ E \in SUBSET match
      BY <1>2
    <3>2. Cardinality(B) \in Nat /\ Cardinality(E) \in Nat
      BY <2>2, <3>1, FS_Subset, FS_CardinalityType
    <3> QED BY <3>2 DEF Upto, Before, Beside
  <2> QED BY <2>1, <2>2, <2>3, <2>4
<1>6. Walking'
  BY <1>1, <1>2, <1>3, <1>4, <1>5 DEF Walking
<1> QED BY <1>1, <1>2, <1>3, <1>6 DEF ListInv, RowLeaves

\* Every step of the client and of the table keeps the invariant.
LEMMA ListStep == ListInv /\ [ListNext]_listingVars => ListInv'
<1> SUFFICES ASSUME ListInv, [ListNext]_listingVars PROVE ListInv'
  OBVIOUS
<1>1. CASE UNCHANGED listingVars
  BY <1>1 DEF listingVars, ListInv, Walking, Straight, From, Upto, Before, Beside
<1> QED BY <1>1, BeginKeeps, CountKeeps, SelectKeeps, ComesKeeps, LeavesKeeps DEF ListNext

\* A walk through the pages of a list returns every row that matched throughout it,
\* and none twice, save in the cases WalkIsExact names, for any table, page size and
\* times of creation, and whatever order each SELECT gives to rows that tie.
THEOREM WalksAreExact == ListSpec => []WalkIsExact
<1>1. ListInv => WalkIsExact
  BY DEF ListInv, WalkIsExact, Straight
<1> QED BY <1>1, ListInvInit, ListStep, PTL DEF ListSpec

-------------------------------------------------------------------------------
(* Servers *)

Codes == {"", "Unavailable", "NotFound", "InvalidArgument", "Unauthenticated", "Returned"}
Paths == {<<"api.grpc">>, <<"gw.grpc">>, <<"gw.http">>,
          <<"gw.grpc", "api.grpc">>, <<"api.http", "api.grpc">>}
Known == [{1} -> BOOLEAN] \cup [{1, 2} -> BOOLEAN]
KindRow == [path : Paths, tls : BOOLEAN, known : Known, skip : BOOLEAN]
UnderWay == [state : {"arrive", "serve", "back"}, at : {1, 2}, code : Codes,
             path : Paths, tls : BOOLEAN, known : Known, skip : BOOLEAN]
Ended == [state : {"ended"}, code : Codes]

\* A server of gRPC has what is asked of it if the server before it had the route.
Served(q) ==
    /\ q.path[1] \in Grpc => q.known[1]
    /\ (Len(q.path) = 2 /\ q.known[1]) => q.known[2]

\* A call is as deep in its path only as the servers on the way had what it asked for.
Sound(q) ==
    \/ q = NoRequest
    \/ q \in Ended
    \/ /\ q \in UnderWay /\ Served(q)
       /\ q.at <= Len(q.path)
       /\ q.at = 2 => q.known[1]
       /\ q.state = "serve" => q.known[q.at]

\* Request record q is inside server e.
Inside(q, e) ==
    /\ q.state \in {"arrive", "serve", "back"}
    /\ \E i \in 1 .. q.at : q.path[i] = e /\ (i < q.at \/ q.state # "arrive")

\* A path is one endpoint, or the proxy or gateway in front of api.grpc.
LEMMA PathShape ==
  ASSUME NEW path \in Paths
  PROVE  /\ Len(path) \in {1, 2} /\ DOMAIN path = IF Len(path) = 1 THEN {1} ELSE {1, 2}
         /\ path[1] \in Grpc \cup Http
         /\ path[Len(path)] \in Grpc \cup {"gw.http"}
         /\ Len(path) = 2 => path[2] = "api.grpc"
BY DEF Paths, Grpc, Http

\* What each endpoint registers.
LEMMA OfferedIs ==
  /\ Offered["api.grpc"] = registerServices
  /\ Offered["api.http"] = registerGatewayHandlers
  /\ Offered["gw.grpc"] = gatewayServices
BY DEF Offered

\* Every route leads to a registered method, and the callers of gRPC ask for one.
LEMMA RoutesRegistered == registerGatewayHandlers \subseteq registerServices
BY DEF registerGatewayHandlers, registerServices, GatewayServiceRoutes, NodeServiceRoutes,
       IdentityServiceRoutes, NodeOnboardingServiceRoutes, BootstrapTokenServiceRoutes,
       TaskServiceRoutes, ModelServiceRoutes, DeploymentServiceRoutes, GatewayService,
       NodeService, IdentityService, NodeOnboardingService, BootstrapTokenService, TaskService,
       ModelService, DeploymentService

\* Every call the programs make is a well-formed request for a served method.
LEMMA KindShape ==
  ASSUME NEW c \in Calls
  PROVE  Kind(c) \in KindRow /\ Served(Kind(c))
<1>1. \/ c.path = <<"api.grpc">> /\ c.method \in registerServices
      \/ c.path = <<"gw.grpc">> /\ c.method \in gatewayServices
      \/ c.path = <<"gw.http">>
      \/ /\ c.path = <<"gw.grpc", "api.grpc">>
         /\ c.method \in gatewayServices /\ c.method \in registerServices
      \/ c.path = <<"api.http", "api.grpc">>
  <2>1. CASE c \in edgectlCalls
    BY <2>1 DEF edgectlCalls, gatewayCmd, tokenCmd, nodeCmd, deploymentCmd, taskCmd, Direct,
                registerServices, GatewayService, NodeService, IdentityService,
                BootstrapTokenService, TaskService
  <2>2. CASE c \in selfRegisterCalls
    BY <2>2 DEF selfRegisterCalls, Direct, registerServices, GatewayService
  <2>3. CASE c \in bootstrapCalls \/ c \in renewCalls
    BY <2>3 DEF bootstrapCalls, renewCalls, registerServices, gatewayServices,
                NodeOnboardingService
  <2>4. CASE c \in agentCalls
    BY <2>4 DEF agentCalls, Direct, gatewayServices, AgentService
  <2>5. CASE c \in downloadCalls \/ c \in uploadCalls
    BY <2>5 DEF downloadCalls, uploadCalls, Direct
  <2>6. CASE c \in restCalls
    BY <2>6 DEF restCalls
  <2> QED BY <2>1, <2>2, <2>3, <2>4, <2>5, <2>6 DEF Calls
<1>2. c.tls \in BOOLEAN
  BY DEF Calls, edgectlCalls, gatewayCmd, tokenCmd, nodeCmd, deploymentCmd, taskCmd, Direct,
         selfRegisterCalls, bootstrapCalls, renewCalls, agentCalls, downloadCalls, uploadCalls,
         restCalls
<1> DEFINE known == [i \in DOMAIN c.path |-> c.method \in Offered[c.path[i]]]
<1>3. c.path \in Paths
  BY <1>1 DEF Paths
<1>4. known \in Known
  BY <1>3, PathShape DEF Known
<1>5. \A i \in DOMAIN c.path : known[i] <=> c.method \in Offered[c.path[i]]
  OBVIOUS
<1>6. Kind(c).path = c.path /\ Kind(c).known = known /\ Kind(c) \in KindRow
  BY <1>2, <1>3, <1>4 DEF Kind, KindRow
<1>7. Served(Kind(c))
  <2>1. 1 \in DOMAIN c.path /\ (Len(c.path) = 2 => 2 \in DOMAIN c.path /\ c.path[2] = "api.grpc")
    BY <1>3, PathShape
  <2> HIDE DEF known
  <2>2. ASSUME c.path = <<"api.grpc">> /\ c.method \in registerServices
        PROVE  (c.path[1] \in Grpc => known[1]) /\ ((Len(c.path) = 2 /\ known[1]) => known[2])
    BY <1>5, <2>1, <2>2, OfferedIs
  <2>3. ASSUME c.path = <<"gw.grpc">> /\ c.method \in gatewayServices
        PROVE  (c.path[1] \in Grpc => known[1]) /\ ((Len(c.path) = 2 /\ known[1]) => known[2])
    BY <1>5, <2>1, <2>3, OfferedIs
  <2>4. ASSUME c.path = <<"gw.http">>
        PROVE  (c.path[1] \in Grpc => known[1]) /\ ((Len(c.path) = 2 /\ known[1]) => known[2])
    BY <2>1, <2>4 DEF Grpc
  <2>5. ASSUME /\ c.path = <<"gw.grpc", "api.grpc">>
             /\ c.method \in gatewayServices /\ c.method \in registerServices
        PROVE  (c.path[1] \in Grpc => known[1]) /\ ((Len(c.path) = 2 /\ known[1]) => known[2])
    BY <1>5, <2>1, <2>5, OfferedIs
  <2>6. ASSUME c.path = <<"api.http", "api.grpc">>
        PROVE  (c.path[1] \in Grpc => known[1]) /\ ((Len(c.path) = 2 /\ known[1]) => known[2])
    BY <1>5, <2>1, <2>6, OfferedIs, RoutesRegistered DEF Grpc
  <2>7. (c.path[1] \in Grpc => known[1]) /\ ((Len(c.path) = 2 /\ known[1]) => known[2])
    BY <1>1, <2>2, <2>3, <2>4, <2>5, <2>6
  <2> QED BY <1>6, <2>7 DEF Served
<1> QED BY <1>6, <1>7

\* A request is in a server's handler as its own state says.
LEMMA InIsInside == \A r, e : In(r, e) = Inside(req[r], e)
BY DEF In, Inside

\* What an answer, a call passed on or an end of a server makes of a request.
AfterAnswer(q, code) ==
    IF q.at = 1 THEN [state |-> "ended", code |-> code]
    ELSE [q EXCEPT !.at = q.at - 1, !.state = "back", !.code = code]

\* An answer takes a request back along its path, into no other handler.
LEMMA AnswerSound ==
  ASSUME NEW q \in UnderWay, Sound(q), NEW code \in Codes
  PROVE  Sound(AfterAnswer(q, code)) /\ \A e : Inside(AfterAnswer(q, code), e) => Inside(q, e)
<1>1. q.state \in {"arrive", "serve", "back"} /\ q # NoRequest /\ q \notin Ended
  BY DEF UnderWay, NoRequest, Ended
<1>2. CASE q.at = 1
  BY <1>2 DEF AfterAnswer, Sound, Ended, Inside
<1>3. CASE q.at = 2
  <2> DEFINE new == [q EXCEPT !.at = 1, !.state = "back", !.code = code]
  <2>1. /\ new \in UnderWay /\ new.at = 1 /\ new.state = "back"
        /\ new.path = q.path /\ new.known = q.known
    BY DEF UnderWay
  <2>2. AfterAnswer(q, code) = new
    BY <1>3 DEF AfterAnswer
  <2> HIDE DEF new
  <2>3. Len(q.path) \in {1, 2}
    BY PathShape DEF UnderWay
  <2>4. Sound(new)
    BY <1>1, <2>1, <2>3 DEF Sound, Served
  <2>5. ASSUME NEW e, Inside(new, e)
        PROVE  Inside(q, e)
    <3>1. q.path[1] = e
      BY <2>1, <2>5 DEF Inside
    <3> QED BY <1>1, <1>3, <3>1 DEF Inside
  <2> QED BY <2>2, <2>4, <2>5
<1> QED BY <1>2, <1>3 DEF UnderWay

\* A step of one request: it stays sound and gets into no server that does not accept.
OneRequest ==
    \E r \in Requests : \E new :
       /\ req' = [req EXCEPT ![r] = new] /\ Sound(new)
       /\ \A e \in Grpc \cup Http : Inside(new, e) => Inside(req[r], e) \/ Listening(e)

\* Answer changes that one request, which stays sound.
LEMMA AnswerStep ==
  ASSUME NEW r \in Requests, req[r] \in UnderWay, Sound(req[r]), NEW code \in Codes,
         Answer(r, code)
  PROVE  OneRequest
<1> DEFINE new == AfterAnswer(req[r], code)
<1>1. req' = [req EXCEPT ![r] = new]
  BY DEF Answer, AfterAnswer, UnderWay
<1>2. Sound(new) /\ \A e : Inside(new, e) => Inside(req[r], e)
  BY AnswerSound
<1> HIDE DEF new
<1> QED BY <1>1, <1>2 DEF OneRequest

\* Every step of a request inside the servers keeps it sound.
LEMMA RequestKeepsSound ==
  ASSUME NEW r \in Requests, Sound(req[r]), RequestStep(r)
  PROVE  OneRequest
<1>1. req[r].state \in {"arrive", "serve", "back"}
  BY DEF RequestStep, Refused, Accept, Reject, Forward, Return, Back
<1>2. /\ req[r] \in UnderWay /\ Served(req[r]) /\ req[r].at <= Len(req[r].path)
      /\ req[r].at = 2 => req[r].known[1]
      /\ req[r].state = "serve" => req[r].known[req[r].at]
  BY <1>1 DEF Sound, NoRequest, Ended
<1>3. PICK q \in UnderWay : q = req[r]
  BY <1>2
<1>4. /\ q.at \in {1, 2} /\ Len(q.path) \in {1, 2} /\ q.code \in Codes /\ q.path \in Paths
      /\ q.path[1] \in Grpc \cup Http /\ (Len(q.path) = 2 => q.path[2] = "api.grpc")
  BY PathShape DEF UnderWay
<1>5. ASSUME NEW code \in Codes, Answer(r, code)
      PROVE  OneRequest
  BY <1>2, <1>5, AnswerStep
<1>6. CASE Refused(r)
  BY <1>5, <1>6 DEF Refused, Codes
<1>7. CASE Accept(r)
  <2>1. CASE req[r].known[req[r].at]
    <3> DEFINE new == [q EXCEPT !.state = "serve"]
    <3>1. /\ new \in UnderWay /\ new.state = "serve" /\ new.at = q.at
          /\ new.path = q.path /\ new.known = q.known
      BY DEF UnderWay
    <3>2. req' = [req EXCEPT ![r] = new] /\ Listening(Here(r)) /\ q.state = "arrive"
      BY <1>3, <1>7, <2>1 DEF Accept
    <3> HIDE DEF new
    <3>3. Sound(new)
      BY <1>2, <1>3, <2>1, <3>1 DEF Sound, Served
    <3>4. ASSUME NEW e, Inside(new, e)
          PROVE  Inside(q, e) \/ Listening(e)
      <4>1. PICK i \in 1 .. q.at : q.path[i] = e
        BY <3>1, <3>4 DEF Inside
      <4>2. CASE i = q.at
        BY <1>3, <3>2, <4>1, <4>2 DEF Here
      <4>3. CASE i # q.at
        BY <1>4, <3>2, <4>1, <4>3 DEF Inside
      <4> QED BY <4>2, <4>3
    <3> QED BY <1>3, <3>2, <3>3, <3>4 DEF OneRequest
  <2>2. CASE ~req[r].known[req[r].at]
    <3>1. Here(r) \notin Grpc
      <4>1. CASE q.at = 1
        BY <1>2, <1>3, <2>2, <4>1 DEF Here, Served
      <4>2. CASE q.at = 2
        BY <1>2, <1>3, <1>4, <2>2, <4>2 DEF Here, Served
      <4> QED BY <1>4, <4>1, <4>2
    <3>2. Answer(r, "NotFound")
      BY <1>7, <2>2, <3>1 DEF Accept
    <3> QED BY <1>5, <3>2 DEF Codes
  <2> QED BY <2>1, <2>2
<1>8. CASE Reject(r)
  BY <1>5, <1>8 DEF Reject, Codes
<1>9. CASE Forward(r)
  <2>1. q.at = 1 /\ Len(q.path) = 2 /\ q.state = "serve"
    <3>1. q.state = "serve" /\ q.at < Len(q.path)
      BY <1>3, <1>9 DEF Forward
    <3>2. CASE q.at = 1
      BY <1>4, <3>1, <3>2
    <3>3. CASE q.at = 2
      <4>1. \A n \in {1, 2} : ~(2 < n)
        OBVIOUS
      <4> QED BY <1>4, <3>1, <3>3, <4>1
    <3> QED BY <1>4, <3>2, <3>3
  <2> DEFINE new == [[q EXCEPT !.state = "arrive"] EXCEPT !.at = 2]
  <2>2. /\ new \in UnderWay /\ new.state = "arrive" /\ new.at = 2
        /\ new.path = q.path /\ new.known = q.known
    BY DEF UnderWay
  <2>3. req' = [req EXCEPT ![r] = new]
    <3>1. req' = [req EXCEPT ![r] = [[req[r] EXCEPT !.state = "arrive"] EXCEPT !.at = req[r].at + 1]]
      BY <1>2, <1>9 DEF Forward, UnderWay
    <3>2. req[r].at + 1 = 2
      BY <1>3, <2>1
    <3> QED BY <1>3, <3>1, <3>2, Zenon
  <2> HIDE DEF new
  <2>6. q.known[1] /\ Served(q)
    BY <1>2, <1>3, <2>1
  <2>7. Served(new) /\ new.known[1]
    BY <2>2, <2>6 DEF Served
  <2>8. new.at <= Len(new.path) /\ new.state # "serve"
    <3>1. Len(new.path) = 2 /\ new.at = 2
      BY <2>1, <2>2, Zenon
    <3>2. 2 <= 2
      OBVIOUS
    <3> QED BY <2>2, <3>1, <3>2, Zenon
  <2>4. Sound(new)
    BY <2>2, <2>7, <2>8 DEF Sound
  <2>5. ASSUME NEW e, Inside(new, e)
        PROVE  Inside(q, e)
    <3>1. q.path[1] = e
      BY <2>2, <2>5 DEF Inside
    <3> QED BY <2>1, <3>1 DEF Inside
  <2> QED BY <1>3, <2>3, <2>4, <2>5 DEF OneRequest
<1>10. CASE Return(r)
  BY <1>5, <1>10 DEF Return, Codes
<1>11. CASE Back(r)
  BY <1>3, <1>4, <1>5, <1>11 DEF Back
<1> QED BY <1>6, <1>7, <1>8, <1>9, <1>10, <1>11 DEF RequestStep

\* A new request is sound and in no handler yet.
LEMMA ArriveKeepsSound ==
  ASSUME NEW r \in Requests, NEW kind \in Kinds, Arrive(r, kind)
  PROVE  OneRequest
<1> DEFINE new == [state |-> "arrive", at |-> 1, code |-> "", path |-> kind.path,
                   tls |-> kind.tls, known |-> kind.known, skip |-> kind.skip]
<1>1. kind \in KindRow /\ Served(kind)
  BY KindShape DEF Kinds
<1>2. /\ new \in UnderWay /\ new.path = kind.path /\ new.known = kind.known
      /\ new.at = 1 /\ new.state = "arrive"
  BY <1>1 DEF KindRow, UnderWay, Codes
<1>3. Len(kind.path) \in {1, 2}
  BY <1>1, PathShape DEF KindRow
<1>4. req' = [req EXCEPT ![r] = new]
  BY DEF Arrive
<1> HIDE DEF new
<1>5. Sound(new)
  BY <1>1, <1>2, <1>3 DEF Sound, Served
<1>6. \A e : ~Inside(new, e)
  BY <1>2 DEF Inside
<1> QED BY <1>4, <1>5, <1>6 DEF OneRequest

\* An ended request leaves no trace.
LEMMA LeaveKeepsSound ==
  ASSUME NEW r \in Requests, Leave(r)
  PROVE  OneRequest
<1>1. Sound(NoRequest) /\ \A e : ~Inside(NoRequest, e)
  BY DEF Sound, NoRequest, Inside
<1> QED BY <1>1 DEF Leave, OneRequest

\* Where main of a program is, with what a stop has left behind it: no call of gRPC
\* once GracefulStop returned, and one of HTTP only if Shutdown noted it.
SrvInv ==
    /\ phase \in [Programs -> {"down", "serving", "stopping", "draining", "closed"}]
    /\ late \in [Programs -> BOOLEAN]
    /\ req = [r \in Requests |-> req[r]]
    /\ \A r \in Requests : Sound(req[r])
    /\ \A p \in Programs, r \in Requests, e \in Grpc :
          (phase[p] \in {"draining", "closed"} /\ ProgramOf(e) = p) => ~Inside(req[r], e)
    /\ \A p \in Programs, r \in Requests, e \in Http :
          (phase[p] = "closed" /\ ProgramOf(e) = p /\ Inside(req[r], e)) => late[p]

\* Every endpoint belongs to one of the two programs.
LEMMA ProgramOfType == \A e \in Grpc \cup Http : ProgramOf(e) \in Programs
BY DEF ProgramOf, Programs

\* No server runs and no request is under way.
LEMMA SrvInvInit == SrvInit => SrvInv
<1>1. Sound(NoRequest) /\ \A e : ~Inside(NoRequest, e)
  BY DEF Sound, NoRequest, Inside
<1> QED BY <1>1 DEF SrvInit, SrvInv, Programs

\* A step of one request, the servers' phases unchanged, keeps the invariant.
LEMMA OneRequestKeeps ==
  ASSUME SrvInv, OneRequest, UNCHANGED <<phase, late>>
  PROVE  SrvInv'
<1>0. PICK r \in Requests :
         \E new : /\ req' = [req EXCEPT ![r] = new] /\ Sound(new)
                  /\ \A e \in Grpc \cup Http : Inside(new, e) => Inside(req[r], e) \/ Listening(e)
  BY DEF OneRequest
<1>1. PICK new :
         /\ req' = [req EXCEPT ![r] = new] /\ Sound(new)
         /\ \A e \in Grpc \cup Http : Inside(new, e) => Inside(req[r], e) \/ Listening(e)
  BY <1>0
<1>2. req' = [q \in Requests |-> IF q = r THEN new ELSE req[q]]
  BY <1>1 DEF SrvInv
<1>3. ASSUME NEW q \in Requests, NEW e \in Grpc \cup Http, Inside(req'[q], e)
      PROVE  Inside(req[q], e) \/ Listening(e)
  BY <1>1, <1>2, <1>3
<1>4. \A e \in Grpc : Listening(e) => phase[ProgramOf(e)] = "serving"
  BY DEF Listening
<1>5. \A e \in Http : Listening(e) => phase[ProgramOf(e)] # "closed"
  BY DEF Listening, Grpc, Http
<1>6. \A q \in Requests : Sound(req'[q])
  BY <1>1, <1>2 DEF SrvInv
<1>7. req' = [q \in Requests |-> req'[q]]
  BY <1>2
<1>8. \A p \in Programs, q \in Requests, e \in Grpc :
          (phase[p] \in {"draining", "closed"} /\ ProgramOf(e) = p) => ~Inside(req'[q], e)
  BY <1>3, <1>4 DEF SrvInv
<1>9. \A p \in Programs, q \in Requests, e \in Http :
          (phase[p] = "closed" /\ ProgramOf(e) = p /\ Inside(req'[q], e)) => late[p]
  BY <1>3, <1>5 DEF SrvInv
<1> QED BY <1>6, <1>7, <1>8, <1>9 DEF SrvInv

\* When a process ends, the requests inside it are cut off and get into no other server.
LEMMA CutKeeps ==
  ASSUME SrvInv, NEW p \in Programs, Cut(p), NEW r \in Requests
  PROVE  Sound(req'[r]) /\ \A e : Inside(req'[r], e) => Inside(req[r], e)
<1> DEFINE gone == {i \in DOMAIN req[r].path : ProgramOf(req[r].path[i]) = p}
           first == CHOOSE j \in gone : \A k \in gone : j <= k
<1>1. CASE ~\E e \in Grpc \cup Http : ProgramOf(e) = p /\ In(r, e)
  <2>1. req'[r] = req[r]
    BY <1>1 DEF Cut
  <2> QED BY <2>1 DEF SrvInv
<1>2. CASE \E e \in Grpc \cup Http : ProgramOf(e) = p /\ In(r, e)
  <2>1. req'[r] = IF first = 1 THEN [state |-> "ended", code |-> "Unavailable"]
                  ELSE [req[r] EXCEPT !.at = first - 1, !.state = "back", !.code = "Unavailable"]
    BY <1>2 DEF Cut
  <2>2. PICK e \in Grpc \cup Http : ProgramOf(e) = p /\ Inside(req[r], e)
    BY <1>2, InIsInside
  <2>3. req[r] \in UnderWay /\ Sound(req[r])
    BY <2>2 DEF SrvInv, Sound, Inside, NoRequest, Ended
  <2>4. PICK q \in UnderWay : q = req[r]
    BY <2>3
  <2>5. /\ Len(q.path) \in {1, 2} /\ DOMAIN q.path = IF Len(q.path) = 1 THEN {1} ELSE {1, 2}
        /\ q.at \in {1, 2}
    BY PathShape DEF UnderWay
  <2>6. q.at <= Len(q.path)
    BY <2>3, <2>4 DEF Sound, UnderWay, NoRequest, Ended
  <2>7. PICK j \in 1 .. q.at : q.path[j] = e
    BY <2>2, <2>4 DEF Inside
  <2>8. gone \subseteq {1, 2} /\ j \in gone /\ j \in {1, 2} /\ (j = 2 => q.at = 2)
    <3>1. j \in {1, 2} /\ (j = 2 => q.at = 2) /\ j <= Len(q.path)
      BY <2>5, <2>6, <2>7
    <3>2. j \in DOMAIN q.path
      <4>1. CASE Len(q.path) = 1
        BY <2>5, <3>1, <4>1
      <4>2. CASE Len(q.path) = 2
        BY <2>5, <3>1, <4>2
      <4> QED BY <2>5, <4>1, <4>2
    <3> QED BY <2>2, <2>4, <2>5, <2>7, <3>1, <3>2
  <2> HIDE DEF gone
  <2>9. 1 \in gone => first = 1
    <3> SUFFICES ASSUME 1 \in gone PROVE first = 1
      OBVIOUS
    <3>1. \A k \in gone : 1 <= k
      BY <2>8
    <3>2. first \in gone /\ \A k \in gone : first <= k
      BY <3>1
    <3> HIDE DEF first
    <3> QED BY <2>8, <3>2
  <2>10. 1 \notin gone => first = 2 /\ q.at = 2
    <3> SUFFICES ASSUME 1 \notin gone PROVE first = 2 /\ q.at = 2
      OBVIOUS
    <3>1. gone = {2} /\ q.at = 2
      BY <2>8
    <3>2. first \in gone
      BY <3>1
    <3> QED BY <3>1, <3>2
  <2> HIDE DEF first
  <2>11. CASE first = 1
    <3>1. req'[r] = [state |-> "ended", code |-> "Unavailable"]
      BY <2>1, <2>11
    <3> QED BY <3>1 DEF Sound, Ended, Codes, Inside
  <2>12. CASE first = 2 /\ q.at = 2
    <3>1. req'[r] = AfterAnswer(q, "Unavailable")
      BY <2>1, <2>4, <2>12 DEF AfterAnswer
    <3> QED BY <2>3, <2>4, <3>1, AnswerSound DEF Codes
  <2> QED BY <2>9, <2>10, <2>11, <2>12
<1> QED BY <1>1, <1>2

\* The end of a process cuts off its handlers and keeps the invariant.
LEMMA EndKeeps ==
  ASSUME SrvInv, NEW p \in Programs, Cut(p),
         phase' = [phase EXCEPT ![p] = "down"], late' = [late EXCEPT ![p] = FALSE]
  PROVE  SrvInv'
<1>1. \A r \in Requests : Sound(req'[r]) /\ \A e : Inside(req'[r], e) => Inside(req[r], e)
  BY CutKeeps
<1>2. req' = [r \in Requests |-> req'[r]]
  <2> DEFINE after(r) ==
               LET gone == {i \in DOMAIN req[r].path : ProgramOf(req[r].path[i]) = p}
                   i == CHOOSE j \in gone : \A k \in gone : j <= k
               IN  IF ~\E e \in Grpc \cup Http : ProgramOf(e) = p /\ In(r, e) THEN req[r]
                   ELSE IF i = 1 THEN [state |-> "ended", code |-> "Unavailable"]
                   ELSE [req[r] EXCEPT !.at = i - 1, !.state = "back", !.code = "Unavailable"]
  <2>1. req' = [r \in Requests |-> after(r)]
    BY DEF Cut
  <2> HIDE DEF after
  <2> QED BY <2>1
<1>3. \A o \in Programs : phase'[o] # "down" => o # p /\ phase'[o] = phase[o] /\ late'[o] = late[o]
  BY DEF SrvInv
<1>4. /\ phase' \in [Programs -> {"down", "serving", "stopping", "draining", "closed"}]
      /\ late' \in [Programs -> BOOLEAN]
  BY DEF SrvInv
<1>5. \A o \in Programs, r \in Requests, e \in Grpc :
          (phase'[o] \in {"draining", "closed"} /\ ProgramOf(e) = o) => ~Inside(req'[r], e)
  BY <1>1, <1>3 DEF SrvInv
<1>6. \A o \in Programs, r \in Requests, e \in Http :
          (phase'[o] = "closed" /\ ProgramOf(e) = o /\ Inside(req'[r], e)) => late'[o]
  BY <1>1, <1>3 DEF SrvInv
<1> QED BY <1>1, <1>2, <1>4, <1>5, <1>6 DEF SrvInv

\* A start, a signal and the two steps of a stop move one program on.
LEMMA MainKeeps ==
  ASSUME SrvInv, NEW p \in Programs, UNCHANGED req,
         NEW to \in {"serving", "stopping", "draining", "closed"},
         phase' = [phase EXCEPT ![p] = to],
         \/ to \in {"serving", "stopping"} /\ UNCHANGED late
         \/ /\ to = "draining" /\ UNCHANGED late
            /\ ~\E r \in Requests, e \in Grpc : ProgramOf(e) = p /\ In(r, e)
         \/ /\ to = "closed" /\ phase[p] = "draining"
            /\ late' = [late EXCEPT ![p] = \E r \in Requests, e \in Http : ProgramOf(e) = p /\ In(r, e)]
  PROVE  SrvInv'
<1> DEFINE left == \E r \in Requests, e \in Http : ProgramOf(e) = p /\ In(r, e)
<1>1. \A o \in Programs : phase'[o] = IF o = p THEN to ELSE phase[o]
  BY DEF SrvInv
<1>2. /\ phase' \in [Programs -> {"down", "serving", "stopping", "draining", "closed"}]
      /\ late' \in [Programs -> BOOLEAN]
  BY DEF SrvInv
<1>3. ASSUME NEW o \in Programs, NEW r \in Requests, NEW e \in Grpc,
             phase'[o] \in {"draining", "closed"}, ProgramOf(e) = o
      PROVE  ~Inside(req'[r], e)
  <2>1. CASE o # p
    BY <1>1, <1>3, <2>1 DEF SrvInv
  <2>2. CASE o = p /\ to = "draining"
    BY <1>3, <2>2, InIsInside
  <2>3. CASE o = p /\ to = "closed"
    BY <1>3, <2>3 DEF SrvInv
  <2> QED BY <1>1, <1>3, <2>1, <2>2, <2>3
<1>4. ASSUME NEW o \in Programs, NEW r \in Requests, NEW e \in Http,
             phase'[o] = "closed", ProgramOf(e) = o, Inside(req'[r], e)
      PROVE  late'[o]
  <2>1. CASE o # p
    <3>1. late[o]
      BY <1>1, <1>4, <2>1 DEF SrvInv
    <3>2. late'[o] = late[o]
      BY <2>1 DEF SrvInv
    <3> QED BY <3>1, <3>2
  <2>2. CASE o = p
    <3>1. to = "closed" /\ left
      BY <1>1, <1>4, <2>2, InIsInside
    <3> HIDE DEF left
    <3>2. late' = [late EXCEPT ![p] = left]
      BY <3>1 DEF left
    <3> QED BY <2>2, <3>1, <3>2 DEF SrvInv
  <2> QED BY <2>1, <2>2
<1> QED BY <1>2, <1>3, <1>4 DEF SrvInv

\* Every step of requests and servers keeps the invariant.
LEMMA SrvStep == SrvInv /\ [SrvNext]_serverVars => SrvInv'
<1> SUFFICES ASSUME SrvInv, [SrvNext]_serverVars PROVE SrvInv'
  OBVIOUS
<1>1. ASSUME NEW r \in Requests, RequestStep(r)
      PROVE  SrvInv'
  <2>1. Sound(req[r])
    BY DEF SrvInv
  <2>2. OneRequest /\ UNCHANGED <<phase, late>>
    BY <1>1, <2>1, RequestKeepsSound DEF RequestStep
  <2> QED BY <2>2, OneRequestKeeps
<1>2. ASSUME NEW r \in Requests, Leave(r) \/ \E k \in Kinds : Arrive(r, k),
             UNCHANGED <<phase, late, starts, kills>>
      PROVE  SrvInv'
  BY <1>2, ArriveKeepsSound, LeaveKeepsSound, OneRequestKeeps
<1>3. CASE StartApiserver
  BY <1>3, MainKeeps DEF StartApiserver, Programs
<1>4. CASE \E autoRegister \in BOOLEAN : StartGateway(autoRegister)
  BY <1>4, MainKeeps DEF StartGateway, Programs
<1>5. ASSUME NEW p \in Programs, Signal(p)
      PROVE  SrvInv'
  BY <1>5, MainKeeps DEF Signal
<1>6. ASSUME NEW p \in Programs, GracefulStop(p)
      PROVE  SrvInv'
  BY <1>6, MainKeeps DEF GracefulStop
<1>7. ASSUME NEW p \in Programs, Shutdown(p)
      PROVE  SrvInv'
  BY <1>7, MainKeeps DEF Shutdown
<1>8. ASSUME NEW p \in Programs, Exit(p) \/ Kill(p)
      PROVE  SrvInv'
  BY <1>8, EndKeeps DEF Exit, Kill
<1>9. CASE UNCHANGED serverVars
  BY <1>9 DEF serverVars, SrvInv, Sound, Inside
<1> QED BY <1>1, <1>2, <1>3, <1>4, <1>5, <1>6, <1>7, <1>8, <1>9 DEF SrvNext, StopStep

\* No handler runs on a closed database, save one of the gateway's HTTP server that
\* outlasted Shutdown, for any number of requests and any order of starts and ends.
THEOREM DatabaseOutlivesHandlers == SrvSpec => []HandlersKeepDatabase
<1>1. SrvInv => HandlersKeepDatabase
  <2> SUFFICES ASSUME SrvInv, NEW r \in Requests, req[r].state = "serve",
                      req[r].at = Len(req[r].path), phase[ProgramOf(Here(r))] = "closed"
               PROVE  Here(r) = "gw.http" /\ late["gateway-runtime"]
    BY DEF HandlersKeepDatabase
  <2>1. req[r] \in UnderWay
    BY DEF SrvInv, Sound, NoRequest, Ended
  <2>2. PICK q \in UnderWay : q = req[r] /\ q.state = "serve" /\ q.at = Len(q.path)
    BY <2>1
  <2>3. /\ q.at \in {1, 2} /\ q.path[q.at] = Here(r)
        /\ q.path[q.at] \in Grpc \cup {"gw.http"}
    BY <2>2, PathShape DEF Here, UnderWay
  <2>4. Inside(req[r], Here(r))
    BY <2>2, <2>3 DEF Inside
  <2>5. Here(r) \notin Grpc
    <3>1. Here(r) \in Grpc => ProgramOf(Here(r)) \in Programs
      BY ProgramOfType
    <3> QED BY <2>4, <3>1 DEF SrvInv
  <2>6. Here(r) = "gw.http"
    BY <2>3, <2>5
  <2>7. ProgramOf("gw.http") = "gateway-runtime" /\ "gw.http" \in Http /\ "gateway-runtime" \in Programs
    BY DEF ProgramOf, Http, Programs
  <2> QED BY <2>4, <2>6, <2>7 DEF SrvInv
<1> QED BY <1>1, SrvInvInit, SrvStep, PTL DEF SrvSpec

\* No call of the programs, and no REST call of a user, ends as Unimplemented.
THEOREM CallsReachServices == SrvSpec => []CallsAreServed
<1>1. SrvInv => CallsAreServed
  <2> SUFFICES ASSUME SrvInv, NEW r \in Requests, req[r].state = "ended"
               PROVE  req[r].code # "Unimplemented"
    BY DEF CallsAreServed
  <2>1. req[r] \in Ended
    BY DEF SrvInv, Sound, NoRequest, UnderWay
  <2> QED BY <2>1 DEF Ended, Codes
<1> QED BY <1>1, SrvInvInit, SrvStep, PTL DEF SrvSpec

-------------------------------------------------------------------------------
(* RetryPolicy *)

\* Adding an element doubles the number of subsets: those with it and those without.
LEMMA PowerStep ==
  ASSUME NEW n \in Nat
  PROVE  2^n \in Nat /\ 2^(n + 1) = 2 * 2^n
<1> DEFINE S == 1 .. n
           T == 1 .. n + 1
           U == {A \in SUBSET T : n + 1 \in A}
           f == [A \in SUBSET S |-> A \cup {n + 1}]
<1>1. IsFiniteSet(S) /\ Cardinality(S) = n /\ IsFiniteSet(T) /\ Cardinality(T) = n + 1
  BY FS_Interval
<1>2. /\ IsFiniteSet(SUBSET S) /\ Cardinality(SUBSET S) = 2^n
      /\ Cardinality(SUBSET T) = 2^(n + 1)
  BY <1>1, FS_SUBSET, Zenon
<1>3. Cardinality(SUBSET S) \in Nat
  BY <1>2, FS_CardinalityType
<1>4. f \in Bijection(SUBSET S, U)
  <2>1. \A A \in SUBSET S : A \cup {n + 1} \in U /\ n + 1 \notin A
    OBVIOUS
  <2>2. f \in [SUBSET S -> U]
    BY <2>1
  <2>3. \A A, B \in SUBSET S : f[A] = f[B] => A = B
    <3> SUFFICES ASSUME NEW A \in SUBSET S, NEW B \in SUBSET S, f[A] = f[B] PROVE A = B
      OBVIOUS
    <3>1. A \cup {n + 1} = B \cup {n + 1} /\ n + 1 \notin A /\ n + 1 \notin B
      BY <2>1
    <3> QED BY <3>1
  <2>4. \A C \in U : \E A \in SUBSET S : f[A] = C
    <3> SUFFICES ASSUME NEW C \in U PROVE \E A \in SUBSET S : f[A] = C
      OBVIOUS
    <3>1. C \ {n + 1} \in SUBSET S
      <4>1. \A k \in T : k # n + 1 => k \in S
        OBVIOUS
      <4> QED BY <4>1
    <3>2. f[C \ {n + 1}] = C
      BY <3>1
    <3> QED BY <3>1, <3>2
  <2> HIDE DEF f, U
  <2> QED BY <2>2, <2>3, <2>4, Zenon DEF Bijection, Injection, Surjection, IsInjective
<1>5. IsFiniteSet(U) /\ Cardinality(U) = Cardinality(SUBSET S)
  BY <1>2, <1>4, FS_Bijection, Zenon DEF ExistsBijection
<1>6. SUBSET T = (SUBSET S) \cup U /\ (SUBSET S) \cap U = {}
  <2>1. S \subseteq T /\ n + 1 \notin S /\ (\A k \in T : k = n + 1 \/ k \in S)
    OBVIOUS
  <2> QED BY <2>1
<1>7. Cardinality(SUBSET T) = Cardinality(SUBSET S) + Cardinality(U)
  <2>1. Cardinality((SUBSET S) \cap U) = 0
    BY <1>6, FS_EmptySet
  <2>2. Cardinality(SUBSET T) = Cardinality(SUBSET S) + Cardinality(U) - Cardinality((SUBSET S) \cap U)
    BY <1>2, <1>5, <1>6, FS_Union, Zenon
  <2> QED BY <1>3, <1>5, <2>1, <2>2
<1> QED BY <1>2, <1>3, <1>5, <1>7

\* The powers NextBackoff compares with its cap of 60 s.
LEMMA Powers ==
  /\ 2^0 = 1 /\ 2^1 = 2 /\ 2^2 = 4 /\ 2^3 = 8 /\ 2^4 = 16 /\ 2^5 = 32
  /\ \A n \in Nat : 2^n \in Nat /\ (n >= 5 => 2^n >= 32)
<1>1. 2^0 = 1
  <2>1. SUBSET {} = {{}}
    OBVIOUS
  <2>2. Cardinality(SUBSET {}) = 1
    BY <2>1, FS_Singleton, Zenon
  <2> QED BY <2>2, FS_EmptySet, FS_SUBSET, Zenon
<1>2. 2^(0 + 1) = 2 * 2^0 /\ 2^(1 + 1) = 2 * 2^1 /\ 2^(2 + 1) = 2 * 2^2
      /\ 2^(3 + 1) = 2 * 2^3 /\ 2^(4 + 1) = 2 * 2^4
  BY PowerStep, Zenon
<1>3. 2^0 = 1 /\ 2^1 = 2 /\ 2^2 = 4 /\ 2^3 = 8 /\ 2^4 = 16 /\ 2^5 = 32
  BY <1>1, <1>2
<1>4. ASSUME NEW n \in Nat, n >= 5
      PROVE  2^n >= 32
  <2>1. \A m \in Nat : IsFiniteSet(1 .. m) /\ Cardinality(1 .. m) = m
    BY FS_Interval
  <2>2. 5 \in Nat
    OBVIOUS
  <2>3. SUBSET (1 .. 5) \in SUBSET (SUBSET (1 .. n))
    BY <1>4
  <2>4. /\ IsFiniteSet(SUBSET (1 .. n)) /\ Cardinality(SUBSET (1 .. n)) = 2^n
        /\ Cardinality(SUBSET (1 .. 5)) = 2^5
    BY <2>1, <2>2, FS_SUBSET, Zenon
  <2>5. Cardinality(SUBSET (1 .. 5)) <= Cardinality(SUBSET (1 .. n))
    BY <2>3, <2>4, FS_Subset, Zenon
  <2>6. 2^n \in Nat
    BY PowerStep
  <2> QED BY <1>3, <2>4, <2>5, <2>6
<1> QED BY <1>3, <1>4, PowerStep

\* The wait after n retries: doubled five times, then capped.
Spaced(n) == IF n = 0 THEN 2 ELSE IF n = 1 THEN 4 ELSE IF n = 2 THEN 8
             ELSE IF n = 3 THEN 16 ELSE IF n = 4 THEN 32 ELSE 60

\* NextBackoff is the closed form, or negative once the product leaves int64.
LEMMA BackoffIsSpaced ==
  ASSUME NEW n \in Nat, NEW w \in NextBackoff(n)
  PROVE  w \in Int /\ (w = Spaced(n) \/ (n >= 33 /\ w < 0))
<1>1. PICK d \in Converted(n) : w = IF d > maxBackoffInterval THEN maxBackoffInterval ELSE d
  BY DEF NextBackoff
<1>2. 2^29 \in Nat /\ 2^29 >= 32 /\ 2^n \in Nat /\ (n >= 5 => 2^n >= 32)
  BY Powers
<1>3. CASE d = Negative /\ n >= 33
  BY <1>1, <1>3 DEF Negative, maxBackoffInterval
<1>4. CASE d = 2^29 /\ n >= 28
  BY <1>1, <1>2, <1>4 DEF maxBackoffInterval, Spaced
<1>5. CASE d = 2 * 2^n
  <2>1. n = 0 \/ n = 1 \/ n = 2 \/ n = 3 \/ n = 4 \/ n >= 5
    OBVIOUS
  <2>2. n < 5 => d \in {2, 4, 8, 16, 32} /\ d = Spaced(n)
    <3>1. /\ n = 0 => 2^n = 1
          /\ n = 1 => 2^n = 2
          /\ n = 2 => 2^n = 4
          /\ n = 3 => 2^n = 8
          /\ n = 4 => 2^n = 16
      BY Powers, Zenon
    <3> QED BY <1>5, <2>1, <3>1 DEF Spaced
  <2>3. n >= 5 => d > 60 /\ Spaced(n) = 60
    BY <1>2, <1>5 DEF Spaced
  <2> QED BY <1>1, <2>1, <2>2, <2>3 DEF maxBackoffInterval
<1> QED BY <1>1, <1>3, <1>4, <1>5 DEF Converted, baseBackoffInterval

\* For every retry count, the backoff starts at the base interval and doubles up to its
\* cap, or is negative, but only once the product leaves int64 (RetryPolicy.NextBackoff).
THEOREM BackoffGrows == RetrySpec => []BackoffDoubles
<1>1. NextBackoff(0) = {baseBackoffInterval}
  <2>1. Converted(0) = {2}
    BY Powers DEF Converted, baseBackoffInterval
  <2> QED BY <2>1 DEF NextBackoff, baseBackoffInterval, maxBackoffInterval
<1>2. ASSUME NEW n \in Nat, NEW w \in NextBackoff(n), NEW v \in NextBackoff(n + 1)
      PROVE  \/ n + 1 >= 33 /\ v < 0
             \/ w < 0 /\ v = maxBackoffInterval
             \/ w > 0 /\ v = IF 2 * w > maxBackoffInterval THEN maxBackoffInterval ELSE 2 * w
  <2>1. n \in Nat /\ n + 1 \in Nat
    OBVIOUS
  <2>2. w \in Int /\ (w = Spaced(n) \/ (n >= 33 /\ w < 0))
    BY <2>1, BackoffIsSpaced
  <2>3. v \in Int /\ (v = Spaced(n + 1) \/ (n + 1 >= 33 /\ v < 0))
    BY <2>1, BackoffIsSpaced
  <2>4. Spaced(n) > 0 /\ Spaced(n + 1) = IF 2 * Spaced(n) > 60 THEN 60 ELSE 2 * Spaced(n)
    BY <2>1 DEF Spaced
  <2>5. n >= 33 => Spaced(n + 1) = 60
    BY <2>1 DEF Spaced
  <2> QED BY <2>1, <2>2, <2>3, <2>4, <2>5 DEF maxBackoffInterval
<1>3. RetryInit => retryCount \in Nat
  BY RetryAssumption DEF RetryInit
<1>4. retryCount \in Nat => BackoffDoubles
  BY <1>1, <1>2 DEF BackoffDoubles
<1>5. retryCount \in Nat /\ [FALSE]_retryCount => (retryCount \in Nat)'
  OBVIOUS
<1> QED BY <1>3, <1>4, <1>5, PTL DEF RetrySpec
===============================================================================
