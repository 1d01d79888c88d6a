--------------------------- MODULE DeploymentProofs ---------------------------
(***************************************************************************)
(* Proofs about Deployment, for any finite set of nodes and any sets of    *)
(* controllers and models: what several controllers that work from stale   *)
(* lists do to a deployment, how they judge it, and that together they act *)
(* as one controller that keeps no lists.                                  *)
(***************************************************************************)
EXTENDS DeploymentRefinement, FiniteSetTheorems, SequenceTheorems, TLAPS

Status == [phase : Phases, desired : Nat, ready : Nat, failed : Nat]
Counts == [ready : Nat, failed : Nat]
Work == [todo : SUBSET Deployments, current : Deployments \cup {NULL}, nodes : SUBSET Nodes,
         counts : Counts \cup {NULL}]

DepTypes ==
    /\ created \in 0 .. MaxDeployments
    /\ dep \in [Deployments -> Status]
    /\ online \subseteq Nodes
    /\ runtime \in [Nodes -> [Models -> RuntimeStates]]
    /\ work \in [Controllers -> Work]
    /\ dispatches \in [Deployments -> Seq(SUBSET Nodes)]
    /\ resets \in [Deployments -> Nat]
    /\ updates \in Nat

-------------------------------------------------------------------------------
(* What a transaction of the controller writes *)

\* The counts of nodes are numbers.
LEMMA CountType ==
  ASSUME NEW m, NEW state
  PROVE  CountRuntimeStates(m, state) \in Nat
<1>1. {n \in Nodes : runtime[n][m] = state} \in SUBSET Nodes
  OBVIOUS
<1> QED BY <1>1, DeploymentAssumption, FS_Subset, FS_CardinalityType DEF CountRuntimeStates

\* What a transaction counted.
LEMMA CountsType ==
  ASSUME NEW m
  PROVE  RuntimeCounts(m) \in Counts /\ NotCounted \in Counts
<1>1. CountRuntimeStates(m, "Running") \in Nat /\ CountRuntimeStates(m, "Failed") \in Nat
  BY CountType
<1> QED BY <1>1 DEF RuntimeCounts, NotCounted, Counts

\* The first half of the transaction: a dispatch starts a rollout, or the row is left alone.
LEMMA DispatchedIs ==
  ASSUME NEW st \in Status, NEW nodes \in SUBSET Nodes
  PROVE  /\ Dispatched(st, nodes) \in Status
         /\ \/ Dispatched(st, nodes) = st /\ (st.phase # "Pending" \/ nodes = {})
            \/ /\ st.phase = "Pending" /\ Dispatched(st, nodes) # st
               /\ Dispatched(st, nodes).phase = "RollingOut"
               /\ Dispatched(st, nodes).desired = Cardinality(nodes)
<1>1. Cardinality(nodes) \in Nat
  BY DeploymentAssumption, FS_Subset, FS_CardinalityType
<1> DEFINE started == [st EXCEPT !.phase = "RollingOut", !.desired = Cardinality(nodes)]
<1>2. started \in Status /\ started.phase = "RollingOut" /\ started.desired = Cardinality(nodes)
  BY <1>1 DEF Status, Phases
<1> QED BY <1>2 DEF Dispatched

\* The second half: a rollout is judged by its counts, any other row is left alone.
LEMMA AggregatedIs ==
  ASSUME NEW st \in Status, NEW counts \in Counts
  PROVE  /\ st.phase # "RollingOut" => Aggregated(st, counts) = st
         /\ st.phase = "RollingOut" =>
              \E ready, failed \in Nat, phase \in {"Active", "Failed", "RollingOut"} :
                 /\ Aggregated(st, counts) = [st EXCEPT !.ready = ready, !.failed = failed, !.phase = phase]
                 /\ phase = IF ready >= st.desired THEN "Active"
                            ELSE IF failed > 0 /\ ready + failed >= st.desired THEN "Failed"
                            ELSE "RollingOut"
<1>1. PICK ready \in Nat, failed \in Nat : counts.ready = ready /\ counts.failed = failed
  BY DEF Counts
<1> DEFINE phase == IF ready >= st.desired THEN "Active"
                    ELSE IF failed > 0 /\ ready + failed >= st.desired THEN "Failed"
                    ELSE "RollingOut"
<1>2. /\ st.phase # "RollingOut" => Aggregated(st, counts) = st
      /\ st.phase = "RollingOut" =>
            Aggregated(st, counts) = [st EXCEPT !.ready = ready, !.failed = failed, !.phase = phase]
  BY <1>1, Zenon DEF Aggregated
<1>3. phase \in {"Active", "Failed", "RollingOut"}
  OBVIOUS
<1> QED BY <1>2, <1>3, Zenon

\* A rollout stays a rollout or ends, and what was asked for stays what it was.
LEMMA AggregatedKeeps ==
  ASSUME NEW st \in Status, NEW counts \in Counts
  PROVE  /\ Aggregated(st, counts) \in Status
         /\ Aggregated(st, counts).desired = st.desired
         /\ (Aggregated(st, counts).phase = "Pending") = (st.phase = "Pending")
<1>1. CASE st.phase # "RollingOut"
  BY <1>1, AggregatedIs, Zenon
<1>2. CASE st.phase = "RollingOut"
  <2> DEFINE new == Aggregated(st, counts)
  <2>1. PICK ready \in Nat, failed \in Nat, phase \in {"Active", "Failed", "RollingOut"} :
          /\ new = [st EXCEPT !.ready = ready, !.failed = failed, !.phase = phase]
          /\ phase = IF ready >= st.desired THEN "Active"
                     ELSE IF failed > 0 /\ ready + failed >= st.desired THEN "Failed"
                     ELSE "RollingOut"
    BY <1>2, AggregatedIs, ZenonT(30)
  <2> HIDE DEF new
  <2>2. phase \in Phases /\ phase # "Pending"
    BY DEF Phases
  <2>3. new \in Status /\ new.desired = st.desired /\ new.phase = phase
    BY <2>1, <2>2 DEF Status
  <2>4. new.phase # "Pending" /\ st.phase # "Pending"
    BY <1>2, <2>2, <2>3
  <2> QED BY <2>3, <2>4 DEF new
<1> QED BY <1>1, <1>2, ZenonT(30)

\* The judgement is the one RolloutChecker would suggest, and its batches fit.
LEMMA JudgedAsSuggested ==
  ASSUME NEW st \in Status, st.phase = "RollingOut", NEW counts \in Counts, NEW asked \in Int
  PROVE  LET new == Aggregated(st, counts)
             batch == CanProceed(new, asked)
         IN  /\ new.phase = SuggestPhase(new)
             /\ IsComplete(new) <=> new.phase \in {"Active", "Failed"}
             /\ batch > 0 => ~IsComplete(new) /\ Unavailable(new) + batch <= MaxUnavailable(asked)
<1> DEFINE new == Aggregated(st, counts)
<1>1. PICK ready \in Nat, failed \in Nat, phase \in {"Active", "Failed", "RollingOut"} :
          /\ new = [st EXCEPT !.ready = ready, !.failed = failed, !.phase = phase]
          /\ phase = IF ready >= st.desired THEN "Active"
                     ELSE IF failed > 0 /\ ready + failed >= st.desired THEN "Failed"
                     ELSE "RollingOut"
  BY AggregatedIs, ZenonT(30)
<1>2. PICK desired \in Nat : /\ st.desired = desired /\ new.desired = desired
                             /\ new.ready = ready /\ new.failed = failed /\ new.phase = phase
  <2> HIDE DEF new
  <2>1. /\ new.desired = st.desired
        /\ new.ready = ready /\ new.failed = failed /\ new.phase = phase
    BY <1>1 DEF Status
  <2>2. st.desired \in Nat
    BY DEF Status
  <2> QED BY <2>1, <2>2
<1> HIDE DEF new
<1>3. phase = IF ready >= desired THEN "Active"
              ELSE IF failed > 0 /\ ready + failed >= desired THEN "Failed"
              ELSE "RollingOut"
  BY <1>1, <1>2
<1>4. new.phase = SuggestPhase(new)
  BY <1>2, <1>3 DEF SuggestPhase, IsComplete
<1>5. IsComplete(new) <=> new.phase \in {"Active", "Failed"}
  BY <1>2, <1>3 DEF IsComplete
<1>6. CanProceed(new, asked) > 0 =>
         ~IsComplete(new) /\ Unavailable(new) + CanProceed(new, asked) <= MaxUnavailable(asked)
  BY <1>2 DEF CanProceed, IsComplete, Unavailable, MaxUnavailable, Least, AtLeastZero
<1> QED BY <1>4, <1>5, <1>6 DEF new

-------------------------------------------------------------------------------
(* The inductive invariant *)

\* The transaction of reconcileOne on the row it re-read: Sent is what the dispatch
\* leaves, and tasks were created exactly if the row was Pending.
LEMMA ReconcileIs ==
  ASSUME DepTypes, NEW c \in Controllers, ReconcileOne(c)
  PROVE  \E d \in Deployments, counts \in Counts, sent \in Status, new \in Status :
           /\ sent = Dispatched(dep[d], work[c].nodes)
           /\ new = Aggregated(sent, counts)
           /\ dep' = [dep EXCEPT ![d] = new]
           /\ \/ sent = dep[d] /\ UNCHANGED dispatches
              \/ /\ dep[d].phase = "Pending" /\ sent.phase = "RollingOut"
                 /\ sent.desired = Cardinality(work[c].nodes)
                 /\ dispatches' = [dispatches EXCEPT ![d] = Append(@, work[c].nodes)]
           /\ UNCHANGED <<resets, updates>>
<1> DEFINE d == work[c].current
           sent == Dispatched(dep[d], work[c].nodes)
           new == Aggregated(sent, work[c].counts)
<1>1. work[c] \in Work
  BY DEF DepTypes
<1>2. d \in Deployments /\ work[c].nodes \in SUBSET Nodes /\ work[c].counts \in Counts
  BY <1>1 DEF Work, ReconcileOne
<1>3. dep[d] \in Status
  BY <1>2 DEF DepTypes
<1>4. /\ sent \in Status
      /\ \/ sent = dep[d]
         \/ /\ dep[d].phase = "Pending" /\ sent # dep[d]
            /\ sent.phase = "RollingOut" /\ sent.desired = Cardinality(work[c].nodes)
  BY <1>2, <1>3, DispatchedIs
<1>5. new \in Status
  BY <1>2, <1>4, AggregatedKeeps
<1>6. /\ dep' = [dep EXCEPT ![d] = new]
      /\ dispatches' = IF sent = dep[d] THEN dispatches
                       ELSE [dispatches EXCEPT ![d] = Append(@, work[c].nodes)]
      /\ UNCHANGED <<resets, updates>>
  BY DEF ReconcileOne, UpdateDeploymentStatus, GetDeploymentForUpdate
<1> HIDE DEF sent, new
<1>7. sent = Dispatched(dep[d], work[c].nodes) /\ new = Aggregated(sent, work[c].counts)
  BY DEF sent, new
<1> QED BY <1>2, <1>4, <1>5, <1>6, <1>7

\* The deployment tables start well typed.
LEMMA DepTypesInit == DepInit => DepTypes
BY DeploymentAssumption
   DEF DepInit, DepTypes, NewStatus, Status, Phases, Work, Idle, RuntimeStates

\* Every handler, heartbeat and reconcile step keeps the types.
LEMMA DepTypesStep == DepTypes /\ [DepNext]_depVars => DepTypes'
<1> SUFFICES ASSUME DepTypes, [DepNext]_depVars PROVE DepTypes'
  OBVIOUS
<1>1. CASE CreateDeployment
  BY <1>1, DeploymentAssumption DEF DepTypes, CreateDeployment
<1>2. ASSUME NEW d \in Deployments, NEW phase \in Phases, UpdateDeployment(d, phase)
      PROVE  DepTypes'
  <2>1. [dep[d] EXCEPT !.phase = phase] \in Status
    BY DEF DepTypes, Status
  <2>2. dep' \in [Deployments -> Status]
    BY <1>2, <2>1 DEF UpdateDeployment, UpdateDeploymentStatus, GetDeploymentForUpdate, DepTypes
  <2>3. resets' \in [Deployments -> Nat] /\ updates' \in Nat
    BY <1>2 DEF UpdateDeployment, DepTypes
  <2> QED BY <1>2, <2>2, <2>3 DEF UpdateDeployment, DepTypes
<1>3. ASSUME NEW n \in Nodes, ReportHeartbeat(n)
      PROVE  DepTypes'
  BY <1>3 DEF ReportHeartbeat, DepTypes
<1>4. ASSUME NEW n \in Nodes, NEW m \in Models, NEW state \in RuntimeStates,
             ReportRuntimeState(n, m, state)
      PROVE  DepTypes'
  BY <1>4 DEF ReportRuntimeState, DepTypes
<1>5. ASSUME NEW c \in Controllers, List(c)
      PROVE  DepTypes'
  <2>1. work[c] \in Work /\ 1 .. created \subseteq Deployments
    BY DeploymentAssumption DEF DepTypes, Deployments
  <2>2. PICK open \in SUBSET Deployments : work' = [work EXCEPT ![c].todo = open]
    BY <1>5, <2>1 DEF List
  <2>3. [work[c] EXCEPT !.todo = open] \in Work
    BY <2>1 DEF Work
  <2> QED BY <1>5, <2>2, <2>3 DEF List, DepTypes
<1>6. ASSUME NEW c \in Controllers, ListNodes(c)
      PROVE  DepTypes'
  <2>1. work[c] \in Work
    BY DEF DepTypes
  <2>2. PICK d \in work[c].todo :
            work' = [work EXCEPT ![c] = [todo |-> @.todo \ {d}, current |-> d,
                                         nodes |-> Target[d] \cap online, counts |-> NULL]]
    BY <1>6 DEF ListNodes
  <2>3. [todo |-> work[c].todo \ {d}, current |-> d, nodes |-> Target[d] \cap online, counts |-> NULL] \in Work
    BY <2>1, DeploymentAssumption DEF Work
  <2>4. work' \in [Controllers -> Work]
    BY <2>2, <2>3 DEF DepTypes
  <2> QED BY <1>6, <2>4 DEF ListNodes, DepTypes
<1>7. ASSUME NEW c \in Controllers, work' = [work EXCEPT ![c] = Released(@)]
      PROVE  work' \in [Controllers -> Work]
  <2>1. Released(work[c]) \in Work
    BY DEF DepTypes, Work, Released
  <2> QED BY <1>7, <2>1 DEF DepTypes
<1>8. ASSUME NEW c \in Controllers, ReconcileOne(c)
      PROVE  DepTypes'
  <2>1. PICK d \in Deployments, new \in Status :
           /\ dep' = [dep EXCEPT ![d] = new]
           /\ \/ UNCHANGED dispatches
              \/ dispatches' = [dispatches EXCEPT ![d] = Append(@, work[c].nodes)]
    BY <1>8, ReconcileIs
  <2>2. work[c].nodes \in SUBSET Nodes
    BY DEF DepTypes, Work
  <2>5. Append(dispatches[d], work[c].nodes) \in Seq(SUBSET Nodes)
    BY <2>2, AppendProperties DEF DepTypes
  <2>3. dispatches' \in [Deployments -> Seq(SUBSET Nodes)]
    BY <2>1, <2>5 DEF DepTypes
  <2>4. work' \in [Controllers -> Work]
    BY <1>7, <1>8 DEF ReconcileOne
  <2> QED BY <1>8, <2>1, <2>3, <2>4 DEF ReconcileOne, DepTypes
<1>9. ASSUME NEW c \in Controllers, ReconcileFails(c)
      PROVE  DepTypes'
  BY <1>7, <1>9 DEF ReconcileFails, DepTypes
<1>10. ASSUME NEW c \in Controllers, ReconcileCounts(c)
       PROVE  DepTypes'
  <2>1. PICK counts \in Counts : work' = [work EXCEPT ![c].counts = counts]
    BY <1>10, CountsType, Zenon DEF ReconcileCounts
  <2>2. [work[c] EXCEPT !.counts = counts] \in Work
    BY DEF DepTypes, Work
  <2> QED BY <1>10, <2>1, <2>2 DEF ReconcileCounts, DepTypes
<1>11. CASE UNCHANGED depVars
  BY <1>11 DEF depVars, DepTypes
<1> QED BY <1>1, <1>2, <1>3, <1>4, <1>5, <1>6, <1>8, <1>9, <1>10, <1>11 DEF DepNext

\* All other steps leave the rows, the tasks and the resets alone.
LEMMA OnlyTwoWrite ==
  ASSUME [DepNext]_depVars
  PROVE  \/ UNCHANGED <<dep, dispatches, resets>>
         \/ \E d \in Deployments, phase \in Phases : UpdateDeployment(d, phase)
         \/ \E c \in Controllers : ReconcileOne(c)
BY DEF DepNext, depVars, CreateDeployment, ReportHeartbeat, ReportRuntimeState, List,
       ListNodes, ReconcileCounts, ReconcileFails

\* DispatchedOncePerPending for one deployment.
Once(d) == Len(dispatches[d]) + (IF dep[d].phase = "Pending" THEN 1 ELSE 0) <= 1 + resets[d]
AsSent(d) == dep[d].desired = Cardinality(LastDispatch(d))

\* What Once says, without its conditional term.
LEMMA OnceCases ==
  ASSUME NEW d \in Deployments, Once(d), Len(dispatches[d]) \in Nat, resets[d] \in Nat
  PROVE  /\ Len(dispatches[d]) <= resets[d] + 1
         /\ dep[d].phase = "Pending" => Len(dispatches[d]) <= resets[d]
<1>1. CASE dep[d].phase = "Pending"
  <2>1. Len(dispatches[d]) + 1 <= 1 + resets[d]
    BY <1>1, Zenon DEF Once
  <2> QED BY <2>1
<1>2. CASE dep[d].phase # "Pending"
  <2>1. Len(dispatches[d]) + 0 <= 1 + resets[d]
    BY <1>2, Zenon DEF Once
  <2> QED BY <1>2, <2>1
<1> QED BY <1>1, <1>2

\* UpdateDeployment keeps the count: a reset to Pending is counted as one.
LEMMA UpdateKeeps ==
  ASSUME DepTypes, NEW d \in Deployments, NEW phase \in Phases, UpdateDeployment(d, phase),
         NEW e \in Deployments, Once(e), AsSent(e)
  PROVE  Once(e)' /\ AsSent(e)'
<1>1. /\ dep' = [dep EXCEPT ![d] = [dep[d] EXCEPT !.phase = phase]]
      /\ UNCHANGED dispatches
      /\ resets' = IF phase = "Pending" THEN [resets EXCEPT ![d] = @ + 1] ELSE resets
  BY DEF UpdateDeployment, UpdateDeploymentStatus, GetDeploymentForUpdate
<1>2. dep[d] \in Status /\ dep[e] \in Status /\ resets[e] \in Nat /\ Len(dispatches[e]) \in Nat
  BY DEF DepTypes
<1>3. dep'[e].desired = dep[e].desired /\ LastDispatch(e)' = LastDispatch(e)
  BY <1>1, <1>2 DEF DepTypes, Status, LastDispatch
<1>4. \/ e = d /\ dep'[e].phase = phase
      \/ e # d /\ dep'[e].phase = dep[e].phase
  BY <1>1, <1>2 DEF DepTypes, Status
<1>5. resets'[e] = IF e = d /\ phase = "Pending" THEN resets[e] + 1 ELSE resets[e]
  BY <1>1 DEF DepTypes
<1>6. Once(e)'
  <2>1. Len(dispatches'[e]) = Len(dispatches[e])
    BY <1>1
  <2>2. Len(dispatches[e]) <= resets[e] + 1
    BY <1>2, OnceCases
  <2>3. CASE e = d /\ phase = "Pending"
    <3>1. dep'[e].phase = "Pending" /\ resets'[e] = resets[e] + 1
      BY <1>4, <1>5, <2>3
    <3>2. Len(dispatches'[e]) + 1 <= 1 + resets'[e]
      BY <1>2, <2>1, <2>2, <3>1
    <3> QED BY <3>1, <3>2, Zenon DEF Once
  <2>4. CASE e = d /\ phase # "Pending"
    <3>1. dep'[e].phase # "Pending" /\ resets'[e] = resets[e]
      BY <1>4, <1>5, <2>4
    <3>2. Len(dispatches'[e]) + 0 <= 1 + resets'[e]
      BY <1>2, <2>1, <2>2, <3>1
    <3> QED BY <3>1, <3>2, Zenon DEF Once
  <2>5. CASE e # d
    <3>1. dep'[e].phase = dep[e].phase /\ resets'[e] = resets[e]
      BY <1>4, <1>5, <2>5
    <3> QED BY <2>1, <3>1, Zenon DEF Once
  <2> QED BY <2>3, <2>4, <2>5
<1> QED BY <1>3, <1>6 DEF AsSent

\* A controller dispatches only what it reads as Pending in its transaction.
LEMMA ReconcileKeeps ==
  ASSUME DepTypes, NEW c \in Controllers, ReconcileOne(c),
         NEW e \in Deployments, Once(e), AsSent(e)
  PROVE  Once(e)' /\ AsSent(e)'
<1>1. PICK d \in Deployments, counts \in Counts, sent \in Status, new \in Status :
           /\ sent = Dispatched(dep[d], work[c].nodes)
           /\ new = Aggregated(sent, counts)
           /\ dep' = [dep EXCEPT ![d] = new]
           /\ \/ sent = dep[d] /\ UNCHANGED dispatches
              \/ /\ dep[d].phase = "Pending" /\ sent.phase = "RollingOut"
                 /\ sent.desired = Cardinality(work[c].nodes)
                 /\ dispatches' = [dispatches EXCEPT ![d] = Append(@, work[c].nodes)]
           /\ UNCHANGED <<resets, updates>>
  BY ReconcileIs
<1>2. new.desired = sent.desired /\ (new.phase = "Pending") = (sent.phase = "Pending")
  BY <1>1, AggregatedKeeps
<1>3. CASE e # d
  BY <1>1, <1>3 DEF DepTypes, Once, AsSent, LastDispatch
<1>4. CASE e = d /\ sent = dep[d] /\ UNCHANGED dispatches
  BY <1>1, <1>2, <1>4 DEF DepTypes, Once, AsSent, LastDispatch
<1>5. CASE /\ e = d /\ dep[d].phase = "Pending" /\ sent.phase = "RollingOut"
           /\ sent.desired = Cardinality(work[c].nodes)
           /\ dispatches' = [dispatches EXCEPT ![d] = Append(@, work[c].nodes)]
  <2>1. dispatches[d] \in Seq(SUBSET Nodes) /\ work[c].nodes \in SUBSET Nodes /\ resets[d] \in Nat
    BY DEF DepTypes, Work
  <2>2. dispatches'[d] = Append(dispatches[d], work[c].nodes) /\ dep'[d] = new /\ resets'[d] = resets[d]
    BY <1>1, <1>5 DEF DepTypes
  <2>3. Len(dispatches'[d]) = Len(dispatches[d]) + 1 /\ Len(dispatches[d]) \in Nat
    BY <2>1, <2>2, LenProperties, AppendProperties
  <2>4. dispatches'[d] # <<>> /\ dispatches'[d][Len(dispatches'[d])] = work[c].nodes
    <3>1. PICK q \in Seq(SUBSET Nodes), nodes \in SUBSET Nodes :
             q = dispatches[d] /\ nodes = work[c].nodes
      BY <2>1
    <3>2. Append(q, nodes) # <<>> /\ Append(q, nodes)[Len(q) + 1] = nodes
      BY AppendProperties
    <3> QED BY <2>2, <2>3, <3>1, <3>2
  <2>5. Once(d)'
    <3>1. dep'[d].phase # "Pending"
      BY <1>2, <1>5, <2>2
    <3>2. Len(dispatches[d]) + 1 <= 1 + resets[d]
      BY <1>5 DEF Once
    <3> QED BY <2>2, <2>3, <3>1, <3>2 DEF Once
  <2>6. AsSent(d)'
    BY <1>2, <1>5, <2>2, <2>4 DEF AsSent, LastDispatch
  <2> QED BY <1>5, <2>5, <2>6
<1> QED BY <1>1, <1>3, <1>4, <1>5

\* Nothing has been dispatched.
LEMMA RowsInit == DepInit => \A e \in Deployments : Once(e) /\ AsSent(e)
<1> SUFFICES ASSUME DepInit, NEW e \in Deployments PROVE Once(e) /\ AsSent(e)
  OBVIOUS
<1>1. dispatches[e] = <<>> /\ resets[e] = 0 /\ dep[e] = NewStatus
  BY DEF DepInit
<1>2. LastDispatch(e) = {} /\ Cardinality({}) = 0 /\ Len(dispatches[e]) = 0
  BY <1>1, FS_EmptySet DEF LastDispatch
<1>3. dep[e].phase = "Pending" /\ dep[e].desired = 0
  BY <1>1 DEF NewStatus
<1> QED BY <1>1, <1>2, <1>3 DEF Once, AsSent

\* Every step keeps both facts about every deployment.
LEMMA RowsStep ==
  ASSUME DepTypes, [DepNext]_depVars, \A e \in Deployments : Once(e) /\ AsSent(e)
  PROVE  \A e \in Deployments : Once(e)' /\ AsSent(e)'
<1>1. CASE UNCHANGED <<dep, dispatches, resets>>
  BY <1>1 DEF Once, AsSent, LastDispatch
<1> QED BY <1>1, OnlyTwoWrite, UpdateKeeps, ReconcileKeeps

\* A deployment's tasks are created once for its creation and at most once per reset to
\* Pending, for any number of controllers (reconcileOne re-reads the row under its lock).
THEOREM DispatchOnce == DepSpec => []DispatchedOncePerPending
<1> DEFINE Inv == DepTypes /\ \A e \in Deployments : Once(e) /\ AsSent(e)
<1>1. DepInit => Inv
  BY DepTypesInit, RowsInit
<1>2. Inv /\ [DepNext]_depVars => Inv'
  BY DepTypesStep, RowsStep
<1>3. Inv => DispatchedOncePerPending
  BY DEF DispatchedOncePerPending, Once
<1> QED BY <1>1, <1>2, <1>3, PTL DEF DepSpec

\* desired_nodes is the number of nodes the latest tasks were created for.
THEOREM DesiredMatchesTasks == DepSpec => []DesiredIsDispatched
<1> DEFINE Inv == DepTypes /\ \A e \in Deployments : Once(e) /\ AsSent(e)
<1>1. DepInit => Inv
  BY DepTypesInit, RowsInit
<1>2. Inv /\ [DepNext]_depVars => Inv'
  BY DepTypesStep, RowsStep
<1>3. Inv => DesiredIsDispatched
  BY DEF DesiredIsDispatched, AsSent
<1> QED BY <1>1, <1>2, <1>3, PTL DEF DepSpec

-------------------------------------------------------------------------------
(* Action properties *)

\* A user's update is counted; so without one, only a controller wrote.
LEMMA OnlyController ==
  ASSUME DepTypes, [DepNext]_depVars, updates' = updates
  PROVE  UNCHANGED <<dep, dispatches>> \/ \E c \in Controllers : ReconcileOne(c)
<1>1. ASSUME NEW d \in Deployments, NEW phase \in Phases, UpdateDeployment(d, phase)
      PROVE  FALSE
  <2>1. updates' = updates + 1 /\ updates \in Nat
    BY <1>1 DEF UpdateDeployment, DepTypes
  <2> QED BY <2>1
<1> QED BY <1>1, OnlyTwoWrite

\* A step that is no update leaves settled rows as they are.
LEMMA SettledStep ==
  ASSUME DepTypes, [DepNext]_depVars, updates' = updates,
         NEW e \in Deployments, dep[e].phase \in {"Paused", "Active", "Failed"}
  PROVE  dep'[e] = dep[e] /\ dispatches'[e] = dispatches[e]
<1>1. ASSUME NEW c \in Controllers, ReconcileOne(c)
      PROVE  dep'[e] = dep[e] /\ dispatches'[e] = dispatches[e]
  <2>1. PICK d \in Deployments, counts \in Counts, sent \in Status, new \in Status :
           /\ new = Aggregated(sent, counts)
           /\ dep' = [dep EXCEPT ![d] = new]
           /\ \/ sent = dep[d] /\ UNCHANGED dispatches
              \/ /\ dep[d].phase = "Pending"
                 /\ dispatches' = [dispatches EXCEPT ![d] = Append(@, work[c].nodes)]
    BY <1>1, ReconcileIs
  <2>2. CASE d # e
    BY <2>1, <2>2 DEF DepTypes
  <2>3. CASE d = e
    <3>1. sent = dep[e] /\ UNCHANGED dispatches /\ sent.phase # "RollingOut"
      BY <2>1, <2>3
    <3>2. new = dep[e]
      <4>1. Aggregated(sent, counts) = sent
        BY <3>1, AggregatedIs, Zenon
      <4> QED BY <2>1, <3>1, <4>1
    <3> QED BY <2>1, <2>3, <3>1, <3>2 DEF DepTypes
  <2> QED BY <2>2, <2>3
<1> QED BY <1>1, OnlyController

\* A paused or judged deployment is moved on by users only, whatever lists the
\* controllers still hold.
THEOREM SettledIsLeftAlone == DepSpec => SettledUntouched
<1>1. DepTypes /\ [DepNext]_depVars =>
        [\A d \in Deployments :
          (dep[d].phase \in {"Paused", "Active", "Failed"} /\ updates' = updates) =>
              dep'[d] = dep[d] /\ dispatches'[d] = dispatches[d]]_depVars
  BY SettledStep
<1> QED BY <1>1, DepTypesInit, DepTypesStep, PTL DEF DepSpec, SettledUntouched

\* A row that a controller writes is judged as RolloutChecker would.
LEMMA JudgedStep ==
  ASSUME DepTypes, [DepNext]_depVars, updates' = updates,
         NEW e \in Deployments, dep'[e] # dep[e]
  PROVE  /\ dep'[e].phase = SuggestPhase(dep'[e])
         /\ IsComplete(dep'[e]) <=> dep'[e].phase \in {"Active", "Failed"}
         /\ \A asked \in -1 .. Cardinality(Nodes) + 1 :
               LET batch == CanProceed(dep'[e], asked)
               IN  batch > 0 => /\ ~ IsComplete(dep'[e])
                                /\ Unavailable(dep'[e]) + batch <= MaxUnavailable(asked)
<1>1. PICK c \in Controllers : ReconcileOne(c)
  BY OnlyController
<1>2. PICK d \in Deployments, counts \in Counts, sent \in Status, new \in Status :
           /\ new = Aggregated(sent, counts)
           /\ dep' = [dep EXCEPT ![d] = new]
           /\ sent = dep[d] \/ sent.phase = "RollingOut"
  BY <1>1, ReconcileIs
<1>3. d = e /\ dep'[e] = new
  BY <1>2 DEF DepTypes
<1>4. sent.phase = "RollingOut"
  <2>1. sent.phase # "RollingOut" => Aggregated(sent, counts) = sent
    BY AggregatedIs, Zenon
  <2> QED BY <1>2, <1>3, <2>1
<1>5. ASSUME NEW asked \in Int
      PROVE  LET batch == CanProceed(new, asked)
             IN  /\ new.phase = SuggestPhase(new)
                 /\ IsComplete(new) <=> new.phase \in {"Active", "Failed"}
                 /\ batch > 0 => /\ ~IsComplete(new)
                                 /\ Unavailable(new) + batch <= MaxUnavailable(asked)
  BY <1>2, <1>4, JudgedAsSuggested
<1>6. /\ new.phase = SuggestPhase(new)
      /\ IsComplete(new) <=> new.phase \in {"Active", "Failed"}
  BY <1>5
<1>7. \A asked \in -1 .. Cardinality(Nodes) + 1 : asked \in Int
  OBVIOUS
<1> QED BY <1>3, <1>5, <1>6, <1>7

\* Every judgement a controller writes is the one RolloutChecker would suggest, and the
\* batch the checker would allow keeps within max_unavailable.
THEOREM JudgementsAgree == DepSpec => RolloutJudged
<1>1. DepTypes /\ [DepNext]_depVars =>
        [\A d \in Deployments :
          (dep'[d] # dep[d] /\ updates' = updates) =>
              /\ dep'[d].phase = SuggestPhase(dep'[d])
              /\ IsComplete(dep'[d]) <=> dep'[d].phase \in {"Active", "Failed"}
              /\ \A asked \in -1 .. Cardinality(Nodes) + 1 :
                    LET batch == CanProceed(dep'[d], asked)
                    IN  batch > 0 => /\ ~ IsComplete(dep'[d])
                                     /\ Unavailable(dep'[d]) + batch <= MaxUnavailable(asked)]_depVars
  BY JudgedStep
<1> QED BY <1>1, DepTypesInit, DepTypesStep, PTL DEF DepSpec, RolloutJudged

-------------------------------------------------------------------------------
(* The controllers act as one *)

\* A controller's lists hold only deployments that exist, what it read for the one it
\* works on was selected and online then, which nodes stay, no row is written before
\* its creation, and one controller at a time has a row locked.
Holds(c) == work[c].current # NULL /\ work[c].counts # NULL
OneHolder == \A b, c \in Controllers :
                Holds(b) /\ Holds(c) /\ work[b].current = work[c].current => b = c

ListsHold ==
    /\ OneHolder
    /\ \A d \in Deployments : d > created => dep[d].phase = "Pending"
    /\ \A c \in Controllers :
        /\ \A d \in work[c].todo : d <= created
        /\ work[c].current # NULL =>
              work[c].current <= created /\ work[c].nodes \subseteq Target[work[c].current] \cap online

\* The lists are empty at first.
LEMMA ListsInit == DepInit => ListsHold
BY DEF DepInit, ListsHold, OneHolder, Holds, NewStatus, Idle

\* The deployment a controller works on exists.
LEMMA CurrentExists ==
  ASSUME DepTypes, ListsHold, NEW c \in Controllers, work[c].current # NULL
  PROVE  work[c].current \in Deployments /\ ~(work[c].current > created)
<1>1. work[c] \in Work /\ work[c].current <= created /\ created \in Nat
  BY DeploymentAssumption DEF DepTypes, ListsHold
<1>2. work[c].current \in Deployments
  BY <1>1 DEF Work
<1>3. work[c].current \in Nat
  BY <1>2, DeploymentAssumption DEF Deployments
<1> QED BY <1>1, <1>2, <1>3

\* Only a controller that finds the row free locks it.
LEMMA OneHolderStep ==
  ASSUME DepTypes, OneHolder, [DepNext]_depVars
  PROVE  OneHolder'
<1>1. CASE work' = work
  BY <1>1 DEF OneHolder, Holds
<1>2. ASSUME NEW c \in Controllers, NEW w \in Work, work' = [work EXCEPT ![c] = w],
             \/ w.current = NULL \/ w.counts = NULL
             \/ w.current = work[c].current /\ ~Locked(w.current)
      PROVE  OneHolder'
  <2>1. work'[c] = w /\ \A b \in Controllers \ {c} : work'[b] = work[b]
    BY <1>2 DEF DepTypes
  <2>2. ASSUME NEW b \in Controllers \ {c}, w.current # NULL, w.counts # NULL, Holds(b)
        PROVE  work[b].current # w.current
    BY <1>2, <2>2 DEF Locked, Holds
  <2> QED BY <2>1, <2>2 DEF OneHolder, Holds
<1>3. ASSUME NEW c \in Controllers, List(c) PROVE OneHolder'
  <2> DEFINE open == {d \in 1 .. created : dep[d].phase \in {"Pending", "RollingOut"}}
             w == [work[c] EXCEPT !.todo = open]
  <2>1. work[c] = Idle /\ work' = [work EXCEPT ![c] = w]
    BY <1>3 DEF List
  <2>2. work' \in [Controllers -> Work]
    BY DepTypesStep DEF DepTypes
  <2>3. w.current = NULL /\ work'[c] = w
    BY <2>1 DEF Idle, DepTypes
  <2>4. w \in Work
    BY <2>2, <2>3
  <2> HIDE DEF w
  <2> QED BY <1>2, <2>1, <2>3, <2>4
<1>4. ASSUME NEW c \in Controllers, ListNodes(c) PROVE OneHolder'
  <2>1. PICK w : work' = [work EXCEPT ![c] = w] /\ w.counts = NULL
    <3>1. PICK d \in work[c].todo :
             work' = [work EXCEPT ![c] = [todo |-> work[c].todo \ {d}, current |-> d,
                                          nodes |-> Target[d] \cap online, counts |-> NULL]]
      BY <1>4 DEF ListNodes
    <3> DEFINE w == [todo |-> work[c].todo \ {d}, current |-> d,
                     nodes |-> Target[d] \cap online, counts |-> NULL]
    <3>2. work' = [work EXCEPT ![c] = w] /\ w.counts = NULL
      BY <3>1
    <3> HIDE DEF w
    <3> QED BY <3>2
  <2>2. work' \in [Controllers -> Work] /\ work'[c] = w
    BY <2>1, DepTypesStep DEF DepTypes
  <2> QED BY <1>2, <2>1, <2>2
<1>5. ASSUME NEW c \in Controllers, ReconcileOne(c) \/ ReconcileFails(c) PROVE OneHolder'
  <2> DEFINE w == Released(work[c])
  <2>1. work' = [work EXCEPT ![c] = w]
    BY <1>5 DEF ReconcileOne, ReconcileFails
  <2>2. work' \in [Controllers -> Work] /\ work'[c] = w
    BY <2>1, DepTypesStep DEF DepTypes
  <2>3. w.current = NULL
    BY DEF Released, DepTypes, Work
  <2> HIDE DEF w
  <2> QED BY <1>2, <2>1, <2>2, <2>3
<1>6. ASSUME NEW c \in Controllers, ReconcileCounts(c) PROVE OneHolder'
  <2>1. PICK counts : work' = [work EXCEPT ![c].counts = counts]
    BY <1>6 DEF ReconcileCounts
  <2> DEFINE w == [work[c] EXCEPT !.counts = counts]
  <2>2. work' = [work EXCEPT ![c] = w]
    BY <2>1
  <2>3. work' \in [Controllers -> Work] /\ work'[c] = w
    BY <2>2, DepTypesStep DEF DepTypes
  <2>4. w.current = work[c].current
    BY DEF DepTypes, Work
  <2>5. ~Locked(w.current)
    BY <1>6, <2>4 DEF ReconcileCounts
  <2> HIDE DEF w
  <2> QED BY <1>2, <2>2, <2>3, <2>4, <2>5
<1> QED BY <1>1, <1>3, <1>4, <1>5, <1>6
        DEF DepNext, depVars, CreateDeployment, UpdateDeployment, ReportHeartbeat, ReportRuntimeState

\* What the lists hold stays true: rows are not removed and nodes stay online.
LEMMA ListsStep ==
  ASSUME DepTypes, ListsHold, [DepNext]_depVars
  PROVE  ListsHold'
<1>0. OneHolder'
  BY OneHolderStep DEF ListsHold
<1>1. created \in Nat /\ \A d \in Deployments : d \in Nat
  BY DeploymentAssumption DEF DepTypes, Deployments
<1>2. ASSUME NEW c \in Controllers,
             work' = [work EXCEPT ![c] = Released(@)], created' = created,
             online' = online
      PROVE  \A b \in Controllers :
                /\ \A d \in work'[b].todo : d <= created'
                /\ work'[b].current # NULL =>
                      work'[b].current <= created' /\ work'[b].nodes \subseteq Target[work'[b].current] \cap online'
  <2> SUFFICES ASSUME NEW b \in Controllers
               PROVE  /\ \A d \in work'[b].todo : d <= created'
                      /\ work'[b].current # NULL =>
                            /\ work'[b].current <= created'
                            /\ work'[b].nodes \subseteq Target[work'[b].current] \cap online'
    OBVIOUS
  <2>1. work[c] \in Work
    BY DEF DepTypes
  <2>2. CASE b = c
    <3>1. work'[b].todo = work[b].todo /\ work'[b].current = NULL
      BY <1>2, <2>1, <2>2 DEF DepTypes, Work, Released
    <3> QED BY <1>2, <3>1 DEF ListsHold
  <2>3. CASE b # c
    <3>1. work'[b] = work[b]
      BY <1>2, <2>3 DEF DepTypes
    <3> QED BY <1>2, <3>1 DEF ListsHold
  <2> QED BY <2>2, <2>3
<1>3. CASE CreateDeployment
  <2>1. created' = created + 1 /\ UNCHANGED <<dep, work, online>>
    BY <1>3 DEF CreateDeployment
  <2>2. \A d \in Deployments : d > created' => dep'[d].phase = "Pending"
    BY <1>1, <2>1 DEF ListsHold
  <2>3. ASSUME NEW c \in Controllers, NEW d \in work[c].todo \cup {work[c].current}, d # NULL, d <= created
        PROVE  d <= created'
    <3>1. d \in Nat
      BY <1>1, <2>3 DEF DepTypes, Work
    <3> QED BY <1>1, <2>1, <2>3, <3>1
  <2>4. \A c \in Controllers : \A d \in work[c].todo : d # NULL
    BY DeploymentAssumption DEF DepTypes, Work
  <2> QED BY <1>0, <2>1, <2>2, <2>3, <2>4 DEF ListsHold
<1>4. ASSUME NEW d \in Deployments, NEW phase \in Phases, UpdateDeployment(d, phase) PROVE ListsHold'
  <2>1. ~(d > created)
    BY <1>1, <1>4 DEF UpdateDeployment
  <2>2. \A e \in Deployments : e > created => dep'[e] = dep[e]
    BY <1>4, <2>1 DEF UpdateDeployment, UpdateDeploymentStatus, DepTypes
  <2> QED BY <1>0, <1>4, <2>2 DEF UpdateDeployment, ListsHold
<1>5. ASSUME NEW n \in Nodes, ReportHeartbeat(n) PROVE ListsHold'
  BY <1>0, <1>5 DEF ReportHeartbeat, ListsHold
<1>6. ASSUME NEW c \in Controllers, List(c) PROVE ListsHold'
  <2> DEFINE open == {d \in 1 .. created : dep[d].phase \in {"Pending", "RollingOut"}}
  <2>1. work' = [work EXCEPT ![c].todo = open] /\ UNCHANGED <<created, dep, online>>
    BY <1>6 DEF List
  <2>2. \A d \in open : d <= created
    BY <1>1
  <2> HIDE DEF open
  <2>3. ASSUME NEW b \in Controllers
        PROVE  /\ work'[b].todo = open \/ work'[b].todo = work[b].todo
               /\ work'[b].current = work[b].current /\ work'[b].nodes = work[b].nodes
    BY <2>1 DEF DepTypes, Work
  <2> QED BY <1>0, <2>1, <2>2, <2>3 DEF ListsHold
<1>7. ASSUME NEW c \in Controllers, ListNodes(c) PROVE ListsHold'
  <2>1. PICK d \in work[c].todo :
            work' = [work EXCEPT ![c] = [todo |-> @.todo \ {d}, current |-> d,
                                         nodes |-> Target[d] \cap online, counts |-> NULL]]
    BY <1>7 DEF ListNodes
  <2>2. UNCHANGED <<created, dep, online>> /\ d <= created
    BY <1>7 DEF ListNodes, ListsHold
  <2>3. ASSUME NEW b \in Controllers
        PROVE  /\ \A e \in work'[b].todo : e <= created
               /\ work'[b].current # NULL =>
                     work'[b].current <= created /\ work'[b].nodes \subseteq Target[work'[b].current] \cap online
    <3>1. CASE b = c
      <4>1. work'[b] = [todo |-> work[b].todo \ {d}, current |-> d, nodes |-> Target[d] \cap online, counts |-> NULL]
        BY <2>1, <3>1 DEF DepTypes
      <4> QED BY <2>2, <4>1 DEF ListsHold
    <3>2. CASE b # c
      <4>1. work'[b] = work[b]
        BY <2>1, <3>2 DEF DepTypes
      <4> QED BY <4>1 DEF ListsHold
    <3> QED BY <3>1, <3>2
  <2> QED BY <1>0, <2>2, <2>3 DEF ListsHold
<1>8. ASSUME NEW c \in Controllers, ReconcileOne(c) PROVE ListsHold'
  <2>1. work[c].current # NULL /\ UNCHANGED <<created, online>>
    BY <1>8 DEF ReconcileOne
  <2>2. \E st : dep' = [dep EXCEPT ![work[c].current] = st]
    BY <1>8 DEF ReconcileOne, UpdateDeploymentStatus
  <2>3. \A e \in Deployments : e > created => dep'[e] = dep[e]
    BY <2>1, <2>2, CurrentExists DEF DepTypes
  <2> QED BY <1>0, <1>2, <1>8, <2>1, <2>3 DEF ReconcileOne, ListsHold
<1>9. ASSUME NEW c \in Controllers, ReconcileFails(c) PROVE ListsHold'
  BY <1>0, <1>2, <1>9 DEF ReconcileFails, ListsHold
<1>10. ASSUME NEW c \in Controllers, ReconcileCounts(c) PROVE ListsHold'
  <2>1. PICK counts : work' = [work EXCEPT ![c].counts = counts]
    BY <1>10 DEF ReconcileCounts
  <2>2. UNCHANGED <<created, dep, online>>
    BY <1>10 DEF ReconcileCounts
  <2>3. ASSUME NEW b \in Controllers
        PROVE  /\ work'[b].todo = work[b].todo /\ work'[b].current = work[b].current
               /\ work'[b].nodes = work[b].nodes
    BY <2>1 DEF DepTypes, Work
  <2> QED BY <1>0, <2>2, <2>3 DEF ListsHold
<1>11. CASE UNCHANGED <<created, dep, online, work>>
  BY <1>0, <1>11 DEF ListsHold
<1> QED BY <1>3, <1>4, <1>5, <1>6, <1>7, <1>8, <1>9, <1>10, <1>11 DEF DepNext, depVars, ReportRuntimeState

\* Cardinality is the same in the instance.
LEMMA OneCounts == \A S : One!Cardinality(S) = Cardinality(S)
BY DEF One!Cardinality, Cardinality

\* The judgement of a transaction is that of the one controller over the nodes counted.
LEMMA JudgedOver ==
  ASSUME NEW st \in Status, st.phase = "RollingOut", NEW counts \in Counts,
         NEW nodes, st.desired = Cardinality(nodes)
  PROVE  Aggregated(st, counts).phase = One!Judged(counts, nodes)
<1> DEFINE judged == IF counts.ready >= st.desired THEN "Active"
                     ELSE IF counts.failed > 0 /\ counts.ready + counts.failed >= st.desired
                          THEN "Failed"
                     ELSE "RollingOut"
<1>1. Aggregated(st, counts).phase = judged
  <2>1. Aggregated(st, counts) =
            [st EXCEPT !.ready = counts.ready, !.failed = counts.failed, !.phase = judged]
    BY DEF Aggregated
  <2> HIDE DEF judged
  <2> QED BY <2>1 DEF Status
<1>2. One!Judged(counts, nodes) = judged
  <2>1. One!Cardinality(nodes) = st.desired
    BY OneCounts
  <2> QED BY <2>1, Zenon DEF One!Judged
<1> QED BY <1>1, <1>2

\* What the one controller sees.
SeenState == [d \in Deployments |-> [n \in Nodes |-> runtime[n][ModelOf[d]]]]
SeenPhase == [d \in Deployments |-> IF d > created THEN "absent" ELSE dep[d].phase]
SeenLook == [d \in Deployments |->
                {work[c].counts : c \in {b \in Controllers : Judging(b, d)}}]

\* The counts are those the one controller would look at.
LEMMA CountsSeen ==
  ASSUME NEW d \in Deployments
  PROVE  RuntimeCounts(ModelOf[d]) = [ready |-> One!Cardinality({n \in Nodes : SeenState[d][n] = "Running"}),
                                      failed |-> One!Cardinality({n \in Nodes : SeenState[d][n] = "Failed"})]
<1>1. ASSUME NEW s
      PROVE  {n \in Nodes : SeenState[d][n] = s} = {n \in Nodes : runtime[n][ModelOf[d]] = s}
  BY DEF SeenState
<1>2. \A s : One!Cardinality({n \in Nodes : SeenState[d][n] = s}) = CountRuntimeStates(ModelOf[d], s)
  BY <1>1, OneCounts DEF CountRuntimeStates
<1> QED BY <1>2 DEF RuntimeCounts

\* Rows and controllers that are left alone are looked at as before.
LEMMA LookKept ==
  ASSUME NEW d \in Deployments, dep'[d] = dep[d],
         \A c \in Controllers :
            (work[c].current = d \/ work'[c].current = d) =>
                \/ work'[c] = work[c]
                \/ work[c].counts = NULL /\ work'[c].counts = NULL
                \/ work[c].current # d /\ work'[c].counts = NULL
                \/ work'[c].current # d /\ work[c].counts = NULL
  PROVE  SeenLook'[d] = SeenLook[d]
<1>1. \A c \in Controllers : Judging(c, d)' <=> Judging(c, d)
  BY DEF Judging
<1>2. \A c \in Controllers : Judging(c, d) => work'[c].counts = work[c].counts
  BY DEF Judging
<1> QED BY <1>1, <1>2 DEF SeenLook

\* The row of the one holder, and no other, is looked at through it.
LEMMA LookOf ==
  ASSUME OneHolder, NEW c \in Controllers, Holds(c), NEW d \in Deployments, work[c].current = d
  PROVE  SeenLook[d] = IF Judging(c, d) THEN {work[c].counts} ELSE {}
<1>1. \A b \in Controllers : Judging(b, d) => b = c
  BY DeploymentAssumption DEF OneHolder, Holds, Judging
<1> QED BY <1>1 DEF SeenLook

\* A row that nobody has locked is not looked at.
LEMMA FreeNotLooked ==
  ASSUME NEW d \in Deployments, ~Locked(d)
  PROVE  SeenLook[d] = {}
BY DEF SeenLook, Judging, Locked

\* The transaction of reconcileOne dispatches or judges what it re-read, or changes nothing.
LEMMA MapsToReconcile ==
  ASSUME DepTypes, ListsHold, \A e \in Deployments : AsSent(e), NEW c \in Controllers, ReconcileOne(c)
  PROVE  One!OneNext \/ UNCHANGED One!oneVars
<1>1. PICK d \in Deployments, nodes \in SUBSET Nodes, counts \in Counts :
         /\ d = work[c].current /\ nodes = work[c].nodes /\ counts = work[c].counts
         /\ ~(d > created) /\ nodes \in SUBSET (Target[d] \cap online)
  <2>1. work[c].current # NULL /\ work[c].counts # NULL
    BY DEF ReconcileOne
  <2>2. work[c] \in Work
    BY DEF DepTypes
  <2> QED BY <2>1, <2>2, CurrentExists DEF ListsHold, Work
<1> DEFINE sent == Dispatched(dep[d], nodes)
           new == Aggregated(sent, counts)
<1>2. /\ dep' = [dep EXCEPT ![d] = new]
      /\ dispatches' = IF sent = dep[d] THEN dispatches
                       ELSE [dispatches EXCEPT ![d] = Append(@, nodes)]
      /\ UNCHANGED <<created, online, runtime>>
  BY <1>1 DEF ReconcileOne, UpdateDeploymentStatus, GetDeploymentForUpdate
<1>3. /\ dep[d] \in Status /\ sent \in Status
      /\ \/ sent = dep[d] /\ (dep[d].phase # "Pending" \/ nodes = {})
         \/ /\ dep[d].phase = "Pending" /\ sent # dep[d]
            /\ sent.phase = "RollingOut" /\ sent.desired = Cardinality(nodes)
  BY <1>1, DispatchedIs DEF DepTypes
<1>4. Judging(c, d) <=> sent.phase = "RollingOut"
  BY <1>1, DeploymentAssumption DEF Judging, ReconcileOne
<1> HIDE DEF sent
<1>5. SeenPhase' = [SeenPhase EXCEPT ![d] = new.phase] /\ SeenPhase[d] = dep[d].phase
  BY <1>1, <1>2 DEF SeenPhase, DepTypes
<1>6. SeenState' = SeenState
  BY <1>2 DEF SeenState
<1>7. SeenLook[d] = IF sent.phase = "RollingOut" THEN {counts} ELSE {}
  <2>1. OneHolder /\ Holds(c)
    BY DEF ListsHold, Holds, ReconcileOne
  <2> QED BY <1>1, <1>4, <2>1, LookOf
<1>8. SeenLook' = [SeenLook EXCEPT ![d] = {}]
  <2>1. work'[c].current = NULL /\ \A b \in Controllers \ {c} : work'[b] = work[b]
    <3>1. work' = [work EXCEPT ![c] = Released(@)]
      BY DEF ReconcileOne
    <3>2. Released(work[c]).current = NULL
      BY DEF Released, DepTypes, Work
    <3> QED BY <3>1, <3>2 DEF DepTypes
  <2>2. \A b \in Controllers : ~Judging(b, d)'
    <3>1. \A b \in Controllers \ {c} : ~(work[b].current = d /\ work[b].counts # NULL)
      BY <1>1, DeploymentAssumption DEF ListsHold, OneHolder, Holds, ReconcileOne
    <3> QED BY <2>1, <3>1, DeploymentAssumption DEF Judging
  <2>3. SeenLook'[d] = {}
    BY <2>2 DEF SeenLook
  <2>4. ASSUME NEW e \in Deployments \ {d}
        PROVE  SeenLook'[e] = SeenLook[e]
    <3>1. dep'[e] = dep[e]
      BY <1>2
    <3>2. \A b \in Controllers : work[b].current = e \/ work'[b].current = e => b # c
      BY <1>1, <2>1, DeploymentAssumption
    <3> QED BY <2>1, <3>1, <3>2, LookKept
  <2> QED BY <2>3, <2>4 DEF SeenLook
<1>9. CASE sent # dep[d]
  <2>1. nodes # {}
    BY <1>9 DEF sent, Dispatched
  <2>2. new.phase = One!Judged(counts, nodes)
    BY <1>1, <1>3, <1>9, JudgedOver
  <2> HIDE DEF new
  <2>3. One!Dispatch(d, nodes)
    <3>1. SeenLook[d] = {counts} /\ SeenPhase[d] = "Pending"
      BY <1>3, <1>5, <1>7, <1>9
    <3>2. \E seen \in SeenLook[d] : SeenPhase' = [SeenPhase EXCEPT ![d] = One!Judged(seen, nodes)]
      BY <1>5, <2>2, <3>1
    <3> QED BY <1>2, <1>6, <1>8, <1>9, <2>1, <3>1, <3>2
            DEF One!Dispatch, SeenPhase, SeenState, SeenLook
  <2> QED BY <1>1, <2>3, Zenon DEF One!OneNext
<1>10. CASE sent = dep[d] /\ sent.phase = "RollingOut"
  <2>1. sent.desired = Cardinality(One!Latest(d))
    BY <1>1, <1>10 DEF AsSent, LastDispatch, One!Latest
  <2>2. new.phase = One!Judged(counts, One!Latest(d))
    BY <1>1, <1>3, <1>10, <2>1, JudgedOver
  <2> HIDE DEF new
  <2>3. One!Judge(d)
    <3>1. SeenLook[d] = {counts} /\ SeenPhase[d] = "RollingOut"
      BY <1>5, <1>7, <1>10
    <3>2. \E seen \in SeenLook[d] :
             SeenPhase' = [SeenPhase EXCEPT ![d] = One!Judged(seen, One!Latest(d))]
      BY <1>5, <2>2, <3>1
    <3> QED BY <1>2, <1>6, <1>8, <1>10, <3>1, <3>2
            DEF One!Judge, SeenPhase, SeenState, SeenLook
  <2> QED BY <1>1, <2>3, Zenon DEF One!OneNext
<1>11. CASE sent = dep[d] /\ sent.phase # "RollingOut"
  <2>1. new = dep[d]
    BY <1>3, <1>11, AggregatedIs, Zenon
  <2> HIDE DEF new
  <2>2. dep' = dep
    BY <1>1, <1>2, <2>1 DEF DepTypes
  <2>3. SeenLook' = SeenLook
    BY <1>7, <1>8, <1>11 DEF SeenLook
  <2> QED BY <1>2, <1>6, <1>11, <2>2, <2>3 DEF One!oneVars, SeenState, SeenLook
<1> QED BY <1>9, <1>10, <1>11

\* Counting is looking; a row that is no rollout is not looked at.
LEMMA MapsToCounts ==
  ASSUME DepTypes, ListsHold, NEW c \in Controllers, ReconcileCounts(c)
  PROVE  One!OneNext \/ UNCHANGED One!oneVars
<1>1. PICK d \in Deployments : d = work[c].current /\ ~(d > created)
  BY CurrentExists DEF ReconcileCounts
<1> DEFINE rollout == Dispatched(dep[d], work[c].nodes).phase = "RollingOut"
           counts == IF rollout THEN RuntimeCounts(ModelOf[d]) ELSE NotCounted
<1>2. /\ ~Locked(d) /\ work[c].counts = NULL
      /\ work' = [work EXCEPT ![c].counts = counts]
      /\ UNCHANGED <<created, dep, online, runtime, dispatches>>
  BY <1>1 DEF ReconcileCounts, GetDeploymentForUpdate
<1>3. counts \in Counts /\ counts # NULL
  <2>1. counts \in Counts
    BY CountsType, Zenon
  <2> QED BY <2>1, DeploymentAssumption DEF Counts
<1> HIDE DEF counts
<1>4. /\ work'[c].counts = counts /\ work'[c].current = d /\ work'[c].nodes = work[c].nodes
      /\ \A b \in Controllers \ {c} : work'[b] = work[b]
  BY <1>1, <1>2 DEF DepTypes, Work
<1>5. SeenLook[d] = {}
  BY <1>2, FreeNotLooked
<1>6. \A e \in Deployments \ {d} : SeenLook'[e] = SeenLook[e]
  BY <1>1, <1>2, <1>4, LookKept
<1>7. SeenLook'[d] = IF rollout THEN {counts} ELSE {}
  <2>1. \A b \in Controllers \ {c} : ~Judging(b, d)'
    BY <1>2, <1>4 DEF Judging, Locked
  <2>2. Judging(c, d)' <=> rollout
    BY <1>2, <1>3, <1>4 DEF Judging
  <2> QED BY <1>4, <2>1, <2>2 DEF SeenLook
<1>8. CASE rollout
  <2>1. SeenLook' = [SeenLook EXCEPT ![d] = {RuntimeCounts(ModelOf[d])}]
    BY <1>6, <1>7, <1>8 DEF SeenLook, counts
  <2>2. SeenPhase[d] # "absent"
    BY <1>1 DEF SeenPhase, DepTypes, Status, Phases
  <2>3. One!Look(d)
    BY <1>2, <1>5, <2>1, <2>2, CountsSeen
       DEF One!Look, One!InState, SeenLook, SeenPhase, SeenState
  <2> QED BY <2>3, Zenon DEF One!OneNext
<1>9. CASE ~rollout
  <2>1. SeenLook' = SeenLook
    BY <1>5, <1>6, <1>7, <1>9 DEF SeenLook
  <2> QED BY <1>2, <2>1 DEF One!oneVars, SeenLook
<1> QED BY <1>8, <1>9

\* A controller whose transaction fails, or that goes on to the next deployment, gives up.
LEMMA MapsToFails ==
  ASSUME DepTypes, ListsHold, NEW c \in Controllers, ReconcileFails(c)
  PROVE  One!OneNext \/ UNCHANGED One!oneVars
<1>1. PICK d \in Deployments : d = work[c].current
  BY CurrentExists DEF ReconcileFails
<1>2. work' = [work EXCEPT ![c] = Released(@)] /\ UNCHANGED <<created, dep, online, runtime, dispatches>>
  BY DEF ReconcileFails
<1>3. work'[c].current = NULL /\ \A b \in Controllers \ {c} : work'[b] = work[b]
  <2>1. Released(work[c]).current = NULL
    BY DEF Released, DepTypes, Work
  <2> QED BY <1>2, <2>1 DEF DepTypes
<1>4. \A e \in Deployments \ {d} : SeenLook'[e] = SeenLook[e]
  <2>1. \A e \in Deployments \ {d}, b \in Controllers :
           work[b].current = e \/ work'[b].current = e => b # c
    BY <1>1, <1>3, DeploymentAssumption
  <2> QED BY <1>2, <1>3, <2>1, LookKept
<1>5. CASE ~Holds(c)
  <2>1. SeenLook'[d] = SeenLook[d]
    BY <1>1, <1>2, <1>3, <1>5, DeploymentAssumption, LookKept DEF Holds
  <2>2. SeenLook' = SeenLook
    BY <1>4, <2>1 DEF SeenLook
  <2> QED BY <1>2, <2>2 DEF One!oneVars, SeenLook
<1>6. CASE Holds(c)
  <2>1. \A b \in Controllers : ~Judging(b, d)'
    <3>1. \A b \in Controllers \ {c} : ~(work[b].current = d /\ work[b].counts # NULL)
      BY <1>1, <1>6, DeploymentAssumption DEF ListsHold, OneHolder, Holds
    <3> QED BY <1>3, <3>1, DeploymentAssumption DEF Judging
  <2>2. SeenLook' = [SeenLook EXCEPT ![d] = {}]
    <3>1. SeenLook'[d] = {}
      BY <2>1 DEF SeenLook
    <3> QED BY <1>4, <3>1 DEF SeenLook
  <2>3. One!GiveUp(d)
    BY <1>2, <2>2 DEF One!GiveUp, SeenLook
  <2> QED BY <2>3, Zenon DEF One!OneNext
<1> QED BY <1>5, <1>6

\* CreateDeployment: the row of the next id is Pending.
LEMMA MapsToCreate ==
  ASSUME DepTypes, ListsHold, CreateDeployment
  PROVE  One!OneNext
<1>1. PICK d \in Deployments :
         created \in Nat /\ d \in Nat /\ d > created /\ created' = d /\ ~(d > created')
  <2>1. /\ created + 1 \in Deployments /\ created \in Nat /\ created' = created + 1
        /\ created + 1 \in Nat /\ created + 1 > created /\ ~(created + 1 > created')
    BY DeploymentAssumption DEF CreateDeployment, DepTypes, Deployments
  <2> QED BY <2>1
<1>2. UNCHANGED <<dep, dispatches, online, runtime>>
  BY DEF CreateDeployment
<1>3. \A e \in Deployments : e # d => (e > created) = (e > created')
  <2>1. created' = created + 1 /\ \A e \in Deployments : e \in Nat
    BY DeploymentAssumption DEF CreateDeployment, Deployments
  <2> QED BY <1>1, <2>1
<1>4. dep[d].phase = "Pending"
  BY <1>1 DEF ListsHold
<1>5. SeenPhase[d] = "absent" /\ SeenPhase' = [SeenPhase EXCEPT ![d] = "Pending"]
  BY <1>1, <1>2, <1>3, <1>4 DEF SeenPhase
<1>6. SeenLook' = SeenLook
  <2>1. UNCHANGED <<dep, work>>
    BY DEF CreateDeployment
  <2> QED BY <2>1 DEF SeenLook, Judging
<1>7. One!Create(d)
  BY <1>2, <1>5, <1>6 DEF One!Create, SeenPhase, SeenLook
<1> QED BY <1>1, <1>7, Zenon DEF One!OneNext

\* A user's phase.
LEMMA MapsToUserSets ==
  ASSUME DepTypes, NEW d \in Deployments, NEW p \in Phases, UpdateDeployment(d, p)
  PROVE  One!OneNext
<1>1. d \in Nat /\ created \in Nat /\ d <= created
  BY DeploymentAssumption DEF UpdateDeployment, DepTypes, Deployments
<1>2. UNCHANGED <<created, dispatches, online, runtime>>
  BY DEF UpdateDeployment
<1>3. dep' = [dep EXCEPT ![d] = [dep[d] EXCEPT !.phase = p]]
  BY DEF UpdateDeployment, UpdateDeploymentStatus, GetDeploymentForUpdate
<1>4. dep[d] \in Status /\ dep \in [Deployments -> Status]
  BY DEF DepTypes
<1>5. dep'[d].phase = p /\ \A e \in Deployments : e # d => dep'[e] = dep[e]
  BY <1>3, <1>4 DEF Status
<1>6. SeenPhase[d] # "absent"
  BY <1>1, <1>4 DEF SeenPhase, Status, Phases
<1>7. SeenPhase' = [SeenPhase EXCEPT ![d] = p]
  <2>1. /\ ~(d > created') /\ dep'[d].phase = p
        /\ \A e \in Deployments : e # d =>
              (e > created') = (e > created) /\ dep'[e].phase = dep[e].phase
    BY <1>1, <1>2, <1>5
  <2> QED BY <2>1 DEF SeenPhase
<1>8. SeenLook[d] = {} /\ SeenLook' = SeenLook
  <2>1. ~Locked(d) /\ work' = work
    BY DEF UpdateDeployment
  <2>2. SeenLook[d] = {}
    BY <2>1, FreeNotLooked
  <2>3. SeenLook'[d] = {}
    BY <2>1 DEF SeenLook, Judging, Locked
  <2>4. \A e \in Deployments \ {d} : SeenLook'[e] = SeenLook[e]
    BY <1>5, <2>1, LookKept
  <2> QED BY <2>2, <2>3, <2>4 DEF SeenLook
<1>9. One!UserSets(d)
  BY <1>2, <1>6, <1>7, <1>8 DEF One!UserSets, SeenPhase, SeenLook, Phases
<1> QED BY <1>9 DEF One!OneNext

\* A heartbeat, and a report about one node's runtimes.
LEMMA MapsToAgent ==
  ASSUME DepTypes, NEW n \in Nodes,
         \/ ReportHeartbeat(n)
         \/ \E m \in Models, state \in RuntimeStates : ReportRuntimeState(n, m, state)
  PROVE  One!OneNext
<1>0. SeenLook' = SeenLook
  <2>1. UNCHANGED <<dep, work>>
    BY DEF ReportHeartbeat, ReportRuntimeState
  <2> QED BY <2>1 DEF SeenLook, Judging
<1>1. CASE ReportHeartbeat(n)
  <2>1. One!ComesOnline(n)
    BY <1>0, <1>1 DEF ReportHeartbeat, One!ComesOnline, SeenLook
  <2> QED BY <2>1 DEF One!OneNext
<1>2. ASSUME NEW m \in Models, NEW state \in RuntimeStates, ReportRuntimeState(n, m, state)
      PROVE  One!OneNext
  <2>1. UNCHANGED <<created, dep, dispatches, online>> /\ runtime' = [runtime EXCEPT ![n][m] = state]
    BY <1>2 DEF ReportRuntimeState
  <2>2. \A k \in Nodes : k # n => runtime'[k] = runtime[k]
    BY <2>1 DEF DepTypes
  <2>3. ASSUME NEW d \in Deployments, NEW k \in Nodes \ {n}
        PROVE  SeenState'[d][k] = SeenState[d][k]
    BY <2>2 DEF SeenState
  <2>4. One!Reports(n)
    BY <1>0, <2>1, <2>3 DEF One!Reports, SeenState, SeenLook
  <2> QED BY <2>4 DEF One!OneNext
<1> QED BY <1>1, <1>2

\* Every step of users, agents and controllers is one of the one controller's world.
LEMMA OneStep ==
  ASSUME DepTypes, ListsHold, \A e \in Deployments : AsSent(e), [DepNext]_depVars
  PROVE  One!OneNext \/ UNCHANGED One!oneVars
<1>1. CASE UNCHANGED depVars
  BY <1>1 DEF depVars, One!oneVars, Judging
<1>2. ASSUME NEW c \in Controllers, List(c) \/ ListNodes(c)
      PROVE  UNCHANGED One!oneVars
  <2>1. UNCHANGED <<created, dep, dispatches, online, runtime>>
    BY <1>2 DEF List, ListNodes
  <2>2. work[c].current = NULL
    BY <1>2 DEF List, ListNodes, Idle
  <2>3. \A b \in Controllers \ {c} : work'[b] = work[b]
    BY <1>2 DEF List, ListNodes, DepTypes
  <2>4. work'[c].current = NULL \/ work'[c].counts = NULL
    <3>1. CASE List(c)
      <4>1. work[c] = Idle
        BY <3>1 DEF List
      <4>2. work'[c].current = work[c].current
        BY <3>1 DEF List, DepTypes, Work
      <4> QED BY <4>1, <4>2 DEF Idle
    <3>2. CASE ListNodes(c)
      <4>1. PICK d \in work[c].todo :
              work' = [work EXCEPT ![c] = [todo |-> work[c].todo \ {d}, current |-> d,
                                           nodes |-> Target[d] \cap online, counts |-> NULL]]
        BY <3>2 DEF ListNodes
      <4> QED BY <4>1 DEF DepTypes
    <3> QED BY <1>2, <3>1, <3>2
  <2>5. ASSUME NEW e \in Deployments
        PROVE  SeenLook'[e] = SeenLook[e]
    BY <2>1, <2>2, <2>3, <2>4, DeploymentAssumption, LookKept
  <2>6. SeenLook' = SeenLook
    BY <2>5 DEF SeenLook
  <2> QED BY <2>1, <2>6 DEF One!oneVars, SeenLook
<1> QED BY <1>1, <1>2, MapsToCreate, MapsToUserSets, MapsToAgent, MapsToReconcile, MapsToCounts,
        MapsToFails DEF DepNext

\* The empty tables.
LEMMA OneInitial == DepInit => One!OneInit
<1> SUFFICES ASSUME DepInit PROVE One!OneInit
  OBVIOUS
<1>1. \A d \in Deployments : d > 0
  BY DeploymentAssumption DEF Deployments
<1>2. SeenPhase = [d \in Deployments |-> "absent"]
  BY <1>1 DEF SeenPhase, DepInit
<1>3. SeenState = [d \in Deployments |-> [n \in Nodes |-> "other"]]
  BY DeploymentAssumption DEF SeenState, DepInit
<1>4. SeenLook = [d \in Deployments |-> {}]
  BY DEF SeenLook, Judging, DepInit, Idle
<1> QED BY <1>2, <1>3, <1>4 DEF One!OneInit, SeenPhase, SeenState, SeenLook, DepInit

\* Any number of controllers, each with a list of its own that may be stale, does to the
\* deployments what one controller without a list does.
THEOREM ControllersActAsOne == DepSpec => ImplementsOneController
<1> DEFINE Inv == DepTypes /\ ListsHold /\ \A e \in Deployments : Once(e) /\ AsSent(e)
<1>1. DepInit => Inv
  BY DepTypesInit, RowsInit, ListsInit
<1>2. Inv /\ [DepNext]_depVars => Inv'
  BY DepTypesStep, RowsStep, ListsStep
<1>3. Inv /\ [DepNext]_depVars => [One!OneNext]_One!oneVars
  BY OneStep
<1> QED BY <1>1, <1>2, <1>3, OneInitial, PTL DEF DepSpec, ImplementsOneController, One!OneSpec
===============================================================================
