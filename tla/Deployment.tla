------------------------------ MODULE Deployment ------------------------------
(***************************************************************************)
(* Model deployments (internal/deployment): the user's CreateDeployment    *)
(* and UpdateDeployment, the controllers' reconcile loop, and the two      *)
(* tables it reads that agents write through the gateway: the online flag  *)
(* of edge_nodes and edge_runtime_states.                                  *)
(*                                                                         *)
(* reconcile lists the open deployments, then for each one reads the       *)
(* target nodes, and only then opens the transaction that re-reads the     *)
(* row: what was listed and which nodes were online may be stale by then.  *)
(* The transaction holds the row's lock from that read to its commit, but  *)
(* counts the runtime states on a connection of its own, so that agents'   *)
(* reports may overtake the judgement.                                     *)
(* Several controllers may run.  Deployments are numbered in order of      *)
(* creation; runtime resolution and rollout parameters only reach task     *)
(* payloads and are left out.  The tasks a dispatch inserts are those of   *)
(* CreateDeploymentTask in module TaskEngine; here it is recorded which    *)
(* nodes they were for.                                                    *)
(***************************************************************************)
EXTENDS Rollout, Sequences, FiniteSets

CONSTANTS Nodes, Controllers, Models,
          NULL,
          MaxDeployments,  \* bound on the rows of model_deployments
          MaxUpdates,      \* bound on UpdateDeployment calls
          Target,          \* Target[d]: nodes with the gateway and labels d selects
          ModelOf          \* ModelOf[d]: the model name and version d deploys

Deployments == 1 .. MaxDeployments

ASSUME DeploymentAssumption ==
    /\ MaxDeployments \in Nat /\ MaxUpdates \in Nat
    /\ Target \in [Deployments -> SUBSET Nodes]
    /\ ModelOf \in [Deployments -> Models]
    /\ IsFiniteSet(Nodes)
    /\ NULL \notin Deployments \cup [ready : Nat, failed : Nat]

VARIABLES created,     \* number of deployments created
          dep,         \* column status of model_deployments
          online,      \* nodes with online = true
          runtime,     \* edge_runtime_states, by node and model
          work,        \* the reconcile loop of each controller
          dispatches,  \* history: per deployment, the node sets tasks were created for
          resets,      \* history: per deployment, times a user set phase Pending
          updates      \* number of UpdateDeployment calls

depVars == <<created, dep, online, runtime, work, dispatches, resets, updates>>

Phases == {"Pending", "RollingOut", "Active", "Failed", "Paused"}
NewStatus == [phase |-> "Pending", desired |-> 0, ready |-> 0, failed |-> 0]

\* Any state that counts for nothing, no row at all included, is "other".
RuntimeStates == {"other", "Running", "Failed"}

\* A controller between two ticks.
Idle == [todo |-> {}, current |-> NULL, nodes |-> {}, counts |-> NULL]

DepInit ==
    /\ created = 0
    /\ dep = [d \in Deployments |-> NewStatus]
    /\ online = {}
    /\ runtime = [n \in Nodes |-> [m \in Models |-> "other"]]
    /\ work = [c \in Controllers |-> Idle]
    /\ dispatches = [d \in Deployments |-> <<>>]
    /\ resets = [d \in Deployments |-> 0]
    /\ updates = 0

-------------------------------------------------------------------------------
(* Users and agents *)

CreateDeployment ==
    /\ created < MaxDeployments
    /\ created' = created + 1
    /\ UNCHANGED <<dep, online, runtime, work, dispatches, resets, updates>>

\* SELECT ... FOR UPDATE and the UPDATE of a transaction on deployment d.
Locked(d) == \E c \in Controllers : work[c].current = d /\ work[c].counts # NULL
GetDeploymentForUpdate(d) == dep[d]
UpdateDeploymentStatus(d, st) == dep' = [dep EXCEPT ![d] = st]

\* A user may set any phase at any time.
UpdateDeployment(d, phase) ==
    /\ d <= created /\ updates < MaxUpdates
    /\ ~Locked(d)
    /\ UpdateDeploymentStatus(d, [GetDeploymentForUpdate(d) EXCEPT !.phase = phase])
    /\ resets' = IF phase = "Pending" THEN [resets EXCEPT ![d] = @ + 1] ELSE resets
    /\ updates' = updates + 1
    /\ UNCHANGED <<created, online, runtime, work, dispatches>>

\* Nothing ever sets online back to false.
ReportHeartbeat(n) ==
    /\ n \notin online
    /\ online' = online \cup {n}
    /\ UNCHANGED <<created, dep, runtime, work, dispatches, resets, updates>>

ReportRuntimeState(n, m, state) ==
    /\ runtime[n][m] # state
    /\ runtime' = [runtime EXCEPT ![n][m] = state]
    /\ UNCHANGED <<created, dep, online, work, dispatches, resets, updates>>

-------------------------------------------------------------------------------
(* Controller *)

\* The tick: ListPendingDeployments.
List(c) ==
    LET open == {d \in 1 .. created : dep[d].phase \in {"Pending", "RollingOut"}}
    IN  /\ work[c] = Idle /\ open # {}
        /\ work' = [work EXCEPT ![c].todo = open]
        /\ UNCHANGED <<created, dep, online, runtime, dispatches, resets, updates>>

\* Mutant of ListNodes: nodes that never came online are listed too.
ListNodesOffline(c) ==
    /\ work[c].current = NULL
    /\ \E d \in work[c].todo :
        /\ \A e \in work[c].todo : d <= e
        /\ work' = [work EXCEPT ![c] = [todo |-> @.todo \ {d}, current |-> d, nodes |-> Target[d],
                                        counts |-> NULL]]
    /\ UNCHANGED <<created, dep, online, runtime, dispatches, resets, updates>>

\* reconcileOne takes the oldest listed deployment and reads its online targets.
ListNodes(c) ==
    /\ work[c].current = NULL
    /\ \E d \in work[c].todo :
        /\ \A e \in work[c].todo : d <= e
        /\ work' = [work EXCEPT ![c] = [todo |-> @.todo \ {d}, current |-> d,
                                        nodes |-> Target[d] \cap online, counts |-> NULL]]
    /\ UNCHANGED <<created, dep, online, runtime, dispatches, resets, updates>>

\* CountRuntimeStatesByDeployment: by model, over all nodes.
CountRuntimeStates(m, state) == Cardinality({n \in Nodes : runtime[n][m] = state})

\* Mutant of Dispatched: the phase is not moved on.
DispatchedStaysPending(st, nodes) ==
    IF st.phase = "Pending" /\ nodes # {}
    THEN [st EXCEPT !.desired = Cardinality(nodes)]
    ELSE st

\* Mutant of Dispatched: desired_nodes is added to, not set.
DispatchedAccumulates(st, nodes) ==
    IF st.phase = "Pending" /\ nodes # {}
    THEN [st EXCEPT !.phase = "RollingOut", !.desired = @ + Cardinality(nodes)]
    ELSE st

\* Mutant of Dispatched: the phase the row was listed with is trusted.
DispatchedAsListed(st, nodes) ==
    IF st.phase # "RollingOut" /\ nodes # {}
    THEN [st EXCEPT !.phase = "RollingOut", !.desired = Cardinality(nodes)]
    ELSE st

\* First half of the transaction: dispatch a Pending deployment.
Dispatched(st, nodes) ==
    IF st.phase = "Pending" /\ nodes # {}
    THEN [st EXCEPT !.phase = "RollingOut", !.desired = Cardinality(nodes)]
    ELSE st

RuntimeCounts(m) == [ready |-> CountRuntimeStates(m, "Running"),
                     failed |-> CountRuntimeStates(m, "Failed")]
NotCounted == [ready |-> 0, failed |-> 0]

\* The transaction locks the row, inserts the tasks of a dispatch, and counts
\* outside itself if the row is a rollout then.
ReconcileCounts(c) ==
    LET d == work[c].current
        sent == Dispatched(GetDeploymentForUpdate(d), work[c].nodes)
    IN  /\ d # NULL /\ work[c].counts = NULL
        /\ ~Locked(d)
        /\ work' = [work EXCEPT ![c].counts =
                       IF sent.phase = "RollingOut" THEN RuntimeCounts(ModelOf[d]) ELSE NotCounted]
        /\ UNCHANGED <<created, dep, online, runtime, dispatches, resets, updates>>

\* Mutant of Aggregated: the failed nodes are taken to be the ones not ready.
AggregatedByDifference(st, counts) ==
    IF st.phase = "RollingOut"
    THEN [st EXCEPT !.ready = counts.ready, !.failed = st.desired - counts.ready,
                    !.phase = IF counts.ready >= st.desired THEN "Active" ELSE "RollingOut"]
    ELSE st

\* Second half: aggregate a rollout and judge it.
Aggregated(st, counts) ==
    LET phase == IF counts.ready >= st.desired THEN "Active"
                 ELSE IF counts.failed > 0 /\ counts.ready + counts.failed >= st.desired
                      THEN "Failed"
                 ELSE "RollingOut"
    IN  IF st.phase = "RollingOut"
        THEN [st EXCEPT !.ready = counts.ready, !.failed = counts.failed, !.phase = phase]
        ELSE st

\* On to the next deployment of the list.
Released(w) == [w EXCEPT !.current = NULL, !.nodes = {}, !.counts = NULL]

\* The transaction commits what the locked row and the counts give.
ReconcileOne(c) ==
    LET d == work[c].current
        row == GetDeploymentForUpdate(d)
        sent == Dispatched(row, work[c].nodes)
    IN  /\ d # NULL /\ work[c].counts # NULL
        /\ UpdateDeploymentStatus(d, Aggregated(sent, work[c].counts))
        /\ dispatches' = IF sent = row THEN dispatches
                         ELSE [dispatches EXCEPT ![d] = Append(@, work[c].nodes)]
        /\ work' = [work EXCEPT ![c] = Released(@)]
        /\ UNCHANGED <<created, online, runtime, resets, updates>>

\* A read or the transaction fails (or two controllers conflict): the error is
\* logged and the loop goes on to the next deployment.
ReconcileFails(c) ==
    /\ work[c].current # NULL
    /\ work' = [work EXCEPT ![c] = Released(@)]
    /\ UNCHANGED <<created, dep, online, runtime, dispatches, resets, updates>>

DepNext ==
    \/ CreateDeployment
    \/ \E d \in Deployments, phase \in Phases : UpdateDeployment(d, phase)
    \/ \E n \in Nodes : ReportHeartbeat(n)
    \/ \E n \in Nodes, m \in Models, state \in RuntimeStates :
           ReportRuntimeState(n, m, state)
    \/ \E c \in Controllers : List(c)
    \/ \E c \in Controllers : ListNodes(c)
    \/ \E c \in Controllers : ReconcileCounts(c)
    \/ \E c \in Controllers : ReconcileOne(c)
    \/ \E c \in Controllers : ReconcileFails(c)

DepSpec == DepInit /\ [][DepNext]_depVars

-------------------------------------------------------------------------------
(* Properties *)

\* The nodes of the latest dispatch of a deployment.
LastDispatch(d) == IF dispatches[d] = <<>> THEN {} ELSE dispatches[d][Len(dispatches[d])]

\* However many controllers hold the deployment in their lists, its tasks are
\* created once for its creation and at most once per reset to Pending.
DispatchedOncePerPending ==
    \A d \in Deployments :
        Len(dispatches[d]) + (IF dep[d].phase = "Pending" THEN 1 ELSE 0) <= 1 + resets[d]

\* desired_nodes is the number of nodes tasks were last created for, also when
\* nodes came online between the controller's read and its transaction.
DesiredIsDispatched == \A d \in Deployments : dep[d].desired = Cardinality(LastDispatch(d))

\* A controller that listed a deployment earlier leaves it alone if it has been
\* paused or judged meanwhile: only a user moves it on.
SettledUntouched ==
    [][\A d \in Deployments :
          (dep[d].phase \in {"Paused", "Active", "Failed"} /\ updates' = updates) =>
              dep'[d] = dep[d] /\ dispatches'[d] = dispatches[d]]_depVars

\* The controller and the RolloutChecker agree on every judgement the controller
\* writes: the phase is the suggested one, a rollout is complete exactly when it
\* has ended, and whatever max_unavailable is asked for, a batch is allowed only
\* while it is open and never takes more nodes down than that.
RolloutJudged ==
    [][\A d \in Deployments :
          (dep'[d] # dep[d] /\ updates' = updates) =>
              /\ dep'[d].phase = SuggestPhase(dep'[d])
              /\ IsComplete(dep'[d]) <=> dep'[d].phase \in {"Active", "Failed"}
              /\ \A asked \in -1 .. Cardinality(Nodes) + 1 :
                    LET batch == CanProceed(dep'[d], asked)
                    IN  batch > 0 => /\ ~ IsComplete(dep'[d])
                                     /\ Unavailable(dep'[d]) + batch <= MaxUnavailable(asked)]_depVars
===============================================================================
