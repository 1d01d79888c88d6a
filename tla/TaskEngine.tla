------------------------------ MODULE TaskEngine ------------------------------
(***************************************************************************)
(* The task tables of the central database and every handler that writes   *)
(* them: the control plane's TaskService (CreateTask, CancelTask), the     *)
(* deployment controller's DeploymentTaskCreator (CreateDeploymentTask),   *)
(* the gateway's Dispatcher (PushRegionalTask and its per-node             *)
(* expandAndClaim) and AgentService (PullTasks, ReportTaskResult).         *)
(*                                                                         *)
(* A handler body runs in one serializable transaction (store.DB.WithTx),  *)
(* so it is one action; PushRegionalTask runs one transaction per node and *)
(* is a process of its own.  A transaction that aborts changes nothing and *)
(* is a stuttering step.                                                   *)
(*                                                                         *)
(* Task ids are 1, 2, ... in the order of tasks.created_at.  Payloads,     *)
(* results, actors, retry_count (which no handler changes) and timestamps  *)
(* are left out.                                                           *)
(***************************************************************************)
EXTENDS Naturals, Sequences, FiniteSets, TaskStateMachine

CONSTANTS Nodes,      \* edge node ids
          Gateways,   \* gateway ids
          NULL,       \* SQL NULL in a nullable column
          PushCalls,  \* PushRegionalTask calls that may be in progress at once
          MaxTasks,   \* bound on the rows of table tasks
          PullMax,    \* max_tasks of a PullTasks request
          MaxRuns,    \* bound on the reports per task, in Next only
          Reported    \* the raw statuses agents report, a subset of RawStatuses

\* Owner of a claim (d.gatewayID) or of a delivery ("gateway:" + gatewayID).
Owners == {"claim", "gateway:"} \X Gateways

ASSUME MaxTasksAssumption == MaxTasks \in Nat
ASSUME PullMaxAssumption == PullMax \in Nat
ASSUME MaxRunsAssumption == MaxRuns \in Nat
ASSUME ReportedAssumption == Reported \subseteq RawStatuses
ASSUME NullAssumption == NULL \notin Nodes /\ NULL \notin Gateways /\ NULL \notin Owners

VARIABLES created,    \* number of rows inserted into table tasks
          tasks,      \* table tasks
          runs,       \* table task_runs, per task in order of insertion
          events,     \* table task_events, per task in order of insertion
          pushes      \* PushRegionalTask calls in progress

engineVars == <<created, tasks, runs, events, pushes>>

TaskIds == 1 .. MaxTasks
Created == 1 .. created

Row == [scope    : {"Region", "Node"},
        parent   : TaskIds \cup {NULL},
        status   : Statuses,
        gateway  : Gateways \cup {NULL},
        node     : Nodes \cup {NULL},
        dispatch : {"Unclaimed", "Claimed", "Delivered"},
        owner    : Owners \cup {NULL}]

Run == [node : Nodes, attempt : Nat, status : ReportableStatuses]

Event == [type : {"created", "expanded", "status_change", "delivered", "result_reported"},
          old : Statuses \cup {""},
          new : Statuses]

\* What an id that is not inserted yet holds.
Blank == [scope |-> "Region", parent |-> NULL, status |-> "Pending",
          gateway |-> NULL, node |-> NULL, dispatch |-> "Unclaimed", owner |-> NULL]

\* A PushRegionalTask call in progress: the node at the head of todo is next.
Call == [gateway : Gateways, parent : TaskIds, todo : Seq(Nodes) \ {<<>>}]
IdleCall == [gateway |-> NULL, parent |-> NULL, todo |-> <<>>]

Init ==
    /\ created = 0
    /\ tasks = [t \in TaskIds |-> Blank]
    /\ runs = [t \in TaskIds |-> <<>>]
    /\ events = [t \in TaskIds |-> <<>>]
    /\ pushes = [c \in PushCalls |-> IdleCall]

-------------------------------------------------------------------------------
(* Statements of task.Store *)

\* INSERT INTO task_events
Logged(t, type, old, new) ==
    [events EXCEPT ![t] = Append(@, [type |-> type, old |-> old, new |-> new])]

\* INSERT INTO tasks, followed by the insertion event.
InsertTask(row, eventType) ==
    /\ created < MaxTasks
    /\ created' = created + 1
    /\ tasks' = [tasks EXCEPT ![created + 1] = row]
    /\ events' = Logged(created + 1, eventType, "", row.status)

\* The row after a claim by an owner, if the claim is won: the row must be
\* unclaimed.  (An expired claim cannot be met: the one caller claims the row
\* it inserted in the same transaction.)
AtomicClaim(row, owner) ==
    IF row.dispatch = "Unclaimed"
    THEN [row EXCEPT !.dispatch = "Claimed", !.owner = owner]
    ELSE row

MarkDelivered(row) ==
    IF row.dispatch = "Claimed" THEN [row EXCEPT !.dispatch = "Delivered"] ELSE row

\* Moves a task to a new status, if it still has the one that was checked, and
\* logs it.
UpdateStatus(t, old, new) ==
    /\ tasks[t].status = old
    /\ tasks' = [tasks EXCEPT ![t].status = new]
    /\ events' = Logged(t, "status_change", old, new)

\* Overwrites the status whatever it is.
UpdateResult(t, status) == tasks' = [tasks EXCEPT ![t].status = status]

\* CreateTaskRun followed by UpdateTaskRun on the run it returned.
CreateTaskRun(t, node, attempt, status) ==
    runs' = [runs EXCEPT ![t] = Append(@, [node |-> node, attempt |-> attempt,
                                           status |-> status])]

\* Mutant of LatestAttempt: MAX over no rows is taken for every task.
LatestAttemptNone(t) == 0

\* SELECT COALESCE(MAX(attempt), 0); attempts are only ever appended in order.
LatestAttempt(t) ==
    IF runs[t] = <<>> THEN 0 ELSE runs[t][Len(runs[t])].attempt

-------------------------------------------------------------------------------
(* Control plane: TaskService *)

CreateTask(scope, node, gateway) ==
    /\ InsertTask([Blank EXCEPT !.scope = scope, !.node = node, !.gateway = gateway],
                  "created")
    /\ UNCHANGED <<runs, pushes>>

CancelTask(t) ==
    /\ t \in Created
    /\ ~IsTerminal(tasks[t].status)
    /\ ValidateTransition(tasks[t].status, "Cancelled")
    /\ UpdateStatus(t, tasks[t].status, "Cancelled")
    /\ UNCHANGED <<created, runs, pushes>>

-------------------------------------------------------------------------------
(* Deployment controller: DeploymentTaskCreator *)

\* A child task as it is inserted for a node.
NodeRow(parent, node) ==
    [Blank EXCEPT !.scope = "Node", !.parent = parent, !.node = node]

\* A Region task and one Node task per target node, any gateway may deliver it;
\* nothing is written to task_events.
CreateDeploymentTask(nodeIDs) ==
    /\ created + 1 + Len(nodeIDs) <= MaxTasks
    /\ created' = created + 1 + Len(nodeIDs)
    /\ tasks' = [t \in TaskIds |->
                    IF t = created + 1 THEN Blank
                    ELSE IF t > created + 1 /\ t <= created'
                    THEN NodeRow(created + 1, nodeIDs[t - (created + 1)])
                    ELSE tasks[t]]
    /\ UNCHANGED <<runs, events, pushes>>

-------------------------------------------------------------------------------
(* Gateway: Dispatcher *)

\* A PushRegionalTask call is accepted by the gateway it names.  The handler reads
\* nothing of the parent task, of whatever scope; that there is one, the foreign key
\* of the tasks it creates says.
PushRegionalTask(c, g, parent, nodes) ==
    /\ pushes[c] = IdleCall
    /\ parent \in Created
    /\ nodes # <<>>
    /\ pushes' = [pushes EXCEPT ![c] = [gateway |-> g, parent |-> parent, todo |-> nodes]]
    /\ UNCHANGED <<created, tasks, runs, events>>

\* The call after its current node: the next one, or the end of the loop.
NextNode(call) ==
    IF Len(call.todo) = 1 THEN IdleCall ELSE [call EXCEPT !.todo = Tail(@)]

\* The row expandAndClaim inserts, claims and marks delivered.
ExpandedRow(call) ==
    MarkDelivered(AtomicClaim(
        [NodeRow(call.parent, Head(call.todo)) EXCEPT !.gateway = call.gateway],
        <<"claim", call.gateway>>))

expandAndClaim(c) ==
    /\ pushes[c] # IdleCall
    /\ InsertTask(ExpandedRow(pushes[c]), "expanded")
    /\ pushes' = [pushes EXCEPT ![c] = NextNode(@)]
    /\ UNCHANGED runs

\* The transaction of one node fails: it is logged and the loop continues.
expandAndClaimFails(c) ==
    /\ pushes[c] # IdleCall
    /\ pushes' = [pushes EXCEPT ![c] = NextNode(@)]
    /\ UNCHANGED <<created, tasks, runs, events>>

-------------------------------------------------------------------------------
(* Gateway: AgentService *)

pullLimit == IF PullMax <= 0 THEN 10 ELSE IF PullMax > 100 THEN 100 ELSE PullMax

\* Mutant of Pullable: the gateway column is not looked at.
PullableAtAnyGateway(g, n) ==
    {t \in Created : /\ tasks[t].scope = "Node"
                     /\ tasks[t].node = n
                     /\ tasks[t].status \in {"Pending", "Retrying"}}

\* Mutant of Pullable: NULL does not compare equal, so an open row never matches.
PullableOwnGateway(g, n) ==
    {t \in PullableAtAnyGateway(g, n) : tasks[t].gateway = g}

\* Mutant of Pullable: a failed task is handed out for another try.
PullableFailedToo(g, n) ==
    {t \in Created : /\ tasks[t].scope = "Node"
                     /\ tasks[t].node = n
                     /\ tasks[t].status \in {"Pending", "Retrying", "Failed"}
                     /\ tasks[t].gateway \in {NULL, g}}

\* The rows the SELECT of PullTasks matches.
Pullable(g, n) ==
    {t \in Created : /\ tasks[t].scope = "Node"
                     /\ tasks[t].node = n
                     /\ tasks[t].status \in {"Pending", "Retrying"}
                     /\ tasks[t].gateway \in {NULL, g}}

\* ORDER BY created_at ASC LIMIT k
Oldest(S, k) == {t \in S : Cardinality({u \in S : u < t}) < k}

\* The rows one PullTasks delivers when the rows of locked are held by other
\* transactions (FOR UPDATE SKIP LOCKED).
Pulled(g, n, locked) == Oldest(Pullable(g, n) \ locked, pullLimit)

\* The row PullTasks updates to, and the event it inserts.
DeliveredRow(row, g) ==
    [row EXCEPT !.status = "Running", !.dispatch = "Delivered",
                !.owner = IF @ = NULL THEN <<"gateway:", g>> ELSE @]
DeliveredEvent == [type |-> "delivered", old |-> "Pending", new |-> "Running"]

\* Mutant of PullTasks: the dispatch columns are updated, the status is not.
PullTasksKeepsPending(g, n, S) ==
    /\ tasks' = [t \in TaskIds |->
                    IF t \in S
                    THEN [tasks[t] EXCEPT !.dispatch = "Delivered", !.owner = <<"gateway:", g>>]
                    ELSE tasks[t]]
    /\ events' = [t \in TaskIds |->
                    IF t \in S
                    THEN Append(events[t], [type |-> "delivered", old |-> "Pending",
                                            new |-> "Pending"])
                    ELSE events[t]]
    /\ UNCHANGED <<created, runs, pushes>>

\* Mutant of PullTasks: the transaction is rolled back and the answer sent anyway.
PullTasksUncommitted(g, n, S) == UNCHANGED engineVars

\* PullTasks delivers the tasks of S to node n through gateway g.
PullTasks(g, n, S) ==
    /\ tasks' = [t \in TaskIds |->
                    IF t \in S
                    THEN DeliveredRow(tasks[t], g)
                    ELSE tasks[t]]
    /\ events' = [t \in TaskIds |->
                    IF t \in S
                    THEN Append(events[t], DeliveredEvent)
                    ELSE events[t]]
    /\ UNCHANGED <<created, runs, pushes>>

\* Mutant of ReportAccepted: an unknown status passes.
ReportAcceptedAnyStatus(n, t, raw) == t \in Created /\ tasks[t].node = n

\* A report is rejected unless its status is known and the task is the node's.
ReportAccepted(n, t, raw) ==
    /\ normalizeReportedStatus(raw) # ""
    /\ t \in Created
    /\ tasks[t].node = n

ReportTaskResult(n, t, raw) ==
    LET newStatus == normalizeReportedStatus(raw)
    IN  /\ ReportAccepted(n, t, raw)
        /\ CreateTaskRun(t, n, LatestAttempt(t) + 1, newStatus)
        /\ UpdateResult(t, newStatus)
        /\ events' = Logged(t, "result_reported", tasks[t].status, newStatus)
        /\ UNCHANGED <<created, pushes>>

-------------------------------------------------------------------------------
(* The engine with every client request the API admits. *)

\* Target node lists of a push or a dispatch: one node or two different ones.
NodeLists == {l \in UNION {[1 .. k -> Nodes] : k \in 1 .. 2} :
                 \A i, j \in DOMAIN l : l[i] = l[j] => i = j}

Next ==
    \/ \E scope \in {"Region", "Node"}, node \in Nodes \cup {NULL}, gateway \in Gateways \cup {NULL} :
           CreateTask(scope, node, gateway)
    \/ \E t \in TaskIds : CancelTask(t)
    \/ \E nodeIDs \in NodeLists : CreateDeploymentTask(nodeIDs)
    \/ \E c \in PushCalls, g \in Gateways, parent \in TaskIds, nodes \in NodeLists :
           PushRegionalTask(c, g, parent, nodes)
    \/ \E c \in PushCalls : expandAndClaim(c)
    \/ \E c \in PushCalls : expandAndClaimFails(c)
    \/ \E g \in Gateways, n \in Nodes : \E locked \in SUBSET Pullable(g, n) :
           PullTasks(g, n, Pulled(g, n, locked))
    \/ \E n \in Nodes, t \in TaskIds, raw \in Reported :
           Len(runs[t]) < MaxRuns /\ ReportTaskResult(n, t, raw)

Spec == Init /\ [][Next]_engineVars

-------------------------------------------------------------------------------
(* Properties *)

\* The tables hold rows of their columns' types; ids not inserted are blank.
TypeOK ==
    /\ created \in 0 .. MaxTasks
    /\ tasks \in [TaskIds -> Row]
    /\ runs \in [TaskIds -> Seq(Run)]
    /\ events \in [TaskIds -> Seq(Event)]
    /\ pushes \in [PushCalls -> Call \cup {IdleCall}]
    /\ \A t \in TaskIds \ Created : tasks[t] = Blank /\ runs[t] = <<>> /\ events[t] = <<>>

\* Whether the log of a task chains: it starts with the insertion or, for a task
\* the controller inserted, in Pending; each event starts at the status the one
\* before it left; the last one left the status the row holds.
Chained(log, status) ==
    IF log = <<>> THEN status = "Pending"
    ELSE /\ log[1].old \in {"", "Pending"}
         /\ log[Len(log)].new = status
         /\ \A i \in 1 .. Len(log) - 1 : log[i + 1].old = log[i].new

\* The audit trail explains every row: the task_events of a task, replayed in
\* order, lead from its insertion to the status it has now, although PullTasks
\* writes a fixed old status and UpdateResult never looks at the current one.
EventLogExplainsStatus == \A t \in Created : Chained(events[t], tasks[t].status)

\* The deliveries in the log of a task.
DeliveredIn(log) == {i \in 1 .. Len(log) : log[i].type = "delivered"}
Deliveries(t) == DeliveredIn(events[t])

\* A NodeTask is handed to an agent at most once, whatever gateways, expansions,
\* cancellations and reports interleave with the pulls: no later transition
\* makes a delivered row pullable again.
DeliveredAtMostOnce == \A t \in Created : \A i, j \in Deliveries(t) : i = j

\* A task leaves Pending for the Delivered/Running pair only together: a row an
\* agent works on is owned by a gateway that the row admits.
RunningIsOwned ==
    \A t \in Created :
        tasks[t].status = "Running" =>
            /\ tasks[t].dispatch = "Delivered"
            /\ tasks[t].owner # NULL
            /\ tasks[t].gateway \in {NULL, tasks[t].owner[2]}

\* "terminalStatuses are states that cannot transition further": no step
\* changes the status of a task in a terminal status.
TerminalIsFinal ==
    [][\A t \in Created : IsTerminal(tasks[t].status) =>
            tasks'[t].status = tasks[t].status]_engineVars
===============================================================================
