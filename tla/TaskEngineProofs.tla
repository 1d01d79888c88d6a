--------------------------- MODULE TaskEngineProofs ---------------------------
(***************************************************************************)
(* Proofs about TaskEngine for any sets of nodes, gateways and push calls  *)
(* and any bounds: type correctness, and from it the delivery, ownership   *)
(* and audit-trail invariants.                                             *)
(***************************************************************************)
EXTENDS TaskEngine, SequenceTheorems, TLAPS

-------------------------------------------------------------------------------
(* Type correctness *)

\* The node lists requests carry are non-empty sequences of nodes.
LEMMA NodeListsType == NodeLists \subseteq Seq(Nodes) \ {<<>>}
<1> SUFFICES ASSUME NEW l \in NodeLists PROVE l \in Seq(Nodes) /\ l # <<>>
  OBVIOUS
<1>1. PICK k \in 1 .. 2 : l \in [1 .. k -> Nodes]
  BY DEF NodeLists
<1>2. l \in Seq(Nodes)
  BY <1>1, SeqDef
<1>3. l # <<>>
  BY <1>1
<1> QED BY <1>2, <1>3

\* What a report stores is a status, and never Pending, Running or Retrying.
LEMMA NormalizedIsReportable ==
  ASSUME NEW raw, normalizeReportedStatus(raw) # ""
  PROVE  /\ normalizeReportedStatus(raw) \in ReportableStatuses
         /\ normalizeReportedStatus(raw) \in Statuses
         /\ normalizeReportedStatus(raw) \notin {"Pending", "Running", "Retrying"}
BY DEF normalizeReportedStatus, ReportableStatuses, Statuses

\* Appending an event to the log of a task keeps the logs well typed.
LEMMA LoggedType ==
  ASSUME NEW log \in [TaskIds -> Seq(Event)], NEW t \in TaskIds, NEW e \in Event
  PROVE  [log EXCEPT ![t] = Append(@, e)] \in [TaskIds -> Seq(Event)]
BY AppendProperties

\* The row of the next id is free to be inserted.
LEMMA NextIdType ==
  ASSUME created \in 0 .. MaxTasks, created < MaxTasks
  PROVE  /\ created + 1 \in TaskIds \ Created
         /\ created + 1 \in 0 .. MaxTasks
         /\ 1 .. (created + 1) = Created \cup {created + 1}
         /\ Created \subseteq TaskIds
BY MaxTasksAssumption DEF TaskIds, Created

\* Inserting a row with its event keeps the tables well typed.
LEMMA InsertTaskType ==
  ASSUME TypeOK, NEW row \in Row, NEW type \in {"created", "expanded"},
         InsertTask(row, type), runs' = runs,
         pushes' \in [PushCalls -> Call \cup {IdleCall}]
  PROVE  TypeOK'
<1>1. created \in 0 .. MaxTasks /\ created < MaxTasks /\ created' = created + 1
  BY DEF TypeOK, InsertTask
<1>2. /\ created + 1 \in TaskIds
      /\ created' \in 0 .. MaxTasks
      /\ Created' = Created \cup {created + 1}
  BY <1>1, NextIdType DEF Created
<1>3. tasks' \in [TaskIds -> Row]
  <2>1. tasks \in [TaskIds -> Row] /\ tasks' = [tasks EXCEPT ![created + 1] = row]
    BY DEF TypeOK, InsertTask
  <2> QED BY <2>1
<1>4. events' \in [TaskIds -> Seq(Event)]
  <2>1. [type |-> type, old |-> "", new |-> row.status] \in Event
    BY DEF Event, Row
  <2>2. events \in [TaskIds -> Seq(Event)]
    BY DEF TypeOK
  <2> QED BY <1>2, <2>1, <2>2, LoggedType DEF InsertTask, Logged
<1>5. \A t \in TaskIds \ Created' : tasks'[t] = Blank /\ runs'[t] = <<>> /\ events'[t] = <<>>
  <2>1. \A t \in TaskIds \ Created : tasks[t] = Blank /\ runs[t] = <<>> /\ events[t] = <<>>
    BY DEF TypeOK
  <2>2. \A t \in TaskIds : t # created + 1 => tasks'[t] = tasks[t] /\ events'[t] = events[t]
    BY DEF TypeOK, InsertTask, Logged
  <2> QED BY <1>2, <2>1, <2>2
<1>6. runs' \in [TaskIds -> Seq(Run)]
  BY DEF TypeOK
<1> QED BY <1>2, <1>3, <1>4, <1>5, <1>6 DEF TypeOK

\* The column defaults make a row.
LEMMA BlankType == Blank \in Row
BY DEF Blank, Row, Statuses

\* The task tables start well typed.
LEMMA TypeInit == Init => TypeOK
<1> SUFFICES ASSUME Init PROVE TypeOK
  OBVIOUS
<1>1. created \in 0 .. MaxTasks
  BY MaxTasksAssumption DEF Init
<1> QED BY <1>1, BlankType, EmptySeq DEF Init, TypeOK

\* CreateTask inserts one row.
LEMMA CreateTaskType ==
  ASSUME TypeOK, NEW scope \in {"Region", "Node"}, NEW node \in Nodes \cup {NULL},
         NEW gateway \in Gateways \cup {NULL}, CreateTask(scope, node, gateway)
  PROVE  TypeOK'
<1> DEFINE row == [Blank EXCEPT !.scope = scope, !.node = node, !.gateway = gateway]
<1>1. row \in Row
  BY DEF Blank, Row, Statuses
<1>2. pushes' \in [PushCalls -> Call \cup {IdleCall}]
  BY DEF CreateTask, TypeOK
<1> QED BY <1>1, <1>2, InsertTaskType DEF CreateTask

\* CancelTask changes a status.
LEMMA CancelTaskType ==
  ASSUME TypeOK, NEW t \in TaskIds, CancelTask(t)
  PROVE  TypeOK'
<1>1. tasks \in [TaskIds -> Row] /\ events \in [TaskIds -> Seq(Event)] /\ t \in Created
  BY DEF TypeOK, CancelTask
<1>2. tasks[t].status \in Statuses /\ "Cancelled" \in Statuses
  BY <1>1 DEF Row, Statuses
<1>3. tasks' \in [TaskIds -> Row]
  <2>1. [tasks[t] EXCEPT !.status = "Cancelled"] \in Row
    BY <1>1, <1>2 DEF Row
  <2> QED BY <1>1, <2>1 DEF CancelTask, UpdateStatus
<1>4. events' \in [TaskIds -> Seq(Event)]
  <2>1. [type |-> "status_change", old |-> tasks[t].status, new |-> "Cancelled"] \in Event
    BY <1>2 DEF Event
  <2> QED BY <1>1, <2>1, LoggedType DEF CancelTask, UpdateStatus, Logged
<1>5. Created' = Created
  BY DEF CancelTask, Created
<1>6. \A u \in TaskIds : u # t => tasks'[u] = tasks[u] /\ events'[u] = events[u]
  BY <1>1 DEF CancelTask, UpdateStatus, Logged
<1>7. \A u \in TaskIds \ Created' : tasks'[u] = Blank /\ runs'[u] = <<>> /\ events'[u] = <<>>
  BY <1>1, <1>5, <1>6 DEF TypeOK, CancelTask
<1> QED BY <1>3, <1>4, <1>7 DEF TypeOK, CancelTask

\* A child row is Pending and unowned.
LEMMA NodeRowIs ==
  ASSUME NEW parent, NEW node
  PROVE  /\ NodeRow(parent, node).status = "Pending"
         /\ NodeRow(parent, node).owner = NULL
         /\ parent \in TaskIds /\ node \in Nodes => NodeRow(parent, node) \in Row
BY DEF NodeRow, Blank, Row, Statuses

\* A deployment inserts its parent and one row per node.
LEMMA CreateDeploymentTaskType ==
  ASSUME TypeOK, NEW nodeIDs \in NodeLists, CreateDeploymentTask(nodeIDs)
  PROVE  TypeOK'
<1>1. nodeIDs \in Seq(Nodes) /\ Len(nodeIDs) \in Nat
  BY NodeListsType, LenProperties
<1>2. /\ created \in 0 .. MaxTasks
      /\ created + 1 + Len(nodeIDs) <= MaxTasks
      /\ created' = created + 1 + Len(nodeIDs)
  BY DEF TypeOK, CreateDeploymentTask
<1>3. created' \in 0 .. MaxTasks /\ created + 1 \in TaskIds /\ Created \subseteq Created'
  BY <1>1, <1>2, MaxTasksAssumption DEF TaskIds, Created
<1>4. tasks \in [TaskIds -> Row]
  BY DEF TypeOK
<1>5. ASSUME NEW t \in TaskIds, t > created + 1, t <= created'
      PROVE  NodeRow(created + 1, nodeIDs[t - (created + 1)]) \in Row
  <2>1. t - (created + 1) \in 1 .. Len(nodeIDs)
    BY <1>1, <1>2, <1>5, MaxTasksAssumption DEF TaskIds
  <2>2. nodeIDs[t - (created + 1)] \in Nodes
    BY <1>1, <2>1, ElementOfSeq
  <2> QED BY <1>3, <2>2, NodeRowIs
<1>6. tasks' \in [TaskIds -> Row]
  BY <1>4, <1>5, BlankType DEF CreateDeploymentTask
<1>7. ASSUME NEW t \in TaskIds \ Created'
      PROVE  tasks'[t] = Blank /\ runs'[t] = <<>> /\ events'[t] = <<>>
  <2>1. ~(t <= created') /\ t # created + 1
    BY <1>1, <1>2, <1>3, MaxTasksAssumption DEF TaskIds, Created
  <2>2. tasks'[t] = tasks[t]
    BY <2>1 DEF CreateDeploymentTask
  <2> QED BY <1>3, <2>2 DEF TypeOK, CreateDeploymentTask
<1> QED BY <1>3, <1>6, <1>7 DEF TypeOK, CreateDeploymentTask

\* A call only changes pushes when it starts, ends or skips a node.
LEMMA PushesOnlyType ==
  ASSUME TypeOK, pushes' \in [PushCalls -> Call \cup {IdleCall}],
         UNCHANGED <<created, tasks, runs, events>>
  PROVE  TypeOK'
BY DEF TypeOK, Created

\* A push call begins with its node list.
LEMMA PushRegionalTaskType ==
  ASSUME TypeOK, NEW c \in PushCalls, NEW g \in Gateways, NEW parent \in TaskIds,
         NEW nodes \in NodeLists, PushRegionalTask(c, g, parent, nodes)
  PROVE  TypeOK'
<1>1. [gateway |-> g, parent |-> parent, todo |-> nodes] \in Call
  BY NodeListsType DEF Call
<1>2. pushes' \in [PushCalls -> Call \cup {IdleCall}]
  BY <1>1 DEF TypeOK, PushRegionalTask
<1> QED BY <1>2, PushesOnlyType DEF PushRegionalTask

\* After a node the call is a call or over.
LEMMA NextNodeType ==
  ASSUME NEW call \in Call
  PROVE  NextNode(call) \in Call \cup {IdleCall}
<1>1. call.todo \in Seq(Nodes) /\ call.todo # <<>>
  BY DEF Call
<1>2. Tail(call.todo) \in Seq(Nodes) /\ Len(Tail(call.todo)) = Len(call.todo) - 1
  BY <1>1, HeadTailProperties
<1>3. CASE Len(call.todo) = 1
  BY <1>3 DEF NextNode
<1>4. CASE Len(call.todo) # 1
  <2>1. Len(call.todo) \in Nat \ {0}
    BY <1>1, EmptySeq
  <2>2. Len(Tail(call.todo)) # 0
    BY <1>2, <1>4, <2>1
  <2>3. Tail(call.todo) # <<>>
    BY <2>2, EmptySeq
  <2> QED BY <1>2, <1>4, <2>3 DEF NextNode, Call
<1> QED BY <1>3, <1>4

\* The row a call inserts: Delivered by a claim, still Pending.
LEMMA ExpandedRowIs ==
  ASSUME NEW call \in Call
  PROVE  /\ ExpandedRow(call) \in Row
         /\ ExpandedRow(call).status = "Pending"
         /\ ExpandedRow(call).gateway = call.gateway
         /\ ExpandedRow(call).owner = <<"claim", call.gateway>>
<1>1. Head(call.todo) \in Nodes
  BY HeadTailProperties DEF Call
<1>2. ExpandedRow(call) =
        [scope |-> "Node", parent |-> call.parent, status |-> "Pending",
         gateway |-> call.gateway, node |-> Head(call.todo), dispatch |-> "Delivered",
         owner |-> <<"claim", call.gateway>>]
  BY DEF ExpandedRow, MarkDelivered, AtomicClaim, NodeRow, Blank
<1> QED BY <1>1, <1>2 DEF Row, Call, Owners, Statuses

\* A call that is not idle is a call in progress.
LEMMA BusyCall ==
  ASSUME TypeOK, NEW c \in PushCalls, pushes[c] # IdleCall
  PROVE  /\ pushes[c] \in Call
         /\ [pushes EXCEPT ![c] = NextNode(@)] \in [PushCalls -> Call \cup {IdleCall}]
<1>1. pushes[c] \in Call /\ pushes \in [PushCalls -> Call \cup {IdleCall}]
  BY DEF TypeOK
<1>2. NextNode(pushes[c]) \in Call \cup {IdleCall}
  BY <1>1, NextNodeType
<1> QED BY <1>1, <1>2

\* Each round of a push leaves one node fewer.
LEMMA ExpandAndClaimType ==
  ASSUME TypeOK, NEW c \in PushCalls, expandAndClaim(c) \/ expandAndClaimFails(c)
  PROVE  TypeOK'
<1>1. pushes[c] # IdleCall /\ pushes' = [pushes EXCEPT ![c] = NextNode(@)]
  BY DEF expandAndClaim, expandAndClaimFails
<1>2. pushes[c] \in Call /\ pushes' \in [PushCalls -> Call \cup {IdleCall}]
  BY <1>1, BusyCall
<1>3. CASE expandAndClaim(c)
  BY <1>2, <1>3, ExpandedRowIs, InsertTaskType DEF expandAndClaim
<1>4. CASE expandAndClaimFails(c)
  BY <1>2, <1>4, PushesOnlyType DEF expandAndClaimFails
<1> QED BY <1>3, <1>4

\* A pull rewrites the rows it selected.
LEMMA PullTasksType ==
  ASSUME TypeOK, NEW g \in Gateways, NEW S \in SUBSET Created, NEW n, PullTasks(g, n, S)
  PROVE  TypeOK'
<1>1. tasks \in [TaskIds -> Row] /\ events \in [TaskIds -> Seq(Event)]
  BY DEF TypeOK
<1>2. tasks' \in [TaskIds -> Row]
  <2>1. ASSUME NEW t \in TaskIds PROVE DeliveredRow(tasks[t], g) \in Row
    <3> DEFINE owner == IF tasks[t].owner = NULL THEN <<"gateway:", g>> ELSE tasks[t].owner
    <3>1. tasks[t] \in Row
      BY <1>1
    <3>2. owner \in Owners \cup {NULL}
      BY <3>1 DEF Row, Owners
    <3>3. [tasks[t] EXCEPT !.status = "Running", !.dispatch = "Delivered", !.owner = owner] \in Row
      <4> HIDE DEF owner
      <4> QED BY <3>1, <3>2 DEF Row, Statuses
    <3> QED BY <3>3 DEF DeliveredRow
  <2> QED BY <1>1, <2>1 DEF PullTasks
<1>3. events' \in [TaskIds -> Seq(Event)]
  <2>1. DeliveredEvent \in Event
    BY DEF Event, Statuses, DeliveredEvent
  <2> QED BY <1>1, <2>1, AppendProperties DEF PullTasks
<1>4. Created' = Created
  BY DEF PullTasks, Created
<1>5. \A t \in TaskIds \ Created : tasks'[t] = tasks[t] /\ events'[t] = events[t]
  BY DEF PullTasks
<1> QED BY <1>2, <1>3, <1>4, <1>5 DEF TypeOK, PullTasks

\* A report appends one run to its task, of its node and with its outcome.
LEMMA ReportAppendsRun ==
  ASSUME TypeOK, NEW n \in Nodes, NEW t \in TaskIds, NEW raw, ReportTaskResult(n, t, raw)
  PROVE  LET k == Len(runs[t])
             run == [node |-> n, attempt |-> LatestAttempt(t) + 1,
                     status |-> normalizeReportedStatus(raw)]
         IN  /\ run \in Run
             /\ runs' = [runs EXCEPT ![t] = Append(@, run)]
             /\ k \in Nat /\ Len(runs'[t]) = k + 1
             /\ \A i \in 1 .. k : runs'[t][i] = runs[t][i]
             /\ runs'[t][k + 1] = run
<1> DEFINE run == [node |-> n, attempt |-> LatestAttempt(t) + 1,
                   status |-> normalizeReportedStatus(raw)]
<1>1. /\ runs \in [TaskIds -> Seq(Run)] /\ runs' = [runs EXCEPT ![t] = Append(@, run)]
      /\ normalizeReportedStatus(raw) # ""
  BY DEF TypeOK, ReportTaskResult, ReportAccepted, CreateTaskRun
<1>2. LatestAttempt(t) \in Nat
  <2>1. CASE runs[t] = <<>>
    BY <2>1 DEF LatestAttempt
  <2>2. CASE runs[t] # <<>>
    <3>1. runs[t] \in Seq(Run) /\ Len(runs[t]) \in Nat \ {0}
      BY <1>1, <2>2, EmptySeq
    <3>2. Len(runs[t]) \in 1 .. Len(runs[t])
      BY <3>1
    <3>3. runs[t][Len(runs[t])] \in Run
      BY <3>1, <3>2, ElementOfSeq
    <3> QED BY <2>2, <3>3 DEF LatestAttempt, Run
  <2> QED BY <2>1, <2>2
<1>3. normalizeReportedStatus(raw) \in ReportableStatuses
  BY <1>1, NormalizedIsReportable
<1>4. run \in Run
  BY <1>2, <1>3 DEF Run
<1> HIDE DEF run
<1>5. runs'[t] = Append(runs[t], run) /\ runs[t] \in Seq(Run)
  BY <1>1
<1>6. /\ Len(runs[t]) \in Nat /\ Len(runs'[t]) = Len(runs[t]) + 1
      /\ \A i \in 1 .. Len(runs[t]) : runs'[t][i] = runs[t][i]
      /\ runs'[t][Len(runs[t]) + 1] = run
  BY <1>4, <1>5, AppendProperties, LenProperties
<1> QED BY <1>1, <1>4, <1>6 DEF run

\* A report rewrites one row and adds a run.
LEMMA ReportTaskResultType ==
  ASSUME TypeOK, NEW n \in Nodes, NEW t \in TaskIds, NEW raw, ReportTaskResult(n, t, raw)
  PROVE  TypeOK'
<1> DEFINE new == normalizeReportedStatus(raw)
<1>1. /\ tasks \in [TaskIds -> Row] /\ events \in [TaskIds -> Seq(Event)]
      /\ runs \in [TaskIds -> Seq(Run)] /\ t \in Created
  BY DEF TypeOK, ReportTaskResult, ReportAccepted
<1>2. new \in Statuses /\ new \in ReportableStatuses
  BY NormalizedIsReportable DEF ReportTaskResult, ReportAccepted
<1>3. tasks' \in [TaskIds -> Row]
  <2>1. [tasks[t] EXCEPT !.status = new] \in Row
    BY <1>1, <1>2 DEF Row
  <2> QED BY <1>1, <2>1 DEF ReportTaskResult, UpdateResult
<1>4. events' \in [TaskIds -> Seq(Event)]
  <2>1. [type |-> "result_reported", old |-> tasks[t].status, new |-> new] \in Event
    BY <1>1, <1>2 DEF Event, Row
  <2> QED BY <1>1, <2>1, LoggedType DEF ReportTaskResult, UpdateResult, CreateTaskRun, Logged
<1>5. runs' \in [TaskIds -> Seq(Run)]
  <2> DEFINE run == [node |-> n, attempt |-> LatestAttempt(t) + 1, status |-> new]
  <2>1. run \in Run /\ runs' = [runs EXCEPT ![t] = Append(@, run)]
    BY ReportAppendsRun
  <2> HIDE DEF run
  <2> QED BY <1>1, <2>1, AppendProperties
<1>6. Created' = Created
  BY DEF ReportTaskResult, Created
<1>7. \A u \in TaskIds : u # t =>
          tasks'[u] = tasks[u] /\ events'[u] = events[u] /\ runs'[u] = runs[u]
  BY <1>1 DEF ReportTaskResult, UpdateResult, CreateTaskRun, Logged
<1>8. \A u \in TaskIds \ Created' : tasks'[u] = Blank /\ runs'[u] = <<>> /\ events'[u] = <<>>
  BY <1>1, <1>6, <1>7 DEF TypeOK
<1> QED BY <1>3, <1>4, <1>5, <1>8 DEF TypeOK, ReportTaskResult

\* What PullTasks delivers are inserted rows that were pullable.
LEMMA PulledIs ==
  ASSUME NEW g, NEW n, NEW locked
  PROVE  Pulled(g, n, locked) \subseteq Pullable(g, n) /\ Pulled(g, n, locked) \subseteq Created
BY DEF Pulled, Oldest, Pullable

\* Every handler keeps the types.
LEMMA TypeStep == TypeOK /\ [Next]_engineVars => TypeOK'
<1> SUFFICES ASSUME TypeOK, [Next]_engineVars PROVE TypeOK'
  OBVIOUS
<1>1. ASSUME NEW scope \in {"Region", "Node"}, NEW node \in Nodes \cup {NULL},
             NEW gateway \in Gateways \cup {NULL}, CreateTask(scope, node, gateway)
      PROVE  TypeOK'
  BY <1>1, CreateTaskType
<1>2. ASSUME NEW t \in TaskIds, CancelTask(t) PROVE TypeOK'
  BY <1>2, CancelTaskType
<1>3. ASSUME NEW nodeIDs \in NodeLists, CreateDeploymentTask(nodeIDs) PROVE TypeOK'
  BY <1>3, CreateDeploymentTaskType
<1>4. ASSUME NEW c \in PushCalls, NEW g \in Gateways, NEW parent \in TaskIds,
             NEW nodes \in NodeLists, PushRegionalTask(c, g, parent, nodes)
      PROVE  TypeOK'
  BY <1>4, PushRegionalTaskType
<1>5. ASSUME NEW c \in PushCalls, expandAndClaim(c) \/ expandAndClaimFails(c) PROVE TypeOK'
  BY <1>5, ExpandAndClaimType
<1>6. ASSUME NEW g \in Gateways, NEW n \in Nodes, NEW locked \in SUBSET Pullable(g, n),
             PullTasks(g, n, Pulled(g, n, locked))
      PROVE  TypeOK'
  BY <1>6, PullTasksType, PulledIs
<1>7. ASSUME NEW n \in Nodes, NEW t \in TaskIds, NEW raw \in Reported,
             ReportTaskResult(n, t, raw)
      PROVE  TypeOK'
  BY <1>7, ReportTaskResultType
<1>8. CASE UNCHANGED engineVars
  BY <1>8 DEF TypeOK, engineVars, Created
<1> QED BY <1>1, <1>2, <1>3, <1>4, <1>5, <1>6, <1>7, <1>8 DEF Next

\* The task tables keep their types: every handler writes rows, runs and events
\* of the columns' types, inserts only at fresh ids, and a PushRegionalTask call
\* in progress always has a node left to expand.
THEOREM TypeCorrect == Spec => []TypeOK
BY TypeInit, TypeStep, PTL DEF Spec

-------------------------------------------------------------------------------
(* Delivery, ownership and the audit trail *)

\* What makes the three invariants inductive, of one row and its log: the log
\* chains; a Pending row was never delivered, so that a pull is the first
\* delivery and leaves from the status its event names; no row is Retrying, the
\* other status a pull accepts; a row is owned through a gateway it admits also
\* before it runs.
Good(row, log) ==
    /\ Chained(log, row.status)
    /\ row.status # "Retrying"
    /\ row.status = "Pending" => DeliveredIn(log) = {}
    /\ \A i, j \in DeliveredIn(log) : i = j
    /\ row.owner # NULL => row.gateway \in {NULL, row.owner[2]}
    /\ row.status = "Running" => row.dispatch = "Delivered" /\ row.owner # NULL

DeliveryInv == \A t \in TaskIds : Good(tasks[t], events[t])

\* What appending an event does to a log, position by position.
LEMMA AppendLog ==
  ASSUME NEW log \in Seq(Event), NEW e \in Event
  PROVE  /\ Append(log, e) # <<>>
         /\ Len(log) \in Nat
         /\ Len(Append(log, e)) = Len(log) + 1
         /\ \A i \in 1 .. Len(log) : Append(log, e)[i] = log[i]
         /\ Append(log, e)[Len(log) + 1] = e
BY AppendProperties, LenProperties

\* An event that starts where the log ends extends the chain.
LEMMA AppendChained ==
  ASSUME NEW log \in Seq(Event), NEW e \in Event, NEW s
  PROVE  Chained(log, s) /\ (e.old = s \/ (log = <<>> /\ e.old = "")) =>
            Chained(Append(log, e), e.new)
<1> DEFINE l == Append(log, e)
<1>1. /\ l # <<>> /\ Len(l) = Len(log) + 1 /\ Len(log) \in Nat
      /\ \A i \in 1 .. Len(log) : l[i] = log[i]
      /\ l[Len(log) + 1] = e
  BY AppendLog
<1> HIDE DEF l
<1>2. ASSUME log = <<>>, Chained(log, s), e.old \in {"", s} PROVE Chained(l, e.new)
  <2>1. Len(log) = 0
    BY <1>2, EmptySeq
  <2>2. Len(l) = 1 /\ l[1] = e
    BY <1>1, <2>1
  <2>3. 1 .. Len(l) - 1 = {}
    BY <2>2
  <2>4. e.old \in {"", "Pending"}
    BY <1>2 DEF Chained
  <2> QED BY <1>1, <2>2, <2>3, <2>4 DEF Chained
<1>3. ASSUME log # <<>>, Chained(log, s), e.old = s PROVE Chained(l, e.new)
  <2>1. Len(log) \in Nat \ {0}
    BY <1>3, EmptySeq
  <2>2. 1 \in 1 .. Len(log) /\ Len(log) \in 1 .. Len(log)
    BY <2>1
  <2>3. l[1] = log[1] /\ l[Len(log)] = log[Len(log)] /\ l[Len(l)] = e
    BY <1>1, <2>2
  <2>4. ASSUME NEW i \in 1 .. Len(l) - 1, i # Len(log)
        PROVE  i \in 1 .. Len(log) - 1 /\ l[i] = log[i] /\ l[i + 1] = log[i + 1]
    <3>1. i \in 1 .. Len(log) - 1 /\ i \in 1 .. Len(log) /\ i + 1 \in 1 .. Len(log)
      BY <1>1, <2>1, <2>4
    <3> QED BY <1>1, <3>1
  <2>5. /\ log[1].old \in {"", "Pending"}
        /\ log[Len(log)].new = s
        /\ \A i \in 1 .. Len(log) - 1 : log[i + 1].old = log[i].new
    BY <1>3 DEF Chained
  <2>6. ASSUME NEW i \in 1 .. Len(l) - 1 PROVE l[i + 1].old = l[i].new
    <3>1. CASE i = Len(log)
      <4>1. l[i + 1] = e /\ l[i] = log[Len(log)]
        BY <1>1, <2>3, <3>1
      <4> QED BY <1>3, <2>5, <4>1
    <3>2. CASE i # Len(log)
      BY <2>4, <2>5, <3>2
    <3> QED BY <3>1, <3>2
  <2> QED BY <1>1, <2>3, <2>5, <2>6 DEF Chained
<1> QED BY <1>2, <1>3 DEF l

\* Appending an event adds its position to the deliveries, if it is one.
LEMMA AppendDelivered ==
  ASSUME NEW log \in Seq(Event), NEW e \in Event
  PROVE  DeliveredIn(Append(log, e)) =
            IF e.type = "delivered" THEN DeliveredIn(log) \cup {Len(log) + 1} ELSE DeliveredIn(log)
<1> DEFINE l == Append(log, e)
<1>1. /\ Len(l) = Len(log) + 1 /\ Len(log) \in Nat
      /\ \A i \in 1 .. Len(log) : l[i] = log[i]
      /\ l[Len(log) + 1] = e
  BY AppendProperties, LenProperties
<1>2. 1 .. Len(l) = (1 .. Len(log)) \cup {Len(log) + 1}
  BY <1>1
<1> HIDE DEF l
<1>3. DeliveredIn(l) =
        IF e.type = "delivered" THEN DeliveredIn(log) \cup {Len(log) + 1} ELSE DeliveredIn(log)
  BY <1>1, <1>2 DEF DeliveredIn
<1> QED BY <1>3 DEF l

\* A row that is moved, outside a pull, to a status other than Running, Retrying
\* or Pending, with the event for it, stays good.
LEMMA MovedIsGood ==
  ASSUME NEW row \in Row, NEW log \in Seq(Event), Good(row, log),
         NEW type \in {"status_change", "result_reported"},
         NEW new \in Statuses \ {"Pending", "Running", "Retrying"}
  PROVE  Good([row EXCEPT !.status = new],
              Append(log, [type |-> type, old |-> row.status, new |-> new]))
<1> DEFINE e == [type |-> type, old |-> row.status, new |-> new]
           r == [row EXCEPT !.status = new]
<1>1. e \in Event /\ e.old = row.status /\ e.new = new /\ e.type # "delivered"
  BY DEF Event, Row
<1>2. r.status = new /\ r.owner = row.owner /\ r.gateway = row.gateway
  BY DEF Row
<1> HIDE DEF e, r
<1>3. Chained(Append(log, e), new)
  BY <1>1, AppendChained DEF Good
<1>4. DeliveredIn(Append(log, e)) = DeliveredIn(log)
  BY <1>1, AppendDelivered
<1>5. Good(r, Append(log, e))
  BY <1>2, <1>3, <1>4 DEF Good
<1> QED BY <1>5 DEF e, r

\* An inserted row, Pending and owned through a gateway it admits, is good.
LEMMA InsertedIsGood ==
  ASSUME NEW row \in Row, row.status = "Pending",
         row.owner # NULL => row.gateway \in {NULL, row.owner[2]},
         NEW type \in {"created", "expanded"}
  PROVE  Good(row, Append(<<>>, [type |-> type, old |-> "", new |-> row.status]))
<1> DEFINE e == [type |-> type, old |-> "", new |-> row.status]
<1>1. e \in Event /\ e.old = "" /\ e.new = "Pending" /\ e.type # "delivered"
  BY DEF Event, Row
<1>2. <<>> \in Seq(Event) /\ Len(<<>>) = 0
  BY EmptySeq
<1> HIDE DEF e
<1>3. Chained(Append(<<>>, e), "Pending")
  <2>1. Chained(<<>>, "Pending")
    BY DEF Chained
  <2> QED BY <1>1, <1>2, <2>1, AppendChained
<1>4. DeliveredIn(Append(<<>>, e)) = {}
  <2>1. DeliveredIn(<<>>) = {}
    BY DEF DeliveredIn
  <2> QED BY <1>1, <1>2, <2>1, AppendDelivered
<1>5. Good(row, Append(<<>>, e))
  BY <1>3, <1>4 DEF Good
<1> QED BY <1>5 DEF e

\* A pullable row stays good when it is delivered.
LEMMA PulledIsGood ==
  ASSUME NEW row \in Row, NEW log \in Seq(Event), Good(row, log), NEW g \in Gateways,
         row.status \in {"Pending", "Retrying"}, row.gateway \in {NULL, g}
  PROVE  Good(DeliveredRow(row, g), Append(log, DeliveredEvent))
<1> DEFINE e == DeliveredEvent
           o == IF row.owner = NULL THEN <<"gateway:", g>> ELSE row.owner
           r == DeliveredRow(row, g)
<1>1. e \in Event /\ e.old = "Pending" /\ e.new = "Running" /\ e.type = "delivered"
  BY DEF Event, Statuses, DeliveredEvent
<1>2. /\ r.status = "Running" /\ r.dispatch = "Delivered" /\ r.owner = o
      /\ r.gateway = row.gateway
  BY DEF Row, DeliveredRow
<1>3. o # NULL /\ row.gateway \in {NULL, o[2]}
  <2>1. CASE row.owner = NULL
    BY <2>1, NullAssumption DEF Owners
  <2>2. CASE row.owner # NULL
    BY <2>2 DEF Good
  <2> QED BY <2>1, <2>2
<1> HIDE DEF e, o, r
<1>4. Chained(Append(log, e), "Running") /\ row.status = "Pending"
  BY <1>1, AppendChained DEF Good
<1>5. DeliveredIn(Append(log, e)) = {Len(log) + 1}
  BY <1>1, <1>4, AppendDelivered DEF Good
<1>6. Good(r, Append(log, e))
  BY <1>2, <1>3, <1>4, <1>5 DEF Good
<1> QED BY <1>6 DEF e, o, r

\* Inserting a row with its event, at the next id, keeps the invariant.
LEMMA InsertTaskGood ==
  ASSUME TypeOK, DeliveryInv, NEW row \in Row, NEW type \in {"created", "expanded"},
         row.status = "Pending", row.owner # NULL => row.gateway \in {NULL, row.owner[2]},
         InsertTask(row, type)
  PROVE  DeliveryInv'
<1>1. created + 1 \in TaskIds \ Created
  BY NextIdType DEF TypeOK, InsertTask
<1>2. /\ tasks \in [TaskIds -> Row] /\ events \in [TaskIds -> Seq(Event)]
      /\ events[created + 1] = <<>>
  BY <1>1 DEF TypeOK
<1>3. ASSUME NEW t \in TaskIds PROVE Good(tasks'[t], events'[t])
  <2>1. CASE t = created + 1
    <3>1. /\ tasks'[t] = row
          /\ events'[t] = Append(<<>>, [type |-> type, old |-> "", new |-> row.status])
      BY <1>2, <2>1 DEF InsertTask, Logged
    <3> QED BY <3>1, InsertedIsGood
  <2>2. CASE t # created + 1
    <3>1. tasks'[t] = tasks[t] /\ events'[t] = events[t]
      BY <1>2, <2>2 DEF InsertTask, Logged
    <3> QED BY <3>1 DEF DeliveryInv
  <2> QED BY <2>1, <2>2
<1> QED BY <1>3 DEF DeliveryInv

\* CancelTask and ReportTaskResult move one inserted row.
LEMMA MoveGood ==
  ASSUME TypeOK, DeliveryInv, NEW t \in TaskIds,
         NEW type \in {"status_change", "result_reported"},
         NEW new \in Statuses \ {"Pending", "Running", "Retrying"},
         tasks' = [tasks EXCEPT ![t].status = new],
         events' = Logged(t, type, tasks[t].status, new)
  PROVE  DeliveryInv'
<1>1. tasks \in [TaskIds -> Row] /\ events \in [TaskIds -> Seq(Event)]
  BY DEF TypeOK
<1>2. ASSUME NEW u \in TaskIds PROVE Good(tasks'[u], events'[u])
  <2>1. CASE u = t
    <3>1. /\ tasks'[u] = [tasks[t] EXCEPT !.status = new]
          /\ events'[u] = Append(events[t], [type |-> type, old |-> tasks[t].status, new |-> new])
      BY <1>1, <2>1 DEF Logged
    <3>2. tasks[t] \in Row /\ events[t] \in Seq(Event) /\ Good(tasks[t], events[t])
      BY <1>1 DEF DeliveryInv
    <3> QED BY <3>1, <3>2, MovedIsGood
  <2>2. CASE u # t
    <3>1. tasks'[u] = tasks[u] /\ events'[u] = events[u]
      BY <1>1, <2>2 DEF Logged
    <3> QED BY <3>1 DEF DeliveryInv
  <2> QED BY <2>1, <2>2
<1> QED BY <1>2 DEF DeliveryInv

\* A row not inserted yet is good with no log.
LEMMA BlankIsGood == Good(Blank, <<>>)
<1>1. DeliveredIn(<<>>) = {}
  BY DEF DeliveredIn
<1> QED BY <1>1 DEF Good, Blank, Chained

\* The rows of a deployment are good as inserted.
LEMMA CreateDeploymentTaskGood ==
  ASSUME TypeOK, DeliveryInv, NEW nodeIDs \in NodeLists, CreateDeploymentTask(nodeIDs)
  PROVE  DeliveryInv'
<1>1. created \in 0 .. MaxTasks
  BY DEF TypeOK
<1>2. ASSUME NEW t \in TaskIds PROVE Good(tasks'[t], events'[t])
  <2>1. CASE t <= created
    <3>1. t # created + 1 /\ ~(t > created + 1)
      BY <1>1, <2>1, MaxTasksAssumption DEF TaskIds
    <3>2. tasks'[t] = tasks[t] /\ events'[t] = events[t]
      BY <3>1 DEF CreateDeploymentTask
    <3> QED BY <3>2 DEF DeliveryInv
  <2>2. CASE ~(t <= created)
    <3>1. t \in TaskIds \ Created
      BY <1>1, <2>2, MaxTasksAssumption DEF TaskIds, Created
    <3>2. tasks[t] = Blank /\ events'[t] = <<>>
      BY <3>1 DEF TypeOK, CreateDeploymentTask
    <3>3. \/ tasks'[t] = Blank
          \/ tasks'[t] = NodeRow(created + 1, nodeIDs[t - (created + 1)])
      BY <3>2 DEF CreateDeploymentTask
    <3>4. /\ tasks'[t].status = "Pending" /\ tasks'[t].owner = NULL
      BY <3>3, NodeRowIs DEF Blank
    <3> QED BY <3>2, <3>4, BlankIsGood DEF Good, Blank
  <2> QED BY <2>1, <2>2
<1> QED BY <1>2 DEF DeliveryInv

\* A pulled row gets its first delivery.
LEMMA PullTasksGood ==
  ASSUME TypeOK, DeliveryInv, NEW g \in Gateways, NEW n, NEW S \in SUBSET Pullable(g, n),
         PullTasks(g, n, S)
  PROVE  DeliveryInv'
<1>1. tasks \in [TaskIds -> Row] /\ events \in [TaskIds -> Seq(Event)]
  BY DEF TypeOK
<1>2. ASSUME NEW t \in TaskIds PROVE Good(tasks'[t], events'[t])
  <2>1. tasks[t] \in Row /\ events[t] \in Seq(Event) /\ Good(tasks[t], events[t])
    BY <1>1 DEF DeliveryInv
  <2>2. CASE t \in S
    <3>1. tasks[t].status \in {"Pending", "Retrying"} /\ tasks[t].gateway \in {NULL, g}
      BY <2>2 DEF Pullable
    <3>2. tasks'[t] = DeliveredRow(tasks[t], g) /\ events'[t] = Append(events[t], DeliveredEvent)
      BY <2>2 DEF PullTasks
    <3> QED BY <2>1, <3>1, <3>2, PulledIsGood
  <2>3. CASE t \notin S
    BY <2>1, <2>3 DEF PullTasks
  <2> QED BY <2>2, <2>3
<1> QED BY <1>2 DEF DeliveryInv

\* A reported row leaves for a status no pull looks for.
LEMMA ReportTaskResultGood ==
  ASSUME TypeOK, DeliveryInv, NEW n \in Nodes, NEW t \in TaskIds, NEW raw,
         ReportTaskResult(n, t, raw)
  PROVE  DeliveryInv'
<1> DEFINE new == normalizeReportedStatus(raw)
<1>1. new \in Statuses \ {"Pending", "Running", "Retrying"}
  BY NormalizedIsReportable DEF ReportTaskResult, ReportAccepted
<1>2. /\ tasks' = [tasks EXCEPT ![t].status = new]
      /\ events' = Logged(t, "result_reported", tasks[t].status, new)
  BY DEF ReportTaskResult, UpdateResult
<1> HIDE DEF new
<1> QED BY <1>1, <1>2, MoveGood

\* All rows are good at first.
LEMMA DeliveryInit == Init => DeliveryInv
BY BlankIsGood DEF Init, DeliveryInv

\* Every handler keeps all rows good.
LEMMA DeliveryStep == TypeOK /\ DeliveryInv /\ [Next]_engineVars => DeliveryInv'
<1> SUFFICES ASSUME TypeOK, DeliveryInv, [Next]_engineVars PROVE DeliveryInv'
  OBVIOUS
<1>1. ASSUME NEW scope \in {"Region", "Node"}, NEW node \in Nodes \cup {NULL},
             NEW gateway \in Gateways \cup {NULL}, CreateTask(scope, node, gateway)
      PROVE  DeliveryInv'
  <2> DEFINE row == [Blank EXCEPT !.scope = scope, !.node = node, !.gateway = gateway]
  <2>1. row \in Row /\ row.status = "Pending" /\ row.owner = NULL
    BY DEF Blank, Row, Statuses
  <2> QED BY <1>1, <2>1, InsertTaskGood DEF CreateTask
<1>2. ASSUME NEW t \in TaskIds, CancelTask(t) PROVE DeliveryInv'
  <2>1. "Cancelled" \in Statuses \ {"Pending", "Running", "Retrying"}
    BY DEF Statuses
  <2> QED BY <1>2, <2>1, MoveGood DEF CancelTask, UpdateStatus
<1>3. ASSUME NEW nodeIDs \in NodeLists, CreateDeploymentTask(nodeIDs) PROVE DeliveryInv'
  BY <1>3, CreateDeploymentTaskGood
<1>4. ASSUME NEW c \in PushCalls, expandAndClaim(c) PROVE DeliveryInv'
  <2>1. pushes[c] \in Call /\ InsertTask(ExpandedRow(pushes[c]), "expanded")
    BY <1>4, BusyCall DEF expandAndClaim
  <2>2. /\ ExpandedRow(pushes[c]) \in Row
        /\ ExpandedRow(pushes[c]).status = "Pending"
        /\ ExpandedRow(pushes[c]).gateway = ExpandedRow(pushes[c]).owner[2]
    BY <2>1, ExpandedRowIs
  <2> QED BY <2>1, <2>2, InsertTaskGood
<1>5. ASSUME NEW g \in Gateways, NEW n \in Nodes, NEW locked \in SUBSET Pullable(g, n),
             PullTasks(g, n, Pulled(g, n, locked))
      PROVE  DeliveryInv'
  BY <1>5, PullTasksGood, PulledIs
<1>6. ASSUME NEW n \in Nodes, NEW t \in TaskIds, NEW raw \in Reported,
             ReportTaskResult(n, t, raw)
      PROVE  DeliveryInv'
  BY <1>6, ReportTaskResultGood
<1>7. CASE UNCHANGED <<tasks, events>>
  BY <1>7 DEF DeliveryInv
<1>8. ASSUME NEW c \in PushCalls, NEW g \in Gateways, NEW parent \in TaskIds,
             NEW nodes \in NodeLists, PushRegionalTask(c, g, parent, nodes)
      PROVE  DeliveryInv'
  BY <1>7, <1>8 DEF PushRegionalTask
<1>9. ASSUME NEW c \in PushCalls, expandAndClaimFails(c) PROVE DeliveryInv'
  BY <1>7, <1>9 DEF expandAndClaimFails
<1> QED BY <1>1, <1>2, <1>3, <1>4, <1>5, <1>6, <1>7, <1>8, <1>9 DEF Next, engineVars

\* All rows are good in every reachable state.
LEMMA DeliveryInvariant == Spec => []DeliveryInv
BY DeliveryInit, DeliveryStep, TypeCorrect, PTL DEF Spec

\* The inserted ids are ids.
LEMMA CreatedInIds == TypeOK => Created \subseteq TaskIds
<1> SUFFICES ASSUME TypeOK PROVE Created \subseteq TaskIds
  OBVIOUS
<1>1. created \in 0 .. MaxTasks
  BY DEF TypeOK
<1> QED BY <1>1, MaxTasksAssumption DEF Created, TaskIds

\* A NodeTask is handed to an agent at most once, for any number of gateways
\* pulling, regional pushes, cancellations and repeated reports in any order.
THEOREM DeliveryAtMostOnce == Spec => []DeliveredAtMostOnce
<1>1. TypeOK /\ DeliveryInv => DeliveredAtMostOnce
  BY CreatedInIds DEF DeliveryInv, Good, DeliveredAtMostOnce, Deliveries
<1> QED BY <1>1, TypeCorrect, DeliveryInvariant, PTL

\* The task_events of a task always lead from its insertion to the status its
\* row holds, although PullTasks writes a fixed old status.
THEOREM AuditTrailCorrect == Spec => []EventLogExplainsStatus
<1>1. TypeOK /\ DeliveryInv => EventLogExplainsStatus
  BY CreatedInIds DEF DeliveryInv, Good, EventLogExplainsStatus
<1> QED BY <1>1, TypeCorrect, DeliveryInvariant, PTL

\* A Running task was delivered by, and is owned through, a gateway its row admits.
THEOREM OwnershipCorrect == Spec => []RunningIsOwned
<1>1. TypeOK /\ DeliveryInv => RunningIsOwned
  BY CreatedInIds DEF DeliveryInv, Good, RunningIsOwned
<1> QED BY <1>1, TypeCorrect, DeliveryInvariant, PTL
===============================================================================
