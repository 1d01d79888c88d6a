--------------------------- MODULE TaskRunnerProofs ---------------------------
(***************************************************************************)
(* Proofs about TaskRunner for any nodes, gateways and bounds: over agent  *)
(* crashes, lost answers and replayed reports a task is executed at most   *)
(* once, only its true outcome is stored, and a saved result is kept until *)
(* the database holds it; the engine under the agents still implements the *)
(* ledger, with no bound on the reports.                                   *)
(***************************************************************************)
EXTENDS TaskRunner, TaskRefinementProofs

-------------------------------------------------------------------------------
(* The engine under the agents *)

\* What the engine does in a step of the composition: any step of its own, or a
\* report, of which an agent may make more than the bound of Next.
EngineStep ==
    \/ [Next]_engineVars
    \/ \E n \in Nodes, t \in TaskIds, raw \in RawStatuses : ReportTaskResult(n, t, raw)

\* Such a step keeps the engine's invariants.
LEMMA EngineKeepsInv == TypeOK /\ DeliveryInv /\ EngineStep => TypeOK' /\ DeliveryInv'
BY TypeStep, DeliveryStep, ReportTaskResultType, ReportTaskResultGood DEF EngineStep

\* One target node makes a node list.
LEMMA SingletonList == \A n \in Nodes : <<n>> \in NodeLists
<1> SUFFICES ASSUME NEW n \in Nodes PROVE <<n>> \in NodeLists
  OBVIOUS
<1>1. <<n>> \in [1 .. 1 -> Nodes] /\ 1 \in 1 .. 2
  OBVIOUS
<1>2. \A i, j \in DOMAIN <<n>> : i = j
  OBVIOUS
<1> QED BY <1>1, <1>2 DEF NodeLists

\* Everything agents and control plane do is such a step.
LEMMA SysStepIsEngineStep == [SysNext]_sysVars => EngineStep
<1> SUFFICES ASSUME [SysNext]_sysVars PROVE EngineStep
  OBVIOUS
<1>1. ASSUME ControlPlane PROVE Next
  <2>1. ASSUME NEW n \in Nodes, NEW gateway \in {NULL, Home[n]}, CreateTask("Node", n, gateway)
        PROVE  Next
    BY <2>1, HomeAssumption DEF Next
  <2>2. ASSUME CreateTask("Region", NULL, NULL) PROVE Next
    BY <2>2 DEF Next
  <2>3. ASSUME NEW t \in TaskIds, CancelTask(t) PROVE Next
    BY <2>3 DEF Next
  <2>4. ASSUME NEW n \in Nodes, CreateDeploymentTask(<<n>>) PROVE Next
    BY <2>4, SingletonList DEF Next
  <2>5. ASSUME NEW c \in PushCalls, NEW g \in Gateways, NEW parent \in TaskIds, NEW n \in Nodes,
               PushRegionalTask(c, g, parent, <<n>>)
        PROVE  Next
    BY <2>5, SingletonList DEF Next
  <2>6. ASSUME NEW c \in PushCalls, expandAndClaim(c) \/ expandAndClaimFails(c) PROVE Next
    BY <2>6 DEF Next
  <2> QED BY <1>1, <2>1, <2>2, <2>3, <2>4, <2>5, <2>6 DEF ControlPlane
<1>2. ASSUME NEW n \in Nodes, NEW locked \in SUBSET TaskIds,
             PullAnswered(n, locked) \/ PullLost(n, locked)
      PROVE  Next
  <2>1. Home[n] \in Gateways /\ PullTasks(Home[n], n, Pulled(Home[n], n, locked))
    BY <1>2, HomeAssumption DEF PullAnswered, PullLost
  <2>2. PICK mine \in SUBSET Pullable(Home[n], n) : mine = locked \cap Pullable(Home[n], n)
    OBVIOUS
  <2>3. Pullable(Home[n], n) \ mine = Pullable(Home[n], n) \ locked
    BY <2>2
  <2>4. Pulled(Home[n], n, mine) = Pulled(Home[n], n, locked)
    BY <2>3 DEF Pulled
  <2>5. PullTasks(Home[n], n, Pulled(Home[n], n, mine))
    BY <2>1, <2>4
  <2> QED BY <2>1, <2>5 DEF Next
<1>3. ASSUME NEW n \in Nodes, NEW t \in TaskIds, ReportAnswered(n, t) \/ ReportLost(n, t)
      PROVE  EngineStep
  <2>1. ReportTaskResult(n, t, RawOf(job[n][t].result))
    BY <1>3 DEF ReportAnswered, ReportLost
  <2>2. RawOf(job[n][t].result) \in RawStatuses
    BY DEF RawOf, RawStatuses
  <2> QED BY <2>1, <2>2 DEF EngineStep
<1>4. ASSUME NEW n \in Nodes, AgentStep(n)
      PROVE  EngineStep
  <2>1. ASSUME NEW t \in TaskIds,
               \/ DrainSkip(n, t) \/ DrainEntry(n, t)
               \/ \E result \in Outcomes : Execute(n, t, result)
               \/ SaveBegin(n, t) \/ SaveEnd(n, t) \/ SaveFails(n, t)
               \/ ReportFails(n, t) \/ removePendingResult(n, t)
        PROVE  UNCHANGED engineVars
    BY <2>1 DEF DrainSkip, DrainEntry, Execute, SaveBegin, SaveEnd, SaveFails, ReportFails,
                removePendingResult
  <2>2. ASSUME Start(n) \/ Crash(n) \/ DrainDone(n) \/ Poll(n) PROVE UNCHANGED engineVars
    BY <2>2 DEF Start, Crash, DrainDone, Poll
  <2> QED BY <1>2, <1>3, <1>4, <2>1, <2>2 DEF AgentStep, EngineStep
<1> QED BY <1>1, <1>4 DEF SysNext, sysVars, EngineStep

\* The engine's invariants hold with the agents beside it.
LEMMA EngineInvariant == SysSpec => [](TypeOK /\ DeliveryInv)
<1>1. SysInit => TypeOK /\ DeliveryInv
  BY TypeInit, DeliveryInit DEF SysInit
<1>2. TypeOK /\ DeliveryInv /\ [SysNext]_sysVars => TypeOK' /\ DeliveryInv'
  BY SysStepIsEngineStep, EngineKeepsInv
<1> QED BY <1>1, <1>2, PTL DEF SysSpec

\* The runs stay numbered with the agents beside the engine.
LEMMA NumberedUnderAgents == SysSpec => []RunsNumbered
<1>1. SysInit => RunsNumbered
  BY NumberedInit DEF SysInit
<1>2. TypeOK /\ RunsNumbered /\ [SysNext]_sysVars => RunsNumbered'
  BY SysStepIsEngineStep, NumberedStep, NumberedReport DEF EngineStep
<1> QED BY <1>1, <1>2, EngineInvariant, PTL DEF SysSpec

\* Over crashes, lost answers and replayed reports, of which there may be more than the
\* engine's own specification bounds, what agents and control plane do to the tables is
\* what the ledger allows: a replay only ends its task again and appends a result.
THEOREM SystemImplementsLedger == SysSpec => ImplementsLedger
<1>1. SysInit => Ledger!LedgerInit
  BY LedgerInit DEF SysInit
<1>2. TypeOK /\ TypeOK' /\ RunsNumbered /\ [SysNext]_sysVars
        => [Ledger!LedgerNext]_Ledger!ledgerVars
  BY SysStepIsEngineStep, LedgerStep, MapsToReport DEF EngineStep
<1> QED BY <1>1, <1>2, EngineInvariant, NumberedUnderAgents, PTL
        DEF SysSpec, ImplementsLedger, Ledger!LedgerSpec

\* A log that grows keeps its deliveries.
LEMMA DeliveredKept ==
  ASSUME NEW log \in Seq(Event), NEW e \in Event, DeliveredIn(log) # {}
  PROVE  DeliveredIn(Append(log, e)) # {}
BY AppendDelivered

\* A row is kept if it stays inserted and for its node, and its log only grows.
RowKept(t) ==
    /\ t \in Created'
    /\ tasks'[t].node = tasks[t].node
    /\ \/ events'[t] = events[t]
       \/ \E e \in Event : events'[t] = Append(events[t], e)

\* An insertion leaves the rows that exist alone.
LEMMA InsertKeepsRows ==
  ASSUME TypeOK, NEW row \in Row, NEW type, InsertTask(row, type), NEW t \in Created
  PROVE  RowKept(t)
<1>1. created \in Nat /\ created' = created + 1
  <2>1. created \in 0 .. MaxTasks
    BY DEF TypeOK
  <2>2. created \in Nat
    BY <2>1, MaxTasksAssumption
  <2>3. created' = created + 1
    BY DEF InsertTask
  <2> QED BY <2>2, <2>3
<1>2. t # created + 1 /\ t \in Created'
  BY <1>1 DEF Created
<1>3. t \in TaskIds /\ tasks \in [TaskIds -> Row] /\ events \in [TaskIds -> Seq(Event)]
  BY CreatedInIds DEF TypeOK
<1> QED BY <1>2, <1>3 DEF RowKept, InsertTask, Logged

\* A handler changes an existing row's status and log only by appending.
LEMMA EngineKeepsRows ==
  ASSUME TypeOK, EngineStep, NEW t \in Created
  PROVE  RowKept(t)
<1>1. /\ t \in TaskIds /\ tasks \in [TaskIds -> Row] /\ events \in [TaskIds -> Seq(Event)]
      /\ created \in 0 .. MaxTasks
  BY CreatedInIds DEF TypeOK
<1>2. ASSUME NEW u \in TaskIds, CancelTask(u) PROVE RowKept(t)
  <2>1. "Cancelled" \in Statuses /\ tasks[u].status \in Statuses
    BY <1>1 DEF Statuses, Row
  <2>2. [type |-> "status_change", old |-> tasks[u].status, new |-> "Cancelled"] \in Event
    BY <2>1 DEF Event
  <2> QED BY <1>1, <1>2, <2>2 DEF RowKept, CancelTask, UpdateStatus, Logged, Created, Row
<1>3. ASSUME NEW nodeIDs \in NodeLists, CreateDeploymentTask(nodeIDs) PROVE RowKept(t)
  <2>1. Len(nodeIDs) \in Nat
    BY NodeListsType, LenProperties
  <2>2. t # created + 1 /\ ~(t > created + 1) /\ t \in Created'
    BY <1>1, <1>3, <2>1 DEF Created, CreateDeploymentTask
  <2> QED BY <1>1, <1>3, <2>2 DEF RowKept, CreateDeploymentTask
<1>4. ASSUME NEW g \in Gateways, NEW n \in Nodes, NEW S, PullTasks(g, n, S)
      PROVE  RowKept(t)
  <2>1. DeliveredEvent \in Event
    BY DEF Event, Statuses, DeliveredEvent
  <2>2. DeliveredRow(tasks[t], g).node = tasks[t].node
    BY <1>1 DEF DeliveredRow, Row
  <2> QED BY <1>1, <1>4, <2>1, <2>2 DEF RowKept, PullTasks, Created
<1>5. ASSUME NEW n \in Nodes, NEW u \in TaskIds, NEW raw, ReportTaskResult(n, u, raw)
      PROVE  RowKept(t)
  <2> DEFINE new == normalizeReportedStatus(raw)
  <2>1. new \in Statuses /\ tasks[u].status \in Statuses
    BY <1>1, <1>5, NormalizedIsReportable DEF ReportTaskResult, ReportAccepted, Row
  <2>2. /\ tasks' = [tasks EXCEPT ![u].status = new] /\ created' = created
        /\ events' = Logged(u, "result_reported", tasks[u].status, new)
    BY <1>5 DEF ReportTaskResult, UpdateResult
  <2> HIDE DEF new
  <2>3. [type |-> "result_reported", old |-> tasks[u].status, new |-> new] \in Event
    BY <2>1 DEF Event
  <2> QED BY <1>1, <2>2, <2>3 DEF RowKept, Logged, Created, Row
<1>6. CASE UNCHANGED <<created, tasks, events>>
  BY <1>6 DEF RowKept, Created
<1>7. ASSUME NEW scope \in {"Region", "Node"}, NEW node \in Nodes \cup {NULL},
             NEW gateway \in Gateways \cup {NULL}, CreateTask(scope, node, gateway)
      PROVE  RowKept(t)
  <2>1. [Blank EXCEPT !.scope = scope, !.node = node, !.gateway = gateway] \in Row
    BY DEF Blank, Row, Statuses
  <2> QED BY <1>7, <2>1, InsertKeepsRows DEF CreateTask
<1>8. ASSUME NEW c \in PushCalls, expandAndClaim(c) PROVE RowKept(t)
  <2>1. ExpandedRow(pushes[c]) \in Row
    BY <1>8, BusyCall, ExpandedRowIs DEF expandAndClaim
  <2> QED BY <1>8, <2>1, InsertKeepsRows DEF expandAndClaim
<1> QED BY <1>2, <1>3, <1>4, <1>5, <1>6, <1>7, <1>8
        DEF EngineStep, Next, engineVars, expandAndClaimFails, PushRegionalTask

\* The task is the node's and was delivered.
HandedTo(n, t) == t \in Created /\ tasks[t].node = n /\ Deliveries(t) # {}

\* A task handed to a node stays handed to it.
LEMMA HandedKept ==
  ASSUME TypeOK, EngineStep, NEW n, NEW t, HandedTo(n, t)
  PROVE  HandedTo(n, t)'
<1>1. t \in Created /\ events[t] \in Seq(Event) /\ DeliveredIn(events[t]) # {}
  BY CreatedInIds DEF HandedTo, TypeOK, Deliveries
<1>2. RowKept(t)
  BY <1>1, EngineKeepsRows
<1>3. DeliveredIn(events'[t]) # {}
  BY <1>1, <1>2, DeliveredKept DEF RowKept
<1> QED BY <1>2, <1>3 DEF RowKept, HandedTo, Deliveries

\* What a pull delivers is handed to the node, and was not delivered before.
LEMMA PulledIsHanded ==
  ASSUME TypeOK, DeliveryInv, NEW g \in Gateways, NEW n \in Nodes, NEW locked,
         PullTasks(g, n, Pulled(g, n, locked)), NEW t \in Pulled(g, n, locked)
  PROVE  Deliveries(t) = {} /\ t \in TaskIds /\ HandedTo(n, t)'
<1>1. t \in Created /\ t \in TaskIds /\ t \in Pullable(g, n)
  BY PulledIs, CreatedInIds
<1>2. /\ tasks[t] \in Row /\ events[t] \in Seq(Event) /\ tasks[t].node = n
      /\ tasks[t].status = "Pending"
  BY <1>1 DEF TypeOK, Pullable, DeliveryInv, Good
<1>3. DeliveredIn(events[t]) = {}
  BY <1>1, <1>2 DEF DeliveryInv, Good
<1>4. tasks'[t].node = n /\ events'[t] = Append(events[t], DeliveredEvent) /\ Created' = Created
  BY <1>1, <1>2 DEF PullTasks, DeliveredRow, Row, Created
<1>5. DeliveredIn(events'[t]) # {}
  <2>1. DeliveredEvent \in Event /\ DeliveredEvent.type = "delivered"
    BY DEF Event, Statuses, DeliveredEvent
  <2> QED BY <1>2, <1>4, <2>1, AppendDelivered
<1> QED BY <1>1, <1>3, <1>4, <1>5 DEF Deliveries, HandedTo

\* The runs of a task change only by a report for it, which appends one.
LEMMA EngineKeepsRuns ==
  ASSUME EngineStep
  PROVE  \/ UNCHANGED runs
         \/ \E n \in Nodes, t \in TaskIds, raw \in RawStatuses : ReportTaskResult(n, t, raw)
BY ReportedAssumption DEF EngineStep, Next, engineVars, CreateTask, CancelTask,
   CreateDeploymentTask, PushRegionalTask, expandAndClaim, expandAndClaimFails, PullTasks

\* The runs a task has are kept, at their positions.
RunsKept(t) == \A i \in 1 .. Len(runs[t]) : i \in 1 .. Len(runs'[t]) /\ runs'[t][i] = runs[t][i]

\* A report appends to the runs.
LEMMA ReportKeepsRuns ==
  ASSUME TypeOK, NEW n \in Nodes, NEW u \in TaskIds, NEW raw, ReportTaskResult(n, u, raw),
         NEW t \in TaskIds
  PROVE  RunsKept(t)
<1>1. runs \in [TaskIds -> Seq(Run)]
  BY DEF TypeOK
<1>2. CASE t = u
  <2>1. /\ Len(runs[u]) \in Nat /\ Len(runs'[u]) = Len(runs[u]) + 1
        /\ \A i \in 1 .. Len(runs[u]) : runs'[u][i] = runs[u][i]
    BY ReportAppendsRun
  <2>2. \A i \in 1 .. Len(runs[u]) : i \in 1 .. Len(runs'[u])
    BY <2>1
  <2> QED BY <1>2, <2>1, <2>2 DEF RunsKept
<1>3. CASE t # u
  <2>1. runs'[t] = runs[t]
    BY <1>1, <1>3 DEF ReportTaskResult, CreateTaskRun
  <2> QED BY <2>1 DEF RunsKept
<1> QED BY <1>2, <1>3

\* No step changes a run once it is stored.
LEMMA EngineKeepsEachRun ==
  ASSUME TypeOK, EngineStep, NEW t \in TaskIds
  PROVE  RunsKept(t)
BY EngineKeepsRuns, ReportKeepsRuns DEF RunsKept

-------------------------------------------------------------------------------
(* What an agent holds of a task *)

JobPhases == {"none", "executing", "executed", "writing", "reporting", "acked"}
Job == [phase : JobPhases, result : Outcomes \cup {"none"}]

RunnerTypes ==
    /\ agent \in [Nodes -> {"down", "draining", "polling"}]
    /\ reply \in [Nodes -> (SUBSET TaskIds) \cup {NULL}]
    /\ processed \in [Nodes -> SUBSET TaskIds]
    /\ job \in [Nodes -> [TaskIds -> Job]]
    /\ disk \in [Nodes -> [TaskIds -> Outcomes \cup {"none", "torn"}]]
    /\ outcome \in [Nodes -> [TaskIds -> Outcomes \cup {"none"}]]
    /\ execs \in [Nodes -> [TaskIds -> Nat]]

\* The agent has the task in an answer it has not looked at.
Answered(n, t) == reply[n] # NULL /\ t \in reply[n]

\* Nothing of a task is started before it was handed over, and then at most one
\* execution; before it there is no trace of the task.
Started(n, t) ==
    /\ Answered(n, t) => HandedTo(n, t) /\ execs[n][t] = 0
    /\ execs[n][t] \in {0, 1}
    /\ execs[n][t] = 1 => HandedTo(n, t)
    /\ execs[n][t] = 0 => job[n][t] = NoJob /\ disk[n][t] = "none" /\ outcome[n][t] = "none"

\* The outcome of the execution is the one that every later trace of it carries: the
\* goroutine's result, the file, the acknowledged run.  The file is the goroutine's
\* own: absent until it is written, torn while it is.
Carried(n, t) ==
    LET phase == job[n][t].phase
    IN  /\ phase = "none" => job[n][t] = NoJob
        /\ phase = "executing" => outcome[n][t] = "none"
        /\ phase \in {"executing", "executed"} => disk[n][t] = "none"
        /\ phase = "writing" => disk[n][t] = "torn"
        /\ phase \in {"executed", "writing", "reporting", "acked"} =>
              outcome[n][t] \in Outcomes /\ job[n][t].result = outcome[n][t]
        /\ disk[n][t] \in Outcomes => disk[n][t] = outcome[n][t]
        /\ phase = "acked" => \E i \in 1 .. Len(runs[t]) : runs[t][i].status = outcome[n][t]

Trace(n, t) == Started(n, t) /\ Carried(n, t)

\* RunsAreTruthful, of one task.
Truthful(t) == \A i \in 1 .. Len(runs[t]) : runs[t][i].status = outcome[runs[t][i].node][t]

RunnerInv ==
    /\ RunnerTypes
    /\ \A n \in Nodes, t \in TaskIds : Trace(n, t)
    /\ \A t \in TaskIds : Truthful(t)

\* A trace that no step of its agent touches, whatever the engine and the others do.
LEMMA TraceKept ==
  ASSUME NEW n \in Nodes, NEW t \in TaskIds, Trace(n, t), TypeOK, EngineStep,
         Answered(n, t)' => Answered(n, t),
         job'[n][t] = job[n][t], disk'[n][t] = disk[n][t],
         outcome'[n][t] = outcome[n][t], execs'[n][t] = execs[n][t]
  PROVE  Trace(n, t)'
<1>1. HandedTo(n, t) => HandedTo(n, t)'
  BY HandedKept
<1>2. RunsKept(t)
  BY EngineKeepsEachRun
<1>3. Started(n, t)'
  <2> HIDE DEF Answered, HandedTo
  <2> QED BY <1>1 DEF Trace, Started
<1>4. Carried(n, t)'
  BY <1>2 DEF Trace, Carried, RunsKept
<1> QED BY <1>3, <1>4 DEF Trace

\* Nothing is touched but what agent n holds of task t.
OnlyAt(n, t) ==
    /\ UNCHANGED <<reply, execs>>
    /\ \A m \in Nodes, u \in TaskIds : m # n \/ u # t =>
          /\ job'[m][u] = job[m][u] /\ disk'[m][u] = disk[m][u]
          /\ outcome'[m][u] = outcome[m][u]

\* The step of a goroutine: it holds a trace of an execution, and leaves one.
LEMMA TouchesOne ==
  ASSUME RunnerInv, TypeOK, EngineStep, NEW n \in Nodes, NEW t \in TaskIds, OnlyAt(n, t),
         job[n][t].phase # "none" \/ disk[n][t] # "none", Carried(n, t)'
  PROVE  \A m \in Nodes, u \in TaskIds : Trace(m, u)'
<1> SUFFICES ASSUME NEW m \in Nodes, NEW u \in TaskIds PROVE Trace(m, u)'
  OBVIOUS
<1>1. Answered(m, u)' <=> Answered(m, u)
  BY DEF Answered, OnlyAt
<1>2. Trace(m, u) /\ execs'[m][u] = execs[m][u]
  BY DEF RunnerInv, OnlyAt
<1>3. CASE m # n \/ u # t
  BY <1>1, <1>2, <1>3, TraceKept DEF OnlyAt
<1>4. CASE m = n /\ u = t
  <2>1. execs[n][t] = 1
    BY <1>2, <1>4 DEF Trace, Started, NoJob
  <2>2. HandedTo(n, t)'
    BY <1>2, <1>4, <2>1, HandedKept DEF Trace, Started
  <2>3. Started(n, t)'
    <3> HIDE DEF Answered, HandedTo
    <3> QED BY <1>1, <1>2, <1>4, <2>1, <2>2 DEF Trace, Started
  <2> QED BY <1>4, <2>3 DEF Trace
<1> QED BY <1>3, <1>4

\* RunnerInv' from its parts, for a step that keeps the runs or appends a true one.
LEMMA TruthKept ==
  ASSUME RunnerInv, TypeOK, UNCHANGED runs, NEW t \in TaskIds,
         \A m \in Nodes : outcome'[m][t] = outcome[m][t] \/ outcome[m][t] = "none"
  PROVE  Truthful(t)'
<1> SUFFICES ASSUME NEW i \in 1 .. Len(runs[t])
             PROVE  runs[t][i].status = outcome'[runs[t][i].node][t]
  BY DEF Truthful
<1>1. runs[t][i] \in Run
  BY ElementOfSeq DEF TypeOK
<1>2. runs[t][i].node \in Nodes /\ runs[t][i].status # "none"
  BY <1>1 DEF Run, ReportableStatuses
<1>3. runs[t][i].status = outcome[runs[t][i].node][t]
  BY DEF RunnerInv, Truthful
<1> QED BY <1>2, <1>3

\* An execution, which happens once per task and agent, keeps the invariant.
LEMMA ExecuteInv ==
  ASSUME RunnerInv, TypeOK, EngineStep, NEW n \in Nodes, NEW t \in TaskIds,
         NEW result \in Outcomes, Execute(n, t, result)
  PROVE  RunnerInv'
<1>1. /\ job' = [job EXCEPT ![n][t] = [phase |-> "executed", result |-> result]]
      /\ outcome' = [outcome EXCEPT ![n][t] = result]
      /\ job[n][t].phase = "executing"
      /\ UNCHANGED <<runs, agent, reply, processed, disk, execs>>
  BY DEF Execute, engineVars
<1>2. RunnerTypes /\ Trace(n, t)
  BY DEF RunnerInv
<1>3. RunnerTypes'
  BY <1>1, <1>2 DEF RunnerTypes, Job, JobPhases
<1>4. OnlyAt(n, t)
  BY <1>1, <1>2 DEF OnlyAt, RunnerTypes
<1>5. job'[n][t] = [phase |-> "executed", result |-> result] /\ outcome'[n][t] = result
  BY <1>1, <1>2 DEF RunnerTypes
<1>6. Carried(n, t)'
  BY <1>1, <1>2, <1>5 DEF Trace, Carried, Outcomes
<1>7. \A m \in Nodes, u \in TaskIds : Trace(m, u)'
  BY <1>1, <1>4, <1>6, TouchesOne
<1>8. \A u \in TaskIds : Truthful(u)'
  <2>1. outcome[n][t] = "none"
    BY <1>1, <1>2 DEF Trace, Carried
  <2>2. \A m \in Nodes, u \in TaskIds : outcome'[m][u] = outcome[m][u] \/ outcome[m][u] = "none"
    BY <1>4, <2>1 DEF OnlyAt
  <2> QED BY <1>1, <2>2, TruthKept
<1> QED BY <1>3, <1>7, <1>8 DEF RunnerInv

\* A step that leaves the engine and the outcomes alone, and moves one goroutine.
LEMMA GoroutineInv ==
  ASSUME RunnerInv, TypeOK, NEW n \in Nodes, NEW t \in TaskIds,
         NEW after \in Job, NEW file \in Outcomes \cup {"none", "torn"},
         job' = [job EXCEPT ![n][t] = after], disk' = [disk EXCEPT ![n][t] = file],
         processed' \in [Nodes -> SUBSET TaskIds],
         UNCHANGED <<engineVars, agent, reply, outcome, execs>>,
         job[n][t].phase # "none" \/ disk[n][t] # "none",
         job'[n][t] = after /\ disk'[n][t] = file => Carried(n, t)'
  PROVE  RunnerInv'
<1>1. RunnerTypes /\ UNCHANGED runs
  BY DEF RunnerInv, engineVars
<1>2. RunnerTypes'
  BY <1>1 DEF RunnerTypes
<1>3. OnlyAt(n, t) /\ job'[n][t] = after /\ disk'[n][t] = file
  BY <1>1 DEF OnlyAt, RunnerTypes
<1>4. \A m \in Nodes, u \in TaskIds : Trace(m, u)'
  BY <1>3, TouchesOne DEF EngineStep
<1>5. \A u \in TaskIds : Truthful(u)'
  BY <1>1, TruthKept
<1> QED BY <1>2, <1>4, <1>5 DEF RunnerInv

\* The steps of savePendingResult, of a report that fails, of removePendingResult,
\* and of the drain, one goroutine or one entry each.
LEMMA FileStepInv ==
  ASSUME RunnerInv, TypeOK, NEW n \in Nodes, NEW t \in TaskIds,
         \/ SaveBegin(n, t) \/ SaveEnd(n, t) \/ SaveFails(n, t) \/ ReportFails(n, t)
         \/ removePendingResult(n, t) \/ DrainEntry(n, t)
  PROVE  RunnerInv'
<1> DEFINE j == job[n][t]
           d == disk[n][t]
<1>1. /\ j \in Job /\ d \in Outcomes \cup {"none", "torn"}
      /\ disk = [disk EXCEPT ![n][t] = d]
      /\ processed \in [Nodes -> SUBSET TaskIds]
  BY DEF RunnerInv, RunnerTypes
<1>2. Carried(n, t) /\ (execs[n][t] = 0 => d = "none")
  BY DEF RunnerInv, Trace, Started
<1>3. /\ NoJob \in Job
      /\ \A p \in JobPhases : [j EXCEPT !.phase = p] \in Job
      /\ \A r \in Outcomes : [phase |-> "reporting", result |-> r] \in Job
  BY <1>1 DEF Job, JobPhases, NoJob
<1>4. CASE SaveBegin(n, t)
  <2>1. /\ j.phase = "executed"
        /\ job' = [job EXCEPT ![n][t] = [j EXCEPT !.phase = "writing"]]
        /\ disk' = [disk EXCEPT ![n][t] = "torn"]
        /\ UNCHANGED <<engineVars, agent, reply, processed, outcome, execs>>
    BY <1>4 DEF SaveBegin
  <2>2. job'[n][t] = [j EXCEPT !.phase = "writing"] /\ disk'[n][t] = "torn" => Carried(n, t)'
    BY <1>1, <1>2, <2>1 DEF Carried, Outcomes, Job
  <2> QED BY <1>1, <1>3, <2>1, <2>2, GoroutineInv DEF JobPhases
<1>5. CASE SaveEnd(n, t)
  <2>1. /\ j.phase = "writing"
        /\ job' = [job EXCEPT ![n][t] = [j EXCEPT !.phase = "reporting"]]
        /\ disk' = [disk EXCEPT ![n][t] = j.result]
        /\ UNCHANGED <<engineVars, agent, reply, processed, outcome, execs>>
    BY <1>5 DEF SaveEnd
  <2>2. j.result = outcome[n][t] /\ outcome[n][t] \in Outcomes
    BY <1>2, <2>1 DEF Carried
  <2>3. job'[n][t] = [j EXCEPT !.phase = "reporting"] /\ disk'[n][t] = j.result => Carried(n, t)'
    BY <1>1, <2>1, <2>2 DEF Carried, Outcomes, Job
  <2> QED BY <1>1, <1>3, <2>1, <2>2, <2>3, GoroutineInv DEF JobPhases
<1>6. CASE SaveFails(n, t)
  <2>1. /\ j.phase \in {"executed", "writing"}
        /\ job' = [job EXCEPT ![n][t] = [j EXCEPT !.phase = "reporting"]]
        /\ disk' = [disk EXCEPT ![n][t] = d]
        /\ UNCHANGED <<engineVars, agent, reply, processed, outcome, execs>>
    BY <1>1, <1>6 DEF SaveFails
  <2>2. job'[n][t] = [j EXCEPT !.phase = "reporting"] /\ disk'[n][t] = d => Carried(n, t)'
    BY <1>1, <1>2, <2>1 DEF Carried, Outcomes, Job, engineVars
  <2> QED BY <1>1, <1>3, <2>1, <2>2, GoroutineInv DEF JobPhases
<1>7. CASE ReportFails(n, t)
  <2>1. /\ j.phase = "reporting" /\ job' = [job EXCEPT ![n][t] = NoJob]
        /\ disk' = [disk EXCEPT ![n][t] = d]
        /\ UNCHANGED <<engineVars, agent, reply, processed, outcome, execs>>
    BY <1>1, <1>7 DEF ReportFails
  <2>2. job'[n][t] = NoJob /\ disk'[n][t] = d => Carried(n, t)'
    BY <1>2, <2>1 DEF Carried, NoJob
  <2> QED BY <1>1, <1>3, <2>1, <2>2, GoroutineInv
<1>8. CASE removePendingResult(n, t)
  <2>1. /\ j.phase = "acked" /\ job' = [job EXCEPT ![n][t] = NoJob]
        /\ disk' = [disk EXCEPT ![n][t] = "none"]
        /\ UNCHANGED <<engineVars, agent, reply, processed, outcome, execs>>
    BY <1>8 DEF removePendingResult
  <2>2. job'[n][t] = NoJob /\ disk'[n][t] = "none" => Carried(n, t)'
    BY DEF Carried, NoJob, Outcomes
  <2> QED BY <1>1, <1>3, <2>1, <2>2, GoroutineInv
<1>9. CASE DrainEntry(n, t)
  <2> DEFINE after == [phase |-> "reporting", result |-> d]
  <2>1. /\ d \in Outcomes /\ job' = [job EXCEPT ![n][t] = after]
        /\ disk' = [disk EXCEPT ![n][t] = d]
        /\ processed' \in [Nodes -> SUBSET TaskIds]
        /\ UNCHANGED <<engineVars, agent, reply, outcome, execs>>
    BY <1>1, <1>9 DEF DrainEntry
  <2>2. d # "none" /\ d = outcome[n][t]
    BY <1>2, <2>1 DEF Carried, Outcomes
  <2>3. job'[n][t] = after /\ disk'[n][t] = d => Carried(n, t)'
    BY <2>1, <2>2 DEF Carried
  <2>4. after \in Job
    BY <1>3, <2>1
  <2> HIDE DEF after
  <2> QED BY <1>1, <2>1, <2>2, <2>3, <2>4, GoroutineInv
<1> QED BY <1>4, <1>5, <1>6, <1>7, <1>8, <1>9

\* The status a report stores is the outcome it was sent for.
LEMMA ReportedOutcome ==
  ASSUME NEW r \in Outcomes
  PROVE  normalizeReportedStatus(RawOf(r)) = r
BY DEF Outcomes, RawOf, normalizeReportedStatus

\* A report stores the outcome of the execution it is sent for, answered or not.
LEMMA ReportInv ==
  ASSUME RunnerInv, TypeOK, EngineStep, NEW n \in Nodes, NEW t \in TaskIds,
         ReportAnswered(n, t) \/ ReportLost(n, t)
  PROVE  RunnerInv'
<1> DEFINE r == job[n][t].result
           k == Len(runs[t])
<1>1. RunnerTypes /\ Trace(n, t)
  BY DEF RunnerInv
<1>2. /\ job[n][t].phase = "reporting" /\ ReportTaskResult(n, t, RawOf(r))
      /\ UNCHANGED <<agent, reply, processed, disk, outcome, execs>>
      /\ \/ job' = [job EXCEPT ![n][t] = [job[n][t] EXCEPT !.phase = "acked"]]
         \/ job' = [job EXCEPT ![n][t] = NoJob]
  BY DEF ReportAnswered, ReportLost
<1>3. r = outcome[n][t] /\ r \in Outcomes
  BY <1>1, <1>2 DEF Trace, Carried
<1>4. /\ k \in Nat /\ Len(runs'[t]) = k + 1
      /\ \A i \in 1 .. k : runs'[t][i] = runs[t][i]
      /\ runs'[t][k + 1].node = n /\ runs'[t][k + 1].status = r
      /\ \A u \in TaskIds : u # t => runs'[u] = runs[u]
  <2> DEFINE raw == RawOf(r)
             run == [node |-> n, attempt |-> LatestAttempt(t) + 1,
                     status |-> normalizeReportedStatus(raw)]
  <2>1. run.node = n /\ run.status = r
    BY <1>3, ReportedOutcome
  <2>2. ReportTaskResult(n, t, raw)
    BY <1>2
  <2> HIDE DEF raw
  <2>3. /\ runs' = [runs EXCEPT ![t] = Append(@, run)]
        /\ k \in Nat /\ Len(runs'[t]) = k + 1
        /\ \A i \in 1 .. k : runs'[t][i] = runs[t][i]
        /\ runs'[t][k + 1] = run
    BY <2>2, ReportAppendsRun
  <2> HIDE DEF run
  <2>4. \A u \in TaskIds : u # t => runs'[u] = runs[u]
    BY <2>3 DEF TypeOK
  <2> QED BY <2>1, <2>3, <2>4
<1>5. RunnerTypes'
  <2>1. job[n][t] \in Job
    BY <1>1 DEF RunnerTypes
  <2>2. NoJob \in Job /\ [job[n][t] EXCEPT !.phase = "acked"] \in Job
    BY <2>1 DEF Job, JobPhases, NoJob
  <2>3. PICK after \in Job : job' = [job EXCEPT ![n][t] = after]
    BY <1>2, <2>2
  <2>4. job' \in [Nodes -> [TaskIds -> Job]]
    BY <1>1, <2>3 DEF RunnerTypes
  <2> QED BY <1>1, <1>2, <2>4 DEF RunnerTypes
<1>6. /\ OnlyAt(n, t) /\ job[n][t] \in Job
      /\ job'[n][t] = [job[n][t] EXCEPT !.phase = "acked"] \/ job'[n][t] = NoJob
  BY <1>1, <1>2 DEF OnlyAt, RunnerTypes
<1>7. Carried(n, t)'
  <2>1. k + 1 \in 1 .. Len(runs'[t])
    BY <1>4
  <2>2. CASE job'[n][t] = NoJob
    BY <1>1, <1>2, <2>2 DEF Trace, Carried, NoJob
  <2>3. CASE job'[n][t] = [job[n][t] EXCEPT !.phase = "acked"]
    <3>1. job'[n][t].phase = "acked" /\ job'[n][t].result = outcome'[n][t]
      BY <1>2, <1>3, <1>6, <2>3 DEF Job
    <3> QED BY <1>1, <1>2, <1>3, <1>4, <2>1, <3>1 DEF Trace, Carried
  <2> QED BY <1>6, <2>2, <2>3
<1>8. \A m \in Nodes, u \in TaskIds : Trace(m, u)'
  BY <1>2, <1>6, <1>7, TouchesOne
<1>9. ASSUME NEW u \in TaskIds PROVE Truthful(u)'
  <2>1. Truthful(u)
    BY DEF RunnerInv
  <2>2. CASE u # t
    BY <1>2, <1>4, <2>1, <2>2 DEF Truthful
  <2>3. CASE u = t
    <3>1. \A i \in 1 .. k + 1 : i \in 1 .. k \/ i = k + 1
      BY <1>4
    <3> QED BY <1>2, <1>3, <1>4, <2>1, <2>3, <3>1 DEF Truthful
  <2> QED BY <2>2, <2>3
<1> QED BY <1>5, <1>8, <1>9 DEF RunnerInv

\* A pull hands tasks to the node that no agent had a trace of, whether the answer
\* arrives or is lost.
LEMMA PullInv ==
  ASSUME RunnerInv, TypeOK, DeliveryInv, EngineStep, NEW n \in Nodes,
         NEW locked \in SUBSET TaskIds, PullAnswered(n, locked) \/ PullLost(n, locked)
  PROVE  RunnerInv'
<1> DEFINE S == Pulled(Home[n], n, locked)
<1>1. /\ Home[n] \in Gateways /\ PullTasks(Home[n], n, S)
      /\ reply' = [reply EXCEPT ![n] = S] \/ reply' = reply
      /\ UNCHANGED <<agent, processed, job, disk, outcome, execs>>
  BY HomeAssumption DEF PullAnswered, PullLost
<1>2. S \in SUBSET TaskIds
  BY PulledIs, CreatedInIds
<1>3. \A t \in S : Deliveries(t) = {} /\ HandedTo(n, t)'
  BY <1>1, PulledIsHanded
<1> HIDE DEF S
<1>4. RunnerTypes'
  BY <1>1, <1>2 DEF RunnerInv, RunnerTypes
<1>5. ASSUME NEW m \in Nodes, NEW t \in TaskIds PROVE Trace(m, t)'
  <2>1. Trace(m, t)
    BY DEF RunnerInv
  <2>2. Answered(m, t)' => Answered(m, t) \/ (m = n /\ t \in S)
    BY <1>1 DEF Answered, RunnerInv, RunnerTypes
  <2>3. CASE ~(m = n /\ t \in S)
    BY <1>1, <2>1, <2>2, <2>3, TraceKept
  <2>4. CASE m = n /\ t \in S
    <3>1. execs[n][t] = 0 /\ HandedTo(n, t)'
      BY <1>3, <2>1, <2>4 DEF Trace, Started, HandedTo
    <3>2. Started(n, t)'
      <4> HIDE DEF Answered, HandedTo
      <4> QED BY <1>1, <2>1, <2>4, <3>1 DEF Trace, Started
    <3>3. Carried(n, t)'
      BY <1>1, <2>1, <2>4 DEF Trace, Carried, PullTasks
    <3> QED BY <2>4, <3>2, <3>3 DEF Trace
  <2> QED BY <2>3, <2>4
<1>6. \A t \in TaskIds : Truthful(t)'
  BY <1>1, TruthKept DEF PullTasks
<1> QED BY <1>4, <1>5, <1>6 DEF RunnerInv

\* Poll starts what the answer holds and no earlier answer or file did.
LEMMA PollInv ==
  ASSUME RunnerInv, TypeOK, NEW n \in Nodes, Poll(n)
  PROVE  RunnerInv'
<1> DEFINE started == [phase |-> "executing", result |-> "none"]
<1>1. /\ reply[n] # NULL /\ reply' = [reply EXCEPT ![n] = NULL]
      /\ processed' = [processed EXCEPT ![n] = @ \cup Fresh(n)]
      /\ UNCHANGED <<engineVars, agent, disk, outcome>> /\ EngineStep
      /\ job' = [job EXCEPT ![n] = [t \in TaskIds |->
                    IF t \in Fresh(n) THEN started ELSE job[n][t]]]
      /\ execs' = [execs EXCEPT ![n] = [t \in TaskIds |->
                    IF t \in Fresh(n) THEN execs[n][t] + 1 ELSE execs[n][t]]]
  BY DEF Poll, EngineStep
<1>2. RunnerTypes /\ Fresh(n) \subseteq TaskIds /\ Fresh(n) \subseteq reply[n]
  BY <1>1 DEF RunnerInv, RunnerTypes, Fresh
<1>3. started \in Job /\ started.phase = "executing"
  BY DEF Job, JobPhases
<1> HIDE DEF started
<1>4. RunnerTypes'
  <2>1. job' \in [Nodes -> [TaskIds -> Job]]
    BY <1>1, <1>2, <1>3 DEF RunnerTypes
  <2>2. execs' \in [Nodes -> [TaskIds -> Nat]]
    BY <1>1, <1>2 DEF RunnerTypes
  <2>3. processed' \in [Nodes -> SUBSET TaskIds] /\ reply' \in [Nodes -> (SUBSET TaskIds) \cup {NULL}]
    BY <1>1, <1>2 DEF RunnerTypes
  <2> QED BY <1>1, <1>2, <2>1, <2>2, <2>3 DEF RunnerTypes
<1>5. ASSUME NEW m \in Nodes, NEW t \in TaskIds PROVE Trace(m, t)'
  <2>1. Trace(m, t)
    BY DEF RunnerInv
  <2>2. Answered(m, t)' => Answered(m, t) /\ m # n
    BY <1>1, <1>2 DEF Answered, RunnerTypes
  <2>3. CASE m = n /\ t \in Fresh(n)
    <3>1. Answered(n, t)
      BY <1>1, <1>2, <2>3 DEF Answered
    <3>2. HandedTo(n, t) /\ execs[n][t] = 0 /\ disk[n][t] = "none" /\ outcome[n][t] = "none"
      BY <2>1, <2>3, <3>1 DEF Trace, Started
    <3>3. HandedTo(n, t)'
      BY <1>1, <3>2, HandedKept
    <3>4. job'[n][t] = started /\ execs'[n][t] = 1
      BY <1>1, <1>2, <2>3, <3>2 DEF RunnerTypes
    <3>5. Started(n, t)'
      <4> HIDE DEF Answered, HandedTo
      <4> QED BY <2>2, <2>3, <3>3, <3>4 DEF Started
    <3>6. Carried(n, t)'
      BY <1>1, <1>3, <3>2, <3>4 DEF Carried, Outcomes
    <3> QED BY <2>3, <3>5, <3>6 DEF Trace
  <2>4. CASE ~(m = n /\ t \in Fresh(n))
    <3>1. job'[m][t] = job[m][t] /\ execs'[m][t] = execs[m][t]
      BY <1>1, <1>2, <2>4 DEF RunnerTypes
    <3> QED BY <1>1, <2>1, <2>2, <3>1, TraceKept
  <2> QED BY <2>3, <2>4
<1>6. \A t \in TaskIds : Truthful(t)'
  BY <1>1, TruthKept DEF engineVars
<1> QED BY <1>4, <1>5, <1>6 DEF RunnerInv

\* A crash takes what is in memory; the file stays.
LEMMA CrashInv ==
  ASSUME RunnerInv, TypeOK, NEW n \in Nodes, Crash(n)
  PROVE  RunnerInv'
<1>1. /\ reply' = [reply EXCEPT ![n] = NULL]
      /\ agent' = [agent EXCEPT ![n] = "down"]
      /\ processed' = [processed EXCEPT ![n] = {}]
      /\ job' = [job EXCEPT ![n] = [t \in TaskIds |-> NoJob]]
      /\ UNCHANGED <<engineVars, disk, outcome, execs>> /\ EngineStep
  BY DEF Crash, EngineStep
<1>2. RunnerTypes /\ NoJob \in Job
  BY DEF RunnerInv, NoJob, Job, JobPhases
<1>3. RunnerTypes'
  BY <1>1, <1>2 DEF RunnerTypes
<1>4. ASSUME NEW m \in Nodes, NEW t \in TaskIds PROVE Trace(m, t)'
  <2>1. Trace(m, t)
    BY DEF RunnerInv
  <2>2. Answered(m, t)' => Answered(m, t)
    BY <1>1, <1>2 DEF Answered, RunnerTypes
  <2>3. CASE m # n
    <3>1. job'[m][t] = job[m][t]
      BY <1>1, <1>2, <2>3 DEF RunnerTypes
    <3> QED BY <1>1, <2>1, <2>2, <3>1, TraceKept
  <2>4. CASE m = n
    <3>1. job'[m][t] = NoJob /\ (HandedTo(m, t) => HandedTo(m, t)')
      BY <1>1, <1>2, <2>4, HandedKept DEF RunnerTypes
    <3>2. Started(m, t)'
      <4> HIDE DEF Answered, HandedTo
      <4> QED BY <1>1, <2>1, <2>2, <3>1 DEF Trace, Started
    <3>3. Carried(m, t)'
      BY <1>1, <2>1, <3>1 DEF Trace, Carried, NoJob
    <3> QED BY <3>2, <3>3 DEF Trace
  <2> QED BY <2>3, <2>4
<1>5. \A t \in TaskIds : Truthful(t)'
  BY <1>1, TruthKept DEF engineVars
<1> QED BY <1>3, <1>4, <1>5 DEF RunnerInv

\* Start, the end of the drain, a skipped file and every step of the control plane
\* leave what the agents hold alone.
LEMMA OtherInv ==
  ASSUME RunnerInv, TypeOK, EngineStep,
         agent' \in [Nodes -> {"down", "draining", "polling"}],
         UNCHANGED <<runs, reply, processed, job, disk, outcome, execs>>
  PROVE  RunnerInv'
<1>1. RunnerTypes'
  BY DEF RunnerInv, RunnerTypes
<1>2. ASSUME NEW m \in Nodes, NEW t \in TaskIds PROVE Trace(m, t)'
  <2>1. Trace(m, t) /\ (Answered(m, t)' => Answered(m, t))
    BY DEF RunnerInv, Answered
  <2> QED BY <2>1, TraceKept
<1>3. \A t \in TaskIds : Truthful(t)'
  BY TruthKept
<1> QED BY <1>1, <1>2, <1>3 DEF RunnerInv

\* No agent has done anything.
LEMMA RunnerInit == SysInit => RunnerInv
<1> SUFFICES ASSUME SysInit PROVE RunnerInv
  OBVIOUS
<1>1. RunnerTypes
  BY DEF SysInit, RunnerTypes, NoJob, Job, JobPhases
<1>2. \A n \in Nodes, t \in TaskIds : Trace(n, t)
  BY DEF SysInit, Trace, Started, Carried, Answered, NoJob, Outcomes
<1>3. ASSUME NEW t \in TaskIds PROVE Truthful(t)
  <2>1. Len(runs[t]) = 0
    BY EmptySeq DEF SysInit, Init
  <2> QED BY <2>1 DEF Truthful
<1> QED BY <1>1, <1>2, <1>3 DEF RunnerInv

\* Every step of agents and control plane keeps the invariant.
LEMMA RunnerStep == RunnerInv /\ TypeOK /\ DeliveryInv /\ [SysNext]_sysVars => RunnerInv'
<1> SUFFICES ASSUME RunnerInv, TypeOK, DeliveryInv, [SysNext]_sysVars PROVE RunnerInv'
  OBVIOUS
<1>1. EngineStep /\ RunnerTypes
  BY SysStepIsEngineStep DEF RunnerInv
<1>2. CASE ControlPlane
  <2>1. UNCHANGED runs /\ UNCHANGED agentVars
    BY <1>2 DEF ControlPlane, CreateTask, CancelTask, CreateDeploymentTask, PushRegionalTask,
                expandAndClaim, expandAndClaimFails
  <2> QED BY <1>1, <2>1, OtherInv DEF agentVars, RunnerTypes
<1>3. ASSUME NEW n \in Nodes, Start(n) \/ DrainDone(n) \/ \E t \in TaskIds : DrainSkip(n, t)
      PROVE  RunnerInv'
  <2>1. /\ agent' \in [Nodes -> {"down", "draining", "polling"}]
        /\ UNCHANGED <<runs, reply, processed, job, disk, outcome, execs>>
    BY <1>1, <1>3 DEF Start, DrainDone, DrainSkip, engineVars, RunnerTypes
  <2> QED BY <1>1, <2>1, OtherInv
<1>4. ASSUME NEW n \in Nodes, Crash(n) \/ Poll(n) PROVE RunnerInv'
  BY <1>4, CrashInv, PollInv
<1>5. ASSUME NEW n \in Nodes, NEW locked \in SUBSET TaskIds,
             PullAnswered(n, locked) \/ PullLost(n, locked)
      PROVE  RunnerInv'
  BY <1>1, <1>5, PullInv
<1>6. ASSUME NEW n \in Nodes, NEW t \in TaskIds,
             \/ DrainEntry(n, t) \/ SaveBegin(n, t) \/ SaveEnd(n, t) \/ SaveFails(n, t)
             \/ ReportFails(n, t) \/ removePendingResult(n, t)
             \/ ReportAnswered(n, t) \/ ReportLost(n, t)
             \/ \E result \in Outcomes : Execute(n, t, result)
      PROVE  RunnerInv'
  BY <1>1, <1>6, FileStepInv, ReportInv, ExecuteInv
<1>7. CASE UNCHANGED sysVars
  BY <1>1, <1>7, OtherInv DEF sysVars, agentVars, engineVars, RunnerTypes
<1> QED BY <1>2, <1>3, <1>4, <1>5, <1>6, <1>7 DEF SysNext, AgentStep

\* The agents' invariant holds in every reachable state.
LEMMA RunnerInvariant == SysSpec => []RunnerInv
BY RunnerInit, RunnerStep, EngineInvariant, PTL DEF SysSpec

-------------------------------------------------------------------------------
(* The properties *)

\* Over all agents, crashes, restarts, lost answers and replayed reports a task is
\* executed at most once, for any number of each.
THEOREM ExecutionAtMostOnce == SysSpec => []ExecutedAtMostOnce
<1>1. RunnerInv => ExecutedAtMostOnce
  <2> SUFFICES ASSUME RunnerInv, NEW t \in TaskIds, NEW n \in Nodes, NEW m \in Nodes
               PROVE  /\ execs[n][t] <= 1
                      /\ execs[n][t] + execs[m][t] > 1 => n = m
    BY DEF ExecutedAtMostOnce
  <2>1. /\ execs[n][t] \in {0, 1} /\ execs[m][t] \in {0, 1}
        /\ execs[n][t] = 1 => tasks[t].node = n
        /\ execs[m][t] = 1 => tasks[t].node = m
    BY DEF RunnerInv, Trace, Started, HandedTo
  <2> QED BY <2>1
<1> QED BY <1>1, RunnerInvariant, PTL

\* The database only ever holds the true outcome of an execution on the run's node.
THEOREM RunsTruthful == SysSpec => []RunsAreTruthful
<1>1. RunnerInv /\ TypeOK => RunsAreTruthful
  BY CreatedInIds DEF RunnerInv, Truthful, RunsAreTruthful
<1> QED BY <1>1, RunnerInvariant, EngineInvariant, PTL

\* A task that was cancelled before it was delivered is never held or started.
THEOREM CancellationStopsDelivery == SysSpec => []CancelStopsDelivery
<1>1. RunnerInv /\ TypeOK => CancelStopsDelivery
  <2> SUFFICES ASSUME RunnerInv, TypeOK, NEW t \in Created, Deliveries(t) = {}, NEW n \in Nodes
               PROVE  /\ execs[n][t] = 0 /\ job[n][t] = NoJob
                      /\ reply[n] # NULL => t \notin reply[n]
    BY DEF CancelStopsDelivery
  <2>1. Trace(n, t) /\ ~HandedTo(n, t)
    BY CreatedInIds DEF RunnerInv, HandedTo
  <2> QED BY <2>1 DEF Trace, Started, Answered
<1> QED BY <1>1, RunnerInvariant, EngineInvariant, PTL

\* A saved result is removed only once the database holds it, whatever report was
\* lost or process crashed in between.
THEOREM FilesOutliveReports == SysSpec => FileOutlivesReport
<1>1. ASSUME RunnerInv, [SysNext]_sysVars, NEW n \in Nodes, NEW t \in TaskIds,
             disk[n][t] \in Outcomes, disk'[n][t] # disk[n][t]
      PROVE  \E i \in 1 .. Len(runs[t]) : runs[t][i].status = disk[n][t]
  <2>1. RunnerTypes /\ Carried(n, t)
    BY <1>1 DEF RunnerInv, Trace
  <2>2. PICK m \in Nodes, u \in TaskIds :
            SaveBegin(m, u) \/ SaveEnd(m, u) \/ removePendingResult(m, u)
    BY <1>1 DEF SysNext, AgentStep, ControlPlane, sysVars, agentVars, Start, Crash, DrainSkip,
                DrainEntry, DrainDone, PullAnswered, PullLost, Poll, Execute, SaveFails,
                ReportAnswered, ReportLost, ReportFails
  <2>3. m = n /\ u = t
    <3>1. PICK x : disk' = [disk EXCEPT ![m][u] = x]
      BY <2>2 DEF SaveBegin, SaveEnd, removePendingResult
    <3>2. m # n \/ u # t => disk'[n][t] = disk[n][t]
      BY <2>1, <3>1 DEF RunnerTypes
    <3> QED BY <1>1, <3>2
  <2>4. job[n][t].phase \in {"executed", "writing", "acked"}
    BY <2>2, <2>3 DEF SaveBegin, SaveEnd, removePendingResult
  <2> QED BY <1>1, <2>1, <2>4 DEF Carried, Outcomes
<1>2. RunnerInv /\ [SysNext]_sysVars =>
        [\A n \in Nodes, t \in TaskIds :
            (disk[n][t] \in Outcomes /\ disk'[n][t] # disk[n][t]) =>
                \E i \in 1 .. Len(runs[t]) : runs[t][i].status = disk[n][t]]_sysVars
  BY <1>1
<1> QED BY <1>2, RunnerInvariant, PTL DEF SysSpec, FileOutlivesReport

===============================================================================
