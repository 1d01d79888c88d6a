------------------------- MODULE TaskRefinementProofs -------------------------
(***************************************************************************)
(* TaskEngine implements TaskLedger, for any sets of nodes, gateways and   *)
(* push calls and any bounds: initial states map to initial states, and    *)
(* every handler maps to a step of the ledger or to a stutter.             *)
(***************************************************************************)
EXTENDS TaskRefinement, TaskEngineProofs

-------------------------------------------------------------------------------
(* The results of a task are numbered from 1 *)

\* The attempt a report stores is its position: LatestAttempt reads the last row of
\* the task, and that is one more than the row before it.
RunsNumbered == \A t \in TaskIds : \A i \in 1 .. Len(runs[t]) : runs[t][i].attempt = i

\* The number of the latest attempt is the number of results.
LEMMA LatestAttemptIs ==
  ASSUME TypeOK, RunsNumbered, NEW t \in TaskIds
  PROVE  LatestAttempt(t) = Len(runs[t]) /\ Len(runs[t]) \in Nat
<1>1. runs[t] \in Seq(Run) /\ Len(runs[t]) \in Nat
  BY LenProperties DEF TypeOK
<1>2. CASE runs[t] = <<>>
  BY <1>1, <1>2, EmptySeq DEF LatestAttempt
<1>3. CASE runs[t] # <<>>
  <2>1. Len(runs[t]) \in 1 .. Len(runs[t])
    BY <1>1, <1>3, EmptySeq
  <2> QED BY <1>1, <1>3, <2>1 DEF LatestAttempt, RunsNumbered
<1> QED BY <1>1, <1>2, <1>3

\* What a report does to the runs of its task and of the others.
LEMMA ReportAppends ==
  ASSUME TypeOK, RunsNumbered, NEW n \in Nodes, NEW t \in TaskIds, NEW raw,
         ReportTaskResult(n, t, raw)
  PROVE  LET k == Len(runs[t])
         IN  /\ k \in Nat /\ Len(runs'[t]) = k + 1
             /\ \A i \in 1 .. k : runs'[t][i] = runs[t][i]
             /\ runs'[t][k + 1] = [node |-> n, attempt |-> k + 1,
                                   status |-> normalizeReportedStatus(raw)]
             /\ runs'[t] = Append(runs[t], [node |-> n, attempt |-> k + 1,
                                            status |-> normalizeReportedStatus(raw)])
             /\ \A u \in TaskIds : u # t => runs'[u] = runs[u]
BY ReportAppendsRun, LatestAttemptIs DEF TypeOK

\* A report keeps the numbering: LatestAttempt + 1 is the next position.
LEMMA NumberedReport ==
  ASSUME TypeOK, RunsNumbered, NEW n \in Nodes, NEW t \in TaskIds, NEW raw,
         ReportTaskResult(n, t, raw)
  PROVE  RunsNumbered'
<1>1. ASSUME NEW u \in TaskIds, NEW i \in 1 .. Len(runs'[u]) PROVE runs'[u][i].attempt = i
  <2>1. CASE u # t
    BY <1>1, <2>1, ReportAppends DEF RunsNumbered
  <2>2. CASE u = t
    <3>1. /\ Len(runs[t]) \in Nat
          /\ Len(runs'[t]) = Len(runs[t]) + 1
          /\ \A j \in 1 .. Len(runs[t]) : runs'[t][j] = runs[t][j]
          /\ runs'[t][Len(runs[t]) + 1] =
                [node |-> n, attempt |-> Len(runs[t]) + 1,
                 status |-> normalizeReportedStatus(raw)]
      BY ReportAppends
    <3>2. i \in 1 .. Len(runs[t]) \/ i = Len(runs[t]) + 1
      BY <1>1, <2>2, <3>1
    <3> QED BY <2>2, <3>1, <3>2 DEF RunsNumbered
  <2> QED BY <2>1, <2>2
<1> QED BY <1>1 DEF RunsNumbered

\* The other handlers store no run.
LEMMA NumberedStep == TypeOK /\ RunsNumbered /\ [Next]_engineVars => RunsNumbered'
<1> SUFFICES ASSUME TypeOK, RunsNumbered, [Next]_engineVars PROVE RunsNumbered'
  OBVIOUS
<1>1. ASSUME NEW n \in Nodes, NEW t \in TaskIds, NEW raw \in Reported,
             ReportTaskResult(n, t, raw)
      PROVE  RunsNumbered'
  BY <1>1, NumberedReport
<1>2. CASE UNCHANGED runs
  BY <1>2 DEF RunsNumbered
<1> QED BY <1>1, <1>2 DEF Next, engineVars, CreateTask, CancelTask, CreateDeploymentTask,
          PushRegionalTask, expandAndClaim, expandAndClaimFails, PullTasks

\* There are no runs at first.
LEMMA NumberedInit == Init => RunsNumbered
<1> SUFFICES ASSUME Init, NEW t \in TaskIds, NEW i \in 1 .. Len(runs[t])
             PROVE  runs[t][i].attempt = i
  BY DEF RunsNumbered
<1>1. Len(runs[t]) = 0
  BY EmptySeq DEF Init
<1> QED BY <1>1

\* Attempts are numbered from 1 without gaps in every reachable state.
LEMMA NumberedInvariant == Spec => []RunsNumbered
BY NumberedInit, NumberedStep, TypeCorrect, PTL DEF Spec

-------------------------------------------------------------------------------
(* The handlers as steps of the ledger *)

\* A row whose node, status and age are kept is the same task to the ledger.
LEMMA SameTask ==
  ASSUME NEW t \in TaskIds, t > created <=> t > created', tasks'[t].status = tasks[t].status
  PROVE  LedgerState(t)' = LedgerState(t)
BY DEF LedgerState

\* Rows inserted at fresh ids, Pending, are submitted tasks.
LEMMA MapsToSubmit ==
  ASSUME TypeOK, TypeOK', runs' = runs, created' > created,
         \A t \in Created : tasks'[t] = tasks[t],
         \A t \in Created' \ Created : tasks'[t].status = "Pending"
  PROVE  Ledger!LedgerNext
<1>1. created \in 0 .. MaxTasks /\ created' \in 0 .. MaxTasks
  BY DEF TypeOK
<1>2. PICK S \in SUBSET TaskIds : S = Created' \ Created
  <2>1. Created' \ Created \in SUBSET TaskIds
    BY <1>1, MaxTasksAssumption DEF TaskIds, Created
  <2> QED BY <2>1
<1>3. \A t \in S : LedgerState(t) = "absent" /\ LedgerState(t)' = "open"
  <2>1. \A t \in S : t > created /\ ~(t > created')
    BY <1>1, <1>2, MaxTasksAssumption DEF Created
  <2> QED BY <1>2, <2>1 DEF LedgerState
<1>4. \A t \in TaskIds \ S : LedgerState(t)' = LedgerState(t) /\ tasks'[t].node = tasks[t].node
  <2> SUFFICES ASSUME NEW t \in TaskIds \ S
               PROVE  LedgerState(t)' = LedgerState(t) /\ tasks'[t].node = tasks[t].node
    OBVIOUS
  <2>1. CASE t \in Created
    <3>1. ~(t > created) /\ ~(t > created')
      BY <1>1, <2>1, MaxTasksAssumption DEF Created
    <3> QED BY <2>1, <3>1, SameTask
  <2>2. CASE t \notin Created
    <3>1. t \notin Created' /\ t > created /\ t > created'
      BY <1>1, <1>2, <2>2, MaxTasksAssumption DEF Created, TaskIds
    <3>2. tasks[t] = Blank /\ tasks'[t] = Blank
      BY <2>2, <3>1 DEF TypeOK
    <3> QED BY <3>1, <3>2, SameTask
  <2> QED BY <2>1, <2>2
<1>5. \A t \in TaskIds : tasks'[t].node \in Nodes \cup {NULL}
  BY DEF TypeOK, Row
<1>6. [t \in TaskIds |-> LedgerResults(runs[t])]' = [t \in TaskIds |-> LedgerResults(runs[t])]
  BY DEF LedgerResults
<1>7. S # {}
  BY <1>1, <1>2 DEF Created
<1>8. Ledger!Submit(S)
  BY <1>3, <1>4, <1>5, <1>6, <1>7 DEF Ledger!Submit
<1> QED BY <1>8 DEF Ledger!LedgerNext

\* What one PullTasks delivers was open and is for the node that pulls.
LEMMA MapsToTake ==
  ASSUME TypeOK, NEW g \in Gateways, NEW n \in Nodes, NEW S \in SUBSET Pullable(g, n), S # {},
         PullTasks(g, n, S)
  PROVE  Ledger!LedgerNext
<1>1. S \in SUBSET TaskIds /\ S \subseteq Created
  BY CreatedInIds DEF Pullable
<1>2. \A t \in S : LedgerState(t) = "open" /\ tasks[t].node = n
  BY <1>1 DEF LedgerState, Pullable, Created, TypeOK
<1>3. ASSUME NEW t \in TaskIds
      PROVE  /\ LedgerState(t)' = IF t \in S THEN "taken" ELSE LedgerState(t)
             /\ tasks'[t].node = tasks[t].node
  <2>1. tasks[t] \in Row
    BY DEF TypeOK
  <2>2. CASE t \in S
    <3>1. ~(t > created) /\ created' = created
      BY <1>1, <2>2 DEF Created, TypeOK, PullTasks
    <3>2. tasks'[t].status = "Running" /\ tasks'[t].node = tasks[t].node
      BY <2>1, <2>2 DEF PullTasks, DeliveredRow, Row
    <3> QED BY <2>2, <3>1, <3>2 DEF LedgerState
  <2>3. CASE t \notin S
    BY <2>3, SameTask DEF PullTasks
  <2> QED BY <2>2, <2>3
<1>4. [t \in TaskIds |-> LedgerResults(runs[t])]' = [t \in TaskIds |-> LedgerResults(runs[t])]
  BY DEF LedgerResults, PullTasks
<1>5. Ledger!Take(S)
  BY <1>1, <1>2, <1>3, <1>4 DEF Ledger!Take
<1> QED BY <1>1, <1>5 DEF Ledger!LedgerNext

\* A cancellation withdraws its task.
LEMMA MapsToWithdraw ==
  ASSUME TypeOK, NEW t \in TaskIds, CancelTask(t)
  PROVE  Ledger!LedgerNext
<1>1. /\ tasks \in [TaskIds -> Row] /\ t \in Created /\ created' = created
      /\ tasks' = [tasks EXCEPT ![t].status = "Cancelled"]
  BY DEF TypeOK, CancelTask, UpdateStatus
<1>2. LedgerState(t) # "absent" /\ LedgerState(t)' = "over"
  BY <1>1 DEF LedgerState, Created, Row, TypeOK
<1>3. \A u \in TaskIds : u # t => LedgerState(u)' = LedgerState(u)
  BY <1>1, SameTask
<1>4. \A u \in TaskIds : tasks'[u].node = tasks[u].node
  BY <1>1 DEF Row
<1>5. [u \in TaskIds |-> LedgerResults(runs[u])]' = [u \in TaskIds |-> LedgerResults(runs[u])]
  BY DEF LedgerResults, CancelTask
<1>6. Ledger!Withdraw(t)
  BY <1>2, <1>3, <1>4, <1>5 DEF Ledger!Withdraw
<1> QED BY <1>6 DEF Ledger!LedgerNext

\* A function on 1 .. k is a sequence of length k.
LEMMA FunctionIsSeq ==
  ASSUME NEW k \in Nat, NEW S, NEW f \in [1 .. k -> S]
  PROVE  f \in Seq(S) /\ Len(f) = k
<1>1. f \in Seq(S)
  BY SeqDef
<1>2. Len(f) \in Nat /\ 1 .. Len(f) = 1 .. k
  BY <1>1, LenProperties
<1> QED BY <1>1, <1>2

Result == Nat \X Nodes \X ReportableStatuses

\* The numbered results of a task are as many as its runs.
LEMMA LedgerResultsType ==
  ASSUME NEW rs \in Seq(Run)
  PROVE  LedgerResults(rs) \in Seq(Result) /\ Len(LedgerResults(rs)) = Len(rs)
<1>1. Len(rs) \in Nat /\ \A i \in 1 .. Len(rs) : rs[i] \in Run
  BY LenProperties, ElementOfSeq
<1>2. LedgerResults(rs) \in [1 .. Len(rs) -> Result]
  BY <1>1 DEF LedgerResults, Result, Run
<1> QED BY <1>1, <1>2, FunctionIsSeq

\* Appending a run appends a result.
LEMMA LedgerResultsAppend ==
  ASSUME NEW rs \in Seq(Run), NEW run \in Run
  PROVE  LedgerResults(Append(rs, run)) =
            Append(LedgerResults(rs), <<run.attempt, run.node, run.status>>)
<1> DEFINE k == Len(rs)
           l == Append(rs, run)
           r == <<run.attempt, run.node, run.status>>
<1>1. /\ l \in Seq(Run) /\ k \in Nat /\ Len(l) = k + 1 /\ l[k + 1] = run
      /\ \A i \in 1 .. k : l[i] = rs[i]
  BY AppendProperties, LenProperties
<1> HIDE DEF l
<1>2. r \in Result
  BY DEF Result, Run
<1> HIDE DEF r
<1>3. /\ LedgerResults(l) \in Seq(Result) /\ Len(LedgerResults(l)) = k + 1
      /\ LedgerResults(rs) \in Seq(Result) /\ Len(LedgerResults(rs)) = k
  BY <1>1, LedgerResultsType
<1>4. /\ Append(LedgerResults(rs), r) \in Seq(Result)
      /\ Len(Append(LedgerResults(rs), r)) = k + 1
      /\ Append(LedgerResults(rs), r)[k + 1] = r
      /\ \A i \in 1 .. k : Append(LedgerResults(rs), r)[i] = LedgerResults(rs)[i]
  BY <1>2, <1>3, AppendProperties
<1>5. \A i \in 1 .. k + 1 : LedgerResults(l)[i] = Append(LedgerResults(rs), r)[i]
  <2>1. \A i \in 1 .. k : LedgerResults(l)[i] = LedgerResults(rs)[i]
    BY <1>1 DEF LedgerResults
  <2>2. LedgerResults(l)[k + 1] = r
    BY <1>1 DEF LedgerResults, r
  <2>3. \A i \in 1 .. k + 1 : i \in 1 .. k \/ i = k + 1
    BY <1>1
  <2> QED BY <1>4, <2>1, <2>2, <2>3
<1>6. LedgerResults(l) = Append(LedgerResults(rs), r)
  BY <1>3, <1>4, <1>5, SeqEqual
<1> QED BY <1>6 DEF l, r

\* A report ends its task and appends a result with the next number.
LEMMA MapsToReport ==
  ASSUME TypeOK, RunsNumbered, NEW n \in Nodes, NEW t \in TaskIds, NEW raw,
         ReportTaskResult(n, t, raw)
  PROVE  Ledger!LedgerNext
<1> DEFINE new == normalizeReportedStatus(raw)
           k == Len(runs[t])
<1>1. /\ tasks \in [TaskIds -> Row] /\ t \in Created /\ created' = created
      /\ tasks[t].node = n
      /\ tasks' = [tasks EXCEPT ![t].status = new]
  BY DEF TypeOK, ReportTaskResult, ReportAccepted, UpdateResult
<1>2. new \in ReportableStatuses /\ new \notin {"Pending", "Running", "Retrying"}
  BY NormalizedIsReportable DEF ReportTaskResult, ReportAccepted
<1>3. /\ k \in Nat
      /\ runs'[t] = Append(runs[t], [node |-> n, attempt |-> k + 1, status |-> new])
      /\ \A u \in TaskIds : u # t => runs'[u] = runs[u]
  BY ReportAppends
<1> HIDE DEF new
<1>4. LedgerState(t) # "absent" /\ LedgerState(t)' = "over"
  BY <1>1, <1>2 DEF LedgerState, Created, Row, TypeOK
<1>5. \A u \in TaskIds : u # t => LedgerState(u)' = LedgerState(u)
  BY <1>1, SameTask
<1>6. \A u \in TaskIds : tasks'[u].node = tasks[u].node
  <2> SUFFICES ASSUME NEW u \in TaskIds PROVE tasks'[u].node = tasks[u].node
    OBVIOUS
  <2>1. CASE u = t
    <3>1. tasks[t] \in Row /\ tasks'[t] = [tasks[t] EXCEPT !.status = new]
      BY <1>1
    <3> QED BY <2>1, <3>1 DEF Row
  <2>2. CASE u # t
    BY <1>1, <2>2
  <2> QED BY <2>1, <2>2
<1>7. \A u \in TaskIds : u # t => LedgerResults(runs'[u]) = LedgerResults(runs[u])
  BY <1>3 DEF LedgerResults
<1>8. LedgerResults(runs'[t]) = Append(LedgerResults(runs[t]), <<Len(LedgerResults(runs[t])) + 1, n, new>>)
  <2> DEFINE run == [node |-> n, attempt |-> k + 1, status |-> new]
  <2>1. runs[t] \in Seq(Run) /\ run \in Run /\ runs'[t] = Append(runs[t], run)
    <3>1. k + 1 \in Nat /\ runs'[t] = Append(runs[t], run) /\ runs[t] \in Seq(Run)
      BY <1>3 DEF TypeOK
    <3>2. run \in Run
      BY <1>2, <3>1 DEF Run
    <3> QED BY <3>1, <3>2
  <2>2. LedgerResults(Append(runs[t], run)) = Append(LedgerResults(runs[t]), <<k + 1, n, new>>)
    BY <2>1, LedgerResultsAppend
  <2>3. Len(LedgerResults(runs[t])) = k
    BY <2>1, LedgerResultsType
  <2> QED BY <2>1, <2>2, <2>3 DEF LedgerResults
<1>9. Ledger!Report(t)
  BY <1>1, <1>2, <1>4, <1>5, <1>6, <1>7, <1>8 DEF Ledger!Report
<1> QED BY <1>9 DEF Ledger!LedgerNext

\* The tables start as the empty ledger.
LEMMA LedgerInit == Init => Ledger!LedgerInit
<1> SUFFICES ASSUME Init PROVE Ledger!LedgerInit
  OBVIOUS
<1>1. \A t \in TaskIds : LedgerState(t) = "absent"
  BY MaxTasksAssumption DEF Init, LedgerState, TaskIds
<1>2. \A t \in TaskIds : LedgerResults(runs[t]) = <<>>
  <2>1. LedgerResults(<<>>) = <<>>
    BY DEF LedgerResults
  <2> QED BY <2>1 DEF Init, LedgerResults
<1>3. \A t \in TaskIds : tasks[t].node = NULL
  BY DEF Init, Blank
<1> QED BY <1>1, <1>2, <1>3 DEF Ledger!LedgerInit

\* Every handler is a step of the ledger or changes nothing of it.
LEMMA LedgerStep ==
  TypeOK /\ TypeOK' /\ RunsNumbered /\ [Next]_engineVars
    => [Ledger!LedgerNext]_Ledger!ledgerVars
<1> SUFFICES ASSUME TypeOK, TypeOK', RunsNumbered, [Next]_engineVars
             PROVE  Ledger!LedgerNext \/ UNCHANGED Ledger!ledgerVars
  OBVIOUS
<1>1. created \in Nat /\ created \in 0 .. MaxTasks
  BY MaxTasksAssumption DEF TypeOK
<1>2. ASSUME NEW row \in Row, NEW type, InsertTask(row, type), row.status = "Pending", UNCHANGED runs
      PROVE  Ledger!LedgerNext
  <2>1. created' = created + 1 /\ tasks' = [tasks EXCEPT ![created + 1] = row]
    BY <1>2 DEF InsertTask
  <2>2. created' > created /\ (\A t \in Created : tasks'[t] = tasks[t])
        /\ Created' \ Created = {created + 1}
    BY <1>1, <2>1 DEF Created, TypeOK
  <2>3. tasks'[created + 1] = row
    BY <1>1, <2>1, <2>2, NextIdType DEF TypeOK
  <2> QED BY <1>2, <2>2, <2>3, MapsToSubmit
<1>3. ASSUME NEW scope \in {"Region", "Node"}, NEW node \in Nodes \cup {NULL},
             NEW gateway \in Gateways \cup {NULL}, CreateTask(scope, node, gateway)
      PROVE  Ledger!LedgerNext
  <2> DEFINE row == [Blank EXCEPT !.scope = scope, !.node = node, !.gateway = gateway]
  <2>1. row \in Row /\ row.status = "Pending"
    BY DEF Blank, Row, Statuses
  <2> QED BY <1>2, <1>3, <2>1 DEF CreateTask
<1>4. ASSUME NEW t \in TaskIds, CancelTask(t) PROVE Ledger!LedgerNext
  BY <1>4, MapsToWithdraw
<1>5. ASSUME NEW nodeIDs \in NodeLists, CreateDeploymentTask(nodeIDs) PROVE Ledger!LedgerNext
  <2>1. Len(nodeIDs) \in Nat /\ created' = created + 1 + Len(nodeIDs) /\ created' \in 0 .. MaxTasks
    BY <1>5, NodeListsType, LenProperties DEF CreateDeploymentTask, TypeOK
  <2>2. ASSUME NEW t \in TaskIds
        PROVE  /\ t \in Created => tasks'[t] = tasks[t]
               /\ t \in Created' \ Created => tasks'[t].status = "Pending"
    <3>1. t \in Created => t # created + 1 /\ ~(t > created + 1)
      BY <1>1 DEF Created
    <3>2. t \in Created' \ Created => t = created + 1 \/ (t > created + 1 /\ t <= created')
      BY <1>1, <2>1 DEF Created
    <3>3. Blank.status = "Pending" /\ \A node : NodeRow(created + 1, node).status = "Pending"
      BY NodeRowIs DEF Blank
    <3> QED BY <1>5, <3>1, <3>2, <3>3 DEF CreateDeploymentTask
  <2>3. Created \subseteq TaskIds /\ Created' \subseteq TaskIds /\ created' > created
    BY <1>1, <2>1, MaxTasksAssumption DEF Created, TaskIds
  <2> QED BY <1>5, <2>2, <2>3, MapsToSubmit DEF CreateDeploymentTask
<1>6. ASSUME NEW c \in PushCalls, expandAndClaim(c) PROVE Ledger!LedgerNext
  <2>1. pushes[c] \in Call /\ InsertTask(ExpandedRow(pushes[c]), "expanded") /\ UNCHANGED runs
    BY <1>6, BusyCall DEF expandAndClaim
  <2>2. ExpandedRow(pushes[c]) \in Row /\ ExpandedRow(pushes[c]).status = "Pending"
    BY <2>1, ExpandedRowIs
  <2> QED BY <1>2, <2>1, <2>2
<1>7. ASSUME NEW g \in Gateways, NEW n \in Nodes, NEW locked \in SUBSET Pullable(g, n),
             PullTasks(g, n, Pulled(g, n, locked))
      PROVE  Ledger!LedgerNext \/ UNCHANGED <<created, tasks, runs>>
  <2>1. CASE Pulled(g, n, locked) # {}
    BY <1>7, <2>1, PulledIs, MapsToTake
  <2>2. CASE Pulled(g, n, locked) = {}
    <3>1. tasks' = [t \in TaskIds |-> tasks[t]] /\ tasks \in [TaskIds -> Row]
      BY <1>7, <2>2 DEF PullTasks, TypeOK
    <3> QED BY <1>7, <3>1 DEF PullTasks
  <2> QED BY <2>1, <2>2
<1>8. ASSUME NEW n \in Nodes, NEW t \in TaskIds, NEW raw \in Reported,
             ReportTaskResult(n, t, raw)
      PROVE  Ledger!LedgerNext
  BY <1>8, MapsToReport
<1>9. ASSUME UNCHANGED <<created, tasks, runs>> PROVE UNCHANGED Ledger!ledgerVars
  BY <1>9 DEF Ledger!ledgerVars, LedgerState, LedgerResults
<1>10. \/ Ledger!LedgerNext
       \/ UNCHANGED <<created, tasks, runs>>
  BY <1>3, <1>4, <1>5, <1>6, <1>7, <1>8
     DEF Next, engineVars, PushRegionalTask, expandAndClaimFails
<1> QED BY <1>9, <1>10

\* The engine implements the ledger: its handlers, in any interleaving, only submit
\* tasks, hand open ones to their node, withdraw them, or append the next result.
THEOREM EngineImplementsLedger == Spec => ImplementsLedger
<1>1. Spec => []TypeOK /\ []RunsNumbered
  BY TypeCorrect, NumberedInvariant
<1>2. Init => Ledger!LedgerInit
  BY LedgerInit
<1>3. TypeOK /\ TypeOK' /\ RunsNumbered /\ [Next]_engineVars
        => [Ledger!LedgerNext]_Ledger!ledgerVars
  BY LedgerStep
<1> QED BY <1>1, <1>2, <1>3, PTL DEF Spec, ImplementsLedger, Ledger!LedgerSpec
===============================================================================
