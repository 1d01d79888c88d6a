------------------------------ MODULE TaskRunner ------------------------------
(***************************************************************************)
(* The agent's task runner (internal/agent/task_runner.go) composed with   *)
(* the task engine it polls and reports to.  One agent process runs per    *)
(* node.  It can crash at any step and systemd restarts it; what survives  *)
(* is the pending-results directory on its disk and the central database.  *)
(*                                                                         *)
(* An RPC is one joint step of the gateway's transaction and the agent's   *)
(* call, with three outcomes: answered, committed but the answer is lost   *)
(* (the 10 s timeout, a broken connection), and failed without effect.     *)
(***************************************************************************)
EXTENDS TaskEngine

CONSTANTS Home,        \* Home[n] is the gateway node n's agent is configured with
          MaxCrashes,  \* bound on agent crashes
          MaxFaults    \* bound on failed RPCs and failed file operations

ASSUME HomeAssumption == Home \in [Nodes -> Gateways]
ASSUME FaultBoundsAssumption == MaxCrashes \in Nat /\ MaxFaults \in Nat

VARIABLES agent,      \* what the runner's goroutine does: "down", "draining", "polling"
          reply,      \* the tasks of a PullTasks answer not looked at yet, or NULL
          processed,  \* TaskRunner.processed
          job,        \* executeAndReport goroutines, and the report drain waits for
          disk,       \* the pending-results directory
          drain,      \* directory entries drainPendingResults has still to visit
          outcome,    \* history: what the execution of a task returned
          execs,      \* history: how often the executor was started
          crashes, faults

agentVars == <<agent, reply, processed, job, disk, drain, outcome, execs, crashes, faults>>
sysVars == <<engineVars, agentVars>>

Outcomes == {"Success", "Failed"}
NoJob == [phase |-> "none", result |-> "none"]

\* Mutant of RawOf: the executor's error is swallowed.
RawOfSwallowed(result) == "success"

\* The status text of a pending result as the gateway sees it.
RawOf(result) == IF result = "Success" THEN "success" ELSE "failed"

SysInit ==
    /\ Init
    /\ agent = [n \in Nodes |-> "down"]
    /\ reply = [n \in Nodes |-> NULL]
    /\ processed = [n \in Nodes |-> {}]
    /\ job = [n \in Nodes |-> [t \in TaskIds |-> NoJob]]
    /\ disk = [n \in Nodes |-> [t \in TaskIds |-> "none"]]
    /\ drain = [n \in Nodes |-> {}]
    /\ outcome = [n \in Nodes |-> [t \in TaskIds |-> "none"]]
    /\ execs = [n \in Nodes |-> [t \in TaskIds |-> 0]]
    /\ crashes = 0
    /\ faults = 0

-------------------------------------------------------------------------------
(* Process life *)

\* Mutant of Start: the poll loop begins without draining the directory.
StartNoDrain(n) ==
    /\ agent[n] = "down"
    /\ agent' = [agent EXCEPT ![n] = "draining"]
    /\ UNCHANGED <<engineVars, reply, processed, job, disk, drain, outcome, execs, crashes, faults>>

\* Run is entered: processed is empty, drainPendingResults lists the directory.
Start(n) ==
    /\ agent[n] = "down"
    /\ agent' = [agent EXCEPT ![n] = "draining"]
    /\ drain' = [drain EXCEPT ![n] = {t \in TaskIds : disk[n][t] # "none"}]
    /\ UNCHANGED <<engineVars, reply, processed, job, disk, outcome, execs, crashes, faults>>

\* The process ends (crash, power loss, or shutdown: ctx is cancelled under the
\* running goroutines).
Crash(n) ==
    /\ agent[n] # "down" /\ crashes < MaxCrashes
    /\ agent' = [agent EXCEPT ![n] = "down"]
    /\ reply' = [reply EXCEPT ![n] = NULL]
    /\ processed' = [processed EXCEPT ![n] = {}]
    /\ job' = [job EXCEPT ![n] = [t \in TaskIds |-> NoJob]]
    /\ drain' = [drain EXCEPT ![n] = {}]
    /\ crashes' = crashes + 1
    /\ UNCHANGED <<engineVars, disk, outcome, execs, faults>>

-------------------------------------------------------------------------------
(* drainPendingResults: one entry at a time, in the order of the file names,
   which are random UUIDs. *)

DrainIdle(n) == agent[n] = "draining" /\ \A t \in TaskIds : job[n][t] = NoJob

\* A file that cannot be decoded is logged and skipped; it stays on disk.
DrainSkip(n, t) ==
    /\ DrainIdle(n) /\ t \in drain[n] /\ disk[n][t] = "torn"
    /\ drain' = [drain EXCEPT ![n] = @ \ {t}]
    /\ UNCHANGED <<engineVars, agent, reply, processed, job, disk, outcome, execs, crashes, faults>>

DrainEntry(n, t) ==
    /\ DrainIdle(n) /\ t \in drain[n] /\ disk[n][t] \in Outcomes
    /\ drain' = [drain EXCEPT ![n] = @ \ {t}]
    /\ processed' = [processed EXCEPT ![n] = @ \cup {t}]
    /\ job' = [job EXCEPT ![n][t] = [phase |-> "reporting", result |-> disk[n][t]]]
    /\ UNCHANGED <<engineVars, agent, reply, disk, outcome, execs, crashes, faults>>

DrainDone(n) ==
    /\ DrainIdle(n) /\ drain[n] = {}
    /\ agent' = [agent EXCEPT ![n] = "polling"]
    /\ UNCHANGED <<engineVars, reply, processed, job, disk, drain, outcome, execs, crashes, faults>>

-------------------------------------------------------------------------------
(* The poll loop *)

\* The PullTasks call of poll, answered.  An empty answer changes nothing.
PullAnswered(n, locked) ==
    /\ agent[n] = "polling" /\ reply[n] = NULL
    /\ Pulled(Home[n], n, locked) # {}
    /\ PullTasks(Home[n], n, Pulled(Home[n], n, locked))
    /\ reply' = [reply EXCEPT ![n] = Pulled(Home[n], n, locked)]
    /\ UNCHANGED <<agent, processed, job, disk, drain, outcome, execs, crashes, faults>>

\* The gateway commits the delivery but the agent never sees the answer.
PullLost(n, locked) ==
    /\ agent[n] = "polling" /\ reply[n] = NULL /\ faults < MaxFaults
    /\ Pulled(Home[n], n, locked) # {}
    /\ PullTasks(Home[n], n, Pulled(Home[n], n, locked))
    /\ faults' = faults + 1
    /\ UNCHANGED <<agent, reply, processed, job, disk, drain, outcome, execs, crashes>>

\* The tasks of an answer that are not duplicates.
Fresh(n) == reply[n] \ processed[n]

\* The rest of poll: each task that is not a duplicate gets a goroutine.
Poll(n) ==
    /\ reply[n] # NULL
    /\ processed' = [processed EXCEPT ![n] = @ \cup Fresh(n)]
    /\ job' = [job EXCEPT ![n] = [t \in TaskIds |->
                  IF t \in Fresh(n) THEN [phase |-> "executing", result |-> "none"] ELSE @[t]]]
    /\ execs' = [execs EXCEPT ![n] = [t \in TaskIds |-> IF t \in Fresh(n) THEN @[t] + 1 ELSE @[t]]]
    /\ reply' = [reply EXCEPT ![n] = NULL]
    /\ UNCHANGED <<engineVars, agent, disk, drain, outcome, crashes, faults>>

-------------------------------------------------------------------------------
(* executeAndReport *)

Execute(n, t, result) ==
    /\ job[n][t].phase = "executing"
    /\ job' = [job EXCEPT ![n][t] = [phase |-> "executed", result |-> result]]
    /\ outcome' = [outcome EXCEPT ![n][t] = result]
    /\ UNCHANGED <<engineVars, agent, reply, processed, disk, drain, execs, crashes, faults>>

\* savePendingResult: os.WriteFile truncates the file, then writes it.
SaveBegin(n, t) ==
    /\ job[n][t].phase = "executed"
    /\ job' = [job EXCEPT ![n][t].phase = "writing"]
    /\ disk' = [disk EXCEPT ![n][t] = "torn"]
    /\ UNCHANGED <<engineVars, agent, reply, processed, drain, outcome, execs, crashes, faults>>

SaveEnd(n, t) ==
    /\ job[n][t].phase = "writing"
    /\ job' = [job EXCEPT ![n][t].phase = "reporting"]
    /\ disk' = [disk EXCEPT ![n][t] = job[n][t].result]
    /\ UNCHANGED <<engineVars, agent, reply, processed, drain, outcome, execs, crashes, faults>>

\* mkdir, create or write fails: it is logged and the result is reported anyway.
SaveFails(n, t) ==
    /\ job[n][t].phase \in {"executed", "writing"} /\ faults < MaxFaults
    /\ job' = [job EXCEPT ![n][t].phase = "reporting"]
    /\ faults' = faults + 1
    /\ UNCHANGED <<engineVars, agent, reply, processed, disk, drain, outcome, execs, crashes>>

ReportAnswered(n, t) ==
    /\ job[n][t].phase = "reporting"
    /\ ReportTaskResult(n, t, RawOf(job[n][t].result))
    /\ job' = [job EXCEPT ![n][t].phase = "acked"]
    /\ UNCHANGED <<agent, reply, processed, disk, drain, outcome, execs, crashes, faults>>

\* The report is stored but the agent sees an error and keeps the file.
ReportLost(n, t) ==
    /\ job[n][t].phase = "reporting" /\ faults < MaxFaults
    /\ ReportTaskResult(n, t, RawOf(job[n][t].result))
    /\ job' = [job EXCEPT ![n][t] = NoJob]
    /\ faults' = faults + 1
    /\ UNCHANGED <<agent, reply, processed, disk, drain, outcome, execs, crashes>>

\* Mutant of ReportFails: the file is removed whatever the report returned.
ReportFailsRemoves(n, t) ==
    /\ job[n][t].phase = "reporting" /\ faults < MaxFaults
    /\ job' = [job EXCEPT ![n][t] = NoJob]
    /\ disk' = [disk EXCEPT ![n][t] = "none"]
    /\ faults' = faults + 1
    /\ UNCHANGED <<engineVars, agent, reply, processed, drain, outcome, execs, crashes>>

ReportFails(n, t) ==
    /\ job[n][t].phase = "reporting" /\ faults < MaxFaults
    /\ job' = [job EXCEPT ![n][t] = NoJob]
    /\ faults' = faults + 1
    /\ UNCHANGED <<engineVars, agent, reply, processed, disk, drain, outcome, execs, crashes>>

removePendingResult(n, t) ==
    /\ job[n][t].phase = "acked"
    /\ job' = [job EXCEPT ![n][t] = NoJob]
    /\ disk' = [disk EXCEPT ![n][t] = "none"]
    /\ UNCHANGED <<engineVars, agent, reply, processed, drain, outcome, execs, crashes, faults>>

-------------------------------------------------------------------------------

\* The control plane's steps: users create and cancel tasks, regional tasks are
\* pushed to the gateways; TaskEngine also has the pushes of node tasks, whose rows
\* reach an agent in the same way.
ControlPlane ==
    /\ \/ \E n \in Nodes : \E gateway \in {NULL, Home[n]} : CreateTask("Node", n, gateway)
       \/ CreateTask("Region", NULL, NULL)
       \/ \E t \in TaskIds : CancelTask(t)
       \/ \E n \in Nodes : CreateDeploymentTask(<<n>>)
       \/ \E c \in PushCalls, g \in Gateways, parent \in TaskIds, n \in Nodes :
              tasks[parent].scope = "Region" /\ PushRegionalTask(c, g, parent, <<n>>)
       \/ \E c \in PushCalls : expandAndClaim(c)
       \/ \E c \in PushCalls : expandAndClaimFails(c)
    /\ UNCHANGED agentVars

AgentStep(n) ==
    \/ Start(n) \/ Crash(n) \/ DrainDone(n) \/ Poll(n)
    \/ \E locked \in SUBSET TaskIds : PullAnswered(n, locked) \/ PullLost(n, locked)
    \/ \E t \in TaskIds :
        \/ DrainSkip(n, t) \/ DrainEntry(n, t)
        \/ \E result \in Outcomes : Execute(n, t, result)
        \/ SaveBegin(n, t) \/ SaveEnd(n, t) \/ SaveFails(n, t)
        \/ ReportAnswered(n, t) \/ ReportLost(n, t) \/ ReportFails(n, t)
        \/ removePendingResult(n, t)

SysNext == ControlPlane \/ \E n \in Nodes : AgentStep(n)

SysSpec == SysInit /\ [][SysNext]_sysVars

\* systemd restarts a stopped agent; a running goroutine makes progress; the
\* poll ticker fires every 5 s and a row is locked only for the length of a
\* transaction, so a pull with no lock in its way keeps recurring.
Fairness ==
    /\ \A n \in Nodes :
        /\ WF_sysVars(Start(n))
        /\ WF_sysVars(DrainDone(n))
        /\ WF_sysVars(PullAnswered(n, {}))
        /\ WF_sysVars(Poll(n))
        /\ \A t \in TaskIds :
            /\ WF_sysVars(DrainSkip(n, t) \/ DrainEntry(n, t))
            /\ WF_sysVars(\E result \in Outcomes : Execute(n, t, result))
            /\ WF_sysVars(SaveBegin(n, t) \/ SaveEnd(n, t))
            /\ WF_sysVars(ReportAnswered(n, t) \/ removePendingResult(n, t))
    /\ \A c \in PushCalls : WF_sysVars(expandAndClaim(c) /\ UNCHANGED agentVars)

FairSpec == SysSpec /\ Fairness

-------------------------------------------------------------------------------
(* Properties *)

\* A task is executed at most once over all nodes, crashes, restarts, lost
\* answers and repeated reports, although processed does not survive a restart:
\* the row left Pending before the agent saw the task and never returns to it.
ExecutedAtMostOnce ==
    \A t \in TaskIds : \A n, m \in Nodes :
        /\ execs[n][t] <= 1
        /\ execs[n][t] + execs[m][t] > 1 => n = m

\* Every stored run is the true outcome of an execution on that node: through
\* the pending-results file, a crash and the replay, a result is never changed,
\* mixed up with another task's or made up from a torn file.
RunsAreTruthful ==
    \A t \in Created : \A i \in 1 .. Len(runs[t]) :
        runs[t][i].status = outcome[runs[t][i].node][t]

\* A pending-results file with a result is removed only when the database holds
\* a run with that result: a report that was not acknowledged is never forgotten.
FileOutlivesReport ==
    [][\A n \in Nodes, t \in TaskIds :
          (disk[n][t] \in Outcomes /\ disk'[n][t] # disk[n][t]) =>
              \E i \in 1 .. Len(runs[t]) : runs[t][i].status = disk[n][t]]_sysVars

\* Cancelling a task that was not delivered stops it: no agent ever holds or
\* starts it afterwards ("the task is no longer delivered").
CancelStopsDelivery ==
    \A t \in Created :
        (tasks[t].status = "Cancelled" /\ Deliveries(t) = {}) =>
            \A n \in Nodes :
                /\ execs[n][t] = 0 /\ job[n][t] = NoJob
                /\ (reply[n] # NULL => t \notin reply[n])

\* A task is for an agent that polls a gateway the row admits.
Reachable(t) == /\ t \in Created /\ tasks[t].scope = "Node" /\ tasks[t].node # NULL
                /\ tasks[t].gateway \in {NULL, Home[tasks[t].node]}

\* The row is Running, and no agent holds the task or a readable result of it.
Stranded(t) ==
    /\ tasks[t].status = "Running"
    /\ \A n \in Nodes : /\ job[n][t] = NoJob /\ disk[n][t] \notin Outcomes
                        /\ (reply[n] # NULL => t \notin reply[n])

\* Every deliverable NodeTask reaches a result or is cancelled, or a crash took
\* the only trace of it: nothing delivers it again, but nothing else loses it.
EveryTaskEnds ==
    \A t \in TaskIds :
        Reachable(t) ~> \/ tasks[t].status \notin {"Pending", "Running"}
                        \/ crashes > 0 /\ Stranded(t)

\* A result saved in a pending-results file is eventually stored in task_runs,
\* whatever crashes follow: the drain of a later start finds and reports it.
SavedResultIsReported ==
    \A n \in Nodes, t \in TaskIds : disk[n][t] \in Outcomes ~> runs[t] # <<>>
===============================================================================
