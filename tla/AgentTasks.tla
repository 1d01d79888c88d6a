------------------------------ MODULE AgentTasks ------------------------------
(***************************************************************************)
(* What the executors of the edge agent share (cmd/edge-agent/main.go,     *)
(* internal/agent/executor_mux.go): the task goroutines they run in and    *)
(* the table that leads from a task type to its executor.                  *)
(***************************************************************************)
EXTENDS TLC

CONSTANTS Jobs,  \* task goroutines
          NULL

\* The types bound to each executor.
modelTypes == {"InstallModel", "DeleteModel"}
runtimeTypes == {"StartRuntime", "StopRuntime", "RestartRuntime", "UpgradeRuntime"}
updaterTypes == {"UpgradeAgent"}
logTypes == {"CollectLogs"}

\* The executor of a task type; every other type is an error, the regional
\* DeployModel and the documented RevokeNode among them.
handlers ==
    [t \in modelTypes |-> "model"] @@ [t \in runtimeTypes |-> "runtime"] @@
    [t \in updaterTypes |-> "updater"] @@ [t \in logTypes |-> "logs"]
===============================================================================
