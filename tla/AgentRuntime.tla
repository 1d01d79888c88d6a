----------------------------- MODULE AgentRuntime -----------------------------
(***************************************************************************)
(* Runtime lifecycle tasks on an edge node: RuntimeExecutor                *)
(* (internal/agent/runtime_executor.go), the runtime Manager and the       *)
(* llama.cpp adapter (internal/runtime/), and the log collector, the other *)
(* executor without files of its own.                                      *)
(*                                                                         *)
(* The task runner executes every task in a goroutine of its own.  The     *)
(* adapter's map is locked for one Start, Stop or Status at a time, so a   *)
(* restart, an upgrade and the status a task reports are several steps     *)
(* between which other tasks of the same model run.  Install only writes a *)
(* log line and is left out.                                               *)
(***************************************************************************)
EXTENDS Naturals, Sequences, AgentTasks

CONSTANTS Models,    \* modelKey: name and version
          Adapters,  \* the registered adapters
          Runtimes,  \* the runtime names tasks carry, Adapters among them
          MaxRtTasks \* bound on the tasks executed

ASSUME RuntimeAssumption ==
    Adapters \subseteq Runtimes /\ MaxRtTasks \in Nat /\ NULL \notin runtimeTypes

VARIABLES running,  \* LlamaCppAdapter.running of each adapter
          rtJob,    \* the goroutines
          rtDone,   \* history: how the task that ended last ended
          rtTasks

runtimeVars == <<running, rtJob, rtDone, rtTasks>>

NoTask == [type |-> NULL]

\* The locked sections of a task, the report of the status being the last one.
Sections(type) ==
    CASE type = "StartRuntime" -> <<"start", "status">>
      [] type = "StopRuntime"  -> <<"stop", "status">>
      [] OTHER                 -> <<"tryStop", "start", "status">>

RtInit ==
    /\ running = [a \in Adapters |-> {}]
    /\ rtJob = [j \in Jobs |-> NoTask]
    /\ rtDone = NoTask
    /\ rtTasks = 0

-------------------------------------------------------------------------------

\* A task is handed to the executor.  An adapter that is not registered fails
\* at the first call of the manager, in an upgrade at the second.
RtExecute(j, type, runtime, m) ==
    /\ rtJob[j] = NoTask /\ rtTasks < MaxRtTasks
    /\ handlers[type] = "runtime"
    /\ rtTasks' = rtTasks + 1
    /\ IF runtime \in Adapters
       THEN /\ rtJob' = [rtJob EXCEPT ![j] =
                            [type |-> type, adapter |-> runtime, model |-> m,
                             todo |-> Sections(type), before |-> m \in running[runtime],
                             started |-> FALSE, stopped |-> FALSE]]
            /\ UNCHANGED rtDone
       ELSE /\ rtDone' = [type |-> type, ok |-> FALSE, known |-> FALSE]
            /\ UNCHANGED rtJob
    /\ UNCHANGED running

\* The task of goroutine j ends.
RtEnd(j, ok) ==
    rtDone' = [type |-> rtJob[j].type, ok |-> ok, known |-> TRUE,
               state |-> rtJob[j].model \in running[rtJob[j].adapter],
               before |-> rtJob[j].before, started |-> rtJob[j].started,
               stopped |-> rtJob[j].stopped]

\* The map of goroutine j's adapter becomes models and j goes on to its next
\* section; the other tasks of the model remember what was done to it.
Section(j, models) ==
    /\ running' = [running EXCEPT ![rtJob[j].adapter] = models]
    /\ rtJob' = [k \in Jobs |->
                    IF k = j THEN [rtJob[j] EXCEPT !.todo = Tail(@)]
                    ELSE IF /\ rtJob[k] # NoTask
                            /\ rtJob[k].model = rtJob[j].model
                            /\ rtJob[k].adapter = rtJob[j].adapter
                            /\ running' # running
                    THEN [rtJob[k] EXCEPT !.started = @ \/ rtJob[j].model \in models,
                                          !.stopped = @ \/ rtJob[j].model \notin models]
                    ELSE rtJob[k]]
    /\ UNCHANGED <<rtDone, rtTasks>>

RtFail(j) ==
    /\ RtEnd(j, FALSE)
    /\ rtJob' = [rtJob EXCEPT ![j] = NoTask]
    /\ UNCHANGED <<running, rtTasks>>

\* Whether goroutine j is at a section.
At(j, section) == rtJob[j] # NoTask /\ Head(rtJob[j].todo) = section
InMap(j) == rtJob[j].model \in running[rtJob[j].adapter]

\* Mutant of RtStart: a model that already runs is no error but is left stopped.
RtStartToggles(j) ==
    /\ At(j, "start")
    /\ Section(j, IF InMap(j) THEN running[rtJob[j].adapter] \ {rtJob[j].model}
                  ELSE running[rtJob[j].adapter] \cup {rtJob[j].model})

RtStart(j) ==
    /\ At(j, "start")
    /\ IF InMap(j) THEN RtFail(j)
       ELSE Section(j, running[rtJob[j].adapter] \cup {rtJob[j].model})

RtStop(j) ==
    /\ At(j, "stop")
    /\ IF ~InMap(j) THEN RtFail(j)
       ELSE Section(j, running[rtJob[j].adapter] \ {rtJob[j].model})

\* The first half of Restart and of an upgrade: an error is only logged.
RtTryStop(j) ==
    /\ At(j, "tryStop")
    /\ Section(j, running[rtJob[j].adapter] \ {rtJob[j].model})

\* The status is read and is the result of the task.
RtStatus(j) ==
    /\ At(j, "status")
    /\ RtEnd(j, TRUE)
    /\ rtJob' = [rtJob EXCEPT ![j] = NoTask]
    /\ UNCHANGED <<running, rtTasks>>

\* LogCollector keeps no state: it reads the system's log and uploads it, or fails.
CollectLogs(j, ok) ==
    /\ rtJob[j] = NoTask /\ rtTasks < MaxRtTasks
    /\ rtTasks' = rtTasks + 1
    /\ rtDone' = [type |-> "CollectLogs", known |-> FALSE, ok |-> ok]
    /\ UNCHANGED <<running, rtJob>>

\* The agent's process ends and is started again: NewLlamaCppAdapter.
RtRestart ==
    /\ running' = [a \in Adapters |-> {}]
    /\ rtJob' = [j \in Jobs |-> NoTask]
    /\ UNCHANGED <<rtDone, rtTasks>>

RtNext ==
    \/ \E j \in Jobs :
        \/ \E type \in runtimeTypes, r \in Runtimes, m \in Models : RtExecute(j, type, r, m)
        \/ \E ok \in BOOLEAN : CollectLogs(j, ok)
        \/ RtStart(j) \/ RtStop(j) \/ RtTryStop(j) \/ RtStatus(j)
    \/ RtRestart

RtSpec == RtInit /\ [][RtNext]_runtimeVars

-------------------------------------------------------------------------------
(* Properties *)

\* What a runtime task answers is what it did or what another task did to the same
\* model in between, although its calls of the adapter and the status it reports are
\* separate sections.  A start fails only on a model that was running at some time of
\* the task, a stop only on one that was not, a restart and an upgrade only if another
\* task started the model after they stopped it; and a task that succeeds was needed,
\* and reports another state than the one it is named for only if another task brought
\* that about.
RuntimeOutcomeExplained ==
    (rtDone.type \in runtimeTypes /\ rtDone.known) =>
        CASE rtDone.type = "StartRuntime" ->
                IF rtDone.ok THEN (~rtDone.before /\ rtDone.state) \/ rtDone.stopped
                ELSE rtDone.before \/ rtDone.started
          [] rtDone.type = "StopRuntime" ->
                IF rtDone.ok THEN (rtDone.before /\ ~rtDone.state) \/ rtDone.started
                ELSE ~rtDone.before \/ rtDone.stopped
          [] OTHER -> IF rtDone.ok THEN rtDone.state \/ rtDone.stopped ELSE rtDone.started
===============================================================================
