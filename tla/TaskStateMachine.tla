--------------------------- MODULE TaskStateMachine ---------------------------
(***************************************************************************)
(* The status vocabulary of internal/task/state_machine.go and the status  *)
(* normalisation of internal/gateway/agent_service.go, as pure operators.  *)
(* A status is the text stored in tasks.status; the proto enumeration is   *)
(* the same set of names.                                                  *)
(***************************************************************************)

Statuses == {"Pending", "Dispatching", "Running", "Success", "Failed",
             "Retrying", "Timeout", "Cancelled", "PartiallySucceeded"}

terminalStatuses == {"Success", "Cancelled", "Timeout", "PartiallySucceeded"}

\* allowedTransitions as a function; a status with no entry maps to {}.
allowedTransitions ==
    [s \in Statuses |->
        CASE s = "Pending"     -> {"Dispatching", "Cancelled"}
          [] s = "Dispatching" -> {"Running", "Cancelled", "Timeout"}
          [] s = "Running"     -> {"Success", "Failed", "Timeout", "Cancelled",
                                   "PartiallySucceeded"}
          [] s = "Failed"      -> {"Retrying", "Cancelled"}
          [] s = "Retrying"    -> {"Running", "Cancelled"}
          [] OTHER             -> {}]

ValidateTransition(from, to) == to \in allowedTransitions[from]

IsTerminal(s) == s \in terminalStatuses

(***************************************************************************)
(* What an agent may write in ReportTaskResultRequest.status, up to case   *)
(* and surrounding blanks, which the code strips.                          *)
(***************************************************************************)
RawStatuses == {"success", "failed", "failure", "cancelled", "canceled",
                "timeout", "partiallysucceeded", "running", "retrying"}

\* The stored status a raw one stands for, or "" for InvalidArgument.
normalizeReportedStatus(raw) ==
    CASE raw = "success"                  -> "Success"
      [] raw \in {"failed", "failure"}    -> "Failed"
      [] raw \in {"cancelled","canceled"} -> "Cancelled"
      [] raw = "timeout"                  -> "Timeout"
      [] raw = "partiallysucceeded"       -> "PartiallySucceeded"
      [] OTHER                            -> ""

\* The statuses a report can store.
ReportableStatuses ==
    {"Success", "Failed", "Cancelled", "Timeout", "PartiallySucceeded"}
===============================================================================
