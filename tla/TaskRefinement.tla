---------------------------- MODULE TaskRefinement ----------------------------
(* The refinement mapping from the task engine to the ledger it implements.  *)
EXTENDS TaskEngine

\* The life of a task as the ledger sees it.
LedgerState(t) ==
    IF t > created THEN "absent"
    ELSE CASE tasks[t].status \in {"Pending", "Retrying"} -> "open"
           [] tasks[t].status = "Running" -> "taken"
           [] OTHER -> "over"

\* The runs of a task as the ledger keeps its results.
LedgerResults(rs) == [i \in 1 .. Len(rs) |-> <<rs[i].attempt, rs[i].node, rs[i].status>>]

Ledger == INSTANCE TaskLedger WITH
    Ids <- TaskIds,
    NoNode <- NULL,
    Outcomes <- ReportableStatuses,
    state <- [t \in TaskIds |-> LedgerState(t)],
    target <- [t \in TaskIds |-> tasks[t].node],
    results <- [t \in TaskIds |-> LedgerResults(runs[t])]

\* The engine implements the ledger: no interleaving of pulls, pushes, reports and
\* cancellations makes a task that was taken or is over open or taken again, gives
\* it to another node, or loses, renumbers or reorders its results.
ImplementsLedger == Ledger!LedgerSpec
===============================================================================
