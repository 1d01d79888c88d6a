------------------------------ MODULE TaskLedger ------------------------------
(***************************************************************************)
(* What the task engine promises, without tables, gateways or claims: a    *)
(* task goes from open to taken to over and never back, it is taken by the *)
(* node it is for, and its results are kept in the order of their arrival, *)
(* numbered from 1.  TaskEngine implements it (TaskRefinement).            *)
(***************************************************************************)
EXTENDS Naturals, Sequences

CONSTANTS Ids, Nodes, NoNode, Outcomes

VARIABLES state,   \* of each task
          target,  \* the node it is for
          results  \* what was reported about it

ledgerVars == <<state, target, results>>

LedgerInit ==
    /\ state = [t \in Ids |-> "absent"]
    /\ target = [t \in Ids |-> NoNode]
    /\ results = [t \in Ids |-> <<>>]

\* Tasks are created, several at once by a deployment; the node is for good.
Submit(S) ==
    /\ S # {} /\ \A t \in S : state[t] = "absent"
    /\ state' = [t \in Ids |-> IF t \in S THEN "open" ELSE state[t]]
    /\ target' \in [Ids -> Nodes \cup {NoNode}]
    /\ \A t \in Ids \ S : target'[t] = target[t]
    /\ UNCHANGED results

\* A node takes open tasks that are for it.
Take(S) ==
    /\ S # {} /\ \A t \in S : state[t] = "open"
    /\ \E n \in Nodes : \A t \in S : target[t] = n
    /\ state' = [t \in Ids |-> IF t \in S THEN "taken" ELSE state[t]]
    /\ UNCHANGED <<target, results>>

\* A task is cancelled before it is over, or after it failed.
Withdraw(t) ==
    /\ state[t] # "absent"
    /\ state' = [state EXCEPT ![t] = "over"]
    /\ UNCHANGED <<target, results>>

\* The node reports: the task is over, whatever it was.
Report(t) ==
    /\ state[t] # "absent" /\ target[t] \in Nodes
    /\ state' = [state EXCEPT ![t] = "over"]
    /\ \E outcome \in Outcomes :
        results' = [results EXCEPT ![t] = Append(@, <<Len(@) + 1, target[t], outcome>>)]
    /\ UNCHANGED target

LedgerNext ==
    \/ \E t \in Ids : Withdraw(t) \/ Report(t)
    \/ \E S \in SUBSET Ids : Submit(S) \/ Take(S)

LedgerSpec == LedgerInit /\ [][LedgerNext]_ledgerVars
===============================================================================
