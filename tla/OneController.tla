----------------------------- MODULE OneController -----------------------------
(***************************************************************************)
(* What the reconcile loops promise, as one controller that works on one   *)
(* deployment at a time, without lists or locks.  It looks at the nodes'   *)
(* states of a deployment, or gives up; then it sends a Pending one to     *)
(* nodes it selects that are online, or judges a rollout by the nodes its  *)
(* latest tasks were for; no user comes in between.  Deployment            *)
(* implements it with any number of controllers (DeploymentRefinement).    *)
(***************************************************************************)
EXTENDS Naturals, Sequences, FiniteSets

CONSTANTS Ids, Nodes,
          Selected  \* Selected[d]: the nodes that deployment d selects

VARIABLES phase,    \* of each deployment, "absent" before it is created
          sent,     \* per deployment, the sets of nodes tasks were created for
          reached,  \* the nodes that have come online
          state,    \* per deployment, what each node says of its model
          look      \* per deployment, the counts it is looked at with, in a set of at most one

oneVars == <<phase, sent, reached, state, look>>

OneInit ==
    /\ phase = [d \in Ids |-> "absent"]
    /\ sent = [d \in Ids |-> <<>>]
    /\ reached = {}
    /\ state = [d \in Ids |-> [n \in Nodes |-> "other"]]
    /\ look = [d \in Ids |-> {}]

Create(d) ==
    /\ phase[d] = "absent"
    /\ phase' = [phase EXCEPT ![d] = "Pending"]
    /\ UNCHANGED <<sent, reached, state, look>>

\* Any phase at any time.
UserSets(d) ==
    /\ phase[d] # "absent" /\ look[d] = {}
    /\ UNCHANGED <<sent, reached, state, look>>
    /\ \E p \in {"Pending", "RollingOut", "Active", "Failed", "Paused"} :
        phase' = [phase EXCEPT ![d] = p]

ComesOnline(n) ==
    /\ reached' = reached \cup {n}
    /\ UNCHANGED <<phase, sent, state, look>>

\* One node's state of the models it was told to run changes.
Reports(n) ==
    /\ UNCHANGED <<phase, sent, reached, look>>
    /\ \A d \in Ids, m \in Nodes \ {n} : state'[d][m] = state[d][m]

InState(d, s) == {n \in Nodes : state[d][n] = s}

Look(d) ==
    /\ phase[d] # "absent" /\ look[d] = {}
    /\ look' = [look EXCEPT ![d] = {[ready |-> Cardinality(InState(d, "Running")),
                                    failed |-> Cardinality(InState(d, "Failed"))]}]
    /\ UNCHANGED <<phase, sent, reached, state>>

GiveUp(d) ==
    /\ look' = [look EXCEPT ![d] = {}]
    /\ UNCHANGED <<phase, sent, reached, state>>

\* Counted against the nodes of a dispatch, although any node counts.
Judged(seen, nodes) ==
    IF seen.ready >= Cardinality(nodes) THEN "Active"
    ELSE IF seen.failed > 0 /\ seen.ready + seen.failed >= Cardinality(nodes) THEN "Failed"
    ELSE "RollingOut"

\* A user may have set RollingOut before anything was sent.
Latest(d) == IF sent[d] = <<>> THEN {} ELSE sent[d][Len(sent[d])]

Judge(d) ==
    /\ phase[d] = "RollingOut"
    /\ \E seen \in look[d] : phase' = [phase EXCEPT ![d] = Judged(seen, Latest(d))]
    /\ look' = [look EXCEPT ![d] = {}]
    /\ UNCHANGED <<sent, reached, state>>

\* Tasks are created and the rollout is judged in one step.
Dispatch(d, nodes) ==
    /\ phase[d] = "Pending" /\ nodes # {}
    /\ sent' = [sent EXCEPT ![d] = Append(@, nodes)]
    /\ \E seen \in look[d] : phase' = [phase EXCEPT ![d] = Judged(seen, nodes)]
    /\ look' = [look EXCEPT ![d] = {}]
    /\ UNCHANGED <<reached, state>>

OneNext ==
    \/ \E n \in Nodes : Reports(n) \/ ComesOnline(n)
    \/ \E d \in Ids :
        \/ Create(d) \/ UserSets(d) \/ Look(d) \/ GiveUp(d) \/ Judge(d)
        \/ \E nodes \in SUBSET (Selected[d] \cap reached) : Dispatch(d, nodes)

OneSpec == OneInit /\ [][OneNext]_oneVars
===============================================================================
