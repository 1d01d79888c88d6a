-------------------------- MODULE DeploymentRefinement -------------------------
(* The refinement mapping from the controllers to the one they act as.  *)
EXTENDS Deployment

\* A controller has counted for the rollout of d that it is about to judge.
Judging(c, d) ==
    /\ work[c].current = d /\ work[c].counts # NULL
    /\ Dispatched(dep[d], work[c].nodes).phase = "RollingOut"

One == INSTANCE OneController WITH
    Ids <- Deployments,
    Selected <- Target,
    phase <- [d \in Deployments |-> IF d > created THEN "absent" ELSE dep[d].phase],
    sent <- dispatches,
    reached <- online,
    state <- [d \in Deployments |-> [n \in Nodes |-> runtime[n][ModelOf[d]]]],
    look <- [d \in Deployments |->
                {work[c].counts : c \in {b \in Controllers : Judging(b, d)}}]

\* Several controllers that work from stale lists, and whose steps fail, act as one:
\* tasks are created only for a deployment that is Pending then and for nodes it
\* selects that have been online, and its phase moves only from Pending or RollingOut,
\* to what counts made since a user last wrote its row and the latest dispatch give.
ImplementsOneController == One!OneSpec
===============================================================================
