----------------------------- MODULE MCDeployment -----------------------------
(* Model-checking instances of Deployment. *)
EXTENDS DeploymentRefinement, TLC

\* The first deployment selects every node; the second one selects none, so that it
\* stays in every list, Pending, until a user moves it.
MCTarget == [d \in Deployments |-> IF d = 1 THEN Nodes ELSE {}]
MCModelOf == [d \in Deployments |-> CHOOSE m \in Models : TRUE]

Symmetry == Permutations(Controllers) \cup Permutations(Nodes)
===============================================================================
