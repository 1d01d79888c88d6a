----------------------------- MODULE MCTaskRunner -----------------------------
(* Model-checking instances of TaskRunner. *)
EXTENDS TaskRunner, TLC

\* Agents are spread over the gateways.
MCHome == [n \in Nodes |-> CHOOSE g \in Gateways : TRUE]

Symmetry == Permutations(Nodes)
===============================================================================
