----------------------------- MODULE MCTaskEngine -----------------------------
(* Model-checking instance of TaskEngine, with the ledger it implements, and *)
(* of the backoff of RetryPolicy for several policies.  The two share no     *)
(* state: the engine is explored beside one of the policies.                 *)
EXTENDS TaskRefinement, RetryPolicy, TLC

\* Nodes and gateways are interchangeable in the safety properties.
Symmetry == Permutations(Nodes) \cup Permutations(Gateways)

McInit == Init /\ RetryInit
McNext == retryCount = 0 /\ Next /\ UNCHANGED retryCount
McSpec == McInit /\ [][McNext]_<<engineVars, retryCount>>
===============================================================================
