--------------------------- MODULE MCAgentExecutors ---------------------------
(* The executors of one agent.  They share no state but the process, so each  *)
(* is explored from its initial state while the others have had no task yet.  *)
EXTENDS ModelDownload, AgentUpdate, AgentRuntime

ExecInit == DlInit /\ UpInit /\ RtInit

ExecNext ==
    \/ UpInit /\ RtInit /\ DlNext /\ UNCHANGED <<updateVars, runtimeVars>>
    \/ DlInit /\ RtInit /\ UpNext /\ UNCHANGED <<downloadVars, runtimeVars>>
    \/ DlInit /\ UpInit /\ RtNext /\ UNCHANGED <<downloadVars, updateVars>>

ExecSpec == ExecInit /\ [][ExecNext]_<<downloadVars, updateVars, runtimeVars>>

Symmetry == Permutations(Jobs) \cup Permutations(Versions) \cup Permutations(Models)
===============================================================================
