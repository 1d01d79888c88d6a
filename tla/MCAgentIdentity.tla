---------------------------- MODULE MCAgentIdentity ---------------------------
(* Model-checking instance of AgentIdentity, and of the registry under it. *)
EXTENDS AgentIdentity, OnboardingRefinement
===============================================================================
