------------------------------ MODULE MCGateway -------------------------------
(* Model-checking instance of IdentityCache. *)
EXTENDS IdentityCache, TLC

GwSpec == IdSpec /\ IdFairness
===============================================================================
