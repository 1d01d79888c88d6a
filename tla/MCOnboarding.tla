----------------------------- MODULE MCOnboarding -----------------------------
(* Model-checking instances of Onboarding. *)
EXTENDS Onboarding, TLC

Symmetry == Permutations(Tokens) \cup Permutations(Gateways)
===============================================================================
