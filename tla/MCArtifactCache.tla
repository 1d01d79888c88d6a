--------------------------- MODULE MCArtifactCache ----------------------------
(* Model-checking instances of ArtifactCache. *)
EXTENDS ArtifactCache, TLC

Symmetry == Permutations(Requests) \cup Permutations(Models) \cup Permutations(Uris)
===============================================================================
