--------------------------- MODULE MCEventPipeline --------------------------
(***************************************************************************)
(* The event pipeline with one or two roles, publishers and workers.       *)
(***************************************************************************)
EXTENDS EventPipeline, TLC

\* Roles, publishers and workers are only compared for equality.
Symmetry == Permutations(Roles) \cup Permutations(Publishers) \cup Permutations(Workers)
=============================================================================
