--------------------------- MODULE MCEventPipeline ---------------------------
(* EventPipeline on small instances for TLC. *)
EXTENDS EventPipeline, TLC

\* Producer tasks and mints are interchangeable (safety runs only).
Symmetry == Permutations(Tasks) \cup Permutations(Mints)
=============================================================================
