--------------------------- MODULE MCStageExecutor ---------------------------
(* Small instances of StageExecutor for TLC. *)
EXTENDS StageExecutor, TLC

Symmetry == Permutations(Procs) \cup Permutations(Attempts)
=============================================================================
