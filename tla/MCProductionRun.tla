-------------------------- MODULE MCProductionRun --------------------------
(* Model checking of ProductionRun: no definition tells two runs or two    *)
(* processes apart, so TLC may permute them in safety runs.                *)
EXTENDS ProductionRun, TLC

Symmetry == Permutations(Runs) \cup Permutations(Procs)
=============================================================================
