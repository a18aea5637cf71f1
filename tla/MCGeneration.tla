----------------------------- MODULE MCGeneration -----------------------------
EXTENDS GenerationRun, TLC

(* Runs, processes, plans that teach something and versions of the code    *)
(* are interchangeable.                                                    *)
Symmetry == Permutations(Runs \ {First}) \cup Permutations(Procs)
              \cup Permutations(Plans \ {Empty}) \cup Permutations(Codes)
=============================================================================
