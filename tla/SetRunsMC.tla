------------------------------ MODULE SetRunsMC ------------------------------
(* Small instances of the scheduler for TLC. *)
EXTENDS SetRuns

\* The goroutines are interchangeable.
Symmetry == Permutations(Runner)
===============================================================================
