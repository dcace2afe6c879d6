---------------------------- MODULE RollbackHoldMC ----------------------------
(* Small instances of a set's runs and roll backs for TLC. *)
EXTENDS RollbackHold

\* The goroutines and the calls are interchangeable.
Symmetry == Permutations(Runner) \cup Permutations(Roller)
===============================================================================
