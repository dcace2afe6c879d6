------------------------------ MODULE RollBackMC ------------------------------
(* Small instances of a set's roll backs for TLC. *)
EXTENDS RollBack

\* The files, the roll backs and the callers are interchangeable.
Symmetry == Permutations(File) \cup Permutations(Roll) \cup Permutations(Caller)
===============================================================================
