------------------------------ MODULE JobsFileMC ------------------------------
(* Small instances of the Backup Sets' file for TLC. *)
EXTENDS JobsFile, TLC

\* The sets, the settings and the goroutines are interchangeable.
Symmetry == Permutations(Set) \cup Permutations(Writer) \cup Permutations(Setting)
===============================================================================
