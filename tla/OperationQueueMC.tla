--------------------------- MODULE OperationQueueMC ---------------------------
(* Small instances of the operation queue for TLC. *)
EXTENDS OperationQueue, TLC

\* Callers and groups are interchangeable in the safety properties.
Symmetry == Permutations(Caller) \cup Permutations(Group)
===============================================================================
