------------------------------- MODULE RunRules -------------------------------
(***************************************************************************)
(* What the operation queue promises the operations of one process, without *)
(* a queue: the rules in the opening comment of gui/operation_queue.go.     *)
(* An operation is granted its place only beside operations it may overlap, *)
(* and a backup only in a second in which its group can take a snapshot:    *)
(* PBS names a snapshot by its group and its second and refuses the same    *)
(* name twice.  How an operation waits for the grant is not said here.      *)
(***************************************************************************)
EXTENDS Admission

CONSTANTS
  Operation,  \* the tickets of the operations that may ask
  MaxLimit    \* MaxConcurrentRunsLimit

VARIABLES
  granted,       \* the tickets whose operations hold a place
  begun,         \* those that have opened their PBS session
  lastSnapshot   \* per group, the second of its newest snapshot (0: none)

vars == <<granted, begun, lastSnapshot>>

Init ==
  /\ granted = {}
  /\ begun = {}
  /\ lastSnapshot = [g \in Group |-> 0]

Grant(t) ==
  /\ t \notin granted
  /\ \A s \in granted : MayOverlap(s, t)
  /\ Cardinality(granted) < MaxLimit
  /\ granted' = granted \cup {t}
  /\ UNCHANGED <<begun, lastSnapshot>>

\* The snapshot's second is later than that of the group's newest one.
Open(t) ==
  /\ t \in granted \ begun
  /\ MakesSnapshot(t)
  /\ begun' = begun \cup {t}
  /\ lastSnapshot'[t.group] > lastSnapshot[t.group]
  /\ \A g \in Group \ {t.group} : lastSnapshot'[g] = lastSnapshot[g]
  /\ UNCHANGED granted

End(t) ==
  /\ t \in granted
  /\ granted' = granted \ {t}
  /\ begun' = begun \ {t}
  /\ UNCHANGED lastSnapshot

Next == \E t \in Operation : Grant(t) \/ Open(t) \/ End(t)

Spec == Init /\ [][Next]_vars
===============================================================================
