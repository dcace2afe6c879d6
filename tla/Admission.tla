------------------------------ MODULE Admission ------------------------------
(***************************************************************************)
(* Which of the operations waiting in this process may start: the rules of *)
(* gui/operation_queue.go, as pure operators over tickets.                 *)
(*                                                                         *)
(* The code walks opWaiting in the order of its sequence numbers and moves *)
(* to opRunning every ticket nothing blocks, testing each one against the  *)
(* tickets already moved (they run) and those passed over (they wait ahead *)
(* of it).  Admits says what that walk returns without walking: a set A of *)
(* waiting tickets is what the loop admits iff a waiting ticket is in A    *)
(* exactly when nothing blocks it, given the members of A before it and    *)
(* the others before it.  Walk is the loop itself; the two are compared by *)
(* LoopAdmits of OperationQueue.                                           *)
(***************************************************************************)
EXTENDS Naturals, FiniteSets

CONSTANTS
  Caller,   \* threads of the process that ask to run an operation
  Group,    \* PBS backup groups (opGroupKey)
  NoGroup   \* the empty group key of an operation that has no group

ASSUME NoGroupAssumption == NoGroup \notin Group

\* opKind: a folder backup, a machine backup, a restore, a roll back or undo.
Kind == {"backup", "machine", "restore", "exclusive"}

\* opRequest.  A roll back and its undo name no group, every other kind does.
Request ==
  [kind : Kind \ {"exclusive"}, group : Group]
    \cup [kind : {"exclusive"}, group : {NoGroup}]

\* opTicket: a request in the queue, numbered in the order it asked.
Ticket ==
  [caller : Caller, kind : Kind, group : Group \cup {NoGroup}, seq : Nat]

MakesSnapshot(t) == t.group # NoGroup /\ t.kind \in {"backup", "machine"}

\* The rules two operations cannot share: t wants to start while r runs.
Conflict(t, r) ==
  \/ r.kind = "exclusive"
  \/ t.kind = "machine" /\ r.kind = "machine"
  \/ t.kind = "restore" /\ r.kind = "restore"
  \/ t.group # NoGroup /\ r.group = t.group

\* Two operations of one process that may run at the same time.
MayOverlap(s, t) ==
  /\ s.kind # "exclusive" /\ t.kind # "exclusive"
  /\ ~(s.kind = "machine" /\ t.kind = "machine")
  /\ ~(s.kind = "restore" /\ t.kind = "restore")
  /\ s.group = t.group => s.group = NoGroup

BlockedPassingExclusive(t, limit, running, ahead) ==
  /\ running # {}
  /\ \/ t.kind = "exclusive"
     \/ Cardinality(running) >= limit
     \/ \E r \in running : Conflict(t, r)

\* blockersLocked is not empty.
Blocked(t, limit, running, ahead) ==
  \/ \E w \in ahead : w.kind = "exclusive"
  \/ /\ running # {}
     /\ \/ t.kind = "exclusive"
        \/ Cardinality(running) >= limit
        \/ \E r \in running : Conflict(t, r)

BeforeFromTheBack(S, t) == {w \in S : w.seq > t.seq}

\* waitingAhead, and the tickets the loop of admitWaitingLocked has met.
Before(S, t) == {w \in S : w.seq < t.seq}

\* admitWaitingLocked moves exactly the tickets A from waiting to running.
Admits(waiting, running, limit, A) ==
  \A t \in waiting :
    t \in A <=> ~Blocked(t, limit, running \cup Before(A, t),
                         Before(waiting \ A, t))

-----------------------------------------------------------------------------
(* The loop of admitWaitingLocked as the code runs it: each ticket it meets  *)
(* is appended to opRunning or to still.                                     *)

LetIn(lists, t, limit) ==
  IF Blocked(t, limit, lists.running, lists.still)
    THEN [lists EXCEPT !.still = @ \cup {t}]
    ELSE [lists EXCEPT !.running = @ \cup {t}]

\* The place in opWaiting of the ticket numbered n, if one waits there.
Meet(lists, waiting, n, limit) ==
  IF \E t \in waiting : t.seq = n
    THEN LetIn(lists, CHOOSE t \in waiting : t.seq = n, limit)
    ELSE lists

\* A walk over opWaiting, whose tickets are numbered up to last.
Walk(waiting, running, limit, last) ==
  LET lists[n \in 0..last] ==
        IF n = 0 THEN [running |-> running, still |-> {}]
                 ELSE Meet(lists[n - 1], waiting, n, limit)
  IN  lists[last]
==============================================================================
