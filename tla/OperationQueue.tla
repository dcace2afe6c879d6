---------------------------- MODULE OperationQueue ----------------------------
(***************************************************************************)
(* The operation queue of one process (gui/operation_queue.go): which       *)
(* backups, restores and roll backs run side by side.                       *)
(*                                                                          *)
(* A caller of acquireOperation takes a numbered ticket, waits until it is  *)
(* admitted or stopped, waits out the second in which its group's previous  *)
(* backup ended, then works and releases.  Every step below is one region   *)
(* under opMu, or one wait that ended; the walk over the waiting list is    *)
(* Admits of module Admission.  The clock ticks only past a second in which *)
(* a backup ended or began: nothing reads a longer difference of times.     *)
(***************************************************************************)
EXTENDS Integers, Admission

CONSTANTS
  Waiter,        \* exits and shutdowns that wait for earlier operations
  DefaultLimit,  \* DefaultMaxConcurrentRuns
  MaxLimit,      \* MaxConcurrentRunsLimit
  Setting,       \* the values the setting in config.json takes
  MaxCalls       \* bound: calls of acquireOperation

ASSUME LimitAssumption ==
  /\ DefaultLimit \in Nat \ {0} /\ MaxLimit \in Nat
  /\ DefaultLimit <= MaxLimit
ASSUME SettingAssumption == Setting \subseteq Int
ASSUME MaxCallsAssumption == MaxCalls \in Nat

VARIABLES
  setting,       \* the configured limit, read anew by every admission
  now,           \* the Unix second
  opSeq,
  opWaiting,     \* the tickets of opWaiting, ordered by their seq
  opRunning,     \* the tickets of opRunning
  groupEnded,    \* per group, the second its last backup ended (0: no entry)
  phase,         \* per caller, how far its call has come
  stopped,       \* callers whose context is cancelled
  lastSnapshot,  \* PBS: per group, the second of its newest snapshot
  waiter,        \* per waiter: "idle", "asleep", "woken" or "returned"
  horizon        \* per waiter, the opSeq it read

queue == <<opWaiting, opRunning>>
clock == <<now, groupEnded, lastSnapshot>>
vars == <<setting, clock, opSeq, queue, phase, stopped, waiter, horizon>>

Phase == {"idle", "queued", "admitted", "timer", "working", "begun"}

\* clampRunLimit.
Clamp(n) == IF n <= 0 THEN DefaultLimit
            ELSE IF n > MaxLimit THEN MaxLimit ELSE n

TicketRequest(t) == [kind |-> t.kind, group |-> t.group]

TypeOK ==
  /\ setting \in Setting
  /\ now \in Nat \ {0} /\ opSeq \in 0..MaxCalls
  /\ opWaiting \cap opRunning = {}
  /\ \A t \in opWaiting \cup opRunning :
       t \in Ticket /\ t.seq \in 1..opSeq /\ TicketRequest(t) \in Request
  /\ groupEnded \in [Group -> Nat] /\ lastSnapshot \in [Group -> Nat]
  /\ phase \in [Caller -> Phase]
  /\ stopped \in SUBSET Caller
  /\ waiter \in [Waiter -> {"idle", "asleep", "woken", "returned"}]
  /\ horizon \in [Waiter -> Nat]

Init ==
  /\ setting \in Setting
  /\ now = 1 /\ opSeq = 0
  /\ opWaiting = {} /\ opRunning = {}
  /\ groupEnded = [g \in Group |-> 0] /\ lastSnapshot = [g \in Group |-> 0]
  /\ phase = [c \in Caller |-> "idle"]
  /\ stopped = {}
  /\ waiter = [w \in Waiter |-> "idle"] /\ horizon = [w \in Waiter |-> 0]

-----------------------------------------------------------------------------
(* The queue *)

\* admitWaitingLocked over the lists a step leaves.
Admit(waiting, running) ==
  \E A \in SUBSET waiting :
    /\ Admits(waiting, running, Clamp(setting), A)
    /\ opWaiting' = waiting \ A
    /\ opRunning' = running \cup A

\* opCond.Broadcast.
NoBroadcast == waiter' = waiter
Broadcast ==
  waiter' = [w \in Waiter |-> IF waiter[w] = "asleep" THEN "woken" ELSE waiter[w]]

Move(c, p) == phase' = [phase EXCEPT ![c] = p]

\* A backup runs under its run's context; a restore, a roll back and an undo
\* pass context.Background, which nobody cancels.
Stoppable(t) == t.kind \in {"backup", "machine"}

NumberBeforeCount(c, r) ==
  [caller |-> c, kind |-> r.kind, group |-> r.group, seq |-> opSeq]
NewTicket(c, r) ==
  [caller |-> c, kind |-> r.kind, group |-> r.group, seq |-> opSeq + 1]

\* acquireOperation up to its first wait: a new ticket, then an admission.
Acquire(c) ==
  /\ phase[c] = "idle" /\ opSeq < MaxCalls
  /\ opSeq' = opSeq + 1
  /\ \E r \in Request :
       /\ Admit(opWaiting \cup {NewTicket(c, r)}, opRunning)
       /\ Move(c, IF NewTicket(c, r) \in opRunning' THEN "admitted" ELSE "queued")
  /\ stopped' = stopped \ {c}
  /\ UNCHANGED <<setting, clock, waiter, horizon>>

\* The select of a queued caller sees its admitted channel closed.
SeeAdmitted(t) ==
  /\ t \in opRunning /\ phase[t.caller] = "queued"
  /\ Move(t.caller, "admitted")
  /\ UNCHANGED <<setting, clock, opSeq, queue, stopped, waiter, horizon>>

\* The select of a queued caller sees its context done, admitted or not.
CancelQueuedKeepsPlace(t) ==
  /\ t \in opWaiting \cup opRunning
  /\ phase[t.caller] = "queued" /\ t.caller \in stopped
  /\ Admit(opWaiting \ {t}, opRunning)
  /\ Broadcast
  /\ Move(t.caller, "idle")
  /\ UNCHANGED <<setting, clock, opSeq, stopped, horizon>>
CancelQueuedIfAdmitted(t) == t \in opRunning /\ CancelQueuedKeepsPlace(t)
CancelQueued(t) ==
  /\ t \in opWaiting \cup opRunning
  /\ phase[t.caller] = "queued" /\ t.caller \in stopped
  /\ IF t \in opRunning THEN Admit(opWaiting, opRunning \ {t})
                        ELSE Admit(opWaiting \ {t}, opRunning)
  /\ Broadcast
  /\ Move(t.caller, "idle")
  /\ UNCHANGED <<setting, clock, opSeq, stopped, horizon>>

\* The last backup of t's group ended in a second that is over.
NewSecond(t) == MakesSnapshot(t) => now > groupEnded[t.group]

\* waitNewSecond reads groupEnded: on with the work, or set the timer.
CheckSecond(t) ==
  /\ t \in opRunning /\ phase[t.caller] = "admitted"
  /\ Move(t.caller, IF NewSecond(t) THEN "working" ELSE "timer")
  /\ UNCHANGED <<setting, clock, opSeq, queue, stopped, waiter, horizon>>

TimerFires(t) ==
  /\ t \in opRunning /\ phase[t.caller] = "timer" /\ now > groupEnded[t.group]
  /\ Move(t.caller, "working")
  /\ UNCHANGED <<setting, clock, opSeq, queue, stopped, waiter, horizon>>

\* Release: the group's end is noted, the place is free, others may start.
NoteEndedOfFolders(t) ==
  groupEnded' = IF t.kind = "backup" THEN [groupEnded EXCEPT ![t.group] = now] ELSE groupEnded
NoteEnded(t) ==
  groupEnded' = IF MakesSnapshot(t)
                  THEN [groupEnded EXCEPT ![t.group] = now] ELSE groupEnded

ReleaseWithoutAdmit(t) ==
  /\ t \in opRunning
  /\ NoteEnded(t)
  /\ opRunning' = opRunning \ {t}
  /\ Broadcast
  /\ Move(t.caller, "idle")
  /\ UNCHANGED <<setting, now, lastSnapshot, opSeq, opWaiting, stopped, horizon>>
Release(t) ==
  /\ t \in opRunning
  /\ NoteEnded(t)
  /\ Admit(opWaiting, opRunning \ {t})
  /\ Broadcast
  /\ Move(t.caller, "idle")
  /\ UNCHANGED <<setting, now, lastSnapshot, opSeq, stopped, horizon>>

\* waitNewSecond's select sees the context done instead of the timer.
CancelTimer(t) == phase[t.caller] = "timer" /\ t.caller \in stopped /\ Release(t)

\* The operation is over, in whatever way.
Finish(t) == phase[t.caller] \in {"working", "begun"} /\ Release(t)

-----------------------------------------------------------------------------
(* The surroundings *)

\* A backup opens its PBS session: Connect takes the current second for the
\* snapshot's name.  A session that is lost leaves no snapshot and is opened
\* again 25 minutes later; it counts as the same one here.
Connect(t) ==
  /\ t \in opRunning /\ phase[t.caller] = "working" /\ MakesSnapshot(t)
  /\ Move(t.caller, "begun")
  /\ lastSnapshot' = [lastSnapshot EXCEPT ![t.group] = now]
  /\ UNCHANGED <<setting, now, opSeq, queue, groupEnded, stopped, waiter, horizon>>

\* Stop, for a run that has not come to its work (later, the run ends itself).
Stop(t) ==
  /\ t \in opWaiting \cup opRunning /\ Stoppable(t)
  /\ phase[t.caller] \in {"queued", "admitted", "timer"}
  /\ t.caller \notin stopped
  /\ stopped' = stopped \cup {t.caller}
  /\ UNCHANGED <<setting, clock, opSeq, queue, phase, waiter, horizon>>

\* The user saves another limit, or the service reads its settings anew.
SetLimit(n) ==
  /\ n # setting /\ setting' = n
  /\ UNCHANGED <<clock, opSeq, queue, phase, stopped, waiter, horizon>>

\* SetMaxConcurrentRuns, under opMu after it saved the limit: runs that waited
\* for a free place may start now.
AdmitAnew ==
  /\ Admit(opWaiting, opRunning) /\ queue' # queue
  /\ UNCHANGED <<setting, clock, opSeq, phase, stopped, waiter, horizon>>

Tick ==
  /\ \E g \in Group : now \in {groupEnded[g], lastSnapshot[g]}
  /\ now' = now + 1
  /\ UNCHANGED <<setting, opSeq, queue, groupEnded, phase, stopped,
                 lastSnapshot, waiter, horizon>>

-----------------------------------------------------------------------------
(* waitForEarlierOperations: the exit or shutdown a set asks for *)

PendingBut(h) == \E t \in opWaiting \cup opRunning : t.seq < h
Pending(h) == \E t \in opWaiting \cup opRunning : t.seq <= h

BeginWait(w) ==
  /\ waiter[w] = "idle"
  /\ horizon' = [horizon EXCEPT ![w] = opSeq]
  /\ waiter' = [waiter EXCEPT ![w] = IF Pending(opSeq) THEN "asleep" ELSE "returned"]
  /\ UNCHANGED <<setting, clock, opSeq, queue, phase, stopped>>

Wake(w) ==
  /\ waiter[w] = "woken"
  /\ waiter' = [waiter EXCEPT ![w] = IF Pending(horizon[w]) THEN "asleep" ELSE "returned"]
  /\ UNCHANGED <<setting, clock, opSeq, queue, phase, stopped, horizon>>

-----------------------------------------------------------------------------
(* The specification *)

\* What a caller inside acquireOperation does next.
InAcquire(c) ==
  \E t \in opWaiting \cup opRunning :
    /\ t.caller = c
    /\ \/ SeeAdmitted(t) \/ CancelQueued(t)
       \/ CheckSecond(t) \/ TimerFires(t) \/ CancelTimer(t)

Work(c) == \E t \in opRunning : t.caller = c /\ (Connect(t) \/ Finish(t))

Next ==
  \/ \E c \in Caller : Acquire(c) \/ InAcquire(c) \/ Work(c)
  \/ \E t \in opWaiting \cup opRunning : Stop(t)
  \/ (\E n \in Setting : SetLimit(n)) \/ AdmitAnew
  \/ \E w \in Waiter : BeginWait(w) \/ Wake(w)
  \/ Tick

\* The runtime runs every goroutine that can go on and the clock moves on;
\* nothing says how long an operation works.
Running ==
  /\ \A c \in Caller : WF_vars(InAcquire(c))
  /\ \A w \in Waiter : WF_vars(Wake(w))
  /\ WF_vars(Tick)

\* Every operation comes to its end.
Ending == \A c \in Caller : WF_vars(Work(c))

Safe == Init /\ [][Next]_vars
SlowSpec == Safe /\ Running
Spec == SlowSpec /\ Ending

-----------------------------------------------------------------------------
(* Properties *)

Granted == {t \in opRunning : phase[t.caller] \in {"working", "begun"}}
Begun == {t \in opRunning : phase[t.caller] = "begun"}

NumberedTicket ==
  [caller : Caller, kind : Kind, group : Group \cup {NoGroup}, seq : 1..MaxCalls]

Rules == INSTANCE RunRules
           WITH Operation <- NumberedTicket, granted <- Granted, begun <- Begun

\* The rules of the file's opening comment: every operation that got its handle
\* runs beside operations it may overlap and within the limit, and every backup
\* opens its session in a second in which PBS can name a new snapshot.
RunsByTheRules == Rules!Spec

\* Two operations in opRunning may overlap, from their admission on and not
\* only once they work: admitWaitingLocked tests each ticket against those it
\* admitted just before.
RunningCompatible ==
  \A s, t \in opRunning : s # t => MayOverlap(s, t)

\* A backup about to open its session does so later than the second of its
\* group's newest snapshot (waitNewSecond, against the HTTP 400 of PBS).
SessionSecondFree ==
  \A t \in opRunning :
    phase[t.caller] = "working" /\ MakesSnapshot(t) => now > lastSnapshot[t.group]

\* A call holds one ticket while it lasts and none afterwards: a Stop that
\* races with the admission leaks no place (the cancel path of acquireOperation).
OneTicketPerCall ==
  /\ \A t \in opWaiting : phase[t.caller] = "queued"
  /\ \A t \in opRunning : phase[t.caller] # "idle"
  /\ \A s, t \in opWaiting \cup opRunning : s.caller = t.caller => s = t
  /\ \A c \in Caller : phase[c] # "idle" =>
       \E t \in opWaiting \cup opRunning : t.caller = c

\* Admits describes the loop of admitWaitingLocked: whatever part of the queue a
\* call finds waiting, there is one set of tickets Admits accepts, and it is the
\* set the loop moves to opRunning.
LoopAdmits ==
  \A waiting \in SUBSET (opWaiting \cup opRunning), limit \in 1..MaxLimit :
    LET running == opRunning \ waiting
    IN  {A \in SUBSET waiting : Admits(waiting, running, limit, A)}
          = {Walk(waiting, running, limit, opSeq).running \ running}

\* Nothing waits in an idle queue.
NoStuckQueue == opWaiting # {} => opRunning # {}

\* Nobody waits who could run: whichever way the lists change, an operation left
\* waiting is blocked under the limit in force, by what then runs or by one that
\* runs alone and asked before it (Release, and the cancel path of
\* acquireOperation, "whenever the running or waiting list changes").
NothingFreeWaits ==
  [][queue' # queue =>
       \A t \in opWaiting' :
         Blocked(t, Clamp(setting), opRunning', Before(opWaiting', t))]_vars

\* waitForEarlierOperations returned: no operation that had asked before is
\* cut short by the exit or the shutdown.
ReturnsAfterEarlier ==
  \A w \in Waiter : waiter[w] = "returned" =>
    \A t \in opWaiting \cup opRunning : t.seq > horizon[w]

\* A sleeping waiter has something to wait for: every end of an operation it
\* waits for signals opCond.
NoLostWakeup ==
  \A w \in Waiter : waiter[w] = "asleep" => Pending(horizon[w])

\* No admission brings opRunning above the limit in force, lowered or raised
\* since (blockersLocked's len(opRunning) >= limit).
AdmitsWithinLimit ==
  [][opRunning' \ opRunning # {} => Cardinality(opRunning') <= Clamp(setting)]_vars

\* "Whatever cannot start yet waits, in the order it asked": an operation left
\* waiting while a later one starts waits for its group, the machine place or
\* the restore place, never for a free place, and is none that runs alone.
OrderKept ==
  [][\A t \in opRunning' \ opRunning, w \in opWaiting' :
       w.seq < t.seq => /\ w.kind # "exclusive"
                        /\ \E r \in opRunning' : ~MayOverlap(w, r)]_vars

\* Runs of one kind on one group start in the order they asked.
FifoPerGroup ==
  [][\A t \in opRunning' \ opRunning, w \in opWaiting' :
       w.kind = t.kind /\ w.group = t.group => t.seq < w.seq]_vars

\* "Stop works on a run that is still queued": its wait ends although the
\* operations it waits for never do (the select of acquireOperation and of
\* waitNewSecond).
StopEndsTheWait ==
  \A c \in Caller :
    c \in stopped /\ phase[c] \in {"queued", "timer"}
      ~> phase[c] \in {"idle", "working"}

\* Every operation that asked comes to its turn if every operation ends: none
\* is overtaken for ever, and every end lets the next ones in.
QueuedStarts ==
  Ending => \A c \in Caller : phase[c] = "queued" ~> phase[c] \in {"idle", "working"}

\* A set that exits the app or shuts the computer down does so in the end, if
\* every operation ends (waitForEarlierOperations).
WaiterReturns ==
  Ending => \A w \in Waiter : waiter[w] = "asleep" ~> waiter[w] = "returned"
===============================================================================
