------------------------------ MODULE RunControl ------------------------------
(***************************************************************************)
(* Pause, Resume and Stop of the backups of one process: the gate each run *)
(* waits at (pbscommon/pause.go), the calls of the window and of the tray  *)
(* (gui/backup_pause.go) and the run's own life (gui/backup_runs.go).      *)
(*                                                                         *)
(* A closed gate is a channel that a Resume closes, so that everyone who   *)
(* waits for it goes on.  Channels are numbered as they are made; 0: none. *)
(* What a run reads between two looks at its gate is a block.              *)
(***************************************************************************)
EXTENDS Naturals

CONSTANTS
  Run,
  Caller,    \* the window, the tray, the service's API
  MaxPauses  \* bound: gates closed

ASSUME PausesAssumption == MaxPauses \in Nat

VARIABLES
  phase,    \* of a run: "queued", "reading" or "ended"
  stopped,  \* the runs whose context is cancelled
  gate,     \* PauseGate.resumed of a run
  made,     \* channels so far
  closed,   \* the channels closed
  at,       \* where a run's reader is: in a "block" or at the "gate"
  chan,     \* the channel Wait took there
  begun,    \* history: blocks begun since the gate was closed, to 2
  call,     \* the call of a caller, with its next step
  shown     \* the runs the window shows as paused

gates == <<gate, made, closed>>
readers == <<phase, at, chan>>
vars == <<readers, gates, stopped, begun, call, shown>>

Channel == 1..MaxPauses
Idle == [op |-> "none"]
Call == [op : {"pause", "resume", "stop"}, run : Run,
         step : {"found", "look", "tell"}, paused : BOOLEAN]

TypeOK ==
  /\ phase \in [Run -> {"queued", "reading", "ended"}]
  /\ stopped \subseteq Run
  /\ gate \in [Run -> Channel \cup {0}]
  /\ made \in 0..MaxPauses /\ closed \subseteq 1..made
  /\ \A r \in Run : gate[r] \in (1..made \cup {0}) \ closed
  /\ at \in [Run -> {"block", "gate"}]
  /\ chan \in [Run -> Channel \cup {0}]
  /\ begun \in [Run -> 0..2]
  /\ call \in [Caller -> Call \cup {Idle}]
  /\ shown \subseteq Run

Init ==
  /\ phase = [r \in Run |-> "queued"] /\ stopped = {}
  /\ gate = [r \in Run |-> 0] /\ made = 0 /\ closed = {}
  /\ at = [r \in Run |-> "block"] /\ chan = [r \in Run |-> 0]
  /\ begun = [r \in Run |-> 0]
  /\ call = [c \in Caller |-> Idle] /\ shown = {}

-----------------------------------------------------------------------------
(* The gate *)

\* PauseGate.Pause
CloseAnyGate(r) ==
  /\ made < MaxPauses
  /\ made' = made + 1 /\ gate' = [gate EXCEPT ![r] = made + 1]
  /\ begun' = [begun EXCEPT ![r] = 0] /\ UNCHANGED closed
CloseGate(r) ==
  \/ gate[r] # 0 /\ UNCHANGED <<gates, begun>>
  \/ gate[r] = 0 /\ CloseAnyGate(r)

\* PauseGate.Resume
OpenGateOnce(r) ==
  closed' = (closed \cup {gate[r]}) \ {0} /\ UNCHANGED <<made, gate>>
OpenGate(r) ==
  /\ closed' = (closed \cup {gate[r]}) \ {0}
  /\ gate' = [gate EXCEPT ![r] = 0] /\ UNCHANGED made

-----------------------------------------------------------------------------
(* The run *)

\* Its turn has come.
Start(r) ==
  /\ phase[r] = "queued" /\ phase' = [phase EXCEPT ![r] = "reading"]
  /\ UNCHANGED <<at, chan, gates, stopped, begun, call, shown>>

\* backupRun.end; its card goes.
End(r) ==
  /\ phase' = [phase EXCEPT ![r] = "ended"]
  /\ OpenGate(r) /\ stopped' = stopped \cup {r} /\ shown' = shown \ {r}
  /\ UNCHANGED <<at, chan, begun, call>>

StoppedInQueue(r) == phase[r] = "queued" /\ r \in stopped /\ End(r)

\* Wait takes the channel under the gate's mutex,
ArriveAtGate(r) ==
  /\ phase[r] = "reading" /\ at[r] = "block"
  /\ at' = [at EXCEPT ![r] = "gate"] /\ chan' = [chan EXCEPT ![r] = gate[r]]
  /\ UNCHANGED <<phase, gates, stopped, begun, call, shown>>

\* and returns at once without one, or once it is closed.
AtOpenGate(r) ==
  phase[r] = "reading" /\ at[r] = "gate" /\ (chan[r] = 0 \/ chan[r] \in closed)

BeginBlockOn(r) ==
  /\ AtOpenGate(r)
  /\ begun' = [begun EXCEPT ![r] = IF @ = 2 THEN 2 ELSE @ + 1]
  /\ UNCHANGED <<readers, gates, stopped, call, shown>>
BeginBlock(r) ==
  /\ AtOpenGate(r)
  /\ at' = [at EXCEPT ![r] = "block"]
  /\ begun' = [begun EXCEPT ![r] = IF @ = 2 THEN 2 ELSE @ + 1]
  /\ UNCHANGED <<phase, chan, gates, stopped, call, shown>>

\* Stop: at once in a pause, and else before the next file.
StopAtGate(r) ==
  /\ phase[r] = "reading" /\ at[r] = "gate" /\ r \in stopped
  /\ End(r)

\* All is read, or the backup has failed.
Finish(r) == phase[r] = "reading" /\ at[r] = "block" /\ End(r)

-----------------------------------------------------------------------------
(* The calls *)

\* backupRunByID finds the run, or there is no call.
Ask(c, op, r) ==
  /\ call[c] = Idle /\ phase[r] # "ended"
  /\ call' = [call EXCEPT ![c] =
                [op |-> op, run |-> r, step |-> "found", paused |-> FALSE]]
  /\ UNCHANGED <<readers, gates, stopped, begun, shown>>

Goes(c, op, step) == call[c].op = op /\ call[c].step = step
Continues(c, step, paused) ==
  call' = [call EXCEPT ![c].step = step, ![c].paused = paused]

\* PauseBackupRun, PauseRun: the gate is closed, looked at again, and the
\* window is told.
PauseRun(c) ==
  /\ call[c] # Idle /\ Goes(c, "pause", "found")
  /\ CloseGate(call[c].run) /\ Continues(c, "look", FALSE)
  /\ UNCHANGED <<readers, stopped, shown>>

LookAtGate(c) ==
  /\ call[c] # Idle /\ Goes(c, "pause", "look")
  /\ Continues(c, "tell", gate[call[c].run] # 0)
  /\ UNCHANGED <<readers, gates, stopped, begun, shown>>

\* ResumeBackupRun, ResumeRun
ResumeRun(c) ==
  /\ call[c] # Idle /\ Goes(c, "resume", "found")
  /\ OpenGate(call[c].run) /\ Continues(c, "tell", FALSE)
  /\ UNCHANGED <<readers, stopped, begun, shown>>

\* emitPause: the card of a run that has ended is gone.
Tell(c) ==
  LET r == call[c].run
  IN /\ call[c] # Idle /\ call[c].step = "tell"
     /\ shown' = IF call[c].paused /\ phase[r] # "ended"
                 THEN shown \cup {r} ELSE shown \ {r}
     /\ call' = [call EXCEPT ![c] = Idle]
     /\ UNCHANGED <<readers, gates, stopped, begun>>

\* CancelBackupRun, StopRun
StopRun(c) ==
  /\ call[c] # Idle /\ Goes(c, "stop", "found")
  /\ stopped' = stopped \cup {call[c].run}
  /\ call' = [call EXCEPT ![c] = Idle]
  /\ UNCHANGED <<readers, gates, begun, shown>>

-----------------------------------------------------------------------------
Reads(r) == ArriveAtGate(r) \/ BeginBlock(r) \/ StopAtGate(r) \/ Finish(r)

Next ==
  \/ \E r \in Run : Start(r) \/ StoppedInQueue(r) \/ Reads(r)
  \/ \E c \in Caller, r \in Run, op \in {"pause", "resume", "stop"} : Ask(c, op, r)
  \/ \E c \in Caller :
       PauseRun(c) \/ LookAtGate(c) \/ ResumeRun(c) \/ Tell(c) \/ StopRun(c)

\* A run reads on as long as it is let, and sees a Stop in the end.
Spec == Init /\ [][Next]_vars /\ \A r \in Run :
          WF_vars(Reads(r)) /\ WF_vars(StoppedInQueue(r)) /\ SF_vars(StopAtGate(r))

-----------------------------------------------------------------------------
(* Properties *)

\* A pause stops the reading within one block: the one begun when the gate
\* closed, or by a reader just woken from the pause before (PauseGate.Wait).
PausedIsQuiet ==
  \A r \in Run : phase[r] = "reading" /\ gate[r] # 0 => begun[r] <= 1

Asleep(r) == phase[r] = "reading" /\ at[r] = "gate" /\ chan[r] # 0

\* A Resume wakes a run asleep in a pause, though it is paused again at once
\* or was paused twice, and a Stop ends it, queued, paused or reading
\* (PauseGate.Wait, backupRun.end).
ControlsArrive ==
  \A r \in Run :
    /\ Asleep(r) /\ gate[r] = 0 ~> ~Asleep(r)
    /\ r \in stopped ~> phase[r] = "ended"

\* While no call is under way the window shows a run as paused exactly when
\* it is.
ShownIsPaused ==
  \A r \in Run :
    phase[r] # "ended" /\ (\A c \in Caller : call[c] = Idle)
      => (r \in shown <=> gate[r] # 0)
=============================================================================
