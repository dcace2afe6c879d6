---------------------------- MODULE RunControlProofs ----------------------------
(***************************************************************************)
(* Pause, Resume and Stop, for any number of runs, callers and pauses: the *)
(* state has its types, a paused run reads no more than one block, and a   *)
(* run asleep at its gate is asleep in the pause that is on.               *)
(***************************************************************************)
EXTENDS RunControl, TLAPS

\* No two runs wait for one channel.
OwnChannels == \A r, q \in Run : gate[r] # 0 /\ gate[r] = gate[q] => r = q

\* A run that has not had its turn has begun nothing; a paused run that has
\* begun its block is in it, or asleep at the gate that is closed.
Quiet ==
  \A r \in Run :
    /\ phase[r] = "queued" => begun[r] = 0
    /\ gate[r] # 0 /\ phase[r] # "ended" =>
         \/ begun[r] = 0
         \/ begun[r] = 1 /\ (at[r] = "gate" => chan[r] = gate[r])

Inv == TypeOK /\ OwnChannels /\ Quiet

LEMMA InitInv == Init => Inv
BY PausesAssumption DEF Init, Inv, TypeOK, OwnChannels, Quiet, Channel

LEMMA CloseGateKeeps ==
  ASSUME Inv, NEW r \in Run, CloseGate(r)
  PROVE  /\ made' \in 0..MaxPauses /\ closed' \subseteq 1..made'
         /\ \A q \in Run : gate'[q] \in (1..made' \cup {0}) \ closed'
         /\ gate' \in [Run -> Channel \cup {0}] /\ begun' \in [Run -> 0..2]
         /\ \A q, s \in Run : gate'[q] # 0 /\ gate'[q] = gate'[s] => q = s
         /\ \A q \in Run : begun'[q] = 0 \/ (gate'[q] = gate[q] /\ begun'[q] = begun[q])
<1>1. CASE UNCHANGED <<gates, begun>>
  BY <1>1 DEF gates, Inv, TypeOK, OwnChannels
<1>2. CASE CloseAnyGate(r)
  <2>1. made < MaxPauses /\ made \in 0..MaxPauses /\ MaxPauses \in Nat
    BY <1>2, PausesAssumption DEF CloseAnyGate, Inv, TypeOK
  <2>2. /\ made' = made + 1 /\ gate' = [gate EXCEPT ![r] = made + 1]
        /\ begun' = [begun EXCEPT ![r] = 0] /\ closed' = closed
    BY <1>2 DEF CloseAnyGate
  <2>3. made + 1 \in Channel /\ made + 1 \notin closed
    BY <2>1 DEF Channel, Inv, TypeOK
  <2>4. \A q \in Run : gate[q] # made + 1
    BY <2>1 DEF Inv, TypeOK
  <2> QED BY <2>1, <2>2, <2>3, <2>4 DEF Inv, TypeOK, OwnChannels
<1> QED BY <1>1, <1>2 DEF CloseGate

LEMMA OpenGateKeeps ==
  ASSUME Inv, NEW r \in Run, OpenGate(r)
  PROVE  /\ made' \in 0..MaxPauses /\ closed' \subseteq 1..made'
         /\ \A q \in Run : gate'[q] \in (1..made' \cup {0}) \ closed'
         /\ gate' \in [Run -> Channel \cup {0}]
         /\ \A q, s \in Run : gate'[q] # 0 /\ gate'[q] = gate'[s] => q = s
         /\ \A q \in Run : gate'[q] # 0 => gate'[q] = gate[q]
<1>1. /\ closed' = (closed \cup {gate[r]}) \ {0} /\ made' = made
      /\ gate' = [gate EXCEPT ![r] = 0]
  BY DEF OpenGate
<1>2. \A q \in Run : q # r /\ gate[q] # 0 => gate[q] # gate[r]
  BY DEF Inv, OwnChannels
<1>3. gate[r] \in 1..made \cup {0}
  BY DEF Inv, TypeOK
<1> QED BY <1>1, <1>2, <1>3 DEF Inv, TypeOK, OwnChannels
-----------------------------------------------------------------------------
(* The run *)

LEMMA EndKeeps ==
  ASSUME Inv, NEW r \in Run, End(r)
  PROVE  Inv'
<1>1. phase' = [phase EXCEPT ![r] = "ended"] /\ UNCHANGED <<at, chan, begun, call>>
  BY DEF End
<1>2. stopped' \subseteq Run /\ shown' \subseteq Run
  BY DEF End, Inv, TypeOK
<1>3. OpenGate(r)
  BY DEF End
<1>4. TypeOK'
  BY <1>1, <1>2, <1>3, OpenGateKeeps DEF Inv, TypeOK
<1>5. OwnChannels'
  BY <1>3, OpenGateKeeps DEF OwnChannels
<1>6. Quiet'
  <2>1. \A q \in Run : gate'[q] # 0 => gate'[q] = gate[q]
    BY <1>3, OpenGateKeeps
  <2>2. \A q \in Run : phase'[q] # "ended" => phase'[q] = phase[q]
    BY <1>1 DEF Inv, TypeOK
  <2>3. \A q \in Run : phase'[q] = "queued" => phase[q] = "queued"
    BY <1>1 DEF Inv, TypeOK
  <2> QED BY <1>1, <2>1, <2>2, <2>3 DEF Inv, Quiet
<1> QED BY <1>4, <1>5, <1>6 DEF Inv

LEMMA RunKeeps ==
  ASSUME Inv, NEW r \in Run, Start(r) \/ StoppedInQueue(r) \/ Reads(r)
  PROVE  Inv'
<1>1. CASE Start(r)
  <2>1. /\ phase[r] = "queued" /\ phase' = [phase EXCEPT ![r] = "reading"]
        /\ UNCHANGED <<at, chan, gate, made, closed, stopped, begun, call, shown>>
    BY <1>1 DEF Start, gates
  <2>2. TypeOK' /\ OwnChannels'
    BY <2>1 DEF Inv, TypeOK, OwnChannels
  <2>3. Quiet'
    BY <2>1 DEF Inv, TypeOK, Quiet
  <2> QED BY <2>2, <2>3 DEF Inv
<1>2. CASE StoppedInQueue(r) \/ StopAtGate(r) \/ Finish(r)
  BY <1>2, EndKeeps DEF StoppedInQueue, StopAtGate, Finish
<1>3. CASE ArriveAtGate(r)
  <2>1. /\ at[r] = "block" /\ at' = [at EXCEPT ![r] = "gate"]
        /\ chan' = [chan EXCEPT ![r] = gate[r]]
        /\ UNCHANGED <<phase, gate, made, closed, stopped, begun, call, shown>>
    BY <1>3 DEF ArriveAtGate, gates
  <2>2. TypeOK' /\ OwnChannels'
    BY <2>1 DEF Inv, TypeOK, OwnChannels
  <2>3. Quiet'
    BY <2>1 DEF Inv, TypeOK, Quiet
  <2> QED BY <2>2, <2>3 DEF Inv
<1>4. CASE BeginBlock(r)
  <2>1. /\ at[r] = "gate" /\ phase[r] = "reading" /\ (chan[r] = 0 \/ chan[r] \in closed)
        /\ at' = [at EXCEPT ![r] = "block"]
        /\ UNCHANGED <<phase, chan, gate, made, closed, stopped, call, shown>>
    BY <1>4 DEF BeginBlock, AtOpenGate, gates
  <2>2. begun' = [begun EXCEPT ![r] = IF begun[r] = 2 THEN 2 ELSE begun[r] + 1]
    BY <1>4 DEF BeginBlock
  <2>3. begun[r] \in 0..2
    BY DEF Inv, TypeOK
  <2>4. begun' \in [Run -> 0..2]
    BY <2>2, <2>3 DEF Inv, TypeOK
  <2>5. TypeOK' /\ OwnChannels'
    BY <2>1, <2>4 DEF Inv, TypeOK, OwnChannels
  <2>6. gate[r] # 0 => begun[r] = 0
    BY <2>1 DEF Inv, TypeOK, Quiet
  <2>7. gate[r] # 0 => begun'[r] = 1
    BY <2>2, <2>6 DEF Inv, TypeOK
  <2>8. Quiet'
    <3> SUFFICES ASSUME NEW q \in Run
                 PROVE  /\ phase'[q] = "queued" => begun'[q] = 0
                        /\ gate'[q] # 0 /\ phase'[q] # "ended" =>
                             \/ begun'[q] = 0
                             \/ begun'[q] = 1 /\ (at'[q] = "gate" => chan'[q] = gate'[q])
      BY DEF Quiet
    <3>1. CASE q = r
      BY <2>1, <2>7, <3>1 DEF Inv, TypeOK
    <3>2. CASE q # r
      BY <2>1, <2>2, <3>2 DEF Inv, TypeOK, Quiet
    <3> QED BY <3>1, <3>2
  <2> QED BY <2>5, <2>8 DEF Inv
<1> QED BY <1>1, <1>2, <1>3, <1>4 DEF Reads

-----------------------------------------------------------------------------
(* The calls *)

LEMMA CallMoves ==
  ASSUME Inv, NEW c \in Caller, call[c] # Idle,
         NEW step \in {"found", "look", "tell"}, NEW paused \in BOOLEAN,
         Continues(c, step, paused)
  PROVE  call' \in [Caller -> Call \cup {Idle}]
<1> DEFINE x == [call[c] EXCEPT !.step = step, !.paused = paused]
<1>1. call[c] \in Call
  BY DEF Inv, TypeOK
<1>2. x \in Call
  BY <1>1 DEF Call
<1>3. call' = [call EXCEPT ![c] = x]
  BY DEF Continues
<1> HIDE DEF x
<1> QED BY <1>2, <1>3 DEF Inv, TypeOK

LEMMA CallKeeps ==
  ASSUME Inv, NEW c \in Caller,
         PauseRun(c) \/ LookAtGate(c) \/ ResumeRun(c) \/ Tell(c) \/ StopRun(c)
  PROVE  Inv'
<1>1. call[c] # Idle /\ call[c] \in Call /\ call[c].run \in Run
  BY DEF PauseRun, LookAtGate, ResumeRun, Tell, StopRun, Inv, TypeOK, Call
<1> DEFINE r == call[c].run
<1>2. CASE PauseRun(c)
  <2>1. /\ CloseGate(r) /\ Continues(c, "look", FALSE)
        /\ UNCHANGED <<phase, at, chan, stopped, shown>>
    BY <1>2 DEF PauseRun, readers
  <2> HIDE DEF r
  <2>2. call' \in [Caller -> Call \cup {Idle}]
    BY <1>1, <2>1, CallMoves
  <2>3. r \in Run
    BY <1>1 DEF r
  <2>4. TypeOK' /\ OwnChannels'
    BY <2>1, <2>2, <2>3, CloseGateKeeps DEF Inv, TypeOK, OwnChannels
  <2>5. \A q \in Run : begun'[q] = 0 \/ (gate'[q] = gate[q] /\ begun'[q] = begun[q])
    BY <2>1, <2>3, CloseGateKeeps
  <2>6. Quiet'
    BY <2>1, <2>5 DEF Inv, Quiet
  <2> QED BY <2>4, <2>6 DEF Inv
<1>3. CASE ResumeRun(c)
  <2>1. /\ OpenGate(r) /\ Continues(c, "tell", FALSE)
        /\ UNCHANGED <<phase, at, chan, stopped, begun, shown>>
    BY <1>3 DEF ResumeRun, readers
  <2> HIDE DEF r
  <2>2. call' \in [Caller -> Call \cup {Idle}]
    BY <1>1, <2>1, CallMoves
  <2>3. r \in Run
    BY <1>1 DEF r
  <2>4. TypeOK' /\ OwnChannels'
    BY <2>1, <2>2, <2>3, OpenGateKeeps DEF Inv, TypeOK, OwnChannels
  <2>5. \A q \in Run : gate'[q] # 0 => gate'[q] = gate[q]
    BY <2>1, <2>3, OpenGateKeeps
  <2>6. Quiet'
    BY <2>1, <2>5 DEF Inv, Quiet
  <2> QED BY <2>4, <2>6 DEF Inv
<1>4. CASE LookAtGate(c)
  <2>1. /\ Continues(c, "tell", gate[r] # 0)
        /\ UNCHANGED <<phase, at, chan, gate, made, closed, stopped, begun, shown>>
    BY <1>4 DEF LookAtGate, readers, gates
  <2>2. (gate[r] # 0) \in BOOLEAN
    OBVIOUS
  <2>3. call' \in [Caller -> Call \cup {Idle}]
    BY <1>1, <2>1, <2>2, CallMoves
  <2> QED BY <2>1, <2>3 DEF Inv, TypeOK, OwnChannels, Quiet
<1>5. CASE Tell(c) \/ StopRun(c)
  <2>1. /\ call' = [call EXCEPT ![c] = Idle]
        /\ UNCHANGED <<phase, at, chan, gate, made, closed, begun>>
    BY <1>5 DEF Tell, StopRun, readers, gates
  <2>2. stopped' \subseteq Run /\ shown' \subseteq Run
    BY <1>1, <1>5 DEF Tell, StopRun, Inv, TypeOK
  <2>3. call' \in [Caller -> Call \cup {Idle}]
    BY <2>1 DEF Inv, TypeOK
  <2> QED BY <2>1, <2>2, <2>3 DEF Inv, TypeOK, OwnChannels, Quiet
<1> QED BY <1>2, <1>3, <1>4, <1>5

LEMMA AskKeeps ==
  ASSUME Inv, NEW c \in Caller, NEW r \in Run, NEW op \in {"pause", "resume", "stop"},
         Ask(c, op, r)
  PROVE  Inv'
<1>1. [op |-> op, run |-> r, step |-> "found", paused |-> FALSE] \in Call
  BY DEF Call
<1>2. call' \in [Caller -> Call \cup {Idle}]
  BY <1>1 DEF Ask, Inv, TypeOK
<1>3. UNCHANGED <<phase, at, chan, gate, made, closed, stopped, begun, shown>>
  BY DEF Ask, readers, gates
<1> QED BY <1>2, <1>3 DEF Inv, TypeOK, OwnChannels, Quiet

LEMMA StepKeepsInv == Inv /\ [Next]_vars => Inv'
<1> SUFFICES ASSUME Inv, [Next]_vars PROVE Inv'
  OBVIOUS
<1>1. CASE UNCHANGED vars
  BY <1>1 DEF vars, readers, gates, Inv, TypeOK, OwnChannels, Quiet
<1>2. CASE Next
  BY <1>2, RunKeeps, CallKeeps, AskKeeps DEF Next
<1> QED BY <1>1, <1>2

\* The gates, the readers and the calls have their types, and an open gate
\* never keeps the channel of a pause that is over.
THEOREM TypeCorrect == Spec => []TypeOK
<1>1. Inv => TypeOK
  BY DEF Inv
<1> QED BY <1>1, InitInv, StepKeepsInv, PTL DEF Spec

\* For any number of runs, callers and pauses: no run begins a second block
\* while it is paused, also when it was just woken from the pause before
\* (PauseGate.Wait).
THEOREM PauseIsQuiet == Spec => []PausedIsQuiet
<1>1. Inv => PausedIsQuiet
  BY DEF Inv, TypeOK, Quiet, PausedIsQuiet
<1> QED BY <1>1, InitInv, StepKeepsInv, PTL DEF Spec

-----------------------------------------------------------------------------
(* No Resume is missed *)

\* The channel a run sleeps on is that of the gate that is closed now, or it is
\* closed already: a Resume that comes between Wait's look at the gate and its
\* receive, or before another Pause, is not lost.
NoWakeupLost == \A r \in Run : Asleep(r) => chan[r] = gate[r] \/ chan[r] \in closed

\* A gate that opens closes the channel it kept, and no channel is opened again.
LEMMA ChannelsCloseForGood ==
  ASSUME Inv, [Next]_vars, NEW r \in Run
  PROVE  /\ closed \subseteq closed'
         /\ gate[r] # 0 => gate'[r] = gate[r] \/ gate[r] \in closed'
<1>1. ASSUME NEW q \in Run, OpenGate(q)
      PROVE  closed \subseteq closed' /\ (gate[r] # 0 => gate'[r] = gate[r] \/ gate[r] \in closed')
  <2>1. 0 \notin closed /\ gate \in [Run -> Channel \cup {0}]
    BY DEF Inv, TypeOK
  <2> QED BY <1>1, <2>1 DEF OpenGate
<1>2. ASSUME NEW q \in Run, CloseGate(q)
      PROVE  closed' = closed /\ (gate[r] # 0 => gate'[r] = gate[r])
  BY <1>2 DEF CloseGate, CloseAnyGate, gates, Inv, TypeOK
<1>3. ASSUME NEW c \in Caller, call[c] # Idle PROVE call[c].run \in Run
  BY <1>3 DEF Inv, TypeOK, Call
<1>4. ASSUME NEW c \in Caller, PauseRun(c) \/ ResumeRun(c)
      PROVE  closed \subseteq closed' /\ (gate[r] # 0 => gate'[r] = gate[r] \/ gate[r] \in closed')
  BY <1>1, <1>2, <1>3, <1>4 DEF PauseRun, ResumeRun
<1>5. ASSUME NEW q \in Run, StoppedInQueue(q) \/ StopAtGate(q) \/ Finish(q)
      PROVE  closed \subseteq closed' /\ (gate[r] # 0 => gate'[r] = gate[r] \/ gate[r] \in closed')
  BY <1>1, <1>5 DEF StoppedInQueue, StopAtGate, Finish, End
<1>6. CASE UNCHANGED <<gate, closed>>
  BY <1>6
<1>7. CASE UNCHANGED vars
  BY <1>6, <1>7 DEF vars, gates
<1>8. ASSUME NEW q \in Run, Start(q) \/ ArriveAtGate(q) \/ BeginBlock(q)
      PROVE  UNCHANGED <<gate, closed>>
  BY <1>8 DEF Start, ArriveAtGate, BeginBlock, gates
<1>9. ASSUME NEW c \in Caller, LookAtGate(c) \/ Tell(c) \/ StopRun(c)
      PROVE  UNCHANGED <<gate, closed>>
  BY <1>9 DEF LookAtGate, Tell, StopRun, gates
<1>10. ASSUME NEW c \in Caller, NEW q \in Run, NEW op \in {"pause", "resume", "stop"}, Ask(c, op, q)
       PROVE  UNCHANGED <<gate, closed>>
  BY <1>10 DEF Ask, gates
<1> QED BY <1>4, <1>5, <1>6, <1>7, <1>8, <1>9, <1>10 DEF Next, Reads

\* A queued run has no reader at its gate yet.
QueuedIsAway == \A r \in Run : phase[r] = "queued" => at[r] = "block"

\* A run falls asleep on the channel its gate keeps, and keeps it while asleep.
LEMMA AsleepBefore ==
  ASSUME Inv, QueuedIsAway, [Next]_vars, NEW r \in Run, Asleep(r)'
  PROVE  \/ Asleep(r) /\ chan'[r] = chan[r]
         \/ ArriveAtGate(r)
<1>1. CASE UNCHANGED readers
  BY <1>1 DEF readers, Asleep
<1>2. CASE UNCHANGED vars
  BY <1>1, <1>2 DEF vars
<1>3. ASSUME NEW q \in Run, Start(q) \/ StoppedInQueue(q) \/ BeginBlock(q) \/ StopAtGate(q) \/ Finish(q)
      PROVE  Asleep(r) /\ chan'[r] = chan[r]
  <2>1. chan' = chan /\ (at' = at \/ at' = [at EXCEPT ![q] = "block"])
    BY <1>3 DEF Start, StoppedInQueue, BeginBlock, StopAtGate, Finish, End
  <2>2. at[r] = "gate"
    BY <2>1 DEF Asleep, Inv, TypeOK
  <2>3. phase[r] = "reading" \/ phase[r] = "queued"
    BY <1>3 DEF Start, StoppedInQueue, BeginBlock, StopAtGate, Finish, End, Asleep, Inv, TypeOK
  <2> QED BY <2>1, <2>2, <2>3 DEF Asleep, QueuedIsAway
<1>4. ASSUME NEW q \in Run, ArriveAtGate(q), q # r
      PROVE  Asleep(r) /\ chan'[r] = chan[r]
  BY <1>4 DEF ArriveAtGate, Asleep, Inv, TypeOK
<1>5. ASSUME NEW c \in Caller, PauseRun(c) \/ LookAtGate(c) \/ ResumeRun(c) \/ Tell(c) \/ StopRun(c)
      PROVE  UNCHANGED readers
  BY <1>5 DEF PauseRun, LookAtGate, ResumeRun, Tell, StopRun
<1>6. ASSUME NEW c \in Caller, NEW q \in Run, NEW op \in {"pause", "resume", "stop"}, Ask(c, op, q)
      PROVE  UNCHANGED readers
  BY <1>6 DEF Ask
<1> QED BY <1>1, <1>2, <1>3, <1>4, <1>5, <1>6 DEF Next, Reads
LEMMA QueuedStaysAway ==
  ASSUME Inv, QueuedIsAway, [Next]_vars
  PROVE  QueuedIsAway'
<1> SUFFICES ASSUME NEW r \in Run, phase'[r] = "queued"
             PROVE  phase[r] = "queued" /\ (at[r] = "block" => at'[r] = "block")
  BY DEF QueuedIsAway
<1>1. CASE UNCHANGED readers
  BY <1>1 DEF readers
<1>2. CASE UNCHANGED vars
  BY <1>1, <1>2 DEF vars
<1>3. ASSUME NEW q \in Run, Start(q) \/ StoppedInQueue(q) \/ StopAtGate(q) \/ Finish(q)
      PROVE  phase[r] = "queued" /\ at' = at
  BY <1>3 DEF Start, StoppedInQueue, StopAtGate, Finish, End, Inv, TypeOK
<1>4. ASSUME NEW q \in Run, ArriveAtGate(q) \/ BeginBlock(q)
      PROVE  phase[r] = "queued" /\ (at[r] = "block" => at'[r] = "block")
  BY <1>4 DEF ArriveAtGate, BeginBlock, AtOpenGate, Inv, TypeOK
<1>5. ASSUME NEW c \in Caller, PauseRun(c) \/ LookAtGate(c) \/ ResumeRun(c) \/ Tell(c) \/ StopRun(c)
      PROVE  UNCHANGED readers
  BY <1>5 DEF PauseRun, LookAtGate, ResumeRun, Tell, StopRun
<1>6. ASSUME NEW c \in Caller, NEW q \in Run, NEW op \in {"pause", "resume", "stop"}, Ask(c, op, q)
      PROVE  UNCHANGED readers
  BY <1>6 DEF Ask
<1> QED BY <1>1, <1>2, <1>3, <1>4, <1>5, <1>6 DEF Next, Reads

\* For any number of runs, callers and pauses: no run sleeps on at a gate that
\* has been opened since, also when it was closed again at once or Wait had only
\* looked at it (PauseGate.Wait takes the channel under the gate's mutex).
THEOREM ResumeIsHeard == Spec => []NoWakeupLost
<1> DEFINE Wakes == Inv /\ QueuedIsAway /\ NoWakeupLost
<1>1. Init => Wakes
  BY InitInv DEF Init, QueuedIsAway, NoWakeupLost, Asleep
<1>2. ASSUME Wakes, [Next]_vars PROVE Wakes'
  <2>1. Inv'
    BY <1>2, StepKeepsInv
  <2>2. QueuedIsAway'
    BY <1>2, QueuedStaysAway
  <2>3. ASSUME NEW r \in Run, Asleep(r)' PROVE chan'[r] = gate'[r] \/ chan'[r] \in closed'
    <3>1. CASE Asleep(r) /\ chan'[r] = chan[r]
      <4>1. chan[r] # 0 /\ (chan[r] = gate[r] \/ chan[r] \in closed)
        BY <1>2, <3>1 DEF NoWakeupLost, Asleep
      <4>2. closed \subseteq closed'
            /\ (gate[r] # 0 => gate'[r] = gate[r] \/ gate[r] \in closed')
        BY <1>2, ChannelsCloseForGood
      <4> QED BY <3>1, <4>1, <4>2
    <3>2. CASE ArriveAtGate(r)
      BY <1>2, <3>2 DEF ArriveAtGate, gates, Inv, TypeOK
    <3> QED BY <1>2, <2>3, <3>1, <3>2, AsleepBefore
  <2>4. NoWakeupLost'
    BY <2>3 DEF NoWakeupLost
  <2> QED BY <2>1, <2>2, <2>4
<1>3. Wakes => NoWakeupLost
  OBVIOUS
<1> QED BY <1>1, <1>2, <1>3, PTL DEF Spec
=================================================================================
