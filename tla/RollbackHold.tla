----------------------------- MODULE RollbackHold -----------------------------
(***************************************************************************)
(* A Backup Set's runs and its roll backs keeping out of each other's way   *)
(* (gui/undelete_rollback.go, gui/scheduler.go, gui/set_index.go).          *)
(*                                                                          *)
(* A roll back runs in the app.  The set's runs are the app's too, or the   *)
(* service's when the app works through it (Delegated).  Each process has   *)
(* its own runningJobs, rollbackHolds and operation queue; of the queue     *)
(* (module OperationQueue) this module keeps that a roll back runs alone.   *)
(***************************************************************************)
EXTENDS Naturals, Sequences, FiniteSets, TLC

CONSTANTS
  Runner,     \* goroutines in executeScheduledJob for the set
  Roller,     \* calls of StartRollback for the set
  Delegated,  \* the app works through the service
  Slack,      \* the seconds waitForSetRun allows a history entry to be early
  MaxTime,    \* bound: the clock
  MaxStarts   \* bound: runs and roll backs started

ASSUME DelegatedAssumption == Delegated \in BOOLEAN
ASSUME BoundAssumption == Slack \in Nat /\ MaxTime \in Nat /\ MaxStarts \in Nat

VARIABLES
  now,
  running,   \* runningJobs has the set, in the process that runs the backups
  held,      \* rollbackHolds has the set, in the app
  run,       \* per goroutine, how far it is
  roll,      \* per call: how far it is, backupFirst, the second the backup was
             \* asked for and the one waitForSetRun is given
  history,   \* the ended runs in Reports, the newest first
  starts

holdVars == <<now, running, held, run, roll, history, starts>>

Entry == [at : 0..MaxTime, success : BOOLEAN]
NoRoll == [pc |-> "idle", first |-> FALSE, asked |-> 0, since |-> 0]

HoldTypeOK ==
  /\ now \in 0..MaxTime /\ starts \in 0..MaxStarts
  /\ running \in BOOLEAN /\ held \in BOOLEAN
  /\ run \in [Runner -> {"idle", "fired", "clear", "queued", "reading", "ended"}]
  /\ roll \in [Roller -> [pc : {"idle", "checked", "held", "released", "started",
                                "waiting", "queued", "restoring", "failed"},
                          first : BOOLEAN, asked : 0..MaxTime, since : 0..MaxTime]]
  /\ history \in Seq(Entry)

HoldInit ==
  /\ now = 0 /\ starts = 0
  /\ running = FALSE /\ held = FALSE
  /\ run = [r \in Runner |-> "idle"]
  /\ roll = [q \in Roller |-> NoRoll]
  /\ history = <<>>

RunAt(r, pc) == run[r] = pc
RunTo(r, pc) == run' = [run EXCEPT ![r] = pc]
RollAt(q, pc) == roll[q].pc = pc
RollTo(q, pc) == roll' = [roll EXCEPT ![q].pc = pc]

\* rollbackHeld, asked in the process that runs the backups.
HeldForRuns == held /\ ~Delegated

-----------------------------------------------------------------------------
(* A run of the set *)

Starting == starts < MaxStarts /\ starts' = starts + 1

\* A tick of the scheduler starts the set's goroutine.
Fire(r) ==
  /\ RunAt(r, "idle") /\ Starting
  /\ RunTo(r, "fired")
  /\ UNCHANGED <<now, running, held, roll, history>>

\* RunScheduledJobNow: refused while the set runs or is being rolled back.
RunNow(r) ==
  /\ RunAt(r, "idle") /\ ~running /\ ~HeldForRuns
  /\ RunTo(r, "fired")

\* A roll back holds the set: the run is skipped.
CheckHold(r) ==
  /\ RunAt(r, "fired")
  /\ RunTo(r, IF HeldForRuns THEN "idle" ELSE "clear")
  /\ UNCHANGED <<now, running, held, roll, history, starts>>

Claim(r) ==
  /\ RunAt(r, "clear")
  /\ RunTo(r, IF running THEN "idle" ELSE "queued")
  /\ running' = TRUE
  /\ UNCHANGED <<now, held, roll, history, starts>>

\* The queue admits the backup beside no roll back of its own process.
AdmitAnyRun(r) ==
  /\ RunAt(r, "queued") /\ RunTo(r, "reading")
  /\ UNCHANGED <<now, running, held, roll, history, starts>>
AdmitRun(r) ==
  /\ RunAt(r, "queued")
  /\ \A q \in Roller : ~Delegated => ~RollAt(q, "restoring")
  /\ RunTo(r, "reading")
  /\ UNCHANGED <<now, running, held, roll, history, starts>>

\* The backup ends, gives its place back and is written into Reports.
RunEnds(r) ==
  /\ RunAt(r, "reading") /\ RunTo(r, "ended")
  /\ \E ok \in BOOLEAN :
       history' = <<[at |-> now, success |-> ok]>> \o history
  /\ UNCHANGED <<now, running, held, roll, starts>>

Leave(r) ==
  /\ RunAt(r, "ended") /\ running' = FALSE
  /\ RunTo(r, "idle")
  /\ UNCHANGED <<now, held, roll, history, starts>>

-----------------------------------------------------------------------------
(* A roll back of the set *)

\* StartRollback finds the set not running, as far as the app knows.
StartRollback(q) ==
  /\ RollAt(q, "idle") /\ Starting
  /\ Delegated \/ ~running
  /\ \E first \in BOOLEAN :
       roll' = [roll EXCEPT ![q] =
                  [pc |-> "checked", first |-> first, asked |-> 0, since |-> 0]]
  /\ UNCHANGED <<now, running, held, run, history>>

\* LoadOrStore: refused if a roll back of the set holds it.
Hold(q) ==
  /\ RollAt(q, "checked") /\ held' = TRUE
  /\ roll' = [roll EXCEPT ![q] =
                IF held THEN NoRoll
                ELSE [@ EXCEPT !.pc = IF roll[q].first THEN "held" ELSE "queued"]]
  /\ UNCHANGED <<now, running, run, history, starts>>

\* With a backup first the hold is given back, or it would stop that backup.
Unhold(q) ==
  /\ RollAt(q, "held") /\ held' = FALSE /\ RollTo(q, "released")
  /\ UNCHANGED <<now, running, run, history, starts>>

\* RunScheduledJobNow starts the backup, or refuses and the roll back ends.
BackUpFirst(q) ==
  /\ RollAt(q, "released")
  /\ \/ /\ \E r \in Runner : RunNow(r)
        /\ roll' = [roll EXCEPT ![q] = [@ EXCEPT !.pc = "started", !.asked = now]]
     \/ /\ running \/ HeldForRuns
        /\ roll' = [roll EXCEPT ![q] = NoRoll]
        /\ UNCHANGED run
  /\ UNCHANGED <<now, running, held, history, starts>>

NoteStartLate(q) ==
  /\ RollAt(q, "started")
  /\ roll' = [roll EXCEPT ![q] = [@ EXCEPT !.pc = "waiting", !.since = now + 1]]
  /\ UNCHANGED <<now, running, held, run, history, starts>>
\* started := time.Now(), when the backup may have begun, or even ended.
NoteStart(q) ==
  /\ RollAt(q, "started")
  /\ roll' = [roll EXCEPT ![q] = [@ EXCEPT !.pc = "waiting", !.since = now]]
  /\ UNCHANGED <<now, running, held, run, history, starts>>

\* waitForSetRun: the entries it may take, and the first of them.
MatchesLater(h, since) == h.at > since
Matches(h, since) == h.at + Slack >= since
IsFirstMatch(i, since) ==
  /\ Matches(history[i], since)
  /\ \A j \in 1..(i - 1) : ~Matches(history[j], since)

WaitEndsWithoutHold(q) ==
  /\ RollAt(q, "waiting")
  /\ \E i \in DOMAIN history : IsFirstMatch(i, roll[q].since) /\ history[i].success
  /\ RollTo(q, "queued")
  /\ UNCHANGED <<now, running, held, run, history, starts>>
\* The wait ends well: the hold is taken again, whoever has it.
WaitEnds(q) ==
  /\ RollAt(q, "waiting")
  /\ \E i \in DOMAIN history : IsFirstMatch(i, roll[q].since) /\ history[i].success
  /\ held' = TRUE
  /\ RollTo(q, "queued")
  /\ UNCHANGED <<now, running, run, history, starts>>

\* The backup failed, or Stop ended the wait.
WaitFails(q) ==
  /\ RollAt(q, "waiting")
  /\ RollTo(q, "failed")
  /\ UNCHANGED <<now, running, held, run, history, starts>>
BackupFailed(q) ==
  /\ \E i \in DOMAIN history : IsFirstMatch(i, roll[q].since) /\ ~history[i].success
  /\ WaitFails(q)
Stop(q) == WaitFails(q)

\* The queue admits the roll back beside nothing else of its own process.
AdmitRoll(q) ==
  /\ RollAt(q, "queued")
  /\ \A p \in Roller : ~RollAt(p, "restoring")
  /\ \A r \in Runner : ~Delegated => ~RunAt(r, "reading")
  /\ RollTo(q, "restoring")
  /\ UNCHANGED <<now, running, held, run, history, starts>>

\* Finish runs whether the roll back restored anything or not.
Finish(q) ==
  /\ roll[q].pc \in {"restoring", "failed"}
  /\ held' = FALSE
  /\ roll' = [roll EXCEPT ![q] = NoRoll]
  /\ UNCHANGED <<now, running, run, history, starts>>

\* Time.  It is taken that a roll back reads its clock within Slack seconds
\* of asking for the backup.
Tick ==
  /\ now < MaxTime /\ now' = now + 1
  /\ \A q \in Roller : RollAt(q, "started") => now < roll[q].asked + Slack
  /\ UNCHANGED <<running, held, run, roll, history, starts>>

RunSteps(r) == CheckHold(r) \/ Claim(r) \/ AdmitRun(r) \/ RunEnds(r) \/ Leave(r)
RollSteps(q) ==
  Hold(q) \/ Unhold(q) \/ BackUpFirst(q) \/ NoteStart(q) \/ WaitEnds(q)
    \/ BackupFailed(q) \/ AdmitRoll(q) \/ Finish(q)

HoldNext ==
  \/ \E r \in Runner : Fire(r) \/ RunSteps(r)
  \/ \E q \in Roller : StartRollback(q) \/ RollSteps(q) \/ Stop(q)
  \/ Tick

HoldSpec == HoldInit /\ [][HoldNext]_holdVars

\* A goroutine goes on, an operation that was admitted ends, the wait looks at
\* the history every three seconds; nobody has to click Stop.
FairHoldSpec ==
  /\ HoldSpec
  /\ \A r \in Runner : WF_holdVars(CheckHold(r)) /\ WF_holdVars(Claim(r)) /\ SF_holdVars(AdmitRun(r))
                       /\ WF_holdVars(RunEnds(r)) /\ WF_holdVars(Leave(r))
  /\ \A q \in Roller : WF_holdVars(WaitEnds(q)) /\ WF_holdVars(BackupFailed(q))
                       /\ SF_holdVars(AdmitRoll(q)) /\ WF_holdVars(Finish(q))

-----------------------------------------------------------------------------
(* Properties *)

\* "While a roll back runs, the set's own scheduled backups wait" (GUI.md:912):
\* none reads the folders while the roll back puts files back into them.
BackupsWait ==
  \A q \in Roller, r \in Runner : RollAt(q, "restoring") => ~RunAt(r, "reading")

\* "and Run Now on that set is refused" (GUI.md:912), "job ID -> true while a
\* roll back of it runs" (set_index.go:413).
HeldWhileRestoring == (\E q \in Roller : RollAt(q, "restoring")) => held

\* A hold that outlives its roll back would stop every later run of the set.
NoHoldLeftBehind == held => \E q \in Roller : ~RollAt(q, "idle")

\* "backupFirst runs the set once before anything changes"
\* (undelete_rollback.go:547): when the roll back begins to move files, a backup
\* has ended well since it asked for one.
BackedUpFirst ==
  \A q \in Roller : RollAt(q, "restoring") /\ roll[q].first =>
    \E i \in DOMAIN history :
      history[i].success /\ history[i].at >= roll[q].asked

\* The wait for the backup ends, whether that run is skipped for another run of
\* the set, fails, or has to wait its own turn.
WaitIsOver == \A q \in Roller : RollAt(q, "waiting") ~> ~RollAt(q, "waiting")
===============================================================================
