-------------------------------- MODULE SetRuns --------------------------------
(***************************************************************************)
(* The scheduler of the process that runs the backups (gui/scheduler.go)    *)
(* and the full-read count of change detection                              *)
(* (gui/change_detection_job.go).                                           *)
(*                                                                          *)
(* Each minute a tick reads the Backup Sets and starts a goroutine per due  *)
(* set, with the copy of the set it read.  The goroutine claims the set in  *)
(* runningJobs, runs, stores the outcome in the full-read count, works out  *)
(* the next run and gives the set back.  Run Now and the start of the       *)
(* program start the same goroutine.  Changes of the file are one step      *)
(* each (module JobsFile); the wait for a roll back is in RollbackHold.     *)
(***************************************************************************)
EXTENDS Naturals, TLC

CONSTANTS
  Set,            \* the Backup Sets
  Startup,        \* the sets with RunAtStartup
  Mode,           \* change detection modes a user picks: "metadata", "data"
  Read,           \* what Run Now asks: "", "full", "quick"
  FullReadEvery,  \* every this many runs of a metadata set read every file
  Slot,           \* the times the schedules give
  Runner,         \* goroutines in executeScheduledJob
  Idle,
  MaxTime,        \* bound: the clock
  MaxEdits,       \* bound: changes by the user
  MaxCrashes      \* bound: ends of the process in the middle of its work

ASSUME ModeAssumption == "metadata" \in Mode /\ Mode \subseteq {"metadata", "data"}
ASSUME ReadAssumption == Read \subseteq {"", "full", "quick"}
ASSUME FullReadAssumption == FullReadEvery \in Nat \ {1}
ASSUME TimeAssumption == MaxTime \in Nat /\ Slot \subseteq 1..MaxTime
ASSUME BoundAssumption == MaxEdits \in Nat /\ MaxCrashes \in Nat
ASSUME StartupAssumption == Startup \subseteq Set

VARIABLES
  now,
  jobs,         \* the file: the sets not deleted
  runningJobs,
  due,          \* what a tick or the start read and has not started yet
  runs,         \* the goroutines
  up,           \* the process runs
  starting,     \* HandleStartupRun has not read the file yet
  edits, crashes,
  reused,       \* per set, its runs that reused files since its last full read
  served        \* the scheduled times for which a run has completed

file == <<jobs, edits>>
process == <<runningJobs, due, runs, up, starting, crashes>>
vars == <<now, file, process, reused, served>>

Missing == 0          \* NextRun is ""
Never == MaxTime + 1  \* the next run is past the clock's bound

\* nextRunFor: the first time a schedule gives after n.
NextRun(n) ==
  CHOOSE t \in Slot \cup {Never} :
    t > n /\ \A u \in Slot : u > n => t <= u

Times == Slot \cup {Missing, Never}
Job == [enabled : BOOLEAN, mode : Mode, nextRun : Times, count : Nat]

Trigger == {"scheduled", "startup", "manual"}
Start == [set : Set, job : Job, trigger : Trigger, read : Read \cup {""}]
At(d, pc) == [start |-> d, pc |-> pc]
Place == {"fired", "running", "failed", "reusedFiles", "readAll", "recorded", "completed"}

\* Idle is the place of no goroutine that has started.
ASSUME IdleAssumption == Idle \notin [start : Start, pc : Place]

TypeOK ==
  /\ now \in 0..MaxTime
  /\ DOMAIN jobs \subseteq Set /\ \A s \in DOMAIN jobs : jobs[s] \in Job
  /\ runningJobs \subseteq Set
  /\ due \subseteq Start
  /\ DOMAIN runs = Runner
  /\ \A r \in Runner : runs[r] # Idle => runs[r] \in [start : Start, pc : Place]
  /\ up \in BOOLEAN /\ starting \in BOOLEAN
  /\ edits \in 0..MaxEdits /\ crashes \in 0..MaxCrashes
  /\ reused \in [Set -> Nat]
  /\ served \subseteq Set \X Times

Init ==
  /\ now = 0
  /\ \E m \in Mode, e \in BOOLEAN, t \in {Missing, NextRun(0)} :
       jobs = [s \in Set |-> [enabled |-> e, mode |-> m, nextRun |-> t, count |-> 0]]
  /\ runningJobs = {} /\ due = {}
  /\ runs = [r \in Runner |-> Idle]
  /\ up = FALSE /\ starting = FALSE
  /\ edits = 0 /\ crashes = 0
  /\ reused = [s \in Set |-> 0] /\ served = {}

\* The overdue sets, as a tick of the scheduler sees them.
Overdue(s) ==
  s \in DOMAIN jobs /\ jobs[s].enabled /\ jobs[s].nextRun # Missing /\ now > jobs[s].nextRun

-----------------------------------------------------------------------------
(* The start of the program and the ticks *)

\* RecalculateNextRuns: a missing next run is worked out; one in the past stays,
\* so that the next tick runs the set.
RepairedAll(j) == IF j.enabled THEN [j EXCEPT !.nextRun = NextRun(now)] ELSE j
Repaired(j) ==
  IF j.enabled /\ j.nextRun = Missing THEN [j EXCEPT !.nextRun = NextRun(now)] ELSE j

\* The program starts: RecalculateNextRuns, StartScheduler, HandleStartupRun.
Boot ==
  /\ ~up /\ up' = TRUE /\ starting' = TRUE
  /\ jobs' = [s \in DOMAIN jobs |-> Repaired(jobs[s])]
  /\ UNCHANGED <<now, edits, runningJobs, due, runs, crashes, reused, served>>

Enlist(sets, trigger) ==
  due' = due \cup {[set |-> s, job |-> jobs[s], trigger |-> trigger, read |-> ""] : s \in sets}

\* HandleStartupRun, five seconds after the start.
HandleStartupRun ==
  /\ up /\ starting /\ starting' = FALSE
  /\ Enlist({s \in Startup \cap DOMAIN jobs : jobs[s].enabled}, "startup")
  /\ UNCHANGED <<now, file, runningJobs, runs, up, crashes, reused, served>>

\* checkAndRunScheduledJobs reads the sets and the time.
Check ==
  /\ up /\ \A d \in due : d.trigger # "scheduled"
  /\ \E s \in Set : Overdue(s)
  /\ Enlist({s \in Set : Overdue(s)}, "scheduled")
  /\ UNCHANGED <<now, file, runningJobs, runs, up, starting, crashes, reused, served>>

\* go a.executeScheduledJob, with the copy that was read.
Fire(r) ==
  /\ runs[r] = Idle
  /\ \E d \in due : runs' = [runs EXCEPT ![r] = At(d, "fired")] /\ due' = due \ {d}
  /\ UNCHANGED <<now, file, runningJobs, up, starting, crashes, reused, served>>

\* RunScheduledJobNowRead: refused while the set runs; counted as an edit.
RunNow(r) ==
  /\ up /\ runs[r] = Idle /\ edits < MaxEdits /\ edits' = edits + 1
  /\ \E s \in DOMAIN jobs \ runningJobs, x \in Read :
       runs' = [runs EXCEPT ![r] =
         At([set |-> s, job |-> jobs[s], trigger |-> "manual", read |-> x], "fired")]
  /\ UNCHANGED <<now, jobs, runningJobs, due, up, starting, crashes, reused, served>>

-----------------------------------------------------------------------------
(* One goroutine of executeScheduledJob *)

Is(r, pc) == runs[r] # Idle /\ runs[r].pc = pc
SetOf(r) == runs[r].start.set
Step(r, pc) == runs' = [runs EXCEPT ![r].pc = pc]

\* The set already runs: the goroutine returns, before its defer.
SkipDropsClaim(r) ==
  /\ Is(r, "fired") /\ SetOf(r) \in runningJobs
  /\ runs' = [runs EXCEPT ![r] = Idle]
  /\ runningJobs' = runningJobs \ {SetOf(r)}
  /\ UNCHANGED <<now, file, due, up, starting, crashes, reused, served>>
Skip(r) ==
  /\ Is(r, "fired") /\ SetOf(r) \in runningJobs
  /\ runs' = [runs EXCEPT ![r] = Idle]
  /\ UNCHANGED <<now, file, runningJobs, due, up, starting, crashes, reused, served>>

Claim(r) ==
  /\ Is(r, "fired") /\ SetOf(r) \notin runningJobs
  /\ runningJobs' = runningJobs \cup {SetOf(r)}
  /\ Step(r, "running")
  /\ UNCHANGED <<now, file, due, up, starting, crashes, reused, served>>

\* changeDetectionForRun and applyRequestedRead, from the goroutine's copy.
ReadsEveryFile(j, read) ==
  \/ j.mode = "data"
  \/ read = "full"
  \/ read = "" /\ FullReadEvery > 0 /\ j.count + 1 >= FullReadEvery

\* The backup ends.  A run that may reuse files reads them all when there is no
\* usable snapshot to reuse from.
RunEnds(r) ==
  /\ Is(r, "running")
  /\ \/ Step(r, "failed") /\ UNCHANGED reused
     \/ /\ Step(r, "readAll")
        /\ reused' = [reused EXCEPT ![SetOf(r)] = 0]
     \/ /\ ~ReadsEveryFile(runs[r].start.job, runs[r].start.read)
        /\ Step(r, "reusedFiles")
        /\ reused' = [reused EXCEPT ![SetOf(r)] = @ + 1]
  /\ UNCHANGED <<now, file, runningJobs, due, up, starting, crashes, served>>

\* nextFullReadCount, of the set as the file has it now.
NextCountOfAnyRun(j, outcome) ==
  IF j.mode # "metadata" \/ outcome = "readAll" THEN 0 ELSE j.count + 1
NextCountTakesBack(j, outcome) ==
  IF outcome = "failed" THEN j.count - 1
  ELSE IF j.mode # "metadata" \/ outcome = "readAll" THEN 0
  ELSE j.count + 1
NextCount(j, outcome) ==
  IF outcome = "failed" THEN j.count
  ELSE IF j.mode # "metadata" \/ outcome = "readAll" THEN 0
  ELSE j.count + 1

\* recordChangeDetectionOutcome.
RecordOutcome(r) ==
  /\ runs[r] # Idle /\ runs[r].pc \in {"failed", "readAll", "reusedFiles"}
  /\ jobs' = [s \in DOMAIN jobs |->
                IF s = SetOf(r)
                THEN [jobs[s] EXCEPT !.count = NextCount(jobs[s], runs[r].pc)]
                ELSE jobs[s]]
  /\ Step(r, "recorded")
  /\ UNCHANGED <<now, edits, runningJobs, due, up, starting, crashes, reused, served>>

\* The end of executeScheduledJob: the next run counts from now.
Complete(r) ==
  /\ Is(r, "recorded")
  /\ jobs' = [s \in DOMAIN jobs |->
                IF s = SetOf(r) THEN [jobs[s] EXCEPT !.nextRun = NextRun(now)]
                ELSE jobs[s]]
  /\ served' = IF runs[r].start.trigger = "scheduled"
               THEN served \cup {<<SetOf(r), runs[r].start.job.nextRun>>} ELSE served
  /\ Step(r, "completed")
  /\ UNCHANGED <<now, edits, runningJobs, due, up, starting, crashes, reused>>

\* The deferred delete from runningJobs.
LeaveKeepsClaim(r) ==
  /\ Is(r, "completed")
  /\ runs' = [runs EXCEPT ![r] = Idle]
  /\ UNCHANGED <<now, file, runningJobs, due, up, starting, crashes, reused, served>>
Leave(r) ==
  /\ Is(r, "completed")
  /\ runs' = [runs EXCEPT ![r] = Idle]
  /\ runningJobs' = runningJobs \ {SetOf(r)}
  /\ UNCHANGED <<now, file, due, up, starting, crashes, reused, served>>

-----------------------------------------------------------------------------
(* The user, the clock, the end of the process *)

Change(s, j) ==
  /\ up /\ edits < MaxEdits /\ edits' = edits + 1
  /\ jobs' = [jobs EXCEPT ![s] = j]
  /\ UNCHANGED <<now, process, reused, served>>

\* UpdateScheduledJob keeps the enabled flag and the count.
Edit(s) ==
  \E m \in Mode :
    Change(s, [jobs[s] EXCEPT !.mode = m, !.nextRun = NextRun(now)])

\* SetScheduledJobEnabled: enabling works out the next run from now.
Enable(s) == Change(s, [jobs[s] EXCEPT !.enabled = TRUE, !.nextRun = NextRun(now)])
Disable(s) == Change(s, [jobs[s] EXCEPT !.enabled = FALSE])

DeleteScheduledJob(s) ==
  /\ up /\ edits < MaxEdits /\ edits' = edits + 1
  /\ jobs' = [t \in DOMAIN jobs \ {s} |-> jobs[t]]
  /\ UNCHANGED <<now, process, reused, served>>

\* Time goes on whether the program runs or not; the computer may sleep through
\* any number of ticks.
Tick ==
  /\ now < MaxTime /\ now' = now + 1
  /\ UNCHANGED <<file, process, reused, served>>

\* The process ends at any point: what it held in memory is gone.
Crash ==
  /\ up /\ crashes < MaxCrashes /\ crashes' = crashes + 1
  /\ up' = FALSE /\ starting' = FALSE
  /\ runningJobs' = {} /\ due' = {} /\ runs' = [r \in Runner |-> Idle]
  /\ UNCHANGED <<now, file, reused, served>>

Goroutine(r) ==
  Fire(r) \/ Skip(r) \/ Claim(r) \/ RunEnds(r) \/ RecordOutcome(r) \/ Complete(r) \/ Leave(r)
User(s) == Edit(s) \/ Enable(s) \/ Disable(s) \/ DeleteScheduledJob(s)

Next ==
  \/ Boot \/ HandleStartupRun \/ Check
  \/ \E r \in Runner : Goroutine(r) \/ RunNow(r)
  \/ \E s \in DOMAIN jobs : User(s)
  \/ Tick \/ Crash

Spec == Init /\ [][Next]_vars

\* The program is started again when it has ended, its ticker ticks, and each
\* goroutine goes on: a backup that is running ends.
Fairness ==
  /\ WF_vars(Boot) /\ WF_vars(HandleStartupRun) /\ WF_vars(Check)
  /\ \A r \in Runner : WF_vars(Goroutine(r))
FairSpec == Spec /\ Fairness

-----------------------------------------------------------------------------
(* Properties *)

InBody(r) == runs[r] # Idle /\ runs[r].pc # "fired"

\* runningJobs "tracks currently executing jobs to prevent duplicates": however
\* ticks, Run Now and the start of the program fire, no two runs of a set are
\* under way at once.
OneRunPerSet ==
  \A q, r \in Runner : q # r /\ InBody(q) /\ InBody(r) => SetOf(q) # SetOf(r)

\* A run that is due is not lost by a crash, a start of the program, a tick that
\* finds the set running or the end of another set's run: its NextRun stays in
\* the past until a run of the set has ended or the user changes the set.
DueIsKept ==
  [][\A s \in Set : Overdue(s) =>
       \/ edits' # edits
       \/ s \in DOMAIN jobs' /\ jobs'[s].nextRun = jobs[s].nextRun
       \/ \E r \in Runner : InBody(r) /\ SetOf(r) = s /\ runs'[r].pc = "completed"]_vars

\* "metadata-mode runs that completed successfully since the last successful
\* full read": once its run's outcome is stored, a set's count is that number,
\* whatever failed, was skipped, or was edited meanwhile.  An end of the process
\* between the run and the store leaves a count one behind.
CountIsTrue ==
  crashes = 0 =>
    \A s \in DOMAIN jobs :
      (\A r \in Runner : InBody(r) /\ SetOf(r) = s =>
          runs[r].pc \in {"running", "failed", "recorded", "completed"})
        => jobs[s].count = reused[s]

\* "Repeated firing is prevented by the runningJobs guard and by
\* executeScheduledJob advancing NextRun on completion" (scheduler.go:1016-1018).
NoRepeatedFiring ==
  \A r \in Runner :
    Is(r, "running") /\ runs[r].start.trigger = "scheduled" =>
      <<SetOf(r), runs[r].start.job.nextRun>> \notin served

\* "FullReadEvery makes every Nth run of a metadata-mode set read every file"
\* (scheduler.go:70-73).
EveryNthRunIsFull ==
  FullReadEvery > 0 => \A s \in Set : reused[s] < FullReadEvery

\* "a full read ... resets it, a metadata run that reused files advances it"
\* (change_detection_job.go:197-199).
OnlyFullReadsReset ==
  [][\A r \in Runner, s \in DOMAIN jobs :
       (Is(r, "reusedFiles") /\ SetOf(r) = s /\ runs'[r] # Idle /\ runs'[r].pc = "recorded")
         => jobs'[s].count = jobs[s].count + 1]_vars

\* A set that is due does run: after sleep, a crash, a failure or a run in the
\* way, its NextRun moves on, unless the user takes the set away.
DueRuns == \A s \in Set : Overdue(s) ~> ~Overdue(s)
===============================================================================
