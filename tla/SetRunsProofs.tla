----------------------------- MODULE SetRunsProofs -----------------------------
(***************************************************************************)
(* For any number of sets, goroutines, slots and crashes: one run per set   *)
(* at a time, no due run lost, no claim left behind, and, while a set keeps *)
(* its mode, a count that is the runs since its last full read.             *)
(*                                                                          *)
(* OneRunPerSet is not inductive alone: a goroutine leaving could clear the *)
(* claim of another run, unless each run under way has its set in           *)
(* runningJobs (ClaimInv).  CountIsTrue needs it too: two runs of a set     *)
(* would each write its count from what they read (CountInv).               *)
(***************************************************************************)
EXTENDS SetRuns, TLAPS, WellFoundedInduction

Claims == \A r \in Runner : InBody(r) => SetOf(r) \in runningJobs

ClaimInv == DOMAIN runs = Runner /\ Claims /\ OneRunPerSet

\* A step of one goroutine that stays where it is in or out of its run.
LEMMA MoveKeeps ==
  ASSUME ClaimInv, NEW r \in Runner, NEW pc, Step(r, pc), InBody(r),
         runningJobs' = runningJobs
  PROVE  ClaimInv'
<1>1. \A q \in Runner : q # r => runs'[q] = runs[q]
  BY DEF Step, ClaimInv
<1>2. runs'[r] # Idle => SetOf(r)' = SetOf(r)
  BY DEF Step, ClaimInv, SetOf, InBody
<1>3. \A q \in Runner : InBody(q)' => InBody(q) /\ SetOf(q)' = SetOf(q)
  BY <1>1, <1>2 DEF InBody, SetOf
<1> QED BY <1>3 DEF ClaimInv, Claims, OneRunPerSet, Step

\* A goroutine that takes a new start is not in its run yet.
LEMMA OutsideKeeps ==
  ASSUME ClaimInv, runningJobs' = runningJobs, DOMAIN runs' = Runner,
         \A r \in Runner : InBody(r)' => InBody(r) /\ SetOf(r)' = SetOf(r)
  PROVE  ClaimInv'
BY DEF ClaimInv, Claims, OneRunPerSet

LEMMA FireKeeps == ASSUME ClaimInv, NEW r \in Runner, Fire(r) PROVE ClaimInv'
<1>1. PICK d \in due : runs' = [runs EXCEPT ![r] = At(d, "fired")]
  BY DEF Fire
<1>2. \A q \in Runner : InBody(q)' => InBody(q) /\ SetOf(q)' = SetOf(q)
  BY <1>1 DEF InBody, SetOf, At, ClaimInv
<1> QED BY <1>1, <1>2, OutsideKeeps DEF Fire, ClaimInv

LEMMA RunNowKeeps == ASSUME ClaimInv, NEW r \in Runner, RunNow(r) PROVE ClaimInv'
<1>1. PICK d : runs' = [runs EXCEPT ![r] = At(d, "fired")]
  BY DEF RunNow
<1>2. \A q \in Runner : InBody(q)' => InBody(q) /\ SetOf(q)' = SetOf(q)
  BY <1>1 DEF InBody, SetOf, At, ClaimInv
<1> QED BY <1>1, <1>2, OutsideKeeps DEF RunNow, ClaimInv

LEMMA SkipKeeps == ASSUME ClaimInv, NEW r \in Runner, Skip(r) PROVE ClaimInv'
<1>1. \A q \in Runner : InBody(q)' => InBody(q) /\ SetOf(q)' = SetOf(q)
  BY DEF Skip, InBody, SetOf, ClaimInv
<1> QED BY <1>1, OutsideKeeps DEF Skip, ClaimInv

\* The check and the claim are one region under runningJobsMutex.
LEMMA ClaimKeeps == ASSUME ClaimInv, NEW r \in Runner, Claim(r) PROVE ClaimInv'
<1>1. \A q \in Runner : q # r => runs'[q] = runs[q]
  BY DEF Claim, Step, ClaimInv
<1>2. SetOf(r)' = SetOf(r) /\ runs'[r] = [runs[r] EXCEPT !.pc = "running"]
  BY DEF Claim, Step, SetOf, ClaimInv, Is
<1>3. \A q \in Runner : q # r /\ InBody(q)' => InBody(q) /\ SetOf(q)' = SetOf(q)
  BY <1>1 DEF InBody, SetOf
<1>4. SetOf(r) \notin runningJobs /\ runningJobs' = runningJobs \cup {SetOf(r)}
  BY DEF Claim
<1>5. \A q \in Runner : q # r /\ InBody(q)' => SetOf(q)' # SetOf(r)'
  BY <1>2, <1>3, <1>4 DEF ClaimInv, Claims
<1>6. OneRunPerSet'
  BY <1>3, <1>5 DEF ClaimInv, OneRunPerSet
<1>7. Claims'
  BY <1>2, <1>3, <1>4 DEF ClaimInv, Claims
<1> QED BY <1>6, <1>7 DEF ClaimInv, Claim, Step

\* A run that leaves gives back its own set and no other run's.
LEMMA LeaveKeeps == ASSUME ClaimInv, NEW r \in Runner, Leave(r) PROVE ClaimInv'
<1>1. InBody(r)
  BY DEF Leave, Is, InBody
<1>2. ~InBody(r)'
  BY DEF Leave, InBody, ClaimInv
<1>3. \A q \in Runner : q # r => runs'[q] = runs[q]
  BY DEF Leave, ClaimInv
<1>4. \A q \in Runner : InBody(q)' => q # r /\ InBody(q) /\ SetOf(q)' = SetOf(q)
  BY <1>2, <1>3 DEF InBody, SetOf
<1>5. \A q \in Runner : InBody(q)' => SetOf(q) # SetOf(r)
  BY <1>1, <1>4 DEF ClaimInv, OneRunPerSet
<1>6. Claims'
  BY <1>4, <1>5 DEF ClaimInv, Claims, Leave
<1> QED BY <1>4, <1>6 DEF ClaimInv, OneRunPerSet, Leave

LEMMA RunKeeps ==
  ASSUME ClaimInv, NEW r \in Runner, RunEnds(r) \/ RecordOutcome(r) \/ Complete(r)
  PROVE  ClaimInv'
<1>1. InBody(r)
  BY DEF RunEnds, RecordOutcome, Complete, Is, InBody
<1>2. \E pc : Step(r, pc)
  BY DEF RunEnds, RecordOutcome, Complete
<1>3. runningJobs' = runningJobs
  BY DEF RunEnds, RecordOutcome, Complete
<1> QED BY <1>1, <1>2, <1>3, MoveKeeps

LEMMA CrashKeeps == ASSUME ClaimInv, Crash PROVE ClaimInv'
BY DEF ClaimInv, Crash, Claims, OneRunPerSet, InBody

LEMMA StepKeepsClaims == ASSUME ClaimInv, [Next]_vars PROVE ClaimInv'
<1>1. CASE UNCHANGED <<runs, runningJobs>>
  BY <1>1 DEF ClaimInv, Claims, OneRunPerSet, InBody, SetOf
<1>2. ASSUME NEW r \in Runner, Goroutine(r) \/ RunNow(r) PROVE ClaimInv'
  BY <1>2, FireKeeps, RunNowKeeps, SkipKeeps, ClaimKeeps, LeaveKeeps, RunKeeps
  DEF Goroutine
<1>3. CASE Boot \/ HandleStartupRun \/ Check \/ Tick
  BY <1>1, <1>3 DEF Boot, HandleStartupRun, Check, Tick, process
<1>4. ASSUME NEW s \in DOMAIN jobs, User(s) PROVE ClaimInv'
  BY <1>1, <1>4
  DEF User, Edit, Enable, Disable, DeleteScheduledJob, Change, process
<1>5. CASE UNCHANGED vars
  BY <1>1, <1>5 DEF vars, process
<1> QED BY <1>2, <1>3, <1>4, <1>5, CrashKeeps DEF Next

\* runningJobs does what its comment says (scheduler.go:16): however the ticks,
\* Run Now and the starts interleave, a set never runs twice at once.
THEOREM NoSetRunsTwice == Spec => []OneRunPerSet
<1>1. Init => ClaimInv
  BY DEF Init, ClaimInv, Claims, OneRunPerSet, InBody
<1>2. ClaimInv /\ [Next]_vars => ClaimInv'
  BY StepKeepsClaims
<1>3. ClaimInv => OneRunPerSet
  BY DEF ClaimInv
<1> QED BY <1>1, <1>2, <1>3, PTL DEF Spec

-----------------------------------------------------------------------------
(* The next run *)

LEMMA LessIsWellFounded == IsWellFoundedOn({x \in Nat \X Nat : x[1] < x[2]}, Nat)
BY NatLessThanWellFounded DEF OpToRel

LEMMA LeastOf ==
  ASSUME NEW T \in SUBSET Nat, T # {}
  PROVE  \E x \in T : \A y \in T : x <= y
<1> DEFINE R == {x \in Nat \X Nat : x[1] < x[2]}
<1>1. IsWellFoundedOn(R, Nat)
  BY LessIsWellFounded
<1>2. \A x, y \in T : <<y, x>> \notin R => x <= y
  OBVIOUS
<1> HIDE DEF R
<1>3. PICK x \in T : \A y \in T : ~(<<y, x>> \in R)
  BY <1>1, WFMin
<1> QED BY <1>2, <1>3

\* There is a first of the times after n, if only Never.
LEMMA NextRunIsNext ==
  ASSUME NEW n \in 0..MaxTime
  PROVE  /\ NextRun(n) \in Slot \cup {Never} /\ NextRun(n) > n
         /\ \A u \in Slot : u > n => NextRun(n) <= u
<1> DEFINE T == {t \in Slot \cup {Never} : t > n}
<1>1. MaxTime \in Nat /\ Slot \subseteq 1..MaxTime /\ Never = MaxTime + 1
  BY TimeAssumption DEF Never
<1>2. T \in SUBSET Nat /\ Never \in T
  <2>1. Slot \cup {Never} \subseteq Nat /\ Never > n
    BY <1>1
  <2> QED BY <2>1
<1>3. PICK x \in T : \A y \in T : x <= y
  BY <1>2, LeastOf
<1>4. x \in Slot \cup {Never} /\ x > n /\ \A u \in Slot : u > n => x <= u
  BY <1>3
<1> QED BY <1>4 DEF NextRun

-----------------------------------------------------------------------------
(* The types *)

Goer == [start : Start, pc : Place]

\* The file holds sets, each with its fields.
Jobs(list) == DOMAIN list \subseteq Set /\ \A s \in DOMAIN list : list[s] \in Job

LEMMA JobSet ==
  ASSUME NEW j \in Job
  PROVE  /\ j.enabled \in BOOLEAN /\ j.mode \in Mode /\ j.nextRun \in Times /\ j.count \in Nat
         /\ \A t \in Times : [j EXCEPT !.nextRun = t] \in Job
         /\ \A n \in Nat : [j EXCEPT !.count = n] \in Job
         /\ \A e \in BOOLEAN : [j EXCEPT !.enabled = e] \in Job
         /\ \A e \in BOOLEAN, t \in Times : [j EXCEPT !.enabled = e, !.nextRun = t] \in Job
         /\ \A m \in Mode, t \in Times : [j EXCEPT !.mode = m, !.nextRun = t] \in Job
BY DEF Job

LEMMA NextRunType ==
  ASSUME TypeOK
  PROVE  NextRun(now) \in Times
BY NextRunIsNext DEF TypeOK, Times

LEMMA TypesOfJobs == ASSUME TypeOK PROVE Jobs(jobs)
BY DEF TypeOK, Jobs

LEMMA TypesOfRuns ==
  ASSUME TypeOK, NEW r \in Runner, runs[r] # Idle
  PROVE  /\ runs[r] \in Goer /\ runs[r].start \in Start /\ runs[r].pc \in Place
         /\ SetOf(r) \in Set /\ runs[r].start.job \in Job
BY DEF TypeOK, Goer, SetOf, Start

\* A goroutine's next place: it is still there, and with the start it had.
LEMMA StepOfRun ==
  ASSUME TypeOK, NEW r \in Runner, runs[r] # Idle, NEW pc \in Place, Step(r, pc)
  PROVE  /\ DOMAIN runs' = Runner /\ runs'[r] \in Goer /\ runs'[r] # Idle
         /\ runs'[r].pc = pc /\ runs'[r].start = runs[r].start
         /\ \A q \in Runner : q # r => runs'[q] = runs[q]
<1>1. DOMAIN runs = Runner /\ runs[r] \in Goer
  BY DEF TypeOK, Goer
<1>2. /\ [runs[r] EXCEPT !.pc = pc] \in Goer
      /\ [runs[r] EXCEPT !.pc = pc].pc = pc
      /\ [runs[r] EXCEPT !.pc = pc].start = runs[r].start
  BY <1>1 DEF Goer
<1>3. /\ runs'[r] = [runs[r] EXCEPT !.pc = pc] /\ DOMAIN runs' = Runner
      /\ \A q \in Runner : q # r => runs'[q] = runs[q]
  BY <1>1 DEF Step
<1> QED BY <1>2, <1>3, IdleAssumption DEF Goer

LEMMA NewGoer ==
  ASSUME NEW d \in Start
  PROVE  At(d, "fired") \in Goer
BY DEF At, Goer, Place

LEMMA RunsTyped ==
  ASSUME TypeOK, DOMAIN runs' = Runner, NEW r \in Runner,
         runs'[r] = Idle \/ runs'[r] \in Goer,
         \A q \in Runner : q # r => runs'[q] = runs[q]
  PROVE  \A q \in Runner : runs'[q] # Idle => runs'[q] \in [start : Start, pc : Place]
BY DEF TypeOK, Goer

LEMMA RunChanged ==
  ASSUME TypeOK, NEW r \in Runner, NEW x, x = Idle \/ x \in Goer,
         runs' = [runs EXCEPT ![r] = x]
  PROVE  /\ DOMAIN runs' = Runner
         /\ \A q \in Runner : runs'[q] # Idle => runs'[q] \in [start : Start, pc : Place]
BY DEF TypeOK, Goer

LEMMA StartOf ==
  ASSUME TypeOK, NEW s \in DOMAIN jobs, NEW tr \in Trigger, NEW x \in Read \cup {""}
  PROVE  [set |-> s, job |-> jobs[s], trigger |-> tr, read |-> x] \in Start
BY DEF Start, TypeOK


\* A step that only moves one goroutine on.
LEMMA MoveTyped ==
  ASSUME TypeOK, NEW r \in Runner, Goroutine(r)
  PROVE  TypeOK'
<1>1. CASE Fire(r)
  <2>1. PICK d \in due : runs' = [runs EXCEPT ![r] = At(d, "fired")] /\ due' = due \ {d}
    BY <1>1 DEF Fire
  <2>2. At(d, "fired") \in Goer
    BY NewGoer DEF TypeOK
  <2>3. /\ DOMAIN runs' = Runner
        /\ \A q \in Runner : runs'[q] # Idle => runs'[q] \in [start : Start, pc : Place]
    BY <2>1, <2>2, RunChanged
  <2> QED BY <1>1, <2>1, <2>3 DEF Fire, TypeOK, file
<1>2. CASE Skip(r) \/ Leave(r)
  <2>1. /\ DOMAIN runs' = Runner
        /\ \A q \in Runner : runs'[q] # Idle => runs'[q] \in [start : Start, pc : Place]
    BY <1>2, RunChanged DEF Skip, Leave
  <2>2. runningJobs' \subseteq Set
    BY <1>2 DEF Skip, Leave, TypeOK
  <2> QED BY <1>2, <2>1, <2>2 DEF Skip, Leave, TypeOK, file
<1>3. CASE Claim(r)
  <2>1. runs[r] # Idle /\ Step(r, "running") /\ "running" \in Place
    BY <1>3 DEF Claim, Is, Place
  <2>2. /\ DOMAIN runs' = Runner
        /\ \A q \in Runner : runs'[q] # Idle => runs'[q] \in [start : Start, pc : Place]
    BY <2>1, StepOfRun, RunsTyped
  <2>3. runningJobs' \subseteq Set
    BY <1>3, <2>1, TypesOfRuns DEF Claim, TypeOK
  <2> QED BY <1>3, <2>2, <2>3 DEF Claim, TypeOK, file
<1>4. CASE RunEnds(r)
  <2>1. PICK pc \in Place : Step(r, pc)
    BY <1>4 DEF RunEnds, Place
  <2>2. runs[r] # Idle
    BY <1>4 DEF RunEnds, Is
  <2>3. /\ DOMAIN runs' = Runner
        /\ \A q \in Runner : runs'[q] # Idle => runs'[q] \in [start : Start, pc : Place]
    BY <2>1, <2>2, StepOfRun, RunsTyped
  <2>4. reused' \in [Set -> Nat]
    BY <1>4 DEF RunEnds, TypeOK
  <2> QED BY <1>4, <2>3, <2>4 DEF RunEnds, TypeOK, file
<1>5. CASE RecordOutcome(r)
  <2>1. runs[r] # Idle /\ Step(r, "recorded") /\ "recorded" \in Place
    BY <1>5 DEF RecordOutcome, Place
  <2>2. /\ DOMAIN runs' = Runner
        /\ \A q \in Runner : runs'[q] # Idle => runs'[q] \in [start : Start, pc : Place]
    BY <2>1, StepOfRun, RunsTyped
  <2>3. Jobs(jobs')
    <3>1. ASSUME NEW s \in DOMAIN jobs
          PROVE  jobs[s] \in Job /\ NextCount(jobs[s], runs[r].pc) \in Nat
      <4>1. jobs[s] \in Job /\ jobs[s].count \in Nat
        BY TypesOfJobs, JobSet DEF Jobs
      <4> QED BY <4>1 DEF NextCount
    <3>2. DOMAIN jobs' = DOMAIN jobs
      BY <1>5 DEF RecordOutcome
    <3>3. ASSUME NEW s \in DOMAIN jobs PROVE jobs'[s] \in Job
      <4>1. jobs'[s] = IF s = SetOf(r)
                       THEN [jobs[s] EXCEPT !.count = NextCount(jobs[s], runs[r].pc)]
                       ELSE jobs[s]
        BY <1>5 DEF RecordOutcome
      <4>2. jobs[s] \in Job /\ NextCount(jobs[s], runs[r].pc) \in Nat
        BY <3>1
      <4>3. [jobs[s] EXCEPT !.count = NextCount(jobs[s], runs[r].pc)] \in Job
        BY <4>2, JobSet
      <4> QED BY <4>1, <4>2, <4>3
    <3> QED BY <3>2, <3>3, TypesOfJobs DEF Jobs
  <2> QED BY <1>5, <2>2, <2>3 DEF RecordOutcome, TypeOK, Jobs
<1>6. CASE Complete(r)
  <2>1. runs[r] # Idle /\ Step(r, "completed") /\ "completed" \in Place
    BY <1>6 DEF Complete, Is, Place
  <2>2. /\ DOMAIN runs' = Runner
        /\ \A q \in Runner : runs'[q] # Idle => runs'[q] \in [start : Start, pc : Place]
    BY <2>1, StepOfRun, RunsTyped
  <2>3. Jobs(jobs')
    <3>1. DOMAIN jobs' = DOMAIN jobs
      BY <1>6 DEF Complete
    <3>2. ASSUME NEW s \in DOMAIN jobs PROVE jobs'[s] \in Job
      <4>1. jobs'[s] = IF s = SetOf(r) THEN [jobs[s] EXCEPT !.nextRun = NextRun(now)]
                       ELSE jobs[s]
        BY <1>6 DEF Complete
      <4>2. jobs[s] \in Job
        BY TypesOfJobs DEF Jobs
      <4> QED BY <4>1, <4>2, JobSet, NextRunType
    <3> QED BY <3>1, <3>2, TypesOfJobs DEF Jobs
  <2>4. served' \subseteq Set \X Times
    <3>1. <<SetOf(r), runs[r].start.job.nextRun>> \in Set \X Times
      BY <2>1, TypesOfRuns, JobSet
    <3> QED BY <1>6, <3>1 DEF Complete, TypeOK
  <2> QED BY <1>6, <2>2, <2>3, <2>4 DEF Complete, TypeOK, Jobs
<1> QED BY <1>1, <1>2, <1>3, <1>4, <1>5, <1>6 DEF Goroutine


\* What a tick or the start reads of the file.
LEMMA EnlistTyped ==
  ASSUME TypeOK, NEW sets \in SUBSET DOMAIN jobs, NEW tr \in Trigger, Enlist(sets, tr)
  PROVE  due' \subseteq Start
<1>1. \A s \in sets :
        [set |-> s, job |-> jobs[s], trigger |-> tr, read |-> ""] \in Start
  BY StartOf
<1> QED BY <1>1 DEF Enlist, TypeOK

LEMMA ProgramTyped ==
  ASSUME TypeOK, Boot \/ HandleStartupRun \/ Check \/ Crash
  PROVE  TypeOK'
<1>1. CASE Boot
  <2>1. DOMAIN jobs' = DOMAIN jobs /\ \A s \in DOMAIN jobs : jobs'[s] = Repaired(jobs[s])
    BY <1>1 DEF Boot
  <2>2. \A s \in DOMAIN jobs : Repaired(jobs[s]) \in Job
    BY JobSet, NextRunType, TypesOfJobs DEF Repaired, Jobs
  <2>3. Jobs(jobs')
    BY <2>1, <2>2, TypesOfJobs DEF Jobs
  <2> QED BY <1>1, <2>3 DEF Boot, TypeOK, Jobs
<1>2. CASE HandleStartupRun
  <2>1. due' \subseteq Start
    BY <1>2, EnlistTyped DEF HandleStartupRun, Trigger
  <2> QED BY <1>2, <2>1 DEF HandleStartupRun, TypeOK, file
<1>3. CASE Check
  <2>1. {s \in Set : Overdue(s)} \in SUBSET DOMAIN jobs
    BY DEF Overdue
  <2>2. due' \subseteq Start
    BY <1>3, <2>1, EnlistTyped DEF Check, Trigger
  <2> QED BY <1>3, <2>2 DEF Check, TypeOK, file
<1>4. CASE Crash
  <2>1. crashes' \in 0..MaxCrashes
    BY <1>4, BoundAssumption DEF Crash, TypeOK
  <2> QED BY <1>4, <2>1 DEF Crash, TypeOK, file
<1> QED BY <1>1, <1>2, <1>3, <1>4

LEMMA EditTyped ==
  ASSUME TypeOK, edits < MaxEdits, edits' = edits + 1
  PROVE  edits' \in 0..MaxEdits
BY BoundAssumption DEF TypeOK

LEMMA UserTyped ==
  ASSUME TypeOK, NEW s \in DOMAIN jobs, User(s)
  PROVE  TypeOK'
<1>1. edits' \in 0..MaxEdits /\ UNCHANGED <<now, process, reused, served>>
  BY EditTyped DEF User, Edit, Enable, Disable, DeleteScheduledJob, Change
<1>2. jobs[s] \in Job /\ NextRun(now) \in Times
  BY TypesOfJobs, NextRunType DEF Jobs
<1>3. ASSUME NEW j \in Job, jobs' = [jobs EXCEPT ![s] = j]
      PROVE  Jobs(jobs')
  BY <1>3, TypesOfJobs DEF Jobs
<1>4. Jobs(jobs')
  <2>1. CASE Edit(s)
    <3>1. PICK m \in Mode :
            jobs' = [jobs EXCEPT ![s] = [jobs[s] EXCEPT !.mode = m, !.nextRun = NextRun(now)]]
      BY <2>1 DEF Edit, Change
    <3>2. [jobs[s] EXCEPT !.mode = m, !.nextRun = NextRun(now)] \in Job
      BY <1>2, JobSet
    <3> QED BY <1>3, <3>1, <3>2
  <2>2. CASE Enable(s)
    <3>1. jobs' = [jobs EXCEPT ![s] = [jobs[s] EXCEPT !.enabled = TRUE, !.nextRun = NextRun(now)]]
      BY <2>2 DEF Enable, Change
    <3>2. [jobs[s] EXCEPT !.enabled = TRUE, !.nextRun = NextRun(now)] \in Job
      BY <1>2, JobSet
    <3> QED BY <1>3, <3>1, <3>2
  <2>3. CASE Disable(s)
    <3>1. jobs' = [jobs EXCEPT ![s] = [jobs[s] EXCEPT !.enabled = FALSE]]
      BY <2>3 DEF Disable, Change
    <3>2. [jobs[s] EXCEPT !.enabled = FALSE] \in Job
      BY <1>2, JobSet
    <3> QED BY <1>3, <3>1, <3>2
  <2>4. CASE DeleteScheduledJob(s)
    BY <2>4, TypesOfJobs DEF DeleteScheduledJob, Jobs
  <2> QED BY <2>1, <2>2, <2>3, <2>4 DEF User
<1> QED BY <1>1, <1>4 DEF TypeOK, Jobs, process

LEMMA RunNowTyped ==
  ASSUME TypeOK, NEW r \in Runner, RunNow(r)
  PROVE  TypeOK'
<1>1. edits' \in 0..MaxEdits
  BY EditTyped DEF RunNow
<1>2. PICK s \in DOMAIN jobs, x \in Read :
        runs' = [runs EXCEPT ![r] =
          At([set |-> s, job |-> jobs[s], trigger |-> "manual", read |-> x], "fired")]
  BY DEF RunNow
<1>3. [set |-> s, job |-> jobs[s], trigger |-> "manual", read |-> x] \in Start
  BY StartOf DEF Trigger
<1>4. At([set |-> s, job |-> jobs[s], trigger |-> "manual", read |-> x], "fired") \in Goer
  BY <1>3, NewGoer
<1>5. /\ DOMAIN runs' = Runner
      /\ \A q \in Runner : runs'[q] # Idle => runs'[q] \in [start : Start, pc : Place]
  BY <1>2, <1>4, RunChanged
<1> QED BY <1>1, <1>5 DEF RunNow, TypeOK

LEMMA StepKeepsTypes == TypeOK /\ [Next]_vars => TypeOK'
<1> SUFFICES ASSUME TypeOK, [Next]_vars PROVE TypeOK'
  OBVIOUS
<1>1. CASE Tick
  <2>1. now' \in 0..MaxTime
    BY <1>1, TimeAssumption DEF Tick, TypeOK
  <2> QED BY <1>1, <2>1 DEF Tick, TypeOK, file, process
<1>2. CASE UNCHANGED vars
  BY <1>2 DEF vars, file, process, TypeOK
<1> QED BY <1>1, <1>2, MoveTyped, RunNowTyped, ProgramTyped, UserTyped DEF Next

\* The file, the goroutines and the scheduler's own lists stay what their
\* declarations say: no count falls below zero, and every next run is a time a
\* schedule gives (nextRunFor), or missing.
THEOREM TypeCorrect == Spec => []TypeOK
<1>1. ASSUME Init PROVE TypeOK
  <2>1. NextRun(0) \in Times /\ 0 \in 0..MaxTime
    <3>1. 0 \in 0..MaxTime
      BY TimeAssumption
    <3> QED BY <3>1, NextRunIsNext DEF Times
  <2>2. PICK m \in Mode, e \in BOOLEAN, t \in {Missing, NextRun(0)} :
          jobs = [s \in Set |-> [enabled |-> e, mode |-> m, nextRun |-> t, count |-> 0]]
    BY <1>1 DEF Init
  <2>3. [enabled |-> e, mode |-> m, nextRun |-> t, count |-> 0] \in Job
    BY <2>1 DEF Job, Times
  <2>4. Jobs(jobs)
    BY <2>2, <2>3 DEF Jobs
  <2>5. 0 \in 0..MaxEdits /\ 0 \in 0..MaxCrashes
    BY BoundAssumption
  <2>6. /\ DOMAIN runs = Runner /\ (\A r \in Runner : runs[r] = Idle)
        /\ reused \in [Set -> Nat] /\ served = {} /\ due = {} /\ runningJobs = {}
    BY <1>1 DEF Init
  <2>7. now = 0 /\ edits = 0 /\ crashes = 0 /\ up = FALSE /\ starting = FALSE
    BY <1>1 DEF Init
  <2> QED BY <2>1, <2>4, <2>5, <2>6, <2>7 DEF TypeOK, Jobs
<1> QED BY <1>1, StepKeepsTypes, PTL DEF Spec

-----------------------------------------------------------------------------
(* The runs that are due *)

LEMMA EditsCount ==
  ASSUME TypeOK
  PROVE  edits + 1 # edits
BY BoundAssumption DEF TypeOK

DueKept(s) ==
  \/ edits' # edits
  \/ s \in DOMAIN jobs' /\ jobs'[s].nextRun = jobs[s].nextRun
  \/ \E r \in Runner : InBody(r) /\ SetOf(r) = s /\ runs'[r].pc = "completed"

\* An overdue set keeps its NextRun over crashes, starts, ticks and the ends of
\* other runs: only a run of its own, or the user, moves it.
THEOREM DueRunsAreKept == Spec => DueIsKept
<1>1. TypeOK /\ [Next]_vars => \A s \in Set : Overdue(s) => DueKept(s)
  <2> SUFFICES ASSUME TypeOK, [Next]_vars, NEW s \in Set, Overdue(s)
               PROVE  DueKept(s)
    OBVIOUS
  <2>0. s \in DOMAIN jobs /\ jobs[s].nextRun # Missing
    BY DEF Overdue
  <2>1. CASE UNCHANGED jobs
    BY <2>0, <2>1 DEF DueKept
  <2>2. CASE Boot
    <3>1. Repaired(jobs[s]) = jobs[s]
      BY <2>0 DEF Repaired
    <3> QED BY <2>0, <2>2, <3>1 DEF Boot, DueKept
  <2>3. ASSUME NEW r \in Runner, RecordOutcome(r) PROVE DueKept(s)
    <3>1. DOMAIN jobs' = DOMAIN jobs
      BY <2>3 DEF RecordOutcome
    <3>2. jobs'[s].nextRun = jobs[s].nextRun
      BY <2>0, <2>3 DEF RecordOutcome
    <3> QED BY <2>0, <3>1, <3>2 DEF DueKept
  <2>4. ASSUME NEW r \in Runner, Complete(r) PROVE DueKept(s)
    <3>1. CASE SetOf(r) = s
      <4>1. InBody(r) /\ runs[r] # Idle
        BY <2>4 DEF Complete, Is, InBody
      <4>2. runs'[r].pc = "completed"
        BY <2>4, <4>1, StepOfRun DEF Complete, Place
      <4> QED BY <3>1, <4>1, <4>2 DEF DueKept
    <3>2. CASE SetOf(r) # s
      <4>1. DOMAIN jobs' = DOMAIN jobs /\ jobs'[s] = jobs[s]
        BY <2>0, <2>4, <3>2 DEF Complete
      <4> QED BY <2>0, <4>1 DEF DueKept
    <3> QED BY <3>1, <3>2
  <2>5. ASSUME NEW t \in DOMAIN jobs, User(t) PROVE DueKept(s)
    <3>1. edits' = edits + 1
      BY <2>5 DEF User, Edit, Enable, Disable, DeleteScheduledJob, Change
    <3>2. edits' # edits
      BY <3>1, EditsCount
    <3> QED BY <3>2 DEF DueKept
  <2>6. ASSUME NEW r \in Runner, RunNow(r) PROVE DueKept(s)
    BY <2>1, <2>6 DEF RunNow
  <2>7. ASSUME NEW r \in Runner, Goroutine(r) PROVE DueKept(s)
    BY <2>1, <2>3, <2>4, <2>7 DEF Goroutine, Fire, Skip, Claim, RunEnds, Leave, file
  <2>8. CASE HandleStartupRun \/ Check \/ Tick \/ Crash \/ UNCHANGED vars
    BY <2>1, <2>8 DEF HandleStartupRun, Check, Tick, Crash, vars, file
  <2> QED BY <2>2, <2>5, <2>6, <2>7, <2>8 DEF Next
<1>2. TypeOK /\ [Next]_vars => [\A s \in Set : Overdue(s) => DueKept(s)]_vars
  BY <1>1
<1> QED BY <1>2, TypeCorrect, PTL DEF Spec, DueIsKept, DueKept

-----------------------------------------------------------------------------
(* The full-read count *)

\* The sets of the runs that have ended with their outcome not stored yet.
Reusing == {s \in Set : \E r \in Runner : Is(r, "reusedFiles") /\ SetOf(r) = s}
AllRead == {s \in Set : \E r \in Runner : Is(r, "readAll") /\ SetOf(r) = s}

\* The count of a set of M lags behind its runs by the outcome not stored yet.
CountInv(M) ==
  crashes = 0 =>
    \A s \in M \cap DOMAIN jobs :
      /\ s \in Reusing => reused[s] = jobs[s].count + 1
      /\ s \in AllRead => reused[s] = 0
      /\ s \notin Reusing \cup AllRead => jobs[s].count = reused[s]

\* Those sets of M are in metadata mode.
MetadataOnly(M) == \A s \in M \cap DOMAIN jobs : jobs[s].mode = "metadata"

\* A goroutine that neither had an outcome to store nor has one now.
LEMMA NoOutcome ==
  ASSUME NEW r \in Runner, \A q \in Runner : q # r => runs'[q] = runs[q],
         runs[r] = Idle \/ runs[r].pc \notin {"reusedFiles", "readAll"},
         runs'[r] = Idle \/ runs'[r].pc \notin {"reusedFiles", "readAll"}
  PROVE  Reusing' = Reusing /\ AllRead' = AllRead
BY DEF Reusing, AllRead, Is, SetOf

\* One run of a set is under way: its outcome is the set's.
LEMMA OutcomeOf ==
  ASSUME TypeOK, ClaimInv, NEW r \in Runner, InBody(r), NEW pc \in Place, Step(r, pc)
  PROVE  /\ SetOf(r) \in Set
         /\ SetOf(r) \in Reusing <=> runs[r].pc = "reusedFiles"
         /\ SetOf(r) \in AllRead <=> runs[r].pc = "readAll"
         /\ SetOf(r) \in Reusing' <=> pc = "reusedFiles"
         /\ SetOf(r) \in AllRead' <=> pc = "readAll"
         /\ \A s \in Set : s # SetOf(r) =>
              (s \in Reusing' <=> s \in Reusing) /\ (s \in AllRead' <=> s \in AllRead)
<1>1. runs[r] # Idle
  BY DEF InBody
<1>2. /\ runs'[r] # Idle /\ runs'[r].pc = pc /\ SetOf(r)' = SetOf(r) /\ SetOf(r) \in Set
      /\ \A q \in Runner : q # r => runs'[q] = runs[q]
  BY <1>1, StepOfRun, TypesOfRuns DEF SetOf
<1>3. ASSUME NEW q \in Runner, q # r, NEW p \in {"reusedFiles", "readAll"}, Is(q, p)
      PROVE  SetOf(q) # SetOf(r)
  <2>1. InBody(q)
    BY <1>3 DEF Is, InBody
  <2> QED BY <1>3, <2>1 DEF ClaimInv, OneRunPerSet
<1>4. \A q \in Runner, p \in {"reusedFiles", "readAll"} :
        q # r => (Is(q, p)' <=> Is(q, p)) /\ SetOf(q)' = SetOf(q)
  BY <1>2 DEF Is, SetOf
<1>5. \A p \in {"reusedFiles", "readAll"} :
        (Is(r, p) <=> runs[r].pc = p) /\ (Is(r, p)' <=> pc = p)
  BY <1>1, <1>2 DEF Is
<1> HIDE DEF SetOf, Is
<1>6. /\ SetOf(r) \in Reusing <=> runs[r].pc = "reusedFiles"
      /\ SetOf(r) \in AllRead <=> runs[r].pc = "readAll"
  BY <1>2, <1>3, <1>5 DEF Reusing, AllRead
<1>7. /\ SetOf(r) \in Reusing' <=> pc = "reusedFiles"
      /\ SetOf(r) \in AllRead' <=> pc = "readAll"
  BY <1>2, <1>3, <1>4, <1>5 DEF Reusing, AllRead
<1>8. \A s \in Set : s # SetOf(r) =>
        (s \in Reusing' <=> s \in Reusing) /\ (s \in AllRead' <=> s \in AllRead)
  BY <1>2, <1>4 DEF Reusing, AllRead
<1> QED BY <1>2, <1>6, <1>7, <1>8

\* A step that stores no outcome, brings none and touches no count.
LEMMA QuietCount ==
  ASSUME NEW M, CountInv(M), Reusing' = Reusing, AllRead' = AllRead, UNCHANGED <<reused, crashes>>,
         \A s \in DOMAIN jobs' : s \in DOMAIN jobs /\ jobs'[s].count = jobs[s].count
  PROVE  CountInv(M)'
BY DEF CountInv


LEMMA RunEndsCounted ==
  ASSUME NEW M, TypeOK, ClaimInv, CountInv(M), NEW r \in Runner, RunEnds(r)
  PROVE  CountInv(M)'
<1> DEFINE t == SetOf(r)
<1>1. InBody(r) /\ runs[r].pc = "running" /\ t \in Set /\ jobs' = jobs /\ crashes' = crashes
  BY TypesOfRuns DEF RunEnds, Is, InBody, file
<1>2. ASSUME NEW pc \in Place, Step(r, pc), NEW n \in Nat,
             pc = "failed" => n = reused[t], pc = "readAll" => n = 0,
             pc = "reusedFiles" => n = reused[t] + 1,
             pc \in {"failed", "readAll", "reusedFiles"},
             reused'[t] = n, \A s \in Set : s # t => reused'[s] = reused[s]
      PROVE  CountInv(M)'
  <2> SUFFICES ASSUME crashes = 0, NEW s \in M \cap DOMAIN jobs
               PROVE  /\ s \in Reusing' => reused'[s] = jobs[s].count + 1
                      /\ s \in AllRead' => reused'[s] = 0
                      /\ s \notin Reusing' \cup AllRead' => jobs[s].count = reused'[s]
    BY <1>1 DEF CountInv
  <2>1. s \in Set
    BY DEF TypeOK
  <2>2. CASE s = t
    <3>1. s \notin Reusing \cup AllRead
      BY <1>1, <1>2, <2>2, OutcomeOf
    <3>2. jobs[s].count = reused[s]
      BY <3>1 DEF CountInv
    <3>3. (s \in Reusing' <=> pc = "reusedFiles") /\ (s \in AllRead' <=> pc = "readAll")
      BY <1>1, <1>2, <2>2, OutcomeOf
    <3> QED BY <1>2, <2>2, <3>2, <3>3
  <2>3. CASE s # t
    <3>1. (s \in Reusing' <=> s \in Reusing) /\ (s \in AllRead' <=> s \in AllRead)
      BY <1>1, <1>2, <2>1, <2>3, OutcomeOf
    <3> QED BY <1>2, <2>1, <2>3, <3>1 DEF CountInv
  <2> QED BY <2>2, <2>3
<1>3. reused \in [Set -> Nat]
  BY DEF TypeOK
<1>4. CASE Step(r, "failed") /\ UNCHANGED reused
  BY <1>1, <1>2, <1>3, <1>4 DEF Place
<1>5. CASE Step(r, "readAll") /\ reused' = [reused EXCEPT ![SetOf(r)] = 0]
  <2>1. reused'[t] = 0 /\ \A s \in Set : s # t => reused'[s] = reused[s]
    BY <1>1, <1>3, <1>5
  <2> QED BY <1>2, <1>5, <2>1 DEF Place
<1>6. CASE Step(r, "reusedFiles") /\ reused' = [reused EXCEPT ![SetOf(r)] = @ + 1]
  <2>1. reused'[t] = reused[t] + 1 /\ \A s \in Set : s # t => reused'[s] = reused[s]
    BY <1>1, <1>3, <1>6
  <2>2. reused[t] + 1 \in Nat
    BY <1>1, <1>3
  <2> QED BY <1>2, <1>6, <2>1, <2>2 DEF Place
<1> QED BY <1>4, <1>5, <1>6 DEF RunEnds

\* The outcome is stored: the count catches up.
LEMMA OutcomeCounted ==
  ASSUME NEW M, TypeOK, ClaimInv, CountInv(M), MetadataOnly(M), NEW r \in Runner, RecordOutcome(r)
  PROVE  CountInv(M)'
<1> DEFINE t == SetOf(r)
<1>1. InBody(r) /\ runs[r].pc \in {"failed", "readAll", "reusedFiles"} /\ Step(r, "recorded")
      /\ reused' = reused /\ crashes' = crashes /\ "recorded" \in Place
  BY DEF RecordOutcome, InBody, Place
<1> SUFFICES ASSUME crashes = 0, NEW s \in M \cap DOMAIN jobs'
             PROVE  /\ s \in Reusing' => reused'[s] = jobs'[s].count + 1
                    /\ s \in AllRead' => reused'[s] = 0
                    /\ s \notin Reusing' \cup AllRead' => jobs'[s].count = reused'[s]
  BY <1>1 DEF CountInv
<1>2. s \in DOMAIN jobs /\ s \in Set /\ jobs[s] \in Job /\ jobs[s].mode = "metadata"
  BY DEF RecordOutcome, TypeOK, MetadataOnly
<1>3. CASE s = t
  <2>1. jobs'[s] = [jobs[s] EXCEPT !.count = NextCount(jobs[s], runs[r].pc)]
    BY <1>2, <1>3 DEF RecordOutcome
  <2>2. jobs'[s].count = NextCount(jobs[s], runs[r].pc)
    BY <1>2, <2>1 DEF Job
  <2>3. s \notin Reusing' \cup AllRead'
        /\ (s \in Reusing <=> runs[r].pc = "reusedFiles")
        /\ (s \in AllRead <=> runs[r].pc = "readAll")
    BY <1>1, <1>3, OutcomeOf
  <2>4. NextCount(jobs[s], runs[r].pc) = reused[s]
    BY <1>1, <1>2, <2>3 DEF NextCount, CountInv
  <2> QED BY <1>1, <2>2, <2>3, <2>4
<1>4. CASE s # t
  <2>1. jobs'[s] = jobs[s]
    BY <1>2, <1>4 DEF RecordOutcome
  <2>2. (s \in Reusing' <=> s \in Reusing) /\ (s \in AllRead' <=> s \in AllRead)
    BY <1>1, <1>2, <1>4, OutcomeOf
  <2> QED BY <1>1, <1>2, <2>1, <2>2 DEF CountInv
<1> QED BY <1>3, <1>4

\* The steps of a goroutine, and Run Now, that have to do with no outcome.
LEMMA OtherMovesCounted ==
  ASSUME NEW M, TypeOK, CountInv(M), NEW r \in Runner,
         Fire(r) \/ RunNow(r) \/ Skip(r) \/ Claim(r) \/ Complete(r) \/ Leave(r)
  PROVE  CountInv(M)'
<1>1. UNCHANGED <<reused, crashes>>
  BY DEF Fire, RunNow, Skip, Claim, Complete, Leave
<1>2. \A s \in DOMAIN jobs' : s \in DOMAIN jobs /\ jobs'[s].count = jobs[s].count
  <2>1. CASE jobs' = jobs
    BY <2>1
  <2>2. CASE Complete(r)
    <3>1. \A s \in DOMAIN jobs : jobs[s] \in Job
      BY DEF TypeOK
    <3>2. \A s \in DOMAIN jobs :
            [jobs[s] EXCEPT !.nextRun = NextRun(now)].count = jobs[s].count
      BY <3>1 DEF Job
    <3> QED BY <2>2, <3>2 DEF Complete
  <2> QED BY <2>1, <2>2 DEF Fire, RunNow, Skip, Claim, Leave, file
<1>3. Reusing' = Reusing /\ AllRead' = AllRead
  <2>1. ASSUME runs[r] = Idle \/ runs[r].pc \notin {"reusedFiles", "readAll"},
               NEW x, x = Idle \/ x.pc \notin {"reusedFiles", "readAll"},
               runs' = [runs EXCEPT ![r] = x]
        PROVE  Reusing' = Reusing /\ AllRead' = AllRead
    <3>1. runs'[r] = x /\ \A q \in Runner : q # r => runs'[q] = runs[q]
      BY <2>1 DEF TypeOK
    <3> QED BY <2>1, <3>1, NoOutcome
  <2>2. ASSUME runs[r] # Idle, runs[r].pc \notin {"reusedFiles", "readAll"},
               NEW pc \in Place \ {"reusedFiles", "readAll"}, Step(r, pc)
        PROVE  Reusing' = Reusing /\ AllRead' = AllRead
    <3>1. runs'[r].pc = pc /\ \A q \in Runner : q # r => runs'[q] = runs[q]
      BY <2>2, StepOfRun
    <3> QED BY <2>2, <3>1, NoOutcome
  <2>3. CASE Fire(r) \/ RunNow(r)
    <3>1. runs[r] = Idle /\ \E d : runs' = [runs EXCEPT ![r] = At(d, "fired")]
      BY <2>3 DEF Fire, RunNow
    <3>2. \A d : At(d, "fired").pc = "fired"
      BY DEF At
    <3> QED BY <2>1, <3>1, <3>2
  <2>4. CASE Skip(r) \/ Leave(r)
    BY <2>1, <2>4 DEF Skip, Leave, Is
  <2>5. CASE Claim(r) \/ Complete(r)
    BY <2>2, <2>5 DEF Claim, Complete, Is, Place
  <2> QED BY <2>3, <2>4, <2>5
<1> QED BY <1>1, <1>2, <1>3, QuietCount

LEMMA UserCounted ==
  ASSUME NEW M, TypeOK, CountInv(M), NEW s \in DOMAIN jobs, User(s)
  PROVE  CountInv(M)'
<1>1. UNCHANGED <<runs, reused, crashes>>
  BY DEF User, Edit, Enable, Disable, DeleteScheduledJob, Change, process
<1>2. Reusing' = Reusing /\ AllRead' = AllRead
  BY <1>1 DEF Reusing, AllRead, Is, SetOf
<1>3. \A u \in DOMAIN jobs' : u \in DOMAIN jobs /\ jobs'[u].count = jobs[u].count
  <2>1. jobs[s] \in Job
    BY DEF TypeOK
  <2>2. ASSUME NEW j, j.count = jobs[s].count, jobs' = [jobs EXCEPT ![s] = j]
        PROVE  \A u \in DOMAIN jobs' : u \in DOMAIN jobs /\ jobs'[u].count = jobs[u].count
    BY <2>2
  <2>3. CASE Edit(s)
    <3>1. PICK m \in Mode :
            jobs' = [jobs EXCEPT ![s] = [jobs[s] EXCEPT !.mode = m, !.nextRun = NextRun(now)]]
      BY <2>3 DEF Edit, Change
    <3>2. [jobs[s] EXCEPT !.mode = m, !.nextRun = NextRun(now)].count = jobs[s].count
      BY <2>1 DEF Job
    <3> QED BY <2>2, <3>1, <3>2
  <2>4. CASE Enable(s)
    <3>1. jobs' = [jobs EXCEPT ![s] = [jobs[s] EXCEPT !.enabled = TRUE, !.nextRun = NextRun(now)]]
      BY <2>4 DEF Enable, Change
    <3>2. [jobs[s] EXCEPT !.enabled = TRUE, !.nextRun = NextRun(now)].count = jobs[s].count
      BY <2>1 DEF Job
    <3> QED BY <2>2, <3>1, <3>2
  <2>5. CASE Disable(s)
    <3>1. jobs' = [jobs EXCEPT ![s] = [jobs[s] EXCEPT !.enabled = FALSE]]
      BY <2>5 DEF Disable, Change
    <3>2. [jobs[s] EXCEPT !.enabled = FALSE].count = jobs[s].count
      BY <2>1 DEF Job
    <3> QED BY <2>2, <3>1, <3>2
  <2>6. CASE DeleteScheduledJob(s)
    BY <2>6 DEF DeleteScheduledJob
  <2> QED BY <2>3, <2>4, <2>5, <2>6 DEF User
<1> QED BY <1>1, <1>2, <1>3, QuietCount


LEMMA ProgramCounted ==
  ASSUME NEW M, TypeOK, CountInv(M),
         Boot \/ HandleStartupRun \/ Check \/ Tick \/ Crash \/ UNCHANGED vars
  PROVE  CountInv(M)'
<1>1. CASE Crash
  <2>1. crashes' # 0
    BY <1>1 DEF Crash, TypeOK
  <2> QED BY <2>1 DEF CountInv
<1>2. CASE ~Crash
  <2>1. UNCHANGED <<runs, reused, crashes>>
    BY <1>2 DEF Boot, HandleStartupRun, Check, Tick, vars, process
  <2>2. Reusing' = Reusing /\ AllRead' = AllRead
    BY <2>1 DEF Reusing, AllRead, Is, SetOf
  <2>3. \A s \in DOMAIN jobs' : s \in DOMAIN jobs /\ jobs'[s].count = jobs[s].count
    <3>1. CASE jobs' = jobs
      BY <3>1
    <3>2. CASE Boot
      <4>1. \A s \in DOMAIN jobs : Repaired(jobs[s]).count = jobs[s].count
        <5>1. \A s \in DOMAIN jobs : jobs[s] \in Job
          BY DEF TypeOK
        <5> QED BY <5>1 DEF Repaired, Job
      <4> QED BY <3>2, <4>1 DEF Boot
    <3> QED BY <1>2, <3>1, <3>2 DEF HandleStartupRun, Check, Tick, vars, file
  <2> QED BY <2>1, <2>2, <2>3, QuietCount
<1> QED BY <1>1, <1>2

LEMMA StepKeepsCount ==
  ASSUME NEW M
  PROVE  TypeOK /\ ClaimInv /\ CountInv(M) /\ MetadataOnly(M) /\ [Next]_vars => CountInv(M)'
<1> SUFFICES ASSUME TypeOK, ClaimInv, CountInv(M), MetadataOnly(M), [Next]_vars PROVE CountInv(M)'
  OBVIOUS
<1>1. ASSUME NEW r \in Runner, Goroutine(r) \/ RunNow(r) PROVE CountInv(M)'
  BY <1>1, RunEndsCounted, OutcomeCounted, OtherMovesCounted DEF Goroutine
<1> QED BY <1>1, UserCounted, ProgramCounted DEF Next

LEMMA InitCount == ASSUME NEW M, Init PROVE CountInv(M) /\ ClaimInv
<1>1. Reusing = {} /\ AllRead = {}
  BY DEF Init, Reusing, AllRead, Is
<1>2. \A s \in DOMAIN jobs : s \in Set /\ jobs[s].count = 0
  <2>1. PICK m \in Mode, e \in BOOLEAN, t \in {Missing, NextRun(0)} :
          jobs = [s \in Set |-> [enabled |-> e, mode |-> m, nextRun |-> t, count |-> 0]]
    BY DEF Init
  <2> QED BY <2>1
<1>3. ClaimInv
  BY DEF Init, ClaimInv, Claims, OneRunPerSet, InBody
<1> QED BY <1>1, <1>2, <1>3 DEF Init, CountInv

\* A set's count, where its run's outcome is not on its way to the file.
CountIsTrueOf(s) ==
  /\ crashes = 0 /\ s \in DOMAIN jobs
  /\ \A r \in Runner : InBody(r) /\ SetOf(r) = s =>
       runs[r].pc \in {"running", "failed", "recorded", "completed"}
  => jobs[s].count = reused[s]

LEMMA CountOfInv ==
  ASSUME NEW M, CountInv(M), NEW s \in M \cap Set
  PROVE  CountIsTrueOf(s)
<1> SUFFICES ASSUME crashes = 0, s \in DOMAIN jobs,
                    \A r \in Runner : InBody(r) /\ SetOf(r) = s =>
                      runs[r].pc \in {"running", "failed", "recorded", "completed"}
             PROVE  jobs[s].count = reused[s]
  BY DEF CountIsTrueOf
<1>1. s \notin Reusing \cup AllRead
  BY DEF Reusing, AllRead, Is, InBody
<1> QED BY <1>1 DEF CountInv

\* While a set stays in metadata mode its full-read count is, once its run's
\* outcome is stored, the number of its runs that reused files since its last full
\* read, whatever failed, was skipped, edited or deleted meanwhile and in whichever
\* mode the other sets run (recordChangeDetectionOutcome, nextFullReadCount).  A
\* run whose set leaves metadata mode under way stores another count, a crash
\* before the store none.
THEOREM CountOfASetIsTrue ==
  ASSUME NEW s \in Set
  PROVE  Spec /\ []MetadataOnly({s}) => []CountIsTrueOf(s)
<1>1. Init => CountInv({s}) /\ ClaimInv
  BY InitCount
<1>2. ClaimInv /\ [Next]_vars => ClaimInv'
  BY StepKeepsClaims
<1>3. TypeOK /\ ClaimInv /\ CountInv({s}) /\ MetadataOnly({s}) /\ [Next]_vars => CountInv({s})'
  BY StepKeepsCount
<1>4. CountInv({s}) => CountIsTrueOf(s)
  BY CountOfInv
<1> QED BY <1>1, <1>2, <1>3, <1>4, TypeCorrect, PTL DEF Spec

\* The same of all sets at once, as the run states it.
THEOREM CountsAreTrue == Spec /\ []MetadataOnly(Set) => []CountIsTrue
<1>1. Init => CountInv(Set) /\ ClaimInv
  BY InitCount
<1>2. ClaimInv /\ [Next]_vars => ClaimInv'
  BY StepKeepsClaims
<1>3. TypeOK /\ ClaimInv /\ CountInv(Set) /\ MetadataOnly(Set) /\ [Next]_vars => CountInv(Set)'
  BY StepKeepsCount
<1>4. CountInv(Set) /\ TypeOK => CountIsTrue
  <2> SUFFICES ASSUME CountInv(Set), TypeOK, NEW s \in DOMAIN jobs PROVE CountIsTrueOf(s)
    BY DEF CountIsTrue, CountIsTrueOf
  <2>1. s \in Set
    BY DEF TypeOK
  <2> QED BY <2>1, CountOfInv
<1> QED BY <1>1, <1>2, <1>3, <1>4, TypeCorrect, PTL DEF Spec

-----------------------------------------------------------------------------
(* No claim is left behind.  Together with OneRunPerSet: a set is in          *)
(* runningJobs exactly while one run of it is under way.                      *)

\* A set in runningJobs has a run under way, whose end gives it back.
ClaimsAreHeld == \A s \in runningJobs : \E r \in Runner : InBody(r) /\ SetOf(r) = s

\* Runs that go on, each with its set, hold what they held.
LEMMA GoingOnHolds ==
  ASSUME ClaimsAreHeld, NEW gone, runningJobs' \subseteq runningJobs,
         gone \notin runningJobs',
         \A r \in Runner : InBody(r) =>
           (InBody(r)' /\ SetOf(r)' = SetOf(r)) \/ SetOf(r) = gone
  PROVE  ClaimsAreHeld'
BY DEF ClaimsAreHeld

\* A goroutine that has started moves on inside its run.
LEMMA MoveHolds ==
  ASSUME TypeOK, NEW r \in Runner, runs[r] # Idle, NEW pc \in Place, pc # "fired", Step(r, pc)
  PROVE  /\ InBody(r)' /\ SetOf(r)' = SetOf(r)
         /\ \A q \in Runner : InBody(q) => InBody(q)' /\ SetOf(q)' = SetOf(q)
<1>1. /\ runs'[r] # Idle /\ runs'[r].pc = pc /\ runs'[r].start = runs[r].start
      /\ \A q \in Runner : q # r => runs'[q] = runs[q]
  BY StepOfRun
<1> QED BY <1>1 DEF InBody, SetOf

\* A goroutine that is not in its run takes a new start, or returns.
LEMMA OutsideHolds ==
  ASSUME TypeOK, ClaimsAreHeld, NEW r \in Runner, ~InBody(r), NEW x,
         runs' = [runs EXCEPT ![r] = x], runningJobs' = runningJobs
  PROVE  ClaimsAreHeld'
<1>1. \A q \in Runner : q # r => runs'[q] = runs[q]
  BY DEF TypeOK
<1>2. \A q \in Runner : InBody(q) => InBody(q)' /\ SetOf(q)' = SetOf(q)
  BY <1>1 DEF InBody, SetOf
<1> QED BY <1>2 DEF ClaimsAreHeld

LEMMA RunHolds ==
  ASSUME TypeOK, ClaimsAreHeld, NEW r \in Runner, Goroutine(r) \/ RunNow(r)
  PROVE  ClaimsAreHeld'
<1>1. CASE Fire(r)
  <2>1. PICK d \in due : runs' = [runs EXCEPT ![r] = At(d, "fired")]
    BY <1>1 DEF Fire
  <2>2. ~InBody(r) /\ runningJobs' = runningJobs
    BY <1>1 DEF Fire, InBody
  <2> QED BY <2>1, <2>2, OutsideHolds
<1>2. CASE RunNow(r)
  <2>1. PICK d : runs' = [runs EXCEPT ![r] = At(d, "fired")]
    BY <1>2 DEF RunNow
  <2>2. ~InBody(r) /\ runningJobs' = runningJobs
    BY <1>2 DEF RunNow, InBody
  <2> QED BY <2>1, <2>2, OutsideHolds
<1>3. CASE Skip(r)
  <2>1. ~InBody(r) /\ runningJobs' = runningJobs /\ runs' = [runs EXCEPT ![r] = Idle]
    BY <1>3 DEF Skip, Is, InBody
  <2> QED BY <2>1, OutsideHolds
<1>4. CASE Claim(r)
  <2>1. /\ runs[r] # Idle /\ Step(r, "running") /\ "running" \in Place
        /\ runningJobs' = runningJobs \cup {SetOf(r)}
    BY <1>4 DEF Claim, Is, Place
  <2>2. /\ InBody(r)' /\ SetOf(r)' = SetOf(r)
        /\ \A q \in Runner : InBody(q) => InBody(q)' /\ SetOf(q)' = SetOf(q)
    BY <2>1, MoveHolds
  <2> QED BY <2>1, <2>2 DEF ClaimsAreHeld
<1>5. CASE RunEnds(r) \/ RecordOutcome(r) \/ Complete(r)
  <2>1. /\ runs[r] # Idle /\ runningJobs' = runningJobs
        /\ \E pc \in Place : pc # "fired" /\ Step(r, pc)
    BY <1>5 DEF RunEnds, RecordOutcome, Complete, Is, Place
  <2>2. \A q \in Runner : InBody(q) => InBody(q)' /\ SetOf(q)' = SetOf(q)
    BY <2>1, MoveHolds
  <2> QED BY <2>1, <2>2 DEF ClaimsAreHeld
<1>6. CASE Leave(r)
  <2>1. runs' = [runs EXCEPT ![r] = Idle] /\ runningJobs' = runningJobs \ {SetOf(r)}
    BY <1>6 DEF Leave
  <2>2. \A q \in Runner : q # r => runs'[q] = runs[q]
    BY <2>1 DEF TypeOK
  <2>3. \A q \in Runner : InBody(q) =>
          (InBody(q)' /\ SetOf(q)' = SetOf(q)) \/ SetOf(q) = SetOf(r)
    BY <2>2 DEF InBody, SetOf
  <2> DEFINE gone == SetOf(r)
  <2>4. runningJobs' \subseteq runningJobs /\ gone \notin runningJobs'
    BY <2>1
  <2> HIDE DEF gone
  <2>5. \A q \in Runner : InBody(q) =>
          (InBody(q)' /\ SetOf(q)' = SetOf(q)) \/ SetOf(q) = gone
    BY <2>3 DEF gone
  <2> QED BY <2>4, <2>5, GoingOnHolds
<1> QED BY <1>1, <1>2, <1>3, <1>4, <1>5, <1>6 DEF Goroutine

\* A set that has run can run again: whichever way its run ends, refused
\* starts and crashes in between, its claim does not stay (the deferred delete
\* from runningJobs, which is registered after the refusal).
THEOREM NoClaimLeaks == Spec => []ClaimsAreHeld
<1>1. Init => ClaimsAreHeld
  BY DEF Init, ClaimsAreHeld
<1>2. ASSUME TypeOK, ClaimsAreHeld, [Next]_vars PROVE ClaimsAreHeld'
  <2>1. CASE UNCHANGED <<runs, runningJobs>>
    <3>1. \A r \in Runner : InBody(r) => InBody(r)' /\ SetOf(r)' = SetOf(r)
      BY <2>1 DEF InBody, SetOf
    <3> QED BY <1>2, <2>1, <3>1 DEF ClaimsAreHeld
  <2>2. CASE Boot \/ HandleStartupRun \/ Check \/ Tick \/ UNCHANGED vars
    BY <2>1, <2>2 DEF Boot, HandleStartupRun, Check, Tick, process, vars
  <2>3. ASSUME NEW s \in DOMAIN jobs, User(s) PROVE ClaimsAreHeld'
    BY <2>1, <2>3
    DEF User, Edit, Enable, Disable, DeleteScheduledJob, Change, process
  <2>4. CASE Crash
    BY <2>4 DEF Crash, ClaimsAreHeld
  <2> QED BY <1>2, <2>2, <2>3, <2>4, RunHolds DEF Next
<1>3. TypeOK /\ ClaimsAreHeld /\ [Next]_vars => ClaimsAreHeld'
  BY <1>2
<1> QED BY <1>1, <1>3, TypeCorrect, PTL DEF Spec
===============================================================================
