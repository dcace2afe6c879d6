------------------------------ MODULE SetProofs -----------------------------
(***************************************************************************)
(* The Backup Sets' file, and a set's runs and roll backs keeping out of   *)
(* each other's way: for any number of sets, goroutines and changes.       *)
(*                                                                         *)
(* While no import and other change are under way together, no change of   *)
(* the file is lost and no run undoes a user's edit.  The strengthening is *)
(* the discipline of jobsFileMu: one change at most is under way, its      *)
(* writer holds the lock, and the list it read is the list the file still  *)
(* holds; so each save is one step of the file.  No roll back leaves its   *)
(* hold behind, in one process runs and roll backs of a set do not         *)
(* overlap, and a backup that was asked for first has ended well.          *)
(***************************************************************************)
EXTENDS JobsFile, RollbackHold, TLAPS

-----------------------------------------------------------------------------
(* No change of the file is lost *)

Process == Writer \cup Importer

Discipline ==
  /\ DOMAIN work = Process
  /\ overlapped \in BOOLEAN
  /\ \A w \in Writer : work[w] # Idle => lock = w
  /\ ~overlapped => \A w \in Process : work[w] # Idle =>
       /\ work[w].copy = jobs
       /\ \A v \in Process : v # w => work[v] = Idle

JobsInv == OneAtATime /\ Discipline

\* A change begins with the file's list, alone unless it overlaps.
LEMMA BeginKeeps ==
  ASSUME JobsInv, NEW w \in Process, NEW c, Begin(w, c),
         \/ w \in Writer /\ Mutex(w)
         \/ w \in Importer /\ UNCHANGED lock
  PROVE  JobsInv'
<1>1. jobs' = jobs /\ owed' = owed /\ overlapped' = (overlapped \/ Overlaps(w))
  BY DEF Begin
<1>2. PICK list \in Reads(jobs) :
        work' = [work EXCEPT ![w] = [change |-> c, copy |-> list, at |-> changes']]
  BY DEF Begin
<1>3. work' = [work EXCEPT ![w] = [change |-> c, copy |-> jobs, at |-> changes']]
  BY <1>2 DEF Reads
<1>4. DOMAIN work' = Process /\ work'[w].copy = jobs
      /\ \A v \in Process : v # w => work'[v] = work[v]
  BY <1>3 DEF JobsInv, Discipline
<1>5. ASSUME NEW v \in Writer, work'[v] # Idle PROVE lock' = v
  <2>1. CASE v = w
    BY <2>1, ImporterAssumption DEF Mutex
  <2>2. CASE v # w
    <3>1. lock = v
      BY <1>4, <1>5, <2>2 DEF JobsInv, Discipline, Process
    <3> QED BY <3>1, NobodyAssumption DEF Mutex
  <2> QED BY <2>1, <2>2
<1>6. ASSUME ~overlapped', NEW v \in Process, v # w PROVE work[v] = Idle
  <2>1. ~Overlaps(w)
    BY <1>1, <1>6
  <2>2. CASE {v, w} \cap Importer # {}
    BY <2>1, <2>2, <1>6 DEF Overlaps, JobsInv, Discipline
  <2>3. CASE {v, w} \cap Importer = {}
    <3>1. v \in Writer /\ lock = Nobody
      BY <2>3 DEF Process, Mutex
    <3> QED BY <3>1, NobodyAssumption DEF JobsInv, Discipline
  <2> QED BY <2>2, <2>3
<1>7. ASSUME ~overlapped', NEW u \in Process, work'[u] # Idle
      PROVE  work'[u].copy = jobs' /\ \A v \in Process : v # u => work'[v] = Idle
  BY <1>1, <1>4, <1>6, <1>7
<1>8. overlapped' \in BOOLEAN
  BY <1>1
<1> QED BY <1>1, <1>4, <1>5, <1>7, <1>8 DEF JobsInv, OneAtATime, Discipline

\* Its save applies its change to the very list the file holds.
LEMMA SaveKeeps ==
  ASSUME JobsInv, NEW w \in Process, Save(w)
  PROVE  JobsInv'
<1>1. work[w] # Idle /\ work' = [work EXCEPT ![w] = Idle] /\ overlapped' = overlapped
  BY DEF Save
<1>2. DOMAIN work' = Process /\ work'[w] = Idle
      /\ \A v \in Process : v # w => work'[v] = work[v]
  BY <1>1 DEF JobsInv, Discipline
<1>3. ASSUME NEW v \in Writer, work'[v] # Idle PROVE lock' = v
  <2>1. v # w /\ lock = v
    BY <1>2, <1>3 DEF JobsInv, Discipline, Process
  <2> QED BY <2>1 DEF Save, Unlock
<1>4. CASE ~overlapped
  <2>1. work[w].copy = jobs /\ jobs = owed /\ \A v \in Process : v # w => work[v] = Idle
    BY <1>1, <1>4 DEF JobsInv, Discipline, OneAtATime
  <2>2. jobs' = owed'
    BY <2>1 DEF Save
  <2>3. \A v \in Process : work'[v] = Idle
    BY <1>2, <2>1
  <2> QED BY <1>1, <1>2, <1>3, <2>2, <2>3 DEF JobsInv, OneAtATime, Discipline
<1>5. CASE overlapped
  BY <1>1, <1>2, <1>3, <1>5 DEF JobsInv, OneAtATime, Discipline
<1> QED BY <1>4, <1>5

\* A process that ends drops its changes and leaves the file as it is.
LEMMA CrashKeeps == ASSUME JobsInv, Crash PROVE JobsInv'
  BY DEF Crash, JobsInv, Discipline, OneAtATime, Process

LEMMA StepKeeps == JobsInv /\ [Next]_vars => JobsInv'
<1> SUFFICES ASSUME JobsInv, [Next]_vars PROVE JobsInv'
  OBVIOUS
<1>1. CASE UNCHANGED vars
  BY <1>1 DEF vars, JobsInv, Discipline, OneAtATime
<1>2. ASSUME NEW w \in Writer, BeginEdit(w) \/ BeginRunChange(w) PROVE JobsInv'
  BY <1>2, BeginKeeps DEF BeginEdit, BeginRunChange, Process
<1>3. ASSUME NEW w \in Importer, BeginImport(w) PROVE JobsInv'
  BY <1>3, BeginKeeps DEF BeginImport, Process
<1>4. ASSUME NEW w \in Process, Save(w) PROVE JobsInv'
  BY <1>4, SaveKeeps
<1>5. CASE Crash
  BY <1>5, CrashKeeps
<1> QED BY <1>1, <1>2, <1>3, <1>4, <1>5 DEF Next, Process

\* scheduler.go:254-258: while no import and other change are under way
\* together, no save of the Backup Sets' file undoes another.
THEOREM NoChangeLost == Spec => []OneAtATime
<1>1. Init => JobsInv
  BY DEF Init, JobsInv, Discipline, OneAtATime, Process
<1>2. JobsInv => OneAtATime
  BY DEF JobsInv
<1> QED BY <1>1, <1>2, StepKeeps, PTL DEF Spec

-----------------------------------------------------------------------------
(* What a change leaves of the user's part of a set *)

\* The lists of jobs whose run times and counts are n at most.
JobUpTo(n) == [settings : Setting, enabled : BOOLEAN, lastRun : 0..n, count : 0..n]
FileUpTo(n) == UNION {[D -> JobUpTo(n)] : D \in SUBSET Set}
AnyChange == Edit \cup RunChange \cup Import

\* No run time and no count is ahead of the changes: a list that was read stays
\* behind its own change, and owed behind the one writer there can be.
FileInv ==
  /\ changes \in 0..MaxChanges /\ lock \in Writer \cup {Nobody}
  /\ jobs \in FileUpTo(changes) /\ owed \in FileUpTo(changes)
  /\ DOMAIN work = Process
  /\ \A w \in Process : work[w] # Idle =>
       /\ work[w].at \in 1..changes /\ work[w].copy \in FileUpTo(work[w].at - 1)
       /\ \/ w \in Importer /\ work[w].change \in Import
          \/ w \in Writer /\ work[w].change \in Edit \cup RunChange
  /\ \A w \in Writer : work[w] # Idle => owed \in FileUpTo(changes - 1)
  /\ \A v, w \in Process :
       v # w /\ work[v] # Idle /\ work[w] # Idle => work[v].at # work[w].at

LEMMA FileJobs ==
  ASSUME NEW n, NEW list \in FileUpTo(n)
  PROVE  DOMAIN list \subseteq Set /\ \A s \in DOMAIN list : list[s] \in JobUpTo(n)
  BY DEF FileUpTo

LEMMA MoreFiles ==
  ASSUME NEW m \in Nat, NEW n \in Nat, m <= n, NEW list \in FileUpTo(m)
  PROVE  list \in FileUpTo(n)
<1>1. JobUpTo(m) \subseteq JobUpTo(n)
  BY DEF JobUpTo
<1>2. PICK D \in SUBSET Set : list \in [D -> JobUpTo(m)]
  BY DEF FileUpTo
<1>3. list \in [D -> JobUpTo(n)]
  BY <1>1, <1>2
<1> QED BY <1>3 DEF FileUpTo

\* Replacing a job of the list keeps it a list of jobs.
LEMMA PutType ==
  ASSUME NEW n, NEW list \in FileUpTo(n), NEW s \in Set, NEW j \in JobUpTo(n)
  PROVE  Put(list, s, j) \in FileUpTo(n)
<1>1. PICK D \in SUBSET Set : list \in [D -> JobUpTo(n)]
  BY DEF FileUpTo
<1>2. Put(list, s, j) \in [D \cup {s} -> JobUpTo(n)]
  BY <1>1 DEF Put
<1> QED BY <1>2 DEF FileUpTo

LEMMA ExceptType ==
  ASSUME NEW n, NEW list \in FileUpTo(n), NEW s \in DOMAIN list, NEW j \in JobUpTo(n)
  PROVE  [list EXCEPT ![s] = j] \in FileUpTo(n)
<1>1. PICK D \in SUBSET Set : list \in [D -> JobUpTo(n)]
  BY DEF FileUpTo
<1> QED BY <1>1 DEF FileUpTo

LEMMA MergeType ==
  ASSUME NEW n \in Nat, n >= 1, NEW list \in FileUpTo(n), NEW c \in Import
  PROVE  Merge(list, c) \in FileUpTo(n)
<1>1. PICK D \in SUBSET Set : c.bundle \in [D -> Exported]
  BY DEF Import
<1>2. \A s \in DOMAIN list : list[s] \in JobUpTo(n)
  BY FileJobs
<1>3. ASSUME NEW s \in D PROVE Imported(list, c, s) \in JobUpTo(n)
  <2>1. c.bundle[s] \in JobUpTo(n)
    BY <1>1 DEF Exported, JobUpTo
  <2> QED BY <1>2, <2>1 DEF Imported, JobUpTo
<1>4. Merge(list, c) \in [D \cup DOMAIN list -> JobUpTo(n)]
  BY <1>1, <1>2, <1>3 DEF Merge
<1> QED BY <1>4, FileJobs DEF FileUpTo

\* Whatever a change makes of a list of jobs is a list of jobs, one up at most.
LEMMA AppliedType ==
  ASSUME NEW n \in Nat, NEW file \in FileUpTo(n), NEW c \in AnyChange,
         NEW at \in 1..n + 1, ~Refuses(c, file)
  PROVE  Applied(c, file, at) \in FileUpTo(n + 1)
<1>0. file \in FileUpTo(n + 1)
  BY MoreFiles
<1> USE DEF Applied, Refuses
<1>1. CASE c.op = "save"
  <2>1. c.set \in Set /\ NewJob(c.settings) \in JobUpTo(n + 1)
    BY <1>1 DEF AnyChange, Edit, RunChange, Import, NewJob, JobUpTo
  <2> QED BY <1>0, <1>1, <2>1, PutType
<1>2. CASE c.op = "delete"
  <2>1. [s \in DOMAIN file \ {c.set} |-> file[s]]
          \in [DOMAIN file \ {c.set} -> JobUpTo(n + 1)]
    BY <1>0, FileJobs
  <2> QED BY <1>2, <2>1, FileJobs DEF FileUpTo
<1>3. CASE c.op \in {"import", "deploy"}
  <2>1. c \in Import
    BY <1>3 DEF AnyChange, Edit, RunChange
  <2> QED BY <1>0, <1>3, <2>1, MergeType
<1>4. CASE c.op \notin {"save", "delete", "repair", "import", "deploy"}
  <2>1. c.set \in DOMAIN file /\ file[c.set] \in JobUpTo(n)
    BY <1>4, FileJobs DEF AnyChange, Edit, RunChange
  <2> DEFINE j == file[c.set]
  <2>2. CASE c.op = "update"
    <3>1. c.settings \in Setting
      BY <2>2 DEF AnyChange, Edit, RunChange, Import
    <3>2. [j EXCEPT !.settings = c.settings] \in JobUpTo(n + 1)
      BY <2>1, <3>1 DEF JobUpTo
    <3> QED BY <1>0, <2>1, <2>2, <3>2, ExceptType
  <2>3. CASE c.op \in {"enable", "disable"}
    <3>1. \A b \in BOOLEAN : [j EXCEPT !.enabled = b] \in JobUpTo(n + 1)
      BY <2>1 DEF JobUpTo
    <3>2. (c.op = "enable") \in BOOLEAN
      OBVIOUS
    <3> QED BY <1>0, <2>1, <2>3, <3>1, <3>2, ExceptType
  <2>4. CASE c.op = "complete"
    <3>1. [j EXCEPT !.lastRun = at] \in JobUpTo(n + 1)
      BY <2>1 DEF JobUpTo
    <3> QED BY <1>0, <2>1, <2>4, <3>1, ExceptType DEF Complete
  <2>5. CASE c.op = "reused"
    <3>1. [j EXCEPT !.count = j.count + 1] \in JobUpTo(n + 1)
      BY <2>1 DEF JobUpTo
    <3> QED BY <1>0, <2>1, <2>5, <3>1, ExceptType DEF Count
  <2>6. CASE c.op = "fullRead"
    <3>1. [j EXCEPT !.count = 0] \in JobUpTo(n + 1)
      BY <2>1 DEF JobUpTo
    <3> QED BY <1>0, <2>1, <2>6, <3>1, ExceptType DEF Count
  <2>7. CASE c.op = "moveDisks"
    <3>1. c.found \in Setting
      BY <2>7 DEF AnyChange, Edit, RunChange, Import
    <3>2. [j EXCEPT !.settings = c.found] \in JobUpTo(n + 1)
      BY <2>1, <3>1 DEF JobUpTo
    <3> QED BY <1>0, <2>1, <2>7, <3>2, ExceptType
  <2> QED BY <1>4, <2>2, <2>3, <2>4, <2>5, <2>6, <2>7
        DEF AnyChange, Edit, RunChange, Import
<1>5. CASE c.op = "repair"
  BY <1>0, <1>5
<1> QED BY <1>1, <1>2, <1>3, <1>4, <1>5

\* The user's part of a set is its presence, its settings and its enabled flag.
LEMMA SameUserPart ==
  ASSUME NEW f, NEW g, NEW s, s \in DOMAIN f <=> s \in DOMAIN g,
         s \in DOMAIN f => f[s].settings = g[s].settings /\ f[s].enabled = g[s].enabled
  PROVE  UserPart(f, s) = UserPart(g, s)
  BY DEF UserPart

\* A change of the list the file holds changes what is its to change.
LEMMA AppliedKeeps ==
  ASSUME NEW n, jobs \in FileUpTo(n), NEW c \in AnyChange, NEW at, ~Refuses(c, jobs),
         jobs' = Applied(c, jobs, at), NEW s \in Set
  PROVE  UserPart(jobs', s) = UserPart(jobs, s) \/ MayChange(c, s)
<1>1. CASE c \in Edit
  <2>1. CASE c.set = s
    BY <1>1, <2>1 DEF MayChange
  <2>2. CASE c.set # s
    <3>1. /\ s \in DOMAIN jobs' <=> s \in DOMAIN jobs
          /\ s \in DOMAIN jobs => jobs'[s] = jobs[s]
      BY <1>1, <2>2 DEF Applied, Edit, Put
    <3> QED BY <3>1, SameUserPart
  <2> QED BY <2>1, <2>2
<1>2. CASE c.op \in {"complete", "reused", "fullRead"}
  <2>1. c.set \in DOMAIN jobs /\ jobs[c.set] \in JobUpTo(n)
    BY <1>2, FileJobs DEF Refuses
  <2>2. PICK j : /\ jobs' = [jobs EXCEPT ![c.set] = j]
                 /\ j.settings = jobs[c.set].settings /\ j.enabled = jobs[c.set].enabled
    <3>1. CASE c.op = "complete"
      <4> WITNESS [jobs[c.set] EXCEPT !.lastRun = at]
      <4> QED BY <2>1, <3>1 DEF Applied, Complete, JobUpTo
    <3>2. CASE c.op = "reused"
      <4> WITNESS [jobs[c.set] EXCEPT !.count = jobs[c.set].count + 1]
      <4> QED BY <2>1, <3>2 DEF Applied, Count, JobUpTo
    <3>3. CASE c.op = "fullRead"
      <4> WITNESS [jobs[c.set] EXCEPT !.count = 0]
      <4> QED BY <2>1, <3>3 DEF Applied, Count, JobUpTo
    <3> QED BY <1>2, <3>1, <3>2, <3>3
  <2>3. /\ DOMAIN jobs' = DOMAIN jobs
        /\ \A t \in DOMAIN jobs : jobs'[t].settings = jobs[t].settings
                                  /\ jobs'[t].enabled = jobs[t].enabled
    BY <2>2
  <2> QED BY <2>3, SameUserPart
<1>3. CASE c.op = "moveDisks"
  <2>1. /\ c.set \in DOMAIN jobs /\ jobs[c.set].settings = c.saved
        /\ \E j : jobs' = [jobs EXCEPT ![c.set] = j]
    BY <1>3 DEF Refuses, Applied
  <2>2. CASE c.set = s
    BY <1>3, <2>1, <2>2 DEF MayChange
  <2>3. CASE c.set # s
    <3>1. DOMAIN jobs' = DOMAIN jobs /\ (s \in DOMAIN jobs => jobs'[s] = jobs[s])
      BY <2>1, <2>3
    <3> QED BY <3>1, SameUserPart
  <2> QED BY <2>2, <2>3
<1>4. CASE c \in Import
  <2>1. jobs' = Merge(jobs, c)
    BY <1>4 DEF Import, Applied
  <2>2. CASE s \in DOMAIN c.bundle
    <3>1. s \in DOMAIN jobs'
      BY <2>1, <2>2 DEF Merge
    <3>2. ASSUME s \in DOMAIN jobs PROVE jobs'[s].enabled = jobs[s].enabled
      <4>1. jobs'[s] = Imported(jobs, c, s)
        BY <2>1, <2>2 DEF Merge
      <4>2. PICK D \in SUBSET Set : c.bundle \in [D -> Exported]
        BY <1>4 DEF Import
      <4>3. c.bundle[s] \in Exported /\ jobs[s] \in JobUpTo(n)
        BY <2>2, <3>2, <4>2, FileJobs
      <4> QED BY <3>2, <4>1, <4>3 DEF Imported, Exported, JobUpTo
    <3> QED BY <1>4, <2>2, <3>1, <3>2 DEF MayChange
  <2>3. CASE s \notin DOMAIN c.bundle
    <3>1. /\ s \in DOMAIN jobs' <=> s \in DOMAIN jobs
          /\ s \in DOMAIN jobs => jobs'[s] = jobs[s]
      BY <2>1, <2>3 DEF Merge
    <3> QED BY <3>1, SameUserPart
  <2> QED BY <2>2, <2>3
<1>5. CASE c.op = "repair"
  BY <1>5 DEF Applied
<1> QED BY <1>1, <1>2, <1>3, <1>4, <1>5 DEF AnyChange, RunChange

\* A change begins after every other, with the list as it is.
LEMMA BeginKeepsFile ==
  ASSUME FileInv, Discipline, NEW w \in Process, NEW c, Begin(w, c),
         \/ w \in Writer /\ c \in Edit \cup RunChange /\ Mutex(w)
         \/ w \in Importer /\ c \in Import /\ UNCHANGED lock
  PROVE  FileInv'
<1>1. /\ changes \in Nat /\ changes' = changes + 1 /\ changes' \in 0..MaxChanges
      /\ jobs' = jobs /\ owed' = owed
  BY MaxChangesAssumption DEF Begin, FileInv
<1>2. work' = [work EXCEPT ![w] = [change |-> c, copy |-> jobs, at |-> changes']]
  BY DEF Begin, Reads
<1>3. /\ DOMAIN work' = Process /\ work'[w].at = changes' /\ work'[w].copy = jobs
      /\ work'[w].change = c
      /\ \A v \in Process : v # w => work'[v] = work[v]
  BY <1>2 DEF FileInv
<1>4. lock' \in Writer \cup {Nobody}
  BY DEF Mutex, FileInv
<1>5. jobs' \in FileUpTo(changes') /\ owed' \in FileUpTo(changes')
  BY <1>1, MoreFiles DEF FileInv
<1>6. ASSUME NEW v \in Process, work'[v] # Idle
      PROVE  /\ work'[v].at \in 1..changes' /\ work'[v].copy \in FileUpTo(work'[v].at - 1)
             /\ \/ v \in Importer /\ work'[v].change \in Import
                \/ v \in Writer /\ work'[v].change \in Edit \cup RunChange
  <2>1. CASE v = w
    <3>1. changes' \in 1..changes' /\ changes' - 1 = changes
      BY <1>1
    <3> QED BY <1>3, <2>1, <3>1 DEF FileInv
  <2>2. CASE v # w
    <3>1. work[v].at \in 1..changes /\ work[v].copy \in FileUpTo(work[v].at - 1)
      BY <1>3, <1>6, <2>2 DEF FileInv
    <3>2. work'[v].at \in 1..changes'
      BY <1>1, <1>3, <2>2, <3>1
    <3> QED BY <1>3, <1>6, <2>2, <3>1, <3>2 DEF FileInv
  <2> QED BY <2>1, <2>2
<1>7. ASSUME NEW v \in Writer PROVE owed' \in FileUpTo(changes' - 1)
  <2>1. changes' - 1 = changes
    BY <1>1
  <2> QED BY <1>1, <2>1 DEF FileInv
<1>8. ASSUME NEW u \in Process, NEW v \in Process, u # v, work'[u] # Idle, work'[v] # Idle
      PROVE  work'[u].at # work'[v].at
  <2>1. \A x \in Process : x # w /\ work'[x] # Idle => work'[x].at \in 1..changes
    BY <1>3 DEF FileInv
  <2>2. changes' \notin 1..changes
    BY <1>1
  <2> QED BY <1>3, <1>8, <2>1, <2>2 DEF FileInv
<1> QED BY <1>1, <1>3, <1>4, <1>5, <1>6, <1>7, <1>8 DEF FileInv

\* A save is no further than its change.
LEMMA SaveKeepsFile ==
  ASSUME FileInv, Discipline, NEW w \in Process, Save(w)
  PROVE  FileInv'
<1> DEFINE x == work[w]
<1>1. /\ changes' = changes /\ changes \in Nat /\ work[w] # Idle
      /\ x.at \in 1..changes /\ x.copy \in FileUpTo(x.at - 1) /\ x.change \in AnyChange
  BY DEF Save, FileInv, AnyChange
<1>2. /\ DOMAIN work' = Process /\ work'[w] = Idle
      /\ \A v \in Process : v # w => work'[v] = work[v]
  BY DEF Save, FileInv
<1>3. lock' \in Writer \cup {Nobody}
  BY DEF Save, Unlock, FileInv
<1>4. jobs' \in FileUpTo(changes)
  <2>1. ASSUME ~Refuses(x.change, x.copy)
        PROVE  Applied(x.change, x.copy, x.at) \in FileUpTo(changes)
    <3>1. x.at - 1 \in Nat /\ x.at \in 1..(x.at - 1) + 1 /\ (x.at - 1) + 1 = x.at
          /\ x.at \in Nat /\ x.at <= changes
      BY <1>1
    <3>2. Applied(x.change, x.copy, x.at) \in FileUpTo(x.at)
      BY <1>1, <2>1, <3>1, AppliedType
    <3> QED BY <1>1, <3>1, <3>2, MoreFiles
  <2> QED BY <2>1 DEF Save, FileInv
<1>5. owed' = owed \/ (~Refuses(x.change, owed) /\ owed' = Applied(x.change, owed, x.at))
  BY DEF Save
<1>6. CASE w \in Writer
  <2>1. owed \in FileUpTo(changes - 1) /\ changes - 1 \in Nat
        /\ (changes - 1) + 1 = changes
    BY <1>1, <1>6 DEF FileInv
  <2>2. owed' \in FileUpTo(changes)
    BY <1>1, <1>5, <2>1, AppliedType DEF FileInv
  <2>3. \A v \in Writer : work'[v] = Idle
    BY <1>1, <1>2, <1>6 DEF Discipline, Process
  <2> QED BY <1>1, <1>2, <1>3, <1>4, <2>2, <2>3 DEF FileInv
<1>7. CASE w \in Importer
  <2>1. x.change \in Import
    BY <1>1, <1>7, ImporterAssumption DEF FileInv
  <2>2. Applied(x.change, owed, x.at) = Merge(owed, x.change)
    BY <2>1 DEF Applied, Import
  <2>3. ASSUME NEW n \in Nat, n >= 1, owed \in FileUpTo(n) PROVE owed' \in FileUpTo(n)
    BY <1>5, <2>1, <2>2, <2>3, MergeType
  <2>4. owed' \in FileUpTo(changes)
    BY <1>1, <2>3 DEF FileInv
  <2>5. ASSUME NEW v \in Writer, work'[v] # Idle PROVE owed' \in FileUpTo(changes - 1)
    <3>1. v \in Process /\ v # w /\ work[v] # Idle
      BY <1>2, <2>5 DEF Process
    <3>2. work[v].at \in 1..changes /\ work[v].at # x.at
      BY <1>1, <3>1 DEF FileInv
    <3>3. changes - 1 \in Nat /\ changes - 1 >= 1
      BY <1>1, <3>2
    <3> QED BY <2>3, <3>1, <3>3 DEF FileInv
  <2> QED BY <1>1, <1>2, <1>3, <1>4, <2>4, <2>5 DEF FileInv
<1> QED BY <1>6, <1>7 DEF Process

LEMMA FileStep == FileInv /\ Discipline /\ [Next]_vars => FileInv'
<1> SUFFICES ASSUME FileInv, Discipline, [Next]_vars PROVE FileInv'
  OBVIOUS
<1>1. CASE UNCHANGED vars
  BY <1>1 DEF vars, FileInv
<1>2. CASE Crash
  BY <1>2 DEF Crash, FileInv, Process
<1>3. ASSUME NEW w \in Writer, BeginEdit(w) \/ BeginRunChange(w) PROVE FileInv'
  BY <1>3, BeginKeepsFile DEF BeginEdit, BeginRunChange, Process
<1>4. ASSUME NEW w \in Importer, BeginImport(w) PROVE FileInv'
  BY <1>4, BeginKeepsFile DEF BeginImport, Process
<1> QED BY <1>1, <1>2, <1>3, <1>4, SaveKeepsFile DEF Next, Process

LEMMA InitFile == Init => FileInv /\ JobsInv
<1>1. ASSUME NEW D \in SUBSET Set, NEW v \in Setting
      PROVE  [s \in D |-> NewJob(v)] \in FileUpTo(0)
  BY DEF FileUpTo, JobUpTo, NewJob
<1>2. ASSUME Init
      PROVE  jobs \in FileUpTo(0) /\ owed \in FileUpTo(0) /\ changes \in 0..MaxChanges
  <2>1. PICK D \in SUBSET Set, v \in Setting : jobs = [s \in D |-> NewJob(v)]
    BY <1>2 DEF Init
  <2>2. owed = jobs /\ changes = 0
    BY <1>2 DEF Init
  <2>3. [s \in D |-> NewJob(v)] \in FileUpTo(0)
    BY <1>1
  <2>4. 0 \in 0..MaxChanges
    BY MaxChangesAssumption
  <2> QED BY <2>1, <2>2, <2>3, <2>4
<1>3. Init => JobsInv
  BY DEF Init, JobsInv, Discipline, OneAtATime, Process
<1> QED BY <1>2, <1>3 DEF Init, FileInv, Process

\* Whatever is edited, run, imported or lost in a crash, the file is a list of
\* sets, no count or run time of it ahead of the changes there have been.
THEOREM FileTypeCorrect == Spec => []TypeOK
<1>1. FileInv /\ JobsInv => TypeOK
  <2> SUFFICES ASSUME FileInv, JobsInv PROVE TypeOK
    OBVIOUS
  <2>2. File = FileUpTo(MaxChanges)
    BY DEF File, Job, FileUpTo, JobUpTo
  <2>3. changes \in Nat /\ MaxChanges \in Nat /\ changes <= MaxChanges
    BY MaxChangesAssumption DEF FileInv
  <2>4. jobs \in File /\ owed \in File
    BY <2>2, <2>3, MoreFiles DEF FileInv
  <2>5. ASSUME NEW w \in Process, work[w] # Idle PROVE work[w].copy \in File
    <3>1. work[w].at - 1 \in Nat /\ work[w].at - 1 <= MaxChanges
          /\ work[w].copy \in FileUpTo(work[w].at - 1)
      BY <2>3, <2>5 DEF FileInv
    <3> QED BY <2>2, <2>3, <3>1, MoreFiles
  <2> QED BY <2>4, <2>5 DEF TypeOK, FileInv, JobsInv, Discipline, Process
<1>2. (FileInv /\ JobsInv) /\ [Next]_vars => (FileInv /\ JobsInv)'
  BY StepKeeps, FileStep DEF JobsInv
<1> QED BY <1>1, <1>2, InitFile, PTL DEF Spec

\* Only Save ends a change and leaves the others under way or the file changed.
LEMMA EditsStep ==
  ASSUME JobsInv, FileInv, [Next]_vars, ~overlapped,
         NEW w \in Process, work[w] # Idle, work'[w] = Idle, NEW s \in Set
  PROVE  UserPart(jobs', s) = UserPart(jobs, s) \/ MayChange(work[w].change, s)
<1>1. CASE jobs' = jobs
  BY <1>1
<1>2. CASE jobs' # jobs
  <2>1. PICK v \in Process : Save(v)
    BY <1>2 DEF Next, vars, BeginEdit, BeginRunChange, BeginImport, Begin, Crash, Process
  <2>2. v = w
    BY <2>1 DEF Save, JobsInv, Discipline
  <2>3. work[w].copy = jobs
    BY DEF JobsInv, Discipline
  <2>4. ~Refuses(work[w].change, jobs)
        /\ jobs' = Applied(work[w].change, jobs, work[w].at)
    BY <1>2, <2>1, <2>2, <2>3 DEF Save
  <2>5. jobs \in FileUpTo(changes) /\ work[w].change \in AnyChange
    BY DEF FileInv, AnyChange
  <2> QED BY <2>4, <2>5, AppliedKeeps
<1> QED BY <1>1, <1>2

\* While no import and other change are under way together, a run that ends while
\* its set is edited, disabled or deleted never undoes that.
THEOREM EditsAreKept == Spec => EditsKept
<1>1. (JobsInv /\ FileInv) /\ [Next]_vars => (JobsInv /\ FileInv)'
  BY StepKeeps, FileStep DEF JobsInv
<1>2. (JobsInv /\ FileInv) /\ [Next]_vars =>
        [\A w \in Writer \cup Importer : (work[w] # Idle /\ work'[w] = Idle /\ ~overlapped) =>
           \A s \in Set :
             UserPart(jobs', s) = UserPart(jobs, s) \/ MayChange(work[w].change, s)]_vars
  BY EditsStep DEF Process
<1> QED BY <1>1, <1>2, InitFile, PTL DEF Spec, EditsKept

\* Whatever runs meanwhile, a save is one step of the file as it is: some change
\* under way is made of the list the file holds, not of the list it once read,
\* and is one that this list does not refuse.
ChangesAreAtomic ==
  [][~overlapped /\ jobs' # jobs =>
       \E w \in Writer \cup Importer :
         /\ work[w] # Idle /\ ~Refuses(work[w].change, jobs)
         /\ jobs' = Applied(work[w].change, jobs, work[w].at)]_vars

\* jobsFileMu (scheduler.go:254-258) makes a read-change-write of the Backup Sets'
\* file one step, for any number of goroutines, while no import and other change
\* are under way together: what whoever else reads the file may rely on.
THEOREM SavesAreAtomic == Spec => ChangesAreAtomic
<1>1. ASSUME JobsInv, [Next]_vars, ~overlapped, jobs' # jobs
      PROVE  \E w \in Writer \cup Importer :
               /\ work[w] # Idle /\ ~Refuses(work[w].change, jobs)
               /\ jobs' = Applied(work[w].change, jobs, work[w].at)
  <2>1. PICK w \in Process : Save(w)
    BY <1>1 DEF Next, vars, BeginEdit, BeginRunChange, BeginImport, Begin, Crash, Process
  <2>2. work[w] # Idle /\ work[w].copy = jobs
    BY <1>1, <2>1 DEF Save, JobsInv, Discipline
  <2>3. /\ ~Refuses(work[w].change, work[w].copy)
        /\ jobs' = Applied(work[w].change, work[w].copy, work[w].at)
    BY <1>1, <2>1 DEF Save
  <2> QED BY <2>2, <2>3 DEF Process
<1>2. JobsInv /\ [Next]_vars =>
        [~overlapped /\ jobs' # jobs =>
           \E w \in Writer \cup Importer :
             /\ work[w] # Idle /\ ~Refuses(work[w].change, jobs)
             /\ jobs' = Applied(work[w].change, jobs, work[w].at)]_vars
  BY <1>1
<1> QED BY <1>2, StepKeeps, InitFile, PTL DEF Spec, ChangesAreAtomic

-----------------------------------------------------------------------------
(* A set's runs and its roll backs *)

Shape == DOMAIN run = Runner /\ DOMAIN roll = Roller

\* A hold belongs to a call that will come to Finish or to Unhold.
HoldHasOwner == held => \E q \in Roller : roll[q].pc \in {"held", "queued", "restoring"}

Records == \A q \in Roller : DOMAIN roll[q] = {"pc", "first", "asked", "since"}

HoldInv == Shape /\ Records /\ HoldHasOwner

\* What a step that moves one call does to the others and to its own record.
LEMMA Moved ==
  ASSUME Shape, Records, NEW q \in Roller, NEW x, DOMAIN x = {"pc", "first", "asked", "since"},
         roll' = [roll EXCEPT ![q] = x]
  PROVE  /\ DOMAIN roll' = Roller /\ Records' /\ roll'[q] = x
         /\ \A p \in Roller : p # q => roll'[p] = roll[p]
BY DEF Shape, Records

LEMMA PcSet ==
  ASSUME NEW x, DOMAIN x = {"pc", "first", "asked", "since"}, NEW pc
  PROVE  /\ DOMAIN [x EXCEPT !.pc = pc] = {"pc", "first", "asked", "since"}
         /\ [x EXCEPT !.pc = pc].pc = pc
OBVIOUS

LEMMA MovedTo ==
  ASSUME Shape, Records, NEW q \in Roller, NEW pc, RollTo(q, pc)
  PROVE  /\ DOMAIN roll' = Roller /\ Records' /\ roll'[q].pc = pc
         /\ \A p \in Roller : p # q => roll'[p] = roll[p]
<1> DEFINE x == [roll[q] EXCEPT !.pc = pc]
<1>1. DOMAIN x = {"pc", "first", "asked", "since"} /\ x.pc = pc
  BY PcSet DEF Records
<1>2. roll' = [roll EXCEPT ![q] = x]
  BY DEF RollTo
<1> HIDE DEF x
<1> QED BY <1>1, <1>2, Moved

LEMMA RunMoves ==
  ASSUME Shape, NEW r \in Runner, NEW pc, RunTo(r, pc)
  PROVE  DOMAIN run' = Runner /\ run'[r] = pc
         /\ \A p \in Runner : p # r => run'[p] = run[p]
BY DEF Shape, RunTo

LEMMA RunStepKeepsHold ==
  ASSUME HoldInv, NEW r \in Runner, Fire(r) \/ RunSteps(r)
  PROVE  HoldInv'
<1>1. roll' = roll /\ held' = held
  BY DEF Fire, RunSteps, CheckHold, Claim, AdmitRun, RunEnds, Leave
<1>2. \E pc : RunTo(r, pc)
  BY DEF Fire, RunSteps, CheckHold, Claim, AdmitRun, RunEnds, Leave
<1> QED BY <1>1, <1>2, RunMoves DEF HoldInv, HoldHasOwner, Shape, Records

LEMMA RollStepKeepsHold ==
  ASSUME HoldInv, NEW q \in Roller, StartRollback(q) \/ RollSteps(q) \/ Stop(q)
  PROVE  HoldInv'
<1>1. CASE StartRollback(q)
  <2>1. PICK x : /\ DOMAIN x = {"pc", "first", "asked", "since"}
                 /\ roll' = [roll EXCEPT ![q] = x]
    BY <1>1 DEF StartRollback, NoRoll
  <2>2. roll[q].pc = "idle" /\ held' = held /\ run' = run
    BY <1>1 DEF StartRollback, RollAt
  <2> QED BY <2>1, <2>2, Moved DEF HoldInv, Shape, HoldHasOwner
<1>2. CASE Hold(q)
  <2>1. roll[q].pc = "checked" /\ held' = TRUE /\ run' = run
    BY <1>2 DEF Hold, RollAt
  <2>2. CASE held
    <3>1. roll' = [roll EXCEPT ![q] = NoRoll] /\ DOMAIN NoRoll = {"pc", "first", "asked", "since"}
      BY <1>2, <2>2 DEF Hold, NoRoll
    <3> QED BY <2>1, <2>2, <3>1, Moved DEF HoldInv, Shape, HoldHasOwner
  <2>3. CASE ~held
    <3>1. \/ RollTo(q, "held")
          \/ RollTo(q, "queued")
      BY <1>2, <2>3 DEF Hold, RollTo, HoldInv, Shape
    <3> QED BY <2>1, <3>1, MovedTo DEF HoldInv, Shape, HoldHasOwner
  <2> QED BY <2>2, <2>3
<1>3. CASE Unhold(q)
  BY <1>3, MovedTo DEF Unhold, HoldInv, Shape, HoldHasOwner
<1>4. CASE BackUpFirst(q)
  <2>1. roll[q].pc = "released" /\ held' = held
    BY <1>4 DEF BackUpFirst, RollAt
  <2>2. DOMAIN run' = Runner
    BY <1>4, RunMoves DEF BackUpFirst, RunNow, HoldInv, Shape
  <2>3. PICK x : /\ DOMAIN x = {"pc", "first", "asked", "since"}
                 /\ roll' = [roll EXCEPT ![q] = x]
    <3>1. CASE roll' = [roll EXCEPT ![q] = NoRoll]
      BY <3>1 DEF NoRoll
    <3>2. CASE roll' = [roll EXCEPT ![q] = [@ EXCEPT !.pc = "started", !.asked = now]]
      BY <3>2 DEF HoldInv, Shape, Records
    <3> QED BY <1>4, <3>1, <3>2 DEF BackUpFirst
  <2> QED BY <2>1, <2>2, <2>3, Moved DEF HoldInv, Shape, HoldHasOwner
<1>9. CASE NoteStart(q)
  <2>1. roll[q].pc = "started" /\ held' = held /\ run' = run
    BY <1>9 DEF NoteStart, RollAt
  <2>2. PICK x : /\ DOMAIN x = {"pc", "first", "asked", "since"}
                 /\ roll' = [roll EXCEPT ![q] = x]
    BY <1>9 DEF NoteStart, HoldInv, Shape, Records
  <2> QED BY <2>1, <2>2, Moved DEF HoldInv, Shape, HoldHasOwner
<1>5. CASE WaitEnds(q)
  BY <1>5, MovedTo DEF WaitEnds, HoldInv, Shape, HoldHasOwner
<1>6. CASE BackupFailed(q) \/ Stop(q)
  <2>1. roll[q].pc = "waiting" /\ held' = held /\ run' = run /\ RollTo(q, "failed")
    BY <1>6 DEF BackupFailed, Stop, WaitFails, RollAt
  <2> QED BY <2>1, MovedTo DEF HoldInv, Shape, HoldHasOwner
<1>7. CASE AdmitRoll(q)
  <2>1. held' = held /\ run' = run /\ RollTo(q, "restoring")
    BY <1>7 DEF AdmitRoll
  <2> QED BY <2>1, MovedTo DEF HoldInv, Shape, HoldHasOwner
<1>8. CASE Finish(q)
  <2>1. DOMAIN NoRoll = {"pc", "first", "asked", "since"}
    BY DEF NoRoll
  <2> QED BY <1>8, <2>1, Moved DEF Finish, HoldInv, Shape, HoldHasOwner
<1> QED BY <1>1, <1>2, <1>3, <1>4, <1>5, <1>6, <1>7, <1>8, <1>9 DEF RollSteps

LEMMA StepKeepsHold == ASSUME HoldInv, [HoldNext]_holdVars PROVE HoldInv'
<1>1. CASE Tick \/ UNCHANGED holdVars
  BY <1>1 DEF Tick, holdVars, HoldInv, Shape, Records, HoldHasOwner
<1> QED BY <1>1, RunStepKeepsHold, RollStepKeepsHold DEF HoldNext

LEMMA InitHold == HoldInit => HoldInv
BY DEF HoldInit, HoldInv, Shape, Records, HoldHasOwner, NoRoll

\* However its backup ends, a roll back that is over leaves no hold behind, and
\* so does not stop the set's later runs.
THEOREM NoHoldLeaks == HoldSpec => []NoHoldLeftBehind
<1>1. HoldInv /\ [HoldNext]_holdVars => HoldInv'
  BY StepKeepsHold
<1>2. HoldInv => NoHoldLeftBehind
  BY DEF HoldInv, HoldHasOwner, NoHoldLeftBehind, RollAt
<1> QED BY InitHold, <1>1, <1>2, PTL DEF HoldSpec

\* In one process no run of the set reads the folders while a roll back restores
\* them: the queue admits each only beside none of the other.
THEOREM RollbacksRunAlone == ASSUME ~Delegated PROVE HoldSpec => []BackupsWait
<1>1. HoldInit => BackupsWait
  BY DEF HoldInit, BackupsWait, RollAt, RunAt, NoRoll
<1>2. HoldInv /\ BackupsWait /\ [HoldNext]_holdVars => BackupsWait'
  <2> SUFFICES ASSUME HoldInv, BackupsWait, [HoldNext]_holdVars PROVE BackupsWait'
    OBVIOUS
  <2>1. CASE UNCHANGED <<run, roll>>
    BY <2>1 DEF BackupsWait, RollAt, RunAt
  <2>2. ASSUME NEW r \in Runner, Fire(r) \/ RunSteps(r) PROVE BackupsWait'
    <3>1. roll' = roll
      BY <2>2 DEF Fire, RunSteps, CheckHold, Claim, AdmitRun, RunEnds, Leave
    <3>2. PICK pc : /\ RunTo(r, pc)
                    /\ pc = "reading" => \A q \in Roller : ~RollAt(q, "restoring")
      BY <2>2 DEF Fire, RunSteps, CheckHold, Claim, AdmitRun, RunEnds, Leave
    <3> QED BY <3>1, <3>2, RunMoves DEF BackupsWait, RollAt, RunAt, HoldInv
  <2>3. ASSUME NEW q \in Roller, AdmitRoll(q) PROVE BackupsWait'
    BY <2>3, MovedTo DEF AdmitRoll, BackupsWait, RollAt, RunAt, HoldInv
  <2>4. ASSUME NEW q \in Roller, BackUpFirst(q) PROVE BackupsWait'
    <3>1. \A p \in Roller : RollAt(p, "restoring")' => RollAt(p, "restoring")
      <4>1. CASE roll' = [roll EXCEPT ![q] = NoRoll]
        BY <4>1 DEF RollAt, HoldInv, Shape, NoRoll
      <4>2. CASE roll' = [roll EXCEPT ![q] = [@ EXCEPT !.pc = "started", !.asked = now]]
        <5> DEFINE x == [roll[q] EXCEPT !.pc = "started"]
                   y == [x EXCEPT !.asked = now]
        <5>1. DOMAIN x = {"pc", "first", "asked", "since"} /\ x.pc = "started"
          BY PcSet DEF HoldInv, Records
        <5>2. y = [roll[q] EXCEPT !.pc = "started", !.asked = now]
          OBVIOUS
        <5>3. y.pc = x.pc /\ DOMAIN y = DOMAIN x
          <6> HIDE DEF x
          <6> QED OBVIOUS
        <5>4. roll' = [roll EXCEPT ![q] = y]
          BY <4>2, <5>2
        <5> HIDE DEF x, y
        <5> QED BY <5>1, <5>3, <5>4, Moved DEF RollAt, HoldInv
      <4> QED BY <2>4, <4>1, <4>2 DEF BackUpFirst
    <3>2. \A r \in Runner : RunAt(r, "reading")' => RunAt(r, "reading")
      BY <2>4, RunMoves DEF BackUpFirst, RunNow, RunAt, HoldInv
    <3> QED BY <3>1, <3>2 DEF BackupsWait
  <2>5. ASSUME NEW q \in Roller,
               StartRollback(q) \/ Hold(q) \/ Unhold(q) \/ WaitEnds(q)
                 \/ BackupFailed(q) \/ Stop(q) \/ Finish(q)
        PROVE  BackupsWait'
    <3>1. run' = run
      BY <2>5 DEF StartRollback, Hold, Unhold, WaitEnds, BackupFailed, Stop,
                  WaitFails, Finish
    <3>2. \A p \in Roller : RollAt(p, "restoring")' => RollAt(p, "restoring")
      <4>1. CASE Unhold(q) \/ WaitEnds(q) \/ BackupFailed(q) \/ Stop(q)
        BY <4>1, MovedTo
        DEF Unhold, WaitEnds, BackupFailed, Stop, WaitFails, RollAt, HoldInv
      <4>2. CASE StartRollback(q) \/ Finish(q)
        BY <4>2 DEF StartRollback, Finish, RollAt, NoRoll, HoldInv, Shape
      <4>3. CASE Hold(q)
        <5>1. \/ RollTo(q, "held") \/ RollTo(q, "queued")
              \/ roll' = [roll EXCEPT ![q] = NoRoll]
          BY <4>3 DEF Hold, RollTo, HoldInv, Shape
        <5> QED BY <5>1, MovedTo DEF RollAt, NoRoll, HoldInv, Shape
      <4> QED BY <2>5, <4>1, <4>2, <4>3
    <3> QED BY <3>1, <3>2 DEF BackupsWait, RunAt
  <2>6. CASE Tick \/ UNCHANGED holdVars
    BY <2>1, <2>6 DEF Tick, holdVars
  <2>7. ASSUME NEW q \in Roller, NoteStart(q) PROVE BackupsWait'
    <3> DEFINE x == [roll[q] EXCEPT !.pc = "waiting"]
               y == [x EXCEPT !.since = now]
    <3>1. DOMAIN x = {"pc", "first", "asked", "since"} /\ x.pc = "waiting"
      BY PcSet DEF HoldInv, Records
    <3>2. y.pc = x.pc /\ DOMAIN y = DOMAIN x
      <4> HIDE DEF x
      <4> QED OBVIOUS
    <3>3. roll' = [roll EXCEPT ![q] = y] /\ run' = run
      BY <2>7 DEF NoteStart
    <3> HIDE DEF x, y
    <3> QED BY <3>1, <3>2, <3>3, Moved DEF BackupsWait, RollAt, RunAt, HoldInv
  <2> QED BY <2>2, <2>3, <2>4, <2>5, <2>6, <2>7 DEF HoldNext, RollSteps
<1>3. HoldInv /\ [HoldNext]_holdVars => HoldInv'
  BY StepKeepsHold
<1> QED BY InitHold, <1>1, <1>2, <1>3, PTL DEF HoldSpec

-----------------------------------------------------------------------------
(* The types of the runs and the roll backs *)

RollPc == {"idle", "checked", "held", "released", "started", "waiting",
          "queued", "restoring", "failed"}
RollRecord == [pc : RollPc, first : BOOLEAN, asked : 0..MaxTime, since : 0..MaxTime]

LEMMA RunToTypes ==
  ASSUME HoldTypeOK, NEW r \in Runner,
         NEW pc \in {"idle", "fired", "clear", "queued", "reading", "ended"}, RunTo(r, pc)
  PROVE  run' \in [Runner -> {"idle", "fired", "clear", "queued", "reading", "ended"}]
BY DEF HoldTypeOK, RunTo

LEMMA RollTypes ==
  ASSUME HoldTypeOK, NEW q \in Roller, NEW x \in RollRecord, roll' = [roll EXCEPT ![q] = x]
  PROVE  roll' \in [Roller -> RollRecord]
BY DEF HoldTypeOK, RollRecord, RollPc

LEMMA RollToTypes ==
  ASSUME HoldTypeOK, NEW q \in Roller, NEW pc \in RollPc, RollTo(q, pc)
  PROVE  roll' \in [Roller -> RollRecord]
<1>1. roll[q] \in RollRecord
  BY DEF HoldTypeOK, RollRecord, RollPc
<1>2. [roll[q] EXCEPT !.pc = pc] \in RollRecord
  BY <1>1 DEF RollRecord
<1>3. roll' = [roll EXCEPT ![q] = [roll[q] EXCEPT !.pc = pc]]
  BY DEF RollTo
<1> QED BY <1>2, <1>3, RollTypes

LEMMA StartingType ==
  ASSUME HoldTypeOK, Starting
  PROVE  starts' \in 0..MaxStarts
BY BoundAssumption DEF HoldTypeOK, Starting

LEMMA NoRollType == NoRoll \in RollRecord
BY BoundAssumption DEF NoRoll, RollRecord, RollPc

LEMMA RunStepKeepsHoldTypes ==
  ASSUME HoldTypeOK, NEW r \in Runner, Fire(r) \/ RunSteps(r)
  PROVE  HoldTypeOK'
<1>1. run' \in [Runner -> {"idle", "fired", "clear", "queued", "reading", "ended"}]
  BY RunToTypes DEF Fire, RunSteps, CheckHold, Claim, AdmitRun, RunEnds, Leave
<1>2. /\ now' = now /\ roll' = roll /\ held' = held
      /\ running' \in BOOLEAN /\ starts' \in 0..MaxStarts
  <2>1. CASE Fire(r)
    BY <2>1, StartingType DEF Fire, HoldTypeOK
  <2>2. CASE RunSteps(r)
    BY <2>2 DEF RunSteps, CheckHold, Claim, AdmitRun, RunEnds, Leave, HoldTypeOK
  <2> QED BY <2>1, <2>2
<1>3. history' \in Seq(Entry)
  <2>1. CASE history' = history
    BY <2>1 DEF HoldTypeOK
  <2>2. CASE RunEnds(r)
    <3>1. PICK ok \in BOOLEAN : history' = <<[at |-> now, success |-> ok]>> \o history
      BY <2>2 DEF RunEnds
    <3>2. [at |-> now, success |-> ok] \in Entry
      BY DEF Entry, HoldTypeOK
    <3>3. <<[at |-> now, success |-> ok]>> \in Seq(Entry) /\ history \in Seq(Entry)
      BY <3>2 DEF HoldTypeOK
    <3> QED BY <3>1, <3>3
  <2> QED BY <2>1, <2>2 DEF Fire, RunSteps, CheckHold, Claim, AdmitRun, Leave
<1> QED BY <1>1, <1>2, <1>3 DEF HoldTypeOK

LEMMA RollStepKeepsHoldTypes ==
  ASSUME HoldTypeOK, NEW q \in Roller, StartRollback(q) \/ RollSteps(q) \/ Stop(q)
  PROVE  HoldTypeOK'
<1>1. roll' \in [Roller -> RollRecord]
  <2>1. CASE StartRollback(q)
    <3>1. PICK first \in BOOLEAN :
            roll' = [roll EXCEPT ![q] =
                      [pc |-> "checked", first |-> first, asked |-> 0, since |-> 0]]
      BY <2>1 DEF StartRollback
    <3>2. [pc |-> "checked", first |-> first, asked |-> 0, since |-> 0] \in RollRecord
      BY BoundAssumption DEF RollRecord, RollPc
    <3> QED BY <3>1, <3>2, RollTypes
  <2>2. CASE Hold(q)
    <3>1. CASE held
      BY <2>2, <3>1, NoRollType, RollTypes DEF Hold
    <3>2. CASE ~held
      <4>1. \/ RollTo(q, "held")
            \/ RollTo(q, "queued")
        BY <2>2, <3>2 DEF Hold, RollTo, HoldTypeOK
      <4> QED BY <4>1, RollToTypes DEF RollPc
    <3> QED BY <3>1, <3>2
  <2>3. CASE BackUpFirst(q)
    <3>1. CASE roll' = [roll EXCEPT ![q] = [@ EXCEPT !.pc = "started", !.asked = now]]
      <4>1. roll[q] \in RollRecord /\ now \in 0..MaxTime
        BY DEF HoldTypeOK, RollRecord, RollPc
      <4>2. [roll[q] EXCEPT !.pc = "started", !.asked = now] \in RollRecord
        BY <4>1 DEF RollRecord, RollPc
      <4> QED BY <3>1, <4>2, RollTypes
    <3>2. CASE roll' = [roll EXCEPT ![q] = NoRoll]
      BY <3>2, NoRollType, RollTypes
    <3> QED BY <2>3, <3>1, <3>2 DEF BackUpFirst
  <2>4. CASE Finish(q)
    BY <2>4, NoRollType, RollTypes DEF Finish
  <2>5. CASE Unhold(q) \/ WaitEnds(q) \/ BackupFailed(q) \/ Stop(q) \/ AdmitRoll(q)
    BY <2>5, RollToTypes
    DEF Unhold, WaitEnds, BackupFailed, Stop, WaitFails, AdmitRoll, RollPc
  <2>6. CASE NoteStart(q)
    <3>1. roll[q] \in RollRecord /\ now \in 0..MaxTime
      BY DEF HoldTypeOK, RollRecord, RollPc
    <3>2. [roll[q] EXCEPT !.pc = "waiting", !.since = now] \in RollRecord
      BY <3>1 DEF RollRecord, RollPc
    <3> QED BY <2>6, <3>2, RollTypes DEF NoteStart
  <2> QED BY <2>1, <2>2, <2>3, <2>4, <2>5, <2>6 DEF RollSteps
<1>2. run' \in [Runner -> {"idle", "fired", "clear", "queued", "reading", "ended"}]
  <2>1. CASE run' = run
    BY <2>1 DEF HoldTypeOK
  <2>2. CASE \E r \in Runner : RunNow(r)
    BY <2>2, RunToTypes DEF RunNow
  <2> QED BY <2>1, <2>2 DEF StartRollback, Stop, RollSteps, Hold, Unhold, BackUpFirst,
        NoteStart, WaitEnds, BackupFailed, WaitFails, AdmitRoll, Finish
<1>3. /\ now' = now /\ running' = running /\ history' = history
      /\ held' \in BOOLEAN /\ starts' \in 0..MaxStarts
  <2>1. CASE StartRollback(q)
    BY <2>1, StartingType DEF StartRollback, HoldTypeOK
  <2>2. CASE RollSteps(q) \/ Stop(q)
    BY <2>2 DEF RollSteps, Hold, Unhold, BackUpFirst, NoteStart, WaitEnds, BackupFailed,
                WaitFails, AdmitRoll, Finish, Stop, HoldTypeOK
  <2> QED BY <2>1, <2>2
<1> QED BY <1>1, <1>2, <1>3 DEF HoldTypeOK, RollRecord, RollPc

LEMMA StepKeepsHoldTypes == HoldTypeOK /\ [HoldNext]_holdVars => HoldTypeOK'
<1> SUFFICES ASSUME HoldTypeOK, [HoldNext]_holdVars PROVE HoldTypeOK'
  OBVIOUS
<1>1. CASE Tick
  <2>1. now' \in 0..MaxTime
    BY <1>1, BoundAssumption DEF Tick, HoldTypeOK
  <2> QED BY <1>1, <2>1 DEF Tick, HoldTypeOK
<1>2. CASE UNCHANGED holdVars
  BY <1>2 DEF holdVars, HoldTypeOK
<1> QED BY <1>1, <1>2, RunStepKeepsHoldTypes, RollStepKeepsHoldTypes DEF HoldNext

\* A set's runs, its roll backs and the history they look at stay what their
\* declarations say.
THEOREM HoldTypeCorrect == HoldSpec => []HoldTypeOK
<1>1. HoldInit => HoldTypeOK
  <2>1. HoldInit => roll \in [Roller -> RollRecord]
    BY NoRollType DEF HoldInit
  <2>2. HoldInit => 0 \in 0..MaxTime /\ 0 \in 0..MaxStarts /\ history \in Seq(Entry)
    BY BoundAssumption DEF HoldInit
  <2> QED BY <2>1, <2>2 DEF HoldInit, HoldTypeOK, RollRecord, RollPc
<1> QED BY <1>1, StepKeepsHoldTypes, PTL DEF HoldSpec

-----------------------------------------------------------------------------
(* The hold of a roll back that is on its own *)

\* One roll back of the set is under way at most.
OneRollback == \A p, q \in Roller : ~RollAt(p, "idle") /\ ~RollAt(q, "idle") => p = q

\* A roll back that has taken the hold and not given it back holds the set.
Holding == \A q \in Roller : roll[q].pc \in {"held", "queued", "restoring"} => held

LEMMA StepKeepsHolding ==
  HoldInv /\ OneRollback /\ Holding /\ [HoldNext]_holdVars => Holding'
<1> SUFFICES ASSUME HoldInv, OneRollback, Holding, [HoldNext]_holdVars PROVE Holding'
  OBVIOUS
<1>1. CASE UNCHANGED <<roll, held>>
  BY <1>1 DEF Holding
<1>2. ASSUME NEW r \in Runner, Fire(r) \/ RunSteps(r) PROVE UNCHANGED <<roll, held>>
  BY <1>2 DEF Fire, RunSteps, CheckHold, Claim, AdmitRun, RunEnds, Leave
<1>3. CASE Tick \/ UNCHANGED holdVars
  BY <1>1, <1>3 DEF Tick, holdVars
<1>4. ASSUME NEW q \in Roller, Hold(q) \/ WaitEnds(q) PROVE Holding'
  BY <1>4 DEF Hold, WaitEnds, Holding
<1>5. ASSUME NEW q \in Roller, Unhold(q) \/ Finish(q) PROVE Holding'
  <2>1. roll[q].pc # "idle"
    BY <1>5 DEF Unhold, Finish, RollAt
  <2>2. \A p \in Roller : p # q => roll[p].pc = "idle"
    BY <2>1 DEF OneRollback, RollAt
  <2>3. roll'[q].pc \in {"idle", "released"} /\ \A p \in Roller : p # q => roll'[p] = roll[p]
    <3>1. CASE Unhold(q)
      BY <3>1, MovedTo DEF Unhold, HoldInv
    <3>2. CASE Finish(q)
      <4>1. roll' = [roll EXCEPT ![q] = NoRoll] /\ DOMAIN NoRoll = {"pc", "first", "asked", "since"}
            /\ NoRoll.pc = "idle"
        BY <3>2 DEF Finish, NoRoll
      <4> QED BY <4>1, Moved DEF HoldInv
    <3> QED BY <1>5, <3>1, <3>2
  <2> QED BY <2>2, <2>3 DEF Holding
<1>6. ASSUME NEW q \in Roller, BackupFailed(q) \/ Stop(q) PROVE Holding'
  <2>1. RollTo(q, "failed") /\ held' = held
    BY <1>6 DEF BackupFailed, Stop, WaitFails
  <2> QED BY <2>1, MovedTo DEF Holding, HoldInv
<1>7. ASSUME NEW q \in Roller, AdmitRoll(q) PROVE Holding'
  <2>1. RollTo(q, "restoring") /\ held' = held /\ roll[q].pc = "queued"
    BY <1>7 DEF AdmitRoll, RollAt
  <2> QED BY <2>1, MovedTo DEF Holding, HoldInv
<1>8. ASSUME NEW q \in Roller, StartRollback(q) PROVE Holding'
  <2>1. held' = held /\ \E first \in BOOLEAN :
          roll' = [roll EXCEPT ![q] =
                      [pc |-> "checked", first |-> first, asked |-> 0, since |-> 0]]
    BY <1>8 DEF StartRollback
  <2> QED BY <2>1 DEF NoRoll, Holding, HoldInv, Shape
<1>10. ASSUME NEW q \in Roller, NoteStart(q) PROVE Holding'
  BY <1>10 DEF NoteStart, Holding, HoldInv, Shape, Records
<1>9. ASSUME NEW q \in Roller, BackUpFirst(q) PROVE Holding'
  <2>1. held' = held
    BY <1>9 DEF BackUpFirst
  <2>2. CASE roll' = [roll EXCEPT ![q] = NoRoll]
    BY <2>1, <2>2 DEF Holding, HoldInv, Shape, NoRoll
  <2>3. CASE roll' = [roll EXCEPT ![q] = [@ EXCEPT !.pc = "started", !.asked = now]]
    BY <2>1, <2>3 DEF Holding, HoldInv, Shape, Records
  <2> QED BY <1>9, <2>2, <2>3 DEF BackUpFirst
<1> QED BY <1>1, <1>2, <1>3, <1>4, <1>5, <1>6, <1>7, <1>8, <1>9, <1>10
     DEF HoldNext, RollSteps

\* While one roll back of the set at most is under way, the set is held from its
\* first move to its last, so that Run Now is refused (GUI.md:912).  Two calls of
\* StartRollback at once break it: each takes the hold back after its backup and
\* the first to finish gives it up for both.
THEOREM LoneRollbackHolds == HoldSpec /\ []OneRollback => []HeldWhileRestoring
<1>1. HoldInit => Holding
  BY DEF HoldInit, Holding, NoRoll
<1>2. HoldInv /\ [HoldNext]_holdVars => HoldInv'
  BY StepKeepsHold
<1>3. Holding => HeldWhileRestoring
  BY DEF Holding, HeldWhileRestoring, RollAt
<1> QED BY InitHold, <1>1, <1>2, <1>3, StepKeepsHolding, PTL DEF HoldSpec


-----------------------------------------------------------------------------
(* What the backup before a roll back is worth *)

\* When a roll back that asked for a backup begins to move files, a run of the set
\* has ended well, no more than Slack before the second it took when the backup
\* had been asked for (waitForSetRun's since.Add(-2*time.Second)).  It may be another run than the one asked for:
\* BackedUpFirst says more, and does not hold.
BackedUpWithinSlack ==
  \A q \in Roller : RollAt(q, "restoring") /\ roll[q].first =>
    \E i \in DOMAIN history : history[i].success /\ Matches(history[i], roll[q].since)

EndedWell(since) == \E i \in DOMAIN history : history[i].success /\ Matches(history[i], since)
BackedInv ==
  \A q \in Roller : roll[q].first /\ roll[q].pc \in {"queued", "restoring"} =>
    EndedWell(roll[q].since)

LEMMA RollToKeeps ==
  ASSUME HoldTypeOK, NEW q \in Roller, NEW pc, RollTo(q, pc)
  PROVE  /\ roll'[q].pc = pc /\ roll'[q].first = roll[q].first /\ roll'[q].since = roll[q].since
         /\ \A p \in Roller : p # q => roll'[p] = roll[p]
BY DEF HoldTypeOK, RollTo

\* Reports keep the runs that have ended, before those that end later.
LEMMA HistoryGrows ==
  ASSUME HoldTypeOK, NEW r \in Runner, RunEnds(r), NEW since, EndedWell(since)
  PROVE  \E i \in DOMAIN history' : history'[i].success /\ history'[i].at + Slack >= since
<1>1. PICK e : history' = <<e>> \o history
  BY DEF RunEnds
<1>2. history \in Seq(Entry) /\ Len(history) \in Nat
  BY DEF HoldTypeOK
<1>3. PICK i \in 1..Len(history) : history[i].success /\ Matches(history[i], since)
  BY <1>2 DEF EndedWell
<1>4. i + 1 \in DOMAIN history' /\ history'[i + 1] = history[i]
  BY <1>1, <1>2
<1> QED BY <1>3, <1>4 DEF Matches

LEMMA StepKeepsBacked ==
  HoldTypeOK /\ BackedInv /\ [HoldNext]_holdVars => BackedInv'
<1> SUFFICES ASSUME HoldTypeOK, BackedInv, [HoldNext]_holdVars,
                    NEW q \in Roller, roll'[q].first, roll'[q].pc \in {"queued", "restoring"}
             PROVE  \E i \in DOMAIN history' :
                      history'[i].success /\ history'[i].at + Slack >= roll'[q].since
  BY DEF BackedInv, EndedWell, Matches
<1>1. CASE UNCHANGED <<roll, history>>
  BY <1>1 DEF BackedInv, EndedWell, Matches
<1>2. ASSUME NEW r \in Runner, RunEnds(r)
      PROVE  \E i \in DOMAIN history' :
               history'[i].success /\ history'[i].at + Slack >= roll'[q].since
  <2>1. roll' = roll
    BY <1>2 DEF RunEnds
  <2>2. EndedWell(roll[q].since)
    BY <2>1 DEF BackedInv
  <2> QED BY <1>2, <2>1, <2>2, HistoryGrows
<1>3. ASSUME NEW p \in Roller, StartRollback(p) \/ RollSteps(p) \/ Stop(p)
      PROVE  \E i \in DOMAIN history' :
               history'[i].success /\ history'[i].at + Slack >= roll'[q].since
  <2>1. history' = history
    BY <1>3 DEF StartRollback, RollSteps, Stop, Hold, Unhold, BackUpFirst, NoteStart, WaitEnds,
       BackupFailed, WaitFails, AdmitRoll, Finish
  <2>2. SUFFICES EndedWell(roll'[q].since)
    BY <2>1 DEF EndedWell, Matches
  <2>3. CASE roll'[q] = roll[q]
    BY <2>3 DEF BackedInv
  <2>4. CASE StartRollback(p) \/ Finish(p)
    BY <2>3, <2>4 DEF StartRollback, Finish, NoRoll, HoldTypeOK
  <2>5. CASE Hold(p)
    <3>1. CASE held
      BY <2>3, <2>5, <3>1 DEF Hold, NoRoll, HoldTypeOK
    <3>2. CASE ~held
      <4>1. RollTo(p, IF roll[p].first THEN "held" ELSE "queued")
        BY <2>5, <3>2 DEF Hold, RollTo
      <4> QED BY <2>3, <4>1, RollToKeeps
    <3> QED BY <3>1, <3>2
  <2>6. CASE Unhold(p) \/ BackupFailed(p) \/ Stop(p)
    BY <2>3, <2>6, RollToKeeps DEF Unhold, BackupFailed, Stop, WaitFails
  <2>7. CASE BackUpFirst(p)
    <3>1. CASE roll' = [roll EXCEPT ![p] = NoRoll]
      BY <2>3, <3>1 DEF NoRoll, HoldTypeOK
    <3>2. CASE roll' = [roll EXCEPT ![p] = [@ EXCEPT !.pc = "started", !.asked = now]]
      <4>1. q # p => roll'[q] = roll[q]
        BY <3>2 DEF HoldTypeOK
      <4>2. roll'[p].pc = "started"
        BY <3>2 DEF HoldTypeOK
      <4> QED BY <2>3, <4>1, <4>2
    <3> QED BY <2>7, <3>1, <3>2 DEF BackUpFirst
  <2>10. CASE NoteStart(p)
    <3>1. roll'[p].pc = "waiting" /\ (q # p => roll'[q] = roll[q])
      BY <2>10 DEF NoteStart, HoldTypeOK
    <3> QED BY <2>3, <3>1
  <2>8. CASE WaitEnds(p)
    <3>1. EndedWell(roll[p].since) /\ RollTo(p, "queued")
      BY <2>8 DEF WaitEnds, IsFirstMatch, EndedWell
    <3> QED BY <2>3, <3>1, RollToKeeps
  <2>9. CASE AdmitRoll(p)
    <3>1. roll[p].pc = "queued" /\ RollTo(p, "restoring")
      BY <2>9 DEF AdmitRoll, RollAt
    <3> QED BY <2>3, <3>1, RollToKeeps DEF BackedInv
  <2> QED BY <1>3, <2>4, <2>5, <2>6, <2>7, <2>8, <2>9, <2>10 DEF RollSteps
<1>4. ASSUME NEW r \in Runner, Fire(r) \/ CheckHold(r) \/ Claim(r) \/ AdmitRun(r) \/ Leave(r)
      PROVE  UNCHANGED <<roll, history>>
  BY <1>4 DEF Fire, CheckHold, Claim, AdmitRun, Leave
<1>5. CASE Tick \/ UNCHANGED holdVars
  BY <1>1, <1>5 DEF Tick, holdVars
<1> QED BY <1>1, <1>2, <1>3, <1>4, <1>5 DEF HoldNext, RunSteps

\* For any number of runs and roll backs, in one process or two: no roll back
\* that asked for a backup first begins to move files on a backup that failed,
\* or on one that ended more than Slack before it was asked for (waitForSetRun).
THEOREM BackupComesFirst == HoldSpec => []BackedUpWithinSlack
<1>1. HoldInit => BackedInv
  BY DEF HoldInit, BackedInv, NoRoll
<1>2. BackedInv => BackedUpWithinSlack
  BY DEF BackedInv, EndedWell, BackedUpWithinSlack, RollAt
<1> QED BY <1>1, <1>2, StepKeepsBacked, HoldTypeCorrect, PTL DEF HoldSpec
=============================================================================
