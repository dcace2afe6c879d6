------------------------------- MODULE JobsFile -------------------------------
(***************************************************************************)
(* The Backup Sets' file, scheduled_jobs.json (gui/scheduler.go,            *)
(* gui/change_detection_job.go, gui/diskpin_app.go, gui/settings_export.go).*)
(*                                                                          *)
(* Everyone who changes a set reads the whole file, changes its part and    *)
(* replaces the file: the window's edits, the runs that end, and an import  *)
(* of settings.  jobsFileMu is held from the read to the write, except by   *)
(* the import.  The file's list is a function from the sets it holds.       *)
(***************************************************************************)
EXTENDS Naturals

CONSTANTS
  Set,        \* the Backup Sets' IDs
  Setting,    \* what a user edits of a set: its name, folders, disks, schedules
  Writer,     \* goroutines that change the file under jobsFileMu
  Importer,   \* goroutines that import settings
  Nobody,     \* jobsFileMu is free
  Idle,       \* a goroutine with no change under way
  MaxChanges  \* bound: changes begun

ASSUME NobodyAssumption == Nobody \notin Writer
ASSUME ImporterAssumption == Writer \cap Importer = {}
ASSUME MaxChangesAssumption == MaxChanges \in Nat

VARIABLES
  jobs,     \* the file
  lock,     \* who holds jobsFileMu
  work,     \* per goroutine, its change and the list it read
  changes,  \* changes begun
  owed,     \* the file, had every change been made at once when it was saved
  overlapped \* an import and another change were under way together

vars == <<jobs, lock, work, changes, owed, overlapped>>

\* The fields of ScheduledJob that changes leave to each other: the user's, the
\* enabled flag, the run's LastRun (0: never run) and its full-read count.
Job == [settings : Setting, enabled : BOOLEAN,
        lastRun : 0..MaxChanges, count : 0..MaxChanges]
File == UNION {[D -> Job] : D \in SUBSET Set}

NewJob(v) == [settings |-> v, enabled |-> TRUE, lastRun |-> 0, count |-> 0]

Edit == [op : {"save", "update"}, set : Set, settings : Setting]
          \cup [op : {"enable", "disable", "delete"}, set : Set]
RunChange == [op : {"complete", "reused", "fullRead"}, set : Set]
          \cup [op : {"moveDisks"}, set : Set, saved : Setting, found : Setting]
          \cup [op : {"repair"}]
\* A bundle's set may bring a full-read count, and a LastRun older than any here.
Exported == [settings : Setting, enabled : BOOLEAN, lastRun : {0}, count : {0, 1}]
Import == [op : {"import", "deploy"}, bundle : UNION {[D -> Exported] : D \in SUBSET Set}]

TypeOK ==
  /\ jobs \in File /\ owed \in File
  /\ lock \in Writer \cup {Nobody}
  /\ changes \in 0..MaxChanges
  /\ overlapped \in BOOLEAN
  /\ DOMAIN work = Writer \cup Importer
  /\ \A w \in Writer \cup Importer : work[w] # Idle =>
       /\ work[w].copy \in File
       /\ work[w].at \in 1..changes
       /\ \/ w \in Importer /\ work[w].change \in Import
          \/ w \in Writer /\ work[w].change \in Edit \cup RunChange

Init ==
  /\ \E D \in SUBSET Set, v \in Setting : jobs = [s \in D |-> NewJob(v)]
  /\ owed = jobs
  /\ lock = Nobody
  /\ work = [w \in Writer \cup Importer |-> Idle]
  /\ changes = 0
  /\ overlapped = FALSE

-----------------------------------------------------------------------------
(* What each change makes of the list it read *)

\* The change is refused, or finds nothing to change, and writes nothing.
Refuses(c, list) ==
  CASE c.op \in {"save", "delete", "repair", "import", "deploy"} -> FALSE
    [] c.op = "moveDisks" ->
         c.set \notin DOMAIN list \/ list[c.set].settings # c.saved
    [] c.op = "fullRead" -> c.set \notin DOMAIN list \/ list[c.set].count = 0
    [] OTHER -> c.set \notin DOMAIN list

Put(list, s, j) ==
  [t \in DOMAIN list \cup {s} |-> IF t = s THEN j ELSE list[t]]

\* The end of executeScheduledJob: the set's run times, in the list read anew.
Complete(list, s, at) == [list EXCEPT ![s].lastRun = at]

CountOneMore(list, s, n) == [list EXCEPT ![s].count = n + 1]
\* recordChangeDetectionOutcome, with the count nextFullReadCount gives.
Count(list, s, n) == [list EXCEPT ![s].count = n]

\* What mergeSettingsBundle makes of a set it imports.  A set of the same ID
\* keeps its enabled flag; a deployment leaves each computer its run state.
Imported(list, c, s) ==
  LET x == c.bundle[s] IN
  IF s \notin DOMAIN list
    THEN IF c.op = "deploy" THEN [x EXCEPT !.count = 0] ELSE x
  ELSE IF c.op = "deploy" THEN [list[s] EXCEPT !.settings = x.settings]
  ELSE [x EXCEPT !.enabled = list[s].enabled]
Merge(list, c) ==
  [s \in DOMAIN c.bundle \cup DOMAIN list |->
     IF s \in DOMAIN c.bundle THEN Imported(list, c, s) ELSE list[s]]

Applied(c, list, at) ==
  CASE c.op = "save" -> Put(list, c.set, NewJob(c.settings))
    [] c.op = "update" -> [list EXCEPT ![c.set].settings = c.settings]
    [] c.op \in {"enable", "disable"} ->
         [list EXCEPT ![c.set].enabled = (c.op = "enable")]
    [] c.op = "delete" -> [s \in DOMAIN list \ {c.set} |-> list[s]]
    [] c.op = "complete" -> Complete(list, c.set, at)
    [] c.op = "reused" -> Count(list, c.set, list[c.set].count + 1)
    [] c.op = "fullRead" -> Count(list, c.set, 0)
    [] c.op = "moveDisks" -> [list EXCEPT ![c.set].settings = c.found]
    [] c.op = "repair" -> list
    [] c.op \in {"import", "deploy"} -> Merge(list, c)

-----------------------------------------------------------------------------
(* A change reads the list, then saves it *)

\* What a goroutine goes on with from GetScheduledJobs: after a failed read it
\* returns and writes nothing.
ReadsOrEmpty(file) == {file, <<>>}
Reads(file) == {file}

\* jobsFileMu.Lock.
NoMutex(w) == UNCHANGED lock
Mutex(w) == lock = Nobody /\ lock' = w

\* What jobsFileMu does not keep apart.
Overlaps(w) ==
  \E v \in DOMAIN work : work[v] # Idle /\ {v, w} \cap Importer # {}

Begin(w, c) ==
  /\ work[w] = Idle /\ changes < MaxChanges
  /\ changes' = changes + 1
  /\ \E list \in Reads(jobs) :
       work' = [work EXCEPT ![w] = [change |-> c, copy |-> list, at |-> changes']]
  /\ overlapped' = (overlapped \/ Overlaps(w))
  /\ UNCHANGED <<jobs, owed>>

\* SaveScheduledJob, UpdateScheduledJob, SetScheduledJobEnabled and
\* DeleteScheduledJob, up to the list they read.  The page gives a set it saves
\* for the first time an ID of its own, the time.
BeginEdit(w) ==
  \E c \in Edit :
    /\ c.op = "save" => c.set \notin DOMAIN jobs
    /\ Mutex(w) /\ Begin(w, c)

\* The end of executeScheduledJob, recordChangeDetectionOutcome, keepMovedDisks;
\* and RecalculateNextRuns, of whose change nothing is kept here.
BeginRunChange(w) == \E c \in RunChange : Mutex(w) /\ Begin(w, c)

\* mergeSettingsBundle, of the user's file or the installer's, takes no lock.
BeginImport(w) == \E c \in Import : UNCHANGED lock /\ Begin(w, c)

Unlock(w) == lock' = IF lock = w THEN Nobody ELSE lock

\* atomicWriteFile replaces the file, or fails and leaves it as it was.
Save(w) ==
  LET x == work[w] IN
  /\ x # Idle
  /\ \/ /\ ~Refuses(x.change, x.copy)
        /\ jobs' = Applied(x.change, x.copy, x.at)
        /\ owed' = IF Refuses(x.change, owed) THEN owed
                   ELSE Applied(x.change, owed, x.at)
     \/ UNCHANGED <<jobs, owed>>
  /\ work' = [work EXCEPT ![w] = Idle]
  /\ Unlock(w)
  /\ UNCHANGED <<changes, overlapped>>

\* The process ends: a change under way is lost, the file stays.
Crash ==
  /\ \E w \in DOMAIN work : work[w] # Idle
  /\ work' = [w \in DOMAIN work |-> Idle]
  /\ lock' = Nobody
  /\ UNCHANGED <<jobs, owed, changes, overlapped>>

Next ==
  \/ \E w \in Writer : BeginEdit(w) \/ BeginRunChange(w)
  \/ \E w \in Importer : BeginImport(w)
  \/ \E w \in Writer \cup Importer : Save(w)
  \/ Crash

Spec == Init /\ [][Next]_vars

-----------------------------------------------------------------------------
(* Properties *)

\* "keep this process's read-change-write of scheduled_jobs.json ... one at a
\* time" (scheduler.go:254-258): no save writes over one made since its read, so
\* the file is what the saves make of it one after another, while no import and
\* other change are under way together (mergeSettingsBundle takes no lock).
OneAtATime == ~overlapped => jobs = owed

\* The same of every change of the file, an import among them.
EveryChangeKept == jobs = owed

UserPart(file, s) ==
  [e \in {f \in {s} : f \in DOMAIN file} |-> <<file[e].settings, file[e].enabled>>]

\* The change c may take the user's part of set s in the file to what it is after.
MayChange(c, s) ==
  \/ c \in Edit /\ c.set = s
  \/ /\ c.op = "moveDisks" /\ c.set = s
     /\ s \in DOMAIN jobs /\ jobs[s].settings = c.saved
  \/ /\ c \in Import /\ s \in DOMAIN c.bundle /\ s \in DOMAIN jobs'
     /\ s \in DOMAIN jobs => jobs'[s].enabled = jobs[s].enabled

\* A run that ends while its set is edited, disabled or deleted never undoes
\* that: whether a set is in the file, what it holds and its enabled flag only
\* change by a user's change of that set, where a run follows a disk that has
\* moved and the user has not edited the set meanwhile, or by an import that
\* names the set and leaves its enabled flag.
EditsKept ==
  [][\A w \in Writer \cup Importer : (work[w] # Idle /\ work'[w] = Idle /\ ~overlapped) =>
       \A s \in Set :
         UserPart(jobs', s) = UserPart(jobs, s) \/ MayChange(work[w].change, s)]_vars
===============================================================================
