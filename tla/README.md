# Salvanza Client for Proxmox Backup Server: specifications

The repository is a Go backup client: a window (Wails), a background service,
command-line tools, and libraries that read disks and folders and talk to a
Proxmox Backup Server (PBS). These modules model the parts in which several
goroutines, runs or processes meet, and check and prove what keeps their
results right.

## 1. Inventory

What each component keeps, what it does, with whom it meets, what is hard, and
what makes it correct. `PROJECT.json` lists every component with its sources.

| Component | State | Operations | What is hard | Correct when |
|---|---|---|---|---|
| Operation queue (`gui/operation_queue.go`) | `opWaiting`, `opRunning`, `groupEnded`, `opSeq`; `opCond` | `acquireOperation`, `Release`, `waitForEarlierOperations` | the select between an admission and a Stop; a limit that changes; admission of several at once; PBS's one snapshot per second | no forbidden overlap, order kept, no place leaked, no wake-up lost |
| Backup runs, Stop, Pause (`gui/backup_runs.go`, `backup_pause.go`, `pbscommon/pause.go`) | registry of runs, their contexts, the pause gate | start, Stop, Pause, Resume | Stop at any point of a run, paused or queued | a stopped run ends, a resumed one goes on |
| Set scheduler (`gui/scheduler.go`) | `scheduled_jobs.json`, `runningJobs`, `job_history.json` | tick, start run, Run Now, completion, edits | goroutines that hold an old copy of their set; crash in the middle; whole-file rewrites | one run per set, no due run lost, no edit lost |
| Change detection (`gui/change_detection_job.go`) | per set, runs since the last full read | decide on a full read, store the outcome | failed, requested and skipped runs in any order | the count is the runs since the last full read |
| Schedules (`gui/schedules.go`) | none | `nextRunFor` | calendars, windows, clock changes | the first slot after now |
| Roll back and undelete (`gui/undelete_rollback.go`) | `rollbackHolds`, safety folders with `rollback.json` | roll back, Undo, Delete kept versions, undelete | partial failure, restart, retries, a backup of the set meanwhile | nothing of the user's is lost; Undo puts back |
| Restore (`gui/restore_inline.go`, `pbscommon/didx_reader.go`, `pxar_reader.go`) | chunk cache, prefetch window | folder, file and archive restore | concurrent prefetch, files that reappear | every byte from its chunk; existing files kept |
| Chunk upload (`gui/backup_inline.go`, `pbscommon/pbsapi.go`, `upload_threads.go`, `upload_stall.go`) | chunk state, known digests, in-flight uploads, index | read, chunk, upload, assign, close | many uploads at once, retries, stalls, stop | a finished snapshot has every chunk its indexes name; Stop in time leaves none |
| Payload reuse (`pbscommon/payload_reuse.go`) | previous archive's map | which ranges to reuse | boundaries between reused and new data | the new archive is what a full read gives |
| Chunking (`pbscommon/buzhash.go`) | rolling hash | cut points | - | data only |
| Retry (`pkg/retry/retry.go`, `session.go`) | attempt counter | a call again with back-off, a folder backup again with a new session | what may be retried; what a lost attempt leaves behind | bounded, never after success |
| Source wait, rate limit (`pbscommon/source_wait.go`, `ratelimit.go`) | waits, tokens | wait for a source to return; slow down | stop during a wait | the limit over time, a wait that ends |
| Service API: runs (`gui/api/server.go`, `server_state.go`, `gui/service_runs_watch.go`) | run entries, progress | start, poll, prune | a poll racing the end of a run | every outcome is seen once |
| Service API: login (`gui/api/auth.go`, `token_rotate.go`, `reauth.go`, `peer.go`) | token, file, generations | authorise, rotate, renew | a lost answer, a client with the old token | a client can always come back |
| Image restore (`gui/restore_image.go`, `pbscommon/fidx_reader.go`) | - | copy blocks | read-ahead | every block written |
| Machine backup (`machinebackuplib/`) | used map, bad sectors | read a disk | skipped ranges, retried sectors | used blocks are all read |
| Snapshots and locks (`snapshot/`) | lock file, VSS or elastio-snap | take, release | two processes, a dead owner | one owner; a stale lock is taken over |
| Disk pinning (`gui/diskpin.go`, `diskpin_app.go`) | identities of a set's disks | match, move | disks renumbered between runs | never another disk |
| Image browsing (`gui/imagefs/`) | - | parse file systems | data only | - |
| Keys (`gui/key_store.go`, `key_import.go`, `crypt_key.go`, `pbscommon/crypt.go`) | key files, passphrases | import, use | replacing a key in use | no key lost |
| Log rotation (`gui/log_rotation.go`) | log files | rotate | - | - |
| Configuration (`gui/config.go`, `settings_export.go`) | `config.json` | load, save, import | import beside other changes | nothing dropped |
| Single instance, service start | - | start, find | OS calls | - |
| Window: Restore tab (`gui/frontend/src/App.jsx`) | the list, the open snapshot (`snapshotCtxRef`), its tree, ticks, sidecar, WaitBar | list, open, reload, expand, tick, search hit, restore | answers that come after the user has clicked on | what is shown and ticked is what is restored; nothing says busy for ever |
| Window: folder tree (`DirectoryTree.jsx`, `treeSelection.js`) | a set's folders and what is left out of them | tick, clear, select all; the form's save, edit, clone, clear | taking back one folder below an excluded one | the backup holds what is ticked |
| Window: cards of the runs (`App.jsx`, `gui/service_runs_watch.go`, `pollBackupProgress`) | `runsRef`, `focusRunRef`, the wait for a part of a split backup; `polledRuns`, `following` | progress, completion, listing, reload | poller, watcher and listing tell of the same runs in any order; the service restarts | no card and no wait is left behind |
| Window: forms, dialogs, texts | fields | - | - | - |
| NBD export (`nbd/`), command-line tools, packaging | - | - | - | - |

How they meet: a tick of the scheduler, Run Now and the start of the program
start a goroutine per set (`executeScheduledJob`); it claims the set in
`runningJobs`, asks the operation queue for a place, runs the backup, rewrites
the sets' file for its count and its next run, and writes the history. A roll
back holds its set in `rollbackHolds`, may have the scheduler run a backup
first, and takes the queue's exclusive place. The queue, the claims and the
holds are one process's; the app that works through the service has its own.
A backup is a goroutine that walks the folders one after another and cuts their
archives into chunks, with a pool of workers for each stream that hash and send
them; they meet in the channel `uploadJobs` and the first error latched in
`fatalErr`. A run's reader waits at its `PauseGate` between blocks; the window, the tray and
the service's API close and open it. The window learns of the service's runs
from a poller per run it asked for, from a watcher of all others and, once, from
`GetBackupRuns`; all three send events that the page turns into cards.

## 2. Modules

| Module | Models | State and actions against the code |
|---|---|---|
| `Admission` | the rules of `blockersLocked`, `waitingAhead`, `admitWaitingLocked` | Operators over tickets. `Admits(waiting, running, limit, A)` describes the set a walk admits without walking; `Walk` is the walk, ticket by ticket, and `OperationQueue!LoopAdmits` compares them. |
| `RunRules` | what the queue promises, without a queue | `Grant`, `Open`, `End`: the abstract specification the queue implements (`Rules!Spec`). |
| `OperationQueue` | `operation_queue.go`, whole | One action per region under `opMu` or wait that ends: `Acquire`, `SeeAdmitted`, `CancelQueued`, `CheckSecond`, `TimerFires`, `CancelTimer`, `Finish` (all through `Release`), `BeginWait`, `Wake`; `Connect` opens the PBS session, `SetLimit` saves the setting and `AdmitAnew` (`SetMaxConcurrentRuns`) admits what it lets start; `Stop` and `Tick` are the surroundings. |
| `JobsFile` | every change of `scheduled_jobs.json` | A change reads the list (`BeginEdit`, `BeginRunChange`, `BeginImport`), `Save` replaces the file or fails, `Crash` ends the process between them. `Applied` says what each of the operations makes of the list; a set's first save brings an ID of its own (`App.jsx:2883`), and `RecalculateNextRuns` (`repair`) rewrites the list it read. |
| `SetRuns` | the scheduler's ticks and runs, the full-read count | `Boot` (`RecalculateNextRuns`), `HandleStartupRun`, `Check`, `Fire`, `RunNow`; per goroutine `Skip`, `Claim`, `RunEnds`, `RecordOutcome`, `Complete`, `Leave`; the user's `Edit`, `Enable`, `Disable`, `DeleteScheduledJob`; `Tick`, `Crash`. |
| `RollbackHold` | a set's runs beside its roll backs | `StartRollback`, `Hold`, `Unhold`, `BackUpFirst` (asks for the run), `NoteStart` (reads the clock after it, `undelete_rollback.go:576`), `WaitEnds`, `BackupFailed`, `AdmitRoll`, `Finish` against the runs' `CheckHold`, `Claim`, `AdmitRun`, `RunEnds`, `Leave`. |
| `RollBack` | the files of a roll back, Undo, Delete kept versions | `Begin`, `Move`, `EndMoves`, `Look`, `Extract`, `Finish`; `AskUndo` (reads the record, `undelete_rollback.go:992`), `Enqueue` (looks at the hold, `1006`), `EnterUndo`, `DeleteRestored`, `TakeOut`, `PutBack`, `EndUndo` (which ignores an error of `os.RemoveAll`); `DeleteRollbackCopies`, `ProgramMakes`, `Crash`. |
| `BackupRun` | one folder backup, `backup_inline.go` | A step of the run's goroutine up to its next call or its next look at what workers and Stop do. The attempts: `Connect`, `NextFolder`, `EndFolders`, `FolderErr`, `CatalogErr`, `Again`, `UploadManifest`, `Finish`. A folder (`backupReal`): `OpenFolder`, `CreateIndex`, `WalkChunk`, `WalkFails`, `WalkEnds`. The end of a stream (`EOF`): `TailChunk`, `WaitWorkers`, `CloseIndex`. A worker: `Take`, `Sent`, `SendAgain`, `GiveUp`. The user's `AskStop`. |
| `RunControl` | the pause gate, Pause, Resume, Stop, the life of a run | A closed gate is a numbered channel: `CloseGate`, `OpenGate`; the reader's `ArriveAtGate`, `BeginBlock`, `StopAtGate`, `Finish`; a run's `Start`, `End`, `StoppedInQueue`; a call's steps `Ask`, `PauseRun`, `LookAtGate`, `ResumeRun`, `Tell`, `StopRun`. |
| `RunCards` | the cards of the service's runs and who tells the window of them | The service's `ScheduledStarts`, `RunMoves`, `ServiceRestarts`, `LeavesService`; the poller's `PollStarts`, `Poll`, `PollGivesUp`; the watcher's `WatchLists`, `WatchRun` (`WatchPasses`, `WatchFollows`, `WatchEnds`); the page's `Receive` (`QueuedArrives`, `ProgressArrives`, `CompleteArrives`), `Reload`, `ListingTaken`, `ListingLands`, `AsksForBackup`. |
| `SnapshotBrowser` | the Restore tab | The user's `ListSnapshots`, `ChangeServer`, `SelectSnapshot`, `ReloadSnapshot`, `RestoreHit`, `ExpandFolder`, `CollapseFolder`, `Toggle`, `SelectAll`, `SelectNone`, `ChooseMode`, `RestoreSnapshot`; the answers `ListAnswer`, `OpenAnswered`, `OpenFailed`, `OpenSuperseded`, `MetaAnswer`, `FolderAnswer`, `RestoreEnds`. What is on display is kept as the snapshot it came from. |
| `FolderSelection` | the folder tree and the form's two lists | `Check`, `Uncheck`, `SelectAll` of the tree; `TypeFolder`, `TypeExclusion`, `SaveSet`, `EditSet`, `ClearForm`, `Rerun`, `SwitchType` of the form; `Backed` is what the archive makes of the lists. |

`*MC` modules hold what only TLC needs (symmetry, instances). `*Proofs` modules
hold the theorems. Two of them are about two modules each: `SetProofs` about
`JobsFile` and `RollbackHold`, `WindowProofs` about `FolderSelection` and
`RunCards`. Where both of such a pair would have the same name, one has a prefix
(`HoldInit`, `HoldSpec`, `CardsNext`, `CardsTypeOK`). `JobsFile` and `SetRuns` meet in that a change of the file is
atomic in `SetRuns`: `JobsFile` is where that is examined, and `SavesAreAtomic`
proves it of executions in which no import overlaps another change. `RollbackHold` uses of
the queue only that an exclusive operation runs alone, which `OperationQueue`
proves; `RollBack` uses that roll backs and Undo run alone. `BackupRun` is what
happens between the grant of a place and its release; its server is what the
code says of PBS. `RunControl` takes a
run's turn as given (`Start`): `OperationQueue` says when it comes. `RunCards`
takes the service's runs as they come and go.

### What the models leave out

- `OperationQueue`: names and the queue's message. The clock ticks only past a
  second in which a backup began or ended, because nothing reads a longer
  difference. A backup that loses its PBS session opens it again 25 minutes
  later; it counts as one session.
- `JobsFile`: of a set's fields, one value stands for all that a user edits.
  The order of the list and the unique name are left out (two sets of one model
  value never share a name). A set's next run is not kept here, so that
  what `RecalculateNextRuns` repairs does not show, only that it replaces the file.
- `SetRuns`: a change of the file is one step and does not fail. `NextRun` is
  the first slot after now. Retries inside a run, its mail and its history entry
  are not there.
- `RollbackHold`: one set, its history as a list of time and outcome. `Tick`
  takes it that a roll back reads the clock within `Slack` seconds of having asked
  for its backup: the two lines follow each other. A backup that had ended
  earlier than that would not be recognised, and the wait would not end.
- `RollBack`: folders, links, ACLs and the check of a record's paths. `Saved` is
  what snapshots hold, `Mine` what only the user has. `Look` and `Extract` are
  two steps because a download lies between them. `before`, `older`, `late` and
  `disorder` are history variables: they guard nothing.
- `BackupRun`: an archive is one stream (the code writes two when it detects
  changes by metadata, the second with chunks taken over unsent), and the catalog
  is smaller than a chunk, so that it is sent at its end. Each attempt reads the
  same data. A lost connection is recognised as one (`SessionLost`). A chunk of
  the previous snapshot stays on the server. Which errors are worth another try,
  the delays, the limit on uploads at once, blobs, ACLs, the check for an archive
  of no bytes, notes and the shadow copy are left out. The 25 minutes before the
  second attempt are longer than any worker of the first goes on. A `previous`
  index that does not download leaves no chunk known.
- `RunControl`: the reading of a run is one reader. The setting
  `ParallelBackupRead`, off by default, has workers that read files ahead
  (`pxar.go:965-988`) and do not look at the gate: with it a paused run reads
  ahead at most as many small files as it has workers, and `PausedIsQuiet` speaks
  of the walk only. What a block holds, and the uploads that drain during a pause,
  are left out. `begun` is a history variable.
- `RunCards`: an entry's percentage, name and statistics. A poll asks and tells
  in one step; the watcher's look at an entry of its listing is a later step.
  The sixty seconds of failed polls are the time until `PollGivesUp`. The app leaves
  service mode (`LeavesService`, `service_runs_watch.go:63-67`) when it takes
  scheduling back after the service was stopped (`switchToStandalone`,
  `service_switch.go:47-55`), which leaves the page as it is; the user's switch to
  own settings reloads it (`App.jsx:1750`). That the app loses its
  token is left out. `stray` is a history variable.
- `SnapshotBrowser`: one folder with one file per snapshot. The preview of
  sizes, mounted images and downloads. `strayed` is a history variable.
- `FolderSelection`: which listing of a folder has been read: a box is there
  only when the folders above it were listed, as the code's comment says. `Fold`
  says which paths differ in case only, `Wild` and `Matches` which names are
  patterns to the archive and what they match. Of two entries that differ in case
  only, the tree keeps a state for the first listed and shows the other empty;
  the model lets a click see the state of either. What a user types are paths,
  not patterns.

## 3. Runs

The type invariant of a module is checked by one of its runs. Each
property has a mutant in `PROJECT.json`: an operator such as `NoBroadcast` next
to the definition it replaces, which is the bug the property catches.

| Run | Bounds | Shows |
|---|---|---|
| `queue_safety` | 3 callers with one call each, 2 groups, settings 0 and 9 (the default 1 and the maximum 2), symmetry; 128,004 states | `RunsByTheRules` (the queue implements `RunRules`), `NothingFreeWaits`, `OrderKept`, `LoopAdmits` |
| `queue_live` | 3 callers, 1 group, 1 exit that waits, no symmetry; 190,674 states | `StopEndsTheWait` though no operation ends; `QueuedStarts` and `WaiterReturns` if they end; `ReturnsAfterEarlier` |
| `jobs_file` | 2 sets, 2 settings, 2 writers, 1 import at a time, 3 changes, symmetry | `EditsKept` |
| `set_runs` | 1 set with RunAtStartup, 2 slots, 2 goroutines, 1 edit or Run Now, 1 crash, a full read every second run | `OneRunPerSet`, `DueIsKept`, `CountIsTrue`, `DueRuns` |
| `hold` | 2 runs, 1 roll back at a time, 3 starts, 2 seconds; 26,664 states | `HeldWhileRestoring`, `BackupsWait`, `WaitIsOver` |
| `roll_back` | 1 file, 2 roll backs, 2 callers, 1 file made by another program, 1 crash, symmetry; 2,470,890 states | `KeptIsRecorded`, `UndoPutsBack`, `NothingLost` |
| `backup_run` | 2 folders of up to 2 chunks, 1 of 2 digests in the previous snapshot, 2 attempts, 2 workers, room for 1 chunk, 2 tries, 2 failures, Stop | `CommittedIsWhole`, `StopCommitsNothing`, `RunEnds` |
| `run_control` | 1 run, the window and the tray, 3 closings of the gate | `PausedIsQuiet`, `ControlsArrive` |
| `run_cards` | 1 run of the window's own and 1 scheduled, 1 reload, the app may leave service mode, one event of a run on its way at a time; 6.2 million states | `CardMovesOn`, `EndIsTold` (`CardIsFollowed` and `PartIsFollowed`) |
| `snapshot_browser` | 2 servers, 2 snapshots, one without a sidecar, the other found by a search, 3 calls | `ShownIsSelected`, `BusyEnds` |
| `folder_selection` | 6 paths on 3 levels, 1 of them may be typed | `ClicksAreExact`, `ClearIsLeftOut` |
| `split_parts` | as `run_cards` | a violation: see Findings |

Why the bounds are enough to meet the interesting cases: an overtaken operation
needs three (one that runs, one that waits, one that passes it); an admission
of two at once needs a machine or exclusive operation to leave; a lost update
needs two writers and a third change to notice it; a stale copy of a set needs a
tick, a run that ends and a second goroutine; a stale Undo needs two callers;
undoing out of order needs two roll backs; a reader woken from an older pause
needs two pauses and a third that follows while it is still on its way; a card
that is told of twice needs one run polled and watched; two snapshots mixed
need two answers out of order and a listing of a folder between; taking a
folder back in below an excluded one needs two levels below it; a run that uses
up its attempts needs two failures, and so does a folder that fails beside one
that is kept and a chunk given up; a chunk met again while it is sent needs two
workers and two equal chunks; a walk that finds no room needs one chunk more than
`uploadJobs` holds. `RollBackFiles.cfg` checks the properties of `roll_back` with
two files and one roll back. What the bounds
hide: more calls than
three may starve nobody here, since arrivals end; the theorems cover the safety
part for every number.

### Fairness

- `SlowSpec` (`queue_live`): a goroutine inside `acquireOperation` or woken on
  `opCond` goes on, and the clock moves. Nothing is assumed of the operations:
  `StopEndsTheWait` holds while they work for ever. `QueuedStarts` and
  `WaiterReturns` say `Ending =>`: they assume that each operation ends, which a
  wait for earlier operations cannot do without.
- `SetRuns!FairSpec`: a program that ended is started again (service recovery,
  or the user), its ticker ticks, each goroutine goes on, a backup ends.
- `RollbackHold!FairHoldSpec`: goroutines go on. Strong fairness of the two
  admissions is what `QueuedStarts` and `OrderKept` give: a place that is free
  again and again is reached. Nobody has to click Stop.
- `RunControl!Spec`: a run reads on while it is let (its goroutine), a queued one
  sees that it was stopped. Strong fairness of `StopAtGate`: the context is
  looked at before every file, and a backup has more files; a Stop in a pause
  is seen by the wait itself.
- `BackupRun!Live`: the run's goroutine goes on where it can, and some worker
  does: calls end because they are watched for movement (`upload_stall.go`) or
  limited in time, and reads end or fail.
- `SnapshotBrowser!FairSpec`: each call to the program is answered, with what
  was asked for or an error (the calls have timeouts); the user has to do
  nothing.
- `RunCards!FairCardsSpec` is used by `CardStays.cfg` only: pollers and the watcher
  go on, and the page gets its events.

## 4. Findings

Listed as a violation run; TLC's trace is the sequence of steps:

- `split_parts` (`OnlyThisPartCounts`): the wait for a part of a split backup
  takes a completion that carries its part's backup-id, or none
  (`App.jsx:2674`). The completions the watcher sends for scheduled runs
  (`service_runs_watch.go:106`, `127`) carry none: a schedule that ends while a
  part is uploaded ends the wait, with its own outcome, and the next part is
  asked for. The comment above says "only this part's completion counts,
  matched by its backup-id".

Further disagreements of the code with its documents or comments, or places
where it does what a user would not expect, with a configuration each that shows
them (`tlc -config X.cfg M`), outside the listed runs; of a configuration with
several invariants leave in the one in question:

| Configuration | Property | What happens |
|---|---|---|
| `JobsImport.cfg` (`JobsFileMC`) | `EveryChangeKept` | `mergeSettingsBundle` reads and replaces the sets' file without `jobsFileMu` (`settings_export.go:303`, `355`): a run's Last run, its count or a user's edit saved between is lost, or the import is. `scheduler.go:254-257`: the mutexes keep "this process's read-change-write of scheduled_jobs.json and job_history.json one at a time" |
| `SetRefire.cfg` (`SetRunsMC`) | `NoRepeatedFiring` | a goroutine works with the copy of the set its tick read: when the set's earlier run ends between that read and the look at `runningJobs` (`scheduler.go:1046`), the same scheduled run is started twice. `scheduler.go:1017-1018`: "Repeated firing is prevented by the runningJobs guard and by executeScheduledJob advancing NextRun on completion" |
| `HoldService.cfg` (`RollbackHoldMC`) | `BackupsWait` | with the service, the hold and the exclusive place are the app's and the runs the service's: a scheduled backup reads the folders while the app restores into them. GUI.md:912: "While a roll back runs, the set's own scheduled backups wait" |
| `UndoOrder.cfg` (`RollBackMC`) | `NothingLostInAnyOrder` | the older of two roll backs undone first puts the user's file back, and undoing the newer one then deletes it (`undelete_rollback.go:1022`, `1040`). GUI.md:885: "everything it replaces or removes is kept, so the roll back can be undone" |
| `UndoGaps.cfg` (`RollBackMC`) | `UndoPutsBackRestarted` | the record is written before the first move and after the last (`undelete_rollback.go:751`, `824`): if the app ends between, it names no file, and Undo marks the roll back undone while the files stay in the safety folder. `undelete_rollback.go:506-507`: "so a roll back can be undone, also after the app has been restarted". The same after a record whose write failed, which is only logged (`638`), and for an Undo that reads the record while its roll back is under way and looks at the hold between its release (`622`) and the record's last write |
| `SetFullRead.cfg` (`SetRunsMC`) | `EveryNthRunIsFull` | a goroutine with an old copy decides on the full read by an old count (`scheduler.go:70-73`) |
| `SetModeSwitch.cfg` (`SetRunsMC`) | `OnlyFullReadsReset` | a set edited to data mode during a metadata run has its count reset by a run that reused files (`change_detection_job.go:197-199`) |
| `HoldLost.cfg` (`RollbackHoldMC`) | `HeldWhileRestoring` | two roll backs with a backup first share the hold, and the first to finish gives it back (`undelete_rollback.go:602`) |
| `HoldBackup.cfg` (`RollbackHoldMC`) | `BackedUpFirst` | a run that ended just before is taken for the backup asked for (`undelete_rollback.go:676`); `BackupComesFirst` proves that it ended no more than `Slack` before |
| `RollBackRace.cfg` (`RollBackMC`) | `MadeIsKept` | a file another program makes between the look and the rename is replaced (`pxar_reader.go:1173`, `1229`) |
| `UndoGaps.cfg` (`RollBackMC`) | `UndoPutsBackFailed` | a restore that breaks off reports no file, and Undo leaves what it wrote (`undelete_rollback.go:627`) |
| `UndoGaps.cfg` (`RollBackMC`) | `PutBackIsUndone` | a retried Undo takes files already put back for kept copies that are gone, and never ends well (`undelete_rollback.go:1032`) |
| `BackupNotes.cfg` (`BackupRun`) | `LastAttemptReported` | `failedchunk` is kept when a lost session makes the run start again (`backup_inline.go:1106`, `1663`): a chunk that was on its way when the connection went makes the second attempt, which finishes a whole snapshot, a failed backup. `backup_inline.go:1255-1256`: "only the LAST attempt's results should be reported" |
| `BackupNotes.cfg` (`BackupRun`) | `DoneOfLastAttempt` | `bytesDoneBase` is kept too (`backup_inline.go:1401`): folders archived in the lost attempt are counted twice, in the bar and in the size reported. `backup_inline.go:1097-1098`: "only the FINAL committed attempt's directories ever contribute to jobProg.bytesDoneBase"; `313-315`: "a retried attempt gets a fresh jobProgress" |
| `BackupNotes.cfg` (`BackupRun`) | `FailedIsOmitted` | a folder that fails after its index was made stays in the manifest without a checksum (`pbsapi.go:818-825`), which `backup_inline.go:2194-2200` says no snapshot is finished with. `1225-1226`: "The final manifest simply omits the failed directory's archive" |
| `BackupNotes.cfg` (`BackupRun`) | `WorkersLetGo` | the workers of the catalog's stream are let go by `EOF` alone: a run that ends or starts again before it leaves eight goroutines behind. `465-468`: "so the workers do not stay behind once the session is dropped" |
| `RestoreElsewhere.cfg` (`SnapshotBrowser`) | `RestoresWhereItSays` | the sidecar of a snapshot clicked before is taken when it comes late (`App.jsx:3218`): the in-place question names its folder, and the mode may be chosen for a snapshot that has none |
| `TreeMixed.cfg` (`SnapshotBrowser`) | `ShownIsAlwaysSelected` | dropping the context starts the generations again at 1 (`App.jsx:3188`): the answer for a snapshot opened before a new list or another server is let in as that of the one opened after |
| `ListDropped.cfg` (`SnapshotBrowser`) | `ListLands` | folders and lists share `waitSeqRef`: a folder that is opened while a list is on its way drops the list. `App.jsx:3129`: "a newer call replaced this one" |
| `FolderNames.cfg` (`FolderSelectionMC`) | `ClicksAreAlwaysExact` | clearing a file whose name holds a `*` or a `?` makes a pattern of it, which leaves out other files of the folder too; a name with a `[` does not match itself and is backed up although its box is clear (`pxar.go:227`, `249-253`). With `Wild = {}`, of two folders that differ in case only, which Linux has: clearing the one drops the other (`treeSelection.js:21-24`), and taking the one back in from an excluded folder may exclude it again, because the way down is found without case and the siblings are compared with it (`92`, `95`) |
| `FolderEdit.cfg` (`FolderSelectionMC`) | `TickedIsBackedUp` | after Edit the exclusions made in the tree stand in the box of exclusions and the tree shows their folders ticked (`App.jsx:5122-5123`). `treeSelection.js:47`: "true (fully included)" |
| `RunTwice.cfg` (`RunCards`) | `OwnRunsAreLeftAlone` | the watcher's listing read before `polledRuns.Store`, or looked at after `Delete`, makes it follow a run that is polled. `main.go:803`: "watchServiceRuns leaves this run to us" |
| `CardStays.cfg` (`RunCards`) | `NoCardStays` | a listing that a reloaded page asked for may land after the run's completion, and nobody removes the card (`App.jsx:1210-1217`). With `MayLeave = TRUE` so stays the card of a run that was followed when the app left service mode (`service_runs_watch.go:63-67`). `App.jsx:899-900`: "the card moves on to another when its run ends" |
| `PauseShown.cfg` (`RunControl`) | `ShownIsPaused` | a Pause and a Resume at once may tell the window in the other order than they took effect (`backup_pause.go:119-123`, `136-139`) |

## 5. Proofs

`tlapm M.tla` checks each module. Every constant is left open but for the named
assumptions, which the code or the shape of the data gives: the maximum of runs
at once is at least its default and at least one (`LimitAssumption`); a backup
has at least one folder, attempt, worker and send (`SizeAssumption`); the value
that stands for no group, chunk, snapshot, run or goroutine is none
(`NoGroupAssumption`, `NoneAssumption`, `NoRunAssumption`, `IdleAssumption`);
bounds are natural numbers, choices of an instance are booleans
(`LeaveAssumption`); goroutines of an import are not those of a save.

| Module | Theorems | Inductive invariant, and why it is needed |
|---|---|---|
| `OperationQueueProofs` | `TypeCorrect`, `RunsAreCompatible`, `SecondsAreFree`, `NoPlaceLeaked`, `QueueNeverStuck`, `WaitersAreSafe`, `AdmissionsWithinLimit`, `OrderIsKept`, `GroupsAreFifo`, `QueueImplementsRules`, `NobodyWaitsForNothing`, `AdmitsIsTheLoop` | `Inv`. That a session finds its second free needs that no snapshot is younger than the group's last end unless its run goes on (`Seconds`), which needs that the runs of a group take turns (`RunningCompatible`), which needs numbered lists (`Lists`). `Waits` adds what a goroutine on `opCond` knows. Its first part holds lemmas on one admission: it keeps `Compatible`, the limit and the order, and admits somebody into an idle queue; they take the first or the last of a set of tickets, which the order of their numbers has. Its last part is `AdmitsIsTheLoop`: `Walk` is a function by recursion on the numbers of the tickets; that there is such a function, and that it has moved what `Admits` accepts after each number, is shown by a least number where it would not. Two sets that `Admits` accepts have no least ticket to differ in, so it is the only one. Everything proved from `Admits` is proved of the loop |
| `BackupRunProofs` | `TypeCorrect`, `SnapshotIsWhole`, `StopMeansNoSnapshot`, `ReportsAreTrue` | `RunInv`. A finished snapshot is whole because each closed index in it is (`Closed`), which needs what holds of a stream while it is sent (`Streams`): unless it has failed, each place of its index is settled or in `uploadJobs`, and each digest it counts as known is with the server or with a worker; a stream drained without failure has then sent all. `Ahead`, `Behind` and `Reached` place the run's goroutine against the folders; `Committed` says what a finished manifest lists, `Early` what a Stop bars; `Counted` that an attempt counts a folder once. `ReportInv`: workers are there only for an index that is still open (`Attached`), so none is left to change `failedchunk` once a snapshot is finished; the loop leaves no folder without its result (`Passed`); only a Stop is taken for one (`StopSeen`) |
| `SetProofs` (`JobsFile`) | `NoChangeLost`, `SavesAreAtomic`, `FileTypeCorrect`, `EditsAreKept` | `Discipline`: one change at most is under way, its writer holds `jobsFileMu`, and what it read is what the file still holds, as long as no import overlaps another change. `FileInv`, for the types: what a change read is older than the change, so neither a count nor a run time gets ahead of the changes there have been |
| `SetProofs` (`RollbackHold`) | `NoHoldLeaks`, `HoldTypeCorrect`, `RollbacksRunAlone` (under `~Delegated`, the app that runs its own backups), `LoneRollbackHolds` (while at most one roll back of the set is under way), `BackupComesFirst` | `HoldHasOwner`: a hold belongs to a call that will come to the end that gives it back. `Holding`: a roll back past its wait holds the set, in the queue too. `BackedInv`: once past its wait, a roll back that asked for a backup has one in the history that ended well, and the history only grows |
| `SetRunsProofs` | `TypeCorrect`, `NoSetRunsTwice`, `DueRunsAreKept`, `NoClaimLeaks`, `CountOfASetIsTrue` (while the set is in metadata mode), `CountsAreTrue` (while every set is) | `Claims`: each run under way has its set in `runningJobs`. Without it, a goroutine that leaves could clear the claim of another run. `CountInv`: between the end of a run and the store of its outcome, what there is to count is one more than the set's count after a run that reused files, nothing after one that read all; with two runs of a set this would fail. It speaks of any part of the sets: of one for `CountOfASetIsTrue`, of all for `CountsAreTrue` |
| `RollBackProofs` | `TypeCorrect`, `MovesAreRecorded`, `RollBacksLoseNothing`, `UndoRestoresAll` | `RecordInv`: a record is written from the list a call has in memory, which an Undo read before it waited its turn. Each such list covers the safety folder (`MemoryCovers`), which only its own roll back fills (`Once`, `Alone`), before the record claims to name it (`NotTold`). `MineInv`: of a file that a roll back has moved or restored, a content no snapshot has is with it or with an older roll back (`KeptAway`, `ListAway`), so what its Undo deletes is never the last copy; this needs that roll backs happen one at a time and are undone from the newest (`OrderInv`), and what a call has in hand (`Hands`). `BackInv`: of the lists that a roll back ends with, what is kept is what was there, what was restored without a move was not there, and the rest is untouched (`OutcomesAsBefore`); a record, or what an Undo read of it, that is older than the outcome names nothing else (`NothingElse`) and is not read as that of a roll back that succeeded (`NotDone`); and what an Undo is no longer about to do, it has done (`HalfUndone`) |
| `RunControlProofs` | `TypeCorrect`, `PauseIsQuiet`, `ResumeIsHeard` | `OwnChannels`, `Quiet`: two runs never share a channel, and the reader of a paused run that has begun its one block is in it or waits for the channel of the closed gate. Without the second nothing would keep it from the next block. `NoWakeupLost`: a reader asleep waits for the channel of the closed gate or for one that is closed; closed channels stay so, and a queued run waits for none (`QueuedIsAway`) |
| `SnapshotBrowserProofs` | `TypeCorrect`, `TreeIsOfSelected`, `BusyIsForACall` | `Typed` with `CallsOfContext`: a call of the open generation that is not of a dropped context is for the open snapshot of the server it was opened on. Without it an answer that passes the test of the generation could be of any snapshot. `Busy`: "reading" has a call of the open generation, the WaitBar one of its number |
| `WindowProofs` (`FolderSelection`) | `TypeCorrect`, `ClicksExact`, `ClearLeftOut` (under `PlainNames`: no name that the archive takes for a pattern, no two that differ in case only) | none beyond the type: both speak of any tidy form. With plain names the tree compares paths as the disk does (`UnderIsAbove`) and there is one way down. The work is in lemmas on directory trees: the siblings on the way from an excluded folder down to a path, with the path, cover the folder exactly (`BranchAssumption`) |
| `WindowProofs` (`RunCards`) | `CardsTypeCorrect`, `CardsMoveOn`, `EndsAreTold` | `ToldInv`: the run of an event of progress on its way is still followed, or was known when the app left service mode (`ProgressIsFollowed`); otherwise the page could make a card of it that nobody takes away. `OneOfEach`: as in the model, one event of a run is on its way at a time |

TLC checked `RunInv`, `ReportInv`, `MineInv`, `BackInv`, `CountInv`, `BackedInv`,
`NoWakeupLost`, `Busy` and `ToldInv` on the instances of the runs before they were proved, the two of `RollBack` also with
two files and with three roll backs.

`QueueImplementsRules` is the refinement: a step of the queue is a `Grant`,
`Open` or `End` of `RunRules`, or invisible there. It is proved of the safety
part, with the mapping of the `INSTANCE`.

Every safety invariant and action property that a passing run checks is a
theorem. Only model-checked is what must eventually happen (`QueuedStarts`,
`WaiterReturns`, `StopEndsTheWait`, `DueRuns`, `WaitIsOver`, `ControlsArrive`,
`BusyEnds`, `RunEnds`): liveness under fairness is out of the prover's reach. What
these rest on that is safety is proved: nobody waits who could go on
(`NobodyWaitsForNothing`, `QueueNeverStuck`, `WaitersAreSafe`), no wake-up is lost
(`ResumeIsHeard`), no claim and no hold stays behind (`NoClaimLeaks`,
`NoHoldLeaks`), and nothing says busy without a call to come (`BusyIsForACall`).

Where a theorem has a condition, so has the code: `CountOfASetIsTrue` and
`CountsAreTrue` speak of sets that stay in metadata mode (`SetModeSwitch.cfg`) and of executions without a
crash (one between the run and `RecordOutcome` leaves the count behind by one);
`LoneRollbackHolds` of one roll back at a time (`HoldLost.cfg`);
`RollbacksRunAlone` of one process (`HoldService.cfg`); `NoChangeLost`,
`SavesAreAtomic` and `EditsAreKept` of imports that run alone (`JobsImport.cfg`);
`RollBacksLoseNothing` and `UndoRestoresAll` of roll backs undone from the newest
(`UndoOrder.cfg`), the second of those that succeeded (`UndoGaps.cfg`);
`ClicksExact` and `ClearLeftOut` of plain names (`FolderNames.cfg`); `TreeIsOfSelected`
of executions in which no answer of a dropped context was let in
(`TreeMixed.cfg`). The configurations show what happens without the condition.
`ReportsAreTrue` says nothing of files that could not be read, for which the code
reports "partial" too: they are not in the model.

`RunsAreCompatible`, `SecondsAreFree`, `NoPlaceLeaked`, `AdmissionsWithinLimit`,
`GroupsAreFifo`, `QueueNeverStuck`, `NoChangeLost`, `SavesAreAtomic`,
`NoHoldLeaks`, `BackupComesFirst`, `NoClaimLeaks`, `CountOfASetIsTrue`,
`ResumeIsHeard`, `BusyIsForACall` and `ReportsAreTrue` are
proved without a run of their own: the runs keep the properties that these do not
say, or that follow from them.

Limits a reader should know: roll backs and backups exclude each other in one
process only (`HoldService.cfg`), and the runs' calls end, so starvation by
endless arrivals is not in question here.

## 6. Not modelled

- Of the 33,794 lines of JavaScript in the repository, 22,335 are
  `translations.js`, a table of texts in eighteen languages, and most of the
  rest is the page's markup: forms, tables, colours. What of the page has
  behaviour in the sense of these modules, state that calls and events change in
  more than one order, is in `SnapshotBrowser`, `FolderSelection` and
  `RunCards`, which stand for some hundred lines of handlers each. The map cannot
  come near a third of the lines without giving definitions lines they do not
  translate. The program itself is in Go, and so are the sources of the other
  modules.
- The forms and dialogs (`SetTools.jsx`, `ScheduleEditor.jsx`,
  `KeyImportDialog.jsx`, `EncryptionKeyField.jsx`, `ThemePicker.jsx`) keep the
  text of their fields; the calls they make are the program's.
- Ciphers, hashes, file systems inside disk images, and drivers are data or the
  operating system's; a model checker has nothing to interleave there.
- Single instance, service installation, packaging: calls to the system.

## 7. Plan

In this order:

1. `BackupRun` further: the second stream of a split archive with the chunks it
   takes over (`InjectKnownChunk`), a catalog of several chunks, the machine
   backup's workers, and its theorems for them. Abstract specification: a
   snapshot is finished whole or not at all.
2. `TokenRotation` (`gui/api/token_rotate.go`, `reauth.go`): an answer that is
   lost, a restart between the file and the memory; a client can always return.
3. Retry, the rate limiter, the schedule's next slot and the ranges of payload
   reuse as operators against a reference definition.
4. `SnapshotLock` (`snapshot/linux_lock.go`): two processes and a dead owner.
5. The prefetch window of `didx_reader.go`, the machine backup's ranges, disk
   pinning, the key store.

Theorems next: a composition of `RollbackHold` with `RunRules` in place of its
own exclusive place, so that the claim that they fit becomes one; the same of
`SetRuns` with `JobsFile`, for which `SavesAreAtomic` is the first step; `RunCards` with
more than one event of a run on its way.
