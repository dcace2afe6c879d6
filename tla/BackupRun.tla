------------------------------- MODULE BackupRun -------------------------------
(***************************************************************************)
(* One backup run of folders (gui/backup_inline.go): the loop of attempts,  *)
(* each one session with the server and one snapshot, the walk that cuts a  *)
(* folder's archive into chunks, the workers that hash and send them, and   *)
(* the end: the shared catalog, the manifest, the finish.                   *)
(*                                                                          *)
(* A stream (ChunkState) becomes one index of the snapshot: stream 0 of an  *)
(* attempt is the catalog, stream d the archive of folder d.  The server is *)
(* external.  It takes no manifest that names an index without its checksum *)
(* (backup_inline.go:2194-2200).                                            *)
(***************************************************************************)
EXTENDS Naturals, Sequences, FiniteSets, Functions

CONSTANTS
  Folders,     \* how many folders the set has
  Attempts,    \* maxJobAttempts
  Workers,     \* chunkUploadWorkers: the workers of one stream
  Room,        \* how many chunks uploadJobs holds
  MaxSends,    \* how often one chunk is sent at most
  Chunk, Old,  \* chunks by their digests, and those of the previous snapshot
  None,
  MaxChunks,   \* bound: chunks of a folder; the catalog is smaller than one
  MaxFaults    \* bound: calls and reads that fail

ASSUME SizeAssumption == {Folders, Attempts, Workers, Room, MaxSends, MaxChunks} \subseteq Nat \ {0}
ASSUME ChunkAssumption == Old \subseteq Chunk /\ MaxFaults \in Nat
ASSUME NoneAssumption ==
  None \notin Chunk \cup {"stopped", "lost", "failed", "early", "late",
                        "cancelled", "partial", "success"}

Dir == 1..Folders
Stream == 0..Folders

VARIABLES
  pc,        \* what the run's goroutine does next
  attempt,   \* jobAttempt
  dir,       \* the folder of the loop, Folders + 1 after it
  err,       \* why the current stream has failed
  results,   \* per folder of this attempt: dirResults
  catalog,   \* sharedCatalog.entries: the folders the catalog names
  done,      \* jobProg.bytesDoneBase, counted in folders
  outcome,   \* what the run reports
  uploads,   \* per stream: uploadJobs not made, open or closed
  data,      \* the chunks a folder's archive is cut into, and (0) the catalog's
  entries,   \* per stream: its chunks in order, by the digests the workers fill in
  queue,     \* per stream: what waits in uploadJobs
  jobs,      \* the chunks being sent, each by a worker
  known,     \* per stream: knownChunks
  fatal,     \* per stream: fatalErr
  failed,    \* failedchunk > 0
  index,     \* per stream: the index in the manifest, "sure" once it has its checksum
  conn,      \* the session's connection
  has,       \* the chunks the server's session knows
  committed, \* the server has finished the snapshot of this attempt
  stop,      \* Stop, before the last archive has been written or after
  faults

run == <<pc, attempt, dir, err, results, catalog, done, outcome>>
streams == <<uploads, entries, queue, jobs, known, fatal, failed>>
server == <<index, conn, has, committed>>
env == <<stop, faults, data>>
vars == <<run, streams, server, env>>

Error == {"stopped", "lost", "failed"}
Step == {"connect", "next", "open", "index", "walk", "tail", "wait", "assign",
         "err", "again", "manifest", "finish", "over"}

TypeOK ==
  /\ pc \in Step /\ attempt \in 0..Attempts /\ dir \in 1..Folders + 1
  /\ err \in Error \cup {None} /\ results \in [Dir -> {"none", "ok", "failed"}]
  /\ catalog \subseteq Dir /\ done \in 0..Attempts * Folders
  /\ outcome \in {None, "cancelled", "failed", "partial", "success"}
  /\ uploads \in [Stream -> {"none", "open", "closed"}]
  /\ data \in [Stream -> Seq(Chunk)]
  /\ entries \in [Stream -> Seq(Chunk \cup {None})]
  /\ queue \in [Stream -> Seq(1..MaxChunks)]
  /\ jobs \subseteq [stream : Stream, at : 1..MaxChunks, tries : 0..MaxSends - 1]
  /\ known \in [Stream -> SUBSET Chunk] /\ fatal \in [Stream -> Error \cup {None}]
  /\ failed \in BOOLEAN /\ index \in [Stream -> {"none", "open", "sure"}]
  /\ conn \in {"closed", "up", "dead"} /\ has \subseteq Chunk /\ committed \in BOOLEAN
  /\ stop \in {None, "early", "late"} /\ faults \in 0..MaxFaults

Init ==
  /\ pc = "connect" /\ attempt = 0 /\ dir = 1 /\ err = None /\ done = 0
  /\ results = [d \in Dir |-> "none"] /\ catalog = {} /\ outcome = None
  /\ uploads = [s \in Stream |-> "none"]
  /\ entries = [s \in Stream |-> <<>>] /\ queue = [s \in Stream |-> <<>>]
  /\ jobs = {} /\ known = [s \in Stream |-> {}] /\ fatal = [s \in Stream |-> None]
  /\ failed = FALSE /\ index = [s \in Stream |-> "none"]
  /\ conn = "closed" /\ has = {} /\ committed = FALSE
  /\ stop = None /\ faults = 0
  /\ data \in [Stream -> UNION {[1..n -> Chunk] : n \in 1..MaxChunks}]
  /\ Len(data[0]) = 1 /\ data[0][1] \notin Old

InCatalog == dir > Folders
This == IF InCatalog THEN 0 ELSE dir
Busy(s) == {j \in jobs : j.stream = s}

DrainedUnfailed(s) == queue[s] = <<>> /\ Busy(s) = {} /\ fatal[s] = None

\* The workers of s have nothing left to do.
Drained(s) == queue[s] = <<>> /\ Busy(s) = {}

Fault == faults < MaxFaults /\ faults' = faults + 1

\* A call in the session fails: by itself after its retries, or with the
\* connection, which then stays lost (DialTLSContext dials once).
CallFails(e) ==
  \/ conn = "up" /\ Fault /\ e = "failed" /\ UNCHANGED conn
  \/ conn = "up" /\ Fault /\ e = "lost" /\ conn' = "dead"
  \/ conn # "up" /\ e = "lost" /\ UNCHANGED <<conn, faults>>

\* The run ends and its session with it (client.Close).
Over(o) == pc' = "over" /\ outcome' = o /\ conn' = "closed"

-----------------------------------------------------------------------------
(* The loop of attempts *)

\* A session, the catalog's stream and its index.
Connect ==
  /\ pc = "connect" /\ attempt' = attempt + 1
  /\ results' = [d \in Dir |-> "none"] /\ catalog' = {} /\ dir' = 1 /\ has' = {}
  /\ uploads' = [s \in Stream |-> IF s = 0 THEN "open" ELSE "none"]
  /\ entries' = [s \in Stream |-> <<>>]
  /\ known' = [s \in Stream |-> {}] /\ fatal' = [s \in Stream |-> None]
  /\ \/ /\ pc' = "next" /\ conn' = "up"
        /\ index' = [s \in Stream |-> IF s = 0 THEN "open" ELSE "none"]
        /\ UNCHANGED <<outcome, faults>>
     \/ /\ Fault /\ index' = [s \in Stream |-> "none"]
        /\ \/ attempt' >= Attempts /\ Over("failed")
           \/ attempt' < Attempts /\ conn' = "closed" /\ UNCHANGED <<pc, outcome>>
  /\ UNCHANGED <<err, done, queue, jobs, failed, committed, stop, data>>

NextFolder ==
  /\ pc = "next" /\ ~InCatalog
  /\ \/ stop # None /\ Over("cancelled")
     \/ stop = None /\ pc' = "open" /\ UNCHANGED <<outcome, conn>>
  /\ UNCHANGED <<attempt, dir, err, results, catalog, done, streams, index, has, committed, env>>

\* After the folders: the catalog's root table and EOF, if any folder is in it.
EndFolders ==
  /\ pc = "next" /\ InCatalog
  /\ \/ catalog # {} /\ pc' = "tail" /\ UNCHANGED <<outcome, conn>>
     \/ catalog = {} /\ Over("failed")
  /\ UNCHANGED <<attempt, dir, err, results, catalog, done, streams, index, has, committed, env>>

\* The current stream's workers are let go, the error goes to the loop.
Fails(e) ==
  /\ pc' = "err" /\ err' = e
  /\ uploads' = [uploads EXCEPT ![This] = "closed"]

\* A folder's error, by its kind. Only a lost session runs everything again.
\* The error of the catalog fails the run.
FolderErr ==
  /\ pc = "err" /\ ~InCatalog /\ err' = None
  /\ \/ err = "stopped" /\ Over("cancelled") /\ UNCHANGED <<dir, results>>
     \/ /\ err = "lost" /\ attempt >= Attempts
        /\ Over("failed") /\ UNCHANGED <<dir, results>>
     \/ /\ err = "lost" /\ attempt < Attempts
        /\ pc' = "again" /\ conn' = "closed" /\ UNCHANGED <<outcome, dir, results>>
     \/ /\ err = "failed" /\ pc' = "next" /\ dir' = dir + 1
        /\ results' = [results EXCEPT ![dir] = "failed"] /\ UNCHANGED <<outcome, conn>>
  /\ UNCHANGED <<attempt, catalog, done, streams, index, has, committed, env>>

CatalogErr ==
  /\ pc = "err" /\ InCatalog /\ err' = None /\ Over("failed")
  /\ UNCHANGED <<attempt, dir, results, catalog, done, streams, index, has, committed, env>>

\* FolderRerunWait, which Stop ends. Its 25 minutes outlast every worker of the
\* lost session: on a closed connection each of its sends fails at once.
Again ==
  /\ pc = "again"
  /\ \/ stop # None /\ Over("cancelled")
     \/ /\ stop = None /\ \A s \in Stream : Drained(s)
        /\ pc' = "connect" /\ UNCHANGED <<outcome, conn>>
  /\ UNCHANGED <<attempt, dir, err, results, catalog, done, streams, index, has, committed, env>>

-----------------------------------------------------------------------------
(* One folder: backupReal *)

\* The chunks of the previous snapshot are read, if they can be.
OpenFolder ==
  /\ pc = "open"
  /\ \/ Fault /\ pc' = "err" /\ err' = "failed" /\ UNCHANGED <<known, has>>
     \/ /\ pc' = "index" /\ UNCHANGED err
        /\ \/ /\ conn = "up" /\ UNCHANGED faults
              /\ known' = [known EXCEPT ![This] = Old] /\ has' = has \cup Old
           \/ /\ (conn = "up" /\ Fault) \/ (conn # "up" /\ UNCHANGED faults)
              /\ UNCHANGED <<known, has>>
  /\ UNCHANGED <<attempt, dir, results, catalog, done, outcome>>
  /\ UNCHANGED <<uploads, entries, queue, jobs, fatal, failed, index, conn, committed, stop, data>>

\* The archive's workers and its index.
CreateIndex ==
  /\ pc = "index"
  /\ \/ /\ conn = "up" /\ pc' = "walk" /\ index' = [index EXCEPT ![This] = "open"]
        /\ uploads' = [uploads EXCEPT ![This] = "open"] /\ UNCHANGED <<err, conn, faults>>
     \/ \E e \in Error : CallFails(e) /\ Fails(e) /\ UNCHANGED index
  /\ UNCHANGED <<attempt, dir, results, catalog, done, outcome>>
  /\ UNCHANGED <<entries, queue, jobs, known, fatal, failed, has, committed, stop, data>>

\* processChunk: the chunk's place in the index, and the chunk for a worker.
\* The walk waits while uploadJobs is full.
Put ==
  /\ fatal[This] = None
  /\ Len(entries[This]) < Len(data[This]) /\ Len(queue[This]) < Room
  /\ entries' = [entries EXCEPT ![This] = Append(@, None)]
  /\ queue' = [queue EXCEPT ![This] = Append(@, Len(entries[This]) + 1)]

WalkChunk ==
  /\ pc = "walk" /\ Put
  /\ UNCHANGED <<run, uploads, jobs, known, fatal, failed, server, env>>

\* A worker's error, Stop, or what the folder's reading ran into.
WalkFails ==
  /\ pc = "walk"
  /\ \/ fatal[This] # None /\ Fails(fatal[This]) /\ UNCHANGED faults
     \/ stop # None /\ Fails("stopped") /\ UNCHANGED faults
     \/ Fault /\ Fails("failed")
  /\ UNCHANGED <<attempt, dir, results, catalog, done, outcome>>
  /\ UNCHANGED <<entries, queue, jobs, known, fatal, failed, server, stop, data>>

WalkEndsUnasked ==
  /\ pc = "walk" /\ Len(entries[This]) + 1 >= Len(data[dir])
  /\ catalog' = catalog \cup {dir} /\ pc' = "tail"
  /\ UNCHANGED <<attempt, dir, err, results, done, outcome, streams, server, env>>

\* catalog.record, and the look at Stop before the indexes are closed.
WalkEnds ==
  /\ pc = "walk" /\ Len(entries[This]) + 1 >= Len(data[dir])
  /\ catalog' = catalog \cup {dir}
  /\ \/ stop # None /\ Fails("stopped")
     \/ stop = None /\ pc' = "tail" /\ UNCHANGED <<err, uploads>>
  /\ UNCHANGED <<attempt, dir, results, done, outcome>>
  /\ UNCHANGED <<entries, queue, jobs, known, fatal, failed, server, env>>

-----------------------------------------------------------------------------
(* The end of a stream: EOF *)

\* The tail chunk, if any, then no more jobs.
TailChunk ==
  /\ pc = "tail"
  /\ \/ /\ Put \/ (Len(entries[This]) = Len(data[This]) /\ UNCHANGED <<entries, queue>>)
        /\ pc' = "wait" /\ uploads' = [uploads EXCEPT ![This] = "closed"] /\ UNCHANGED err
     \/ fatal[This] # None /\ Fails(fatal[This]) /\ UNCHANGED <<entries, queue>>
  /\ UNCHANGED <<attempt, dir, results, catalog, done, outcome>>
  /\ UNCHANGED <<jobs, known, fatal, failed, server, env>>

WaitUnjoined ==
  /\ pc = "wait"
  /\ \/ fatal[This] # None /\ Fails(fatal[This])
     \/ fatal[This] = None /\ pc' = "assign" /\ UNCHANGED <<err, uploads>>
  /\ UNCHANGED <<attempt, dir, results, catalog, done, outcome>>
  /\ UNCHANGED <<entries, queue, jobs, known, fatal, failed, server, env>>

\* uploadWG.Wait.
WaitWorkers ==
  /\ pc = "wait" /\ Drained(This)
  /\ \/ fatal[This] # None /\ Fails(fatal[This])
     \/ fatal[This] = None /\ pc' = "assign" /\ UNCHANGED <<err, uploads>>
  /\ UNCHANGED <<attempt, dir, results, catalog, done, outcome>>
  /\ UNCHANGED <<entries, queue, jobs, known, fatal, failed, server, env>>

\* AssignDynamicChunks and CloseDynamicIndex. What failed may have been done.
CloseIndex ==
  /\ pc = "assign"
  /\ \/ /\ conn = "up" /\ index' = [index EXCEPT ![This] = "sure"]
        /\ \/ /\ ~InCatalog /\ pc' = "next" /\ dir' = dir + 1 /\ done' = done + 1
              /\ results' = [results EXCEPT ![dir] = "ok"] /\ UNCHANGED <<outcome, conn>>
           \/ /\ InCatalog /\ UNCHANGED <<dir, results, done>>
              /\ \/ (\E d \in Dir : results[d] = "ok") /\ pc' = "manifest" /\ UNCHANGED <<outcome, conn>>
                 \/ (\A d \in Dir : results[d] # "ok") /\ Over("failed")
        /\ UNCHANGED <<err, uploads, faults>>
     \/ /\ \E e \in Error : CallFails(e) /\ Fails(e)
        /\ UNCHANGED <<dir, results, done, outcome, index>>
  /\ UNCHANGED <<attempt, catalog, entries, queue, jobs, known, fatal, failed, has, committed, stop, data>>

-----------------------------------------------------------------------------
(* The end of the session *)

\* UploadManifest names every index that CreateDynamicIndex made.
Listed == {d \in Stream : index[d] # "none"}
Complete == \A d \in Listed : index[d] = "sure"

UploadManifest ==
  /\ pc = "manifest"
  /\ \/ conn = "up" /\ Complete /\ pc' = "finish" /\ UNCHANGED <<outcome, conn, faults>>
     \/ conn = "up" /\ ~Complete /\ Over("failed") /\ UNCHANGED faults
     \/ conn = "up" /\ Fault /\ Over("failed")
     \/ conn # "up" /\ Over("failed") /\ UNCHANGED faults
  /\ UNCHANGED <<attempt, dir, err, results, catalog, done, streams, index, has, committed, stop, data>>

\* What the run reports of a finished snapshot.
Result ==
  IF failed THEN "failed"
  ELSE IF \E d \in Dir : results[d] = "failed" THEN "partial" ELSE "success"

\* The answer may be lost, with the snapshot finished or not.
Finish ==
  /\ pc = "finish"
  /\ \/ conn = "up" /\ committed' = TRUE /\ Over(Result) /\ UNCHANGED faults
     \/ conn = "up" /\ Fault /\ committed' \in BOOLEAN /\ Over("failed")
     \/ conn # "up" /\ Over("failed") /\ UNCHANGED <<committed, faults>>
  /\ UNCHANGED <<attempt, dir, err, results, catalog, done, streams, index, has, stop, data>>
-----------------------------------------------------------------------------
(* The workers of a stream *)

\* cancelCtx: the catalog's stream has none.
Stopped(s) == stop # None /\ s # 0

Latched(s, e) == [fatal EXCEPT ![s] = IF @ = None THEN e ELSE @]

\* A worker takes a chunk: nothing is hashed or sent after Stop or an error. The
\* digest counts as known before the chunk is sent (GetOrSet), so that no other
\* worker sends it too.
Take(s) ==
  /\ queue[s] # <<>> /\ Cardinality(Busy(s)) < Workers
  /\ queue' = [queue EXCEPT ![s] = Tail(@)]
  /\ \/ /\ Stopped(s) /\ fatal' = Latched(s, "stopped")
        /\ UNCHANGED <<entries, known, jobs>>
     \/ /\ ~Stopped(s) /\ fatal[s] # None
        /\ UNCHANGED <<fatal, entries, known, jobs>>
     \/ /\ ~Stopped(s) /\ fatal[s] = None
        /\ LET n == Head(queue[s]) c == data[s][n] IN
           /\ entries' = [entries EXCEPT ![s][n] = c]
           /\ known' = [known EXCEPT ![s] = @ \cup {c}]
           /\ jobs' = IF c \in known[s] THEN jobs
                      ELSE jobs \cup {[stream |-> s, at |-> n, tries |-> 0]}
        /\ UNCHANGED fatal
  /\ UNCHANGED <<run, uploads, failed, server, env>>

Data(j) == data[j.stream][j.at]

Sent(j) ==
  /\ conn = "up" /\ jobs' = jobs \ {j} /\ has' = has \cup {Data(j)}
  /\ UNCHANGED <<run, uploads, entries, queue, known, fatal, failed, index, conn, committed, env>>

SendOnceMore(j) ==
  /\ j.tries < MaxSends /\ ~Stopped(j.stream)
  /\ conn = "up" /\ Fault
  /\ jobs' = (jobs \ {j}) \cup {[j EXCEPT !.tries = @ + 1]}
  /\ UNCHANGED <<run, uploads, entries, queue, known, fatal, failed, server, stop, data>>

\* A failure that is worth another try.
SendAgain(j) ==
  /\ j.tries + 1 < MaxSends /\ ~Stopped(j.stream)
  /\ conn = "up" /\ Fault
  /\ jobs' = (jobs \ {j}) \cup {[j EXCEPT !.tries = @ + 1]}
  /\ UNCHANGED <<run, uploads, entries, queue, known, fatal, failed, server, stop, data>>

\* The chunk is given up: a failed chunk, or Stop, which also ends the wait
\* before another try.
GiveUp(j) ==
  /\ jobs' = jobs \ {j}
  /\ \/ /\ ~Stopped(j.stream) /\ failed' = TRUE
        /\ \E e \in Error : CallFails(e) /\ fatal' = Latched(j.stream, e)
     \/ /\ Stopped(j.stream) /\ UNCHANGED failed
        /\ fatal' = Latched(j.stream, "stopped")
        /\ \/ j.tries > 0 /\ UNCHANGED <<conn, faults>>
           \/ \E e \in Error : CallFails(e)
  /\ UNCHANGED <<run, uploads, entries, queue, known, index, has, committed, stop, data>>

\* CancelBackupRun. It is late once the last folder is being opened (it may
\* turn out to have no archive) or its archive has been written.
AskStop ==
  /\ stop = None /\ pc # "over"
  /\ stop' = IF dir < Folders \/ (dir = Folders /\ pc \in {"connect", "next", "walk", "again"})
             THEN "early" ELSE "late"
  /\ UNCHANGED <<run, streams, server, faults, data>>

-----------------------------------------------------------------------------
Walk == OpenFolder \/ CreateIndex \/ WalkChunk \/ WalkFails \/ WalkEnds
EOF == TailChunk \/ WaitWorkers \/ CloseIndex
Loop == Connect \/ NextFolder \/ EndFolders \/ FolderErr \/ CatalogErr \/ Again
          \/ UploadManifest \/ Finish
Main == Walk \/ EOF \/ Loop
Worker(s) == Take(s) \/ \E j \in Busy(s) : Sent(j) \/ SendAgain(j) \/ GiveUp(j)

Uploading == \E s \in Stream : Worker(s)

Next == Main \/ AskStop \/ Uploading

Spec == Init /\ [][Next]_vars

\* Every call and read returns: they are watched or limited in time.
Live == Spec /\ WF_vars(Main) /\ WF_vars(Uploading)

-----------------------------------------------------------------------------
(* Properties *)

Ok == {d \in Dir : results[d] = "ok"}

\* "an optimistically known chunk from a failed run never ends up referenced by
\* a finalized snapshot" (backup_inline.go:535-540): a finished snapshot has a
\* whole index of every folder reported as backed up, and of the catalog, each
\* chunk hashed and known to the server, and the catalog names these folders.
CommittedIsWhole ==
  committed =>
    /\ catalog = Ok
    /\ \A d \in Ok \cup {0} :
         /\ index[d] = "sure"
         /\ entries[d] = data[d] /\ Range(data[d]) \subseteq has

\* "stop before closing the indexes, so the session is dropped with nothing
\* committed" (backup_inline.go:2420-2421): a Stop before the last archive has
\* been written ends in no snapshot, whichever errors come with it.
StopCommitsNothing == committed => stop # "early"

\* A run comes to its end whatever fails: the walk never waits for workers that
\* have given up, nor EOF for a chunk nobody sends.
RunEnds == <>(pc = "over")

\* "A retried attempt redoes every directory from scratch, so only the LAST
\* attempt's results should be reported" (backup_inline.go:1255-1256).
LastAttemptReported == pc = "finish" /\ failed => \E d \in Dir : results[d] = "failed"

\* "only the FINAL committed attempt's directories ever contribute to
\* jobProg.bytesDoneBase" (backup_inline.go:1097-1099).
DoneOfLastAttempt == committed => done = Cardinality(Ok)

\* "The final manifest simply omits the failed directory's archive"
\* (backup_inline.go:1225-1226).
FailedIsOmitted == pc = "manifest" => Complete

\* A backup that ends with an error closes its streams, "so the workers do not
\* stay behind once the session is dropped" (backup_inline.go:465-468).
WorkersLetGo == pc = "over" => \A s \in Stream : uploads[s] # "open"
===============================================================================
