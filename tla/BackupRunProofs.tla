---------------------------- MODULE BackupRunProofs ----------------------------
(***************************************************************************)
(* A backup run with any number of folders, attempts, workers, chunks and    *)
(* failures: a finished snapshot is whole, a Stop finishes none, and what    *)
(* the run reports is what it has done.                                      *)
(***************************************************************************)
EXTENDS BackupRun, TLAPS

(* What is true of one stream's chunks *)

\* The walk's place n holds its digest, and the digest counts as known.
Settled(s, n) == entries[s][n] = data[s][n] /\ data[s][n] \in known[s]

\* A stream that has not failed has settled each of its places or has it in
\* uploadJobs, and each digest it knows is the server's or on its way.
Places(s) == \A n \in 1..Len(entries[s]) : Settled(s, n) \/ n \in Range(queue[s])
Sending(s) == known[s] \subseteq has \cup {Data(j) : j \in Busy(s)}
Sound(s) == fatal[s] = None => Places(s) /\ Sending(s)

\* A chunk in uploadJobs or with a worker has its place in the index.
Sizes(s) ==
  /\ Len(entries[s]) <= Len(data[s])
  /\ \A i \in 1..Len(queue[s]) : queue[s][i] <= Len(entries[s])
  /\ \A j \in jobs : j.stream = s => j.at <= Len(entries[s])

\* Workers come with the stream: before there is nothing.
Untouched(s) ==
  uploads[s] = "none" => entries[s] = <<>> /\ queue[s] = <<>> /\ Busy(s) = {}

Streams == \A s \in Stream : Sound(s) /\ Sizes(s) /\ Untouched(s)

(* What is true of the run's goroutine *)

\* The folders ahead have no stream and no index, the current one no closed index.
Ahead ==
  \A d \in Dir :
    /\ d > dir => uploads[d] = "none" /\ index[d] = "none"
    /\ d = dir => index[d] # "sure" /\ (pc \in {"next", "open", "index"} => uploads[d] = "none")

\* The catalog names the folders whose walk ended, the results those whose index
\* was closed; what a folder leaves open stays in the manifest.
Behind ==
  \A d \in Dir :
    /\ results[d] = "ok" <=> index[d] = "sure"
    /\ index[d] = "sure" => d \in catalog
    /\ d \in catalog => index[d] # "none"

\* Where the goroutine is, and what it has done by then.
Reached ==
  /\ pc \in {"open", "index", "walk", "again"} => ~InCatalog
  /\ pc \in {"walk", "tail", "wait", "assign"} /\ ~InCatalog => index[dir] = "open"
  /\ pc \in {"tail", "wait", "assign"} /\ ~InCatalog => dir \in catalog
  /\ pc = "walk" => uploads[dir] # "none"
  /\ pc = "tail" => Len(entries[This]) + 1 >= Len(data[This])
  /\ pc \in {"wait", "assign"} => Len(entries[This]) = Len(data[This])
  /\ pc = "assign" => Drained(This) /\ fatal[This] = None
  /\ pc \in {"manifest", "finish"} => InCatalog /\ index[0] = "sure"
  /\ index[0] = "sure" => pc \in {"manifest", "finish", "over"}
  /\ pc = "finish" => Complete
  /\ pc = "connect" => \A s \in Stream : Drained(s)

\* A closed index is whole, and no worker writes to it any more.
Whole(s) == entries[s] = data[s] /\ Range(data[s]) \subseteq has /\ queue[s] = <<>>
Closed == \A s \in Stream : index[s] = "sure" => Whole(s)

Committed == committed => pc = "over" /\ Complete /\ index[0] = "sure"

\* A Stop in time: every way on leads to a look at Stop, or past a folder whose
\* index stays open, with which no manifest is taken.
Barred == \E d \in Dir : d < dir /\ index[d] = "open"
Early ==
  stop = "early" =>
    /\ ~committed
    /\ \/ pc \in {"over", "connect", "again"} \/ Barred
       \/ dir < Folders
       \/ dir = Folders /\ pc \in {"next", "walk"}
       \/ dir = Folders /\ pc = "err" /\ (err # "failed" \/ index[dir] = "open")

\* An attempt counts a folder once.
Counted ==
  /\ pc \in {"connect", "again"} => attempt < Attempts
  /\ attempt = 0 => done = 0 /\ dir = 1 /\ pc \in {"connect", "over"}
  /\ attempt > 0 => done <= (attempt - 1) * Folders + (dir - 1)
  /\ pc = "err" <=> err # None

Cut ==
  /\ \A s \in Stream : Len(data[s]) \in 1..MaxChunks
  /\ Len(data[0]) = 1

RunInv ==
  /\ TypeOK /\ Cut /\ Streams /\ Ahead /\ Behind /\ Reached /\ Closed
  /\ Committed /\ Early /\ Counted
-----------------------------------------------------------------------------
(* Types *)

LEMMA StreamNumbers == Folders \in Nat \ {0} /\ Dir \subseteq Stream /\ 0 \in Stream /\ Dir \subseteq Nat
BY SizeAssumption DEF Dir, Stream

LEMMA ThisIsStream ==
  ASSUME TypeOK
  PROVE  /\ This \in Stream /\ dir \in Nat /\ dir <= Folders + 1
         /\ ~InCatalog => dir \in Dir /\ This = dir
         /\ InCatalog => dir = Folders + 1 /\ This = 0
BY SizeAssumption DEF TypeOK, This, InCatalog, Dir, Stream

\* What an archive is cut into: a sequence of one to MaxChunks chunks.
LEMMA DataIsCut ==
  ASSUME NEW f \in UNION {[1..n -> Chunk] : n \in 1..MaxChunks}
  PROVE  f \in Seq(Chunk) /\ Len(f) \in 1..MaxChunks
<1>1. PICK n \in 1..MaxChunks : f \in [1..n -> Chunk]
  OBVIOUS
<1> QED BY <1>1, SizeAssumption

LEMMA InitTyped ==
  ASSUME Init
  PROVE  TypeOK /\ Cut
<1>1. ASSUME NEW s \in Stream
      PROVE  data[s] \in Seq(Chunk) /\ Len(data[s]) \in 1..MaxChunks
  BY <1>1, DataIsCut DEF Init
<1>2. data \in [Stream -> Seq(Chunk)]
  BY <1>1 DEF Init
<1>3. Cut
  BY <1>1 DEF Init, Cut
<1>4. Attempts \in Nat /\ Folders \in Nat /\ MaxSends \in Nat /\ MaxFaults \in Nat /\ Folders > 0
  BY SizeAssumption, ChunkAssumption
<1>5. done \in 0..Attempts * Folders
  <2>1. Attempts * Folders \in Nat
    BY <1>4
  <2> QED BY <2>1 DEF Init
<1>6. dir \in 1..Folders + 1 /\ attempt \in 0..Attempts /\ faults \in 0..MaxFaults
  BY <1>4 DEF Init
<1>7. /\ uploads \in [Stream -> {"none", "open", "closed"}]
      /\ entries \in [Stream -> Seq(Chunk \cup {None})]
      /\ queue \in [Stream -> Seq(1..MaxChunks)]
      /\ jobs \subseteq [stream : Stream, at : 1..MaxChunks, tries : 0..MaxSends - 1]
      /\ known \in [Stream -> SUBSET Chunk] /\ fatal \in [Stream -> Error \cup {None}]
      /\ index \in [Stream -> {"none", "open", "sure"}]
  BY DEF Init
<1>8. results \in [Dir -> {"none", "ok", "failed"}]
  BY DEF Init
<1> QED BY <1>2, <1>3, <1>5, <1>6, <1>7, <1>8 DEF Init, TypeOK, Step

\* TypeOK in three parts.
RunTyped ==
  /\ pc \in Step /\ attempt \in 0..Attempts /\ dir \in 1..Folders + 1
  /\ err \in Error \cup {None} /\ results \in [Dir -> {"none", "ok", "failed"}]
  /\ catalog \subseteq Dir /\ done \in 0..Attempts * Folders
  /\ outcome \in {None, "cancelled", "failed", "partial", "success"}

StreamsTyped ==
  /\ uploads \in [Stream -> {"none", "open", "closed"}]
  /\ data \in [Stream -> Seq(Chunk)]
  /\ entries \in [Stream -> Seq(Chunk \cup {None})]
  /\ queue \in [Stream -> Seq(1..MaxChunks)]
  /\ jobs \subseteq [stream : Stream, at : 1..MaxChunks, tries : 0..MaxSends - 1]
  /\ known \in [Stream -> SUBSET Chunk] /\ fatal \in [Stream -> Error \cup {None}]
  /\ failed \in BOOLEAN

ServerTyped ==
  /\ index \in [Stream -> {"none", "open", "sure"}]
  /\ conn \in {"closed", "up", "dead"} /\ has \subseteq Chunk /\ committed \in BOOLEAN
  /\ stop \in {None, "early", "late"} /\ faults \in 0..MaxFaults

LEMMA TypeParts == TypeOK <=> RunTyped /\ StreamsTyped /\ ServerTyped
BY DEF TypeOK, RunTyped, StreamsTyped, ServerTyped

\* What the constants are.
LEMMA Numbers ==
  /\ Folders \in Nat /\ Folders > 0 /\ Attempts \in Nat /\ Attempts > 0
  /\ MaxSends \in Nat /\ MaxSends > 0 /\ MaxChunks \in Nat /\ MaxFaults \in Nat
  /\ Old \subseteq Chunk /\ None \notin Chunk /\ None \notin Error
  /\ None # "early" /\ None # "late"
BY SizeAssumption, ChunkAssumption, NoneAssumption DEF Error

LEMMA HeadTail ==
  ASSUME NEW S, NEW q \in Seq(S), q # <<>>
  PROVE  /\ Head(q) \in S /\ Head(q) = q[1] /\ Tail(q) \in Seq(S)
         /\ Len(q) \in Nat \ {0} /\ Len(Tail(q)) = Len(q) - 1
         /\ \A i \in 1..Len(q) - 1 : Tail(q)[i] = q[i + 1]
<1>1. Len(q) \in Nat /\ Len(q) # 0
  OBVIOUS
<1>2. q[1] \in S
  BY <1>1
<1> QED BY <1>1, <1>2

LEMMA ElementOf ==
  ASSUME NEW S, NEW q \in Seq(S), NEW i \in 1..Len(q)
  PROVE  q[i] \in S
OBVIOUS

LEMMA SetOne ==
  ASSUME NEW S, NEW q \in Seq(S), NEW i \in 1..Len(q), NEW x \in S
  PROVE  /\ Len([q EXCEPT ![i] = x]) = Len(q) /\ [q EXCEPT ![i] = x][i] = x
         /\ \A m \in 1..Len(q) : m # i => [q EXCEPT ![i] = x][m] = q[m]
OBVIOUS

LEMMA AppendRange ==
  ASSUME NEW S, NEW q \in Seq(S), NEW x \in S
  PROVE  Range(q) \cup {x} \subseteq Range(Append(q, x))
<1> DEFINE a == Append(q, x)
<1>1. /\ DOMAIN q = 1..Len(q) /\ Len(q) \in Nat /\ DOMAIN a = 1..Len(q) + 1
      /\ a[Len(q) + 1] = x /\ \A i \in 1..Len(q) : a[i] = q[i]
  OBVIOUS
<1> HIDE DEF a
<1>2. x \in Range(a)
  <2>1. Len(q) + 1 \in DOMAIN a
    BY <1>1
  <2> QED BY <1>1, <2>1 DEF Range
<1>3. ASSUME NEW y \in Range(q)
      PROVE  y \in Range(a)
  <2>1. PICK i \in 1..Len(q) : y = q[i]
    BY <1>1 DEF Range
  <2>2. i \in DOMAIN a /\ y = a[i]
    BY <1>1, <2>1
  <2> QED BY <2>2 DEF Range
<1> QED BY <1>2, <1>3 DEF a

LEMMA TailRange ==
  ASSUME NEW S, NEW q \in Seq(S), q # <<>>
  PROVE  Range(q) \subseteq {Head(q)} \cup Range(Tail(q))
<1> DEFINE r == Tail(q)
<1>1. /\ Head(q) = q[1] /\ Len(q) \in Nat \ {0} /\ r \in Seq(S) /\ Len(r) = Len(q) - 1
      /\ \A i \in 1..Len(q) - 1 : r[i] = q[i + 1]
  BY HeadTail
<1> HIDE DEF r
<1> SUFFICES ASSUME NEW i \in 1..Len(q), i # 1
             PROVE  q[i] \in Range(r)
  BY <1>1 DEF Range, r
<1>2. i - 1 \in 1..Len(q) - 1 /\ (i - 1) + 1 = i
  BY <1>1
<1>3. i - 1 \in DOMAIN r /\ r[i - 1] = q[i]
  BY <1>1, <1>2
<1> QED BY <1>3 DEF Range

LEMMA StreamTypes ==
  ASSUME TypeOK, NEW s \in Stream
  PROVE  /\ entries[s] \in Seq(Chunk \cup {None}) /\ Len(entries[s]) \in Nat
         /\ queue[s] \in Seq(1..MaxChunks) /\ Len(queue[s]) \in Nat
         /\ data[s] \in Seq(Chunk) /\ Len(data[s]) \in Nat
BY DEF TypeOK

\* Put gives the current stream one more place, without a digest, and uploadJobs
\* that place.
LEMMA PutGrows ==
  ASSUME TypeOK, Cut, Put
  PROVE  /\ entries' = [entries EXCEPT ![This] = Append(entries[This], None)]
         /\ queue' = [queue EXCEPT ![This] = Append(queue[This], Len(entries[This]) + 1)]
         /\ Len(entries[This]) + 1 \in 1..MaxChunks
         /\ Len(entries[This]) + 1 <= Len(data[This]) /\ fatal[This] = None
<1>1. This \in Stream /\ Len(entries[This]) \in Nat /\ Len(data[This]) \in 1..MaxChunks
  BY ThisIsStream DEF TypeOK, Cut
<1> QED BY <1>1, Numbers DEF Put

LEMMA PutTyped ==
  ASSUME TypeOK, Cut, Put
  PROVE  entries' \in [Stream -> Seq(Chunk \cup {None})] /\ queue' \in [Stream -> Seq(1..MaxChunks)]
<1>1. /\ Append(entries[This], None) \in Seq(Chunk \cup {None})
      /\ Append(queue[This], Len(entries[This]) + 1) \in Seq(1..MaxChunks)
  BY PutGrows, ThisIsStream, StreamTypes
<1> QED BY <1>1, PutGrows, ThisIsStream DEF TypeOK

LEMMA TakeTyped ==
  ASSUME TypeOK, Cut, NEW s \in Stream, Sizes(s), Take(s)
  PROVE  StreamsTyped'
<1>1. /\ queue[s] \in Seq(1..MaxChunks) /\ queue[s] # <<>>
      /\ Head(queue[s]) \in 1..MaxChunks /\ Tail(queue[s]) \in Seq(1..MaxChunks)
  <2>1. queue[s] \in Seq(1..MaxChunks) /\ queue[s] # <<>>
    BY StreamTypes DEF Take
  <2> QED BY <2>1, HeadTail
<1>2. queue' \in [Stream -> Seq(1..MaxChunks)]
  BY <1>1 DEF Take, TypeOK
<1>3. Head(queue[s]) \in 1..Len(entries[s]) /\ data[s][Head(queue[s])] \in Chunk
  BY <1>1 DEF Sizes, TypeOK, Cut
<1>4. UNCHANGED <<uploads, data, failed>>
  BY DEF Take, env, run
<1>5. CASE Stopped(s) /\ fatal' = Latched(s, "stopped") /\ UNCHANGED <<entries, known, jobs>>
  BY <1>2, <1>4, <1>5 DEF StreamsTyped, TypeOK, Latched, Error
<1>6. CASE UNCHANGED <<fatal, entries, known, jobs>>
  BY <1>2, <1>4, <1>6 DEF StreamsTyped, TypeOK
<1>7. CASE LET n == Head(queue[s]) c == data[s][n] IN
             /\ entries' = [entries EXCEPT ![s][n] = c]
             /\ known' = [known EXCEPT ![s] = @ \cup {c}]
             /\ jobs' = IF c \in known[s] THEN jobs
                        ELSE jobs \cup {[stream |-> s, at |-> n, tries |-> 0]}
             /\ UNCHANGED fatal
  <2> DEFINE n == Head(queue[s])
             c == data[s][n]
  <2>1. [entries[s] EXCEPT ![n] = c] \in Seq(Chunk \cup {None})
    BY <1>3 DEF TypeOK
  <2>2. entries' \in [Stream -> Seq(Chunk \cup {None})]
    BY <1>7, <2>1 DEF TypeOK
  <2>3. known' \in [Stream -> SUBSET Chunk]
    BY <1>3, <1>7 DEF TypeOK
  <2>4. jobs' \subseteq [stream : Stream, at : 1..MaxChunks, tries : 0..MaxSends - 1]
    BY <1>1, <1>7, Numbers DEF TypeOK
  <2> QED BY <1>2, <1>4, <1>7, <2>2, <2>3, <2>4 DEF StreamsTyped, TypeOK
<1> QED BY <1>5, <1>6, <1>7 DEF Take

\* The steps that leave a stream's chunks alone: the loop and what ends a walk.
Calm ==
  \/ NextFolder \/ EndFolders \/ FolderErr \/ CatalogErr \/ Again \/ CreateIndex
  \/ WalkFails \/ WalkEnds \/ WaitWorkers \/ CloseIndex \/ UploadManifest \/ Finish
  \/ AskStop \/ UNCHANGED vars

\* Streams are opened by CreateIndex and closed by Fails, no other is touched.
LEMMA CalmUploads ==
  ASSUME TypeOK, Calm
  PROVE  /\ UNCHANGED <<entries, queue, jobs, known, fatal, failed, has, data>>
         /\ \/ uploads' = uploads
            \/ uploads' = [uploads EXCEPT ![This] = "closed"]
            \/ uploads' = [uploads EXCEPT ![This] = "open"]
<1> USE DEF Fails, streams, server, env, run, vars
<1>1. CASE NextFolder \/ EndFolders \/ FolderErr \/ CatalogErr \/ Again
  BY <1>1 DEF NextFolder, EndFolders, FolderErr, CatalogErr, Again
<1>2. CASE CreateIndex
  BY <1>2 DEF CreateIndex
<1>3. CASE WalkFails \/ WalkEnds \/ WaitWorkers
  BY <1>3 DEF WalkFails, WalkEnds, WaitWorkers
<1>4. CASE CloseIndex
  BY <1>4 DEF CloseIndex
<1>5. CASE UploadManifest \/ Finish \/ AskStop \/ UNCHANGED vars
  BY <1>5 DEF UploadManifest, Finish, AskStop
<1> QED BY <1>1, <1>2, <1>3, <1>4, <1>5 DEF Calm

LEMMA StepIsOneOf ==
  ASSUME [Next]_vars
  PROVE  \/ Calm \/ Connect \/ OpenFolder \/ WalkChunk \/ TailChunk
         \/ \E s \in Stream : Take(s) \/ \E j \in Busy(s) : Sent(j) \/ SendAgain(j) \/ GiveUp(j)
BY DEF Next, Main, Walk, EOF, Loop, Uploading, Worker, Calm

LEMMA GiveUpDoes ==
  ASSUME TypeOK, NEW j \in jobs, GiveUp(j)
  PROVE  /\ jobs' = jobs \ {j} /\ failed' \in BOOLEAN
         /\ fatal' = [fatal EXCEPT ![j.stream] = fatal'[j.stream]]
         /\ fatal'[j.stream] \in Error
         /\ UNCHANGED <<run, uploads, entries, queue, known, index, has, committed, stop, data>>
<1>1. j.stream \in Stream
  BY DEF TypeOK
<1>2. PICK e \in Error : fatal' = Latched(j.stream, e) /\ failed' \in {TRUE, failed}
  BY DEF GiveUp, Error
<1>3. fatal'[j.stream] \in Error
  BY <1>1, <1>2 DEF Latched, TypeOK
<1>4. fatal' = [fatal EXCEPT ![j.stream] = fatal'[j.stream]]
  BY <1>1, <1>2 DEF Latched, TypeOK
<1> QED BY <1>2, <1>3, <1>4 DEF GiveUp, TypeOK

LEMMA StreamsTypedStep ==
  ASSUME TypeOK, Cut, \A s \in Stream : Sizes(s), [Next]_vars
  PROVE  StreamsTyped'
<1>1. CASE Calm
  BY <1>1, CalmUploads, TypeParts, ThisIsStream DEF StreamsTyped
<1>2. CASE Connect
  <2>1. UNCHANGED <<queue, jobs, failed, data>>
    BY <1>2 DEF Connect
  <2>2. /\ uploads' \in [Stream -> {"none", "open", "closed"}]
        /\ entries' \in [Stream -> Seq(Chunk \cup {None})]
        /\ known' \in [Stream -> SUBSET Chunk] /\ fatal' \in [Stream -> Error \cup {None}]
    BY <1>2 DEF Connect
  <2> QED BY <2>1, <2>2, TypeParts DEF StreamsTyped
<1>3. CASE OpenFolder
  <2>1. UNCHANGED <<uploads, entries, queue, jobs, fatal, failed, data>>
    BY <1>3 DEF OpenFolder
  <2>2. known' \in [Stream -> SUBSET Chunk]
    BY <1>3, Numbers, TypeParts DEF OpenFolder, StreamsTyped
  <2> QED BY <2>1, <2>2, TypeParts DEF StreamsTyped
<1>4. CASE WalkChunk
  <2>1. UNCHANGED <<uploads, jobs, known, fatal, failed, data>> /\ Put
    BY <1>4 DEF WalkChunk, env
  <2> QED BY <2>1, PutTyped, TypeParts DEF StreamsTyped
<1>5. CASE TailChunk
  <2>1. UNCHANGED <<jobs, known, fatal, failed, data>>
    BY <1>5 DEF TailChunk, env
  <2>2. uploads' = [uploads EXCEPT ![This] = "closed"]
    BY <1>5 DEF TailChunk, Fails
  <2>3. Put \/ UNCHANGED <<entries, queue>>
    BY <1>5 DEF TailChunk
  <2> QED BY <2>1, <2>2, <2>3, PutTyped, TypeParts, ThisIsStream DEF StreamsTyped
<1>6. ASSUME NEW s \in Stream, Take(s)
      PROVE  StreamsTyped'
  BY <1>6, TakeTyped
<1>7. ASSUME NEW j \in jobs, Sent(j)
      PROVE  StreamsTyped'
  BY <1>7, TypeParts DEF StreamsTyped, Sent, env
<1>8. ASSUME NEW j \in jobs, SendAgain(j)
      PROVE  StreamsTyped'
  <2>1. [j EXCEPT !.tries = @ + 1] \in [stream : Stream, at : 1..MaxChunks, tries : 0..MaxSends - 1]
    <3>1. j \in [stream : Stream, at : 1..MaxChunks, tries : 0..MaxSends - 1]
      BY DEF TypeOK
    <3>2. j.tries + 1 \in 0..MaxSends - 1
      BY <1>8, <3>1, Numbers DEF SendAgain
    <3> QED BY <3>1, <3>2
  <2>2. UNCHANGED <<uploads, entries, queue, known, fatal, failed, data>>
    BY <1>8 DEF SendAgain
  <2>3. jobs' = (jobs \ {j}) \cup {[j EXCEPT !.tries = @ + 1]}
    BY <1>8 DEF SendAgain
  <2> HIDE DEF SendAgain
  <2> QED BY <2>1, <2>2, <2>3, TypeParts DEF StreamsTyped
<1>9. ASSUME NEW j \in jobs, GiveUp(j)
      PROVE  StreamsTyped'
  BY <1>9, GiveUpDoes, TypeParts DEF StreamsTyped
<1> QED BY StepIsOneOf, <1>1, <1>2, <1>3, <1>4, <1>5, <1>6, <1>7, <1>8, <1>9 DEF Busy

\* What the folders of an attempt add to the count, over all attempts.
LEMMA CountBound ==
  ASSUME NEW a \in Nat, NEW A \in Nat, NEW F \in Nat, NEW d \in Nat, NEW x \in Nat,
         0 < a, a <= A, d <= F + 1, x <= (a - 1) * F + (d - 1)
  PROVE  x <= A * F
<1>1. (a - 1) * F + F = a * F
  OBVIOUS
<1>2. a * F <= A * F
  OBVIOUS
<1>3. (a - 1) * F \in Nat /\ a * F \in Nat /\ A * F \in Nat
  OBVIOUS
<1> HIDE <1>1, <1>2
<1> QED BY <1>1, <1>2, <1>3

LEMMA CountedStep ==
  ASSUME TypeOK, Counted, Reached, [Next]_vars
  PROVE  Counted'
<1> USE DEF Counted, Over, Fails, run, streams, server, env, vars
<1>0. attempt \in Nat /\ attempt <= Attempts /\ dir \in 1..Folders + 1 /\ done \in Nat
  BY SizeAssumption DEF TypeOK
<1>1. CASE Connect
  <2>1. /\ attempt' = attempt + 1 /\ dir' = 1 /\ done' = done /\ pc = "connect" /\ err' = err
        /\ attempt' < Attempts \/ pc' \in {"next", "over"}
        /\ pc' \in {"next", "over", "connect"}
    BY <1>1 DEF Connect
  <2>2. (attempt' - 1) * Folders \in Nat /\ (attempt - 1) * Folders + Folders = attempt * Folders
    BY <1>0, <2>1, Numbers
  <2>3. done <= attempt * Folders
    BY <1>0, <2>2, Numbers
  <2>4. (attempt' - 1) * Folders = attempt * Folders
    BY <1>0, <2>1
  <2>5. attempt' > 0 /\ done' <= (attempt' - 1) * Folders + (dir' - 1)
    BY <1>0, <2>1, <2>3, <2>4, Numbers
  <2>6. err' = None /\ (pc' = "connect" => attempt' < Attempts)
    BY <2>1
  <2> QED BY <1>0, <2>1, <2>5, <2>6
<1>2. CASE CloseIndex
  <2>1. /\ attempt' = attempt /\ pc = "assign" /\ pc' \in {"next", "manifest", "over", "err"}
        /\ (done' = done /\ dir' = dir) \/ (done' = done + 1 /\ dir' = dir + 1)
        /\ pc' = "err" <=> err' # None
    <3>1. err = None
      BY <1>2 DEF CloseIndex
    <3>2. CASE \E e \in Error : CallFails(e) /\ Fails(e)
      <4>1. PICK e \in Error : pc' = "err" /\ err' = e
        BY <3>2
      <4>2. e # None
        BY Numbers
      <4>3. UNCHANGED <<attempt, dir, done>> /\ pc = "assign"
        BY <1>2, <3>2 DEF CloseIndex
      <4> QED BY <4>1, <4>2, <4>3
    <3>3. CASE ~\E e \in Error : CallFails(e) /\ Fails(e)
      <4>1. UNCHANGED <<err, attempt>> /\ pc = "assign"
        BY <1>2, <3>3 DEF CloseIndex
      <4>2. \/ pc' = "next" /\ dir' = dir + 1 /\ done' = done + 1
            \/ pc' \in {"manifest", "over"} /\ UNCHANGED <<dir, done>>
        BY <1>2, <3>3 DEF CloseIndex
      <4> QED BY <3>1, <4>1, <4>2
    <3> QED BY <3>2, <3>3
  <2>2. (attempt - 1) * Folders \in Int
    BY <1>0, Numbers
  <2> QED BY <1>0, <2>1, <2>2
<1>3. CASE FolderErr
  <2>1. /\ attempt' = attempt /\ done' = done /\ pc = "err"
        /\ dir' = dir \/ (dir' = dir + 1 /\ pc' = "next")
        /\ pc' \in {"over", "next"} \/ (pc' = "again" /\ attempt < Attempts)
        /\ err' = None
    <3>1. attempt' = attempt /\ done' = done /\ pc = "err" /\ err' = None
      BY <1>3 DEF FolderErr
    <3>2. \/ pc' = "over" /\ dir' = dir
          \/ pc' = "again" /\ attempt < Attempts /\ dir' = dir
          \/ pc' = "next" /\ dir' = dir + 1
      BY <1>3 DEF FolderErr
    <3> QED BY <3>1, <3>2
  <2>2. (attempt - 1) * Folders \in Int
    BY <1>0, Numbers
  <2> QED BY <1>0, <2>1, <2>2
<1>4. CASE Again
  BY <1>4 DEF Again
<1>5. CASE OpenFolder \/ CreateIndex
  <2>1. UNCHANGED <<attempt, dir, done>> /\ pc \in {"open", "index"} /\ pc' \in {"err", "index", "walk"}
    BY <1>5 DEF OpenFolder, CreateIndex
  <2>2. err = None
    BY <2>1
  <2>3. \/ pc' = "err" /\ err' \in Error
        \/ pc' # "err" /\ err' = err
    BY <1>5 DEF OpenFolder, CreateIndex, Error
  <2> QED BY <2>1, <2>2, <2>3, Numbers
<1>6. CASE WalkFails \/ WalkEnds
  <2>1. UNCHANGED <<attempt, dir, done>> /\ pc = "walk" /\ pc' \in {"err", "tail"}
    BY <1>6 DEF WalkFails, WalkEnds
  <2>2. err = None /\ (pc' = "err" <=> err' # None)
    BY <1>6, Numbers DEF WalkFails, WalkEnds, Error
  <2> QED BY <2>1, <2>2
<1>7. CASE TailChunk \/ WaitWorkers
  <2>1. UNCHANGED <<attempt, dir, done>> /\ pc \in {"tail", "wait"} /\ pc' \in {"err", "wait", "assign"}
    BY <1>7 DEF TailChunk, WaitWorkers
  <2>2. err = None /\ (pc' = "err" <=> err' # None)
    BY <1>7 DEF TailChunk, WaitWorkers
  <2> QED BY <2>1, <2>2
<1>8. CASE NextFolder \/ EndFolders \/ CatalogErr \/ UploadManifest \/ Finish
  BY <1>8 DEF NextFolder, EndFolders, CatalogErr, UploadManifest, Finish
<1>9. CASE WalkChunk \/ AskStop \/ UNCHANGED vars
  BY <1>9 DEF WalkChunk, AskStop
<1>10. ASSUME NEW s \in Stream, NEW j \in jobs, Take(s) \/ Sent(j) \/ SendAgain(j) \/ GiveUp(j)
       PROVE  Counted'
  BY <1>10 DEF Take, Sent, SendAgain, GiveUp
<1>11. ASSUME NEW s \in Stream, Take(s)
       PROVE  Counted'
  BY <1>11 DEF Take
<1> QED BY <1>1, <1>2, <1>3, <1>4, <1>5, <1>6, <1>7, <1>8, <1>9, <1>10, <1>11, StepIsOneOf DEF Calm, Busy

LEMMA RunTypedStep ==
  ASSUME TypeOK, Counted, Reached, [Next]_vars
  PROVE  RunTyped'
<1> USE DEF Over, Fails, run, streams, server, env, vars
<1> DEFINE Others == /\ err' \in Error \cup {None} /\ catalog' \subseteq Dir
                     /\ outcome' \in {None, "cancelled", "failed", "partial", "success"}
           Steps == pc' \in Step
           Dirs == attempt' \in 0..Attempts /\ dir' \in 1..Folders + 1 /\ done' \in Nat
           Results == results' \in [Dir -> {"none", "ok", "failed"}]
           Good == Others /\ Steps /\ Dirs /\ Results
<1>0. /\ attempt \in 0..Attempts /\ dir \in 1..Folders + 1 /\ done \in Nat
      /\ err \in Error \cup {None} /\ catalog \subseteq Dir
      /\ outcome \in {None, "cancelled", "failed", "partial", "success"}
      /\ results \in [Dir -> {"none", "ok", "failed"}] /\ pc \in Step
  <2>1. Attempts * Folders \in Nat
    BY Numbers
  <2> QED BY <2>1 DEF TypeOK
<1>1. ASSUME Connect
      PROVE  Good
  <2>1. Others /\ Steps /\ Results
    BY <1>0, <1>1 DEF Connect, Step
  <2>2. attempt < Attempts /\ attempt' = attempt + 1 /\ dir' = 1 /\ done' = done
    BY <1>1 DEF Connect, Counted
  <2> QED BY <1>0, <2>1, <2>2, Numbers
<1>2. ASSUME CloseIndex
      PROVE  Good
  <2>1. UNCHANGED <<attempt, catalog>> /\ err' \in Error \cup {None}
    BY <1>0, <1>2 DEF CloseIndex
  <2>2. \/ ~InCatalog /\ dir' = dir + 1 /\ done' = done + 1 /\ results' = [results EXCEPT ![dir] = "ok"]
        \/ UNCHANGED <<dir, done, results>>
    BY <1>2 DEF CloseIndex
  <2>3. pc' \in {"next", "manifest", "over", "err"} /\ outcome' \in {outcome, "failed"}
    BY <1>2 DEF CloseIndex
  <2>4. Results /\ Dirs
    BY <1>0, <2>1, <2>2, Numbers DEF InCatalog
  <2> QED BY <1>0, <2>1, <2>3, <2>4 DEF Step
<1>3. ASSUME FolderErr
      PROVE  Good
  <2>1. UNCHANGED <<attempt, done, catalog>> /\ err' = None /\ ~InCatalog
    BY <1>3 DEF FolderErr
  <2>2. \/ dir' = dir + 1 /\ results' = [results EXCEPT ![dir] = "failed"]
        \/ UNCHANGED <<dir, results>>
    BY <1>3 DEF FolderErr
  <2>3. pc' \in {"next", "over", "again"} /\ outcome' \in {outcome, "failed", "cancelled"}
    BY <1>3 DEF FolderErr
  <2>4. Results /\ Dirs
    BY <1>0, <2>1, <2>2, Numbers DEF InCatalog
  <2> QED BY <1>0, <2>1, <2>3, <2>4 DEF Step
<1>4. ASSUME WalkEnds
      PROVE  Good
  <2>1. /\ UNCHANGED <<attempt, dir, done, results, outcome>> /\ pc' \in {"err", "tail"}
        /\ err' \in {err, "stopped"} /\ catalog' = catalog \cup {dir}
    BY <1>4 DEF WalkEnds
  <2>2. dir \in Dir
    BY <1>4, ThisIsStream DEF WalkEnds, Reached
  <2> QED BY <1>0, <2>1, <2>2 DEF Step, Error
<1>5. ASSUME WalkFails \/ TailChunk \/ WaitWorkers
      PROVE  Good
  <2>1. /\ UNCHANGED <<attempt, dir, done, results, outcome, catalog>>
        /\ pc' \in {"err", "wait", "assign"}
    BY <1>5 DEF WalkFails, TailChunk, WaitWorkers
  <2>2. err' \in {err, "stopped", "failed", fatal[This]}
    BY <1>5 DEF WalkFails, TailChunk, WaitWorkers
  <2>3. fatal[This] \in Error \cup {None}
    BY ThisIsStream DEF TypeOK
  <2> QED BY <1>0, <2>1, <2>2, <2>3 DEF Step, Error
<1>6. ASSUME OpenFolder \/ CreateIndex
      PROVE  Good
  <2>1. /\ UNCHANGED <<attempt, dir, done, results, outcome, catalog>>
        /\ pc' \in {"err", "index", "walk"} /\ err' \in Error \cup {err}
    BY <1>6 DEF OpenFolder, CreateIndex, Error
  <2> QED BY <1>0, <2>1 DEF Step
<1>7. ASSUME NextFolder \/ EndFolders \/ CatalogErr \/ Again \/ UploadManifest \/ Finish
      PROVE  Good
  <2>1. UNCHANGED <<attempt, dir, done, results, catalog>> /\ err' \in {err, None}
    BY <1>7 DEF NextFolder, EndFolders, CatalogErr, Again, UploadManifest, Finish
  <2>2. /\ pc' \in {"over", "open", "tail", "connect", "finish"}
        /\ outcome' \in {outcome, "cancelled", "failed", "partial", "success"}
    BY <1>7 DEF NextFolder, EndFolders, CatalogErr, Again, UploadManifest, Finish, Result
  <2> QED BY <1>0, <2>1, <2>2 DEF Step
<1>8. ASSUME WalkChunk \/ AskStop \/ UNCHANGED vars
      PROVE  Good
  BY <1>0, <1>8 DEF WalkChunk, AskStop
<1>9. ASSUME NEW s \in Stream, NEW j \in jobs, Sent(j) \/ SendAgain(j) \/ GiveUp(j)
      PROVE  Good
  BY <1>0, <1>9 DEF Sent, SendAgain, GiveUp
<1>10. ASSUME NEW s \in Stream, Take(s)
       PROVE  Good
  BY <1>0, <1>10 DEF Take
<1>11. Good
  BY <1>1, <1>2, <1>3, <1>4, <1>5, <1>6, <1>7, <1>8, <1>9, <1>10, StepIsOneOf DEF Calm, Busy
<1>12. done' \in 0..Attempts * Folders
  <2>1. Counted'
    BY CountedStep
  <2>2. Attempts * Folders \in Nat
    BY Numbers
  <2>3. CASE attempt' = 0
    BY <2>1, <2>2, <2>3 DEF Counted
  <2>4. CASE attempt' > 0
    <3>1. done' <= (attempt' - 1) * Folders + (dir' - 1)
      BY <2>1, <2>4 DEF Counted
    <3>2. attempt' \in Nat /\ attempt' <= Attempts /\ dir' \in Nat /\ dir' <= Folders + 1 /\ done' \in Nat
      BY <1>11, Numbers
    <3>3. done' <= Attempts * Folders
      BY <2>4, <3>1, <3>2, CountBound, Numbers
    <3> QED BY <2>2, <3>2, <3>3
  <2> QED BY <1>11, <2>3, <2>4
<1> QED BY <1>11, <1>12 DEF RunTyped

LEMMA ServerTypedStep ==
  ASSUME TypeOK, Cut, \A s \in Stream : Sizes(s), [Next]_vars
  PROVE  ServerTyped'
<1> USE DEF Over, Fails, run, streams, server, env, vars
<1> DEFINE Index == index' \in [Stream -> {"none", "open", "sure"}]
           Rest == /\ conn' \in {"closed", "up", "dead"} /\ committed' \in BOOLEAN
                   /\ stop' \in {None, "early", "late"} /\ faults' \in 0..MaxFaults
           Has == has' \subseteq Chunk
<1>0. /\ index \in [Stream -> {"none", "open", "sure"}]
      /\ conn \in {"closed", "up", "dead"} /\ has \subseteq Chunk /\ committed \in BOOLEAN
      /\ stop \in {None, "early", "late"} /\ faults \in 0..MaxFaults
  BY DEF TypeOK
<1>1. Fault => faults' \in 0..MaxFaults
  BY <1>0, Numbers DEF Fault
<1>2. ASSUME NEW e, CallFails(e)
      PROVE  conn' \in {"closed", "up", "dead"} /\ faults' \in 0..MaxFaults
  BY <1>0, <1>1, <1>2 DEF CallFails
<1>3. CASE Connect
  <2>1. Index /\ Has /\ UNCHANGED <<committed, stop>>
    BY <1>3 DEF Connect
  <2>2. conn' \in {"closed", "up"} /\ (faults' = faults \/ Fault)
    BY <1>3 DEF Connect
  <2> QED BY <1>0, <1>1, <2>1, <2>2 DEF ServerTyped
<1>4. CASE OpenFolder
  <2>1. has' \in {has, has \cup Old} /\ UNCHANGED <<index, conn, committed, stop>>
    BY <1>4 DEF OpenFolder
  <2>2. faults' = faults \/ Fault
    BY <1>4 DEF OpenFolder
  <2> QED BY <1>0, <1>1, <2>1, <2>2, Numbers DEF ServerTyped
<1>5. CASE CreateIndex \/ CloseIndex
  <2>1. Index /\ Has /\ UNCHANGED <<committed, stop>>
    BY <1>0, <1>5, ThisIsStream DEF CreateIndex, CloseIndex
  <2>2. Rest
    BY <1>0, <1>2, <1>5, <2>1 DEF CreateIndex, CloseIndex
  <2> QED BY <2>1, <2>2 DEF ServerTyped
<1>6. CASE UploadManifest \/ Finish
  BY <1>0, <1>1, <1>6 DEF UploadManifest, Finish, ServerTyped
<1>7. CASE NextFolder \/ EndFolders \/ FolderErr \/ CatalogErr \/ Again
  BY <1>0, <1>7 DEF NextFolder, EndFolders, FolderErr, CatalogErr, Again, ServerTyped
<1>8. CASE WalkChunk \/ WalkFails \/ WalkEnds \/ TailChunk \/ WaitWorkers \/ UNCHANGED vars
  BY <1>0, <1>1, <1>8 DEF WalkChunk, WalkFails, WalkEnds, TailChunk, WaitWorkers, ServerTyped
<1>9. CASE AskStop
  BY <1>0, <1>9 DEF AskStop, ServerTyped
<1>10. ASSUME NEW s \in Stream, Take(s)
       PROVE  ServerTyped'
  BY <1>0, <1>10 DEF Take, ServerTyped
<1>11. ASSUME NEW j \in jobs, Sent(j)
       PROVE  ServerTyped'
  <2>1. Data(j) \in Chunk
    <3>1. j.stream \in Stream /\ j.at \in 1..MaxChunks /\ j.at <= Len(entries[j.stream])
      BY DEF TypeOK, Sizes
    <3>2. j.at \in 1..Len(data[j.stream])
      BY <3>1, StreamTypes DEF Sizes
    <3> QED BY <3>1, <3>2, StreamTypes DEF Data
  <2> QED BY <1>0, <1>11, <2>1 DEF Sent, ServerTyped
<1>12. ASSUME NEW j \in jobs, SendAgain(j) \/ GiveUp(j)
       PROVE  ServerTyped'
  BY <1>0, <1>1, <1>2, <1>12 DEF SendAgain, GiveUp, ServerTyped
<1> QED BY <1>3, <1>4, <1>5, <1>6, <1>7, <1>8, <1>9, <1>10, <1>11, <1>12, StepIsOneOf
        DEF Calm, Busy, ServerTyped

LEMMA TypeStep ==
  ASSUME TypeOK, Cut, Counted, Reached, \A s \in Stream : Sizes(s), [Next]_vars
  PROVE  TypeOK' /\ Cut'
<1>1. TypeOK'
  BY RunTypedStep, StreamsTypedStep, ServerTypedStep, TypeParts DEF TypeOK, RunTyped, StreamsTyped, ServerTyped
<1>2. data' = data
  BY StepIsOneOf, CalmUploads DEF Connect, OpenFolder, WalkChunk, TailChunk, Take, Sent, SendAgain, GiveUp, env
<1> QED BY <1>1, <1>2 DEF Cut

-----------------------------------------------------------------------------
(* The chunks of a stream *)

\* Nothing of these changes what is true of a stream's chunks but its uploads
\* going back to "none".
LEMMA StreamSame ==
  ASSUME NEW s \in Stream, Sound(s), Sizes(s), Untouched(s),
         UNCHANGED <<entries, queue, jobs, data>>, known'[s] = known[s], fatal'[s] = fatal[s],
         has \subseteq has', uploads'[s] = "none" => uploads[s] = "none"
  PROVE  Sound(s)' /\ Sizes(s)' /\ Untouched(s)'
<1>1. Busy(s)' = Busy(s) /\ \A j \in Busy(s) : Data(j)' = Data(j)
  BY DEF Busy, Data
<1>2. Sending(s) => Sending(s)'
  BY <1>1 DEF Sending
<1>3. Places(s) => Places(s)'
  BY DEF Places, Settled
<1>4. Sound(s)'
  BY <1>2, <1>3 DEF Sound
<1> QED BY <1>1, <1>4 DEF Sizes, Untouched

LEMMA CalmStreams ==
  ASSUME TypeOK, Streams, Calm
  PROVE  Streams'
<1>1. /\ UNCHANGED <<entries, queue, jobs, known, fatal, has, data>>
      /\ \A s \in Stream : uploads'[s] = "none" => uploads[s] = "none"
  BY CalmUploads, ThisIsStream DEF TypeOK
<1> QED BY <1>1, StreamSame DEF Streams

LEMMA ConnectStreams ==
  ASSUME TypeOK, Reached, Connect
  PROVE  Streams'
<1> SUFFICES ASSUME NEW s \in Stream
             PROVE  Sound(s)' /\ Sizes(s)' /\ Untouched(s)'
  BY DEF Streams
<1>1. /\ queue[s] = <<>> /\ Busy(s) = {} /\ UNCHANGED <<queue, jobs, data>>
      /\ entries'[s] = <<>> /\ known'[s] = {}
  BY DEF Connect, Reached, Drained
<1>2. queue'[s] = <<>> /\ Busy(s)' = {} /\ Len(entries'[s]) = 0 /\ Len(queue'[s]) = 0
  BY <1>1 DEF Busy
<1>3. Sound(s)'
  BY <1>1, <1>2 DEF Sound, Places, Sending
<1>4. Sizes(s)'
  BY <1>1, <1>2, StreamTypes DEF Sizes, Busy
<1> QED BY <1>1, <1>2, <1>3, <1>4 DEF Untouched

LEMMA OpenStreams ==
  ASSUME TypeOK, Streams, Ahead, Reached, OpenFolder
  PROVE  Streams'
<1> SUFFICES ASSUME NEW s \in Stream
             PROVE  Sound(s)' /\ Sizes(s)' /\ Untouched(s)'
  BY DEF Streams
<1>1. This = dir /\ dir \in Dir /\ pc = "open"
  BY ThisIsStream DEF Reached, OpenFolder
<1>2. /\ UNCHANGED <<uploads, entries, queue, jobs, fatal, data>> /\ has \subseteq has'
      /\ known' = known \/ (known' = [known EXCEPT ![dir] = Old] /\ Old \subseteq has')
  BY <1>1 DEF OpenFolder
<1>3. CASE known'[s] = known[s]
  BY <1>2, <1>3, StreamSame DEF Streams
<1>4. CASE known'[s] # known[s]
  <2>1. s = dir /\ known'[s] = Old /\ Old \subseteq has'
    BY <1>2, <1>4, <1>1 DEF TypeOK
  <2>2. entries'[s] = <<>> /\ Len(entries'[s]) = 0 /\ Sizes(s) /\ Untouched(s)
    BY <1>1, <1>2, <2>1 DEF Ahead, Streams, Untouched
  <2>3. Sound(s)'
    BY <2>1, <2>2 DEF Sound, Places, Sending
  <2>4. Sizes(s)' /\ Untouched(s)'
    BY <1>2, <2>2 DEF Sizes, Untouched, Busy
  <2> QED BY <2>3, <2>4
<1> QED BY <1>3, <1>4

\* A new place is queued; the others stay as they are.
LEMMA PutStreams ==
  ASSUME TypeOK, Cut, Streams, Put, uploads'[This] # "none",
         \A s \in Stream : uploads'[s] = "none" => uploads[s] = "none",
         UNCHANGED <<jobs, known, fatal, has, data>>
  PROVE  Streams'
<1> SUFFICES ASSUME NEW s \in Stream
             PROVE  Sound(s)' /\ Sizes(s)' /\ Untouched(s)'
  BY DEF Streams
<1>0. Sound(s) /\ Sizes(s) /\ Untouched(s)
  BY DEF Streams
<1>1. CASE s # This
  <2>1. entries'[s] = entries[s] /\ queue'[s] = queue[s]
    BY <1>1, PutGrows, ThisIsStream DEF TypeOK
  <2>2. Busy(s)' = Busy(s) /\ \A j \in Busy(s) : Data(j)' = Data(j)
    BY DEF Busy, Data
  <2>3. Sound(s)'
    BY <1>0, <2>1, <2>2 DEF Sound, Places, Sending, Settled
  <2> QED BY <1>0, <2>1, <2>2, <2>3 DEF Sizes, Untouched
<1>2. CASE s = This
  <2> DEFINE n == Len(entries[s]) + 1
  <2>0. n - 1 \in Nat /\ Len(queue[s]) \in Nat /\ entries[s] \in Seq(Chunk \cup {None})
        /\ queue[s] \in Seq(1..MaxChunks) /\ n \in 1..MaxChunks /\ n <= Len(data[s])
    BY <1>2, StreamTypes, PutGrows
  <2>1. entries'[s] = Append(entries[s], None) /\ queue'[s] = Append(queue[s], n)
    BY <1>2, PutGrows DEF TypeOK
  <2>2. /\ Len(entries'[s]) = n /\ \A m \in 1..Len(entries[s]) : entries'[s][m] = entries[s][m]
        /\ Len(queue'[s]) = Len(queue[s]) + 1 /\ queue'[s][Len(queue[s]) + 1] = n
        /\ \A i \in 1..Len(queue[s]) : queue'[s][i] = queue[s][i]
    BY <2>0, <2>1
  <2>3. Range(queue[s]) \cup {n} \subseteq Range(queue'[s])
    BY <2>0, <2>1, AppendRange
  <2>4. Busy(s)' = Busy(s) /\ \A j \in Busy(s) : Data(j)' = Data(j)
    BY DEF Busy, Data
  <2>5. Places(s) => Places(s)'
    <3> SUFFICES ASSUME Places(s), NEW m \in 1..n
                 PROVE  Settled(s, m)' \/ m \in Range(queue'[s])
      BY <2>2 DEF Places
    <3>1. CASE m = n
      BY <2>3, <3>1
    <3>2. CASE m # n
      <4>1. m \in 1..Len(entries[s])
        BY <2>0, <3>2
      <4>2. Settled(s, m) \/ m \in Range(queue[s])
        BY <4>1 DEF Places
      <4> QED BY <2>2, <2>3, <4>1, <4>2 DEF Settled
    <3> QED BY <3>1, <3>2
  <2>6. Sound(s)'
    BY <1>0, <2>4, <2>5 DEF Sound, Sending
  <2>7. Sizes(s)'
    <3>1. \A i \in 1..Len(queue'[s]) : queue'[s][i] <= n
      <4> TAKE i \in 1..Len(queue'[s])
      <4>1. CASE i = Len(queue[s]) + 1
        BY <2>0, <2>2, <4>1
      <4>2. CASE i # Len(queue[s]) + 1
        <5>1. i \in 1..Len(queue[s])
          BY <2>0, <2>2, <4>2
        <5>2. queue[s][i] \in 1..MaxChunks
          BY <2>0, <5>1, ElementOf
        <5>3. queue[s][i] <= Len(entries[s])
          BY <1>0, <5>1 DEF Sizes
        <5> QED BY <2>0, <2>2, <5>1, <5>2, <5>3, Numbers
      <4> QED BY <4>1, <4>2
    <3>2. \A j \in jobs : j.stream = s => j.at <= n
      BY <1>0, <2>0 DEF Sizes, TypeOK
    <3> QED BY <2>0, <2>2, <3>1, <3>2 DEF Sizes
  <2> QED BY <1>2, <2>6, <2>7 DEF Untouched
<1> QED BY <1>1, <1>2

\* A worker that takes a chunk settles its place: the digest it writes is known
\* already or becomes a chunk under way.
LEMMA TakeStreams ==
  ASSUME TypeOK, Cut, Streams, NEW s \in Stream, Take(s)
  PROVE  Streams'
<1> SUFFICES ASSUME NEW r \in Stream
             PROVE  Sound(r)' /\ Sizes(r)' /\ Untouched(r)'
  BY DEF Streams
<1>0. Sound(r) /\ Sizes(r) /\ Untouched(r) /\ Sound(s) /\ Sizes(s) /\ Untouched(s)
  BY DEF Streams
<1>1. /\ UNCHANGED <<uploads, has, data>> /\ queue[s] # <<>>
      /\ queue' = [queue EXCEPT ![s] = Tail(@)]
  BY DEF Take, run, server, env
<1> DEFINE n == Head(queue[s])
           c == data[s][n]
           job == [stream |-> s, at |-> n, tries |-> 0]
<1>2. \/ fatal'[s] # None /\ UNCHANGED <<entries, known, jobs>>
         /\ \A q \in Stream : q # s => fatal'[q] = fatal[q]
      \/ /\ fatal[s] = None /\ fatal' = fatal
         /\ entries' = [entries EXCEPT ![s][n] = c]
         /\ known' = [known EXCEPT ![s] = @ \cup {c}]
         /\ jobs' = IF c \in known[s] THEN jobs ELSE jobs \cup {job}
  <2>1. Latched(s, "stopped")[s] # None /\ \A q \in Stream : q # s => Latched(s, "stopped")[q] = fatal[q]
    BY NoneAssumption DEF Latched, TypeOK
  <2> QED BY <2>1 DEF Take
<1>3. /\ queue[s] \in Seq(1..MaxChunks) /\ n \in 1..MaxChunks /\ n = queue[s][1]
      /\ Len(queue[s]) \in Nat \ {0} /\ Len(Tail(queue[s])) = Len(queue[s]) - 1
      /\ \A i \in 1..Len(queue[s]) - 1 : Tail(queue[s])[i] = queue[s][i + 1]
      /\ Range(queue[s]) \subseteq {n} \cup Range(Tail(queue[s]))
  BY <1>1, StreamTypes, HeadTail, TailRange
<1>4. n \in 1..Len(entries[s]) /\ Len(entries[s]) \in Nat
  BY <1>0, <1>3, StreamTypes DEF Sizes
<1> HIDE DEF n
<1>5. queue'[s] = Tail(queue[s]) /\ \A q \in Stream : q # s => queue'[q] = queue[q]
  BY <1>1 DEF TypeOK
<1>6. Len(entries'[r]) = Len(entries[r])
  <2>1. CASE entries' = [entries EXCEPT ![s][n] = c] /\ r = s
    <3>1. entries'[s] = [entries[s] EXCEPT ![n] = c]
      BY <2>1 DEF TypeOK
    <3>2. c \in Chunk \cup {None}
      <4>1. n \in 1..Len(data[s])
        BY <1>0, <1>4, StreamTypes DEF Sizes
      <4> QED BY <4>1, StreamTypes, ElementOf
    <3> QED BY <1>4, <2>1, <3>1, <3>2, StreamTypes, SetOne
  <2>2. CASE entries'[r] = entries[r]
    BY <2>2
  <2> QED BY <1>2, <2>1, <2>2 DEF TypeOK
<1>7. Busy(r) \subseteq Busy(r)' /\ \A j : Data(j)' = Data(j)
  BY <1>1, <1>2 DEF Busy, Data
<1>8. Sizes(r)'
  <2>1. \A i \in 1..Len(queue'[r]) : queue'[r][i] <= Len(entries[r])
    <3>1. CASE r = s
      <4> SUFFICES ASSUME NEW i \in 1..Len(queue'[s])
                   PROVE  queue'[s][i] <= Len(entries[s])
        BY <3>1
      <4>1. i \in 1..Len(queue[s]) - 1 /\ i + 1 \in 1..Len(queue[s])
        BY <1>3, <1>5
      <4> QED BY <1>0, <1>3, <1>5, <4>1 DEF Sizes
    <3>2. CASE r # s
      BY <1>0, <1>5, <3>2 DEF Sizes
    <3> QED BY <3>1, <3>2
  <2>2. \A j \in jobs' : j.stream = r => j.at <= Len(entries[r])
    <3>1. job.stream = s /\ job.at = n
      OBVIOUS
    <3> HIDE DEF job
    <3> QED BY <1>0, <1>2, <1>4, <3>1 DEF Sizes
  <2>3. Len(entries[r]) <= Len(data[r]) /\ data' = data
    BY <1>0, <1>1 DEF Sizes
  <2> QED BY <1>6, <2>1, <2>2, <2>3 DEF Sizes
<1>9. Untouched(r)'
  <2>1. CASE r = s
    BY <1>0, <1>1, <2>1 DEF Untouched
  <2>2. CASE r # s
    <3>1. entries'[r] = entries[r] /\ Busy(r)' = Busy(r)
      BY <1>2, <2>2 DEF Busy, TypeOK
    <3> QED BY <1>0, <1>1, <1>5, <2>2, <3>1 DEF Untouched
  <2> QED BY <2>1, <2>2
<1>10. CASE r # s
  <2>1. entries'[r] = entries[r] /\ known'[r] = known[r] /\ fatal'[r] = fatal[r] /\ queue'[r] = queue[r]
    BY <1>2, <1>5, <1>10 DEF TypeOK
  <2>2. Places(r) => Places(r)'
    BY <1>1, <2>1 DEF Places, Settled
  <2>3. Sending(r) => Sending(r)'
    BY <1>1, <1>7, <2>1 DEF Sending
  <2>4. Sound(r)'
    BY <1>0, <2>1, <2>2, <2>3 DEF Sound
  <2> QED BY <1>8, <1>9, <2>4
<1>11. CASE r = s /\ fatal'[s] = None
  <2>1. /\ fatal[s] = None /\ Places(s) /\ Sending(s)
        /\ entries' = [entries EXCEPT ![s][n] = c] /\ known'[s] = known[s] \cup {c}
        /\ jobs' = IF c \in known[s] THEN jobs ELSE jobs \cup {job}
    BY <1>0, <1>2, <1>11 DEF Sound, TypeOK
  <2>2. entries'[s][n] = c /\ \A m \in 1..Len(entries[s]) : m # n => entries'[s][m] = entries[s][m]
    BY <1>4, <2>1, StreamTypes DEF TypeOK
  <2>3. Places(s)'
    <3> SUFFICES ASSUME NEW m \in 1..Len(entries[s])
                 PROVE  Settled(s, m)' \/ m \in Range(queue'[s])
      BY <1>6, <1>11 DEF Places
    <3>1. CASE m = n
      BY <1>1, <2>1, <2>2, <3>1 DEF Settled
    <3>2. CASE m # n
      <4>1. Settled(s, m) \/ m \in Range(queue[s])
        BY <2>1 DEF Places
      <4>2. Settled(s, m) => Settled(s, m)'
        BY <1>1, <2>1, <2>2, <3>2 DEF Settled
      <4> QED BY <1>3, <1>5, <3>2, <4>1, <4>2
    <3> QED BY <3>1, <3>2
  <2>4. Sending(s)'
    <3>1. c \in known[s] \/ job \in Busy(s)'
      BY <2>1 DEF Busy
    <3>2. Data(job) = c
      BY DEF Data
    <3>3. c \in has \cup {Data(j) : j \in Busy(s)'}
      <4>1. CASE c \in known[s]
        BY <1>7, <1>11, <2>1, <4>1 DEF Sending
      <4>2. CASE job \in Busy(s)'
        BY <3>2, <4>2
      <4> QED BY <3>1, <4>1, <4>2
    <3>4. known[s] \subseteq has \cup {Data(j) : j \in Busy(s)'}
      BY <1>7, <1>11, <2>1 DEF Sending
    <3> QED BY <1>1, <1>7, <2>1, <3>3, <3>4 DEF Sending
  <2> QED BY <1>8, <1>9, <1>11, <2>3, <2>4 DEF Sound
<1>12. CASE r = s /\ fatal'[s] # None
  BY <1>8, <1>9, <1>12 DEF Sound
<1> QED BY <1>10, <1>11, <1>12

\* A chunk that is sent is the server's; one tried again is still under way; one
\* given up latches an error for its stream.
LEMMA JobStreams ==
  ASSUME TypeOK, Streams, NEW j \in jobs, Sent(j) \/ SendAgain(j) \/ GiveUp(j)
  PROVE  Streams'
<1> SUFFICES ASSUME NEW s \in Stream
             PROVE  Sound(s)' /\ Sizes(s)' /\ Untouched(s)'
  BY DEF Streams
<1>0. Sound(s) /\ Sizes(s) /\ Untouched(s)
  BY DEF Streams
<1>1. UNCHANGED <<uploads, entries, queue, known, data>> /\ has \subseteq has'
  BY DEF Sent, SendAgain, GiveUp, env, server
<1> DEFINE again == [j EXCEPT !.tries = @ + 1]
<1>2. again.stream = j.stream /\ again.at = j.at
  BY DEF TypeOK
<1>3. jobs' = jobs \ {j} \/ jobs' = (jobs \ {j}) \cup {again}
  BY DEF Sent, SendAgain, GiveUp
<1> HIDE DEF again
<1>4. Sizes(s)'
  BY <1>0, <1>1, <1>2, <1>3 DEF Sizes
<1>5. Untouched(s)'
  BY <1>0, <1>1, <1>2, <1>3 DEF Untouched, Busy
<1>6. \A i : Data(i)' = Data(i)
  BY <1>1 DEF Data
<1>7. Places(s) => Places(s)'
  BY <1>1 DEF Places, Settled
<1>8. \/ fatal' = fatal /\ jobs' = jobs \ {j} /\ has' = has \cup {Data(j)}
      \/ fatal' = fatal /\ jobs' = (jobs \ {j}) \cup {again}
      \/ /\ jobs' = jobs \ {j} /\ fatal'[j.stream] # None
         /\ \A r \in Stream : r # j.stream => fatal'[r] = fatal[r]
  <2>1. CASE GiveUp(j)
    <3>1. fatal' = [fatal EXCEPT ![j.stream] = fatal'[j.stream]] /\ fatal'[j.stream] # None
      BY <2>1, GiveUpDoes, Numbers
    <3> QED BY <2>1, <3>1, GiveUpDoes DEF TypeOK
  <2>2. CASE Sent(j) \/ SendAgain(j)
    BY <2>2 DEF Sent, SendAgain, again
  <2> QED BY <2>1, <2>2
<1>9. ASSUME Sending(s), fatal'[s] = None
      PROVE  Sending(s)'
  <2> SUFFICES ASSUME NEW x \in known[s], x \notin has'
               PROVE  \E i \in Busy(s)' : Data(i)' = x
    BY <1>1 DEF Sending
  <2>1. PICK i \in Busy(s) : Data(i) = x
    BY <1>1, <1>9 DEF Sending
  <2>2. CASE i # j
    BY <1>3, <1>6, <2>1, <2>2 DEF Busy
  <2>3. CASE i = j
    <3>1. j.stream = s
      BY <2>1, <2>3 DEF Busy
    <3>2. jobs' = (jobs \ {j}) \cup {again}
      BY <1>8, <1>9, <2>1, <2>3, <3>1
    <3>3. again \in Busy(s)' /\ Data(again) = Data(j)
      BY <1>2, <3>1, <3>2 DEF Busy, Data
    <3> QED BY <1>6, <2>1, <2>3, <3>3
  <2> QED BY <2>2, <2>3
<1>10. fatal'[s] = None => fatal[s] = None
  BY <1>8
<1>11. Sound(s)'
  BY <1>0, <1>7, <1>9, <1>10 DEF Sound
<1> QED BY <1>4, <1>5, <1>11

LEMMA StreamsStep ==
  ASSUME TypeOK, Cut, Streams, Ahead, Reached, [Next]_vars
  PROVE  Streams'
<1>1. CASE WalkChunk
  <2>1. /\ Put /\ UNCHANGED <<uploads, jobs, known, fatal, has, data>>
        /\ pc = "walk" /\ This = dir
    BY <1>1, ThisIsStream DEF WalkChunk, server, env, Reached
  <2>2. uploads'[This] # "none"
    BY <2>1 DEF Reached
  <2> QED BY <2>1, <2>2, PutStreams
<1>2. CASE TailChunk
  <2>1. /\ uploads' = [uploads EXCEPT ![This] = "closed"]
        /\ UNCHANGED <<jobs, known, fatal, has, data>> /\ (Put \/ UNCHANGED <<entries, queue>>)
    BY <1>2 DEF TailChunk, Fails, server, env
  <2>2. uploads'[This] # "none" /\ \A s \in Stream : uploads'[s] = "none" => uploads[s] = "none"
    BY <2>1, ThisIsStream DEF TypeOK
  <2>3. CASE Put
    BY <2>1, <2>2, <2>3, PutStreams
  <2>4. CASE UNCHANGED <<entries, queue>>
    BY <2>1, <2>2, <2>4, StreamSame DEF Streams
  <2> QED BY <2>1, <2>3, <2>4
<1> QED BY <1>1, <1>2, StepIsOneOf, CalmStreams, ConnectStreams, OpenStreams, TakeStreams, JobStreams
        DEF Busy

-----------------------------------------------------------------------------
(* The run's goroutine *)

\* Workers leave the goroutine's variables alone.
LEMMA WorkerFrame ==
  ASSUME NEW s \in Stream, NEW j, Take(s) \/ Sent(j) \/ SendAgain(j) \/ GiveUp(j)
  PROVE  UNCHANGED <<run, uploads, index, committed, stop, data>> /\ has \subseteq has'
BY DEF Take, Sent, SendAgain, GiveUp, server, env

LEMMA FrameOfTake ==
  ASSUME NEW s \in Stream, Take(s)
  PROVE  UNCHANGED <<run, uploads, index, committed, stop, data, has>>
BY DEF Take, server, env

LEMMA RunTypes ==
  ASSUME TypeOK
  PROVE  /\ 0 \notin Dir /\ Dir \subseteq Nat /\ Dir \subseteq Stream
         /\ This \in Stream /\ dir \in Nat /\ This \in {dir, 0}
         /\ ~InCatalog => This = dir /\ dir \in Dir
         /\ InCatalog => This = 0 /\ dir = Folders + 1
         /\ uploads \in [Stream -> {"none", "open", "closed"}]
         /\ index \in [Stream -> {"none", "open", "sure"}]
         /\ results \in [Dir -> {"none", "ok", "failed"}]
<1>1. 0 \notin Dir /\ Dir \subseteq Nat /\ Dir \subseteq Stream
  BY Numbers DEF Dir, Stream
<1>2. This \in {dir, 0}
  BY DEF This
<1> QED BY <1>1, <1>2, ThisIsStream DEF TypeOK

LEMMA AheadStep ==
  ASSUME TypeOK, Ahead, Reached, [Next]_vars
  PROVE  Ahead'
<1> USE DEF Over, Fails, run, streams, server, env, vars
<1>1. CASE Connect
  <2>1. /\ dir' = 1
        /\ \A d \in Dir : uploads'[d] = "none" /\ index'[d] = "none"
    BY RunTypes, <1>1 DEF Connect
  <2> QED BY RunTypes, <2>1 DEF Ahead
<1>2. CASE NextFolder \/ EndFolders \/ CatalogErr \/ Again \/ UploadManifest \/ Finish
  <2>1. /\ UNCHANGED <<dir, uploads, index>>
        /\ pc' \in {"next", "open", "index"} => pc = "next"
    BY <1>2 DEF NextFolder, EndFolders, CatalogErr, Again, UploadManifest, Finish
  <2> QED BY <2>1 DEF Ahead
<1>3. CASE FolderErr
  <2>1. /\ UNCHANGED <<uploads, index>>
        /\ (dir' = dir + 1 /\ pc' = "next") \/ (dir' = dir /\ pc' \in {"over", "again"})
    BY <1>3 DEF FolderErr
  <2> QED BY RunTypes, <2>1 DEF Ahead
<1>4. CASE OpenFolder
  <2>1. UNCHANGED <<dir, uploads, index>> /\ pc = "open"
    BY <1>4 DEF OpenFolder
  <2> QED BY <2>1 DEF Ahead
<1>5. CASE CreateIndex
  <2>1. /\ dir' = dir /\ pc' \in {"walk", "err"} /\ This = dir
        /\ uploads' = [uploads EXCEPT ![This] = "open"] \/ uploads' = [uploads EXCEPT ![This] = "closed"]
        /\ index' = [index EXCEPT ![This] = "open"] \/ index' = index
    BY RunTypes, <1>5 DEF CreateIndex, Reached
  <2> QED BY RunTypes, <2>1 DEF Ahead
<1>6. CASE WalkFails \/ WalkEnds \/ TailChunk \/ WaitWorkers
  <2>1. /\ UNCHANGED <<dir, index>> /\ pc' \in {"err", "tail", "wait", "assign"}
        /\ uploads' = uploads \/ uploads' = [uploads EXCEPT ![This] = "closed"]
    BY <1>6 DEF WalkFails, WalkEnds, TailChunk, WaitWorkers
  <2> QED BY RunTypes, <2>1 DEF Ahead
<1>7. CASE CloseIndex
  <2>1. \/ /\ dir' = dir /\ index' = index /\ pc' = "err"
           /\ uploads' = [uploads EXCEPT ![This] = "closed"]
        \/ /\ uploads' = uploads /\ index' = [index EXCEPT ![This] = "sure"]
           /\ \/ This = dir /\ dir' = dir + 1 /\ pc' = "next"
              \/ This = 0 /\ dir' = dir /\ pc' \in {"manifest", "over"} /\ InCatalog
    BY RunTypes, <1>7 DEF CloseIndex
  <2> QED BY RunTypes, <2>1 DEF Ahead
<1>8. CASE WalkChunk \/ AskStop \/ UNCHANGED vars
  <2>1. UNCHANGED <<pc, dir, uploads, index>>
    BY <1>8 DEF WalkChunk, AskStop
  <2> QED BY <2>1 DEF Ahead
<1>9. ASSUME NEW s \in Stream, NEW j \in jobs, Sent(j) \/ SendAgain(j) \/ GiveUp(j)
      PROVE  Ahead'
  BY <1>9, WorkerFrame DEF Ahead
<1>10. ASSUME NEW s \in Stream, Take(s)
       PROVE  Ahead'
  BY <1>10, FrameOfTake DEF Ahead
<1> QED BY <1>1, <1>2, <1>3, <1>4, <1>5, <1>6, <1>7, <1>8, <1>9, <1>10, StepIsOneOf DEF Calm, Busy

LEMMA BehindStep ==
  ASSUME TypeOK, Ahead, Behind, Reached, [Next]_vars
  PROVE  Behind'
<1> USE DEF Over, Fails, run, streams, server, env, vars
<1>1. CASE Connect
  <2>1. catalog' = {} /\ \A d \in Dir : results'[d] = "none" /\ index'[d] = "none"
    BY RunTypes, <1>1 DEF Connect
  <2> QED BY <2>1 DEF Behind
<1>2. CASE \/ NextFolder \/ EndFolders \/ CatalogErr \/ Again \/ UploadManifest \/ Finish
           \/ OpenFolder \/ WalkChunk \/ WalkFails \/ TailChunk \/ WaitWorkers \/ AskStop
           \/ UNCHANGED vars
  <2>1. UNCHANGED <<results, catalog, index>>
    BY <1>2 DEF NextFolder, EndFolders, CatalogErr, Again, UploadManifest, Finish,
                OpenFolder, WalkChunk, WalkFails, TailChunk, WaitWorkers, AskStop
  <2> QED BY <2>1 DEF Behind
<1>3. CASE FolderErr
  <2>1. /\ UNCHANGED <<catalog, index>> /\ ~InCatalog
        /\ results' = [results EXCEPT ![dir] = "failed"] \/ results' = results
    BY <1>3 DEF FolderErr
  <2>2. index[dir] # "sure"
    BY RunTypes, <2>1 DEF Ahead
  <2> QED BY RunTypes, <2>1, <2>2 DEF Behind
<1>4. CASE CreateIndex
  <2>1. /\ UNCHANGED <<results, catalog>> /\ This = dir /\ dir \in Dir
        /\ index' = [index EXCEPT ![This] = "open"] \/ index' = index
    BY RunTypes, <1>4 DEF CreateIndex, Reached
  <2>2. index[dir] # "sure"
    BY <2>1 DEF Ahead
  <2> QED BY RunTypes, <2>1, <2>2 DEF Behind
<1>5. CASE WalkEnds
  <2>1. UNCHANGED <<results, index>> /\ catalog' = catalog \cup {dir} /\ index[dir] = "open"
    BY <1>5 DEF WalkEnds, Reached
  <2> QED BY <2>1 DEF Behind
<1>6. CASE CloseIndex
  <2>1. UNCHANGED catalog /\ (~InCatalog => dir \in catalog)
    BY <1>6 DEF CloseIndex, Reached
  <2>2. \/ UNCHANGED <<results, index>>
        \/ InCatalog /\ results' = results /\ index' = [index EXCEPT ![This] = "sure"]
        \/ /\ ~InCatalog /\ results' = [results EXCEPT ![dir] = "ok"]
           /\ index' = [index EXCEPT ![This] = "sure"]
    BY <1>6 DEF CloseIndex
  <2> QED BY RunTypes, <2>1, <2>2 DEF Behind
<1>7. ASSUME NEW s \in Stream, NEW j \in jobs, Sent(j) \/ SendAgain(j) \/ GiveUp(j)
      PROVE  Behind'
  BY <1>7, WorkerFrame DEF Behind
<1>8. ASSUME NEW s \in Stream, Take(s)
       PROVE  Behind'
  BY <1>8, FrameOfTake DEF Behind
<1> QED BY <1>1, <1>2, <1>3, <1>4, <1>5, <1>6, <1>7, <1>8, StepIsOneOf DEF Calm, Busy

\* Workers take nothing of an index that is closed or about to be: its queue is
\* empty. What else they do leaves every place where it is.
LEMMA WorkerReached ==
  ASSUME TypeOK, Cut, Streams, Reached, NEW s \in Stream, NEW j \in Busy(s),
         Sent(j) \/ SendAgain(j) \/ GiveUp(j)
  PROVE  Reached'
<1>1. UNCHANGED <<pc, dir, catalog, uploads, index, data>> /\ This' = This /\ (InCatalog' <=> InCatalog)
  BY WorkerFrame DEF run, This, InCatalog
<1>2. UNCHANGED <<entries, queue>>
  BY DEF Sent, SendAgain, GiveUp
<1>3. /\ pc # "connect" /\ (pc = "assign" => s # This)
  BY ThisIsStream DEF Reached, Drained
<1>4. ASSUME NEW r \in Stream, r # s
      PROVE  Busy(r)' = Busy(r)
  <2>1. j.stream = s /\ [j EXCEPT !.tries = @ + 1].stream = s
    BY DEF Busy, TypeOK
  <2>2. jobs' = jobs \ {j} \/ jobs' = (jobs \ {j}) \cup {[j EXCEPT !.tries = @ + 1]}
    BY DEF Sent, SendAgain, GiveUp
  <2> QED BY <1>4, <2>1, <2>2 DEF Busy
<1>5. ASSUME NEW r \in Stream, r # s
      PROVE  fatal'[r] = fatal[r]
  <2>1. j \in jobs /\ j.stream = s
    BY DEF Busy
  <2>2. fatal' = fatal \/ fatal' = [fatal EXCEPT ![s] = fatal'[s]]
    BY <2>1, GiveUpDoes DEF Sent, SendAgain
  <2> QED BY <1>5, <2>2 DEF TypeOK
<1>6. pc = "assign" => Drained(This)' /\ fatal'[This] = None
  BY <1>1, <1>2, <1>3, <1>4, <1>5, ThisIsStream DEF Reached, Drained
<1>7. Complete' <=> Complete
  BY <1>1 DEF Complete, Listed
<1> QED BY <1>1, <1>2, <1>3, <1>6, <1>7 DEF Reached

LEMMA TakeReached ==
  ASSUME TypeOK, Cut, Streams, Reached, NEW s \in Stream, Take(s)
  PROVE  Reached'
<1>1. UNCHANGED <<pc, dir, catalog, uploads, index, data>> /\ This' = This /\ (InCatalog' <=> InCatalog)
  BY FrameOfTake DEF run, This, InCatalog
<1>2. queue[s] # <<>> /\ queue' = [queue EXCEPT ![s] = Tail(@)]
  BY DEF Take
<1>3. /\ pc # "connect" /\ (pc = "assign" => s # This)
  BY <1>2, ThisIsStream DEF Reached, Drained
<1>4. ASSUME NEW r \in Stream, r # s
      PROVE  Busy(r)' = Busy(r) /\ queue'[r] = queue[r] /\ fatal'[r] = fatal[r] /\ entries'[r] = entries[r]
  BY <1>2, <1>4 DEF Busy, TypeOK, Take, Latched
<1>5. Len(entries'[This]) = Len(entries[This])
  <2>1. CASE This = s
    <3>1. entries' = entries \/ \E n, c : entries' = [entries EXCEPT ![s][n] = c]
      BY DEF Take
    <3>2. CASE entries' = entries
      BY <3>2
    <3>3. CASE entries' # entries
      <4>1. /\ entries' = [entries EXCEPT ![s][Head(queue[s])] = data[s][Head(queue[s])]]
            /\ Head(queue[s]) \in 1..MaxChunks /\ Head(queue[s]) = queue[s][1] /\ 1 \in 1..Len(queue[s])
        <5>1. /\ Head(queue[s]) \in 1..MaxChunks /\ Head(queue[s]) = queue[s][1]
              /\ Len(queue[s]) \in Nat \ {0}
          BY <1>2, StreamTypes, HeadTail
        <5>2. entries' = [entries EXCEPT ![s][Head(queue[s])] = data[s][Head(queue[s])]]
          BY <3>3 DEF Take
        <5> QED BY <5>1, <5>2
      <4>2. /\ Head(queue[s]) <= Len(entries[s]) /\ Len(entries[s]) <= Len(data[s])
        BY <4>1 DEF Streams, Sizes
      <4>3. Head(queue[s]) \in 1..Len(entries[s]) /\ Head(queue[s]) \in 1..Len(data[s])
        BY <4>1, <4>2, StreamTypes, Numbers
      <4>4. data[s][Head(queue[s])] \in Chunk \cup {None}
        BY <4>3, StreamTypes, ElementOf
      <4>5. entries'[s] = [entries[s] EXCEPT ![Head(queue[s])] = data[s][Head(queue[s])]]
        BY <4>1 DEF TypeOK
      <4> QED BY <2>1, <4>3, <4>4, <4>5, SetOne, StreamTypes
    <3> QED BY <3>2, <3>3
  <2>2. CASE This # s
    BY <1>4, <2>2, ThisIsStream
  <2> QED BY <2>1, <2>2
<1>6. pc = "assign" => Drained(This)' /\ fatal'[This] = None
  BY <1>1, <1>3, <1>4, ThisIsStream DEF Reached, Drained
<1>7. Complete' <=> Complete
  BY <1>1 DEF Complete, Listed
<1> QED BY <1>1, <1>3, <1>5, <1>6, <1>7 DEF Reached

LEMMA ReachedStep ==
  ASSUME TypeOK, Cut, Streams, Ahead, Reached, Counted, [Next]_vars
  PROVE  Reached'
<1> USE DEF Over, Fails, run, streams, server, env, vars
<1>1. CASE Connect
  <2>1. /\ dir' = 1 /\ pc' \in {"next", "over", "connect"} /\ index'[0] \in {"open", "none"}
        /\ UNCHANGED <<queue, jobs>> /\ pc = "connect"
    BY <1>1, StreamNumbers DEF Connect
  <2>2. \A s \in Stream : Drained(s)'
    BY <2>1 DEF Reached, Drained, Busy
  <2>3. pc' \notin {"open", "index", "walk", "again", "tail", "wait", "assign", "manifest", "finish"}
    BY <2>1
  <2>4. index'[0] # "sure"
    BY <2>1
  <2> QED BY <2>2, <2>3, <2>4 DEF Reached
<1>2. CASE NextFolder
  <2>1. UNCHANGED <<dir, index>> /\ pc' \in {"over", "open"} /\ pc = "next" /\ ~InCatalog
    BY <1>2 DEF NextFolder
  <2> QED BY <2>1 DEF Reached, InCatalog
<1>3. CASE EndFolders
  <2>1. UNCHANGED <<dir, index, entries, data>> /\ pc' \in {"over", "tail"} /\ pc = "next" /\ InCatalog
    BY <1>3 DEF EndFolders
  <2>2. Len(entries[0]) \in Nat /\ Len(data[0]) = 1 /\ This = 0 /\ This' = 0 /\ InCatalog'
    BY <2>1, StreamNumbers, StreamTypes DEF Cut, This, InCatalog
  <2>3. Len(entries'[This']) + 1 >= Len(data'[This'])
    <3>1. entries'[This'] = entries[0] /\ data'[This'] = data[0]
      BY <2>1, <2>2
    <3>2. Len(entries[0]) + 1 >= Len(data[0])
      BY <2>2
    <3> QED BY <3>1, <3>2
  <2>4. index'[0] # "sure"
    BY <2>1 DEF Reached
  <2> QED BY <2>1, <2>2, <2>3, <2>4 DEF Reached
<1>4. CASE FolderErr \/ CatalogErr
  <2>1. UNCHANGED index /\ pc' \in {"over", "again", "next"} /\ pc = "err"
    BY <1>4 DEF FolderErr, CatalogErr
  <2>2. pc' = "again" => dir' = dir /\ ~InCatalog
    BY <1>4 DEF FolderErr, CatalogErr
  <2> QED BY <2>1, <2>2 DEF Reached, InCatalog
<1>5. CASE Again
  <2>1. /\ UNCHANGED <<index, queue, jobs>> /\ pc = "again"
        /\ pc' = "over" \/ (pc' = "connect" /\ \A s \in Stream : Drained(s))
    BY <1>5 DEF Again
  <2> QED BY <2>1 DEF Reached, Drained, Busy
<1>6. CASE OpenFolder
  <2>1. UNCHANGED <<dir, index>> /\ pc' \in {"err", "index"} /\ pc = "open"
    BY <1>6 DEF OpenFolder
  <2> QED BY <2>1 DEF Reached, InCatalog
<1>7. CASE CreateIndex
  <2>1. dir' = dir /\ pc = "index" /\ pc' \in {"walk", "err"} /\ This = dir /\ dir \in Dir /\ ~InCatalog
    BY <1>7, RunTypes DEF CreateIndex, Reached
  <2>2. pc' = "walk" => /\ index' = [index EXCEPT ![dir] = "open"]
                        /\ uploads' = [uploads EXCEPT ![dir] = "open"]
    BY <1>7, <2>1 DEF CreateIndex
  <2>3. index'[0] = index[0]
    <3>1. index' = [index EXCEPT ![dir] = "open"] \/ index' = index
      BY <1>7, <2>1 DEF CreateIndex
    <3>2. dir # 0
      BY <2>1, RunTypes
    <3> QED BY <3>1, <3>2, RunTypes, StreamNumbers
  <2> QED BY <2>1, <2>2, <2>3, RunTypes DEF Reached, InCatalog
<1>8. CASE WalkChunk
  <2>1. UNCHANGED <<pc, dir, catalog, uploads, index>> /\ pc = "walk"
    BY <1>8 DEF WalkChunk
  <2> QED BY <2>1 DEF Reached, InCatalog
<1>9. CASE WalkFails \/ WalkEnds
  <2>1. /\ UNCHANGED <<dir, index, entries, data>> /\ pc = "walk" /\ pc' \in {"err", "tail"}
        /\ pc' = "tail" => Len(entries[This]) + 1 >= Len(data[dir]) /\ catalog' = catalog \cup {dir}
    BY <1>9 DEF WalkFails, WalkEnds
  <2>2. This = dir /\ This' = dir
    BY <2>1, RunTypes DEF Reached, This, InCatalog
  <2> QED BY <2>1, <2>2 DEF Reached, InCatalog
<1>10. CASE TailChunk
  <2>1. UNCHANGED <<dir, index, catalog, data>> /\ pc = "tail" /\ pc' \in {"err", "wait"} /\ This' = This
    BY <1>10 DEF TailChunk, This, InCatalog
  <2>2. pc' = "wait" => Len(entries'[This]) = Len(data[This])
    <3>1. CASE Put
      <4>1. entries'[This] = Append(entries[This], None) /\ Len(entries[This]) + 1 <= Len(data[This])
        BY <3>1, PutGrows, ThisIsStream DEF TypeOK
      <4>2. Len(entries'[This]) = Len(entries[This]) + 1
        BY <4>1, ThisIsStream, StreamTypes
      <4> QED BY <2>1, <4>1, <4>2, ThisIsStream, StreamTypes DEF Reached
    <3>2. CASE ~Put
      BY <1>10, <3>2 DEF TailChunk
    <3> QED BY <3>1, <3>2
  <2> QED BY <2>1, <2>2 DEF Reached, InCatalog
<1>11. CASE WaitWorkers
  <2>1. /\ UNCHANGED <<dir, index, catalog, data, entries, queue, jobs, fatal>> /\ pc = "wait"
        /\ (pc' = "err" \/ (pc' = "assign" /\ fatal[This] = None)) /\ Drained(This)
    BY <1>11 DEF WaitWorkers
  <2>2. This' = This
    BY <2>1 DEF This, InCatalog
  <2> QED BY <2>1, <2>2 DEF Reached, InCatalog, Drained, Busy
<1>12. CASE CloseIndex
  <2>1. /\ pc = "assign" /\ pc' \in {"next", "manifest", "over", "err"} /\ index[0] # "sure"
        /\ pc' \in {"next", "err"} => index'[0] = index[0]
    <3>1. pc = "assign" /\ pc' \in {"next", "manifest", "over", "err"} /\ index[0] # "sure"
      BY <1>12 DEF CloseIndex, Reached
    <3>2. \/ index' = index
          \/ pc' \in {"manifest", "over"}
          \/ index' = [index EXCEPT ![This] = "sure"] /\ ~InCatalog
      BY <1>12 DEF CloseIndex
    <3>3. ~InCatalog => This # 0
      BY RunTypes
    <3> QED BY <3>1, <3>2, <3>3, RunTypes, StreamNumbers
  <2>2. pc' = "manifest" => InCatalog' /\ index'[0] = "sure"
    BY <1>12, RunTypes DEF CloseIndex, InCatalog
  <2> QED BY <2>1, <2>2 DEF Reached
<1>13. CASE UploadManifest
  <2>1. UNCHANGED <<dir, index>> /\ pc = "manifest" /\ (pc' = "over" \/ (pc' = "finish" /\ Complete))
    BY <1>13 DEF UploadManifest
  <2> QED BY <2>1 DEF Reached, InCatalog, Complete, Listed
<1>14. CASE Finish
  <2>1. UNCHANGED index /\ pc' = "over"
    BY <1>14 DEF Finish
  <2> QED BY <2>1 DEF Reached
<1>15. CASE AskStop \/ UNCHANGED vars
  <2>1. UNCHANGED <<pc, dir, catalog, uploads, index, data, entries, queue, jobs, fatal>>
    BY <1>15 DEF AskStop
  <2> QED BY <2>1 DEF Reached, InCatalog, This, Complete, Listed, Drained, Busy
<1> QED BY <1>1, <1>2, <1>3, <1>4, <1>5, <1>6, <1>7, <1>8, <1>9, <1>10, <1>11, <1>12, <1>13, <1>14,
           <1>15, StepIsOneOf, WorkerReached, TakeReached DEF Calm

\* Two sequences of one length with the same elements are the same.
LEMMA SameSequence ==
  ASSUME NEW S, NEW T, NEW q \in Seq(S), NEW r \in Seq(T), Len(q) = Len(r),
         \A i \in 1..Len(q) : q[i] = r[i]
  PROVE  q = r
OBVIOUS

LEMMA RangeOf ==
  ASSUME NEW S, NEW q \in Seq(S), NEW x \in Range(q)
  PROVE  \E i \in 1..Len(q) : x = q[i]
BY DEF Range

\* When the workers have come to their end without an error, every place has its
\* digest and the server every chunk.
LEMMA DrainedIsWhole ==
  ASSUME TypeOK, Streams, NEW s \in Stream, Drained(s), fatal[s] = None,
         Len(entries[s]) = Len(data[s])
  PROVE  Whole(s)
<1>1. queue[s] = <<>> /\ Range(queue[s]) = {} /\ Busy(s) = {}
  BY DEF Drained, Range
<1>2. Places(s) /\ Sending(s)
  BY DEF Streams, Sound
<1>3. \A n \in 1..Len(entries[s]) : Settled(s, n)
  BY <1>1, <1>2 DEF Places
<1>4. entries[s] = data[s]
  BY <1>3, StreamTypes, SameSequence DEF Settled
<1>5. known[s] \subseteq has
  BY <1>1, <1>2 DEF Sending
<1>6. Range(data[s]) \subseteq has
  <2> SUFFICES ASSUME NEW x \in Range(data[s])
               PROVE  x \in has
    OBVIOUS
  <2>1. PICK i \in 1..Len(data[s]) : x = data[s][i]
    BY StreamTypes, RangeOf
  <2> QED BY <1>3, <1>5, <2>1 DEF Settled
<1> QED BY <1>1, <1>4, <1>6 DEF Whole

LEMMA ClosedStep ==
  ASSUME TypeOK, Cut, Streams, Ahead, Reached, Closed, [Next]_vars
  PROVE  Closed'
<1> USE DEF Over, Fails, run, streams, server, env, vars
<1>0. ASSUME UNCHANGED <<entries, queue, data>>, has \subseteq has',
             \A s \in Stream : index'[s] = "sure" => index[s] = "sure" \/ Whole(s)
      PROVE  Closed'
  BY <1>0 DEF Closed, Whole
<1>1. CASE Connect
  <2>1. \A s \in Stream : index'[s] # "sure"
    BY <1>1 DEF Connect
  <2> QED BY <2>1 DEF Closed
<1>2. CASE CreateIndex
  <2>1. index' = [index EXCEPT ![This] = "open"] \/ index' = index
    BY <1>2 DEF CreateIndex
  <2>2. UNCHANGED <<entries, queue, data, has>>
    BY <1>2 DEF CreateIndex
  <2> QED BY <1>0, <2>1, <2>2, RunTypes
<1>3. CASE CloseIndex
  <2>1. index' = [index EXCEPT ![This] = "sure"] \/ index' = index
    BY <1>3 DEF CloseIndex
  <2>2. UNCHANGED <<entries, queue, data, has>> /\ pc = "assign"
    BY <1>3 DEF CloseIndex
  <2>3. Whole(This)
    BY <2>2, RunTypes, DrainedIsWhole DEF Reached
  <2> QED BY <1>0, <2>1, <2>2, <2>3, RunTypes
<1>4. CASE OpenFolder
  <2>1. UNCHANGED <<entries, queue, data, index>> /\ has \subseteq has'
    BY <1>4 DEF OpenFolder
  <2> QED BY <1>0, <2>1
<1>5. CASE WalkChunk \/ TailChunk
  <2>1. UNCHANGED <<data, index, has>> /\ pc \in {"walk", "tail"}
    BY <1>5 DEF WalkChunk, TailChunk
  <2>2. index[This] # "sure"
    BY <2>1, RunTypes DEF Reached
  <2>3. Put \/ UNCHANGED <<entries, queue>>
    BY <1>5 DEF WalkChunk, TailChunk
  <2>4. \A s \in Stream : s # This => entries'[s] = entries[s] /\ queue'[s] = queue[s]
    BY <2>3, PutGrows DEF TypeOK
  <2> QED BY <2>1, <2>2, <2>4 DEF Closed, Whole
<1>6. CASE \/ NextFolder \/ EndFolders \/ FolderErr \/ CatalogErr \/ Again \/ WalkFails \/ WalkEnds
           \/ WaitWorkers \/ UploadManifest \/ Finish \/ AskStop \/ UNCHANGED vars
  <2>1. UNCHANGED index
    BY <1>6 DEF NextFolder, EndFolders, FolderErr, CatalogErr, Again, WalkFails, WalkEnds,
                WaitWorkers, UploadManifest, Finish, AskStop
  <2> QED BY <1>0, <1>6, <2>1, CalmUploads DEF Calm
<1>7. ASSUME NEW s \in Stream, Take(s)
      PROVE  Closed'
  <2>1. UNCHANGED <<index, data, has>> /\ queue[s] # <<>>
    BY <1>7, FrameOfTake DEF Take
  <2>2. \A r \in Stream : r # s => entries'[r] = entries[r] /\ queue'[r] = queue[r]
    BY <1>7 DEF Take, TypeOK
  <2>3. index[s] # "sure"
    BY <2>1 DEF Closed, Whole
  <2> QED BY <2>1, <2>2, <2>3 DEF Closed, Whole
<1>8. ASSUME NEW s \in Stream, NEW j \in Busy(s), Sent(j) \/ SendAgain(j) \/ GiveUp(j)
      PROVE  Closed'
  <2>1. UNCHANGED <<index, data>> /\ has \subseteq has'
    BY <1>8, WorkerFrame
  <2>2. UNCHANGED <<entries, queue>>
    BY <1>8 DEF Sent, SendAgain, GiveUp
  <2> QED BY <1>0, <2>1, <2>2
<1> QED BY <1>1, <1>2, <1>3, <1>4, <1>5, <1>6, <1>7, <1>8, StepIsOneOf DEF Calm

LEMMA CommittedStep ==
  ASSUME TypeOK, Reached, Committed, [Next]_vars
  PROVE  Committed'
<1> USE DEF Over, Fails, run, streams, server, env, vars
<1>1. CASE Finish
  <2>1. UNCHANGED index /\ pc' = "over" /\ pc = "finish"
    BY <1>1 DEF Finish
  <2> QED BY <2>1 DEF Reached, Committed, Complete, Listed
<1>2. CASE AskStop \/ UNCHANGED vars
  <2>1. UNCHANGED <<pc, index, committed>>
    BY <1>2 DEF AskStop
  <2> QED BY <2>1 DEF Committed, Complete, Listed
<1>3. CASE \/ Connect \/ NextFolder \/ EndFolders \/ FolderErr \/ CatalogErr \/ Again \/ UploadManifest
           \/ OpenFolder \/ CreateIndex \/ WalkChunk \/ WalkFails \/ WalkEnds
           \/ TailChunk \/ WaitWorkers \/ CloseIndex
  <2>1. pc # "over" /\ committed' = committed
    BY <1>3 DEF Connect, NextFolder, EndFolders, FolderErr, CatalogErr, Again, UploadManifest,
                OpenFolder, CreateIndex, WalkChunk, WalkFails, WalkEnds, TailChunk, WaitWorkers, CloseIndex
  <2> QED BY <2>1 DEF Committed
<1>4. ASSUME NEW s \in Stream, NEW j \in Busy(s), Sent(j) \/ SendAgain(j) \/ GiveUp(j)
      PROVE  Committed'
  BY <1>4, WorkerFrame DEF Committed, Complete, Listed
<1>5. ASSUME NEW s \in Stream, Take(s)
      PROVE  Committed'
  BY <1>5, FrameOfTake DEF Committed, Complete, Listed
<1> QED BY <1>1, <1>2, <1>3, <1>4, <1>5, StepIsOneOf DEF Calm

\* With a folder whose index stays open no manifest is taken.
LEMMA BarredIsIncomplete ==
  ASSUME TypeOK, Barred
  PROVE  ~Complete
BY RunTypes DEF Barred, Complete, Listed

LEMMA EarlyStep ==
  ASSUME TypeOK, Ahead, Reached, Counted, Committed, Early, [Next]_vars
  PROVE  Early'
<1> USE DEF Over, Fails, run, streams, server, env, vars
<1> DEFINE Open == \/ pc \in {"connect", "again"} \/ dir < Folders
                   \/ dir = Folders /\ pc \in {"next", "walk"}
                   \/ dir = Folders /\ pc = "err" /\ (err # "failed" \/ index[dir] = "open")
<1>0. dir \in Nat /\ Folders \in Nat /\ Folders > 0 /\ (InCatalog <=> dir > Folders) /\ stop \in {None, "early", "late"}
  BY RunTypes, Numbers DEF InCatalog, TypeOK
<1>1. CASE stop' # "early"
  BY <1>1 DEF Early
<1>2. CASE AskStop
  <2>1. /\ UNCHANGED <<pc, dir, err, index, committed>> /\ pc # "over" /\ ~committed
        /\ stop' = "early" => dir < Folders \/ (dir = Folders /\ pc \in {"connect", "next", "walk", "again"})
    BY <1>2, Numbers DEF AskStop, Committed
  <2> QED BY <2>1 DEF Early
<1>3. CASE UNCHANGED vars
  BY <1>3 DEF Early, Barred
<1>4. ASSUME NEW s \in Stream, NEW j \in Busy(s), Sent(j) \/ SendAgain(j) \/ GiveUp(j)
      PROVE  Early'
  BY <1>4, WorkerFrame DEF Early, Barred
<1>5. ASSUME NEW s \in Stream, Take(s)
      PROVE  Early'
  BY <1>5, FrameOfTake DEF Early, Barred
<1>6. ASSUME Main, stop = "early"
      PROVE  Early'
  <2>0. ~committed /\ stop # None /\ pc # "over"
    BY <1>6, Numbers DEF Early, Main, Walk, EOF, Loop, Connect, NextFolder, EndFolders, FolderErr, CatalogErr,
       Again, UploadManifest, Finish, OpenFolder, CreateIndex, WalkChunk, WalkFails, WalkEnds, TailChunk,
       WaitWorkers, CloseIndex
  <2>1. Open \/ Barred
    BY <1>6, <2>0 DEF Early
  <2>2. ASSUME NEW d \in Dir, d < dir, index[d] = "open", index'[d] = "open", dir' >= dir, ~committed', dir' \in Nat
        PROVE  Early'
    BY <1>0, <2>2, RunTypes DEF Early, Barred
  <2>3. CASE Connect
    <3>1. dir' = 1 /\ pc' \in {"next", "over", "connect"} /\ UNCHANGED committed
      BY <2>3 DEF Connect
    <3> QED BY <1>0, <2>0, <3>1 DEF Early
  <2>4. CASE Finish
    BY <1>0, <2>1, <2>4, BarredIsIncomplete DEF Finish, Reached
  <2>5. CASE NextFolder \/ CatalogErr \/ Again
    <3>1. pc' = "over" /\ UNCHANGED committed
      BY <2>0, <2>5 DEF NextFolder, CatalogErr, Again
    <3> QED BY <2>0, <3>1 DEF Early
  <2>6. CASE EndFolders \/ UploadManifest \/ OpenFolder \/ WalkChunk \/ WalkFails \/ WalkEnds
             \/ TailChunk \/ WaitWorkers \/ CreateIndex
    <3>1. UNCHANGED <<dir, committed>>
      BY <2>6 DEF EndFolders, UploadManifest, OpenFolder, WalkChunk, WalkFails, WalkEnds,
                  TailChunk, WaitWorkers, CreateIndex
    <3>2. \A d \in Dir : d < dir => index'[d] = index[d]
      <4>1. index' = index \/ index' = [index EXCEPT ![This] = "open"]
        BY <2>6 DEF EndFolders, UploadManifest, OpenFolder, WalkChunk, WalkFails, WalkEnds,
                    TailChunk, WaitWorkers, CreateIndex
      <4> QED BY <4>1, RunTypes
    <3>3. CASE Barred
      BY <1>0, <2>0, <2>2, <3>1, <3>2, <3>3 DEF Barred
    <3>4. CASE dir < Folders
      BY <2>0, <3>1, <3>4 DEF Early
    <3>5. CASE dir = Folders /\ pc = "walk"
      <4>1. index[dir] = "open" /\ UNCHANGED index /\ pc' \in {"walk", "err"}
        BY <1>0, <2>0, <2>6, <3>5 DEF Reached, EndFolders, UploadManifest, OpenFolder, WalkChunk,
           WalkFails, WalkEnds, TailChunk, WaitWorkers, CreateIndex
      <4> QED BY <2>0, <3>1, <3>5, <4>1 DEF Early
    <3>6. CASE pc \in {"connect", "again", "err"} \/ (dir = Folders /\ pc = "next")
      BY <1>0, <2>6, <3>6 DEF EndFolders, UploadManifest, OpenFolder, WalkChunk,
           WalkFails, WalkEnds, TailChunk, WaitWorkers, CreateIndex
    <3> QED BY <2>1, <3>3, <3>4, <3>5, <3>6
  <2>7. CASE FolderErr
    <3>1. /\ UNCHANGED <<index, committed>> /\ pc = "err" /\ dir <= Folders
          /\ \/ pc' \in {"over", "again"}
             \/ err = "failed" /\ pc' = "next" /\ dir' = dir + 1
      BY <1>0, <2>7 DEF FolderErr
    <3>2. CASE pc' \in {"over", "again"}
      BY <2>0, <3>1, <3>2 DEF Early
    <3>3. CASE dir' = dir + 1 /\ pc' = "next" /\ err = "failed"
      <4>1. CASE Barred
        BY <1>0, <2>0, <2>2, <3>1, <3>3, <4>1 DEF Barred
      <4>2. CASE dir < Folders
        BY <1>0, <2>0, <3>1, <3>3, <4>2 DEF Early
      <4>3. CASE dir = Folders /\ index[dir] = "open"
        <5>1. dir \in Dir
          BY <1>0, <4>3 DEF Dir
        <5>2. Barred'
          BY <1>0, <3>1, <3>3, <4>3, <5>1 DEF Barred
        <5> QED BY <2>0, <3>1, <5>2 DEF Early
      <4> QED BY <2>1, <3>1, <3>3, <4>1, <4>2, <4>3
    <3> QED BY <3>1, <3>2, <3>3
  <2>8. CASE CloseIndex
    <3>1. /\ UNCHANGED committed /\ pc = "assign"
          /\ index' = index \/ index' = [index EXCEPT ![This] = "sure"]
          /\ (dir' = dir + 1 /\ pc' = "next") \/ dir' = dir
      BY <2>8 DEF CloseIndex
    <3>2. \A d \in Dir : d < dir => index'[d] = index[d]
      BY <3>1, RunTypes
    <3>3. CASE Barred
      BY <1>0, <2>0, <2>2, <3>1, <3>2, <3>3 DEF Barred
    <3>4. CASE dir < Folders
      BY <1>0, <2>0, <3>1, <3>4 DEF Early
    <3> QED BY <2>1, <3>1, <3>3, <3>4
  <2> QED BY <1>6, <2>3, <2>4, <2>5, <2>6, <2>7, <2>8 DEF Main, Walk, EOF, Loop
<1>7. ASSUME Main
      PROVE  stop' = stop
  BY <1>7 DEF Main, Walk, EOF, Loop, Connect, NextFolder, EndFolders, FolderErr, CatalogErr, Again, UploadManifest,
     Finish, OpenFolder, CreateIndex, WalkChunk, WalkFails, WalkEnds, TailChunk, WaitWorkers, CloseIndex
<1> QED BY <1>1, <1>2, <1>3, <1>4, <1>5, <1>6, <1>7 DEF Next, Uploading, Worker

-----------------------------------------------------------------------------
(* Theorems *)

LEMMA InitInv ==
  ASSUME Init
  PROVE  RunInv
<1>1. TypeOK /\ Cut
  BY InitTyped
<1>2. Dir \subseteq Stream /\ Dir \subseteq Nat /\ Attempts > 0 /\ Attempts \in Nat /\ 0 \in Stream
  BY StreamNumbers, Numbers
<1>3. Streams
  <2> SUFFICES ASSUME NEW s \in Stream
               PROVE  Sound(s) /\ Sizes(s) /\ Untouched(s)
    BY DEF Streams
  <2>1. entries[s] = <<>> /\ queue[s] = <<>> /\ jobs = {} /\ known[s] = {} /\ Len(data[s]) \in Nat
    BY <1>1, StreamTypes DEF Init
  <2>2. Len(entries[s]) = 0 /\ Len(queue[s]) = 0
    BY <2>1
  <2> QED BY <2>1, <2>2 DEF Sound, Places, Sending, Sizes, Untouched, Busy
<1>4. Ahead /\ Behind /\ Closed /\ Committed
  BY <1>2 DEF Init, Ahead, Behind, Closed, Committed
<1>5. Reached
  BY <1>2 DEF Init, Reached, Drained, Busy
<1>6. Early /\ Counted
  BY <1>2, Numbers DEF Init, Early, Counted
<1> QED BY <1>1, <1>3, <1>4, <1>5, <1>6 DEF RunInv

LEMMA RunInvStep ==
  ASSUME RunInv, [Next]_vars
  PROVE  RunInv'
<1>1. TypeOK' /\ Cut'
  BY TypeStep DEF RunInv, Streams
<1>2. Streams' /\ Ahead' /\ Behind' /\ Reached'
  BY StreamsStep, AheadStep, BehindStep, ReachedStep DEF RunInv
<1>3. Closed' /\ Committed' /\ Early' /\ Counted'
  BY ClosedStep, CommittedStep, EarlyStep, CountedStep DEF RunInv
<1> QED BY <1>1, <1>2, <1>3 DEF RunInv

LEMMA RunInvHolds == Spec => []RunInv
<1>1. RunInv /\ [Next]_vars => RunInv'
  BY RunInvStep
<1> QED BY InitInv, <1>1, PTL DEF Spec

\* The variables keep their types: no more attempts, sends of a chunk or folders
\* counted as done than there may be, and no place beyond an archive's chunks.
THEOREM TypeCorrect == Spec => []TypeOK
<1>1. RunInv => TypeOK
  BY DEF RunInv
<1> QED BY <1>1, RunInvHolds, PTL

\* A finished snapshot has a whole index of each folder that is reported as backed
\* up and of the catalog, every chunk of them with the server, and the catalog
\* names exactly these folders (backup_inline.go:535-540).
THEOREM SnapshotIsWhole == Spec => []CommittedIsWhole
<1>1. ASSUME RunInv
      PROVE  CommittedIsWhole
  <2> SUFFICES ASSUME committed
               PROVE  /\ catalog = Ok
                      /\ \A d \in Ok \cup {0} :
                           index[d] = "sure" /\ entries[d] = data[d] /\ Range(data[d]) \subseteq has
    BY DEF CommittedIsWhole
  <2>1. Complete /\ index[0] = "sure" /\ TypeOK
    BY <1>1 DEF RunInv, Committed
  <2>2. catalog = Ok
    BY <1>1, <2>1, RunTypes DEF RunInv, Behind, Ok, Complete, Listed, TypeOK
  <2>3. \A d \in Ok \cup {0} : index[d] = "sure" /\ d \in Stream
    BY <1>1, <2>1, RunTypes, StreamNumbers DEF RunInv, Behind, Ok
  <2> QED BY <1>1, <2>2, <2>3 DEF RunInv, Closed, Whole
<1> QED BY <1>1, RunInvHolds, PTL

\* A Stop that comes before the last archive has been written ends in no snapshot,
\* whichever errors and retries come with it (backup_inline.go:2420-2421).
THEOREM StopMeansNoSnapshot == Spec => []StopCommitsNothing
<1>1. RunInv => StopCommitsNothing
  BY DEF RunInv, Early, StopCommitsNothing
<1> QED BY <1>1, RunInvHolds, PTL

-----------------------------------------------------------------------------
(* What a run reports *)

\* A run ends once, with one result.  "success" and "partial" stand for a finished
\* snapshot with no failed chunk: with every folder in it, or without some but not
\* without all; "cancelled" for a Stop that finished none.
ReportIsTrue ==
  /\ outcome # None <=> pc = "over"
  /\ outcome \in {"success", "partial"} => committed
  /\ outcome = "success" => Ok = Dir /\ ~failed
  /\ outcome = "partial" => Ok # Dir /\ Ok # {} /\ ~failed
  /\ outcome = "cancelled" => ~committed /\ stop # None

\* "Stopped" is never made up: only a Stop is taken for one.
StopSeen ==
  /\ err = "stopped" => stop # None
  /\ \A s \in Stream : fatal[s] = "stopped" => stop # None

\* The loop leaves no folder without its result.
Passed == \A d \in Dir : d < dir => results[d] # "none"

\* Workers are at work only for an index that is open.
Attached == \A s \in Stream : index[s] # "open" => Drained(s)
CatalogOpen == pc \notin {"connect", "over"} => index[0] # "none"

SomeOk == pc \in {"manifest", "finish"} => Ok # {}

ReportInv == StopSeen /\ Passed /\ Attached /\ CatalogOpen /\ SomeOk /\ ReportIsTrue

LEMMA StopSeenStep ==
  ASSUME TypeOK, StopSeen, [Next]_vars
  PROVE  StopSeen'
<1> USE DEF Over, Fails, run, streams, server, env, vars
<1>0. None \notin {"stopped", "early", "late"} /\ \A e \in Error : ~(e = "stopped" /\ CallFails(e))
  BY NoneAssumption DEF CallFails
<1>1. ASSUME NEW s \in Stream, Take(s)
      PROVE  StopSeen'
  <2>1. UNCHANGED <<err, stop>> /\ fatal' \in {fatal, Latched(s, "stopped")}
        /\ (fatal' # fatal => stop # None)
    BY <1>1 DEF Take, Stopped
  <2> QED BY <2>1 DEF StopSeen, Latched
<1>2. ASSUME NEW s \in Stream, NEW j \in Busy(s), GiveUp(j)
      PROVE  StopSeen'
  <2>1. UNCHANGED <<err, stop>>
    BY <1>2 DEF GiveUp
  <2>2. CASE stop # None
    BY <2>1, <2>2 DEF StopSeen
  <2>3. CASE stop = None
    <3>1. PICK e \in Error : CallFails(e) /\ fatal' = Latched(j.stream, e)
      BY <1>2, <2>3 DEF GiveUp, Stopped
    <3>2. e # "stopped"
      BY <1>0, <3>1
    <3> QED BY <2>1, <3>1, <3>2 DEF StopSeen, Latched, TypeOK
  <2> QED BY <2>2, <2>3
<1>3. ASSUME NEW s \in Stream, NEW j \in Busy(s), Sent(j) \/ SendAgain(j)
      PROVE  StopSeen'
  BY <1>3 DEF Sent, SendAgain, StopSeen
<1>4. CASE AskStop
  BY <1>0, <1>4 DEF AskStop, StopSeen
<1>5. CASE Connect
  BY <1>0, <1>5 DEF Connect, StopSeen
<1>6. CASE OpenFolder \/ WalkChunk \/ UNCHANGED vars
  BY <1>6 DEF OpenFolder, WalkChunk, StopSeen
<1>7. CASE NextFolder \/ EndFolders \/ FolderErr \/ CatalogErr \/ Again \/ UploadManifest \/ Finish
  <2>1. UNCHANGED <<fatal, stop>> /\ err' \in {err, None}
    BY <1>7 DEF NextFolder, EndFolders, FolderErr, CatalogErr, Again, UploadManifest, Finish
  <2> QED BY <1>0, <2>1 DEF StopSeen
<1>8. CASE CreateIndex \/ CloseIndex
  <2>1. UNCHANGED <<fatal, stop>> /\ (err' = err \/ \E e \in Error : CallFails(e) /\ err' = e)
    BY <1>8 DEF CreateIndex, CloseIndex
  <2> QED BY <1>0, <2>1 DEF StopSeen
<1>9. CASE WalkFails \/ WalkEnds \/ TailChunk \/ WaitWorkers
  <2>1. UNCHANGED <<fatal, stop>>
        /\ (err' \in {err, "failed", fatal[This]} \/ stop # None)
    BY <1>9 DEF WalkFails, WalkEnds, TailChunk, WaitWorkers
  <2> QED BY <2>1, ThisIsStream DEF StopSeen
<1> QED BY <1>1, <1>2, <1>3, <1>4, <1>5, <1>6, <1>7, <1>8, <1>9, StepIsOneOf DEF Calm

\* Results are written for the folder the loop leaves, and only there it goes on.
LEMMA ResultSteps ==
  ASSUME TypeOK, Reached, [Next]_vars
  PROVE  \/ UNCHANGED <<dir, results>>
         \/ dir' = 1 /\ pc' \in {"next", "connect", "over"} /\ Connect
         \/ \E x \in {"ok", "failed"} :
              ~InCatalog /\ dir' = dir + 1 /\ results' = [results EXCEPT ![dir] = x] /\ pc' = "next"
<1> USE DEF Over, Fails, run, streams, server, env, vars
<1>1. CASE FolderErr
  BY <1>1 DEF FolderErr
<1>2. CASE CloseIndex
  BY <1>2 DEF CloseIndex
<1>3. CASE Connect
  BY <1>3 DEF Connect
<1>4. ASSUME NEW s \in Stream, NEW j \in Busy(s), Sent(j) \/ SendAgain(j) \/ GiveUp(j)
      PROVE  UNCHANGED <<dir, results>>
  BY <1>4, WorkerFrame
<1>5. ASSUME NEW s \in Stream, Take(s)
      PROVE  UNCHANGED <<dir, results>>
  BY <1>5, FrameOfTake
<1>6. CASE NextFolder \/ EndFolders \/ CatalogErr \/ Again \/ CreateIndex \/ WalkFails \/ WalkEnds
           \/ WaitWorkers \/ UploadManifest \/ Finish \/ AskStop \/ UNCHANGED vars
           \/ OpenFolder \/ WalkChunk \/ TailChunk
  BY <1>6 DEF NextFolder, EndFolders, CatalogErr, Again, CreateIndex, WalkFails, WalkEnds,
              WaitWorkers, UploadManifest, Finish, AskStop, OpenFolder, WalkChunk, TailChunk
<1> QED BY <1>1, <1>2, <1>3, <1>4, <1>5, <1>6, StepIsOneOf DEF Calm

LEMMA PassedStep ==
  ASSUME TypeOK, Reached, Passed, [Next]_vars
  PROVE  Passed'
<1>1. CASE UNCHANGED <<dir, results>>
  BY <1>1 DEF Passed
<1>2. CASE dir' = 1
  BY <1>2, Numbers DEF Passed, Dir
<1>3. ASSUME NEW x \in {"ok", "failed"}, dir' = dir + 1, results' = [results EXCEPT ![dir] = x]
      PROVE  Passed'
  BY <1>3, RunTypes DEF Passed
<1> QED BY <1>1, <1>2, <1>3, ResultSteps


LEMMA AttachedStep ==
  ASSUME TypeOK, Reached, CatalogOpen, Attached, [Next]_vars
  PROVE  Attached'
<1> USE DEF Over, Fails, run, streams, server, env, vars
<1> SUFFICES ASSUME NEW t \in Stream, index'[t] # "open"
             PROVE  queue'[t] = <<>> /\ Busy(t)' = {}
  BY DEF Attached, Drained
<1>0. index[t] # "open" => queue[t] = <<>> /\ Busy(t) = {}
  BY DEF Attached, Drained
<1>1. CASE Connect
  <2>1. queue[t] = <<>> /\ Busy(t) = {} /\ UNCHANGED <<queue, jobs>>
    BY <1>1 DEF Connect, Reached, Drained
  <2> QED BY <2>1 DEF Busy
<1>2. CASE UNCHANGED <<queue, jobs, index>>
  BY <1>0, <1>2 DEF Busy
<1>3. CASE Calm \/ OpenFolder
  <2>1. UNCHANGED <<queue, jobs>>
    BY <1>3, CalmUploads DEF OpenFolder
  <2>2. CASE CloseIndex /\ index' # index
    <3>1. Drained(This) /\ index' = [index EXCEPT ![This] = "sure"]
      BY <2>2 DEF CloseIndex, Reached
    <3>2. t = This \/ index[t] # "open"
      BY <3>1, RunTypes
    <3> QED BY <1>0, <2>1, <3>1, <3>2 DEF Busy, Drained
  <2>3. CASE CreateIndex /\ index' # index
    <3>1. index' = [index EXCEPT ![This] = "open"]
      BY <2>3 DEF CreateIndex
    <3>2. index[t] # "open"
      BY <3>1, RunTypes
    <3> QED BY <1>0, <2>1, <3>2 DEF Busy
  <2>4. CASE UNCHANGED index
    BY <1>2, <2>1, <2>4
  <2> QED BY <1>3, <2>2, <2>3, <2>4
     DEF Calm, NextFolder, EndFolders, FolderErr, CatalogErr, Again, WalkFails, WalkEnds,
         WaitWorkers, UploadManifest, Finish, AskStop, OpenFolder
<1>4. CASE WalkChunk \/ TailChunk
  <2>1. pc \in {"walk", "tail"} /\ UNCHANGED <<jobs, index>> /\ (queue' = queue \/ Put)
    BY <1>4 DEF WalkChunk, TailChunk
  <2>2. index[This] = "open"
    <3>1. CASE InCatalog
      <4>1. index[0] \in {"none", "open", "sure"}
        BY RunTypes, StreamNumbers
      <4> QED BY <2>1, <3>1, <4>1, RunTypes DEF Reached, CatalogOpen
    <3>2. CASE ~InCatalog
      BY <2>1, <3>2, RunTypes DEF Reached
    <3> QED BY <3>1, <3>2
  <2>3. t # This
    BY <2>1, <2>2
  <2>4. queue'[t] = queue[t]
    BY <2>1, <2>3 DEF Put, TypeOK
  <2> QED BY <1>0, <2>1, <2>4 DEF Busy
<1>5. ASSUME NEW s \in Stream, Take(s)
      PROVE  queue'[t] = <<>> /\ Busy(t)' = {}
  <2>1. index' = index /\ queue[s] # <<>>
    BY <1>5, FrameOfTake DEF Take
  <2>2. t # s
    BY <1>0, <2>1
  <2>3. queue'[t] = queue[t]
    BY <1>5, <2>2 DEF Take, TypeOK
  <2>4. \A j \in jobs' : j \in jobs \/ j.stream = s
    BY <1>5 DEF Take
  <2> QED BY <1>0, <2>1, <2>2, <2>3, <2>4 DEF Busy
<1>6. ASSUME NEW s \in Stream, NEW j \in Busy(s), Sent(j) \/ SendAgain(j) \/ GiveUp(j)
      PROVE  queue'[t] = <<>> /\ Busy(t)' = {}
  <2>1. UNCHANGED <<index, queue>>
    BY <1>6, WorkerFrame DEF Sent, SendAgain, GiveUp
  <2>2. t # s /\ j.stream = s /\ j \in jobs
    BY <1>0, <2>1 DEF Busy
  <2>3. [j EXCEPT !.tries = j.tries + 1].stream = s
    BY <2>2 DEF TypeOK
  <2>4. \A k \in jobs' : k \in jobs \/ k.stream = s
    BY <1>6, <2>3 DEF Sent, SendAgain, GiveUp
  <2> QED BY <1>0, <2>1, <2>2, <2>4 DEF Busy
<1> QED BY <1>1, <1>3, <1>4, <1>5, <1>6, StepIsOneOf

LEMMA CatalogOpenStep ==
  ASSUME TypeOK, CatalogOpen, [Next]_vars
  PROVE  CatalogOpen'
<1> USE DEF Over, Fails, run, streams, server, env, vars
<1>1. CASE Connect
  BY <1>1, RunTypes, StreamNumbers DEF Connect, CatalogOpen
<1>2. ASSUME NEW s \in Stream, NEW j \in Busy(s), Sent(j) \/ SendAgain(j) \/ GiveUp(j)
      PROVE  CatalogOpen'
  BY <1>2, WorkerFrame DEF CatalogOpen
<1>3. ASSUME NEW s \in Stream, Take(s)
      PROVE  CatalogOpen'
  BY <1>3, FrameOfTake DEF CatalogOpen
<1>4. CASE CreateIndex \/ CloseIndex
  <2>1. pc \in {"index", "assign"} /\ index[0] # "none"
    BY <1>4 DEF CreateIndex, CloseIndex, CatalogOpen
  <2>2. index' = index \/ \E x \in {"open", "sure"} : index' = [index EXCEPT ![This] = x]
    BY <1>4 DEF CreateIndex, CloseIndex
  <2>3. index'[0] # "none"
    BY <2>1, <2>2, RunTypes, StreamNumbers
  <2> QED BY <2>3 DEF CatalogOpen
<1>5. CASE \/ NextFolder \/ EndFolders \/ FolderErr \/ CatalogErr \/ Again \/ WalkFails \/ WalkEnds
           \/ WaitWorkers \/ UploadManifest \/ Finish \/ AskStop \/ UNCHANGED vars
           \/ OpenFolder \/ WalkChunk \/ TailChunk
  <2>1. index' = index /\ (pc' \in {pc, "connect", "over"} \/ pc \notin {"connect", "over"})
    BY <1>5 DEF NextFolder, EndFolders, FolderErr, CatalogErr, Again, WalkFails, WalkEnds,
       WaitWorkers, UploadManifest, Finish, AskStop, OpenFolder, WalkChunk, TailChunk
  <2> QED BY <2>1 DEF CatalogOpen
<1> QED BY <1>1, <1>2, <1>3, <1>4, <1>5, StepIsOneOf DEF Calm

\* The manifest is reached with a folder in it, and no result changes after.
LEMMA SomeOkStep ==
  ASSUME TypeOK, Reached, SomeOk, [Next]_vars
  PROVE  SomeOk'
<1> USE DEF Over, Fails, run, streams, server, env, vars
<1>1. SUFFICES ASSUME pc' \in {"manifest", "finish"}
               PROVE  \E d \in Dir : results'[d] = "ok"
  BY DEF SomeOk, Ok
<1>2. CASE pc \in {"manifest", "finish"}
  <2>1. PICK d \in Dir : results[d] = "ok"
    BY <1>2 DEF SomeOk, Ok
  <2>2. results' = results
    BY <1>1, <1>2, ResultSteps DEF Reached
  <2> QED BY <2>1, <2>2
<1>3. CASE pc \notin {"manifest", "finish"}
  <2>1. ASSUME NEW s \in Stream, NEW j \in Busy(s), Sent(j) \/ SendAgain(j) \/ GiveUp(j)
        PROVE  FALSE
    BY <1>1, <1>3, <2>1, WorkerFrame
  <2>2. ASSUME NEW s \in Stream, Take(s)
        PROVE  FALSE
    BY <1>1, <1>3, <2>2, FrameOfTake
  <2>3. CASE CloseIndex
    BY <1>1, <2>3 DEF CloseIndex
  <2>4. CASE \/ Connect \/ NextFolder \/ EndFolders \/ FolderErr \/ CatalogErr \/ Again \/ CreateIndex
             \/ WalkFails \/ WalkEnds \/ WaitWorkers \/ UploadManifest \/ Finish \/ AskStop
             \/ UNCHANGED vars \/ OpenFolder \/ WalkChunk \/ TailChunk
    <3>1. pc' \notin {"manifest", "finish"}
      BY <1>3, <2>4 DEF Connect, NextFolder, EndFolders, FolderErr, CatalogErr, Again, CreateIndex,
         WalkFails, WalkEnds, WaitWorkers, UploadManifest, Finish, AskStop, OpenFolder, WalkChunk, TailChunk
    <3> QED BY <1>1, <3>1
  <2> QED BY <2>1, <2>2, <2>3, <2>4, StepIsOneOf DEF Calm
<1> QED BY <1>2, <1>3


\* A run's result is set as it ends, and by a Stop, a failure or the server's
\* finish only.
LEMMA OutcomeSteps ==
  ASSUME TypeOK, StopSeen, [Next]_vars
  PROVE  \/ outcome' = outcome /\ (pc' = "over" <=> pc = "over") /\ committed' = committed
         \/ /\ pc # "over" /\ pc' = "over"
            /\ \/ outcome' = "failed"
               \/ outcome' = "cancelled" /\ stop # None /\ UNCHANGED <<stop, committed>>
               \/ Finish /\ outcome' = Result /\ committed'
<1> USE DEF Over, Fails, run, streams, server, env, vars
<1>1. ASSUME NEW s \in Stream, NEW j \in Busy(s), Sent(j) \/ SendAgain(j) \/ GiveUp(j)
      PROVE  UNCHANGED <<outcome, pc, committed>>
  BY <1>1, WorkerFrame
<1>2. ASSUME NEW s \in Stream, Take(s)
      PROVE  UNCHANGED <<outcome, pc, committed>>
  BY <1>2, FrameOfTake
<1>3. CASE AskStop \/ UNCHANGED vars
  BY <1>3 DEF AskStop
<1>4. CASE NextFolder \/ Again
  BY <1>4 DEF NextFolder, Again
<1>5. CASE Connect \/ EndFolders \/ FolderErr \/ CatalogErr
  <2>1. committed' = committed /\ pc # "over"
    BY <1>5 DEF Connect, EndFolders, FolderErr, CatalogErr
  <2>2. (outcome' = outcome /\ pc' # "over") \/ (pc' = "over" /\ outcome' \in {"failed", "cancelled"})
    BY <1>5, <2>1 DEF Connect, EndFolders, FolderErr, CatalogErr
  <2>3. pc' = "over" /\ outcome' = "cancelled" => err = "stopped" /\ UNCHANGED stop
    BY <1>5 DEF Connect, EndFolders, FolderErr, CatalogErr
  <2> QED BY <2>1, <2>2, <2>3 DEF StopSeen
<1>6. CASE CreateIndex \/ CloseIndex \/ UploadManifest
  BY <1>6 DEF CreateIndex, CloseIndex, UploadManifest
<1>7. CASE OpenFolder \/ WalkChunk \/ WalkFails \/ WalkEnds \/ TailChunk \/ WaitWorkers
  BY <1>7 DEF OpenFolder, WalkChunk, WalkFails, WalkEnds, TailChunk, WaitWorkers
<1>8. CASE Finish
  BY <1>8 DEF Finish
<1> QED BY <1>1, <1>2, <1>3, <1>4, <1>5, <1>6, <1>7, <1>8, StepIsOneOf DEF Calm

\* Once a snapshot is finished no worker is left to report a chunk as failed.
LEMMA NothingAfter ==
  ASSUME RunInv, Attached, committed, NEW s \in Stream
  PROVE  queue[s] = <<>> /\ Busy(s) = {}
<1>1. Complete /\ TypeOK
  BY DEF RunInv, Committed
<1>2. index[s] # "open"
  BY <1>1 DEF Complete, Listed
<1> QED BY <1>2 DEF Attached, Drained

LEMMA ReportStep ==
  ASSUME RunInv, ReportInv, [Next]_vars
  PROVE  ReportIsTrue'
<1> USE DEF RunInv, ReportInv
<1>0. None \notin {"cancelled", "partial", "success"}
  BY NoneAssumption
<1>1. CASE pc = "over"
  <2>1. UNCHANGED <<outcome, committed>> /\ pc' = "over"
    BY <1>1, OutcomeSteps
  <2>2. UNCHANGED results /\ (stop # None => stop' # None)
    <3>1. ~Main /\ ~AskStop
      BY <1>1 DEF Main, Walk, EOF, Loop, Connect, NextFolder, EndFolders, FolderErr, CatalogErr, Again,
         UploadManifest, Finish, OpenFolder, CreateIndex, WalkChunk, WalkFails, WalkEnds, TailChunk,
         WaitWorkers, CloseIndex, AskStop
    <3>2. CASE UNCHANGED vars
      BY <3>2 DEF vars, run, env
    <3>3. ASSUME NEW s \in Stream, Worker(s) PROVE UNCHANGED <<results, stop>>
      BY <3>3, WorkerFrame DEF Worker, run
    <3> QED BY <3>1, <3>2, <3>3 DEF Next, Uploading
  <2>3. outcome \in {"success", "partial"} => UNCHANGED failed
    <3>1. SUFFICES ASSUME committed PROVE UNCHANGED failed
      BY DEF ReportIsTrue
    <3>2. ~Uploading
      BY <3>1, NothingAfter DEF Uploading, Worker, Take
    <3>3. ~Main /\ ~AskStop
      BY <1>1 DEF Main, Walk, EOF, Loop, Connect, NextFolder, EndFolders, FolderErr, CatalogErr, Again,
         UploadManifest, Finish, OpenFolder, CreateIndex, WalkChunk, WalkFails, WalkEnds, TailChunk,
         WaitWorkers, CloseIndex, AskStop
    <3> QED BY <3>2, <3>3 DEF Next, vars, streams
  <2>4. Ok' = Ok
    BY <2>2 DEF Ok
  <2> QED BY <1>1, <2>1, <2>2, <2>3, <2>4 DEF ReportIsTrue
<1>2. CASE pc # "over" /\ pc' # "over"
  <2>1. outcome = None /\ outcome' = None
    BY <1>2, OutcomeSteps DEF ReportIsTrue
  <2> QED BY <1>0, <1>2, <2>1 DEF ReportIsTrue
<1>3. CASE pc # "over" /\ pc' = "over"
  <2>1. ~committed
    BY <1>3 DEF Committed
  <2>2. CASE outcome' = "failed"
    <3>1. outcome' # None
      BY <2>2, NoneAssumption
    <3> QED BY <1>3, <2>2, <3>1 DEF ReportIsTrue
  <2>3. CASE outcome' = "cancelled" /\ stop # None /\ UNCHANGED <<stop, committed>>
    BY <1>0, <1>3, <2>1, <2>3 DEF ReportIsTrue
  <2>4. CASE Finish /\ outcome' = Result /\ committed'
    <3>1. UNCHANGED <<results, failed>> /\ pc = "finish"
      BY <2>4 DEF Finish, streams
    <3>2. \A d \in Dir : results[d] \in {"ok", "failed"}
      <4>1. \A d \in Dir : d < dir
        BY <3>1, RunTypes, Numbers DEF Reached, InCatalog, Dir
      <4> QED BY <4>1, RunTypes DEF Passed
    <3>3. Ok # {} /\ Ok' = Ok
      BY <3>1 DEF SomeOk, Ok
    <3>4. Result = "success" => Ok = Dir /\ ~failed
      BY <3>2 DEF Result, Ok
    <3>5. Result = "partial" => Ok # Dir /\ ~failed
      BY DEF Result, Ok
    <3>6. Result \in {"failed", "partial", "success"} /\ Result # None
      BY NoneAssumption DEF Result
    <3> QED BY <1>3, <2>4, <3>1, <3>3, <3>4, <3>5, <3>6 DEF ReportIsTrue
  <2> QED BY <1>3, <2>2, <2>3, <2>4, OutcomeSteps
<1> QED BY <1>1, <1>2, <1>3

LEMMA ReportInvHolds == Spec => [](RunInv /\ ReportInv)
<1>1. Init => RunInv /\ ReportInv
  <2> SUFFICES ASSUME Init PROVE ReportInv
    BY InitInv
  <2>1. Passed /\ Attached /\ CatalogOpen /\ SomeOk
    BY DEF Init, Passed, Dir, Attached, Drained, Busy, CatalogOpen, SomeOk
  <2>2. StopSeen /\ ReportIsTrue
    BY NoneAssumption DEF Init, StopSeen, ReportIsTrue
  <2> QED BY <2>1, <2>2 DEF ReportInv
<1>2. RunInv /\ ReportInv /\ [Next]_vars => (RunInv /\ ReportInv)'
  <2> SUFFICES ASSUME RunInv, ReportInv, [Next]_vars PROVE (RunInv /\ ReportInv)'
    OBVIOUS
  <2>1. RunInv'
    BY RunInvStep
  <2>2. StopSeen' /\ Passed' /\ Attached'
    BY StopSeenStep, PassedStep, AttachedStep DEF RunInv, ReportInv
  <2>3. CatalogOpen' /\ SomeOk' /\ ReportIsTrue'
    BY CatalogOpenStep, SomeOkStep, ReportStep DEF RunInv, ReportInv
  <2> QED BY <2>1, <2>2, <2>3 DEF ReportInv
<1> QED BY <1>1, <1>2, PTL DEF Spec

\* What a run reports is what it has done, whatever fails, is stopped or is tried
\* again, and whenever: no "success" without every folder, no "partial" without a
\* folder, neither without a finished snapshot, no "cancelled" beside one
\* (backup_inline.go:1654-1675; files left out for a read error are not modelled).
THEOREM ReportsAreTrue == Spec => []ReportIsTrue
<1>1. ReportInv => ReportIsTrue
  BY DEF ReportInv
<1> QED BY <1>1, ReportInvHolds, PTL
===============================================================================
