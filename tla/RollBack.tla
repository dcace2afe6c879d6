------------------------------- MODULE RollBack -------------------------------
(***************************************************************************)
(* The files of one Backup Set through roll backs, Undo and Delete kept     *)
(* versions (gui/undelete_rollback.go), with the extraction of the restore  *)
(* they share (pbscommon/pxar_reader.go).                                   *)
(*                                                                          *)
(* A roll back moves what it replaces or removes into its safety folder,    *)
(* writes down what it moved in rollback.json, restores, and writes down    *)
(* what it restored.  Roll backs and Undo run alone (module                 *)
(* OperationQueue); Delete kept versions does not wait.  Folders are left   *)
(* out, and the check that a record stays inside the set's folders.         *)
(***************************************************************************)
EXTENDS Naturals, FiniteSets, TLC

CONSTANTS
  File,
  Saved,       \* contents that files have in snapshots
  Mine,        \* a content no snapshot has
  None,        \* no such file, no record
  Policy,      \* "replace", "missing", "exact"
  Roll,        \* the roll backs, each with its safety folder
  Caller,      \* calls of StartRollback and UndoRollback
  Idle,
  MaxMade,     \* bound: files another program makes
  MaxCrashes   \* bound: ends of the process

ASSUME ContentAssumption == {Mine, None} \cap Saved = {} /\ Mine # None
ASSUME PolicyAssumption == Policy \subseteq {"replace", "missing", "exact"}
ASSUME BoundAssumption == MaxMade \in Nat /\ MaxCrashes \in Nat

VARIABLES
  live,     \* the set's folders
  kept,     \* per roll back, its safety folder's files
  record,   \* per roll back, its rollback.json
  call,     \* per caller, what it does
  made,     \* the files another program has made
  crashes,
  before,   \* per roll back, the folders when it compared them
  older,    \* per roll back, those begun before it
  late,     \* the roll backs begun before an Undo of an older one
  disorder  \* one of these has been undone after all

past == <<before, older, late, disorder>>
vars == <<live, kept, record, call, made, crashes, past>>
seen == <<made, crashes, past>>

Content == Saved \cup {Mine, None}
Status == {"moving", "restoring", "done", "failed", "undone"}
Manifest == [status : Status, moved : SUBSET File, restored : SUBSET File]
Empty == [f \in File |-> None]
Folder == [File -> Content]
ASSUME NoneAssumption == None \notin Folder

\* todo: the files to move aside, or those an Undo deletes; then: the files to
\* restore, or to put back; at: the file whose old version has just been seen
\* to be away (removed).
Call == [op : {"roll", "undo"}, roll : Roll, man : Manifest, snap : Folder,
         pc : {"asked", "queued", "moving", "restoring", "undoing"},
         todo : SUBSET File, then : SUBSET File, at : File \cup {None},
         extracted : SUBSET File, bad : BOOLEAN]

TypeOK ==
  /\ live \in Folder /\ kept \in [Roll -> Folder]
  /\ record \in [Roll -> Manifest \cup {None}]
  /\ call \in [Caller -> Call \cup {Idle}]
  /\ made \subseteq File /\ crashes \in 0..MaxCrashes
  /\ before \in [Roll -> Folder \cup {None}]
  /\ older \in [Roll -> SUBSET Roll] /\ late \subseteq Roll /\ disorder \in BOOLEAN

Init ==
  /\ live \in [File -> {Mine, None}]
  /\ kept = [r \in Roll |-> Empty]
  /\ record = [r \in Roll |-> None]
  /\ call = [c \in Caller |-> Idle]
  /\ made = {} /\ crashes = 0
  /\ before = [r \in Roll |-> None]
  /\ older = [r \in Roll |-> {}] /\ late = {} /\ disorder = FALSE

Is(c, pc) == call[c] # Idle /\ call[c].pc = pc
Does(c, op) == call[c] # Idle /\ call[c].op = op
SlotIsFree == \A c \in Caller : call[c] = Idle \/ Is(c, "asked") \/ Is(c, "queued")
\* rollbackHolds has the set.
Held == \E c \in Caller : Does(c, "roll")

Step(c, x) == call' = [call EXCEPT ![c] = x]
Return(c) == Step(c, Idle)

\* writeRollbackManifest: a failed write is only logged, and fails for want of
\* the safety folder when that has been deleted and nothing was moved since.
Write(r, m) ==
  \/ UNCHANGED record
  \/ /\ record[r] # None \/ kept[r] # Empty
     /\ record' = [record EXCEPT ![r] = m]

-----------------------------------------------------------------------------
(* A roll back, in its place in the queue *)

\* compareIndexes.
Missing(snap) == {f \in File : live[f] = None /\ snap[f] # None}
Changed(snap) == {f \in File : live[f] # None /\ snap[f] \notin {None, live[f]}}
New(snap) == {f \in File : live[f] # None /\ snap[f] = None}

ToMove(policy, snap) ==
  CASE policy = "missing" -> {}
    [] policy = "replace" -> Changed(snap)
    [] policy = "exact" -> Changed(snap) \cup New(snap)

\* planRollback and the record written before anything moves.
Begin(c, r) ==
  /\ call[c] = Idle /\ SlotIsFree /\ before[r] = None
  /\ \E snap \in [File -> Saved \cup {None}], policy \in Policy :
       LET m == [status |-> "moving", moved |-> {}, restored |-> {}] IN
       /\ record' = [record EXCEPT ![r] = m]
       /\ Step(c, [op |-> "roll", roll |-> r, man |-> m, snap |-> snap, pc |-> "moving",
                   todo |-> ToMove(policy, snap), then |-> Missing(snap), at |-> None,
                   extracted |-> {}, bad |-> FALSE])
  /\ before' = [before EXCEPT ![r] = live]
  /\ older' = [older EXCEPT ![r] = {q \in Roll : before[q] # None}]
  /\ UNCHANGED <<live, kept, made, crashes, late, disorder>>

\* What a file moved aside adds to the record.
NotedIfReplaced(x, f) == IF x.snap[f] = None THEN {} ELSE {f}
Noted(x, f) == {f}

\* move: os.Rename into the safety folder, or the file stays.
Move(c, f) ==
  LET x == call[c] IN
  /\ Is(c, "moving") /\ f \in x.todo
  /\ \/ /\ live[f] # None
        /\ kept' = [kept EXCEPT ![x.roll][f] = live[f]]
        /\ live' = [live EXCEPT ![f] = None]
        /\ Step(c, [x EXCEPT !.todo = @ \ {f}, !.man.moved = @ \cup Noted(x, f),
                             !.then = @ \cup IF x.snap[f] = None THEN {} ELSE {f}])
     \/ /\ Step(c, [x EXCEPT !.todo = @ \ {f}])
        /\ UNCHANGED <<live, kept>>
  /\ UNCHANGED <<record, seen>>

\* The record gets the files moved; Stop ends the roll back after it.
EndMoves(c) ==
  LET x == [call[c] EXCEPT !.man.status = "restoring"] IN
  /\ Is(c, "moving")
  /\ \/ /\ x.todo = {}
        /\ Step(c, [x EXCEPT !.pc = "restoring", !.todo = x.then, !.then = {}])
     \/ Step(c, [x EXCEPT !.pc = "restoring", !.todo = {}, !.then = {}, !.bad = TRUE])
  /\ Write(x.roll, x.man)
  /\ UNCHANGED <<live, kept, seen>>

\* The extraction looks whether the file exists, and leaves one that does.
Look(c, f) ==
  LET x == call[c] IN
  /\ Is(c, "restoring") /\ x.at = None /\ f \in x.todo
  /\ Step(c, IF live[f] = None THEN [x EXCEPT !.at = f] ELSE [x EXCEPT !.todo = @ \ {f}])
  /\ UNCHANGED <<live, kept, record, seen>>

\* It writes a temporary file and renames it over the place it looked at.
Extract(c) ==
  LET x == call[c] f == x.at IN
  /\ Is(c, "restoring") /\ f # None
  /\ \/ /\ live' = [live EXCEPT ![f] = x.snap[f]]
        /\ Step(c, [x EXCEPT !.at = None, !.todo = @ \ {f}, !.extracted = @ \cup {f}])
     \/ /\ Step(c, [x EXCEPT !.at = None, !.todo = @ \ {f}, !.bad = TRUE])
        /\ UNCHANGED live
  /\ UNCHANGED <<kept, record, seen>>

\* What the restore reports: all it extracted, once it came to an end.
ReportedOfReplaced(x) == x.extracted \cap x.man.moved
Reported(x) == x.extracted

EndedAsReported(ok) == IF ok THEN "done" ELSE "cancelled"
Ended(ok) == IF ok THEN "done" ELSE "failed"

\* Finish, after a restore that came to an end (and may have failed in its
\* files, its verification or its ACLs), or broke off and reports no file.
Finish(c) ==
  LET x == call[c] IN
  /\ Is(c, "restoring") /\ x.at = None
  /\ \/ /\ x.todo = {}
        /\ \E ok \in BOOLEAN :
             /\ ok => ~x.bad
             /\ Write(x.roll, [x.man EXCEPT !.status = Ended(ok), !.restored = Reported(x)])
     \/ Write(x.roll, [x.man EXCEPT !.status = Ended(FALSE)])
  /\ Return(c)
  /\ UNCHANGED <<live, kept, seen>>

-----------------------------------------------------------------------------
(* Undo and Delete kept versions *)

\* UndoRollback reads the record, maybe that of a roll back under way.
AskUndo(c, r) ==
  /\ call[c] = Idle
  /\ record[r] # None /\ record[r].status # "undone"
  /\ Step(c, [op |-> "undo", roll |-> r, man |-> record[r], snap |-> Empty, pc |-> "asked",
              todo |-> record[r].restored \ record[r].moved, then |-> record[r].moved,
              at |-> None, extracted |-> {}, bad |-> FALSE])
  /\ UNCHANGED <<live, kept, record, seen>>

\* It waits its turn, unless a roll back holds the set.
Enqueue(c) ==
  /\ Is(c, "asked")
  /\ IF Held THEN Return(c) ELSE Step(c, [call[c] EXCEPT !.pc = "queued"])
  /\ UNCHANGED <<live, kept, record, seen>>

EnterUndo(c) ==
  /\ Is(c, "queued") /\ SlotIsFree
  /\ Step(c, [call[c] EXCEPT !.pc = "undoing"])
  /\ late' = late \cup {r \in Roll : call[c].roll \in older[r]}
  /\ disorder' = (disorder \/ call[c].roll \in late)
  /\ UNCHANGED <<live, kept, record, made, crashes, before, older>>

DeleteRestored(c, f) ==
  LET x == call[c] IN
  /\ Is(c, "undoing") /\ f \in x.todo
  /\ \/ live' = [live EXCEPT ![f] = None] /\ Step(c, [x EXCEPT !.todo = @ \ {f}])
     \/ /\ live[f] # None
        /\ Step(c, [x EXCEPT !.todo = @ \ {f}, !.bad = TRUE]) /\ UNCHANGED live
  /\ UNCHANGED <<kept, record, seen>>

Returning(c, f) == Is(c, "undoing") /\ call[c].todo = {} /\ call[c].at = None /\ f \in call[c].then
Problem(c, f) == Step(c, [call[c] EXCEPT !.then = @ \ {f}, !.at = None, !.bad = TRUE])

TakeOutUnseen(c, f) ==
  /\ Returning(c, f)
  /\ \/ live' = [live EXCEPT ![f] = None] /\ Step(c, [call[c] EXCEPT !.at = f])
     \/ Problem(c, f) /\ UNCHANGED live
  /\ UNCHANGED <<kept, record, seen>>
\* With the kept copy in place, what stands where it goes back is deleted.
TakeOut(c, f) ==
  /\ Returning(c, f)
  /\ \/ /\ kept[call[c].roll][f] # None
        /\ live' = [live EXCEPT ![f] = None] /\ Step(c, [call[c] EXCEPT !.at = f])
     \/ Problem(c, f) /\ UNCHANGED live
  /\ UNCHANGED <<kept, record, seen>>

PutBack(c) ==
  LET x == call[c] f == x.at IN
  /\ Is(c, "undoing") /\ f # None
  /\ \/ /\ kept[x.roll][f] # None
        /\ live' = [live EXCEPT ![f] = kept[x.roll][f]]
        /\ kept' = [kept EXCEPT ![x.roll][f] = None]
        /\ Step(c, [x EXCEPT !.then = @ \ {f}, !.at = None])
     \/ Problem(c, f) /\ UNCHANGED <<live, kept>>
  /\ UNCHANGED <<record, seen>>

Ending(c) == Is(c, "undoing") /\ call[c].todo = {} /\ call[c].then = {}

\* An Undo without problems is recorded, and then the safety folder removed when
\* nothing else is in it; neither needs to work.
EndUndo(c) ==
  LET x == call[c] IN
  /\ Ending(c)
  /\ \/ /\ x.bad /\ Write(x.roll, x.man)
     \/ /\ ~x.bad /\ Write(x.roll, [x.man EXCEPT !.status = "undone"])
     \/ /\ ~x.bad /\ kept[x.roll] = Empty
        /\ record' = [record EXCEPT ![x.roll] = None]
  /\ Return(c)
  /\ UNCHANGED <<live, kept, seen>>

DeleteRollbackCopies(r) ==
  /\ record[r] # None
  /\ kept' = [kept EXCEPT ![r] = Empty]
  /\ record' = [record EXCEPT ![r] = None]
  /\ UNCHANGED <<live, call, seen>>

\* Another program makes a file that is not there.
ProgramMakes(f) ==
  /\ live[f] = None /\ Cardinality(made) < MaxMade
  /\ live' = [live EXCEPT ![f] = Mine] /\ made' = made \cup {f}
  /\ UNCHANGED <<kept, record, call, crashes, past>>

Crash ==
  /\ \E c \in Caller : call[c] # Idle
  /\ crashes < MaxCrashes /\ crashes' = crashes + 1
  /\ call' = [c \in Caller |-> Idle]
  /\ UNCHANGED <<live, kept, record, made, past>>

RollSteps(c) ==
  \/ EndMoves(c) \/ Extract(c) \/ Finish(c)
  \/ \E f \in File : Move(c, f) \/ Look(c, f)
UndoSteps(c) ==
  \/ Enqueue(c) \/ EnterUndo(c) \/ PutBack(c) \/ EndUndo(c)
  \/ \E f \in File : DeleteRestored(c, f) \/ TakeOut(c, f)

Next ==
  \/ \E c \in Caller : RollSteps(c) \/ UndoSteps(c)
  \/ \E c \in Caller, r \in Roll : Begin(c, r) \/ AskUndo(c, r)
  \/ \E r \in Roll : DeleteRollbackCopies(r)
  \/ \E f \in File : ProgramMakes(f)
  \/ Crash

Spec == Init /\ [][Next]_vars

-----------------------------------------------------------------------------
(* Properties *)

HasMine(f) == live[f] = Mine \/ \E r \in Roll : kept[r][f] = Mine
Loses(f) == HasMine(f) /\ ~HasMine(f)' /\ ~ \E r \in Roll : DeleteRollbackCopies(r)

\* "everything it replaces or removes is kept, so the roll back can be undone"
\* (GUI.md:885): whatever fails, ends early or is retried, a file no snapshot
\* has is in the folders or a safety folder until the kept versions are deleted,
\* if the roll backs of the set are undone from the newest to the oldest.
NothingLost == [][~disorder => \A f \in File \ made : ~Loses(f)]_vars

\* The same of roll backs undone in any order.
NothingLostInAnyOrder == [][\A f \in File \ made : ~Loses(f)]_vars

\* The same of the files another program makes: a restore that keeps existing
\* files should "never replace a file that has reappeared"
\* (restore_inline.go:1321-1322).
MadeIsKept == [][\A f \in made : ~Loses(f)]_vars

\* Undo only knows the files of the record: once the moves have been recorded,
\* the safety folder holds no file the record does not name.
KeptIsRecorded ==
  \A r \in Roll : record[r] # None /\ record[r].status \in {"restoring", "done", "failed"} =>
    \A f \in File : kept[r][f] # None => f \in record[r].moved

\* Where an Undo without problems leaves the folders as they were; files another
\* program made are its own.
PutsBack(status) ==
  \A c \in Caller : Ending(c) /\ ~call[c].bad /\ call[c].man.status \in status
                    /\ call[c].roll \notin late /\ (\A r \in Roll : call[c].roll \notin older[r]) =>
    \A f \in File \ made : live[f] = before[call[c].roll][f]

\* "UndoRollback puts the folders back as they were before a roll back"
\* (undelete_rollback.go:985), after one that has succeeded.
UndoPutsBack == PutsBack({"done"})

\* The same after one that has failed: "the files it restored are deleted, the
\* files it moved aside go back" (undelete_rollback.go:985-987).
UndoPutsBackFailed == PutsBack({"failed"})

\* "so a roll back can be undone, also after the app has been restarted"
\* (undelete_rollback.go:506-507).
UndoPutsBackRestarted == PutsBack({"moving", "restoring"})

\* "The safety folder is removed when everything went back" (GUI.md:918).
PutBackIsUndone ==
  \A c \in Caller : Ending(c) /\ live = before[call[c].roll] => ~call[c].bad
===============================================================================
