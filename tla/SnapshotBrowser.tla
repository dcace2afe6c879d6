---------------------------- MODULE SnapshotBrowser ----------------------------
(***************************************************************************)
(* The Restore tab of the window (gui/frontend/src/App.jsx): the list of a  *)
(* server's snapshots, the tree of the open one, what is ticked in it and   *)
(* the restore that is sent.                                                *)
(*                                                                          *)
(* Every call to the program is answered later, in any order, while the     *)
(* user goes on clicking.  Rows, ticks and the sidecar are kept as the      *)
(* snapshot they come from; every snapshot holds one folder with one file.  *)
(***************************************************************************)
EXTENDS Naturals

CONSTANTS
  Server,    \* the PBS servers to choose from
  Snap,      \* snapshots: a backup ID with a time
  Legacy,    \* those without a sidecar
  Found,     \* those of search hits
  None,
  MaxCalls   \* bound: calls sent to the program

ASSUME SnapAssumption == Legacy \subseteq Snap /\ Found \subseteq Snap
ASSUME NoneAssumption ==
  None \notin Snap \cup Server \cup [srv : Server, snap : Snap, gen : Nat]
ASSUME CallsAssumption == MaxCalls \in Nat

VARIABLES
  server,    \* restorePBSID
  list,      \* the server whose snapshots were listed last
  shown,     \* showSnapshots
  selected,  \* selectedSnapshot
  ctx,       \* snapshotCtxRef.current
  rows,      \* snapshotChildren
  expanded,  \* the folder is in expandedDirs
  meta,      \* snapshotMeta
  ticks,     \* selectedPaths
  loading,   \* snapshotLoad.phase = 'reading'
  inPlace,   \* restoreMode = 'original'
  wait,      \* what serverWait shows the WaitBar for
  waitSeq,   \* waitSeqRef: the newest list or folder call
  calls,     \* calls without their answer
  made,      \* calls so far
  restoring, \* restoreLoading: a restore was sent and has not ended
  strayed    \* history: an answer for another snapshot was let in

page == <<selected, ctx, rows, expanded, meta, ticks, loading, inPlace, strayed>>
lists == <<server, list, shown>>
waits == <<wait, waitSeq>>
vars == <<page, lists, waits, calls, made, restoring>>

Origin == [srv : Server, snap : Snap]
Level == {"top", "folder"}     \* the listings of a snapshot's tree
Path == {"folder", "file"}     \* what can be ticked: the file is in the folder

Call == [no : 1..MaxCalls, kind : {"list", "open", "meta", "folder"},
         srv : Server, snap : Snap \cup {None}, gen : 0..MaxCalls,
         hit : BOOLEAN, old : BOOLEAN]

TypeOK ==
  /\ server \in Server /\ list \in Server \cup {None} /\ shown \in BOOLEAN
  /\ selected \in Snap \cup {None}
  /\ ctx \in {None} \cup [srv : Server, snap : Snap, gen : 1..MaxCalls]
  /\ rows \in [Level -> Origin \cup {None}] /\ expanded \in BOOLEAN
  /\ meta \in Origin \cup {None}
  /\ ticks \in [Path -> Origin \cup {None}]
  /\ loading \in BOOLEAN /\ inPlace \in BOOLEAN /\ strayed \in BOOLEAN
  /\ wait \in {"none", "list", "folder"}
  /\ waitSeq \in 0..MaxCalls /\ made \in 0..MaxCalls
  /\ calls \subseteq Call
  /\ restoring \in BOOLEAN

NoRows == [l \in Level |-> None]
NoTicks == [p \in Path |-> None]

Init ==
  /\ server \in Server /\ list = None /\ shown = FALSE
  /\ selected = None /\ ctx = None
  /\ rows = NoRows /\ expanded = FALSE /\ meta = None /\ ticks = NoTicks
  /\ loading = FALSE /\ inPlace = FALSE
  /\ wait = "none" /\ waitSeq = 0 /\ calls = {} /\ made = 0
  /\ restoring = FALSE /\ strayed = FALSE

-----------------------------------------------------------------------------
(* Calls and their answers *)

SendsUncounted(kind, snap, gen, hit) ==
  [no |-> made, kind |-> kind, srv |-> server, snap |-> snap, gen |-> gen,
   hit |-> hit, old |-> FALSE]
Sends(kind, snap, gen, hit) ==
  [no |-> made + 1, kind |-> kind, srv |-> server, snap |-> snap, gen |-> gen,
   hit |-> hit, old |-> FALSE]

CallsLeft == made < MaxCalls

\* The context is dropped: the calls under way belong to one that is gone.
Aged(sentCalls) == {[c EXCEPT !.old = TRUE] : c \in sentCalls}

From(c) == [srv |-> c.srv, snap |-> c.snap]

\* snapshotCtxRef.current?.gen === gen
AnyOpen(c) == ctx # None
GenMatches(c) == ctx # None /\ ctx.gen = c.gen

\* endServerWait
EndListWait(c) ==
  wait' = IF waitSeq = c.no /\ c.kind = "list" THEN "none" ELSE wait
EndWait(c) == wait' = IF waitSeq = c.no THEN "none" ELSE wait

-----------------------------------------------------------------------------
(* The list *)

NothingOpen == selected' = None /\ ctx' = None /\ rows' = NoRows

ListSnapshots ==
  /\ wait # "list" /\ CallsLeft
  /\ NothingOpen /\ ticks' = NoTicks /\ expanded' = FALSE
  /\ calls' = Aged(calls) \cup {Sends("list", None, 0, FALSE)}
  /\ made' = made + 1
  /\ wait' = "list" /\ waitSeq' = made + 1
  /\ UNCHANGED <<server, list, shown, meta, loading, inPlace, strayed, restoring>>

ListAnswer(c) ==
  /\ c \in calls /\ c.kind = "list"
  /\ calls' = calls \ {c}
  /\ \/ waitSeq = c.no /\ list' = c.srv /\ shown' = TRUE
     \/ UNCHANGED <<list, shown>>        \* an error, or replaced
  /\ EndWait(c)
  /\ UNCHANGED <<server, waitSeq, page, made, restoring>>

\* Another server is chosen.
ChangeServer(s) ==
  /\ s # server /\ server' = s /\ shown' = FALSE
  /\ NothingOpen
  /\ calls' = Aged(calls)
  /\ UNCHANGED <<list, expanded, meta, ticks, loading, inPlace, strayed,
                 waits, made, restoring>>

-----------------------------------------------------------------------------
(* The open snapshot *)

\* handleSelectSnapshot up to its first await; without a sidecar the mode
\* goes back to another folder before the user's next click.
Open(s, hit) ==
  LET gen == IF ctx = None THEN 1 ELSE ctx.gen + 1
  IN /\ CallsLeft
     /\ selected' = s /\ ctx' = [srv |-> server, snap |-> s, gen |-> gen]
     /\ rows' = NoRows /\ expanded' = FALSE
     /\ meta' = None /\ inPlace' = FALSE /\ ticks' = NoTicks
     /\ loading' = TRUE /\ strayed' = FALSE
     /\ calls' = calls \cup {Sends("open", s, gen, hit)} /\ made' = made + 1

\* A snapshot of the list is clicked.
SelectSnapshot(s) ==
  /\ shown /\ list # None
  /\ Open(s, FALSE)
  /\ UNCHANGED <<lists, waits, restoring>>

\* The open one is read again.
ReloadSnapshot ==
  /\ selected # None
  /\ Open(selected, FALSE)
  /\ UNCHANGED <<lists, waits, restoring>>

\* "Restore this" on a search hit: the file in the folder.
RestoreHit(s) ==
  /\ Open(s, TRUE)
  /\ shown' = TRUE
  /\ UNCHANGED <<server, list, waits, restoring>>

\* handleRestoreHit after its await, whatever is open by then.
HitLands(c) ==
  /\ ticks' = [NoTicks EXCEPT !["file"] = From(c)]
  /\ expanded' = TRUE
  /\ strayed' = (strayed \/ ~GenMatches(c) \/ c.old)

\* OpenSnapshotTree answers and its snapshot is still the open one.
OpenAnswered(c) ==
  /\ c \in calls /\ c.kind = "open" /\ GenMatches(c)
  /\ rows' = [NoRows EXCEPT !["top"] = From(c)]
  /\ ticks' = [NoTicks EXCEPT !["folder"] = From(c)]
  /\ loading' = FALSE /\ strayed' = (strayed \/ c.old)
  /\ calls' = (calls \ {c}) \cup {[c EXCEPT !.kind = "meta"]}
  /\ UNCHANGED <<selected, ctx, expanded, meta, inPlace, lists, waits, made, restoring>>

\* It fails: the sidecar is asked for all the same.
OpenFailed(c) ==
  /\ c \in calls /\ c.kind = "open" /\ GenMatches(c)
  /\ loading' = FALSE
  /\ calls' = (calls \ {c}) \cup {[c EXCEPT !.kind = "meta"]}
  /\ UNCHANGED <<selected, ctx, rows, expanded, meta, ticks, inPlace, strayed,
                 lists, waits, made, restoring>>

\* Its answer, or its error, comes when another snapshot is open, or none.
OpenSuperseded(c) ==
  /\ c \in calls /\ c.kind = "open" /\ ~GenMatches(c)
  /\ calls' = calls \ {c}
  /\ IF c.hit THEN HitLands(c) ELSE UNCHANGED <<ticks, expanded, strayed>>
  /\ UNCHANGED <<selected, ctx, rows, meta, loading, inPlace, lists, waits, made, restoring>>

\* GetSnapshotMeta: an error and a snapshot without one change nothing.
MetaAnswer(c) ==
  /\ c \in calls /\ c.kind = "meta"
  /\ calls' = calls \ {c}
  /\ \/ c.snap \notin Legacy /\ meta' = From(c)
     \/ UNCHANGED meta
  /\ IF c.hit THEN HitLands(c) ELSE UNCHANGED <<ticks, expanded, strayed>>
  /\ UNCHANGED <<selected, ctx, rows, loading, inPlace, lists, waits, made, restoring>>

-----------------------------------------------------------------------------
(* The tree *)

TreeShown == selected # None /\ rows["top"] # None

CollapseFolder ==
  /\ TreeShown /\ expanded /\ expanded' = FALSE
  /\ UNCHANGED <<selected, ctx, rows, meta, ticks, loading, inPlace, strayed,
                 lists, waits, calls, made, restoring>>

ExpandFolder ==
  /\ TreeShown /\ ~expanded /\ expanded' = TRUE
  /\ IF rows["folder"] # None
     THEN UNCHANGED <<calls, made, wait, waitSeq>>
     ELSE /\ CallsLeft
          /\ calls' = calls \cup {[Sends("folder", ctx.snap, ctx.gen, FALSE)
                                   EXCEPT !.srv = ctx.srv]}
          /\ made' = made + 1 /\ wait' = "folder" /\ waitSeq' = made + 1
  /\ UNCHANGED <<selected, ctx, rows, meta, ticks, loading, inPlace, strayed,
                 lists, restoring>>

FolderAnswer(c) ==
  /\ c \in calls /\ c.kind = "folder"
  /\ calls' = calls \ {c}
  /\ \/ /\ GenMatches(c)
        /\ rows' = [rows EXCEPT !["folder"] = From(c)]
        /\ strayed' = (strayed \/ c.old)
     \/ UNCHANGED <<rows, strayed>>      \* an error, or superseded
  /\ EndWait(c)
  /\ UNCHANGED <<selected, ctx, expanded, meta, ticks, loading, inPlace, lists,
                 waitSeq, made, restoring>>

Ticks(new) ==
  /\ selected # None /\ ticks' = new
  /\ UNCHANGED <<selected, ctx, rows, expanded, meta, loading, inPlace, strayed,
                 lists, waits, calls, made, restoring>>

\* The box of a row; the file's row is there when the folder is open and read.
Toggle(p) ==
  LET level == IF p = "folder" THEN "top" ELSE "folder"
  IN /\ TreeShown
     /\ p = "file" => expanded /\ rows["folder"] # None
     /\ Ticks([ticks EXCEPT ![p] = IF @ = None THEN rows[level] ELSE None])

SelectAll == Ticks([NoTicks EXCEPT !["folder"] = rows["top"]])
SelectNone == Ticks(NoTicks)

-----------------------------------------------------------------------------
(* The restore *)

ChooseMode(original) ==
  /\ selected # None
  /\ original => meta # None               \* inPlaceBlocker
  /\ inPlace # original /\ inPlace' = original
  /\ UNCHANGED <<selected, ctx, rows, expanded, meta, ticks, loading, strayed,
                 lists, waits, calls, made, restoring>>

\* The question names the sidecar's folder; no is no step.
RestoreSnapshot ==
  /\ selected # None /\ ~restoring /\ ticks # NoTicks
  /\ restoring' = TRUE
  /\ UNCHANGED <<page, lists, waits, calls, made>>

\* restore:complete, or the call's error
RestoreEnds ==
  /\ restoring /\ restoring' = FALSE
  /\ UNCHANGED <<page, lists, waits, calls, made>>

-----------------------------------------------------------------------------
Answer(c) ==
  ListAnswer(c) \/ OpenAnswered(c) \/ OpenFailed(c) \/ OpenSuperseded(c)
    \/ MetaAnswer(c) \/ FolderAnswer(c)

Next ==
  \/ ListSnapshots
  \/ \E s \in Server : ChangeServer(s)
  \/ \E s \in Snap : SelectSnapshot(s)
  \/ \E s \in Found : RestoreHit(s)
  \/ ReloadSnapshot
  \/ \E c \in calls : Answer(c)
  \/ CollapseFolder \/ ExpandFolder
  \/ \E p \in Path : Toggle(p)
  \/ SelectAll \/ SelectNone
  \/ \E b \in BOOLEAN : ChooseMode(b)
  \/ RestoreSnapshot \/ RestoreEnds

Spec == Init /\ [][Next]_vars

\* Every call is answered, with what was asked for or an error.
FairSpec == Spec /\ \A n \in 1..MaxCalls :
  WF_vars(\E c \in calls : c.no = n /\ Answer(c))
-----------------------------------------------------------------------------
(* Properties *)

Here == [srv |-> server, snap |-> selected]

\* Unless an answer of a context that was dropped, or a search hit that was
\* overtaken, has been let in since it was opened, the tree on display and
\* every tick in it are of the snapshot a restore would name: folders that
\* answer late, snapshots opened one after another and other servers do not
\* mix (snapshotCtxRef.gen, handleSelectSnapshot, loadChildren).
ShownIsSelected ==
  selected # None /\ ~strayed =>
    /\ \A l \in Level : rows[l] \in {None, Here}
    /\ \A p \in Path : ticks[p] \in {None, Here}

\* The window does not stay busy: "reading" and the WaitBar end for the
\* snapshot and the call they stand for, whatever was clicked meanwhile.
BusyEnds ==
  /\ (selected # None /\ loading) ~> (selected = None \/ ~loading)
  /\ wait # "none" ~> wait = "none"

\* The folder the in-place question names is that of the snapshot restored
\* (inPlaceConfirm, handleRestoreSnapshot).
RestoresWhereItSays ==
  [][~restoring /\ restoring' /\ inPlace => meta = Here]_vars

\* Nothing of another snapshot is ever shown, whatever was clicked.
ShownIsAlwaysSelected ==
  selected # None => \A l \in Level : rows[l] \in {None, Here}

\* A list that comes is left out only for a newer list (handleListSnapshots).
ListLands ==
  [][\A c \in calls \ calls' : c.kind = "list" /\ waitSeq # c.no => wait # "folder"]_vars

\* A folder that is open and not read is being read, or could not be: for
\* ever "Loading..." is not what an open folder shows.
OpenFolderIsRead ==
  (TreeShown /\ expanded /\ rows["folder"] = None)
    ~> ~(TreeShown /\ expanded /\ rows["folder"] = None)
=============================================================================
