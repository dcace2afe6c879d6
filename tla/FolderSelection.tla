---------------------------- MODULE FolderSelection ----------------------------
(***************************************************************************)
(* The folder tree of the Backup tab: which folders a Backup Set or a       *)
(* one-off backup holds and what it leaves out of them                      *)
(* (gui/frontend/src/components/DirectoryTree.jsx and treeSelection.js, the *)
(* form around them in App.jsx, and pbscommon/pxar.go for what a backup     *)
(* then does with the two lists).                                           *)
(*                                                                          *)
(* A path is a file or a folder of the disk.  The lists are sets: where the *)
(* code takes the first that fits, any that fits may be taken.  The tree    *)
(* compares paths without case; the disk may not.                           *)
(***************************************************************************)
CONSTANTS
  Path,
  File,    \* the paths that are files
  Above,   \* of each path, itself and the folders it is in
  Fold,    \* of each path, the one that stands for those that differ in case
  Wild,    \* the paths whose own name holds a *, a ? or a [
  Matches, \* what a path matches as a pattern, below the folder backed up
  Line,    \* the paths a user types as folders or as exclusions
  None

\* normPath, and isUnder: a path and the starts of it that end at a /.
Same(p, q) == Fold[p] = Fold[q]
Starts == [p \in Path |-> {Fold[a] : a \in Above[p]}]
Under(r, p) == Fold[r] \in Starts[p]

\* ListDirectory: two entries of one folder.
Beside(s, k) == s # k /\ Above[s] \ {s} = Above[k] \ {k}
TopLevel == {p \in Path : Above[p] = {p}}

ASSUME TreeAssumption ==
  /\ File \subseteq Path /\ Wild \subseteq Path /\ Line \subseteq Path
  /\ Above \in [Path -> SUBSET Path]
  /\ \A p \in Path : p \in Above[p]
  /\ \A p, q \in Path : q \in Above[p] => Above[q] \subseteq Above[p]
  /\ \A p, q \in Path : p \in Above[q] /\ q \in Above[p] => p = q
  /\ \A p \in Path : \A a, b \in Above[p] : a \in Above[b] \/ b \in Above[a]
  /\ \A f \in File, p \in Path : f \in Above[p] => p = f

\* Where the ways down to p and to q part, a folder holds an entry on each.
ASSUME BranchAssumption ==
  \A p, q \in Path :
    Above[p] \cap Above[q] # {} /\ p \notin Above[q] /\ q \notin Above[p] =>
      \E k \in Above[p] \ Above[q], s \in Above[q] \ Above[p] : Beside(s, k)

\* Names that differ in case only are in folders that do, if in different ones.
ASSUME NamesAssumption ==
  /\ Fold \in [Path -> Path]
  /\ Matches \in [Path -> [Path -> SUBSET Path]]
  /\ \A p, q \in Path : Same(p, q) => \A a \in Above[p] : Under(a, q)

VARIABLES
  roots,      \* backupDirs
  excludes,   \* treeExcludes
  typed,      \* excludeList, the box of exclusions
  saved       \* the Backup Set of this form, as it was saved

vars == <<roots, excludes, typed, saved>>

TypeOK ==
  /\ roots \subseteq Path /\ excludes \subseteq Path /\ typed \subseteq Path
  /\ saved \in {None} \cup [dirs : SUBSET Path, excl : SUBSET Path]

Init == roots = {} /\ excludes = {} /\ typed = {} /\ saved = None

-----------------------------------------------------------------------------
(* What the tree shows, and what a backup takes *)

Covered(p) == \E r \in roots : Under(r, p)
IsChecked(p) == Covered(p) /\ ~\E e \in excludes : Under(e, p)

\* checkState: "all", "some" or "none"
CheckState(p) ==
  IF IsChecked(p)
  THEN IF \E e \in excludes : Under(p, e) THEN "some" ELSE "all"
  ELSE IF \E r \in roots : Under(p, r) /\ ~Same(r, p) THEN "some" ELSE "none"

\* isExcluded: an absolute exclusion counts below the folder being backed up.
\* With a *, a ? or a [ in it, it is a pattern.  A folder it leaves out is not
\* walked.
IsPattern(r, e) == (Above[e] \ Above[r]) \cap Wild # {}
LeftOut(excl, r, f) ==
  \E e \in excl :
    /\ Under(r, e) /\ ~Same(r, e)
    /\ \E q \in Above[f] \ Above[r] :
         IF IsPattern(r, e) THEN q \in Matches[r][e] ELSE Same(e, q)

Backed(dirs, excl) ==
  {f \in File : \E r \in dirs \cap Above[f] : ~LeftOut(excl, r, f)}

\* getEffectiveExcludeList
EffectiveTyped == typed
Effective == typed \cup excludes

-----------------------------------------------------------------------------
(* The tree *)

Below(p, paths) == {q \in paths : Under(p, q)}

\* computeReincludeExcludes: one exclusion gives way to one for each sibling on
\* the way from it down to p.  Of entries that differ in case only, the way
\* takes the first listed.
StepsDown(a, p) == {c \in Path : Under(a, c) /\ ~Same(a, c) /\ Under(c, p)}
WaysDown(a, p) ==
  {way \in SUBSET StepsDown(a, p) :
     \A c \in StepsDown(a, p) : \E k \in way : {d \in way : Same(c, d)} = {k}}

SiblingsLast(way) == {s \in Path : \E k \in way : Beside(s, k) /\ way \subseteq Above[k]}
Siblings(way) == {s \in Path : \E k \in way : Beside(s, k)}

Reincluded(a, p) == {(excludes \ {a}) \cup Siblings(way) : way \in WaysDown(a, p)}

\* A box that is empty or half full is ticked.
Check(p) ==
  /\ CheckState(p) # "all"
  /\ \/ /\ ~Covered(p) /\ p \notin File
        /\ roots' = (roots \ Below(p, roots)) \cup {p}
        /\ excludes' = excludes \ Below(p, excludes)
     \/ /\ Covered(p) /\ UNCHANGED roots
        /\ \E a \in excludes : Under(a, p) /\ excludes' \in Reincluded(a, p)
     \/ /\ IsChecked(p) /\ UNCHANGED roots
        /\ excludes' = excludes \ Below(p, excludes)
  /\ UNCHANGED <<typed, saved>>

\* A full one is cleared.
Uncheck(p) ==
  /\ CheckState(p) = "all"
  /\ \E r \in roots :
       /\ Under(r, p)
       /\ IF Same(r, p)
          THEN /\ roots' = {q \in roots : ~Same(q, p)}
               /\ excludes' = excludes \ Below(p, excludes)
          ELSE roots' = roots /\ excludes' = excludes \cup {p}
  /\ UNCHANGED <<typed, saved>>

\* handleCheckedChange
Click(p) == Check(p) \/ Uncheck(p)

\* handleSelectAll: the box above the tree
SelectAll ==
  LET tops == TopLevel \ File
  IN /\ roots' = IF \A p \in tops : CheckState(p) = "all" THEN {} ELSE tops
     /\ excludes' = {}
     /\ UNCHANGED <<typed, saved>>

-----------------------------------------------------------------------------
(* The form around it *)

\* A line more or less in the box of folders, or in that of exclusions.
TypeFolder(p) ==
  /\ roots' = IF p \in roots THEN roots \ {p} ELSE roots \cup {p}
  /\ UNCHANGED <<excludes, typed, saved>>

TypeExclusion(p) ==
  /\ typed' = IF p \in typed THEN typed \ {p} ELSE typed \cup {p}
  /\ UNCHANGED <<roots, excludes, saved>>

\* The form's lists are written to the set; only the folders are cleared.
SaveFolders ==
  /\ roots # {}
  /\ saved' = [dirs |-> roots]
  /\ roots' = {}
  /\ UNCHANGED <<excludes, typed>>
SaveSet ==
  /\ roots # {}
  /\ saved' = [dirs |-> roots, excl |-> Effective]
  /\ roots' = {}
  /\ UNCHANGED <<excludes, typed>>

\* Edit, and Clone: the set's exclusions go to the box.
EditSet ==
  /\ saved # None
  /\ roots' = saved.dirs /\ typed' = saved.excl /\ excludes' = {}
  /\ UNCHANGED saved

\* New set, and Cancel.
ClearForm ==
  /\ roots' = {} /\ excludes' = {} /\ typed' = {}
  /\ UNCHANGED saved

\* Rerun of a failed backup in Reports: its folders, with the form's exclusions.
Rerun ==
  /\ saved # None /\ roots' = saved.dirs
  /\ UNCHANGED <<excludes, typed, saved>>

\* The form is switched to a machine backup and back.
SwitchType == roots' = {} /\ UNCHANGED <<excludes, typed, saved>>

Next ==
  \/ \E p \in Path : Click(p)
  \/ SelectAll
  \/ \E p \in Line : TypeFolder(p) \/ TypeExclusion(p)
  \/ SaveSet \/ EditSet \/ ClearForm \/ Rerun \/ SwitchType

Spec == Init /\ [][Next]_vars

-----------------------------------------------------------------------------
(* Properties *)

Apart(paths) == \A p, q \in paths : Under(p, q) => p = q

\* The lists as clicks make them: no folder inside another, no exclusion
\* inside another, every exclusion inside a folder.
Tidy ==
  /\ Apart(roots) /\ Apart(excludes)
  /\ \A e \in excludes : \E r \in roots : Under(r, e) /\ ~Same(r, e)

\* No name holds a *, a ? or a [, and no two names differ in case only.
PlainNames == Wild = {} /\ \A p, q \in Path : Same(p, q) => p = q

FilesIn(p) == {f \in File : p \in Above[f]}

ClickIsExact(p) ==
  /\ Check(p) =>
       Tidy' /\ Backed(roots, excludes)' = Backed(roots, excludes) \cup FilesIn(p)
  /\ Uncheck(p) =>
       Tidy' /\ Backed(roots, excludes)' = Backed(roots, excludes) \ FilesIn(p)

\* In a tidy form a click does what its box says, to the last file: ticking
\* adds the files below it and no others, clearing takes away exactly those,
\* and the form stays tidy (handleCheckedChange, computeReincludeExcludes).
\* So it is with plain names.
ClicksAreExact == [][\A p \in Path : PlainNames /\ Tidy => ClickIsExact(p)]_vars

\* The same of all the names a disk may have: not what the code does.
ClicksAreAlwaysExact == [][\A p \in Path : Tidy => ClickIsExact(p)]_vars

\* A file whose box is clear is not in the backup (checkState, isExcluded).
ClearIsLeftOut ==
  Tidy => \A f \in File : CheckState(f) = "none" => f \notin Backed(roots, Effective)

\* A file whose box is ticked is in the backup (checkState: "fully included").
TickedIsBackedUp ==
  \A f \in File : CheckState(f) = "all" => f \in Backed(roots, Effective)
=============================================================================
