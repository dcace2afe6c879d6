---------------------------- MODULE WindowProofs ----------------------------
(***************************************************************************)
(* The window.  The folder tree of the Backup tab, for every directory     *)
(* tree: a click changes the backup by exactly the files below the box     *)
(* clicked, and what a clear box stands for is left out.  The cards of the *)
(* runs, for any number of runs and reloads: the card in full moves on,    *)
(* and nobody is left waiting for a run's end.                             *)
(***************************************************************************)
EXTENDS FolderSelection, RunCards, TLAPS

-----------------------------------------------------------------------------
(* Paths *)

\* With plain names the tree's comparisons are those of the disk.
LEMMA UnderIsAbove ==
  ASSUME PlainNames, NEW p \in Path, NEW r \in Path
  PROVE  /\ Under(r, p) <=> r \in Above[p]
         /\ Same(r, p) <=> r = p
<1>1. \A a \in Above[p] : a \in Path /\ (Same(a, r) <=> a = r)
  BY TreeAssumption DEF PlainNames, Same
<1>2. Under(r, p) <=> \E a \in Above[p] : Same(a, r)
  BY DEF Under, Starts, Same
<1> QED BY <1>1, <1>2 DEF PlainNames, Same

LEMMA UnderTransitive ==
  ASSUME PlainNames, NEW a \in Path, NEW b \in Path, NEW c \in Path,
         Under(a, b), Under(b, c)
  PROVE  Under(a, c)
BY UnderIsAbove, TreeAssumption

LEMMA UnderAntisymmetric ==
  ASSUME PlainNames, NEW a \in Path, NEW b \in Path, Under(a, b), Under(b, a)
  PROVE  a = b
BY UnderIsAbove, TreeAssumption

\* Two folders a path is in: one is in the other.
LEMMA UnderChain ==
  ASSUME PlainNames, NEW p \in Path, NEW a \in Path, NEW b \in Path,
         Under(a, p), Under(b, p)
  PROVE  Under(a, b) \/ Under(b, a)
BY UnderIsAbove, TreeAssumption

-----------------------------------------------------------------------------
(* What two lists mean *)

\* Tidy, of any two lists.
TidyLists(dirs, excl) ==
  /\ Apart(dirs) /\ Apart(excl)
  /\ \A e \in excl : \E r \in dirs : Under(r, e) /\ ~Same(r, e)

InLists(dirs, excl, p) ==
  (\E r \in dirs : Under(r, p)) /\ ~\E e \in excl : Under(e, p)

\* In tidy lists a file is in one folder at most, so that an exclusion it is
\* in counts: a backup takes what the tree shows as checked.
LEMMA BackedIsInLists ==
  ASSUME NEW dirs \in SUBSET Path, NEW excl \in SUBSET Path, PlainNames,
         TidyLists(dirs, excl), NEW f \in File
  PROVE  f \in Backed(dirs, excl) <=> InLists(dirs, excl, f)
<1>1. f \in Path
  BY TreeAssumption
<1>2. \A r \in dirs : LeftOut(excl, r, f) <=>
        \E e \in excl : r \in Above[e] /\ r # e /\ e \in Above[f] \ Above[r]
  <2> SUFFICES ASSUME NEW r \in dirs
               PROVE  LeftOut(excl, r, f) <=>
                 \E e \in excl : r \in Above[e] /\ r # e /\ e \in Above[f] \ Above[r]
    OBVIOUS
  <2>1. \A e \in excl : ~IsPattern(r, e)
    BY DEF IsPattern, PlainNames
  <2>2. \A e \in excl : /\ Under(r, e) <=> r \in Above[e]
                        /\ Same(r, e) <=> r = e
    BY UnderIsAbove
  <2>3. \A e \in excl, q \in Above[f] : Same(e, q) <=> e = q
    BY <1>1, UnderIsAbove, TreeAssumption
  <2> QED BY <2>1, <2>2, <2>3 DEF LeftOut
<1>3. \A r \in dirs : r \in Path /\ (Under(r, f) <=> r \in Above[f])
  BY <1>1, UnderIsAbove
<1>4. \A e \in excl : e \in Path /\ (Under(e, f) <=> e \in Above[f])
  BY <1>1, UnderIsAbove
<1>5. ASSUME f \in Backed(dirs, excl)
      PROVE  InLists(dirs, excl, f)
  <2>1. PICK r \in dirs : r \in Above[f] /\ ~LeftOut(excl, r, f)
    BY <1>5 DEF Backed
  <2>2. SUFFICES ASSUME NEW e \in excl, Under(e, f)
                 PROVE  FALSE
    BY <1>3, <2>1 DEF InLists
  <2>3. PICK r2 \in dirs : Under(r2, e) /\ ~Same(r2, e)
    BY <2>2 DEF TidyLists
  <2>4. r2 \in Above[e] /\ r2 # e
    BY <1>3, <1>4, <2>3, UnderIsAbove
  <2>5. r2 \in Above[f]
    BY <1>1, <1>4, <2>2, <2>4, TreeAssumption
  <2>6. r2 = r
    BY <1>1, <1>3, <2>1, <2>5, UnderChain DEF TidyLists, Apart
  <2>7. e \notin Above[r]
    BY <1>3, <1>4, <2>4, <2>6, TreeAssumption
  <2> QED BY <1>2, <1>4, <2>1, <2>2, <2>4, <2>6, <2>7
<1>6. ASSUME InLists(dirs, excl, f)
      PROVE  f \in Backed(dirs, excl)
  <2>1. PICK r \in dirs : r \in Above[f]
    BY <1>3, <1>6 DEF InLists
  <2>2. ~LeftOut(excl, r, f)
    BY <1>2, <1>4, <1>6, <2>1 DEF InLists
  <2> QED BY <2>1, <2>2 DEF Backed
<1> QED BY <1>5, <1>6

\* So two tidy lists are compared by what the tree shows.
LEMMA BackedByLists ==
  ASSUME NEW dirs \in SUBSET Path, NEW excl \in SUBSET Path, PlainNames,
         TidyLists(dirs, excl), NEW S \in SUBSET File,
         \A f \in File : InLists(dirs, excl, f) <=> f \in S
  PROVE  Backed(dirs, excl) = S
<1>1. Backed(dirs, excl) \subseteq File
  BY DEF Backed
<1> QED BY <1>1, BackedIsInLists

-----------------------------------------------------------------------------
(* Ticking a box *)

\* What a click makes of the two lists.
Gains(dirs, excl, p) ==
  \A f \in File : InLists(dirs, excl, f) <=> InLists(roots, excludes, f) \/ Under(p, f)
Loses(dirs, excl, p) ==
  \A f \in File : InLists(dirs, excl, f) <=> InLists(roots, excludes, f) /\ ~Under(p, f)

TidyForm == TypeOK /\ PlainNames /\ TidyLists(roots, excludes)

\* A folder that no folder of the list holds joins it and takes the place of
\* those in it.
LEMMA TickNewFolder ==
  ASSUME TidyForm, NEW p \in Path, ~Covered(p),
         NEW dirs, dirs = (roots \ Below(p, roots)) \cup {p},
         NEW excl, excl = excludes \ Below(p, excludes)
  PROVE  TidyLists(dirs, excl) /\ Gains(dirs, excl, p)
<1> PlainNames /\ roots \subseteq Path /\ excludes \subseteq Path
  BY DEF TidyForm, TypeOK
<1>1. \A r \in roots : ~Under(r, p)
  BY DEF Covered
<1>2. \A r \in roots \ Below(p, roots) : ~Under(p, r)
  BY DEF Below
<1>3. Apart(dirs)
  BY <1>1, <1>2 DEF TidyForm, TidyLists, Apart
<1>4. Apart(excl)
  BY DEF TidyForm, TidyLists, Apart
<1>5. ASSUME NEW e \in excl
      PROVE  \E r \in dirs : Under(r, e) /\ ~Same(r, e)
  <2>1. PICK r \in roots : Under(r, e) /\ ~Same(r, e)
    BY <1>5 DEF TidyForm, TidyLists
  <2>2. e \in Path /\ ~Under(p, e)
    BY <1>5 DEF TidyForm, TypeOK, Below
  <2>3. ~Under(p, r)
    BY <2>1, <2>2, UnderTransitive
  <2> QED BY <2>1, <2>3 DEF Below
<1>6. ASSUME NEW f \in File, Under(p, f)
      PROVE  InLists(dirs, excl, f)
  <2>1. f \in Path
    BY TreeAssumption
  <2>2. SUFFICES ASSUME NEW e \in excl, Under(e, f)
                 PROVE  FALSE
    BY <1>6 DEF InLists
  <2>3. e \in excludes /\ ~Under(p, e)
    BY <2>2 DEF Below
  <2>4. Under(e, p)
    BY <1>6, <2>1, <2>2, <2>3, UnderChain
  <2>5. PICK r \in roots : Under(r, e)
    BY <2>3 DEF TidyForm, TidyLists
  <2> QED BY <1>1, <2>4, <2>5, UnderTransitive
<1>7. ASSUME NEW f \in File, ~Under(p, f)
      PROVE  InLists(dirs, excl, f) <=> InLists(roots, excludes, f)
  <2>1. f \in Path
    BY TreeAssumption
  <2>2. \A x \in Path : Under(x, f) => ~Under(p, x)
    BY <1>7, <2>1, UnderTransitive
  <2> QED BY <1>7, <2>2 DEF InLists, Below
<1> QED BY <1>3, <1>4, <1>5, <1>6, <1>7 DEF TidyLists, Gains

\* A ticked box that is half full loses its exclusions.
LEMMA TickChecked ==
  ASSUME TidyForm, NEW p \in Path, IsChecked(p),
         NEW excl, excl = excludes \ Below(p, excludes)
  PROVE  TidyLists(roots, excl) /\ Gains(roots, excl, p)
<1> PlainNames /\ roots \subseteq Path /\ excludes \subseteq Path
  BY DEF TidyForm, TypeOK
<1>1. TidyLists(roots, excl)
  BY DEF TidyForm, TidyLists, Apart
<1>2. ASSUME NEW f \in File, Under(p, f)
      PROVE  InLists(roots, excl, f)
  <2>1. f \in Path
    BY TreeAssumption
  <2>2. \E r \in roots : Under(r, f)
    BY <1>2, <2>1, UnderTransitive DEF IsChecked, Covered
  <2>3. SUFFICES ASSUME NEW e \in excl, Under(e, f)
                 PROVE  FALSE
    BY <2>2 DEF InLists
  <2>4. e \in excludes /\ ~Under(p, e)
    BY <2>3 DEF Below
  <2>5. Under(e, p)
    BY <1>2, <2>1, <2>3, <2>4, UnderChain
  <2> QED BY <2>4, <2>5 DEF IsChecked
<1>3. ASSUME NEW f \in File, ~Under(p, f)
      PROVE  InLists(roots, excl, f) <=> InLists(roots, excludes, f)
  <2>1. f \in Path
    BY TreeAssumption
  <2>2. \A x \in Path : Under(x, f) => ~Under(p, x)
    BY <1>3, <2>1, UnderTransitive
  <2> QED BY <2>2 DEF InLists, Below
<1> QED BY <1>1, <1>2, <1>3 DEF Gains

\* With plain names there is one way down.  The siblings on it are inside the
\* exclusion, beside the way and apart from each other.
LEMMA SiblingsAreBeside ==
  ASSUME PlainNames, NEW a \in Path, NEW p \in Path, Under(a, p),
         NEW way \in WaysDown(a, p), NEW s \in Siblings(way)
  PROVE  /\ s \in Path /\ Under(a, s) /\ s # a /\ ~Under(s, p) /\ ~Under(p, s)
         /\ \A q \in Path : Under(q, s) /\ q # s => Under(q, p)
<1>1. PICK k \in way : s \in Path /\ s # k /\ Above[s] \ {s} = Above[k] \ {k}
  BY DEF Siblings, Beside
<1>2. k \in Path /\ a \in Above[k] /\ a # k /\ k \in Above[p]
  BY UnderIsAbove DEF WaysDown, StepsDown
<1>3. s \in Path /\ a \in Above[s] /\ s # a
  BY <1>1, <1>2, TreeAssumption
<1>4. s \notin Above[p]
  BY <1>1, <1>2, TreeAssumption
<1>5. p \notin Above[s]
  BY <1>1, <1>2, <1>4, TreeAssumption
<1>6. \A q \in Path : q \in Above[s] /\ q # s => q \in Above[p]
  BY <1>1, <1>2, TreeAssumption
<1> QED BY <1>3, <1>4, <1>5, <1>6, UnderIsAbove

\* Every path inside the exclusion that is beside p is in one of them.
LEMMA SiblingsCover ==
  ASSUME PlainNames, NEW a \in Path, NEW p \in Path, Under(a, p),
         NEW way \in WaysDown(a, p),
         NEW f \in Path, Under(a, f), ~Under(p, f), ~Under(f, p)
  PROVE  \E s \in Siblings(way) : Under(s, f)
<1>1. /\ a \in Above[p] \cap Above[f]
      /\ p \notin Above[f] /\ f \notin Above[p]
  BY UnderIsAbove
<1>2. PICK k \in Above[p] \ Above[f], s \in Above[f] \ Above[p] : Beside(s, k)
  BY <1>1, BranchAssumption
<1>3. k \in Path /\ s \in Path
  BY <1>2, TreeAssumption
<1>4. a \in Above[k] /\ a # k
  BY <1>1, <1>2, <1>3, TreeAssumption
<1>5. k \in StepsDown(a, p)
  BY <1>2, <1>3, <1>4, UnderIsAbove DEF StepsDown
<1>6. PICK d \in way : Same(k, d)
  BY <1>5 DEF WaysDown
<1>7. d = k
  BY <1>3, <1>6, UnderIsAbove DEF WaysDown, StepsDown
<1>8. s \in Siblings(way)
  BY <1>2, <1>3, <1>6, <1>7 DEF Siblings
<1> QED BY <1>2, <1>3, <1>8, UnderIsAbove

\* The exclusion p is in gives way to its siblings.
LEMMA TickExcluded ==
  ASSUME TidyForm, NEW p \in Path, NEW a \in excludes, Under(a, p),
         NEW excl \in Reincluded(a, p)
  PROVE  excl \subseteq Path /\ TidyLists(roots, excl) /\ Gains(roots, excl, p)
<1> PlainNames /\ roots \subseteq Path /\ excludes \subseteq Path
  BY DEF TidyForm, TypeOK
<1>1. a \in Path /\ excludes \subseteq Path /\ roots \subseteq Path
  BY DEF TidyForm, TypeOK
<1>2. PICK way \in WaysDown(a, p) : excl = (excludes \ {a}) \cup Siblings(way)
  BY DEF Reincluded
<1>3. \A s \in Siblings(way) :
        /\ s \in Path /\ Under(a, s) /\ s # a /\ ~Under(s, p) /\ ~Under(p, s)
        /\ \A q \in Path : Under(q, s) /\ q # s => Under(q, p)
  BY <1>1, SiblingsAreBeside
<1>4. \A e \in excludes \ {a} : ~Under(e, a) /\ ~Under(a, e)
  BY DEF TidyForm, TidyLists, Apart
<1>5. PICK r \in roots : Under(r, a) /\ ~Same(r, a)
  BY DEF TidyForm, TidyLists
<1>6. Apart(excl)
  <2> SUFFICES ASSUME NEW x \in excl, NEW y \in excl, Under(x, y), x # y
               PROVE  FALSE
    BY DEF Apart
  <2>1. CASE x \in excludes \ {a} /\ y \in excludes \ {a}
    BY <2>1 DEF TidyForm, TidyLists, Apart
  <2>2. CASE x \in excludes \ {a} /\ y \in Siblings(way)
    BY <1>3, <1>4, <2>2, UnderChain
  <2>3. CASE x \in Siblings(way) /\ y \in excludes \ {a}
    BY <1>1, <1>3, <1>4, <2>3, UnderTransitive
  <2>4. CASE x \in Siblings(way) /\ y \in Siblings(way)
    BY <1>3, <2>4
  <2> QED BY <1>2, <2>1, <2>2, <2>3, <2>4
<1>7. ASSUME NEW e \in excl
      PROVE  \E q \in roots : Under(q, e) /\ ~Same(q, e)
  <2>1. CASE e \in excludes
    BY <2>1 DEF TidyForm, TidyLists
  <2>2. CASE e \in Siblings(way)
    <3>1. Under(r, e)
      BY <1>3, <1>5, <2>2, UnderTransitive
    <3>2. r # e
      BY <1>3, <1>5, <2>2, UnderAntisymmetric, UnderIsAbove
    <3> QED BY <1>3, <2>2, <3>1, <3>2, UnderIsAbove
  <2> QED BY <1>2, <1>7, <2>1, <2>2
<1>8. ASSUME NEW f \in File, Under(p, f)
      PROVE  InLists(roots, excl, f)
  <2>1. f \in Path
    BY TreeAssumption
  <2>2. Under(a, f) /\ Under(r, f)
    BY <1>1, <1>5, <1>8, <2>1, UnderTransitive
  <2>3. SUFFICES ASSUME NEW e \in excl, Under(e, f)
                 PROVE  FALSE
    BY <2>2 DEF InLists
  <2>4. CASE e \in excludes \ {a}
    BY <1>4, <2>1, <2>2, <2>3, <2>4, UnderChain
  <2>5. CASE e \in Siblings(way)
    BY <1>3, <1>8, <2>1, <2>3, <2>5, UnderChain
  <2> QED BY <1>2, <2>4, <2>5
<1>9. ASSUME NEW f \in File, ~Under(p, f)
      PROVE  InLists(roots, excl, f) <=> InLists(roots, excludes, f)
  <2>1. f \in Path
    BY TreeAssumption
  <2>2. ASSUME NEW e \in excl, Under(e, f)
        PROVE  \E d \in excludes : Under(d, f)
    <3>1. CASE e \in Siblings(way)
      BY <1>3, <2>1, <2>2, <3>1, UnderTransitive
    <3> QED BY <1>2, <2>2, <3>1
  <2>3. ASSUME Under(a, f)
        PROVE  \E e \in excl : Under(e, f)
    <3>1. ~Under(f, p)
      BY <1>9, <2>1, UnderIsAbove, TreeAssumption
    <3> QED BY <1>1, <1>2, <1>9, <2>1, <2>3, <3>1, SiblingsCover
  <2> QED BY <1>2, <2>2, <2>3 DEF InLists
<1>10. excl \subseteq Path
  BY <1>1, <1>2, <1>3
<1> QED BY <1>6, <1>7, <1>8, <1>9, <1>10 DEF TidyForm, TidyLists, Gains

-----------------------------------------------------------------------------
(* Clearing a box *)

LEMMA ClearRoot ==
  ASSUME TidyForm, NEW p \in roots, CheckState(p) = "all",
         NEW dirs, dirs = roots \ {p},
         NEW excl, excl = excludes \ Below(p, excludes)
  PROVE  TidyLists(dirs, excl) /\ Loses(dirs, excl, p)
<1> PlainNames /\ roots \subseteq Path /\ excludes \subseteq Path
  BY DEF TidyForm, TypeOK
<1>1. \A e \in excludes : ~Under(p, e)
  BY DEF CheckState
<1>2. excl = excludes
  BY <1>1 DEF Below
<1>3. TidyLists(dirs, excl)
  BY <1>1, <1>2 DEF TidyForm, TidyLists, Apart
<1>4. ASSUME NEW f \in File, Under(p, f)
      PROVE  ~InLists(dirs, excl, f)
  <2>1. f \in Path
    BY TreeAssumption
  <2>2. \A r \in roots : Under(r, f) => r = p
    BY <1>4, <2>1, UnderChain DEF TidyForm, TidyLists, Apart
  <2> QED BY <2>2 DEF InLists
<1>5. ASSUME NEW f \in File, ~Under(p, f)
      PROVE  InLists(dirs, excl, f) <=> InLists(roots, excludes, f)
  BY <1>2, <1>5 DEF InLists
<1> QED BY <1>3, <1>4, <1>5 DEF Loses

LEMMA ClearBelowRoot ==
  ASSUME TidyForm, NEW p \in Path, CheckState(p) = "all",
         NEW r \in roots, Under(r, p), ~Same(r, p),
         NEW excl, excl = excludes \cup {p}
  PROVE  TidyLists(roots, excl) /\ Loses(roots, excl, p)
<1> PlainNames /\ roots \subseteq Path /\ excludes \subseteq Path
  BY DEF TidyForm, TypeOK
<1>1. \A e \in excludes : ~Under(p, e) /\ ~Under(e, p)
  BY DEF CheckState, IsChecked
<1>2. TidyLists(roots, excl)
  BY <1>1 DEF TidyForm, TidyLists, Apart
<1> QED BY <1>2 DEF Loses, InLists

-----------------------------------------------------------------------------
(* The form *)

LEMMA InitTyped == Init => TypeOK
BY DEF Init, TypeOK

LEMMA StepKeepsTypes == TypeOK /\ [Next]_vars => TypeOK'
<1> SUFFICES ASSUME TypeOK, [Next]_vars PROVE TypeOK'
  OBVIOUS
<1>1. CASE \E p \in Path : Check(p)
  <2>1. \A way : Siblings(way) \subseteq Path
    BY DEF Siblings
  <2> QED BY <1>1, <2>1 DEF Check, Reincluded, TypeOK
<1>2. CASE \E p \in Path : Uncheck(p)
  BY <1>2 DEF Uncheck, TypeOK
<1>3. CASE SelectAll
  BY <1>3 DEF SelectAll, TopLevel, TypeOK
<1>4. CASE \E p \in Line : TypeFolder(p) \/ TypeExclusion(p)
  BY <1>4, TreeAssumption DEF TypeFolder, TypeExclusion, TypeOK
<1>5. CASE SaveSet
  <2>1. saved' = [dirs |-> roots, excl |-> Effective]
    BY <1>5 DEF SaveSet
  <2>2. roots \in SUBSET Path /\ Effective \in SUBSET Path
    BY DEF Effective, TypeOK
  <2>3. saved' \in [dirs : SUBSET Path, excl : SUBSET Path]
    BY <2>1, <2>2
  <2> QED BY <1>5, <2>3 DEF SaveSet, TypeOK
<1>6. CASE EditSet \/ Rerun
  <2>1. saved \in [dirs : SUBSET Path, excl : SUBSET Path]
    BY <1>6 DEF EditSet, Rerun, TypeOK
  <2>2. saved.dirs \subseteq Path /\ saved.excl \subseteq Path
    BY <2>1
  <2> QED BY <1>6, <2>2 DEF EditSet, Rerun, TypeOK
<1>7. CASE ClearForm \/ SwitchType \/ UNCHANGED vars
  BY <1>7 DEF ClearForm, SwitchType, vars, TypeOK
<1> QED BY <1>1, <1>2, <1>3, <1>4, <1>5, <1>6, <1>7 DEF Next, Click

LEMMA TidyIsTidyLists == Tidy <=> TidyLists(roots, excludes)
BY DEF Tidy, TidyLists

LEMMA TickIsExact ==
  ASSUME TypeOK, PlainNames, Tidy, NEW p \in Path, Check(p)
  PROVE  Tidy' /\ Backed(roots, excludes)' = Backed(roots, excludes) \cup FilesIn(p)
<1>1. TidyForm
  BY TidyIsTidyLists DEF TidyForm
<1>2. /\ roots' \subseteq Path /\ excludes' \subseteq Path
      /\ TidyLists(roots', excludes') /\ Gains(roots', excludes', p)
  <2>1. CASE ~Covered(p)
    BY <1>1, <2>1, TickNewFolder DEF Check, IsChecked, TypeOK
  <2>2. CASE \E a \in excludes : Under(a, p) /\ roots' = roots /\ excludes' \in Reincluded(a, p)
    BY <1>1, <2>2, TickExcluded DEF TypeOK
  <2>3. CASE IsChecked(p) /\ roots' = roots /\ excludes' = excludes \ Below(p, excludes)
    BY <1>1, <2>3, TickChecked DEF TypeOK
  <2> QED BY <2>1, <2>2, <2>3 DEF Check
<1>3. Backed(roots, excludes) \cup FilesIn(p) \subseteq File
  BY DEF Backed, FilesIn
<1>4. \A f \in File : InLists(roots', excludes', f)
                        <=> f \in Backed(roots, excludes) \cup FilesIn(p)
  <2>1. \A f \in File : f \in FilesIn(p) <=> Under(p, f)
    BY UnderIsAbove, TreeAssumption DEF FilesIn
  <2> QED BY <1>1, <1>2, <2>1, BackedIsInLists DEF Gains, TidyForm, TypeOK
<1>5. Backed(roots', excludes') = Backed(roots, excludes) \cup FilesIn(p)
  BY <1>2, <1>3, <1>4, BackedByLists
<1>6. Backed(roots, excludes)' = Backed(roots', excludes')
  BY DEF Backed, LeftOut, Under
<1>7. Tidy'
  BY <1>2 DEF Tidy, TidyLists, Apart, Under
<1> QED BY <1>5, <1>6, <1>7

LEMMA ClearIsExact ==
  ASSUME TypeOK, PlainNames, Tidy, NEW p \in Path, Uncheck(p)
  PROVE  Tidy' /\ Backed(roots, excludes)' = Backed(roots, excludes) \ FilesIn(p)
<1>1. TidyForm
  BY TidyIsTidyLists DEF TidyForm
<1>2. /\ roots' \subseteq Path /\ excludes' \subseteq Path
      /\ TidyLists(roots', excludes') /\ Loses(roots', excludes', p)
  <2>1. PICK r \in roots :
          /\ Under(r, p)
          /\ IF Same(r, p)
             THEN /\ roots' = {q \in roots : ~Same(q, p)}
                  /\ excludes' = excludes \ Below(p, excludes)
             ELSE roots' = roots /\ excludes' = excludes \cup {p}
    BY DEF Uncheck
  <2>2. CheckState(p) = "all"
    BY DEF Uncheck
  <2>3. CASE Same(r, p)
    <3>1. r = p /\ roots' = roots \ {p}
      BY <2>1, <2>3, UnderIsAbove DEF TypeOK
    <3> QED BY <1>1, <2>1, <2>2, <2>3, <3>1, ClearRoot DEF TypeOK
  <2>4. CASE ~Same(r, p)
    BY <1>1, <2>1, <2>2, <2>4, ClearBelowRoot DEF TypeOK
  <2> QED BY <2>3, <2>4
<1>3. Backed(roots, excludes) \ FilesIn(p) \subseteq File
  BY DEF Backed
<1>4. \A f \in File : InLists(roots', excludes', f)
                        <=> f \in Backed(roots, excludes) \ FilesIn(p)
  <2>1. \A f \in File : f \in FilesIn(p) <=> Under(p, f)
    BY UnderIsAbove, TreeAssumption DEF FilesIn
  <2> QED BY <1>1, <1>2, <2>1, BackedIsInLists DEF Loses, TidyForm, TypeOK
<1>5. Backed(roots', excludes') = Backed(roots, excludes) \ FilesIn(p)
  BY <1>2, <1>3, <1>4, BackedByLists
<1>6. Backed(roots, excludes)' = Backed(roots', excludes')
  BY DEF Backed, LeftOut, Under
<1>7. Tidy'
  BY <1>2 DEF Tidy, TidyLists, Apart, Under
<1> QED BY <1>5, <1>6, <1>7

\* The lists hold paths of the disk, whatever is clicked, typed or edited.
THEOREM TypeCorrect == Spec => []TypeOK
<1>1. Init => TypeOK
  BY InitTyped
<1>2. TypeOK /\ [Next]_vars => TypeOK'
  BY StepKeepsTypes
<1> QED BY <1>1, <1>2, PTL DEF Spec

\* For every directory tree with plain names, none with a *, a ? or a [ in it
\* and no two that differ in case only: in a tidy form a click adds or takes away exactly
\* the files below its box, and the form stays tidy, however deep the box is
\* under an exclusion that has to give way (computeReincludeExcludes).
THEOREM ClicksExact == Spec => ClicksAreExact
<1> DEFINE Exact == \A p \in Path : PlainNames /\ Tidy => ClickIsExact(p)
<1>1. TypeOK /\ [Next]_vars => [Exact]_vars
  BY TickIsExact, ClearIsExact DEF ClickIsExact
<1>2. Spec => []TypeOK
  BY TypeCorrect
<1>3. Spec => [][Next]_vars
  BY PTL DEF Spec
<1>4. Spec => [][Exact]_vars
  <2> HIDE DEF Exact
  <2> QED BY <1>1, <1>2, <1>3, PTL
<1> QED BY <1>4 DEF ClicksAreExact

\* For every directory tree with plain names: what a clear box
\* stands for is not in the backup (checkState, isExcluded).
THEOREM ClearLeftOut ==
  ASSUME PlainNames
  PROVE  Spec => []ClearIsLeftOut
<1>1. TypeOK => ClearIsLeftOut
  <2> SUFFICES ASSUME TypeOK, Tidy, NEW f \in File, CheckState(f) = "none"
               PROVE  f \notin Backed(roots, Effective)
    BY DEF ClearIsLeftOut
  <2>1. ~IsChecked(f)
    BY DEF CheckState
  <2>2. TidyLists(roots, excludes) /\ roots \in SUBSET Path /\ excludes \in SUBSET Path
    BY TidyIsTidyLists DEF TypeOK
  <2>3. f \notin Backed(roots, excludes)
    BY <2>1, <2>2, BackedIsInLists DEF InLists, IsChecked, Covered
  <2>4. Backed(roots, Effective) \subseteq Backed(roots, excludes)
    BY DEF Backed, LeftOut, Effective
  <2> QED BY <2>3, <2>4
<1> QED BY <1>1, TypeCorrect, PTL

-----------------------------------------------------------------------------
(* The cards of the runs: the events on their way *)

LEMMA FirstEvent ==
  ASSUME CardsTypeOK, events # <<>>
  PROVE  /\ Head(events) \in Event /\ Head(events) = events[1] /\ 1 \in 1..Len(events)
         /\ Tail(events) \in Seq(Event) /\ Len(Tail(events)) = Len(events) - 1
         /\ Len(events) \in Nat
         /\ \A i \in 1..Len(events) - 1 : Tail(events)[i] = events[i + 1]
<1>1. events \in Seq(Event)
  BY DEF CardsTypeOK
<1>2. Len(events) \in Nat /\ Len(events) # 0
  BY <1>1
<1>3. events[1] \in Event
  BY <1>1, <1>2
<1> QED BY <1>1, <1>2, <1>3

LEMMA EventFields ==
  ASSUME NEW e \in Event
  PROVE  e.run \in Run /\ e.part \in Own \cup {NoRun} /\ e.kind \in Active \cup {"complete"}
BY DEF Event

LEMMA EventAt ==
  ASSUME CardsTypeOK, NEW i \in 1..Len(events)
  PROVE  events[i].run \in Run /\ events[i].kind \in Active \cup {"complete"}
<1>1. events[i] \in Event
  BY DEF CardsTypeOK
<1> QED BY <1>1, EventFields

\* An event that is told comes last, and no other of its run is on its way.
LEMMA Told ==
  ASSUME CardsTypeOK, NEW r \in Run, NEW part \in Own \cup {NoRun},
         NEW kind \in Active \cup {"complete"}, Tell(kind, r, part)
  PROVE  /\ events' \in Seq(Event) /\ Len(events) \in Nat /\ Len(events') = Len(events) + 1
         /\ \A i \in 1..Len(events) : events'[i] = events[i] /\ events[i].run # r
         /\ events'[Len(events) + 1] = [kind |-> kind, run |-> r, part |-> part]
<1>1. [kind |-> kind, run |-> r, part |-> part] \in Event
  BY DEF Event
<1>2. events \in Seq(Event)
  BY DEF CardsTypeOK
<1> QED BY <1>1, <1>2 DEF Tell

-----------------------------------------------------------------------------
(* The types of the cards *)

LEMMA PollTypes ==
  ASSUME CardsTypeOK, NEW r \in Run, NEW x \in {"no", "launched", "polling"},
         x # "no" => r \in Own \/ poll[r] # "no", poll' = [poll EXCEPT ![r] = x]
  PROVE  poll' \in [Run -> {"no", "launched", "polling"}]
         /\ \A s \in Run \ Own : poll'[s] = "no"
BY DEF CardsTypeOK

LEMMA SvcTypes ==
  ASSUME CardsTypeOK, NEW r \in Run, NEW x \in Status, svc' = [svc EXCEPT ![r] = x]
  PROVE  svc' \in [Run -> Status]
BY DEF CardsTypeOK

LEMMA CardTypes ==
  ASSUME CardsTypeOK, NEW r \in Run, NEW x \in Card, cards' = [cards EXCEPT ![r] = x]
  PROVE  cards' \in [Run -> Card] /\ cards'[r] = x
         /\ \A s \in Run : s # r => cards'[s] = cards[s]
BY DEF CardsTypeOK

LEMMA RunMovesTypes ==
  ASSUME CardsTypeOK, NEW r \in Run, ScheduledStarts(r) \/ RunMoves(r)
  PROVE  CardsTypeOK'
<1>1. \E x \in Status : svc' = [svc EXCEPT ![r] = x]
  BY DEF ScheduledStarts, RunMoves, Status, Active
<1>2. svc' \in [Run -> Status]
  BY <1>1, SvcTypes
<1> QED BY <1>2 DEF ScheduledStarts, RunMoves, CardsTypeOK, tellers, page

LEMMA AskTypes ==
  ASSUME CardsTypeOK, NEW r \in Run, AsksForBackup(r)
  PROVE  CardsTypeOK'
<1>1. svc' \in [Run -> Status]
  BY SvcTypes DEF AsksForBackup, Status, Active
<1>2. poll' \in [Run -> {"no", "launched", "polling"}] /\ \A s \in Run \ Own : poll'[s] = "no"
  BY PollTypes DEF AsksForBackup
<1>3. waiting' \in Own \cup {NoRun}
  BY DEF AsksForBackup, CardsTypeOK
<1> QED BY <1>1, <1>2, <1>3 DEF AsksForBackup, CardsTypeOK

\* What the poller and the watcher do to the events and to those who tell them.
LEMMA PollerSteps ==
  ASSUME CardsTypeOK, NEW r \in Run, Poll(r) \/ PollGivesUp(r)
  PROVE  /\ poll[r] = "polling" /\ r \in Own
         /\ \/ poll' = poll /\ \E s \in Active : Tell(s, r, NoRun)
            \/ /\ poll' = [poll EXCEPT ![r] = "no"]
               /\ \E part \in {NoRun, r} : Tell("complete", r, part)
BY DEF Poll, PollGivesUp, Progress, CardsTypeOK

LEMMA WatcherSteps ==
  ASSUME CardsTypeOK, NEW r \in Run, WatchRun(r)
  PROVE  \/ follow' = follow /\ events' = events /\ stray' = stray
         \/ /\ follow' = follow \cup {r} /\ stray' = stray \ {r}
            /\ \E s \in Active : Tell(s, r, NoRun)
         \/ /\ follow' = follow \ {r} /\ stray' = stray
            /\ Tell("complete", r, NoRun)
<1>1. CASE WatchPasses(r)
  BY <1>1 DEF WatchPasses
<1>2. CASE WatchFollows(r)
  BY <1>2 DEF WatchFollows, Progress
<1>3. CASE WatchEnds(r)
  BY <1>3 DEF WatchEnds
<1> QED BY <1>1, <1>2, <1>3 DEF WatchRun

LEMMA TellerTypes ==
  ASSUME CardsTypeOK, NEW r \in Run, Tellers(r)
  PROVE  CardsTypeOK'
<1>1. CASE PollStarts(r)
  <2>1. poll' \in [Run -> {"no", "launched", "polling"}] /\ \A s \in Run \ Own : poll'[s] = "no"
    BY <1>1, PollTypes DEF PollStarts
  <2> QED BY <1>1, <2>1 DEF PollStarts, CardsTypeOK, page
<1>2. CASE Poll(r) \/ PollGivesUp(r)
  <2>1. poll' \in [Run -> {"no", "launched", "polling"}] /\ \A s \in Run \ Own : poll'[s] = "no"
    <3>1. CASE poll' = poll
      BY <3>1 DEF CardsTypeOK
    <3>2. CASE poll' = [poll EXCEPT ![r] = "no"]
      BY <3>2, PollTypes
    <3> QED BY <1>2, <3>1, <3>2, PollerSteps
  <2>2. \E kind \in Active \cup {"complete"}, part \in Own \cup {NoRun} : Tell(kind, r, part)
    BY <1>2, PollerSteps
  <2>3. events' \in Seq(Event)
    BY <2>2, Told
  <2> QED BY <1>2, <2>1, <2>3 DEF Poll, PollGivesUp, CardsTypeOK, page
<1>3. CASE WatchLists(r)
  <2>1. seen' \in [run : Run, status : Status]
    BY <1>3 DEF WatchLists, CardsTypeOK
  <2> QED BY <1>3, <2>1 DEF WatchLists, CardsTypeOK, page
<1>4. CASE WatchRun(r)
  <2>1. events' \in Seq(Event)
    <3>1. CASE events' = events
      BY <3>1 DEF CardsTypeOK
    <3>2. CASE \E kind \in Active \cup {"complete"} : Tell(kind, r, NoRun)
      BY <3>2, Told
    <3> QED BY <1>4, <3>1, <3>2, WatcherSteps
  <2>2. follow' \subseteq Run /\ stray' \subseteq Run
    BY <1>4, WatcherSteps DEF CardsTypeOK
  <2> QED BY <1>4, <2>1, <2>2 DEF WatchRun, CardsTypeOK, page
<1> QED BY <1>1, <1>2, <1>3, <1>4 DEF Tellers


LEMMA ReceiveTypes ==
  ASSUME CardsTypeOK, Receive
  PROVE  CardsTypeOK'
<1> DEFINE e == Head(events)
<1>1. e \in Event /\ events' = Tail(events) /\ Tail(events) \in Seq(Event)
  BY FirstEvent DEF Receive
<1>2. e.run \in Run
  BY <1>1, EventFields
<1>3. PICK x \in Card : cards' = [cards EXCEPT ![e.run] = x]
  BY DEF Receive, QueuedArrives, ProgressArrives, CompleteArrives, Card
<1>4. cards' \in [Run -> Card]
  BY <1>2, <1>3, CardTypes
<1>5. waiting' \in Own \cup {NoRun} /\ stray' \subseteq Run
  BY DEF Receive, QueuedArrives, ProgressArrives, CompleteArrives, CardsTypeOK
<1>6. focus' \in Run \cup {NoRun}
  <2>1. CASE focus' = focus
    BY <2>1 DEF CardsTypeOK
  <2>2. CASE focus' \in {e.run, NoRun}
    BY <1>2, <2>2
  <2>3. CASE focus' \in Run
    BY <2>3
  <2>4. CASE CompleteArrives(e)
    BY <2>1, <2>2, <2>3, <2>4 DEF CompleteArrives
  <2> QED BY <2>1, <2>2, <2>4 DEF Receive, QueuedArrives, ProgressArrives
<1> QED BY <1>1, <1>4, <1>5, <1>6 DEF Receive, CardsTypeOK, tellers

LEMMA ListingTypes ==
  ASSUME CardsTypeOK, Reload \/ ListingTaken \/ ListingLands
  PROVE  CardsTypeOK'
<1>1. NoCards \in [Run -> Card]
  BY DEF NoCards, Card
<1>2. CASE Reload
  <2>1. reloads' \in 0..MaxReloads
    BY <1>2, ReloadsAssumption DEF Reload, CardsTypeOK
  <2> QED BY <1>1, <1>2, <2>1 DEF Reload, CardsTypeOK, tellers
<1>3. CASE ListingTaken
  <2>1. listing' \in [Run -> Card]
    BY <1>3 DEF ListingTaken, Card
  <2> QED BY <1>3, <2>1 DEF ListingTaken, CardsTypeOK, tellers
<1>4. CASE ListingLands
  <2>1. cards' \in [Run -> Card]
    BY <1>4 DEF ListingLands, CardsTypeOK
  <2>2. focus' \in Run \cup {NoRun} /\ stray' \subseteq Run
    BY <1>4 DEF ListingLands, CardsTypeOK
  <2> QED BY <1>1, <1>4, <2>1, <2>2 DEF ListingLands, CardsTypeOK, tellers
<1> QED BY <1>2, <1>3, <1>4

LEMMA StepKeepsCardTypes == CardsTypeOK /\ [CardsNext]_cardsVars => CardsTypeOK'
<1> SUFFICES ASSUME CardsTypeOK, [CardsNext]_cardsVars PROVE CardsTypeOK'
  OBVIOUS
<1>1. CASE ServiceRestarts
  <2>1. svc' \in [Run -> Status]
    BY <1>1 DEF ServiceRestarts, Status
  <2> QED BY <1>1, <2>1 DEF ServiceRestarts, CardsTypeOK, tellers, page
<1>2. CASE UNCHANGED cardsVars
  BY <1>2 DEF cardsVars, tellers, page, CardsTypeOK
<1>3. CASE LeavesService
  BY <1>3 DEF LeavesService, CardsTypeOK, page
<1> QED BY <1>1, <1>2, <1>3, RunMovesTypes, AskTypes, TellerTypes, ReceiveTypes, ListingTypes
    DEF CardsNext

LEMMA InitCardTypes == CardsInit => CardsTypeOK
<1>1. NoCards \in [Run -> Card]
  BY DEF NoCards, Card
<1>2. 0 \in 0..MaxReloads
  BY ReloadsAssumption
<1> QED BY <1>1, <1>2 DEF CardsInit, CardsTypeOK, Status

\* The state the window keeps of its runs holds what its declarations say,
\* whoever tells it of a run and however often the page is reloaded.
THEOREM CardsTypeCorrect == CardsSpec => []CardsTypeOK
BY InitCardTypes, StepKeepsCardTypes, PTL DEF CardsSpec

-----------------------------------------------------------------------------
(* The card in full *)

LEMMA ReceiveMovesOn ==
  ASSUME CardsTypeOK, CardMovesOn, Receive
  PROVE  CardMovesOn'
<1> DEFINE e == Head(events)
<1>1. e.run \in Run
  BY FirstEvent, EventFields DEF Receive
<1>2. focus \in Run \cup {NoRun} /\ NoRun \notin Run
  BY NoRunAssumption DEF CardsTypeOK
<1>3. ASSUME NEW x \in Card, cards' = [cards EXCEPT ![e.run] = x]
      PROVE  cards'[e.run] = x /\ \A s \in Run : s # e.run => cards'[s] = cards[s]
  BY <1>1, <1>3, CardTypes
<1>4. CASE QueuedArrives(e)
  <2>1. cards'[e.run] = "queued" /\ \A s \in Run : s # e.run => cards'[s] = cards[s]
    BY <1>3, <1>4 DEF QueuedArrives, Card
  <2>2. focus' = focus
    BY <1>4 DEF QueuedArrives
  <2> QED BY <1>2, <2>1, <2>2 DEF CardMovesOn
<1>5. CASE ProgressArrives(e)
  <2>1. cards'[e.run] = "running" /\ \A s \in Run : s # e.run => cards'[s] = cards[s]
    BY <1>3, <1>5 DEF ProgressArrives, Card
  <2>2. focus' # NoRun /\ cards'[focus'] = "running"
    BY <1>1, <1>2, <1>5, <2>1 DEF ProgressArrives
  <2> QED BY <2>2 DEF CardMovesOn
<1>6. CASE CompleteArrives(e)
  <2>1. cards'[e.run] = "none" /\ \A s \in Run : s # e.run => cards'[s] = cards[s]
    BY <1>3, <1>6 DEF CompleteArrives, Card
  <2>2. CASE focus \notin {NoRun, e.run}
    <3>1. focus' = focus
      BY <1>6, <2>2 DEF CompleteArrives
    <3> QED BY <1>2, <2>1, <2>2, <3>1 DEF CardMovesOn
  <2>3. CASE focus \in {NoRun, e.run}
    <3> DEFINE next == {r \in Run : cards'[r] = "running"}
    <3>1. focus' \in IF next = {} THEN {NoRun} ELSE next
      BY <1>6, <2>3 DEF CompleteArrives
    <3>2. CASE next = {}
      <4>1. focus' = NoRun /\ \A r \in Run : cards'[r] # "running"
        BY <3>1, <3>2
      <4> QED BY <4>1 DEF CardMovesOn
    <3>3. CASE next # {}
      <4>1. focus' \in Run /\ cards'[focus'] = "running"
        BY <3>1, <3>3
      <4> QED BY <1>2, <4>1 DEF CardMovesOn
    <3> QED BY <3>2, <3>3
  <2> QED BY <2>2, <2>3
<1> QED BY <1>4, <1>5, <1>6 DEF Receive

LEMMA ListingMovesOn ==
  ASSUME CardsTypeOK, CardMovesOn, ListingLands
  PROVE  CardMovesOn'
<1> DEFINE shown == {r \in Run : listing[r] = "running"}
<1>1. focus \in Run \cup {NoRun} /\ NoRun \notin Run
  BY NoRunAssumption DEF CardsTypeOK
<1>2. \A r \in Run : cards'[r] = IF listing[r] # "none" THEN listing[r] ELSE cards[r]
  BY DEF ListingLands
<1>3. CASE focus = NoRun /\ shown # {}
  <2>1. focus' \in shown
    BY <1>3 DEF ListingLands
  <2> QED BY <1>1, <1>2, <2>1 DEF CardMovesOn
<1>4. CASE ~(focus = NoRun /\ shown # {})
  <2>1. focus' = focus
    BY <1>4 DEF ListingLands
  <2> QED BY <1>1, <1>2, <1>4, <2>1 DEF CardMovesOn
<1> QED BY <1>3, <1>4

\* The card in full is that of a run, and there is one while any run that has
\* had its turn is shown, whatever the order of the events and of a listing
\* (App.jsx: the handlers of backup:progress and backup:complete, focusOn).
THEOREM CardsMoveOn == CardsSpec => []CardMovesOn
<1>1. CardsInit => CardMovesOn
  BY DEF CardsInit, CardMovesOn, NoCards
<1>2. CardsTypeOK /\ CardMovesOn /\ [CardsNext]_cardsVars => CardMovesOn'
  <2> SUFFICES ASSUME CardsTypeOK, CardMovesOn, [CardsNext]_cardsVars PROVE CardMovesOn'
    OBVIOUS
  <2>1. CASE UNCHANGED <<cards, focus>>
    BY <2>1 DEF CardMovesOn
  <2>2. CASE Reload
    BY <2>2 DEF Reload, CardMovesOn, NoCards
  <2>3. ASSUME NEW r \in Run, ScheduledStarts(r) \/ RunMoves(r) \/ AsksForBackup(r) \/ Tellers(r)
        PROVE  UNCHANGED <<cards, focus>>
    BY <2>3 DEF ScheduledStarts, RunMoves, AsksForBackup, Tellers, PollStarts, Poll,
                PollGivesUp, WatchLists, WatchRun, page
  <2>4. CASE ServiceRestarts \/ LeavesService \/ ListingTaken \/ UNCHANGED cardsVars
    BY <2>1, <2>4 DEF ServiceRestarts, LeavesService, ListingTaken, cardsVars, page
  <2> QED BY <2>1, <2>2, <2>3, <2>4, ReceiveMovesOn, ListingMovesOn DEF CardsNext
<1> QED BY <1>1, <1>2, CardsTypeCorrect, PTL DEF CardsSpec


-----------------------------------------------------------------------------
(* The end of a run is told *)

\* The runs the poller or the watcher has.
Followed == {r \in Run : r \in follow \/ poll[r] # "no"}

Known == Followed \cup stray

\* Who tells of a run's progress still follows it when that comes to the page,
\* or has forgotten it with the end of service mode.
ProgressIsFollowed ==
  \A i \in 1..Len(events) : events[i].kind # "complete" => events[i].run \in Known

OneOfEach ==
  \A i, j \in 1..Len(events) : events[i].run = events[j].run => i = j

\* A completion on its way ends the wait for part w.
PartEnds(w) ==
  \E i \in 1..Len(events) : events[i].kind = "complete" /\ events[i].part \in {NoRun, w}

ToldInv == ProgressIsFollowed /\ OneOfEach /\ CardIsFollowed /\ PartIsFollowed

\* Events only join those on their way.
LEMMA EventsStay ==
  ASSUME Len(events) \in Nat, Len(events') \in Nat, Len(events') >= Len(events),
         \A i \in 1..Len(events) : events'[i] = events[i]
  PROVE  /\ \A q : EndComes(q) => EndComes(q)'
         /\ \A w : PartEnds(w) => PartEnds(w)'
<1>1. \A i \in 1..Len(events) : i \in 1..Len(events')
  OBVIOUS
<1>2. ASSUME NEW q, EndComes(q) PROVE EndComes(q)'
  <2>1. PICK i \in 1..Len(events) : events[i].run = q /\ events[i].kind = "complete"
    BY <1>2 DEF EndComes
  <2>2. i \in 1..Len(events') /\ events'[i] = events[i]
    BY <1>1
  <2> QED BY <2>1, <2>2 DEF EndComes
<1>3. ASSUME NEW w, PartEnds(w) PROVE PartEnds(w)'
  <2>1. PICK i \in 1..Len(events) :
          events[i].kind = "complete" /\ events[i].part \in {NoRun, w}
    BY <1>3 DEF PartEnds
  <2>2. i \in 1..Len(events') /\ events'[i] = events[i]
    BY <1>1
  <2> QED BY <2>1, <2>2 DEF PartEnds
<1> QED BY <1>2, <1>3

\* Progress is told, and whoever tells it follows the run.
LEMMA ProgressTold ==
  ASSUME CardsTypeOK, ProgressIsFollowed, NEW r \in Run, NEW s \in Active,
         Tell(s, r, NoRun), r \in Known', Known \subseteq Known', OneOfEach
  PROVE  /\ ProgressIsFollowed' /\ OneOfEach'
         /\ \A q : EndComes(q) => EndComes(q)'
         /\ \A w : PartEnds(w) => PartEnds(w)'
<1> DEFINE e == [kind |-> s, run |-> r, part |-> NoRun]
<1>1. /\ Len(events) \in Nat /\ Len(events') = Len(events) + 1
      /\ \A i \in 1..Len(events) : events'[i] = events[i] /\ events[i].run # r
      /\ events'[Len(events) + 1] = e
  BY Told
<1>2. e.run = r
  OBVIOUS
<1> HIDE DEF e
<1>3. ASSUME NEW i \in 1..Len(events'), events'[i].kind # "complete"
      PROVE  events'[i].run \in Known'
  <2>1. CASE i = Len(events) + 1
    BY <1>1, <1>2, <2>1
  <2>2. CASE i \in 1..Len(events)
    BY <1>1, <1>3, <2>2 DEF ProgressIsFollowed
  <2> QED BY <1>1, <2>1, <2>2
<1>4. ProgressIsFollowed'
  BY <1>3 DEF ProgressIsFollowed
<1>5. OneOfEach'
  BY <1>1, <1>2 DEF OneOfEach
<1> QED BY <1>1, <1>4, <1>5, EventsStay

\* Its end is told, and with that nothing of its progress is on its way.
LEMMA EndTold ==
  ASSUME CardsTypeOK, ProgressIsFollowed, NEW r \in Run, NEW part \in Own \cup {NoRun},
         Tell("complete", r, part), Known \ {r} \subseteq Known', OneOfEach
  PROVE  /\ ProgressIsFollowed' /\ OneOfEach' /\ EndComes(r)'
         /\ \A w : part \in {NoRun, w} => PartEnds(w)'
         /\ \A q : EndComes(q) => EndComes(q)'
         /\ \A w : PartEnds(w) => PartEnds(w)'
<1> DEFINE e == [kind |-> "complete", run |-> r, part |-> part]
<1>1. /\ Len(events) \in Nat /\ Len(events') = Len(events) + 1
      /\ \A i \in 1..Len(events) : events'[i] = events[i] /\ events[i].run # r
      /\ events'[Len(events) + 1] = e
  BY Told
<1>2. e.run = r /\ e.kind = "complete" /\ e.part = part
  OBVIOUS
<1> HIDE DEF e
<1>3. ASSUME NEW i \in 1..Len(events'), events'[i].kind # "complete"
      PROVE  events'[i].run \in Known'
  <2>1. i \in 1..Len(events)
    BY <1>1, <1>2, <1>3
  <2>2. events'[i] = events[i] /\ events[i].run # r
    BY <1>1, <2>1
  <2> QED BY <1>3, <2>1, <2>2 DEF ProgressIsFollowed
<1>4. Len(events) + 1 \in 1..Len(events')
  BY <1>1
<1>5. EndComes(r)' /\ \A w : part \in {NoRun, w} => PartEnds(w)'
  BY <1>1, <1>2, <1>4 DEF EndComes, PartEnds
<1>6. ProgressIsFollowed'
  BY <1>3 DEF ProgressIsFollowed
<1>7. OneOfEach'
  BY <1>1, <1>2 DEF OneOfEach
<1> QED BY <1>1, <1>5, <1>6, <1>7, EventsStay

\* A step that takes nobody from a run, adds no card and loses no completion.
LEMMA NothingLostToTell ==
  ASSUME ToldInv, ProgressIsFollowed', OneOfEach', UNCHANGED <<cards, waiting>>,
         \A r \in Run : r \in Followed \/ r \in stray => r \in Followed' \/ r \in stray' \/ EndComes(r)',
         \A w \in Own : poll[w] # "no" => poll'[w] # "no" \/ PartEnds(w)',
         \A q : EndComes(q) => EndComes(q)',
         \A w : PartEnds(w) => PartEnds(w)',
         CardsTypeOK
  PROVE  ToldInv'
<1>1. CardIsFollowed'
  BY DEF ToldInv, CardIsFollowed, Followed
<1>2. PartIsFollowed'
  <2>1. waiting \in Own \cup {NoRun}
    BY DEF CardsTypeOK
  <2>2. waiting # NoRun => poll[waiting] # "no" \/ PartEnds(waiting)
    BY DEF ToldInv, PartIsFollowed, PartEnds
  <2>3. waiting # NoRun => poll'[waiting] # "no" \/ PartEnds(waiting)'
    BY <2>1, <2>2
  <2> QED BY <2>3 DEF PartIsFollowed, PartEnds
<1> QED BY <1>1, <1>2 DEF ToldInv

LEMMA QuietStepTold ==
  ASSUME ToldInv, UNCHANGED <<poll, follow, events, cards, waiting, stray>>
  PROVE  ToldInv'
BY DEF ToldInv, ProgressIsFollowed, OneOfEach, Known, Followed, CardIsFollowed,
       PartIsFollowed, EndComes

LEMMA AskTold ==
  ASSUME CardsTypeOK, ToldInv, NEW r \in Run, AsksForBackup(r)
  PROVE  ToldInv'
<1>1. /\ follow' = follow /\ events' = events /\ cards' = cards /\ stray' = stray
      /\ waiting' \in {r, waiting}
  BY DEF AsksForBackup
<1>2. poll'[r] = "launched" /\ \A q \in Run : q # r => poll'[q] = poll[q]
  BY DEF AsksForBackup, CardsTypeOK
<1>3. waiting \in Own \cup {NoRun} /\ Own \subseteq Run
  BY OwnAssumption DEF CardsTypeOK
<1>4. Followed \subseteq Followed'
  BY <1>1, <1>2 DEF Followed
<1>5. ProgressIsFollowed' /\ OneOfEach'
  BY <1>1, <1>4 DEF ToldInv, ProgressIsFollowed, OneOfEach, Known
<1>6. CardIsFollowed'
  BY <1>1, <1>2 DEF ToldInv, CardIsFollowed, EndComes
<1>7. PartIsFollowed'
  BY <1>1, <1>2, <1>3 DEF ToldInv, PartIsFollowed
<1> QED BY <1>5, <1>6, <1>7 DEF ToldInv

LEMMA PollStartsTold ==
  ASSUME CardsTypeOK, ToldInv, NEW r \in Run, PollStarts(r)
  PROVE  ToldInv'
<1>1. UNCHANGED <<follow, events, cards, stray, waiting>>
  BY DEF PollStarts, page
<1>2. \A q \in Run : poll[q] # "no" <=> poll'[q] # "no"
  BY DEF PollStarts, CardsTypeOK
<1>3. Followed' = Followed
  BY <1>1, <1>2 DEF Followed
<1>4. waiting \in Run \cup {NoRun}
  BY OwnAssumption DEF CardsTypeOK
<1> QED BY <1>1, <1>2, <1>3, <1>4
        DEF ToldInv, ProgressIsFollowed, OneOfEach, Known, CardIsFollowed, PartIsFollowed,
            EndComes

LEMMA PollTold ==
  ASSUME CardsTypeOK, ToldInv, NEW r \in Run, Poll(r) \/ PollGivesUp(r)
  PROVE  ToldInv'
<1>1. UNCHANGED <<follow, cards, stray, waiting>>
  BY DEF Poll, PollGivesUp, page
<1>2. poll[r] = "polling" /\ r \in Own
  BY PollerSteps
<1>3. ASSUME poll' = poll, NEW s \in Active, Tell(s, r, NoRun)
      PROVE  ToldInv'
  <2>1. Known' = Known /\ r \in Known' /\ Followed' = Followed
    BY <1>1, <1>2, <1>3 DEF Known, Followed
  <2>2. /\ ProgressIsFollowed' /\ OneOfEach'
        /\ \A q : EndComes(q) => EndComes(q)'
        /\ \A w : PartEnds(w) => PartEnds(w)'
    BY <1>3, <2>1, ProgressTold DEF ToldInv
  <2> QED BY <1>1, <1>3, <2>1, <2>2, NothingLostToTell
<1>4. ASSUME poll' = [poll EXCEPT ![r] = "no"], NEW part \in {NoRun, r},
             Tell("complete", r, part)
      PROVE  ToldInv'
  <2>1. \A q \in Run : q # r => poll'[q] = poll[q]
    BY <1>4 DEF CardsTypeOK
  <2>2. Known \ {r} \subseteq Known'
    BY <1>1, <2>1 DEF Known, Followed
  <2>3. part \in Own \cup {NoRun}
    BY <1>2
  <2>4. /\ ProgressIsFollowed' /\ OneOfEach' /\ EndComes(r)'
        /\ \A w : part \in {NoRun, w} => PartEnds(w)'
        /\ \A q : EndComes(q) => EndComes(q)'
        /\ \A w : PartEnds(w) => PartEnds(w)'
    BY <1>4, <2>2, <2>3, EndTold DEF ToldInv
  <2>5. \A q \in Run : q \in Followed \/ q \in stray =>
          q \in Followed' \/ q \in stray' \/ EndComes(q)'
    BY <1>1, <2>2, <2>4 DEF Known
  <2>6. \A w \in Own : poll[w] # "no" => poll'[w] # "no" \/ PartEnds(w)'
    BY <2>1, <2>4, OwnAssumption
  <2> QED BY <1>1, <2>4, <2>5, <2>6, NothingLostToTell
<1> QED BY <1>3, <1>4, PollerSteps

LEMMA WatchTold ==
  ASSUME CardsTypeOK, ToldInv, NEW r \in Run, WatchRun(r)
  PROVE  ToldInv'
<1>1. UNCHANGED <<poll, cards, waiting>>
  BY DEF WatchRun, page
<1>2. CASE follow' = follow /\ events' = events /\ stray' = stray
  BY <1>1, <1>2, QuietStepTold
<1>3. ASSUME follow' = follow \cup {r}, stray' = stray \ {r},
             NEW s \in Active, Tell(s, r, NoRun)
      PROVE  ToldInv'
  <2>1. r \in Known' /\ Known \subseteq Known' /\ Followed \subseteq Followed' /\ r \in Followed'
    BY <1>1, <1>3 DEF Known, Followed
  <2>2. /\ ProgressIsFollowed' /\ OneOfEach'
        /\ \A q : EndComes(q) => EndComes(q)'
        /\ \A w : PartEnds(w) => PartEnds(w)'
    BY <1>3, <2>1, ProgressTold DEF ToldInv
  <2> QED BY <1>1, <1>3, <2>1, <2>2, NothingLostToTell
<1>4. ASSUME follow' = follow \ {r}, stray' = stray, Tell("complete", r, NoRun)
      PROVE  ToldInv'
  <2>1. Known \ {r} \subseteq Known' /\ Followed \ {r} \subseteq Followed'
    BY <1>1, <1>4 DEF Known, Followed
  <2>2. /\ ProgressIsFollowed' /\ OneOfEach' /\ EndComes(r)'
        /\ \A q : EndComes(q) => EndComes(q)'
        /\ \A w : PartEnds(w) => PartEnds(w)'
    BY <1>4, <2>1, EndTold DEF ToldInv
  <2> QED BY <1>1, <1>4, <2>1, <2>2, NothingLostToTell
<1> QED BY <1>2, <1>3, <1>4, WatcherSteps

\* An event comes to the page: those behind it are still on their way.
LEMMA ReceiveTold ==
  ASSUME CardsTypeOK, ToldInv, Receive
  PROVE  ToldInv'
<1> DEFINE e == Head(events)
<1>1. UNCHANGED <<poll, follow>> /\ Followed' = Followed
  BY DEF Receive, tellers, Followed
<1>2. /\ e = events[1] /\ 1 \in 1..Len(events) /\ e.run \in Run
      /\ Len(events) \in Nat /\ Len(events') = Len(events) - 1
      /\ \A i \in 1..Len(events) - 1 : events'[i] = events[i + 1]
  BY FirstEvent, EventFields DEF Receive
<1>3. \A i \in 1..Len(events) : i # 1 =>
        i - 1 \in 1..Len(events') /\ events'[i - 1] = events[i]
  BY <1>2
<1>4. \A i \in 1..Len(events') : i + 1 \in 1..Len(events) /\ events'[i] = events[i + 1]
  BY <1>2
<1>5. \A q : EndComes(q) /\ ~(q = e.run /\ e.kind = "complete") => EndComes(q)'
  <2> SUFFICES ASSUME NEW q, EndComes(q), ~(q = e.run /\ e.kind = "complete")
               PROVE  EndComes(q)'
    OBVIOUS
  <2>1. PICK i \in 1..Len(events) : events[i].run = q /\ events[i].kind = "complete"
    BY DEF EndComes
  <2>2. i # 1
    BY <1>2, <2>1
  <2> QED BY <1>3, <2>1, <2>2 DEF EndComes
<1>6. \A w : PartEnds(w) /\ ~(e.kind = "complete" /\ e.part \in {NoRun, w}) => PartEnds(w)'
  <2> SUFFICES ASSUME NEW w, PartEnds(w), ~(e.kind = "complete" /\ e.part \in {NoRun, w})
               PROVE  PartEnds(w)'
    OBVIOUS
  <2>1. PICK i \in 1..Len(events) :
          events[i].kind = "complete" /\ events[i].part \in {NoRun, w}
    BY DEF PartEnds
  <2>2. i # 1
    BY <1>2, <2>1
  <2> QED BY <1>3, <2>1, <2>2 DEF PartEnds
<1>7. ProgressIsFollowed' /\ OneOfEach'
  <2>1. Known \ {e.run} \subseteq Known'
    BY <1>1 DEF Receive, QueuedArrives, ProgressArrives, CompleteArrives, Known
  <2>2. \A i \in 1..Len(events') : events'[i].run # e.run
    BY <1>2, <1>4 DEF ToldInv, OneOfEach
  <2>3. ProgressIsFollowed'
    BY <1>4, <2>1, <2>2 DEF ToldInv, ProgressIsFollowed
  <2>4. OneOfEach'
    BY <1>2, <1>4 DEF ToldInv, OneOfEach
  <2> QED BY <2>3, <2>4
<1>8. PartIsFollowed'
  <2>1. waiting' \in {NoRun, waiting}
        /\ (waiting' # NoRun => ~(e.kind = "complete" /\ e.part \in {NoRun, waiting}))
    BY DEF Receive, QueuedArrives, ProgressArrives, CompleteArrives
  <2>2. waiting # NoRun => poll[waiting] # "no" \/ PartEnds(waiting)
    BY DEF ToldInv, PartIsFollowed, PartEnds
  <2>3. waiting' # NoRun => poll'[waiting'] # "no" \/ PartEnds(waiting)'
    BY <1>1, <1>6, <2>1, <2>2
  <2>4. waiting' # NoRun => waiting' = waiting
    BY <2>1
  <2> QED BY <2>3, <2>4 DEF PartIsFollowed, PartEnds
<1>9. CardIsFollowed'
  <2> DEFINE Kept(q) == q \in Followed \/ EndComes(q) \/ q \in stray
  <2>0. ASSUME \A q \in Run : cards'[q] # "none" =>
                 q \in Followed' \/ EndComes(q)' \/ q \in stray'
        PROVE  CardIsFollowed'
    BY <2>0 DEF CardIsFollowed, Followed
  <2>1. \A q \in Run : cards[q] # "none" => Kept(q)
    BY DEF ToldInv, CardIsFollowed, Followed
  <2> HIDE DEF Kept
  <2>2. CASE e.kind = "complete"
    <3>1. cards' = [cards EXCEPT ![e.run] = "none"] /\ stray' = stray \ {e.run}
      BY <2>2 DEF Receive, CompleteArrives, Active
    <3>2. \A q \in Run : cards'[q] # "none" => q # e.run /\ cards[q] # "none"
      BY <1>2, <3>1 DEF CardsTypeOK
    <3> QED BY <1>1, <1>5, <2>0, <2>1, <3>1, <3>2 DEF Kept
  <2>3. CASE e.kind # "complete"
    <3>1. stray' = stray /\ \E x : cards' = [cards EXCEPT ![e.run] = x]
      BY <2>3 DEF Receive, QueuedArrives, ProgressArrives
    <3>2. \A q \in Run : q # e.run => cards'[q] = cards[q]
      BY <3>1 DEF CardsTypeOK
    <3>3. e.run \in Followed \/ e.run \in stray
      BY <1>2, <2>3 DEF ToldInv, ProgressIsFollowed, Known
    <3> QED BY <1>1, <1>5, <2>0, <2>1, <2>3, <3>1, <3>2, <3>3 DEF Kept
  <2> QED BY <2>2, <2>3
<1> QED BY <1>7, <1>8, <1>9 DEF ToldInv

LEMMA ReloadTold ==
  ASSUME Reload
  PROVE  ToldInv'
<1>1. events' = <<>> /\ cards' = NoCards /\ waiting' = NoRun
  BY DEF Reload
<1>2. Len(events') = 0
  BY <1>1
<1>3. ProgressIsFollowed' /\ OneOfEach'
  BY <1>2 DEF ProgressIsFollowed, OneOfEach
<1>4. CardIsFollowed' /\ PartIsFollowed'
  BY <1>1 DEF CardIsFollowed, PartIsFollowed, NoCards
<1> QED BY <1>3, <1>4 DEF ToldInv

\* A card that the listing brings is followed, or it is counted as stray.
LEMMA ListingTold ==
  ASSUME CardsTypeOK, ToldInv, ListingLands
  PROVE  ToldInv'
<1>1. UNCHANGED <<poll, follow, events, waiting>>
  BY DEF ListingLands, tellers
<1>2. ASSUME NEW r \in Run, cards'[r] # "none"
      PROVE  r \in follow \/ poll[r] # "no" \/ EndComes(r) \/ r \in stray'
  <2>1. CASE cards[r] # "none"
    BY <2>1 DEF ToldInv, CardIsFollowed, ListingLands
  <2>2. CASE cards[r] = "none"
    BY <1>2, <2>2 DEF ListingLands
  <2> QED BY <2>1, <2>2
<1>3. CardIsFollowed'
  BY <1>1, <1>2 DEF CardIsFollowed, EndComes
<1>4. ProgressIsFollowed' /\ OneOfEach' /\ PartIsFollowed'
  <2>1. stray \subseteq stray'
    BY DEF ListingLands
  <2> QED BY <1>1, <2>1
          DEF ToldInv, ProgressIsFollowed, OneOfEach, Known, Followed, PartIsFollowed
<1> QED BY <1>3, <1>4 DEF ToldInv

\* What the watcher forgets is counted as stray.
LEMMA LeaveTold ==
  ASSUME CardsTypeOK, ToldInv, LeavesService
  PROVE  ToldInv'
<1>1. UNCHANGED <<poll, events, cards, waiting>>
  BY DEF LeavesService, page
<1>2. Known \subseteq Known'
  BY <1>1 DEF LeavesService, Known, Followed
<1>3. ProgressIsFollowed' /\ OneOfEach' /\ PartIsFollowed'
  BY <1>1, <1>2 DEF ToldInv, ProgressIsFollowed, OneOfEach, PartIsFollowed
<1>4. CardIsFollowed'
  BY <1>1 DEF LeavesService, ToldInv, CardIsFollowed, EndComes
<1> QED BY <1>3, <1>4 DEF ToldInv

LEMMA StepKeepsTold == CardsTypeOK /\ ToldInv /\ [CardsNext]_cardsVars => ToldInv'
<1> SUFFICES ASSUME CardsTypeOK, ToldInv, [CardsNext]_cardsVars PROVE ToldInv'
  OBVIOUS
<1>1. ASSUME NEW r \in Run, ScheduledStarts(r) \/ RunMoves(r) \/ WatchLists(r)
      PROVE  ToldInv'
  BY <1>1, QuietStepTold DEF ScheduledStarts, RunMoves, WatchLists, tellers, page
<1>2. CASE ServiceRestarts \/ ListingTaken \/ UNCHANGED cardsVars
  BY <1>2, QuietStepTold DEF ServiceRestarts, ListingTaken, cardsVars, tellers, page
<1> QED BY <1>1, <1>2, AskTold, PollStartsTold, PollTold, WatchTold, ReceiveTold,
           ReloadTold, ListingTold, LeaveTold
        DEF CardsNext, Tellers

\* Nobody is left waiting for a run's end: whatever order the poller, the watcher,
\* a restart of the service, a reload of the page and its listing come in, a card
\* that is shown and a part that is waited for are followed by someone, or their
\* completion is on its way, but for a card the listing brought of a run nobody
\* followed then, or of a run forgotten with the end of service mode (watchServiceRuns, pollBackupProgress, executeSplitBackup).
THEOREM EndsAreTold == CardsSpec => []EndIsTold
<1>1. CardsInit => ToldInv
  <2>1. ASSUME CardsInit PROVE ProgressIsFollowed /\ OneOfEach
    <3>1. Len(events) = 0
      BY <2>1 DEF CardsInit
    <3> QED BY <3>1 DEF ProgressIsFollowed, OneOfEach
  <2> QED BY <2>1 DEF CardsInit, ToldInv, CardIsFollowed, PartIsFollowed, NoCards
<1>2. ToldInv => EndIsTold
  BY DEF ToldInv, EndIsTold
<1> QED BY <1>1, <1>2, StepKeepsTold, CardsTypeCorrect, PTL DEF CardsSpec
=============================================================================
