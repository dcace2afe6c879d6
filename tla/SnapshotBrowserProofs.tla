-------------------------- MODULE SnapshotBrowserProofs --------------------------
(***************************************************************************)
(* The Restore tab, for any number of servers, snapshots and calls under   *)
(* way: its state has its types, and the tree and the ticks are of the     *)
(* snapshot that is open unless an answer of a dropped one was let in.     *)
(* The window is busy only for a call that is under way.                   *)
(***************************************************************************)
EXTENDS SnapshotBrowser, TLAPS

\* A generation is the number of a call at most, and so is the newest wait.
Counted ==
  /\ TypeOK
  /\ ctx # None => ctx.gen <= made
  /\ waitSeq <= made

Context == [srv : Server, snap : Snap, gen : 1..MaxCalls]

LEMMA SendsIsCall ==
  ASSUME MaxCalls \in Nat, made \in 0..MaxCalls, CallsLeft, server \in Server,
         NEW kind \in {"list", "open", "meta", "folder"},
         NEW snap \in Snap \cup {None}, NEW gen \in 0..MaxCalls, NEW hit \in BOOLEAN
  PROVE  /\ Sends(kind, snap, gen, hit) \in Call
         /\ made + 1 \in 0..MaxCalls
<1>1. made + 1 \in 1..MaxCalls
  BY DEF CallsLeft
<1> QED BY <1>1 DEF Sends, Call

LEMMA AgedAreCalls ==
  ASSUME NEW S, S \subseteq Call
  PROVE  Aged(S) \subseteq Call
BY DEF Aged, Call

LEMMA MetaIsCall ==
  ASSUME NEW c \in Call
  PROVE  [c EXCEPT !.kind = "meta"] \in Call
BY DEF Call

LEMMA FromIsOrigin ==
  ASSUME NEW c \in Call, c.snap # None
  PROVE  From(c) \in Origin
BY DEF From, Call, Origin

\* Which calls carry a snapshot.
SnapshotCalls == \A c \in calls : c.kind # "list" => c.snap \in Snap

\* The context is that of the open snapshot.
ContextIsOpen ==
  /\ selected = None <=> ctx = None
  /\ selected # None => ctx.srv = server /\ ctx.snap = selected

\* The candidate for the type invariant.
Typed == Counted /\ SnapshotCalls /\ ContextIsOpen

LEMMA InitTyped == Init => Typed
<1> SUFFICES ASSUME Init PROVE Typed
  OBVIOUS
<1>1. rows \in [Level -> Origin \cup {None}] /\ ticks \in [Path -> Origin \cup {None}]
  BY DEF Init, NoRows, NoTicks
<1>2. waitSeq \in 0..MaxCalls /\ made \in 0..MaxCalls /\ waitSeq <= made
  BY CallsAssumption DEF Init
<1>3. ctx = None /\ calls = {}
  BY DEF Init
<1>4. TypeOK
  BY <1>1, <1>2, <1>3 DEF Init, TypeOK
<1>5. selected = None
  BY DEF Init
<1> QED BY <1>2, <1>3, <1>4, <1>5 DEF Typed, Counted, SnapshotCalls, ContextIsOpen

LEMMA OpenKeepsTypes ==
  ASSUME Typed, NEW s \in Snap, NEW hit \in BOOLEAN, Open(s, hit),
         server' = server, list' \in Server \cup {None}, shown' \in BOOLEAN,
         UNCHANGED <<waits, restoring>>
  PROVE  Typed'
<1> DEFINE gen == IF ctx = None THEN 1 ELSE ctx.gen + 1
<1>1. made \in 0..MaxCalls /\ MaxCalls \in Nat /\ made < MaxCalls /\ made' = made + 1
  BY CallsAssumption DEF Typed, Counted, TypeOK, Open, CallsLeft
<1>2. gen \in 1..MaxCalls /\ gen <= made + 1
  BY <1>1 DEF Typed, Counted, TypeOK
<1>3. ctx' = [srv |-> server, snap |-> s, gen |-> gen]
  BY DEF Open
<1>4. ctx' \in Context /\ ctx'.gen <= made'
  BY <1>1, <1>2, <1>3 DEF Typed, Counted, TypeOK, Context
<1>5. Sends("open", s, gen, hit) \in Call /\ calls' = calls \cup {Sends("open", s, gen, hit)}
  BY <1>1, <1>2, SendsIsCall DEF Typed, Counted, TypeOK, Open, CallsLeft
<1>6. Sends("open", s, gen, hit).snap = s
  BY DEF Sends
<1> HIDE DEF gen
<1>7. SnapshotCalls'
  BY <1>5, <1>6 DEF Typed, SnapshotCalls
<1>8. calls' \subseteq Call
  BY <1>5 DEF Typed, Counted, TypeOK
<1>9. rows' \in [Level -> Origin \cup {None}] /\ ticks' \in [Path -> Origin \cup {None}]
  BY DEF Open, NoRows, NoTicks
<1>10. waitSeq' \in 0..MaxCalls /\ made' \in 0..MaxCalls
  BY <1>1 DEF Typed, Counted, TypeOK, waits
<1>11. TypeOK'
  BY <1>4, <1>8, <1>9, <1>10 DEF Typed, Counted, TypeOK, Open, Context, waits
<1>12. ctx' # None
  BY <1>3, <1>4, NoneAssumption DEF Context, Typed, Counted, TypeOK
<1>13. selected' = s /\ s # None
  BY NoneAssumption DEF Open
<1>14. ContextIsOpen'
  BY <1>3, <1>12, <1>13 DEF ContextIsOpen
<1> QED BY <1>1, <1>4, <1>7, <1>11, <1>14 DEF Typed, Counted, TypeOK, waits

LEMMA HitKeepsTypes ==
  ASSUME Typed, NEW c \in calls, c.kind # "list", HitLands(c)
  PROVE  /\ ticks' \in [Path -> Origin \cup {None}]
         /\ expanded' \in BOOLEAN /\ strayed' \in BOOLEAN
<1>1. c \in Call /\ c.snap # None
  BY NoneAssumption DEF Typed, Counted, TypeOK, SnapshotCalls, ContextIsOpen
<1>2. From(c) \in Origin
  BY <1>1, FromIsOrigin
<1> QED BY <1>1, <1>2 DEF HitLands, NoTicks, Path, Typed, Counted, TypeOK, GenMatches, Call

LEMMA AnswerKeepsTypes ==
  ASSUME Typed, NEW c \in calls, Answer(c)
  PROVE  Typed'
<1>1. c \in Call
  BY DEF Typed, Counted, TypeOK
<1>2. CASE ListAnswer(c)
  <2>1. list' \in Server \cup {None} /\ shown' \in BOOLEAN /\ wait' \in {"none", "list", "folder"}
    BY <1>1, <1>2 DEF ListAnswer, EndWait, Typed, Counted, TypeOK, Call
  <2>2. calls' \subseteq calls /\ UNCHANGED <<server, waitSeq, page, made, restoring>>
    BY <1>2 DEF ListAnswer
  <2> QED BY <2>1, <2>2 DEF Typed, Counted, TypeOK, SnapshotCalls, ContextIsOpen, page
<1>3. CASE OpenAnswered(c)
  <2> DEFINE d == [c EXCEPT !.kind = "meta"]
  <2>1. d \in Call /\ d.snap = c.snap
    BY <1>1, MetaIsCall DEF Call
  <2>2. calls' = (calls \ {c}) \cup {d} /\ c.snap \in Snap /\ c.kind = "open"
    BY <1>3 DEF OpenAnswered, Typed, SnapshotCalls
  <2> HIDE DEF d
  <2>3. calls' \subseteq Call /\ SnapshotCalls'
    BY <2>1, <2>2 DEF Typed, Counted, TypeOK, SnapshotCalls, ContextIsOpen
  <2>4. From(c) \in Origin
    BY <1>1, <2>2, FromIsOrigin, NoneAssumption
  <2>5. /\ rows' \in [Level -> Origin \cup {None}] /\ ticks' \in [Path -> Origin \cup {None}]
    BY <1>3, <2>4 DEF OpenAnswered, NoRows, NoTicks
  <2>6. loading' \in BOOLEAN /\ strayed' \in BOOLEAN
    BY <1>1, <1>3 DEF OpenAnswered, Typed, Counted, TypeOK, Call
  <2>7. UNCHANGED <<selected, ctx, expanded, meta, inPlace, lists, waits, made, restoring>>
    BY <1>3 DEF OpenAnswered
  <2> QED BY <2>3, <2>5, <2>6, <2>7 DEF Typed, Counted, TypeOK, ContextIsOpen, lists, waits
<1>4. CASE OpenFailed(c)
  <2> DEFINE d == [c EXCEPT !.kind = "meta"]
  <2>1. d \in Call /\ d.snap = c.snap
    BY <1>1, MetaIsCall DEF Call
  <2>2. calls' = (calls \ {c}) \cup {d} /\ c.snap \in Snap
    BY <1>4 DEF OpenFailed, Typed, SnapshotCalls
  <2> HIDE DEF d
  <2>3. calls' \subseteq Call /\ SnapshotCalls'
    BY <2>1, <2>2 DEF Typed, Counted, TypeOK, SnapshotCalls, ContextIsOpen
  <2>4. loading' = FALSE /\ UNCHANGED <<selected, ctx, rows, expanded, meta, ticks, inPlace,
                                       strayed, lists, waits, made, restoring>>
    BY <1>4 DEF OpenFailed
  <2> QED BY <2>3, <2>4 DEF Typed, Counted, TypeOK, ContextIsOpen, lists, waits
<1>5. CASE OpenSuperseded(c)
  <2>1. calls' \subseteq calls /\ UNCHANGED <<selected, ctx, rows, meta, loading, inPlace,
                                             lists, waits, made, restoring>>
    BY <1>5 DEF OpenSuperseded
  <2>2. ticks' \in [Path -> Origin \cup {None}] /\ expanded' \in BOOLEAN /\ strayed' \in BOOLEAN
    BY <1>5, HitKeepsTypes DEF OpenSuperseded, Typed, Counted, TypeOK
  <2> QED BY <2>1, <2>2 DEF Typed, Counted, TypeOK, SnapshotCalls, ContextIsOpen, lists, waits
<1>6. CASE MetaAnswer(c)
  <2>1. calls' \subseteq calls /\ UNCHANGED <<selected, ctx, rows, loading, inPlace,
                                             lists, waits, made, restoring>>
    BY <1>6 DEF MetaAnswer
  <2>2. ticks' \in [Path -> Origin \cup {None}] /\ expanded' \in BOOLEAN /\ strayed' \in BOOLEAN
    BY <1>6, HitKeepsTypes DEF MetaAnswer, Typed, Counted, TypeOK
  <2>3. From(c) \in Origin
    BY <1>1, <1>6, FromIsOrigin, NoneAssumption DEF MetaAnswer, Typed, SnapshotCalls
  <2>4. meta' \in Origin \cup {None}
    BY <1>6, <2>3 DEF MetaAnswer, Typed, Counted, TypeOK
  <2> QED BY <2>1, <2>2, <2>4 DEF Typed, Counted, TypeOK, SnapshotCalls, ContextIsOpen, lists, waits
<1>7. CASE FolderAnswer(c)
  <2>1. calls' \subseteq calls /\ UNCHANGED <<selected, ctx, expanded, meta, ticks, loading,
                                             inPlace, lists, waitSeq, made, restoring>>
    BY <1>7 DEF FolderAnswer
  <2>2. From(c) \in Origin
    BY <1>1, <1>7, FromIsOrigin, NoneAssumption DEF FolderAnswer, Typed, SnapshotCalls
  <2>3. rows' \in [Level -> Origin \cup {None}] /\ strayed' \in BOOLEAN
    BY <1>1, <1>7, <2>2 DEF FolderAnswer, Typed, Counted, TypeOK, Call
  <2>4. wait' \in {"none", "list", "folder"}
    BY <1>7 DEF FolderAnswer, EndWait, Typed, Counted, TypeOK
  <2> QED BY <2>1, <2>3, <2>4 DEF Typed, Counted, TypeOK, SnapshotCalls, ContextIsOpen, lists
<1> QED BY <1>2, <1>3, <1>4, <1>5, <1>6, <1>7 DEF Answer

LEMMA ListKeepsTypes ==
  ASSUME Typed, ListSnapshots \/ (\E s \in Server : ChangeServer(s))
  PROVE  Typed'
<1>1. Aged(calls) \subseteq Call /\ \A c \in Aged(calls) : c.kind # "list" => c.snap \in Snap
  <2>1. Aged(calls) \subseteq Call
    BY AgedAreCalls DEF Typed, Counted, TypeOK
  <2>2. \A c \in calls : [c EXCEPT !.old = TRUE].kind = c.kind
                         /\ [c EXCEPT !.old = TRUE].snap = c.snap
    BY DEF Typed, Counted, TypeOK, Call
  <2> QED BY <2>1, <2>2 DEF Aged, Typed, SnapshotCalls
<1>2. rows' \in [Level -> Origin \cup {None}] /\ selected' = None /\ ctx' = None
  BY DEF ListSnapshots, ChangeServer, NothingOpen, NoRows
<1>3. CASE ListSnapshots
  <2>1. made \in 0..MaxCalls /\ MaxCalls \in Nat /\ made < MaxCalls
    BY <1>3, CallsAssumption DEF Typed, Counted, TypeOK, ListSnapshots, CallsLeft
  <2>2. Sends("list", None, 0, FALSE) \in Call /\ made' \in 0..MaxCalls
    <3>1. server \in Server /\ 0 \in 0..MaxCalls /\ CallsLeft /\ made' = made + 1
      BY <1>3, <2>1 DEF Typed, Counted, TypeOK, ListSnapshots
    <3> QED BY <2>1, <3>1, SendsIsCall
  <2>3. Sends("list", None, 0, FALSE).kind = "list"
    BY DEF Sends
  <2>4. calls' = Aged(calls) \cup {Sends("list", None, 0, FALSE)}
    BY <1>3 DEF ListSnapshots
  <2>5. calls' \subseteq Call /\ SnapshotCalls'
    BY <1>1, <2>2, <2>3, <2>4 DEF SnapshotCalls
  <2>6. ticks' \in [Path -> Origin \cup {None}]
    BY <1>3 DEF ListSnapshots, NoTicks
  <2>7. /\ waitSeq' = made' /\ wait' = "list" /\ expanded' = FALSE
        /\ UNCHANGED <<server, list, shown, meta, loading, inPlace, strayed, restoring>>
    BY <1>3 DEF ListSnapshots
  <2>8. TypeOK'
    BY <1>2, <2>2, <2>5, <2>6, <2>7 DEF Typed, Counted, TypeOK
  <2> QED BY <1>2, <2>2, <2>5, <2>7, <2>8 DEF Typed, Counted, ContextIsOpen
<1>4. CASE \E s \in Server : ChangeServer(s)
  <2>1. /\ server' \in Server /\ shown' = FALSE /\ calls' = Aged(calls)
        /\ UNCHANGED <<list, expanded, meta, ticks, loading, inPlace, strayed,
                       waits, made, restoring>>
    BY <1>4 DEF ChangeServer
  <2>2. SnapshotCalls'
    BY <1>1, <2>1 DEF SnapshotCalls
  <2> QED BY <1>1, <1>2, <2>1, <2>2 DEF Typed, Counted, TypeOK, ContextIsOpen, waits
<1> QED BY <1>3, <1>4

Opens ==
  \/ \E s \in Snap : SelectSnapshot(s)
  \/ \E s \in Found : RestoreHit(s)
  \/ ReloadSnapshot

LEMMA OpeningKeepsTypes ==
  ASSUME Typed, Opens
  PROVE  Typed'
<1>1. PICK s \in Snap, hit \in BOOLEAN : Open(s, hit)
  BY NoneAssumption, SnapAssumption DEF Opens, SelectSnapshot, RestoreHit, ReloadSnapshot, Typed, Counted, TypeOK
<1>2. /\ server' = server /\ list' \in Server \cup {None} /\ shown' \in BOOLEAN
      /\ UNCHANGED <<waits, restoring>>
  BY DEF Opens, SelectSnapshot, RestoreHit, ReloadSnapshot, Typed, Counted, TypeOK, lists
<1> QED BY <1>1, <1>2, OpenKeepsTypes

LEMMA ExpandKeepsTypes ==
  ASSUME Typed, ExpandFolder
  PROVE  Typed'
<1>1. expanded' = TRUE /\ UNCHANGED <<selected, ctx, rows, meta, ticks, loading, inPlace,
                                     strayed, lists, restoring>>
  BY DEF ExpandFolder
<1>2. CASE UNCHANGED <<calls, made, wait, waitSeq>>
  BY <1>1, <1>2 DEF Typed, Counted, TypeOK, SnapshotCalls, ContextIsOpen, lists
<1>3. CASE ~UNCHANGED <<calls, made, wait, waitSeq>>
  <2> DEFINE c == Sends("folder", ctx.snap, ctx.gen, FALSE)
             d == [c EXCEPT !.srv = ctx.srv]
  <2>1. made \in 0..MaxCalls /\ MaxCalls \in Nat /\ made < MaxCalls
    BY <1>3, CallsAssumption DEF Typed, Counted, TypeOK, ExpandFolder, CallsLeft
  <2>2. ctx # None
    BY <1>3 DEF ExpandFolder, TreeShown, Typed, ContextIsOpen
  <2>3. ctx.srv \in Server /\ ctx.snap \in Snap /\ ctx.gen \in 0..MaxCalls
    BY <2>2 DEF Typed, Counted, TypeOK
  <2>4. c \in Call /\ made + 1 \in 0..MaxCalls
    BY <2>1, <2>3, SendsIsCall DEF Typed, Counted, TypeOK, CallsLeft
  <2>5. c.snap \in Snap
    BY <2>3 DEF Sends
  <2>6. d \in Call /\ d.snap \in Snap
    <3> HIDE DEF c
    <3> QED BY <2>3, <2>4, <2>5 DEF Call
  <2>7. calls' = calls \cup {d} /\ made' = made + 1 /\ wait' = "folder" /\ waitSeq' = made + 1
    BY <1>3 DEF ExpandFolder
  <2> HIDE DEF c, d
  <2>8. calls' \subseteq Call /\ SnapshotCalls'
    BY <2>6, <2>7 DEF Typed, Counted, TypeOK, SnapshotCalls, ContextIsOpen
  <2>9. ctx # None => ctx.gen <= made'
    BY <2>1, <2>3, <2>7 DEF Typed, Counted
  <2> QED BY <1>1, <2>1, <2>4, <2>7, <2>8, <2>9 DEF Typed, Counted, TypeOK, ContextIsOpen, lists
<1> QED BY <1>2, <1>3

\* The steps that only tick, choose, restore or close a folder.
ClickOnly ==
  \/ CollapseFolder \/ (\E p \in Path : Toggle(p)) \/ SelectAll \/ SelectNone
  \/ (\E b \in BOOLEAN : ChooseMode(b)) \/ RestoreSnapshot \/ RestoreEnds

LEMMA ClickTicks ==
  ASSUME Typed, (\E p \in Path : Toggle(p)) \/ SelectAll \/ SelectNone
  PROVE  /\ ticks' \in [Path -> Origin \cup {None}]
         /\ UNCHANGED <<selected, ctx, rows, expanded, meta, loading, inPlace, strayed,
                        lists, waits, calls, made, restoring>>
         /\ \A p \in Path : ticks'[p] \in {ticks[p], None, rows["top"], rows["folder"]}
<1>1. rows["top"] \in Origin \cup {None} /\ rows["folder"] \in Origin \cup {None}
  BY DEF Typed, Counted, TypeOK, Level
<1>2. ticks \in [Path -> Origin \cup {None}]
  BY DEF Typed, Counted, TypeOK
<1>3. CASE \E p \in Path : Toggle(p)
  <2>1. PICK p \in Path : Toggle(p)
    BY <1>3
  <2>2. PICK x \in {None, rows["top"], rows["folder"]} : Ticks([ticks EXCEPT ![p] = x])
    <3>1. CASE ticks[p] = None
      BY <2>1, <3>1 DEF Toggle
    <3>2. CASE ticks[p] # None
      BY <2>1, <3>2 DEF Toggle
    <3> QED BY <3>1, <3>2
  <2>3. ticks' = [ticks EXCEPT ![p] = x]
    BY <2>2 DEF Ticks
  <2>4. x \in Origin \cup {None}
    BY <1>1, <2>2
  <2>5. ticks' \in [Path -> Origin \cup {None}]
    BY <1>2, <2>3, <2>4
  <2>6. \A q \in Path : ticks'[q] \in {ticks[q], None, rows["top"], rows["folder"]}
    BY <1>2, <2>2, <2>3
  <2> QED BY <2>2, <2>5, <2>6 DEF Ticks
<1>4. CASE SelectAll \/ SelectNone
  <2>1. PICK x \in {None, rows["top"]} : Ticks([NoTicks EXCEPT !["folder"] = x])
    <3>1. NoTicks = [NoTicks EXCEPT !["folder"] = None]
      BY DEF NoTicks, Path
    <3> QED BY <1>4, <3>1 DEF SelectAll, SelectNone
  <2>2. ticks' = [NoTicks EXCEPT !["folder"] = x] /\ NoTicks \in [Path -> {None}]
    BY <2>1 DEF Ticks, NoTicks
  <2>3. ticks' \in [Path -> Origin \cup {None}]
    BY <1>1, <2>1, <2>2
  <2>4. \A q \in Path : ticks'[q] \in {None, rows["top"]}
    BY <2>1, <2>2
  <2> QED BY <2>1, <2>3, <2>4 DEF Ticks
<1> QED BY <1>3, <1>4

LEMMA ClickKeepsTypes ==
  ASSUME Typed, ClickOnly
  PROVE  Typed'
<1>1. CASE (\E p \in Path : Toggle(p)) \/ SelectAll \/ SelectNone
  BY <1>1, ClickTicks DEF Typed, Counted, TypeOK, SnapshotCalls, ContextIsOpen, lists, waits
<1>2. CASE CollapseFolder
  BY <1>2 DEF CollapseFolder, Typed, Counted, TypeOK, SnapshotCalls, ContextIsOpen, lists, waits
<1>3. CASE \E b \in BOOLEAN : ChooseMode(b)
  BY <1>3 DEF ChooseMode, Typed, Counted, TypeOK, SnapshotCalls, ContextIsOpen, lists, waits
<1>4. CASE RestoreSnapshot \/ RestoreEnds
  BY <1>4 DEF RestoreSnapshot, RestoreEnds, Typed, Counted, TypeOK, SnapshotCalls, ContextIsOpen, page, lists, waits
<1> QED BY <1>1, <1>2, <1>3, <1>4 DEF ClickOnly

LEMMA StepKeepsTypes == Typed /\ [Next]_vars => Typed'
<1> SUFFICES ASSUME Typed, [Next]_vars PROVE Typed'
  OBVIOUS
<1>1. CASE UNCHANGED vars
  BY <1>1 DEF vars, page, lists, waits, Typed, Counted, TypeOK, SnapshotCalls, ContextIsOpen
<1>2. CASE Next
  BY <1>2, ListKeepsTypes, OpeningKeepsTypes, AnswerKeepsTypes, ExpandKeepsTypes, ClickKeepsTypes
  DEF Next, Opens, ClickOnly
<1> QED BY <1>1, <1>2

\* Every call, answer and listing has its shape, for any number of calls under
\* way: no generation and no wait is numbered above the calls sent.
THEOREM TypeCorrect == Spec => []TypeOK
<1>1. Init => Typed
  BY InitTyped
<1>2. Typed /\ [Next]_vars => Typed'
  BY StepKeepsTypes
<1>3. Typed => TypeOK
  BY DEF Typed, Counted
<1> QED BY <1>1, <1>2, <1>3, PTL DEF Spec

-----------------------------------------------------------------------------
(* What is shown *)

\* No call of the context in force is newer than it, and one of its own
\* generation is for the open snapshot.
CallsOfContext ==
  \A c \in calls : c.kind # "list" /\ ~c.old =>
    /\ ctx # None /\ c.gen <= ctx.gen
    /\ c.gen = ctx.gen => From(c) = Here

Shown == Typed /\ CallsOfContext /\ ShownIsSelected

LEMMA InitShown == Init => Shown
BY InitTyped DEF Init, Shown, CallsOfContext, ShownIsSelected

\* An answer that is let in without straying is for the open snapshot.
LEMMA MatchIsHere ==
  ASSUME Shown, NEW c \in calls, c.kind # "list", GenMatches(c), ~c.old
  PROVE  From(c) = Here
BY DEF Shown, CallsOfContext, GenMatches

LEMMA HitKeepsShown ==
  ASSUME Shown, NEW c \in calls, c.kind # "list", HitLands(c),
         UNCHANGED <<server, selected, rows>>
  PROVE  ShownIsSelected'
<1>1. Here' = Here
  BY DEF Here
<1>2. SUFFICES ASSUME ~strayed', selected # None
               PROVE  \A p \in Path : ticks'[p] \in {None, Here}
  BY <1>1, <1>2 DEF ShownIsSelected, Shown, HitLands
<1>3. GenMatches(c) /\ ~c.old
  BY <1>2 DEF HitLands
<1>4. ticks' = [NoTicks EXCEPT !["file"] = From(c)] /\ From(c) = Here
  BY <1>3, MatchIsHere DEF HitLands
<1> QED BY <1>4 DEF NoTicks, Path

\* Calls that are answered, or go on under the same context.
LEMMA FewerCallsOfContext ==
  ASSUME Shown, UNCHANGED <<server, selected, ctx>>,
         \A d \in calls' : \E c \in calls :
           /\ d.kind # "list" => c.kind # "list"
           /\ d.gen = c.gen /\ d.old = c.old /\ From(d) = From(c)
  PROVE  CallsOfContext'
<1>1. Here' = Here
  BY DEF Here
<1>2. \A d \in calls' : d.kind # "list" /\ ~d.old =>
        /\ ctx # None /\ d.gen <= ctx.gen
        /\ d.gen = ctx.gen => From(d) = Here
  <2> SUFFICES ASSUME NEW d \in calls', d.kind # "list", ~d.old
               PROVE  /\ ctx # None /\ d.gen <= ctx.gen
                      /\ d.gen = ctx.gen => From(d) = Here
    OBVIOUS
  <2>1. PICK c \in calls : /\ c.kind # "list" /\ ~c.old
                           /\ d.gen = c.gen /\ From(d) = From(c)
    OBVIOUS
  <2> QED BY <2>1 DEF Shown, CallsOfContext
<1> QED BY <1>1, <1>2 DEF CallsOfContext, From

LEMMA AnswerKeepsShown ==
  ASSUME Shown, NEW c \in calls, Answer(c)
  PROVE  CallsOfContext' /\ ShownIsSelected'
<1>1. c \in Call
  BY DEF Shown, Typed, Counted, TypeOK
<1>2. UNCHANGED <<server, selected, ctx>>
  BY DEF Answer, ListAnswer, OpenAnswered, OpenFailed, OpenSuperseded, MetaAnswer,
         FolderAnswer, page, lists
<1>3. Here' = Here
  BY <1>2 DEF Here
<1>4. CallsOfContext'
  <2> DEFINE m == [c EXCEPT !.kind = "meta"]
  <2>1. m.gen = c.gen /\ m.old = c.old /\ From(m) = From(c)
    BY <1>1 DEF Call, From
  <2>2. calls' \subseteq calls \/ (calls' \subseteq calls \cup {m} /\ c.kind = "open")
    BY DEF Answer, ListAnswer, OpenAnswered, OpenFailed, OpenSuperseded, MetaAnswer, FolderAnswer
  <2> HIDE DEF m
  <2> QED BY <1>2, <2>1, <2>2, FewerCallsOfContext
<1> SUFFICES ShownIsSelected'
  BY <1>4
<1>5. CASE OpenAnswered(c)
  <2>1. strayed' = (strayed \/ c.old)
    BY <1>5 DEF OpenAnswered
  <2>2. /\ rows' = [NoRows EXCEPT !["top"] = From(c)]
        /\ ticks' = [NoTicks EXCEPT !["folder"] = From(c)]
    BY <1>5 DEF OpenAnswered
  <2>3. ~c.old => From(c) = Here
    BY <1>5, MatchIsHere DEF OpenAnswered
  <2> QED BY <1>3, <2>1, <2>2, <2>3 DEF ShownIsSelected, NoRows, NoTicks, Level, Path
<1>6. CASE FolderAnswer(c)
  <2>1. CASE UNCHANGED <<rows, strayed>>
    BY <1>2, <1>3, <1>6, <2>1 DEF FolderAnswer, Shown, ShownIsSelected
  <2>2. CASE GenMatches(c) /\ rows' = [rows EXCEPT !["folder"] = From(c)] /\ strayed' = (strayed \/ c.old)
    <3>1. ~c.old => From(c) = Here
      BY <1>6, <2>2, MatchIsHere DEF FolderAnswer
    <3>2. rows \in [Level -> Origin \cup {None}] /\ ticks' = ticks
      BY <1>6 DEF FolderAnswer, Shown, Typed, Counted, TypeOK
    <3> QED BY <1>2, <1>3, <2>2, <3>1, <3>2 DEF Shown, ShownIsSelected, Level
  <2> QED BY <1>6, <2>1, <2>2 DEF FolderAnswer
<1>7. CASE ListAnswer(c)
  BY <1>3, <1>7 DEF ListAnswer, page, Shown, ShownIsSelected
<1>8. CASE OpenFailed(c)
  BY <1>3, <1>8 DEF OpenFailed, Shown, ShownIsSelected
<1>9. CASE OpenSuperseded(c) \/ MetaAnswer(c)
  <2>1. c.kind # "list" /\ rows' = rows
    BY <1>9 DEF OpenSuperseded, MetaAnswer
  <2>2. CASE HitLands(c)
    BY <1>2, <2>1, <2>2, HitKeepsShown
  <2>3. CASE UNCHANGED <<ticks, expanded, strayed>>
    BY <1>2, <1>3, <2>1, <2>3 DEF Shown, ShownIsSelected
  <2> QED BY <1>9, <2>2, <2>3 DEF OpenSuperseded, MetaAnswer
<1> QED BY <1>5, <1>6, <1>7, <1>8, <1>9 DEF Answer

LEMMA ListKeepsShown ==
  ASSUME Shown, ListSnapshots \/ (\E s \in Server : ChangeServer(s))
  PROVE  CallsOfContext' /\ ShownIsSelected'
<1>1. selected' = None
  BY DEF ListSnapshots, ChangeServer, NothingOpen
<1>2. calls' \subseteq Aged(calls) \cup {Sends("list", None, 0, FALSE)}
  BY DEF ListSnapshots, ChangeServer
<1>3. \A c \in Aged(calls) : c.old
  BY DEF Aged, Shown, Typed, Counted, TypeOK, Call
<1>4. Sends("list", None, 0, FALSE).kind = "list"
  BY DEF Sends
<1>5. \A c \in calls' : c.kind = "list" \/ c.old
  BY <1>2, <1>3, <1>4
<1> QED BY <1>1, <1>5 DEF CallsOfContext, ShownIsSelected

LEMMA OpeningKeepsShown ==
  ASSUME Shown, Typed', Opens
  PROVE  CallsOfContext' /\ ShownIsSelected'
<1>1. PICK s \in Snap, hit \in BOOLEAN : Open(s, hit)
  BY NoneAssumption, SnapAssumption DEF Opens, SelectSnapshot, RestoreHit, ReloadSnapshot, Shown, Typed, Counted, TypeOK
<1>2. server' = server
  BY DEF Opens, SelectSnapshot, RestoreHit, ReloadSnapshot, lists
<1> DEFINE gen == IF ctx = None THEN 1 ELSE ctx.gen + 1
           new == Sends("open", s, gen, hit)
<1>3. ctx' = [srv |-> server, snap |-> s, gen |-> gen] /\ selected' = s
  BY <1>1 DEF Open
<1>4. calls' = calls \cup {new}
  BY <1>1 DEF Open
<1>5. From(new) = Here' /\ new.gen = gen
  BY <1>2, <1>3 DEF From, Here, Sends
<1>6. ctx' # None /\ ctx'.gen = gen
  BY <1>3, NoneAssumption DEF Shown, Typed, ContextIsOpen
<1>7. \A c \in calls : c.kind # "list" /\ ~c.old => c.gen < gen
  BY CallsAssumption DEF Shown, CallsOfContext, Typed, Counted, TypeOK, Call
<1>8. gen \in Nat
  BY DEF Shown, Typed, Counted, TypeOK
<1> HIDE DEF gen, new
<1>9. \A c \in calls' : c.kind # "list" /\ ~c.old =>
        c.gen <= ctx'.gen /\ (c.gen = ctx'.gen => From(c) = Here')
  <2> SUFFICES ASSUME NEW c \in calls', c.kind # "list", ~c.old
               PROVE  c.gen <= gen /\ (c.gen = gen => From(c) = Here')
    BY <1>6
  <2>1. CASE c = new
    BY <1>5, <1>8, <2>1
  <2>2. CASE c \in calls
    <3>1. c.gen < gen /\ c.gen \in Nat
      BY <1>7, <2>2, CallsAssumption DEF Shown, Typed, Counted, TypeOK, Call
    <3> QED BY <1>8, <3>1
  <2> QED BY <1>4, <2>1, <2>2
<1>10. CallsOfContext'
  BY <1>6, <1>9 DEF CallsOfContext, From
<1>11. ShownIsSelected'
  BY <1>1 DEF Open, NoRows, NoTicks, ShownIsSelected, Level, Path
<1> QED BY <1>10, <1>11

LEMMA ExpandKeepsShown ==
  ASSUME Shown, ExpandFolder
  PROVE  CallsOfContext' /\ ShownIsSelected'
<1>1. UNCHANGED <<server, selected, ctx, rows, ticks, strayed>>
  BY DEF ExpandFolder, lists
<1>2. Here' = Here
  BY <1>1 DEF Here
<1>3. ShownIsSelected'
  BY <1>1, <1>2 DEF Shown, ShownIsSelected
<1>4. CASE calls' = calls
  BY <1>1, <1>2, <1>3, <1>4 DEF Shown, CallsOfContext, From
<1>5. CASE calls' # calls
  <2> DEFINE c == Sends("folder", ctx.snap, ctx.gen, FALSE)
             d == [c EXCEPT !.srv = ctx.srv]
  <2>1. calls' = calls \cup {d}
    BY <1>5 DEF ExpandFolder
  <2>2. ctx # None /\ ctx.srv = server /\ ctx.snap = selected /\ ctx.gen \in Nat
    BY CallsAssumption DEF ExpandFolder, TreeShown, Shown, Typed, ContextIsOpen, Counted, TypeOK
  <2>3. d.gen = ctx.gen /\ d.srv = ctx.srv /\ d.snap = ctx.snap
    BY DEF Sends
  <2>4. From(d) = Here
    BY <2>2, <2>3 DEF From, Here
  <2> HIDE DEF d
  <2>5. \A e \in calls' : e.kind # "list" /\ ~e.old =>
          ctx # None /\ e.gen <= ctx.gen /\ (e.gen = ctx.gen => From(e) = Here)
    BY <2>1, <2>2, <2>3, <2>4 DEF Shown, CallsOfContext
  <2>6. CallsOfContext'
    BY <1>1, <1>2, <2>5 DEF CallsOfContext, From
  <2> QED BY <1>3, <2>6
<1> QED BY <1>4, <1>5

LEMMA ClickKeepsShown ==
  ASSUME Shown, ClickOnly
  PROVE  CallsOfContext' /\ ShownIsSelected'
<1>1. UNCHANGED <<server, selected, ctx, rows, calls, strayed>>
  BY ClickTicks DEF ClickOnly, CollapseFolder, ChooseMode, RestoreSnapshot, RestoreEnds,
     page, lists, Shown
<1>2. Here' = Here
  BY <1>1 DEF Here
<1>3. CallsOfContext'
  BY <1>1, <1>2 DEF Shown, CallsOfContext, From
<1>4. \A p \in Path : ticks'[p] \in {ticks[p], None, rows["top"], rows["folder"]}
  <2>1. CASE (\E p \in Path : Toggle(p)) \/ SelectAll \/ SelectNone
    BY <2>1, ClickTicks DEF Shown
  <2>2. CASE ~((\E p \in Path : Toggle(p)) \/ SelectAll \/ SelectNone)
    BY <2>2 DEF ClickOnly, CollapseFolder, ChooseMode, RestoreSnapshot, RestoreEnds, page
  <2> QED BY <2>1, <2>2
<1>5. ShownIsSelected'
  BY <1>1, <1>2, <1>4 DEF Shown, ShownIsSelected, Level
<1> QED BY <1>3, <1>5

LEMMA StepKeepsShown == Shown /\ [Next]_vars => Shown'
<1> SUFFICES ASSUME Shown, [Next]_vars PROVE CallsOfContext' /\ ShownIsSelected'
  BY StepKeepsTypes DEF Shown
<1>1. CASE UNCHANGED vars
  BY <1>1 DEF vars, page, lists, waits, Shown, CallsOfContext, ShownIsSelected, Here, From
<1>2. CASE Next
  BY <1>2, StepKeepsTypes, ListKeepsShown, OpeningKeepsShown, AnswerKeepsShown,
     ExpandKeepsShown, ClickKeepsShown
  DEF Next, Opens, ClickOnly, Shown
<1> QED BY <1>1, <1>2

\* For any number of servers, snapshots and calls under way, answered in any
\* order, the tree and the ticks are of the snapshot a restore would name,
\* unless an answer of a dropped context was let in since it was opened
\* (snapshotCtxRef.gen).
THEOREM TreeIsOfSelected == Spec => []ShownIsSelected
<1>1. Init => Shown
  BY InitShown
<1>2. Shown /\ [Next]_vars => Shown'
  BY StepKeepsShown
<1>3. Shown => ShownIsSelected
  BY DEF Shown
<1> QED BY <1>1, <1>2, <1>3, PTL DEF Spec

-----------------------------------------------------------------------------
(* The window waits for a call that is under way *)

\* "Reading" stands for the tree of the open snapshot, and the WaitBar for the
\* newest list or folder: each has its call under way, whose answer or error
\* will end it.
Reading == selected # None /\ loading => \E c \in calls : c.kind = "open" /\ GenMatches(c)
Waiting == wait # "none" => \E c \in calls : c.no = waitSeq /\ c.kind = wait
BusyHasCall == Reading /\ Waiting

Busy == Typed /\ BusyHasCall

LEMMA AnswerKeepsBusy ==
  ASSUME Busy, NEW c \in calls, Answer(c)
  PROVE  BusyHasCall'
<1>1. UNCHANGED <<selected, ctx, waitSeq>>
  BY DEF Answer, ListAnswer, OpenAnswered, OpenFailed, OpenSuperseded, MetaAnswer,
     FolderAnswer, page, waits
<1>2. \A d \in calls : d # c => d \in calls'
  BY DEF Answer, ListAnswer, OpenAnswered, OpenFailed, OpenSuperseded, MetaAnswer, FolderAnswer
<1>3. ASSUME selected' # None /\ loading'
      PROVE  \E d \in calls' : d.kind = "open" /\ ctx' # None /\ ctx'.gen = d.gen
  <2>1. loading /\ (OpenSuperseded(c) \/ c.kind # "open")
    BY <1>3 DEF Answer, ListAnswer, OpenAnswered, OpenFailed, OpenSuperseded, MetaAnswer,
       FolderAnswer, page
  <2>2. PICK d \in calls : d.kind = "open" /\ GenMatches(d)
    BY <1>1, <1>3, <2>1 DEF Busy, BusyHasCall, Reading
  <2>3. d # c
    BY <2>1, <2>2 DEF OpenSuperseded
  <2> QED BY <1>1, <1>2, <2>2, <2>3 DEF GenMatches
<1>4. ASSUME wait' # "none"
      PROVE  \E d \in calls' : d.no = waitSeq' /\ d.kind = wait'
  <2>1. wait' = wait /\ (waitSeq # c.no \/ c.kind \in {"open", "meta"})
    BY <1>4 DEF Answer, ListAnswer, OpenAnswered, OpenFailed, OpenSuperseded, MetaAnswer,
       FolderAnswer, EndWait, waits
  <2>2. PICK d \in calls : d.no = waitSeq /\ d.kind = wait
    BY <1>4, <2>1 DEF Busy, BusyHasCall, Waiting
  <2>3. wait \in {"list", "folder"}
    BY <1>4, <2>1 DEF Busy, Typed, Counted, TypeOK
  <2>4. d # c
    BY <2>1, <2>2, <2>3
  <2> QED BY <1>1, <1>2, <2>1, <2>2, <2>4
<1> QED BY <1>3, <1>4 DEF BusyHasCall, Reading, Waiting, GenMatches

LEMMA ListKeepsBusy ==
  ASSUME Busy, ListSnapshots \/ \E s \in Server : ChangeServer(s)
  PROVE  BusyHasCall'
<1>1. selected' = None
  BY DEF ListSnapshots, ChangeServer, NothingOpen
<1>2. CASE ListSnapshots
  <2> DEFINE d == Sends("list", None, 0, FALSE)
  <2>1. d.no = made + 1 /\ d.kind = "list"
    BY DEF Sends
  <2>2. d \in calls' /\ wait' = "list" /\ waitSeq' = made + 1
    BY <1>2 DEF ListSnapshots
  <2> HIDE DEF d
  <2> QED BY <1>1, <2>1, <2>2 DEF BusyHasCall, Reading, Waiting
<1>3. CASE \E s \in Server : ChangeServer(s)
  <2>1. calls' = Aged(calls) /\ wait' = wait /\ waitSeq' = waitSeq
    BY <1>3 DEF ChangeServer, waits
  <2>2. ASSUME wait # "none" PROVE \E d \in calls' : d.no = waitSeq /\ d.kind = wait
    <3>1. PICK c \in calls : c.no = waitSeq /\ c.kind = wait
      BY <2>2 DEF Busy, BusyHasCall, Waiting
    <3>2. c \in Call
      BY DEF Busy, Typed, Counted, TypeOK
    <3>3. [c EXCEPT !.old = TRUE] \in calls'
      BY <2>1 DEF Aged
    <3>4. [c EXCEPT !.old = TRUE].no = waitSeq /\ [c EXCEPT !.old = TRUE].kind = wait
      BY <3>1, <3>2 DEF Call
    <3> QED BY <3>3, <3>4
  <2> QED BY <1>1, <2>1, <2>2 DEF BusyHasCall, Reading, Waiting
<1> QED BY <1>2, <1>3

LEMMA OpeningKeepsBusy ==
  ASSUME Busy, Opens
  PROVE  BusyHasCall'
<1>1. PICK s \in Snap, hit \in BOOLEAN : Open(s, hit)
  BY NoneAssumption, SnapAssumption DEF Opens, SelectSnapshot, RestoreHit, ReloadSnapshot,
     Busy, Typed, Counted, TypeOK
<1>2. UNCHANGED waits
  BY DEF Opens, SelectSnapshot, RestoreHit, ReloadSnapshot
<1> DEFINE gen == IF ctx = None THEN 1 ELSE ctx.gen + 1
           d == Sends("open", s, gen, hit)
<1>3. ctx' = [srv |-> server, snap |-> s, gen |-> gen] /\ calls' = calls \cup {d}
  BY <1>1 DEF Open
<1>4. d.kind = "open" /\ d.gen = ctx'.gen
  BY <1>3 DEF Sends
<1>5. ctx' # None
  <2>1. ContextIsOpen'
    BY OpeningKeepsTypes DEF Busy, Typed
  <2>2. selected' = s /\ s # None
    BY <1>1, NoneAssumption DEF Open
  <2> QED BY <2>1, <2>2 DEF ContextIsOpen
<1> HIDE DEF gen, d
<1> QED BY <1>2, <1>3, <1>4, <1>5 DEF Busy, BusyHasCall, Reading, Waiting, GenMatches, waits

LEMMA OtherKeepsBusy ==
  ASSUME Busy, ExpandFolder \/ ClickOnly \/ UNCHANGED vars
  PROVE  BusyHasCall'
<1>1. CASE ExpandFolder /\ ~UNCHANGED <<calls, made, wait, waitSeq>>
  <2> DEFINE d == [Sends("folder", ctx.snap, ctx.gen, FALSE) EXCEPT !.srv = ctx.srv]
  <2>1. d.no = made + 1 /\ d.kind = "folder"
    BY DEF Sends
  <2>2. calls' = calls \cup {d} /\ wait' = "folder" /\ waitSeq' = made + 1
    BY <1>1 DEF ExpandFolder
  <2>3. UNCHANGED <<selected, ctx, loading>>
    BY <1>1 DEF ExpandFolder
  <2> HIDE DEF d
  <2> QED BY <2>1, <2>2, <2>3 DEF Busy, BusyHasCall, Reading, Waiting, GenMatches
<1>2. CASE UNCHANGED <<selected, ctx, loading, calls, wait, waitSeq>>
  BY <1>2 DEF Busy, BusyHasCall, Reading, Waiting, GenMatches
<1>3. CASE ClickOnly
  BY <1>2, <1>3, ClickTicks DEF ClickOnly, CollapseFolder, ChooseMode, RestoreSnapshot,
     RestoreEnds, page, waits, Busy
<1>4. CASE UNCHANGED vars
  BY <1>2, <1>4 DEF vars, page, waits
<1>5. CASE ExpandFolder /\ UNCHANGED <<calls, made, wait, waitSeq>>
  BY <1>2, <1>5 DEF ExpandFolder
<1> QED BY <1>1, <1>3, <1>4, <1>5

\* The window is never left busy with nothing to come: opening, reloading, going
\* to another server and listing again in any order, answered in any order, leave
\* "reading" only with a call for the open snapshot's generation under way, and
\* the WaitBar only with the newest call it was put up for (snapshotCtxRef.gen,
\* waitSeqRef).
THEOREM BusyIsForACall == Spec => []BusyHasCall
<1>1. Init => Busy
  BY InitTyped DEF Init, Busy, BusyHasCall, Reading, Waiting
<1>2. ASSUME Busy, [Next]_vars PROVE Busy'
  <2>1. Typed'
    BY <1>2, StepKeepsTypes DEF Busy
  <2>2. BusyHasCall'
    BY <1>2, AnswerKeepsBusy, ListKeepsBusy, OpeningKeepsBusy, OtherKeepsBusy
    DEF Next, Opens, ClickOnly
  <2> QED BY <2>1, <2>2 DEF Busy
<1>3. Busy => BusyHasCall
  BY DEF Busy
<1> QED BY <1>1, <1>2, <1>3, PTL DEF Spec
==================================================================================
