---------------------------- MODULE RollBackProofs ----------------------------
(***************************************************************************)
(* For any number of files, roll backs, callers, made files and crashes: a  *)
(* record names every file its safety folder holds, no file of the user's   *)
(* is lost, and an Undo without problems puts back what was there before.   *)
(*                                                                          *)
(* None of the three is inductive.                                          *)
(*   KeptIsRecorded: a record is written from the list a call has in        *)
(*     memory, which an Undo read before it waited its turn.  RecordInv     *)
(*     says that each such list covers the safety folder.                   *)
(*   NothingLost: an Undo deletes what its roll back restored, and Delete   *)
(*     kept versions the safety folder.  MineInv says that, once a roll     *)
(*     back has moved or restored a file, the user's own content of it is   *)
(*     kept by that roll back or an older one, whose turn is still to come: *)
(*     the roll backs start in their order and are undone from the newest.  *)
(*   UndoPutsBack: BackInv says that the lists a roll back that succeeded   *)
(*     ends with agree with the folder and the safety folder until an Undo  *)
(*     of it begins, and how far each file has come while one is half way.  *)
(*     A record, and what an Undo has read of it while the roll back was    *)
(*     under way, may be older: they name nothing else than the outcome.    *)
(***************************************************************************)
EXTENDS RollBack, TLAPS

Told == {"restoring", "done", "failed"}
Covers(m, r) == \A f \in File : kept[r][f] # None => f \in m.moved

\* A roll back happens once: nothing is kept, recorded or done of it before.
Once ==
  \A r \in Roll : before[r] = None =>
    /\ record[r] = None
    /\ \A f \in File : kept[r][f] = None
    /\ \A c \in Caller : call[c] # Idle => call[c].roll # r

\* What a call is at says what it does.
Places ==
  \A c \in Caller : call[c] # Idle =>
    /\ call[c].op = "roll" <=> call[c].pc \in {"moving", "restoring"}
    /\ call[c].op = "undo" <=> call[c].pc \in {"asked", "queued", "undoing"}

\* No call has to do with a roll back that is under way but the roll back itself
\* and Undos that have read its record and not yet looked whether it is.
Alone ==
  \A c, d \in Caller :
    c # d /\ Does(c, "roll") /\ call[d] # Idle /\ ~Is(d, "asked") =>
      call[c].roll # call[d].roll

\* The list a call has in memory covers the safety folder.
ListCovers(c) ==
  call[c] # Idle /\ (call[c].op = "roll" \/ call[c].man.status \in Told)
    => Covers(call[c].man, call[c].roll)
MemoryCovers == \A c \in Caller : ListCovers(c)

\* While files are moved, the record does not claim to name them, and no Undo has
\* read one that does.
Untold(c) ==
  Is(c, "moving") =>
    /\ record[call[c].roll] = None \/ record[call[c].roll].status = "moving"
    /\ \A d \in Caller :
         Does(d, "undo") /\ call[d].roll = call[c].roll => call[d].man.status \notin Told
NotTold == \A c \in Caller : Untold(c)

RecordInv ==
  /\ TypeOK /\ Once /\ Places /\ Alone /\ MemoryCovers /\ NotTold
  /\ KeptIsRecorded
-----------------------------------------------------------------------------
(* Types *)

LEMMA CallType ==
  ASSUME TypeOK, NEW c \in Caller, call[c] # Idle
  PROVE  call[c] \in Call
BY DEF TypeOK

LEMMA ManType ==
  ASSUME NEW x \in Call
  PROVE  /\ x.man \in Manifest /\ x.roll \in Roll /\ x.snap \in Folder
         /\ x.todo \subseteq File /\ x.then \subseteq File /\ x.extracted \subseteq File
         /\ x.at \in File \cup {None}
BY DEF Call

LEMMA WriteType ==
  ASSUME TypeOK, NEW r \in Roll, NEW m \in Manifest, Write(r, m)
  PROVE  record' \in [Roll -> Manifest \cup {None}]
BY DEF TypeOK, Write

LEMMA StepType ==
  ASSUME TypeOK, NEW c \in Caller, NEW x \in Call \cup {Idle}, Step(c, x)
  PROVE  call' \in [Caller -> Call \cup {Idle}]
BY DEF TypeOK, Step

\* A roll back's steps.
LEMMA RollType ==
  ASSUME TypeOK, NEW c \in Caller, RollSteps(c)
  PROVE  TypeOK'
<1> DEFINE x == call[c]
<1>1. CASE EndMoves(c)
  <2>1. x \in Call
    BY <1>1, CallType DEF EndMoves, Is
  <2> DEFINE y == [x EXCEPT !.man.status = "restoring"]
  <2>2. y \in Call
    BY <2>1 DEF Call, Manifest, Status
  <2>3. Write(y.roll, y.man) /\ UNCHANGED <<live, kept, seen>>
    BY <1>1 DEF EndMoves
  <2>4. \/ Step(c, [y EXCEPT !.pc = "restoring", !.todo = y.then, !.then = {}])
        \/ Step(c, [y EXCEPT !.pc = "restoring", !.todo = {}, !.then = {}, !.bad = TRUE])
    BY <1>1 DEF EndMoves
  <2>5. /\ [y EXCEPT !.pc = "restoring", !.todo = y.then, !.then = {}] \in Call
        /\ [y EXCEPT !.pc = "restoring", !.todo = {}, !.then = {}, !.bad = TRUE] \in Call
    BY <2>2 DEF Call
  <2>6. call' \in [Caller -> Call \cup {Idle}]
    BY <2>4, <2>5, StepType
  <2>7. record' \in [Roll -> Manifest \cup {None}]
    BY <2>2, <2>3, WriteType, ManType
  <2> QED BY <2>3, <2>6, <2>7 DEF TypeOK, seen, past
<1>2. CASE Extract(c)
  <2>1. x \in Call /\ x.at \in File /\ x.snap[x.at] \in Content
    BY <1>2, CallType, ManType DEF Extract, Is, Folder
  <2>2. /\ [x EXCEPT !.at = None, !.todo = @ \ {x.at}, !.extracted = @ \cup {x.at}] \in Call
        /\ [x EXCEPT !.at = None, !.todo = @ \ {x.at}, !.bad = TRUE] \in Call
    BY <2>1 DEF Call
  <2>3. call' \in [Caller -> Call \cup {Idle}]
    BY <1>2, <2>2, StepType DEF Extract
  <2>4. live' \in Folder
    BY <1>2, <2>1 DEF Extract, TypeOK, Folder
  <2> QED BY <1>2, <2>3, <2>4 DEF Extract, TypeOK, seen, past
<1>3. CASE Finish(c)
  <2>1. x \in Call
    BY <1>3, CallType DEF Finish, Is
  <2>2. ASSUME NEW ok \in BOOLEAN
        PROVE  /\ [x.man EXCEPT !.status = Ended(ok), !.restored = Reported(x)] \in Manifest
               /\ [x.man EXCEPT !.status = Ended(ok)] \in Manifest
    BY <2>1, ManType DEF Manifest, Status, Ended, Reported
  <2>3. record' \in [Roll -> Manifest \cup {None}]
    <3>1. PICK m \in Manifest : Write(x.roll, m)
      BY <1>3, <2>2 DEF Finish
    <3> QED BY <2>1, <3>1, WriteType, ManType
  <2>4. call' \in [Caller -> Call \cup {Idle}]
    BY <1>3, StepType DEF Finish, Return
  <2> QED BY <1>3, <2>3, <2>4 DEF Finish, TypeOK, seen, past
<1>4. ASSUME NEW f \in File, Move(c, f) PROVE TypeOK'
  <2>1. x \in Call
    BY <1>4, CallType DEF Move, Is
  <2>2. /\ [x EXCEPT !.todo = @ \ {f}, !.man.moved = @ \cup Noted(x, f),
                     !.then = @ \cup IF x.snap[f] = None THEN {} ELSE {f}] \in Call
        /\ [x EXCEPT !.todo = @ \ {f}] \in Call
    BY <2>1 DEF Call, Manifest, Noted
  <2>3. call' \in [Caller -> Call \cup {Idle}]
    BY <1>4, <2>2, StepType DEF Move
  <2>4. live' \in Folder /\ kept' \in [Roll -> Folder]
    <3>1. x.roll \in Roll /\ kept[x.roll] \in [File -> Content] /\ live \in [File -> Content]
      BY <2>1, ManType DEF TypeOK, Folder
    <3>2. [live EXCEPT ![f] = None] \in Folder
      BY <3>1 DEF Folder, Content
    <3>3. [kept[x.roll] EXCEPT ![f] = live[f]] \in Folder
      BY <3>1 DEF Folder
    <3>4. [kept EXCEPT ![x.roll] = [kept[x.roll] EXCEPT ![f] = live[f]]] \in [Roll -> Folder]
      BY <3>1, <3>3 DEF TypeOK
    <3> QED BY <1>4, <3>2, <3>4 DEF Move, TypeOK
  <2> QED BY <1>4, <2>3, <2>4 DEF Move, TypeOK, seen, past
<1>5. ASSUME NEW f \in File, Look(c, f) PROVE TypeOK'
  <2>1. x \in Call
    BY <1>5, CallType DEF Look, Is
  <2>2. [x EXCEPT !.at = f] \in Call /\ [x EXCEPT !.todo = @ \ {f}] \in Call
    BY <2>1 DEF Call
  <2>3. call' \in [Caller -> Call \cup {Idle}]
    BY <1>5, <2>2, StepType DEF Look
  <2> QED BY <1>5, <2>3 DEF Look, TypeOK, seen, past
<1> QED BY <1>1, <1>2, <1>3, <1>4, <1>5 DEF RollSteps

\* An Undo's steps.
LEMMA UndoType ==
  ASSUME TypeOK, NEW c \in Caller, UndoSteps(c)
  PROVE  TypeOK'
<1> DEFINE x == call[c]
<1>1. CASE EnterUndo(c)
  <2>1. x \in Call
    BY <1>1, CallType DEF EnterUndo, Is
  <2>2. [x EXCEPT !.pc = "undoing"] \in Call
    BY <2>1 DEF Call
  <2>3. call' \in [Caller -> Call \cup {Idle}]
    BY <1>1, <2>2, StepType DEF EnterUndo
  <2>4. late' \subseteq Roll /\ disorder' \in BOOLEAN
    BY <1>1 DEF EnterUndo, TypeOK
  <2> QED BY <1>1, <2>3, <2>4 DEF EnterUndo, TypeOK
<1>2. CASE PutBack(c)
  <2>1. x \in Call /\ x.at \in File
    BY <1>2, CallType, ManType DEF PutBack, Is
  <2>2. /\ [x EXCEPT !.then = @ \ {x.at}, !.at = None] \in Call
        /\ [x EXCEPT !.then = @ \ {x.at}, !.at = None, !.bad = TRUE] \in Call
    BY <2>1 DEF Call
  <2>3. call' \in [Caller -> Call \cup {Idle}]
    BY <1>2, <2>2, StepType DEF PutBack, Problem
  <2>4. live' \in Folder /\ kept' \in [Roll -> Folder]
    <3>1. x.roll \in Roll /\ kept[x.roll] \in [File -> Content] /\ live \in [File -> Content]
      BY <2>1, ManType DEF TypeOK, Folder
    <3>2. [live EXCEPT ![x.at] = kept[x.roll][x.at]] \in Folder
      BY <2>1, <3>1 DEF Folder
    <3>3. [kept[x.roll] EXCEPT ![x.at] = None] \in Folder
      BY <3>1 DEF Folder, Content
    <3>4. [kept EXCEPT ![x.roll] = [kept[x.roll] EXCEPT ![x.at] = None]] \in [Roll -> Folder]
      BY <3>1, <3>3 DEF TypeOK
    <3> QED BY <1>2, <3>2, <3>4 DEF PutBack, TypeOK
  <2> QED BY <1>2, <2>3, <2>4 DEF PutBack, TypeOK, seen, past
<1>3. CASE EndUndo(c)
  <2>1. x \in Call
    BY <1>3, CallType DEF EndUndo, Ending, Is
  <2>2. [x.man EXCEPT !.status = "undone"] \in Manifest /\ x.man \in Manifest
    BY <2>1, ManType DEF Manifest, Status
  <2>3. record' \in [Roll -> Manifest \cup {None}]
    <3>1. CASE record' = [record EXCEPT ![x.roll] = None]
      BY <2>1, <3>1, ManType DEF TypeOK
    <3>2. CASE record' # [record EXCEPT ![x.roll] = None]
      BY <1>3, <2>1, <2>2, <3>2, WriteType, ManType DEF EndUndo
    <3> QED BY <3>1, <3>2
  <2>4. call' \in [Caller -> Call \cup {Idle}]
    BY <1>3, StepType DEF EndUndo, Return
  <2> QED BY <1>3, <2>3, <2>4 DEF EndUndo, TypeOK, seen, past
<1>4. ASSUME NEW f \in File, DeleteRestored(c, f) PROVE TypeOK'
  <2>1. x \in Call
    BY <1>4, CallType DEF DeleteRestored, Is
  <2>2. [x EXCEPT !.todo = @ \ {f}] \in Call /\ [x EXCEPT !.todo = @ \ {f}, !.bad = TRUE] \in Call
    BY <2>1 DEF Call
  <2>3. call' \in [Caller -> Call \cup {Idle}]
    BY <1>4, <2>2, StepType DEF DeleteRestored
  <2>4. live' \in Folder
    BY <1>4 DEF DeleteRestored, TypeOK, Folder, Content
  <2> QED BY <1>4, <2>3, <2>4 DEF DeleteRestored, TypeOK, seen, past
<1>5. ASSUME NEW f \in File, TakeOut(c, f) PROVE TypeOK'
  <2>1. x \in Call
    BY <1>5, CallType DEF TakeOut, Returning, Is
  <2>2. /\ [x EXCEPT !.at = f] \in Call
        /\ [x EXCEPT !.then = @ \ {f}, !.at = None, !.bad = TRUE] \in Call
    BY <2>1 DEF Call
  <2>3. call' \in [Caller -> Call \cup {Idle}]
    BY <1>5, <2>2, StepType DEF TakeOut, Problem
  <2>4. live' \in Folder
    BY <1>5 DEF TakeOut, TypeOK, Folder, Content
  <2> QED BY <1>5, <2>3, <2>4 DEF TakeOut, TypeOK, seen, past
<1>6. CASE Enqueue(c)
  <2>1. x \in Call
    BY <1>6, CallType DEF Enqueue, Is
  <2>2. [x EXCEPT !.pc = "queued"] \in Call
    BY <2>1 DEF Call
  <2>3. call' \in [Caller -> Call \cup {Idle}]
    BY <1>6, <2>2, StepType DEF Enqueue, Return
  <2> QED BY <1>6, <2>3 DEF Enqueue, TypeOK, seen, past
<1> QED BY <1>1, <1>2, <1>3, <1>4, <1>5, <1>6 DEF UndoSteps

\* The steps that begin a call.
LEMMA BeginType ==
  ASSUME TypeOK, NEW c \in Caller, NEW r \in Roll, Begin(c, r) \/ AskUndo(c, r)
  PROVE  TypeOK'
<1>1. CASE Begin(c, r)
  <2> DEFINE m == [status |-> "moving", moved |-> {}, restored |-> {}]
  <2>1. m \in Manifest
    BY DEF Manifest, Status
  <2>2. PICK snap \in [File -> Saved \cup {None}], policy \in Policy :
          /\ record' = [record EXCEPT ![r] = m]
          /\ Step(c, [op |-> "roll", roll |-> r, man |-> m, snap |-> snap, pc |-> "moving",
                      todo |-> ToMove(policy, snap), then |-> Missing(snap), at |-> None,
                      extracted |-> {}, bad |-> FALSE])
    BY <1>1 DEF Begin
  <2>3. snap \in Folder
    BY DEF Folder, Content
  <2>4. ToMove(policy, snap) \subseteq File /\ Missing(snap) \subseteq File
    BY PolicyAssumption DEF ToMove, Missing, Changed, New
  <2>5. [op |-> "roll", roll |-> r, man |-> m, snap |-> snap, pc |-> "moving",
         todo |-> ToMove(policy, snap), then |-> Missing(snap), at |-> None,
         extracted |-> {}, bad |-> FALSE] \in Call
    BY <2>1, <2>3, <2>4 DEF Call
  <2>6. call' \in [Caller -> Call \cup {Idle}]
    BY <2>2, <2>5, StepType
  <2>7. record' \in [Roll -> Manifest \cup {None}]
    BY <2>1, <2>2 DEF TypeOK
  <2>8. /\ before' \in [Roll -> Folder \cup {None}]
        /\ older' \in [Roll -> SUBSET Roll]
    BY <1>1 DEF Begin, TypeOK
  <2> QED BY <1>1, <2>6, <2>7, <2>8 DEF Begin, TypeOK
<1>2. CASE AskUndo(c, r)
  <2>1. record[r] \in Manifest
    BY <1>2 DEF AskUndo, TypeOK
  <2>2. Empty \in Folder
    BY DEF Empty, Folder, Content
  <2>3. [op |-> "undo", roll |-> r, man |-> record[r], snap |-> Empty, pc |-> "asked",
         todo |-> record[r].restored \ record[r].moved, then |-> record[r].moved,
         at |-> None, extracted |-> {}, bad |-> FALSE] \in Call
    BY <2>1, <2>2 DEF Call, Manifest
  <2>4. call' \in [Caller -> Call \cup {Idle}]
    BY <1>2, <2>3, StepType DEF AskUndo
  <2> QED BY <1>2, <2>4 DEF AskUndo, TypeOK, seen, past
<1> QED BY <1>1, <1>2

LEMMA InitType == Init => TypeOK
<1> SUFFICES ASSUME Init PROVE TypeOK
  OBVIOUS
<1>1. live \in Folder /\ Empty \in Folder
  BY DEF Init, Folder, Content, Empty
<1>2. 0 \in 0..MaxCrashes
  BY BoundAssumption
<1> QED BY <1>1, <1>2 DEF Init, TypeOK

LEMMA NextType ==
  ASSUME TypeOK, [Next]_vars
  PROVE  TypeOK'
<1>1. ASSUME NEW c \in Caller, RollSteps(c) \/ UndoSteps(c) PROVE TypeOK'
  BY <1>1, RollType, UndoType
<1>2. ASSUME NEW c \in Caller, NEW r \in Roll, Begin(c, r) \/ AskUndo(c, r) PROVE TypeOK'
  BY <1>2, BeginType
<1>3. ASSUME NEW r \in Roll, DeleteRollbackCopies(r) PROVE TypeOK'
  <2>1. Empty \in Folder
    BY DEF Empty, Folder, Content
  <2> QED BY <1>3, <2>1 DEF DeleteRollbackCopies, TypeOK, seen, past
<1>4. ASSUME NEW f \in File, ProgramMakes(f) PROVE TypeOK'
  <2>1. live' \in Folder
    BY <1>4 DEF ProgramMakes, TypeOK, Folder, Content
  <2> QED BY <1>4, <2>1 DEF ProgramMakes, TypeOK, past
<1>5. CASE Crash
  <2>1. crashes' \in 0..MaxCrashes
    BY <1>5, BoundAssumption DEF Crash, TypeOK
  <2> QED BY <1>5, <2>1 DEF Crash, TypeOK, past
<1>6. CASE UNCHANGED vars
  BY <1>6 DEF TypeOK, vars, past
<1> QED BY <1>1, <1>2, <1>3, <1>4, <1>5, <1>6 DEF Next

\* The type invariant of the roll backs of a set.
THEOREM TypeCorrect == Spec => []TypeOK
<1>1. Init => TypeOK
  BY InitType
<1>2. TypeOK /\ [Next]_vars => TypeOK'
  BY NextType
<1> QED BY <1>1, <1>2, PTL DEF Spec
-----------------------------------------------------------------------------
(* What a step of one call leaves alone *)

RollPlaces == {"moving", "restoring"}
UndoPlaces == {"queued", "undoing"}

\* It changes that call, which stays what it is until it returns, and the safety
\* folder and the record of its own roll back.
Own(c) ==
  /\ call[c] # Idle /\ ~Is(c, "asked") /\ ~Is(c, "asked")'
  /\ \A d \in Caller \ {c} : call'[d] = call[d]
  /\ call'[c] # Idle =>
       /\ call'[c].op = call[c].op /\ call'[c].roll = call[c].roll
       /\ call'[c].pc \in RollPlaces <=> call[c].pc \in RollPlaces
       /\ call'[c].pc \in UndoPlaces <=> call[c].pc \in UndoPlaces
  /\ \A r \in Roll \ {call[c].roll} : kept'[r] = kept[r] /\ record'[r] = record[r]
  /\ before' = before

\* Only the moves add to the safety folder.
Shrinks(c) ==
  ~Is(c, "moving") =>
    \A f \in File : kept'[call[c].roll][f] # None => kept[call[c].roll][f] # None

LEMMA OwnKeeps ==
  ASSUME RecordInv, NEW c \in Caller, Own(c)
  PROVE  Once' /\ Places' /\ Alone'
<1>1. Once'
  <2> SUFFICES ASSUME NEW r \in Roll, before[r] = None
               PROVE  /\ record'[r] = None
                      /\ \A f \in File : kept'[r][f] = None
                      /\ \A d \in Caller : call'[d] # Idle => call'[d].roll # r
    BY DEF Once, Own
  <2>1. /\ record[r] = None
        /\ \A f \in File : kept[r][f] = None
        /\ \A d \in Caller : call[d] # Idle => call[d].roll # r
    BY DEF RecordInv, Once
  <2>2. r # call[c].roll
    BY <2>1 DEF Own
  <2> QED BY <2>1, <2>2 DEF Own
<1>2. Places'
  BY DEF RecordInv, Places, Own, Is, RollPlaces, UndoPlaces
<1>3. Alone'
  BY DEF RecordInv, Alone, Own, Does, Is
<1> QED BY <1>1, <1>2, <1>3

\* The lists of the other calls still cover, and still are not told.
LEMMA OthersKeep ==
  ASSUME RecordInv, NEW c \in Caller, Own(c), Shrinks(c), NEW d \in Caller \ {c}
  PROVE  ListCovers(d)' /\ Untold(d)'
<1>1. call'[d] = call[d]
  BY DEF Own
<1>2. CASE call[d] = Idle
  BY <1>1, <1>2 DEF ListCovers, Untold, Is
<1>3. CASE call[d] # Idle
  <2>1. call[d].roll \in Roll /\ call[c].roll \in Roll
    BY <1>3, CallType, ManType DEF RecordInv, Own
  <2>2. ListCovers(d) /\ Untold(d)
    BY DEF RecordInv, MemoryCovers, NotTold
  <2>3. CASE call[d].roll # call[c].roll
    <3>1. kept'[call[d].roll] = kept[call[d].roll] /\ record'[call[d].roll] = record[call[d].roll]
      BY <2>1, <2>3 DEF Own
    <3>2. \A e \in Caller : Does(e, "undo")' /\ call'[e].roll = call[d].roll => call'[e] = call[e]
      BY <2>3 DEF Own, Does
    <3> QED BY <1>1, <2>2, <3>1, <3>2 DEF ListCovers, Covers, Untold, Is, Does
  <2>4. CASE call[d].roll = call[c].roll
    <3>1. call[d].op # "roll"
      BY <1>3, <2>4 DEF RecordInv, Alone, Does, Own
    <3>2. call[d].op = "undo"
      <4>1. call[d] \in Call
        BY <1>3, CallType DEF RecordInv
      <4> QED BY <3>1, <4>1 DEF Call
    <3>3. call[d].pc # "moving"
      BY <1>3, <3>1 DEF RecordInv, Places
    <3>4. Untold(d)'
      BY <1>1, <3>3 DEF Untold, Is
    <3>5. ListCovers(d)'
      <4>1. CASE Is(c, "moving")
        <5>1. call[d].man.status \notin Told
          BY <1>3, <2>4, <3>2, <4>1 DEF RecordInv, NotTold, Untold, Does
        <5> QED BY <1>1, <3>1, <5>1 DEF ListCovers
      <4>2. CASE ~Is(c, "moving")
        BY <1>1, <2>2, <2>4, <4>2 DEF ListCovers, Covers, Shrinks
      <4> QED BY <4>1, <4>2
    <3> QED BY <3>4, <3>5
  <2> QED BY <2>3, <2>4
<1> QED BY <1>2, <1>3

\* What is left to show of a step of one call.
LEMMA OwnPreserves ==
  ASSUME RecordInv, TypeOK', NEW c \in Caller, Own(c), Shrinks(c),
         ListCovers(c)', Untold(c)',
         LET r == call[c].roll IN
           record'[r] # None /\ record'[r].status \in Told =>
             \A f \in File : kept'[r][f] # None => f \in record'[r].moved
  PROVE  RecordInv'
<1>1. Once' /\ Places' /\ Alone'
  BY OwnKeeps
<1>2. MemoryCovers' /\ NotTold'
  <2>1. ASSUME NEW d \in Caller PROVE ListCovers(d)' /\ Untold(d)'
    BY OthersKeep
  <2> QED BY <2>1 DEF MemoryCovers, NotTold
<1>3. KeptIsRecorded'
  BY DEF RecordInv, KeptIsRecorded, Own, Told
<1> QED BY <1>1, <1>2, <1>3 DEF RecordInv
-----------------------------------------------------------------------------
(* The steps of a roll back *)

LEMMA StepIs ==
  ASSUME TypeOK, NEW c \in Caller, NEW y, Step(c, y)
  PROVE  call'[c] = y /\ \A d \in Caller \ {c} : call'[d] = call[d]
BY DEF TypeOK, Step

LEMMA WriteIs ==
  ASSUME TypeOK, NEW r \in Roll, NEW m, Write(r, m)
  PROVE  /\ record'[r] = record[r] \/ record'[r] = m
         /\ \A q \in Roll \ {r} : record'[q] = record[q]
BY DEF TypeOK, Write

LEMMA RollIsRoll ==
  ASSUME RecordInv, NEW c \in Caller, Is(c, "moving") \/ Is(c, "restoring")
  PROVE  /\ call[c] \in Call /\ call[c] # Idle /\ call[c].op = "roll" /\ call[c].roll \in Roll
         /\ call[c].pc \in RollPlaces /\ call[c].pc \notin UndoPlaces
         /\ Covers(call[c].man, call[c].roll)
<1>1. call[c] \in Call /\ call[c] # Idle /\ call[c].op = "roll"
  BY CallType DEF RecordInv, Places, Is
<1>2. Covers(call[c].man, call[c].roll)
  BY <1>1 DEF RecordInv, MemoryCovers, ListCovers
<1> QED BY <1>1, <1>2, ManType DEF Is, RollPlaces, UndoPlaces

\* A step that changes no folder of the roll back, and writes down nothing or a
\* list that covers.
LEMMA QuietRoll ==
  ASSUME RecordInv, TypeOK', NEW c \in Caller, Is(c, "moving") \/ Is(c, "restoring"),
         kept' = kept, before' = before,
         \A d \in Caller \ {c} : call'[d] = call[d],
         call'[c] = Idle \/ /\ call'[c].op = "roll" /\ call'[c].roll = call[c].roll
                            /\ call'[c].man.moved = call[c].man.moved
                            /\ call'[c].pc \in RollPlaces /\ call'[c].pc \notin UndoPlaces
                            /\ call'[c].pc = "moving" => call[c].pc = "moving" /\ record' = record,
         \A q \in Roll \ {call[c].roll} : record'[q] = record[q],
         \/ record'[call[c].roll] = record[call[c].roll]
         \/ record'[call[c].roll].moved = call[c].man.moved
  PROVE  RecordInv'
<1> DEFINE x == call[c]
<1>1. /\ x \in Call /\ x # Idle /\ x.op = "roll" /\ x.roll \in Roll
      /\ x.pc \in RollPlaces /\ x.pc \notin UndoPlaces /\ Covers(x.man, x.roll)
  BY RollIsRoll
<1>2. Own(c) /\ Shrinks(c)
  BY <1>1 DEF Own, Shrinks, Is, RollPlaces
<1>3. ListCovers(c)'
  BY <1>1 DEF ListCovers, Covers
<1>4. Untold(c)'
  <2>1. Untold(c)
    BY DEF RecordInv, NotTold
  <2>2. \A d \in Caller : Does(d, "undo")' => call'[d] = call[d] \/ call'[c] = Idle
    BY <1>1 DEF Does
  <2> QED BY <2>1, <2>2 DEF Untold, Is, Does
<1>5. record'[x.roll] # None /\ record'[x.roll].status \in Told =>
        \A f \in File : kept'[x.roll][f] # None => f \in record'[x.roll].moved
  <2>1. CASE record'[x.roll] = record[x.roll]
    BY <1>1, <2>1 DEF RecordInv, KeptIsRecorded, Told
  <2>2. CASE record'[x.roll].moved = x.man.moved
    BY <1>1, <2>2 DEF Covers
  <2> QED BY <2>1, <2>2
<1> QED BY <1>2, <1>3, <1>4, <1>5, OwnPreserves

LEMMA RollKeeps ==
  ASSUME RecordInv, NEW c \in Caller, RollSteps(c)
  PROVE  RecordInv'
<1> DEFINE x == call[c]
<1>0. TypeOK /\ TypeOK'
  BY RollType DEF RecordInv
<1>1. CASE EndMoves(c)
  <2>1. Is(c, "moving") /\ kept' = kept /\ before' = before
    BY <1>1 DEF EndMoves, seen, past
  <2>2. x \in Call /\ x.roll \in Roll /\ x.op = "roll"
    BY <2>1, RollIsRoll
  <2> DEFINE y == [x EXCEPT !.man.status = "restoring"]
  <2>3. y.man.moved = x.man.moved /\ y.roll = x.roll /\ y.op = "roll"
    BY <2>2 DEF Call, Manifest
  <2>4. \/ Step(c, [y EXCEPT !.pc = "restoring", !.todo = y.then, !.then = {}])
        \/ Step(c, [y EXCEPT !.pc = "restoring", !.todo = {}, !.then = {}, !.bad = TRUE])
    BY <1>1 DEF EndMoves
  <2>5. /\ call'[c].op = "roll" /\ call'[c].roll = x.roll
        /\ call'[c].man.moved = x.man.moved /\ call'[c].pc = "restoring"
        /\ \A d \in Caller \ {c} : call'[d] = call[d]
    <3> DEFINE p == [y EXCEPT !.pc = "restoring", !.todo = y.then, !.then = {}]
               q == [y EXCEPT !.pc = "restoring", !.todo = {}, !.then = {}, !.bad = TRUE]
    <3>1. y \in Call
      BY <2>2 DEF Call, Manifest, Status
    <3>2. /\ p.op = y.op /\ p.roll = y.roll /\ p.man = y.man /\ p.pc = "restoring"
          /\ q.op = y.op /\ q.roll = y.roll /\ q.man = y.man /\ q.pc = "restoring"
      BY <3>1 DEF Call
    <3> HIDE DEF p, q, y
    <3>3. (call'[c] = p \/ call'[c] = q) /\ \A d \in Caller \ {c} : call'[d] = call[d]
      BY <1>0, <2>4, StepIs DEF p, q
    <3> QED BY <2>3, <3>2, <3>3
  <2>6. Write(x.roll, y.man)
    BY <1>1, <2>3 DEF EndMoves
  <2>7. /\ record'[x.roll] = record[x.roll] \/ record'[x.roll].moved = x.man.moved
        /\ \A q \in Roll \ {x.roll} : record'[q] = record[q]
    BY <1>0, <2>2, <2>3, <2>6, WriteIs
  <2> QED BY <1>0, <2>1, <2>5, <2>7, QuietRoll DEF RollPlaces, UndoPlaces
<1>2. CASE Extract(c)
  <2>1. Is(c, "restoring") /\ kept' = kept /\ before' = before /\ record' = record
    BY <1>2 DEF Extract, seen, past
  <2>2. x \in Call /\ x.roll \in Roll /\ x.op = "roll" /\ x.pc = "restoring"
    BY <2>1, RollIsRoll DEF Is
  <2>3. \/ Step(c, [x EXCEPT !.at = None, !.todo = @ \ {x.at}, !.extracted = @ \cup {x.at}])
        \/ Step(c, [x EXCEPT !.at = None, !.todo = @ \ {x.at}, !.bad = TRUE])
    BY <1>2 DEF Extract
  <2>4. /\ call'[c].op = "roll" /\ call'[c].roll = x.roll
        /\ call'[c].man.moved = x.man.moved /\ call'[c].pc = "restoring"
        /\ \A d \in Caller \ {c} : call'[d] = call[d]
    <3> DEFINE p == [x EXCEPT !.at = None, !.todo = @ \ {x.at}, !.extracted = @ \cup {x.at}]
               q == [x EXCEPT !.at = None, !.todo = @ \ {x.at}, !.bad = TRUE]
    <3>1. /\ p.op = x.op /\ p.roll = x.roll /\ p.man = x.man /\ p.pc = x.pc
          /\ q.op = x.op /\ q.roll = x.roll /\ q.man = x.man /\ q.pc = x.pc
      BY <2>2 DEF Call
    <3> HIDE DEF p, q
    <3>2. (call'[c] = p \/ call'[c] = q) /\ \A d \in Caller \ {c} : call'[d] = call[d]
      BY <1>0, <2>3, StepIs DEF p, q
    <3> QED BY <2>2, <3>1, <3>2
  <2> QED BY <1>0, <2>1, <2>4, QuietRoll DEF RollPlaces, UndoPlaces
<1>3. CASE Finish(c)
  <2>1. Is(c, "restoring") /\ kept' = kept /\ before' = before /\ Step(c, Idle)
    BY <1>3 DEF Finish, Return, seen, past
  <2>2. x \in Call /\ x.roll \in Roll /\ x.man \in Manifest
    BY <2>1, RollIsRoll, ManType
  <2>3. \/ \E ok \in BOOLEAN :
             Write(x.roll, [x.man EXCEPT !.status = Ended(ok), !.restored = Reported(x)])
        \/ Write(x.roll, [x.man EXCEPT !.status = Ended(FALSE)])
    BY <1>3 DEF Finish
  <2>4. PICK m : Write(x.roll, m) /\ m.moved = x.man.moved
    <3>1. ASSUME NEW ok \in BOOLEAN
          PROVE  /\ [x.man EXCEPT !.status = Ended(ok), !.restored = Reported(x)].moved = x.man.moved
                 /\ [x.man EXCEPT !.status = Ended(FALSE)].moved = x.man.moved
      BY <2>2 DEF Manifest
    <3> QED BY <2>3, <3>1
  <2>5. /\ record'[x.roll] = record[x.roll] \/ record'[x.roll].moved = x.man.moved
        /\ \A q \in Roll \ {x.roll} : record'[q] = record[q]
    BY <1>0, <2>2, <2>4, WriteIs
  <2>6. call'[c] = Idle /\ \A d \in Caller \ {c} : call'[d] = call[d]
    BY <1>0, <2>1, StepIs
  <2> QED BY <1>0, <2>1, <2>5, <2>6, QuietRoll
<1>4. ASSUME NEW f \in File, Move(c, f) PROVE RecordInv'
  <2>1. Is(c, "moving") /\ before' = before /\ record' = record
    BY <1>4 DEF Move, seen, past
  <2>2. /\ x \in Call /\ x # Idle /\ x.roll \in Roll /\ x.op = "roll" /\ x.pc = "moving"
        /\ x.man \in Manifest /\ Covers(x.man, x.roll)
    BY <2>1, RollIsRoll, ManType DEF Is
  <2> DEFINE y == [x EXCEPT !.todo = @ \ {f}, !.man.moved = @ \cup Noted(x, f),
                             !.then = @ \cup IF x.snap[f] = None THEN {} ELSE {f}]
  <2>3. CASE Step(c, [x EXCEPT !.todo = @ \ {f}]) /\ UNCHANGED <<live, kept>>
    <3>1. /\ call'[c].op = "roll" /\ call'[c].roll = x.roll
          /\ call'[c].man.moved = x.man.moved /\ call'[c].pc = "moving"
          /\ \A d \in Caller \ {c} : call'[d] = call[d]
      BY <1>0, <2>2, <2>3, StepIs DEF Call
    <3> QED BY <1>0, <2>1, <2>2, <2>3, <3>1, QuietRoll DEF RollPlaces, UndoPlaces
  <2>4. CASE kept' = [kept EXCEPT ![x.roll][f] = live[f]] /\ Step(c, y)
    <3>1. y.op = "roll" /\ y.roll = x.roll /\ y.man.moved = x.man.moved \cup {f} /\ y.pc = "moving"
      BY <2>2 DEF Call, Manifest, Noted
    <3>2. call'[c] = y /\ \A d \in Caller \ {c} : call'[d] = call[d]
      BY <1>0, <2>4, StepIs
    <3>3. /\ \A r \in Roll \ {x.roll} : kept'[r] = kept[r]
          /\ \A g \in File \ {f} : kept'[x.roll][g] = kept[x.roll][g]
      BY <1>0, <2>2, <2>4 DEF TypeOK, Folder
    <3>4. Own(c) /\ Shrinks(c)
      BY <2>1, <2>2, <3>1, <3>2, <3>3 DEF Own, Shrinks, Is
    <3>5. ListCovers(c)'
      BY <2>2, <3>1, <3>2, <3>3 DEF ListCovers, Covers
    <3>6. record[x.roll] = None \/ record[x.roll].status = "moving"
      BY <2>1 DEF RecordInv, NotTold, Untold
    <3>7. Untold(c)'
      <4>1. \A d \in Caller : Does(d, "undo")' => call'[d] = call[d]
        BY <3>1, <3>2 DEF Does
      <4> QED BY <2>1, <2>2, <3>1, <3>2, <3>6, <4>1 DEF RecordInv, NotTold, Untold, Does
    <3> QED BY <1>0, <2>1, <3>4, <3>5, <3>6, <3>7, OwnPreserves DEF Told
  <2> QED BY <1>4, <2>3, <2>4 DEF Move
<1>5. ASSUME NEW f \in File, Look(c, f) PROVE RecordInv'
  <2>1. Is(c, "restoring") /\ kept' = kept /\ before' = before /\ record' = record
    BY <1>5 DEF Look, seen, past
  <2>2. x \in Call /\ x.roll \in Roll /\ x.op = "roll" /\ x.pc = "restoring"
    BY <2>1, RollIsRoll DEF Is
  <2>3. Step(c, [x EXCEPT !.at = f]) \/ Step(c, [x EXCEPT !.todo = @ \ {f}])
    BY <1>5 DEF Look
  <2>4. /\ call'[c].op = "roll" /\ call'[c].roll = x.roll
        /\ call'[c].man.moved = x.man.moved /\ call'[c].pc = "restoring"
        /\ \A d \in Caller \ {c} : call'[d] = call[d]
    BY <1>0, <2>2, <2>3, StepIs DEF Call
  <2> QED BY <1>0, <2>1, <2>4, QuietRoll DEF RollPlaces, UndoPlaces
<1> QED BY <1>1, <1>2, <1>3, <1>4, <1>5 DEF RollSteps
-----------------------------------------------------------------------------
(* The steps of an Undo *)

LEMMA UndoIsUndo ==
  ASSUME RecordInv, NEW c \in Caller, Is(c, "queued") \/ Is(c, "undoing")
  PROVE  /\ call[c] \in Call /\ call[c] # Idle /\ call[c].op = "undo" /\ call[c].roll \in Roll
         /\ call[c].pc \in UndoPlaces /\ call[c].pc \notin RollPlaces
         /\ call[c].man.status \in Told => Covers(call[c].man, call[c].roll)
<1>1. call[c] \in Call /\ call[c] # Idle /\ call[c].op = "undo"
  BY CallType DEF RecordInv, Places, Is
<1>2. call[c].man.status \in Told => Covers(call[c].man, call[c].roll)
  BY <1>1 DEF RecordInv, MemoryCovers, ListCovers
<1> QED BY <1>1, <1>2, ManType DEF Is, RollPlaces, UndoPlaces

\* A step that adds nothing to the safety folder, and writes down nothing, the
\* list the Undo has read or that the roll back is undone.
LEMMA QuietUndo ==
  ASSUME RecordInv, TypeOK', NEW c \in Caller, Is(c, "queued") \/ Is(c, "undoing"),
         before' = before,
         \A d \in Caller \ {c} : call'[d] = call[d],
         call'[c] = Idle \/ /\ call'[c].op = "undo" /\ call'[c].roll = call[c].roll
                            /\ call'[c].man = call[c].man
                            /\ call'[c].pc \in UndoPlaces,
         \A q \in Roll \ {call[c].roll} : kept'[q] = kept[q] /\ record'[q] = record[q],
         \A f \in File : kept'[call[c].roll][f] # None => kept[call[c].roll][f] # None,
         \/ record'[call[c].roll] \in {record[call[c].roll], call[c].man, None}
         \/ record'[call[c].roll].status = "undone"
  PROVE  RecordInv'
<1> DEFINE x == call[c]
<1>1. /\ x \in Call /\ x # Idle /\ x.op = "undo" /\ x.roll \in Roll
      /\ x.pc \in UndoPlaces /\ x.pc \notin RollPlaces
      /\ x.man.status \in Told => Covers(x.man, x.roll)
  BY UndoIsUndo
<1>2. Own(c) /\ Shrinks(c)
  BY <1>1 DEF Own, Shrinks, Is, UndoPlaces, RollPlaces
<1>3. ListCovers(c)'
  BY <1>1 DEF ListCovers, Covers
<1>4. Untold(c)'
  BY <1>1 DEF Untold, Is, UndoPlaces
<1>5. record'[x.roll] # None /\ record'[x.roll].status \in Told =>
        \A f \in File : kept'[x.roll][f] # None => f \in record'[x.roll].moved
  <2>1. CASE record'[x.roll] = record[x.roll]
    BY <1>1, <2>1 DEF RecordInv, KeptIsRecorded, Told
  <2>2. CASE record'[x.roll] = x.man
    BY <1>1, <2>2 DEF Covers
  <2>3. CASE record'[x.roll].status = "undone"
    BY <2>3 DEF Told
  <2> QED BY <2>1, <2>2, <2>3
<1> QED BY <1>2, <1>3, <1>4, <1>5, OwnPreserves

\* The same of a step that writes nothing.
LEMMA SilentUndo ==
  ASSUME RecordInv, TypeOK', NEW c \in Caller, Is(c, "queued") \/ Is(c, "undoing"),
         before' = before, record' = record, NEW y, Step(c, y),
         y.op = "undo" /\ y.roll = call[c].roll /\ y.man = call[c].man /\ y.pc \in UndoPlaces,
         \A q \in Roll \ {call[c].roll} : kept'[q] = kept[q],
         \A f \in File : kept'[call[c].roll][f] # None => kept[call[c].roll][f] # None
  PROVE  RecordInv'
<1>1. call'[c] = y /\ \A d \in Caller \ {c} : call'[d] = call[d]
  BY StepIs DEF RecordInv
<1> QED BY <1>1, QuietUndo

\* An Undo that goes into the queue has seen that no roll back is under way.
LEMMA EnqueueKeeps ==
  ASSUME RecordInv, NEW c \in Caller, Enqueue(c)
  PROVE  RecordInv'
<1> DEFINE y == [call[c] EXCEPT !.pc = "queued"]
<1>1. /\ TypeOK /\ TypeOK' /\ call[c] # Idle /\ call[c] \in Call /\ call[c].op = "undo"
      /\ UNCHANGED <<kept, record, before>>
  BY UndoType, CallType DEF RecordInv, UndoSteps, Enqueue, Is, Places, seen, past
<1>2. /\ y.op = "undo" /\ y.roll = call[c].roll /\ y.man = call[c].man /\ y.pc = "queued"
  BY <1>1 DEF Call
<1>3. (Held /\ Step(c, Idle)) \/ (~Held /\ Step(c, y))
  BY DEF Enqueue, Return
<1> HIDE DEF y
<1>4. /\ call'[c] = Idle \/ /\ call'[c].op = "undo" /\ call'[c].roll = call[c].roll
                            /\ call'[c].man = call[c].man /\ call'[c].pc = "queued" /\ ~Held
      /\ \A d \in Caller \ {c} : call'[d] = call[d]
  BY <1>1, <1>2, <1>3, StepIs
<1>5. Once' /\ Places' /\ KeptIsRecorded'
  BY <1>1, <1>4 DEF RecordInv, Once, Places, KeptIsRecorded
<1>6. Alone'
  BY <1>1, <1>4 DEF RecordInv, Alone, Held, Does, Is
<1>7. MemoryCovers'
  BY <1>1, <1>4 DEF RecordInv, MemoryCovers, ListCovers, Covers
<1>8. NotTold'
  <2> SUFFICES ASSUME NEW d \in Caller, Is(d, "moving")'
               PROVE  Untold(d)'
    BY DEF NotTold, Untold
  <2>1. call'[d] = call[d] /\ Is(d, "moving") /\ Untold(d)
    BY <1>4 DEF RecordInv, NotTold, Is
  <2>2. \A e \in Caller : Does(e, "undo")' =>
          Does(e, "undo") /\ call'[e].roll = call[e].roll /\ call'[e].man = call[e].man
    BY <1>1, <1>4 DEF Does
  <2> QED BY <1>1, <2>1, <2>2 DEF Untold
<1> QED BY <1>1, <1>5, <1>6, <1>7, <1>8 DEF RecordInv

LEMMA UndoKeeps ==
  ASSUME RecordInv, NEW c \in Caller, UndoSteps(c)
  PROVE  RecordInv'
<1> DEFINE x == call[c]
<1>0. TypeOK /\ TypeOK'
  BY UndoType DEF RecordInv
<1>1. CASE EnterUndo(c)
  <2> DEFINE y == [x EXCEPT !.pc = "undoing"]
  <2>1. Is(c, "queued") /\ kept' = kept /\ before' = before /\ record' = record /\ Step(c, y)
    BY <1>1 DEF EnterUndo
  <2>2. x \in Call /\ x.op = "undo"
    BY <2>1, UndoIsUndo
  <2>3. y.op = "undo" /\ y.roll = x.roll /\ y.man = x.man /\ y.pc \in UndoPlaces
    BY <2>2 DEF Call, UndoPlaces
  <2> HIDE DEF y
  <2> QED BY <1>0, <2>1, <2>3, SilentUndo
<1>2. CASE PutBack(c)
  <2> DEFINE y == [x EXCEPT !.then = @ \ {x.at}, !.at = None]
             z == [x EXCEPT !.then = @ \ {x.at}, !.at = None, !.bad = TRUE]
  <2>1. Is(c, "undoing") /\ before' = before /\ record' = record
    BY <1>2 DEF PutBack, seen, past
  <2>2. x \in Call /\ x.op = "undo" /\ x.roll \in Roll /\ x.pc \in UndoPlaces
    BY <2>1, UndoIsUndo
  <2>3. /\ y.op = "undo" /\ y.roll = x.roll /\ y.man = x.man /\ y.pc \in UndoPlaces
        /\ z.op = "undo" /\ z.roll = x.roll /\ z.man = x.man /\ z.pc \in UndoPlaces
    BY <2>2 DEF Call
  <2>4. \/ kept' = [kept EXCEPT ![x.roll][x.at] = None] /\ Step(c, y)
        \/ kept' = kept /\ Step(c, z)
    BY <1>2 DEF PutBack, Problem
  <2>5. /\ \A q \in Roll \ {x.roll} : kept'[q] = kept[q]
        /\ \A f \in File : kept'[x.roll][f] # None => kept[x.roll][f] # None
    BY <1>0, <2>2, <2>4 DEF TypeOK, Folder
  <2> HIDE DEF y, z
  <2> QED BY <1>0, <2>1, <2>3, <2>4, <2>5, SilentUndo
<1>3. CASE EndUndo(c)
  <2>1. Is(c, "undoing") /\ kept' = kept /\ before' = before /\ Step(c, Idle)
    BY <1>3 DEF EndUndo, Ending, Return, seen, past
  <2>2. x \in Call /\ x.roll \in Roll /\ x.man \in Manifest
    BY <2>1, UndoIsUndo, ManType
  <2> DEFINE m == [x.man EXCEPT !.status = "undone"]
  <2>3. m.status = "undone"
    BY <2>2 DEF Manifest
  <2> HIDE DEF m
  <2>4. Write(x.roll, x.man) \/ record' = [record EXCEPT ![x.roll] = None] \/ Write(x.roll, m)
    BY <1>3 DEF EndUndo, m
  <2>5. /\ \A q \in Roll \ {x.roll} : record'[q] = record[q]
        /\ record'[x.roll] \in {record[x.roll], x.man, None, m}
    <3>1. CASE record' = [record EXCEPT ![x.roll] = None]
      BY <1>0, <2>2, <3>1 DEF TypeOK
    <3>2. CASE Write(x.roll, x.man) \/ Write(x.roll, m)
      BY <1>0, <2>2, <3>2, WriteIs
    <3> QED BY <2>4, <3>1, <3>2
  <2>6. call'[c] = Idle /\ \A d \in Caller \ {c} : call'[d] = call[d]
    BY <1>0, <2>1, StepIs
  <2> QED BY <1>0, <2>1, <2>3, <2>5, <2>6, QuietUndo
<1>4. ASSUME NEW f \in File, DeleteRestored(c, f) PROVE RecordInv'
  <2> DEFINE y == [x EXCEPT !.todo = @ \ {f}]
             z == [x EXCEPT !.todo = @ \ {f}, !.bad = TRUE]
  <2>1. Is(c, "undoing") /\ before' = before /\ record' = record /\ kept' = kept
    BY <1>4 DEF DeleteRestored, seen, past
  <2>2. x \in Call /\ x.op = "undo" /\ x.roll \in Roll /\ x.pc \in UndoPlaces
    BY <2>1, UndoIsUndo
  <2>3. /\ y.op = "undo" /\ y.roll = x.roll /\ y.man = x.man /\ y.pc \in UndoPlaces
        /\ z.op = "undo" /\ z.roll = x.roll /\ z.man = x.man /\ z.pc \in UndoPlaces
    BY <2>2 DEF Call
  <2>4. Step(c, y) \/ Step(c, z)
    BY <1>4 DEF DeleteRestored
  <2> HIDE DEF y, z
  <2> QED BY <1>0, <2>1, <2>3, <2>4, SilentUndo
<1>5. ASSUME NEW f \in File, TakeOut(c, f) PROVE RecordInv'
  <2> DEFINE y == [x EXCEPT !.at = f]
             z == [x EXCEPT !.then = @ \ {f}, !.at = None, !.bad = TRUE]
  <2>1. Is(c, "undoing") /\ before' = before /\ record' = record /\ kept' = kept
    BY <1>5 DEF TakeOut, Returning, seen, past
  <2>2. x \in Call /\ x.op = "undo" /\ x.roll \in Roll /\ x.pc \in UndoPlaces
    BY <2>1, UndoIsUndo
  <2>3. /\ y.op = "undo" /\ y.roll = x.roll /\ y.man = x.man /\ y.pc \in UndoPlaces
        /\ z.op = "undo" /\ z.roll = x.roll /\ z.man = x.man /\ z.pc \in UndoPlaces
    BY <2>2 DEF Call
  <2>4. Step(c, y) \/ Step(c, z)
    BY <1>5 DEF TakeOut, Problem
  <2> HIDE DEF y, z
  <2> QED BY <1>0, <2>1, <2>3, <2>4, SilentUndo
<1>6. CASE Enqueue(c)
  BY <1>6, EnqueueKeeps
<1> QED BY <1>1, <1>2, <1>3, <1>4, <1>5, <1>6 DEF UndoSteps
-----------------------------------------------------------------------------
(* The beginnings, and the steps of no call *)

LEMMA BeginKeeps ==
  ASSUME RecordInv, NEW c \in Caller, NEW r \in Roll, Begin(c, r)
  PROVE  RecordInv'
<1> DEFINE m == [status |-> "moving", moved |-> {}, restored |-> {}]
<1>1. TypeOK /\ TypeOK'
  BY BeginType DEF RecordInv
<1>2. /\ record[r] = None
      /\ \A f \in File : kept[r][f] = None
      /\ \A d \in Caller : call[d] # Idle => call[d].roll # r
  BY DEF RecordInv, Once, Begin
<1>3. /\ call'[c].op = "roll" /\ call'[c].roll = r /\ call'[c].pc = "moving"
      /\ \A d \in Caller \ {c} : call'[d] = call[d]
  BY <1>1, StepIs DEF Begin
<1>4. record'[r] = m /\ \A q \in Roll \ {r} : record'[q] = record[q]
  BY <1>1 DEF Begin, TypeOK
<1>5. kept' = kept /\ before'[r] # None /\ \A q \in Roll \ {r} : before'[q] = before[q]
  BY <1>1, NoneAssumption DEF Begin, TypeOK
<1>6. Once'
  <2> SUFFICES ASSUME NEW q \in Roll, before'[q] = None
               PROVE  /\ record'[q] = None
                      /\ \A f \in File : kept'[q][f] = None
                      /\ \A d \in Caller : call'[d] # Idle => call'[d].roll # q
    BY DEF Once
  <2>1. q # r /\ before[q] = None
    BY <1>5
  <2>2. /\ record[q] = None
        /\ \A f \in File : kept[q][f] = None
        /\ \A d \in Caller : call[d] # Idle => call[d].roll # q
    BY <2>1 DEF RecordInv, Once
  <2> QED BY <1>3, <1>4, <1>5, <2>1, <2>2
<1>7. Places'
  BY <1>3 DEF RecordInv, Places
<1>8. Alone'
  BY <1>2, <1>3 DEF RecordInv, Alone, Does, Is
<1>9. MemoryCovers'
  <2>1. ASSUME NEW d \in Caller PROVE ListCovers(d)'
    <3>1. CASE d = c
      BY <1>2, <1>3, <1>5, <3>1 DEF ListCovers, Covers
    <3>2. CASE d # c
      BY <1>3, <1>5, <3>2 DEF RecordInv, MemoryCovers, ListCovers, Covers
    <3> QED BY <3>1, <3>2
  <2> QED BY <2>1 DEF MemoryCovers
<1>10. NotTold'
  <2>1. ASSUME NEW d \in Caller PROVE Untold(d)'
    <3>1. CASE d = c
      BY <1>2, <1>3, <1>4, <3>1 DEF Untold, Does
    <3>2. CASE d # c /\ Is(d, "moving")
      <4>1. call[d] # Idle /\ call[d].roll \in Roll \ {r}
        BY <1>1, <1>2, <3>2, CallType, ManType DEF Is
      <4>2. \A e \in Caller : Does(e, "undo")' => call'[e] = call[e]
        BY <1>3 DEF Does
      <4> QED BY <1>3, <1>4, <3>2, <4>1, <4>2 DEF RecordInv, NotTold, Untold, Does
    <3>3. CASE d # c /\ ~Is(d, "moving")
      BY <1>3, <3>3 DEF Untold, Is
    <3> QED BY <3>1, <3>2, <3>3
  <2> QED BY <2>1 DEF NotTold
<1>11. KeptIsRecorded'
  BY <1>4, <1>5 DEF RecordInv, KeptIsRecorded
<1> QED BY <1>1, <1>6, <1>7, <1>8, <1>9, <1>10, <1>11 DEF RecordInv

LEMMA AskKeeps ==
  ASSUME RecordInv, NEW c \in Caller, NEW r \in Roll, AskUndo(c, r)
  PROVE  RecordInv'
<1>1. TypeOK /\ TypeOK'
  BY BeginType DEF RecordInv
<1>2. /\ call'[c].op = "undo" /\ call'[c].roll = r /\ call'[c].pc = "asked"
      /\ call'[c].man = record[r]
      /\ \A d \in Caller \ {c} : call'[d] = call[d]
  BY <1>1, StepIs DEF AskUndo
<1>3. kept' = kept /\ record' = record /\ before' = before /\ record[r] # None
  BY DEF AskUndo, seen, past
<1>4. Alone'
  BY <1>2 DEF RecordInv, Alone, Does, Is
<1>5. Once'
  <2>1. before[r] # None
    BY <1>3 DEF RecordInv, Once
  <2> QED BY <1>2, <1>3, <2>1 DEF RecordInv, Once
<1>6. Places'
  BY <1>2 DEF RecordInv, Places
<1>8. MemoryCovers'
  <2>1. ASSUME NEW d \in Caller PROVE ListCovers(d)'
    <3>1. CASE d = c
      BY <1>2, <1>3, <3>1 DEF RecordInv, KeptIsRecorded, ListCovers, Covers, Told
    <3>2. CASE d # c
      BY <1>2, <1>3, <3>2 DEF RecordInv, MemoryCovers, ListCovers, Covers
    <3> QED BY <3>1, <3>2
  <2> QED BY <2>1 DEF MemoryCovers
<1>9. NotTold'
  <2> SUFFICES ASSUME NEW d \in Caller, Is(d, "moving")'
               PROVE  Untold(d)'
    BY DEF NotTold, Untold
  <2>1. d # c /\ call'[d] = call[d] /\ Is(d, "moving") /\ Untold(d)
    BY <1>2 DEF RecordInv, NotTold, Is
  <2>2. ASSUME NEW e \in Caller, Does(e, "undo")', call'[e].roll = call'[d].roll
        PROVE  call'[e].man.status \notin Told
    <3>1. CASE e # c
      BY <1>2, <2>1, <2>2, <3>1 DEF Untold, Does
    <3>2. CASE e = c
      BY <1>2, <1>3, <2>1, <2>2, <3>2 DEF Untold, Told
    <3> QED BY <3>1, <3>2
  <2> QED BY <1>3, <2>1, <2>2 DEF Untold
<1>10. KeptIsRecorded'
  BY <1>3 DEF RecordInv, KeptIsRecorded
<1> QED BY <1>1, <1>4, <1>5, <1>6, <1>8, <1>9, <1>10 DEF RecordInv

LEMMA DeleteKeeps ==
  ASSUME RecordInv, NEW r \in Roll, DeleteRollbackCopies(r)
  PROVE  RecordInv'
<1>1. TypeOK /\ TypeOK'
  BY NextType DEF RecordInv, Next
<1>2. /\ call' = call /\ before' = before
      /\ record'[r] = None /\ \A q \in Roll \ {r} : record'[q] = record[q]
      /\ \A f \in File : kept'[r][f] = None
      /\ \A q \in Roll \ {r} : kept'[q] = kept[q]
  BY <1>1 DEF DeleteRollbackCopies, TypeOK, Empty, seen, past
<1>3. \A q \in Roll, f \in File : kept'[q][f] # None => kept[q][f] # None
  BY <1>2
<1>4. \A q \in Roll : record'[q] \in {None, record[q]}
  BY <1>2
<1>5. \A d \in Caller : call[d] # Idle => call[d].roll \in Roll
  BY <1>1, CallType, ManType
<1>6. Once'
  BY <1>2, <1>3, <1>4 DEF RecordInv, Once
<1>7. Places' /\ Alone'
  BY <1>2 DEF RecordInv, Places, Alone, Does, Is
<1>8. MemoryCovers'
  BY <1>2, <1>3, <1>5 DEF RecordInv, MemoryCovers, ListCovers, Covers
<1>9. NotTold'
  BY <1>2, <1>4, <1>5 DEF RecordInv, NotTold, Untold, Is, Does
<1>10. KeptIsRecorded'
  BY <1>2, <1>3 DEF RecordInv, KeptIsRecorded
<1> QED BY <1>1, <1>6, <1>7, <1>8, <1>9, <1>10 DEF RecordInv

LEMMA CrashKeeps ==
  ASSUME RecordInv, Crash
  PROVE  RecordInv'
<1>1. TypeOK'
  BY NextType DEF RecordInv, Next
<1>2. /\ \A c \in Caller : call'[c] = Idle
      /\ kept' = kept /\ record' = record /\ before' = before
  BY DEF Crash, past
<1>3. Once' /\ KeptIsRecorded'
  BY <1>2 DEF RecordInv, Once, KeptIsRecorded
<1>4. Places' /\ Alone' /\ MemoryCovers' /\ NotTold'
  BY <1>2 DEF Places, Alone, MemoryCovers, ListCovers, NotTold, Untold, Is, Does
<1> QED BY <1>1, <1>3, <1>4 DEF RecordInv

LEMMA NextKeeps ==
  ASSUME RecordInv, [Next]_vars
  PROVE  RecordInv'
<1>1. ASSUME NEW c \in Caller, RollSteps(c) \/ UndoSteps(c) PROVE RecordInv'
  BY <1>1, RollKeeps, UndoKeeps
<1>2. ASSUME NEW c \in Caller, NEW r \in Roll, Begin(c, r) \/ AskUndo(c, r) PROVE RecordInv'
  BY <1>2, BeginKeeps, AskKeeps
<1>3. ASSUME NEW r \in Roll, DeleteRollbackCopies(r) PROVE RecordInv'
  BY <1>3, DeleteKeeps
<1>4. CASE Crash
  BY <1>4, CrashKeeps
<1>5. CASE \/ \E f \in File : ProgramMakes(f)
           \/ UNCHANGED vars
  <2>1. kept' = kept /\ record' = record /\ call' = call /\ before' = before
    BY <1>5 DEF ProgramMakes, vars, past
  <2>2. TypeOK'
    BY NextType DEF RecordInv
  <2>3. Once' /\ Places' /\ Alone'
    BY <2>1 DEF RecordInv, Once, Places, Alone, Does, Is
  <2>4. MemoryCovers' /\ NotTold' /\ KeptIsRecorded'
    BY <2>1 DEF RecordInv, MemoryCovers, ListCovers, Covers, NotTold, Untold, Is, Does, KeptIsRecorded
  <2> QED BY <2>2, <2>3, <2>4 DEF RecordInv
<1> QED BY <1>1, <1>2, <1>3, <1>4, <1>5 DEF Next

LEMMA InitKeeps == Init => RecordInv
<1> SUFFICES ASSUME Init PROVE RecordInv
  OBVIOUS
<1>1. /\ \A c \in Caller : call[c] = Idle
      /\ \A r \in Roll : record[r] = None /\ \A f \in File : kept[r][f] = None
  BY DEF Init, Empty
<1>2. Once /\ KeptIsRecorded
  BY <1>1 DEF Once, KeptIsRecorded
<1>3. Places /\ Alone /\ MemoryCovers /\ NotTold
  BY <1>1 DEF Places, Alone, MemoryCovers, ListCovers, NotTold, Untold, Is, Does
<1> QED BY <1>2, <1>3, InitType DEF RecordInv

\* Whatever moves fail, records are not written, processes end or Undos wait
\* their turn with an old list: a record that has its moves names every file its
\* safety folder holds, so Undo knows them all.
THEOREM MovesAreRecorded == Spec => []KeptIsRecorded
<1>1. Init => RecordInv
  BY InitKeeps
<1>2. RecordInv /\ [Next]_vars => RecordInv'
  BY NextKeeps
<1>3. RecordInv => KeptIsRecorded
  BY DEF RecordInv
<1> QED BY <1>1, <1>2, <1>3, PTL DEF Spec

-----------------------------------------------------------------------------
(* Nothing is lost: the invariant                                          *)
(*                                                                         *)
(* NothingLost says of a step that it destroys no file of which no snapshot *)
(* has the content.  It needs to know where such a file can be: once a roll *)
(* back has moved a file away or restored it, the content no snapshot has   *)
(* is with that roll back or with an older one, until an Undo of one of     *)
(* them has made the roll back late.                                        *)

Waits(c) == Is(c, "asked") \/ Is(c, "queued")
Holds(c) == call[c] # Idle /\ ~Waits(c)
Begun(r) == before[r] # None

\* One call at a time is under way.
OneRuns == \A c, d \in Caller : Holds(c) /\ Holds(d) => c = d

\* The roll backs are in the order in which they began.
InOrder ==
  /\ \A q, r \in Roll : Begun(q) /\ Begun(r) /\ q # r => q \in older[r] \/ r \in older[q]
  /\ \A q, r \in Roll : q \in older[r] => q # r /\ Begun(q) /\ Begun(r)
  /\ \A r \in late : Begun(r)

\* The roll back under way is the newest.
Newest(r) == Begun(r) /\ r \notin late /\ \A q \in Roll : Begun(q) => q = r \/ q \in older[r]
Last(r) == r \notin late /\ \A q \in Roll : r \notin older[q]
RollsAreNewest == \A c \in Caller : Does(c, "roll") => Newest(call[c].roll) /\ Last(call[c].roll)

\* An Undo under way has made the newer ones late, and only against the order its own.
UndoesAreEarly ==
  \A c \in Caller : Is(c, "undoing") =>
    /\ \A r \in Roll : call[c].roll \in older[r] => r \in late
    /\ disorder \/ call[c].roll \notin late

OrderInv == OneRuns /\ InOrder /\ RollsAreNewest /\ UndoesAreEarly

\* The files a record says were made where no file was moved away.
Listed(m) == m.restored \ m.moved

\* What a roll back has in hand: files not yet moved, and one seen to be away.
RollHand(c) ==
  Does(c, "roll") =>
    /\ \A f \in File : call[c].snap[f] # Mine
    /\ call[c].man.restored = {}
    /\ Is(c, "moving") =>
         /\ call[c].extracted = {} /\ call[c].todo \cap call[c].man.moved = {} /\ call[c].at = None
         /\ \A f \in call[c].todo : kept[call[c].roll][f] = None
    /\ Is(c, "restoring") /\ call[c].at # None /\ call[c].at \notin made => live[call[c].at] = None

\* What an Undo has in hand: files of the lists it has read.
UndoHand(c) ==
  Does(c, "undo") =>
    /\ call[c].extracted = {}
    /\ call[c].todo \subseteq Listed(call[c].man) /\ call[c].then \subseteq call[c].man.moved
    /\ call[c].at # None => call[c].at \in call[c].then
    /\ Waits(c) =>
         call[c].todo = Listed(call[c].man) /\ call[c].then = call[c].man.moved /\ call[c].at = None
Hands == \A c \in Caller : RollHand(c) /\ UndoHand(c)

\* A content no snapshot has is, if anywhere, with a roll back older than r (or
\* with one of own).
Away(r, f, own) ==
  r \notin late /\ f \notin made =>
    /\ live[f] # Mine
    /\ \A q \in Roll : kept[q][f] = Mine => q \in older[r] \cup own

\* That of every file in a safety folder, and of every file restored elsewhere.
KeptAway == \A r \in Roll, f \in File : kept[r][f] # None => Away(r, f, {r})
ListedBy(x) == (x.man.restored \cup x.extracted) \ x.man.moved
Claimed(r, f) ==
  \/ record[r] # None /\ f \in Listed(record[r])
  \/ \E c \in Caller : call[c] # Idle /\ call[c].roll = r /\ f \in ListedBy(call[c])
ListAway == \A r \in Roll, f \in File : Claimed(r, f) => Away(r, f, {})

MineInv == RecordInv /\ OrderInv /\ Hands /\ KeptAway /\ ListAway
-----------------------------------------------------------------------------
(* What each step does *)

Others(c) == \A d \in Caller \ {c} : call'[d] = call[d]
Stays(c) ==
  /\ call[c] \in Call /\ call[c] # Idle /\ Others(c)
  /\ call'[c].op = call[c].op /\ call'[c].roll = call[c].roll /\ call'[c].snap = call[c].snap

LEMMA MoveDoes ==
  ASSUME TypeOK, NEW c \in Caller, NEW f \in File, Move(c, f)
  PROVE  /\ Stays(c) /\ Is(c, "moving") /\ call'[c].pc = "moving" /\ record' = record /\ seen' = seen
         /\ f \in call[c].todo /\ call'[c].todo = call[c].todo \ {f}
         /\ call'[c].at = call[c].at /\ call'[c].extracted = call[c].extracted
         /\ call'[c].man.restored = call[c].man.restored
         /\ \/ /\ live[f] # None /\ live'[f] = None /\ kept'[call[c].roll][f] = live[f]
               /\ \A g \in File \ {f} : live'[g] = live[g] /\ kept'[call[c].roll][g] = kept[call[c].roll][g]
               /\ \A q \in Roll \ {call[c].roll} : kept'[q] = kept[q]
               /\ call'[c].man.moved = call[c].man.moved \cup {f}
            \/ live' = live /\ kept' = kept /\ call'[c].man = call[c].man
<1> DEFINE x == call[c]
           p == [x EXCEPT !.todo = @ \ {f}, !.man.moved = @ \cup Noted(x, f),
                          !.then = @ \cup IF x.snap[f] = None THEN {} ELSE {f}]
           q == [x EXCEPT !.todo = @ \ {f}]
<1>1. Is(c, "moving") /\ x # Idle /\ x.pc = "moving" /\ x \in Call /\ x.roll \in Roll /\ f \in x.todo
  BY CallType, ManType DEF Move, Is
<1>2. /\ p.op = x.op /\ p.roll = x.roll /\ p.snap = x.snap /\ p.pc = x.pc /\ p.at = x.at
      /\ p.extracted = x.extracted /\ p.todo = x.todo \ {f}
      /\ p.man.restored = x.man.restored /\ p.man.moved = x.man.moved \cup {f}
  BY <1>1 DEF Call, Manifest, Noted
<1>3. /\ q.op = x.op /\ q.roll = x.roll /\ q.snap = x.snap /\ q.pc = x.pc /\ q.at = x.at
      /\ q.extracted = x.extracted /\ q.todo = x.todo \ {f} /\ q.man = x.man
  BY <1>1 DEF Call
<1>4. \/ /\ live[f] # None /\ kept' = [kept EXCEPT ![x.roll][f] = live[f]]
         /\ live' = [live EXCEPT ![f] = None] /\ Step(c, p)
      \/ Step(c, q) /\ live' = live /\ kept' = kept
  BY DEF Move
<1>5. record' = record /\ seen' = seen
  BY DEF Move
<1> HIDE DEF p, q
<1>6. CASE /\ live[f] # None /\ kept' = [kept EXCEPT ![x.roll][f] = live[f]]
           /\ live' = [live EXCEPT ![f] = None] /\ Step(c, p)
  <2>1. call'[c] = p /\ Others(c)
    BY <1>6, StepIs DEF Others
  <2>2. live \in [File -> Content] /\ kept \in [Roll -> [File -> Content]]
    BY DEF TypeOK, Folder
  <2>3. live'[f] = None /\ \A g \in File \ {f} : live'[g] = live[g]
    BY <1>6, <2>2
  <2>4. /\ kept'[x.roll][f] = live[f]
        /\ \A g \in File \ {f} : kept'[x.roll][g] = kept[x.roll][g]
        /\ \A r \in Roll \ {x.roll} : kept'[r] = kept[r]
    BY <1>1, <1>6, <2>2
  <2> QED BY <1>1, <1>2, <1>5, <1>6, <2>1, <2>3, <2>4 DEF Stays
<1>7. CASE Step(c, q) /\ live' = live /\ kept' = kept
  <2>1. call'[c] = q /\ Others(c)
    BY <1>7, StepIs DEF Others
  <2> QED BY <1>1, <1>3, <1>5, <1>7, <2>1 DEF Stays
<1> QED BY <1>4, <1>6, <1>7

LEMMA EndMovesDoes ==
  ASSUME TypeOK, NEW c \in Caller, EndMoves(c)
  PROVE  /\ Stays(c) /\ Is(c, "moving") /\ call'[c].pc = "restoring" /\ seen' = seen
         /\ live' = live /\ kept' = kept
         /\ call'[c].at = call[c].at /\ call'[c].extracted = call[c].extracted
         /\ call'[c].man.restored = call[c].man.restored
         /\ call'[c].man.moved = call[c].man.moved /\ call'[c].man.status = "restoring"
         /\ record'[call[c].roll] \in {record[call[c].roll], call'[c].man}
         /\ \A q \in Roll \ {call[c].roll} : record'[q] = record[q]
<1> DEFINE x == call[c]
           y == [x EXCEPT !.man.status = "restoring"]
           p == [y EXCEPT !.pc = "restoring", !.todo = y.then, !.then = {}]
           q == [y EXCEPT !.pc = "restoring", !.todo = {}, !.then = {}, !.bad = TRUE]
<1>1. Is(c, "moving") /\ x # Idle /\ x.pc = "moving" /\ x \in Call /\ x.roll \in Roll
  BY CallType, ManType DEF EndMoves, Is
<1>2. /\ y \in Call /\ y.op = x.op /\ y.roll = x.roll /\ y.snap = x.snap /\ y.at = x.at
      /\ y.extracted = x.extracted /\ y.man.status = "restoring"
      /\ y.man.restored = x.man.restored /\ y.man.moved = x.man.moved
  BY <1>1 DEF Call, Manifest, Status
<1>3. (Step(c, p) \/ Step(c, q)) /\ Write(y.roll, y.man) /\ UNCHANGED <<live, kept, seen>>
  BY DEF EndMoves
<1> HIDE DEF y
<1>4. /\ p.op = y.op /\ p.roll = y.roll /\ p.snap = y.snap /\ p.at = y.at /\ p.pc = "restoring"
      /\ p.extracted = y.extracted /\ p.man = y.man
      /\ q.op = y.op /\ q.roll = y.roll /\ q.snap = y.snap /\ q.at = y.at /\ q.pc = "restoring"
      /\ q.extracted = y.extracted /\ q.man = y.man
  BY <1>2 DEF Call
<1> HIDE DEF p, q
<1>5. (call'[c] = p \/ call'[c] = q) /\ Others(c)
  BY <1>3, StepIs DEF Others
<1>6. /\ record'[x.roll] \in {record[x.roll], y.man}
      /\ \A r \in Roll \ {x.roll} : record'[r] = record[r]
  BY <1>1, <1>2, <1>3, WriteIs
<1> QED BY <1>1, <1>2, <1>3, <1>4, <1>5, <1>6 DEF Stays

LEMMA LookDoes ==
  ASSUME TypeOK, NEW c \in Caller, NEW f \in File, Look(c, f)
  PROVE  /\ Stays(c) /\ Is(c, "restoring") /\ call'[c].pc = "restoring" /\ record' = record /\ seen' = seen
         /\ live' = live /\ kept' = kept
         /\ call'[c].man = call[c].man /\ call'[c].extracted = call[c].extracted
         /\ call'[c].at = call[c].at \/ (call'[c].at = f /\ live[f] = None)
<1> DEFINE x == call[c]
           p == [x EXCEPT !.at = f]
           q == [x EXCEPT !.todo = @ \ {f}]
<1>1. Is(c, "restoring") /\ x # Idle /\ x.pc = "restoring" /\ x \in Call
  BY CallType DEF Look, Is
<1>2. /\ p.op = x.op /\ p.roll = x.roll /\ p.snap = x.snap /\ p.pc = x.pc /\ p.at = f
      /\ p.extracted = x.extracted /\ p.man = x.man
      /\ q.op = x.op /\ q.roll = x.roll /\ q.snap = x.snap /\ q.pc = x.pc /\ q.at = x.at
      /\ q.extracted = x.extracted /\ q.man = x.man
  BY <1>1 DEF Call
<1>3. (live[f] = None /\ Step(c, p)) \/ Step(c, q)
  BY DEF Look
<1>4. UNCHANGED <<live, kept, record, seen>>
  BY DEF Look
<1> HIDE DEF p, q
<1>5. ((live[f] = None /\ call'[c] = p) \/ call'[c] = q) /\ Others(c)
  BY <1>3, StepIs DEF Others
<1> QED BY <1>1, <1>2, <1>4, <1>5 DEF Stays

LEMMA ExtractDoes ==
  ASSUME TypeOK, NEW c \in Caller, Extract(c)
  PROVE  /\ Stays(c) /\ Is(c, "restoring") /\ call'[c].pc = "restoring" /\ record' = record /\ seen' = seen
         /\ kept' = kept /\ call'[c].man = call[c].man
         /\ call[c].at \in File /\ call'[c].at = None
         /\ \/ /\ live'[call[c].at] = call[c].snap[call[c].at]
               /\ \A g \in File \ {call[c].at} : live'[g] = live[g]
               /\ call'[c].extracted = call[c].extracted \cup {call[c].at}
            \/ live' = live /\ call'[c].extracted = call[c].extracted
<1> DEFINE x == call[c]
           p == [x EXCEPT !.at = None, !.todo = @ \ {x.at}, !.extracted = @ \cup {x.at}]
           q == [x EXCEPT !.at = None, !.todo = @ \ {x.at}, !.bad = TRUE]
<1>1. /\ Is(c, "restoring") /\ x # Idle /\ x.pc = "restoring" /\ x \in Call /\ x.at # None
      /\ x.at \in File
  BY CallType, ManType DEF Extract, Is
<1>2. /\ p.op = x.op /\ p.roll = x.roll /\ p.snap = x.snap /\ p.pc = x.pc /\ p.at = None
      /\ p.extracted = x.extracted \cup {x.at} /\ p.man = x.man
      /\ q.op = x.op /\ q.roll = x.roll /\ q.snap = x.snap /\ q.pc = x.pc /\ q.at = None
      /\ q.extracted = x.extracted /\ q.man = x.man
  BY <1>1 DEF Call
<1>3. \/ live' = [live EXCEPT ![x.at] = x.snap[x.at]] /\ Step(c, p)
      \/ live' = live /\ Step(c, q)
  BY DEF Extract
<1>4. UNCHANGED <<kept, record, seen>>
  BY DEF Extract
<1> HIDE DEF p, q
<1>5. /\ \/ live' = [live EXCEPT ![x.at] = x.snap[x.at]] /\ call'[c] = p
         \/ live' = live /\ call'[c] = q
      /\ Others(c)
  BY <1>3, StepIs DEF Others
<1>6. CASE live' = [live EXCEPT ![x.at] = x.snap[x.at]] /\ call'[c] = p
  <2>1. live \in [File -> Content]
    BY DEF TypeOK, Folder
  <2>2. live'[x.at] = x.snap[x.at] /\ \A g \in File \ {x.at} : live'[g] = live[g]
    BY <1>1, <1>6, <2>1
  <2> QED BY <1>1, <1>2, <1>4, <1>5, <1>6, <2>2 DEF Stays
<1>7. CASE live' = live /\ call'[c] = q
  BY <1>1, <1>2, <1>4, <1>5, <1>7 DEF Stays
<1> QED BY <1>5, <1>6, <1>7

LEMMA FinishDoes ==
  ASSUME TypeOK, NEW c \in Caller, Finish(c)
  PROVE  /\ call[c] # Idle /\ call[c] \in Call /\ Others(c) /\ call'[c] = Idle
         /\ Is(c, "restoring") /\ seen' = seen /\ live' = live /\ kept' = kept
         /\ \/ record'[call[c].roll] = record[call[c].roll]
            \/ /\ record'[call[c].roll].moved = call[c].man.moved
               /\ \/ record'[call[c].roll].restored = call[c].extracted
                  \/ /\ record'[call[c].roll].restored = call[c].man.restored
                     /\ record'[call[c].roll].status = "failed"
         /\ \A q \in Roll \ {call[c].roll} : record'[q] = record[q]
<1> DEFINE x == call[c]
<1>1. Is(c, "restoring") /\ x # Idle /\ x.pc = "restoring" /\ x \in Call /\ x.roll \in Roll
  BY CallType, ManType DEF Finish, Is
<1> DEFINE v(ok) == [x.man EXCEPT !.status = Ended(ok), !.restored = Reported(x)]
           w == [x.man EXCEPT !.status = Ended(FALSE)]
<1>2. (\E ok \in BOOLEAN : Write(x.roll, v(ok))) \/ Write(x.roll, w)
  BY DEF Finish
<1>3. PICK m :
        /\ Write(x.roll, m) /\ m.moved = x.man.moved
        /\ m.restored = x.extracted \/ (m.restored = x.man.restored /\ m.status = "failed")
  <2>1. ASSUME NEW ok \in BOOLEAN
        PROVE  v(ok).moved = x.man.moved /\ v(ok).restored = x.extracted
    BY <1>1 DEF Call, Manifest, Reported
  <2>2. w.moved = x.man.moved /\ w.restored = x.man.restored /\ w.status = "failed"
    BY <1>1 DEF Call, Manifest, Ended
  <2> HIDE DEF v, w
  <2> QED BY <1>2, <2>1, <2>2
<1>4. (record'[x.roll] = record[x.roll] \/ record'[x.roll] = m)
      /\ \A q \in Roll \ {x.roll} : record'[q] = record[q]
  BY <1>1, <1>3, WriteIs
<1>5. call'[c] = Idle /\ Others(c)
  BY StepIs DEF Finish, Return, Others
<1>6. UNCHANGED <<live, kept, seen>>
  BY DEF Finish
<1> QED BY <1>1, <1>3, <1>4, <1>5, <1>6

LEMMA EnterUndoDoes ==
  ASSUME TypeOK, NEW c \in Caller, EnterUndo(c)
  PROVE  /\ Stays(c) /\ Is(c, "queued") /\ call'[c].pc = "undoing" /\ SlotIsFree
         /\ UNCHANGED <<live, kept, record, made, before, older>>
         /\ call'[c].man = call[c].man /\ call'[c].extracted = call[c].extracted
         /\ call'[c].todo = call[c].todo /\ call'[c].then = call[c].then
         /\ call'[c].at = call[c].at
         /\ late' = late \cup {r \in Roll : call[c].roll \in older[r]}
         /\ disorder' = (disorder \/ call[c].roll \in late)
<1> DEFINE x == call[c]
           p == [x EXCEPT !.pc = "undoing"]
<1>1. Is(c, "queued") /\ x # Idle /\ x.pc = "queued" /\ x \in Call
  BY CallType DEF EnterUndo, Is
<1>2. /\ p.op = x.op /\ p.roll = x.roll /\ p.snap = x.snap /\ p.pc = "undoing" /\ p.at = x.at
      /\ p.extracted = x.extracted /\ p.man = x.man /\ p.todo = x.todo /\ p.then = x.then
  BY <1>1 DEF Call
<1> HIDE DEF p
<1>3. call'[c] = p /\ Others(c)
  BY StepIs DEF EnterUndo, Others, p
<1> QED BY <1>1, <1>2, <1>3 DEF Stays, EnterUndo

LEMMA EnqueueDoes ==
  ASSUME TypeOK, NEW c \in Caller, Enqueue(c)
  PROVE  /\ call[c] # Idle /\ call[c] \in Call /\ Others(c) /\ Is(c, "asked")
         /\ UNCHANGED <<live, kept, record, seen>>
         /\ call'[c] # Idle =>
              /\ Stays(c) /\ call'[c].pc = "queued"
              /\ call'[c].man = call[c].man /\ call'[c].extracted = call[c].extracted
              /\ call'[c].todo = call[c].todo /\ call'[c].then = call[c].then
              /\ call'[c].at = call[c].at
<1> DEFINE x == call[c]
           p == [x EXCEPT !.pc = "queued"]
<1>1. Is(c, "asked") /\ x # Idle /\ x \in Call
  BY CallType DEF Enqueue, Is
<1>2. /\ p.op = x.op /\ p.roll = x.roll /\ p.snap = x.snap /\ p.pc = "queued" /\ p.at = x.at
      /\ p.extracted = x.extracted /\ p.man = x.man /\ p.todo = x.todo /\ p.then = x.then
  BY <1>1 DEF Call
<1> HIDE DEF p
<1>3. Step(c, Idle) \/ Step(c, p)
  BY DEF Enqueue, Return, p
<1>4. (call'[c] = Idle \/ call'[c] = p) /\ Others(c)
  BY <1>3, StepIs DEF Others
<1> QED BY <1>1, <1>2, <1>4 DEF Stays, Enqueue

LEMMA DeleteRestoredDoes ==
  ASSUME TypeOK, NEW c \in Caller, NEW f \in File, DeleteRestored(c, f)
  PROVE  /\ Stays(c) /\ Is(c, "undoing") /\ call'[c].pc = "undoing" /\ record' = record /\ seen' = seen
         /\ kept' = kept /\ f \in call[c].todo
         /\ call'[c].man = call[c].man /\ call'[c].extracted = call[c].extracted
         /\ call'[c].todo = call[c].todo \ {f} /\ call'[c].then = call[c].then
         /\ call'[c].at = call[c].at
         /\ \/ /\ live'[f] = None /\ call'[c].bad = call[c].bad
               /\ \A g \in File \ {f} : live'[g] = live[g]
            \/ live' = live /\ call'[c].bad = TRUE
<1> DEFINE x == call[c]
           p == [x EXCEPT !.todo = @ \ {f}]
           q == [x EXCEPT !.todo = @ \ {f}, !.bad = TRUE]
<1>1. Is(c, "undoing") /\ x # Idle /\ x.pc = "undoing" /\ x \in Call /\ f \in x.todo
  BY CallType DEF DeleteRestored, Is
<1>2. /\ p.op = x.op /\ p.roll = x.roll /\ p.snap = x.snap /\ p.pc = x.pc /\ p.at = x.at
      /\ p.extracted = x.extracted /\ p.man = x.man /\ p.todo = x.todo \ {f}
      /\ p.then = x.then /\ p.bad = x.bad
  BY <1>1 DEF Call
<1>3. /\ q.op = x.op /\ q.roll = x.roll /\ q.snap = x.snap /\ q.pc = x.pc /\ q.at = x.at
      /\ q.extracted = x.extracted /\ q.man = x.man /\ q.todo = x.todo \ {f}
      /\ q.then = x.then /\ q.bad = TRUE
  BY <1>1 DEF Call
<1>4. \/ live' = [live EXCEPT ![f] = None] /\ Step(c, p)
      \/ live' = live /\ Step(c, q)
  BY DEF DeleteRestored
<1>5. UNCHANGED <<kept, record, seen>>
  BY DEF DeleteRestored
<1> HIDE DEF p, q
<1>6. CASE live' = [live EXCEPT ![f] = None] /\ Step(c, p)
  <2>1. call'[c] = p /\ Others(c)
    BY <1>6, StepIs DEF Others
  <2>2. live'[f] = None /\ \A g \in File \ {f} : live'[g] = live[g]
    BY <1>6 DEF TypeOK, Folder
  <2> QED BY <1>1, <1>2, <1>5, <2>1, <2>2 DEF Stays
<1>7. CASE live' = live /\ Step(c, q)
  <2>1. call'[c] = q /\ Others(c)
    BY <1>7, StepIs DEF Others
  <2> QED BY <1>1, <1>3, <1>5, <1>7, <2>1 DEF Stays
<1> QED BY <1>4, <1>6, <1>7

LEMMA ProblemDoes ==
  ASSUME TypeOK, NEW c \in Caller, NEW f \in File, call[c] \in Call, call[c] # Idle, Problem(c, f)
  PROVE  /\ Stays(c) /\ call'[c].pc = call[c].pc
         /\ call'[c].man = call[c].man /\ call'[c].extracted = call[c].extracted
         /\ call'[c].todo = call[c].todo /\ call'[c].then = call[c].then \ {f}
         /\ call'[c].at = None /\ call'[c].bad = TRUE
<1> DEFINE x == call[c]
           q == [x EXCEPT !.then = @ \ {f}, !.at = None, !.bad = TRUE]
<1>1. /\ q.op = x.op /\ q.roll = x.roll /\ q.snap = x.snap /\ q.pc = x.pc /\ q.at = None
      /\ q.extracted = x.extracted /\ q.man = x.man /\ q.todo = x.todo
      /\ q.then = x.then \ {f} /\ q.bad = TRUE
  BY DEF Call
<1>2. call'[c] = q /\ Others(c)
  BY StepIs DEF Problem, Others
<1> HIDE DEF q
<1> QED BY <1>1, <1>2 DEF Stays

LEMMA TakeOutDoes ==
  ASSUME TypeOK, NEW c \in Caller, NEW f \in File, TakeOut(c, f)
  PROVE  /\ Stays(c) /\ Is(c, "undoing") /\ call'[c].pc = "undoing" /\ record' = record /\ seen' = seen
         /\ kept' = kept /\ f \in call[c].then /\ call[c].todo = {} /\ call'[c].todo = {}
         /\ call'[c].man = call[c].man /\ call'[c].extracted = call[c].extracted
         /\ \/ /\ live'[f] = None /\ call'[c].bad = call[c].bad
               /\ \A g \in File \ {f} : live'[g] = live[g]
               /\ kept[call[c].roll][f] # None
               /\ call'[c].then = call[c].then /\ call'[c].at = f
            \/ /\ live' = live /\ call'[c].bad = TRUE
               /\ call'[c].then = call[c].then \ {f} /\ call'[c].at = None
<1> DEFINE x == call[c]
           p == [x EXCEPT !.at = f]
<1>1. /\ Is(c, "undoing") /\ x # Idle /\ x.pc = "undoing" /\ x \in Call
      /\ f \in x.then /\ x.todo = {}
  BY CallType DEF TakeOut, Returning, Is
<1>2. /\ p.op = x.op /\ p.roll = x.roll /\ p.snap = x.snap /\ p.pc = x.pc /\ p.at = f
      /\ p.extracted = x.extracted /\ p.man = x.man /\ p.todo = x.todo
      /\ p.then = x.then /\ p.bad = x.bad
  BY <1>1 DEF Call
<1>3. \/ /\ kept[x.roll][f] # None
         /\ live' = [live EXCEPT ![f] = None] /\ Step(c, p)
      \/ live' = live /\ Problem(c, f)
  BY DEF TakeOut
<1>4. UNCHANGED <<kept, record, seen>>
  BY DEF TakeOut
<1> HIDE DEF p
<1>5. CASE /\ kept[x.roll][f] # None
           /\ live' = [live EXCEPT ![f] = None] /\ Step(c, p)
  <2>1. call'[c] = p /\ Others(c)
    BY <1>5, StepIs DEF Others
  <2>2. live'[f] = None /\ \A g \in File \ {f} : live'[g] = live[g]
    BY <1>5 DEF TypeOK, Folder
  <2> QED BY <1>1, <1>2, <1>4, <1>5, <2>1, <2>2 DEF Stays
<1>6. CASE live' = live /\ Problem(c, f)
  BY <1>1, <1>4, <1>6, ProblemDoes
<1> QED BY <1>3, <1>5, <1>6

LEMMA PutBackDoes ==
  ASSUME TypeOK, NEW c \in Caller, PutBack(c)
  PROVE  /\ Stays(c) /\ Is(c, "undoing") /\ call'[c].pc = "undoing" /\ record' = record /\ seen' = seen
         /\ call[c].at \in File /\ call[c].at # None /\ call'[c].todo = call[c].todo
         /\ call'[c].man = call[c].man /\ call'[c].extracted = call[c].extracted
         /\ call'[c].then = call[c].then \ {call[c].at} /\ call'[c].at = None
         /\ \/ /\ live'[call[c].at] = kept[call[c].roll][call[c].at]
               /\ kept[call[c].roll][call[c].at] # None
               /\ kept'[call[c].roll][call[c].at] = None /\ call'[c].bad = call[c].bad
               /\ \A g \in File \ {call[c].at} :
                    live'[g] = live[g] /\ kept'[call[c].roll][g] = kept[call[c].roll][g]
               /\ \A q \in Roll \ {call[c].roll} : kept'[q] = kept[q]
            \/ live' = live /\ kept' = kept /\ call'[c].bad = TRUE
<1> DEFINE x == call[c]
           p == [x EXCEPT !.then = @ \ {x.at}, !.at = None]
<1>1. /\ Is(c, "undoing") /\ x # Idle /\ x.pc = "undoing" /\ x \in Call /\ x.roll \in Roll
      /\ x.at \in File /\ x.at # None
  BY CallType, ManType DEF PutBack, Is
<1>2. /\ p.op = x.op /\ p.roll = x.roll /\ p.snap = x.snap /\ p.pc = x.pc /\ p.at = None
      /\ p.extracted = x.extracted /\ p.man = x.man /\ p.todo = x.todo
      /\ p.then = x.then \ {x.at} /\ p.bad = x.bad
  BY <1>1 DEF Call
<1>3. \/ /\ kept[x.roll][x.at] # None
         /\ live' = [live EXCEPT ![x.at] = kept[x.roll][x.at]]
         /\ kept' = [kept EXCEPT ![x.roll][x.at] = None]
         /\ Step(c, p)
      \/ live' = live /\ kept' = kept /\ Problem(c, x.at)
  BY DEF PutBack
<1>4. UNCHANGED <<record, seen>>
  BY DEF PutBack
<1> HIDE DEF p
<1>5. CASE /\ kept[x.roll][x.at] # None
           /\ live' = [live EXCEPT ![x.at] = kept[x.roll][x.at]]
           /\ kept' = [kept EXCEPT ![x.roll][x.at] = None]
           /\ Step(c, p)
  <2>1. call'[c] = p /\ Others(c)
    BY <1>5, StepIs DEF Others
  <2>2. live \in [File -> Content] /\ kept \in [Roll -> [File -> Content]]
    BY DEF TypeOK, Folder
  <2>3. /\ live'[x.at] = kept[x.roll][x.at]
        /\ \A g \in File \ {x.at} : live'[g] = live[g]
    BY <1>1, <1>5, <2>2
  <2>4. /\ kept'[x.roll][x.at] = None
        /\ \A g \in File \ {x.at} : kept'[x.roll][g] = kept[x.roll][g]
        /\ \A r \in Roll \ {x.roll} : kept'[r] = kept[r]
    BY <1>1, <1>5, <2>2
  <2> QED BY <1>1, <1>2, <1>4, <1>5, <2>1, <2>3, <2>4 DEF Stays
<1>6. CASE live' = live /\ kept' = kept /\ Problem(c, x.at)
  BY <1>1, <1>4, <1>6, ProblemDoes
<1> QED BY <1>3, <1>5, <1>6

LEMMA EndUndoDoes ==
  ASSUME TypeOK, NEW c \in Caller, EndUndo(c)
  PROVE  /\ call[c] # Idle /\ call[c] \in Call /\ Others(c) /\ call'[c] = Idle
         /\ Is(c, "undoing") /\ seen' = seen /\ live' = live /\ kept' = kept
         /\ \/ record'[call[c].roll] \in {record[call[c].roll], None, call[c].man}
            \/ /\ record'[call[c].roll].moved = call[c].man.moved
               /\ record'[call[c].roll].restored = call[c].man.restored
               /\ record'[call[c].roll].status = "undone"
         /\ \A q \in Roll \ {call[c].roll} : record'[q] = record[q]
<1> DEFINE x == call[c]
           m == [x.man EXCEPT !.status = "undone"]
<1>1. Is(c, "undoing") /\ x # Idle /\ x.pc = "undoing" /\ x \in Call /\ x.roll \in Roll
  BY CallType, ManType DEF EndUndo, Ending, Is
<1>2. m.moved = x.man.moved /\ m.restored = x.man.restored /\ m.status = "undone"
  BY <1>1 DEF Call, Manifest
<1>3. Write(x.roll, x.man) \/ record' = [record EXCEPT ![x.roll] = None] \/ Write(x.roll, m)
  BY DEF EndUndo
<1> HIDE DEF m
<1>4. /\ record'[x.roll] \in {record[x.roll], None, x.man, m}
      /\ \A q \in Roll \ {x.roll} : record'[q] = record[q]
  <2>1. CASE record' = [record EXCEPT ![x.roll] = None]
    BY <1>1, <2>1 DEF TypeOK
  <2>2. CASE Write(x.roll, x.man) \/ Write(x.roll, m)
    BY <1>1, <2>2, WriteIs
  <2> QED BY <1>3, <2>1, <2>2
<1>5. call'[c] = Idle /\ Others(c)
  BY StepIs DEF EndUndo, Return, Others
<1>6. UNCHANGED <<live, kept, seen>>
  BY DEF EndUndo
<1> QED BY <1>1, <1>2, <1>4, <1>5, <1>6

LEMMA BeginDoes ==
  ASSUME TypeOK, NEW c \in Caller, NEW r \in Roll, Begin(c, r)
  PROVE  /\ Others(c) /\ call[c] = Idle /\ SlotIsFree /\ ~Begun(r)
         /\ UNCHANGED <<live, kept, made, late, disorder>>
         /\ call'[c].op = "roll" /\ call'[c].roll = r /\ call'[c].pc = "moving"
         /\ call'[c].man.restored = {} /\ call'[c].man.moved = {} /\ call'[c].extracted = {}
         /\ call'[c].at = None
         /\ \A f \in File : call'[c].snap[f] # Mine
         /\ record'[r].restored = {} /\ record'[r].moved = {} /\ record'[r].status = "moving"
         /\ \A q \in Roll \ {r} : record'[q] = record[q]
         /\ before'[r] = live /\ \A q \in Roll \ {r} : before'[q] = before[q]
         /\ older'[r] = {q \in Roll : Begun(q)} /\ \A q \in Roll \ {r} : older'[q] = older[q]
<1> DEFINE m == [status |-> "moving", moved |-> {}, restored |-> {}]
           y(snap, policy) ==
             [op |-> "roll", roll |-> r, man |-> m, snap |-> snap, pc |-> "moving",
              todo |-> ToMove(policy, snap), then |-> Missing(snap), at |-> None,
              extracted |-> {}, bad |-> FALSE]
<1>1. PICK snap \in [File -> Saved \cup {None}], policy \in Policy :
        record' = [record EXCEPT ![r] = m] /\ Step(c, y(snap, policy))
  BY DEF Begin
<1>2. call'[c] = y(snap, policy) /\ Others(c)
  BY <1>1, StepIs DEF Others
<1>3. \A f \in File : snap[f] # Mine
  BY ContentAssumption
<1>4. record'[r] = m /\ \A q \in Roll \ {r} : record'[q] = record[q]
  BY <1>1 DEF TypeOK
<1>5. before' = [before EXCEPT ![r] = live] /\ older' = [older EXCEPT ![r] = {q \in Roll : Begun(q)}]
  BY DEF Begin, Begun
<1>6. /\ before'[r] = live /\ \A q \in Roll \ {r} : before'[q] = before[q]
      /\ older'[r] = {q \in Roll : Begun(q)} /\ \A q \in Roll \ {r} : older'[q] = older[q]
  BY <1>5 DEF TypeOK
<1>7. call[c] = Idle /\ SlotIsFree /\ ~Begun(r) /\ UNCHANGED <<live, kept, made, late, disorder>>
  BY DEF Begin, Begun
<1> QED BY <1>2, <1>3, <1>4, <1>6, <1>7

LEMMA AskUndoDoes ==
  ASSUME TypeOK, NEW c \in Caller, NEW r \in Roll, AskUndo(c, r)
  PROVE  /\ Others(c) /\ call[c] = Idle /\ UNCHANGED <<live, kept, record, seen>>
         /\ record[r] # None
         /\ call'[c].op = "undo" /\ call'[c].roll = r /\ call'[c].pc = "asked"
         /\ call'[c].man = record[r] /\ call'[c].extracted = {} /\ call'[c].at = None
         /\ call'[c].todo = Listed(record[r]) /\ call'[c].then = record[r].moved
BY StepIs DEF AskUndo, Others, Listed

\* Any step of an Undo: it changes no list, and writes down only its own.
SameLists(m, n) == m.moved = n.moved /\ m.restored = n.restored
LEMMA UndoIs ==
  ASSUME RecordInv, NEW c \in Caller, UndoSteps(c)
  PROVE  /\ call[c] \in Call /\ call[c] # Idle /\ call[c].op = "undo" /\ call[c].roll \in Roll
         /\ Others(c) /\ TypeOK
         /\ call'[c] # Idle =>
              /\ call'[c].op = "undo" /\ call'[c].roll = call[c].roll
              /\ call'[c].man = call[c].man /\ call'[c].extracted = call[c].extracted
         /\ record' = record \/ Is(c, "undoing")
         /\ \A q \in Roll \ {call[c].roll} : record'[q] = record[q]
         /\ \/ record'[call[c].roll] \in {record[call[c].roll], None, call[c].man}
            \/ /\ SameLists(call[c].man, record'[call[c].roll])
               /\ record'[call[c].roll].status = "undone"
<1>1. TypeOK /\ (Waits(c) \/ Is(c, "undoing"))
  BY DEF RecordInv, UndoSteps, Enqueue, EnterUndo, DeleteRestored, TakeOut, Returning, PutBack,
         EndUndo, Ending, Waits
<1>2. call[c] \in Call /\ call[c] # Idle /\ call[c].op = "undo" /\ call[c].roll \in Roll
  BY <1>1, CallType, ManType DEF RecordInv, Places, Waits, Is
<1>3. CASE EndUndo(c)
  BY <1>1, <1>2, <1>3, EndUndoDoes DEF SameLists
<1>4. CASE Enqueue(c)
  BY <1>1, <1>2, <1>4, EnqueueDoes DEF Stays
<1>5. CASE ~EndUndo(c) /\ ~Enqueue(c)
  <2>1. Stays(c) /\ record' = record /\ call'[c].man = call[c].man /\ call'[c].extracted = call[c].extracted
    BY <1>1, <1>5, EnterUndoDoes, DeleteRestoredDoes, TakeOutDoes, PutBackDoes DEF UndoSteps
  <2> QED BY <1>1, <1>2, <2>1 DEF Stays
<1> QED BY <1>3, <1>4, <1>5

-----------------------------------------------------------------------------
(* The order of the roll backs *)

\* What has been seen of the past only grows.
Grows ==
  /\ late \subseteq late' /\ made \subseteq made'
  /\ \A r \in Roll : older[r] \subseteq older'[r] /\ (Begun(r) => before'[r] = before[r])

\* A step of the call under way that sees nothing new.
Proceeds(c) ==
  /\ Others(c) /\ Holds(c) /\ seen' = seen
  /\ call'[c] # Idle =>
       /\ call'[c].op = call[c].op /\ call'[c].roll = call[c].roll
       /\ call'[c].pc = "undoing" => call[c].pc = "undoing"

LEMMA RollProceeds ==
  ASSUME RecordInv, NEW c \in Caller, RollSteps(c)
  PROVE  Proceeds(c) /\ call[c] \in Call /\ Does(c, "roll")
<1>1. TypeOK
  BY DEF RecordInv
<1>2. Is(c, "moving") \/ Is(c, "restoring")
  BY DEF RollSteps, Move, EndMoves, Look, Extract, Finish
<1>3. call[c] \in Call /\ call[c] # Idle /\ call[c].op = "roll" /\ Holds(c)
  BY <1>2, RollIsRoll DEF Is, Holds, Waits
<1>4. CASE Finish(c)
  BY <1>1, <1>3, <1>4, FinishDoes DEF Proceeds, Does
<1>5. CASE ~Finish(c)
  <2>1. Stays(c) /\ call'[c].pc \in RollPlaces /\ seen' = seen
    BY <1>1, <1>5, MoveDoes, EndMovesDoes, LookDoes, ExtractDoes DEF RollSteps, RollPlaces
  <2> QED BY <1>3, <2>1 DEF Proceeds, Stays, RollPlaces, Does
<1> QED BY <1>4, <1>5

LEMMA UndoProceeds ==
  ASSUME RecordInv, NEW c \in Caller, UndoSteps(c), ~Enqueue(c), ~EnterUndo(c)
  PROVE  Proceeds(c) /\ call[c] \in Call /\ Does(c, "undo") /\ Is(c, "undoing")
<1>1. TypeOK
  BY DEF RecordInv
<1>2. Is(c, "undoing")
  BY DEF UndoSteps, DeleteRestored, TakeOut, Returning, PutBack, EndUndo, Ending
<1>3. call[c] \in Call /\ call[c] # Idle /\ call[c].op = "undo" /\ Holds(c)
  BY <1>2, UndoIsUndo DEF Is, Holds, Waits
<1>4. CASE EndUndo(c)
  BY <1>1, <1>2, <1>3, <1>4, EndUndoDoes DEF Proceeds, Does
<1>5. CASE ~EndUndo(c)
  <2>1. Stays(c) /\ seen' = seen
    BY <1>1, <1>5, DeleteRestoredDoes, TakeOutDoes, PutBackDoes DEF UndoSteps
  <2> QED BY <1>2, <1>3, <2>1 DEF Proceeds, Stays, Does, Is
<1> QED BY <1>4, <1>5

LEMMA ProceedsKeepsOrder ==
  ASSUME OrderInv, NEW c \in Caller, Proceeds(c)
  PROVE  Grows /\ OrderInv'
<1>1. UNCHANGED <<late, made, before, older, disorder>>
  BY DEF Proceeds, seen, past
<1>2. \A d \in Caller : Holds(d)' => Holds(d)
  BY DEF Proceeds, Others, Holds, Waits, Is
<1>3. OneRuns'
  BY <1>2 DEF OrderInv, OneRuns
<1>4. \A d \in Caller : call'[d] # Idle =>
        /\ call[d] # Idle /\ call'[d].op = call[d].op /\ call'[d].roll = call[d].roll
        /\ call'[d].pc = "undoing" => call[d].pc = "undoing"
  BY DEF Proceeds, Others, Holds
<1>5. InOrder'
  BY <1>1 DEF OrderInv, InOrder, Begun
<1>6. RollsAreNewest'
  BY <1>1, <1>4 DEF OrderInv, RollsAreNewest, Does, Newest, Last, Begun
<1>7. UndoesAreEarly'
  BY <1>1, <1>4 DEF OrderInv, UndoesAreEarly, Is
<1> QED BY <1>1, <1>3, <1>5, <1>6, <1>7 DEF Grows, OrderInv

\* A step that leaves the past and the calls alone, or ends them.
LEMMA QuietKeepsOrder ==
  ASSUME OrderInv, UNCHANGED past, made \subseteq made', \A d \in Caller : call'[d] \in {call[d], Idle}
  PROVE  Grows /\ OrderInv'
<1>1. UNCHANGED <<late, before, older, disorder>>
  BY DEF past
<1>2. OneRuns'
  BY DEF OrderInv, OneRuns, Holds, Waits, Is
<1>3. InOrder'
  BY <1>1 DEF OrderInv, InOrder, Begun
<1>4. RollsAreNewest'
  BY <1>1 DEF OrderInv, RollsAreNewest, Does, Newest, Last, Begun
<1>5. UndoesAreEarly'
  BY <1>1 DEF OrderInv, UndoesAreEarly, Is
<1> QED BY <1>1, <1>2, <1>3, <1>4, <1>5 DEF Grows, OrderInv

LEMMA EnterKeepsOrder ==
  ASSUME RecordInv, OrderInv, NEW c \in Caller, EnterUndo(c)
  PROVE  Grows /\ OrderInv'
<1> DEFINE x == call[c]
<1>1. /\ Stays(c) /\ Is(c, "queued") /\ call'[c].pc = "undoing" /\ SlotIsFree
      /\ UNCHANGED <<made, before, older>>
      /\ late' = late \cup {r \in Roll : x.roll \in older[r]}
      /\ disorder' = (disorder \/ x.roll \in late)
  BY EnterUndoDoes DEF RecordInv
<1>2. x.roll \in Roll /\ x.op = "undo"
  BY <1>1, UndoIsUndo
<1>3. \A d \in Caller \ {c} : call'[d] = call[d] /\ (call[d] = Idle \/ Waits(d))
  BY <1>1 DEF Stays, Others, SlotIsFree, Waits
<1>4. OneRuns'
  BY <1>3 DEF OneRuns, Holds, Waits, Is
<1>5. InOrder'
  BY <1>1, <1>2 DEF OrderInv, InOrder, Begun
<1>6. RollsAreNewest'
  <2>1. \A d \in Caller \ {c} : ~Does(d, "roll")
    BY <1>3 DEF RecordInv, Places, Does, Waits, Is
  <2>2. call'[c].op = "undo"
    BY <1>1, <1>2 DEF Stays
  <2> QED BY <1>3, <2>1, <2>2 DEF RollsAreNewest, Does
<1>7. UndoesAreEarly'
  <2>1. \A d \in Caller \ {c} : ~Is(d, "undoing")'
    BY <1>3 DEF Waits, Is
  <2>2. call'[c].roll = x.roll /\ x.roll \notin older[x.roll]
    BY <1>1, <1>2 DEF OrderInv, InOrder, Stays
  <2>3. /\ \A r \in Roll : call'[c].roll \in older'[r] => r \in late'
        /\ disorder' \/ call'[c].roll \notin late'
    BY <1>1, <1>2, <2>2
  <2> QED BY <2>1, <2>3 DEF UndoesAreEarly, Is
<1> QED BY <1>1, <1>4, <1>5, <1>6, <1>7 DEF Grows, OrderInv

LEMMA BeginKeepsOrder ==
  ASSUME RecordInv, OrderInv, NEW c \in Caller, NEW r \in Roll, Begin(c, r)
  PROVE  Grows /\ OrderInv'
<1>1. /\ Others(c) /\ call[c] = Idle /\ SlotIsFree /\ ~Begun(r)
      /\ UNCHANGED <<made, late, disorder>>
      /\ call'[c].op = "roll" /\ call'[c].roll = r /\ call'[c].pc = "moving"
      /\ before'[r] = live /\ \A q \in Roll \ {r} : before'[q] = before[q]
  BY BeginDoes DEF RecordInv
<1>2. /\ older'[r] = {q \in Roll : Begun(q)} /\ \A q \in Roll \ {r} : older'[q] = older[q]
  BY BeginDoes DEF RecordInv
<1>3. before'[r] # None
  BY <1>1, NoneAssumption DEF RecordInv, TypeOK
<1>4. \A d \in Caller \ {c} : call'[d] = call[d] /\ (call[d] = Idle \/ Waits(d))
  BY <1>1 DEF Others, SlotIsFree, Waits
<1>5. \A q \in Roll : Begun(q)' <=> (Begun(q) \/ q = r)
  BY <1>1, <1>3 DEF Begun
<1>6. older[r] = {} /\ r \notin late /\ \A q \in Roll : r \notin older[q]
  <2>1. older[r] = {}
    BY <1>1 DEF OrderInv, InOrder, RecordInv, TypeOK
  <2>2. r \notin late
    BY <1>1 DEF OrderInv, InOrder
  <2>3. ASSUME NEW q \in Roll, r \in older[q] PROVE FALSE
    BY <1>1, <2>3 DEF OrderInv, InOrder
  <2> QED BY <2>1, <2>2, <2>3
<1>7. OneRuns'
  BY <1>4 DEF OneRuns, Holds, Waits, Is
<1>8. InOrder'
  <2>1. ASSUME NEW p \in Roll, NEW q \in Roll, Begun(p)', Begun(q)', p # q
        PROVE  p \in older'[q] \/ q \in older'[p]
    <3>1. CASE p # r /\ q # r
      BY <1>2, <1>5, <2>1, <3>1 DEF OrderInv, InOrder
    <3>2. CASE p = r \/ q = r
      BY <1>2, <1>5, <2>1, <3>2
    <3> QED BY <3>1, <3>2
  <2>2. ASSUME NEW p \in Roll, NEW q \in Roll, p \in older'[q]
        PROVE  p # q /\ Begun(p)' /\ Begun(q)'
    <3>1. CASE q # r
      BY <1>2, <1>5, <2>2, <3>1 DEF OrderInv, InOrder
    <3>2. CASE q = r
      BY <1>1, <1>2, <1>5, <2>2, <3>2
    <3> QED BY <3>1, <3>2
  <2>3. \A q \in late' : Begun(q)'
    BY <1>1, <1>5 DEF OrderInv, InOrder, RecordInv, TypeOK
  <2> QED BY <2>1, <2>2, <2>3 DEF InOrder
<1>9. RollsAreNewest'
  <2>1. \A d \in Caller \ {c} : ~Does(d, "roll")'
    BY <1>4 DEF RecordInv, Places, Does, Waits, Is
  <2>2. Newest(r)'
    BY <1>1, <1>2, <1>5, <1>6 DEF Newest
  <2>3. Last(r)'
    BY <1>1, <1>2, <1>6 DEF Last
  <2>4. call'[c].roll = r
    BY <1>1
  <2>5. ASSUME NEW d \in Caller, Does(d, "roll")' PROVE Newest(call[d].roll)' /\ Last(call[d].roll)'
    <3>1. d = c /\ call'[d].roll = r
      BY <2>1, <2>4, <2>5
    <3> QED BY <2>2, <2>3, <3>1 DEF Newest, Last
  <2> QED BY <2>5 DEF RollsAreNewest
<1>10. UndoesAreEarly'
  <2>1. \A d \in Caller \ {c} : ~Is(d, "undoing")'
    BY <1>4 DEF Waits, Is
  <2> QED BY <1>1, <2>1 DEF UndoesAreEarly, Is
<1>11. Grows
  BY <1>1, <1>2, <1>6 DEF Grows
<1> QED BY <1>7, <1>8, <1>9, <1>10, <1>11 DEF OrderInv

\* An Undo that asks or goes into the queue.
LEMMA WaitKeepsOrder ==
  ASSUME OrderInv, NEW c \in Caller, Others(c), seen' = seen,
         call'[c] = Idle \/ (call'[c].op = "undo" /\ call'[c].pc \in {"asked", "queued"})
  PROVE  Grows /\ OrderInv'
<1>1. UNCHANGED <<late, made, before, older, disorder>>
  BY DEF seen, past
<1>2. ~Holds(c)' /\ ~Does(c, "roll")' /\ ~Is(c, "undoing")'
  BY DEF Holds, Waits, Does, Is
<1>3. OneRuns'
  BY <1>2 DEF OrderInv, OneRuns, Holds, Waits, Is, Others
<1>4. InOrder'
  BY <1>1 DEF OrderInv, InOrder, Begun
<1>5. RollsAreNewest'
  BY <1>1, <1>2 DEF OrderInv, RollsAreNewest, Does, Newest, Last, Begun, Others
<1>6. UndoesAreEarly'
  BY <1>1, <1>2 DEF OrderInv, UndoesAreEarly, Is, Others
<1> QED BY <1>1, <1>3, <1>4, <1>5, <1>6 DEF Grows, OrderInv

LEMMA NextKeepsOrder ==
  ASSUME RecordInv, OrderInv, [Next]_vars
  PROVE  Grows /\ OrderInv'
<1>1. ASSUME NEW c \in Caller, RollSteps(c) PROVE Grows /\ OrderInv'
  BY <1>1, RollProceeds, ProceedsKeepsOrder
<1>2. ASSUME NEW c \in Caller, UndoSteps(c) PROVE Grows /\ OrderInv'
  <2>1. CASE Enqueue(c)
    <3>1. Others(c) /\ seen' = seen /\ (call'[c] # Idle => call'[c].op = "undo" /\ call'[c].pc = "queued")
      <4>1. Is(c, "asked") => call[c].op = "undo"
        BY DEF RecordInv, Places, Is
      <4> QED BY <2>1, <4>1, EnqueueDoes DEF RecordInv, Stays
    <3> QED BY <3>1, WaitKeepsOrder
  <2> QED BY <1>2, <2>1, UndoProceeds, ProceedsKeepsOrder, EnterKeepsOrder
<1>3. ASSUME NEW c \in Caller, NEW r \in Roll, Begin(c, r) PROVE Grows /\ OrderInv'
  BY <1>3, BeginKeepsOrder
<1>4. ASSUME NEW c \in Caller, NEW r \in Roll, AskUndo(c, r) PROVE Grows /\ OrderInv'
  <2>1. Others(c) /\ seen' = seen /\ call'[c].op = "undo" /\ call'[c].pc = "asked"
    BY <1>4, AskUndoDoes DEF RecordInv
  <2> QED BY <2>1, WaitKeepsOrder
<1>5. CASE \/ \E r \in Roll : DeleteRollbackCopies(r)
           \/ \E f \in File : ProgramMakes(f)
           \/ Crash
           \/ UNCHANGED vars
  <2>1. UNCHANGED past /\ made \subseteq made' /\ \A d \in Caller : call'[d] \in {call[d], Idle}
    BY <1>5 DEF DeleteRollbackCopies, ProgramMakes, Crash, vars, seen
  <2> QED BY <2>1, QuietKeepsOrder
<1> QED BY <1>1, <1>2, <1>3, <1>4, <1>5 DEF Next

-----------------------------------------------------------------------------
(* What a call has in hand *)

\* A roll back is not disturbed by the other calls, nor an Undo by anything.
LEMMA OthersHands ==
  ASSUME RecordInv, OneRuns, Hands, NEW c \in Caller, Others(c),
         Holds(c) \/ SlotIsFree \/ UNCHANGED <<live, kept, made>>
  PROVE  \A d \in Caller \ {c} : (RollHand(d) /\ UndoHand(d))'
<1> SUFFICES ASSUME NEW d \in Caller \ {c}
             PROVE  (RollHand(d) /\ UndoHand(d))'
  OBVIOUS
<1>1. call'[d] = call[d]
  BY DEF Others
<1>2. UndoHand(d)'
  BY <1>1 DEF Hands, UndoHand, Does, Waits, Is
<1>3. CASE UNCHANGED <<live, kept, made>>
  <2>1. RollHand(d)
    BY DEF Hands
  <2> QED BY <1>1, <1>2, <1>3, <2>1 DEF RollHand, Does, Is
<1>4. CASE Holds(c) \/ SlotIsFree
  <2>1. Does(d, "roll") => Holds(d)
    BY DEF RecordInv, Places, Does, Holds, Waits, Is
  <2>2. Does(d, "roll") => ~SlotIsFree
    BY DEF RecordInv, Places, Does, SlotIsFree, Is
  <2>3. ~Does(d, "roll")
    BY <1>4, <2>1, <2>2 DEF OneRuns
  <2> QED BY <1>1, <1>2, <2>3 DEF RollHand, Does
<1> QED BY <1>2, <1>3, <1>4

LEMMA RollKeepsHands ==
  ASSUME RecordInv, OneRuns, Hands, NEW c \in Caller, RollSteps(c)
  PROVE  Hands'
<1> DEFINE x == call[c]
           y == call'[c]
<1>1. TypeOK /\ Proceeds(c) /\ x \in Call /\ Does(c, "roll") /\ x.roll \in Roll
  BY RollProceeds, ManType DEF RecordInv
<1>2. RollHand(c)
  BY DEF Hands
<1>3. RollHand(c)'
  <2>1. ASSUME NEW f \in File, Move(c, f) PROVE RollHand(c)'
    <3>1. /\ Stays(c) /\ Is(c, "moving") /\ y.pc = "moving" /\ f \in x.todo /\ y.todo = x.todo \ {f}
          /\ y.at = x.at /\ y.extracted = x.extracted /\ y.man.restored = x.man.restored
          /\ \/ /\ \A g \in File \ {f} : kept'[x.roll][g] = kept[x.roll][g]
                /\ y.man.moved = x.man.moved \cup {f}
             \/ kept' = kept /\ y.man = x.man
      BY <1>1, <2>1, MoveDoes
    <3>2. /\ \A g \in File : x.snap[g] # Mine
          /\ x.man.restored = {} /\ x.extracted = {} /\ x.at = None
          /\ x.todo \cap x.man.moved = {} /\ \A g \in x.todo : kept[x.roll][g] = None
      BY <1>1, <1>2, <3>1 DEF RollHand
    <3>3. y.todo \cap y.man.moved = {} /\ \A g \in y.todo : kept'[x.roll][g] = None
      BY <1>1, <3>1, <3>2, ManType
    <3>4. y.roll = x.roll /\ y.snap = x.snap
      BY <3>1 DEF Stays
    <3> HIDE DEF x, y
    <3>5. /\ \A g \in File : y.snap[g] # Mine
          /\ y.man.restored = {} /\ y.extracted = {} /\ y.at = None
          /\ y.todo \cap y.man.moved = {} /\ \A g \in y.todo : kept'[y.roll][g] = None
          /\ y.pc # "restoring"
      BY <3>1, <3>2, <3>3, <3>4
    <3> QED BY <3>5 DEF RollHand, Is, y
  <2>2. CASE EndMoves(c)
    <3>1. /\ Stays(c) /\ Is(c, "moving") /\ y.pc = "restoring" /\ y.at = x.at
          /\ y.man.restored = x.man.restored
      BY <1>1, <2>2, EndMovesDoes
    <3> QED BY <1>1, <1>2, <3>1 DEF RollHand, Stays, Is
  <2>3. ASSUME NEW f \in File, Look(c, f) PROVE RollHand(c)'
    <3>1. /\ Stays(c) /\ Is(c, "restoring") /\ y.pc = "restoring" /\ seen' = seen
          /\ live' = live /\ y.man = x.man
          /\ y.at = x.at \/ (y.at = f /\ live[f] = None)
      BY <1>1, <2>3, LookDoes
    <3> QED BY <1>1, <1>2, <3>1 DEF RollHand, Stays, Is, seen
  <2>4. CASE Extract(c)
    <3>1. /\ Stays(c) /\ y.pc = "restoring" /\ y.man = x.man /\ y.at = None
      BY <1>1, <2>4, ExtractDoes
    <3> QED BY <1>1, <1>2, <3>1 DEF RollHand, Stays, Is
  <2>5. CASE Finish(c)
    BY <1>1, <2>5, FinishDoes DEF RollHand, Does
  <2> QED BY <2>1, <2>2, <2>3, <2>4, <2>5 DEF RollSteps
<1>4. UndoHand(c)'
  BY <1>1 DEF Proceeds, UndoHand, Does
<1>5. \A d \in Caller \ {c} : (RollHand(d) /\ UndoHand(d))'
  BY <1>1, OthersHands DEF Proceeds
<1> QED BY <1>3, <1>4, <1>5 DEF Hands

LEMMA UndoKeepsHands ==
  ASSUME RecordInv, OneRuns, Hands, NEW c \in Caller, UndoSteps(c)
  PROVE  Hands'
<1> DEFINE x == call[c]
           y == call'[c]
<1>1. TypeOK /\ x \in Call /\ Does(c, "undo")
  BY UndoIs DEF Does
<1>2. UndoHand(c)
  BY DEF Hands
<1>3. /\ Others(c) /\ (y # Idle => y.op = "undo")
      /\ Holds(c) \/ SlotIsFree \/ UNCHANGED <<live, kept, made>>
  <2>1. CASE EnterUndo(c)
    BY <1>1, <2>1, EnterUndoDoes DEF Stays, Does
  <2>2. CASE Enqueue(c)
    BY <1>1, <2>2, EnqueueDoes DEF Stays, Does, seen
  <2>3. CASE ~EnterUndo(c) /\ ~Enqueue(c)
    BY <1>1, <2>3, UndoProceeds DEF Proceeds, Does
  <2> QED BY <2>1, <2>2, <2>3
<1>4. UndoHand(c)'
  <2>1. CASE EnterUndo(c)
    <3>1. /\ y.pc = "undoing" /\ y.man = x.man /\ y.extracted = x.extracted
          /\ y.todo = x.todo /\ y.then = x.then /\ y.at = x.at
      BY <1>1, <2>1, EnterUndoDoes
    <3> QED BY <1>1, <1>2, <3>1 DEF UndoHand, Waits, Is
  <2>2. ASSUME NEW f \in File, DeleteRestored(c, f) PROVE UndoHand(c)'
    <3>1. /\ y.pc = "undoing" /\ y.man = x.man /\ y.extracted = x.extracted
          /\ y.todo = x.todo \ {f} /\ y.then = x.then /\ y.at = x.at
      BY <1>1, <2>2, DeleteRestoredDoes
    <3> QED BY <1>1, <1>2, <3>1 DEF UndoHand, Waits, Is
  <2>3. ASSUME NEW f \in File, TakeOut(c, f) PROVE UndoHand(c)'
    <3>1. /\ y.pc = "undoing" /\ y.man = x.man /\ y.extracted = x.extracted
          /\ y.todo = {} /\ f \in x.then
          /\ \/ y.then = x.then /\ y.at = f
             \/ y.then = x.then \ {f} /\ y.at = None
      BY <1>1, <2>3, TakeOutDoes
    <3> QED BY <1>1, <1>2, <3>1 DEF UndoHand, Waits, Is
  <2>4. CASE PutBack(c)
    <3>1. /\ y.pc = "undoing" /\ y.man = x.man /\ y.extracted = x.extracted
          /\ y.todo = x.todo /\ y.then = x.then \ {x.at} /\ y.at = None
      BY <1>1, <2>4, PutBackDoes
    <3> QED BY <1>1, <1>2, <3>1 DEF UndoHand, Waits, Is
  <2>5. CASE EndUndo(c)
    BY <1>1, <2>5, EndUndoDoes DEF UndoHand, Does
  <2>6. CASE Enqueue(c)
    <3>1. /\ Is(c, "asked")
          /\ y # Idle => /\ y.man = x.man /\ y.extracted = x.extracted
                         /\ y.todo = x.todo /\ y.then = x.then /\ y.at = x.at
      BY <1>1, <2>6, EnqueueDoes
    <3> QED BY <1>1, <1>2, <3>1 DEF UndoHand, Does, Waits
  <2> QED BY <2>1, <2>2, <2>3, <2>4, <2>5, <2>6 DEF UndoSteps
<1>5. RollHand(c)'
  BY <1>3 DEF RollHand, Does
<1>6. \A d \in Caller \ {c} : (RollHand(d) /\ UndoHand(d))'
  BY <1>3, OthersHands
<1> QED BY <1>4, <1>5, <1>6 DEF Hands

LEMMA NextKeepsHands ==
  ASSUME RecordInv, OneRuns, Hands, [Next]_vars
  PROVE  Hands'
<1>1. ASSUME NEW c \in Caller, RollSteps(c) \/ UndoSteps(c) PROVE Hands'
  BY <1>1, RollKeepsHands, UndoKeepsHands
<1>2. ASSUME NEW c \in Caller, NEW r \in Roll, Begin(c, r) PROVE Hands'
  <2>1. /\ Others(c) /\ SlotIsFree /\ ~Begun(r) /\ kept' = kept
        /\ call'[c].op = "roll" /\ call'[c].roll = r /\ call'[c].pc = "moving"
        /\ call'[c].man.restored = {} /\ call'[c].man.moved = {} /\ call'[c].extracted = {}
        /\ call'[c].at = None /\ \A f \in File : call'[c].snap[f] # Mine
    BY <1>2, BeginDoes DEF RecordInv
  <2>2. call'[c] # Idle => call'[c].todo \subseteq File
    <3>1. TypeOK'
      BY <1>2, BeginType DEF RecordInv
    <3>2. call'[c] \in Call \cup {Idle}
      BY <3>1 DEF TypeOK
    <3> QED BY <3>2, ManType
  <2>3. \A f \in File : kept[r][f] = None
    BY <2>1 DEF RecordInv, Once, Begun
  <2>4. RollHand(c)'
    BY <2>1, <2>2, <2>3 DEF RollHand, Does, Is
  <2>5. UndoHand(c)'
    BY <2>1 DEF UndoHand, Does
  <2> QED BY <2>1, <2>4, <2>5, OthersHands DEF Hands
<1>3. ASSUME NEW c \in Caller, NEW r \in Roll, AskUndo(c, r) PROVE Hands'
  <2>1. /\ Others(c) /\ UNCHANGED <<live, kept, made>>
        /\ call'[c].op = "undo" /\ call'[c].pc = "asked"
        /\ call'[c].man = record[r] /\ call'[c].extracted = {} /\ call'[c].at = None
        /\ call'[c].todo = Listed(record[r]) /\ call'[c].then = record[r].moved
    BY <1>3, AskUndoDoes DEF RecordInv, seen
  <2>2. UndoHand(c)' /\ RollHand(c)'
    BY <2>1 DEF UndoHand, RollHand, Does, Is, Listed
  <2> QED BY <2>1, <2>2, OthersHands DEF Hands
<1>4. ASSUME NEW r \in Roll, DeleteRollbackCopies(r) PROVE Hands'
  <2>1. /\ call' = call /\ live' = live /\ made' = made
        /\ \A q \in Roll, f \in File : kept'[q][f] = kept[q][f] \/ kept'[q][f] = None
    BY <1>4 DEF DeleteRollbackCopies, RecordInv, TypeOK, Empty, seen
  <2>2. \A d \in Caller : call[d] # Idle => call[d].roll \in Roll /\ call[d].todo \subseteq File
    BY CallType, ManType DEF RecordInv
  <2>3. ASSUME NEW d \in Caller PROVE RollHand(d)' /\ UndoHand(d)'
    BY <2>1, <2>2 DEF Hands, RollHand, UndoHand, Does, Waits, Is
  <2> QED BY <2>3 DEF Hands
<1>5. ASSUME NEW f \in File, ProgramMakes(f) PROVE Hands'
  <2>1. /\ call' = call /\ kept' = kept /\ made' = made \cup {f}
        /\ \A g \in File \ {f} : live'[g] = live[g]
    BY <1>5 DEF ProgramMakes, RecordInv, TypeOK, Folder
  <2>2. \A d \in Caller : call[d] # Idle => call[d].at \in File \cup {None}
    BY CallType, ManType DEF RecordInv
  <2>3. ASSUME NEW d \in Caller PROVE RollHand(d)' /\ UndoHand(d)'
    BY <2>1, <2>2 DEF Hands, RollHand, UndoHand, Does, Waits, Is
  <2> QED BY <2>3 DEF Hands
<1>6. CASE Crash
  BY <1>6 DEF Crash, Hands, RollHand, UndoHand, Does
<1>7. CASE UNCHANGED vars
  BY <1>7 DEF vars, Hands, RollHand, UndoHand, Does, Waits, Is
<1> QED BY <1>1, <1>2, <1>3, <1>4, <1>5, <1>6, <1>7 DEF Next

-----------------------------------------------------------------------------
(* Where a content no snapshot has can be *)

\* It comes to the folders from nowhere, and to a safety folder from the folders.
OnlyMovedAside(f) ==
  /\ live'[f] = Mine => live[f] = Mine
  /\ \A q \in Roll : kept'[q][f] = Mine => kept[q][f] = Mine \/ live[f] = Mine

LEMMA AwayStays ==
  ASSUME Grows, NEW r \in Roll, NEW f \in File, NEW S, Away(r, f, S),
         f \in made' \/ OnlyMovedAside(f)
  PROVE  Away(r, f, S)'
BY DEF Grows, Away, OnlyMovedAside

\* A step after which no more is kept or claimed.
LEMMA AwayWithoutClaims ==
  ASSUME KeptAway, ListAway, Grows,
         \A f \in File \ made' : OnlyMovedAside(f),
         \A r \in Roll, f \in File : kept'[r][f] # None => kept[r][f] # None,
         \A r \in Roll, f \in File : Claimed(r, f)' => Claimed(r, f)
  PROVE  KeptAway' /\ ListAway'
<1>1. KeptAway'
  <2> SUFFICES ASSUME NEW r \in Roll, NEW f \in File, kept'[r][f] # None
               PROVE  Away(r, f, {r})'
    BY DEF KeptAway
  <2>1. Away(r, f, {r})
    BY DEF KeptAway
  <2> QED BY <2>1, AwayStays
<1>2. ListAway'
  <2> SUFFICES ASSUME NEW r \in Roll, NEW f \in File, Claimed(r, f)'
               PROVE  Away(r, f, {})'
    BY DEF ListAway
  <2>1. Away(r, f, {})
    BY DEF ListAway
  <2> QED BY <2>1, AwayStays
<1> QED BY <1>1, <1>2

\* A call that lists no more, and writes down no more than it lists.
LEMMA ClaimsStay ==
  ASSUME NEW c \in Caller, Others(c), call[c] # Idle, call[c].roll \in Roll,
         \A q \in Roll \ {call[c].roll} : record'[q] = record[q],
         record'[call[c].roll] # None =>
           \/ record'[call[c].roll] = record[call[c].roll]
           \/ Listed(record'[call[c].roll]) \subseteq ListedBy(call[c]),
         call'[c] # Idle =>
           call'[c].roll = call[c].roll /\ ListedBy(call'[c]) \subseteq ListedBy(call[c])
  PROVE  \A r \in Roll, f \in File : Claimed(r, f)' => Claimed(r, f)
<1> SUFFICES ASSUME NEW r \in Roll, NEW f \in File, Claimed(r, f)'
             PROVE  Claimed(r, f)
  OBVIOUS
<1>1. CASE record'[r] # None /\ f \in Listed(record'[r])
  <2>1. CASE record'[r] = record[r]
    BY <1>1, <2>1 DEF Claimed
  <2>2. CASE record'[r] # record[r]
    <3>1. r = call[c].roll /\ f \in ListedBy(call[c])
      BY <1>1, <2>2
    <3> QED BY <3>1 DEF Claimed
  <2> QED BY <2>1, <2>2
<1>2. CASE \E d \in Caller : call'[d] # Idle /\ call'[d].roll = r /\ f \in ListedBy(call'[d])
  <2>1. PICK d \in Caller : call'[d] # Idle /\ call'[d].roll = r /\ f \in ListedBy(call'[d])
    BY <1>2
  <2>2. CASE d = c
    BY <2>1, <2>2 DEF Claimed
  <2>3. CASE d # c
    <3>1. call'[d] = call[d]
      BY <2>3 DEF Others
    <3> QED BY <2>1, <3>1 DEF Claimed
  <2> QED BY <2>2, <2>3
<1> QED BY <1>1, <1>2 DEF Claimed, Listed, ListedBy

LEMMA RollKeepsAway ==
  ASSUME MineInv, Grows, NEW c \in Caller, RollSteps(c)
  PROVE  KeptAway' /\ ListAway'
<1> DEFINE x == call[c]
           y == call'[c]
<1>1. TypeOK /\ RecordInv /\ KeptAway /\ ListAway
  BY DEF MineInv, RecordInv
<1>2. /\ Others(c) /\ Does(c, "roll") /\ x \in Call /\ x.roll \in Roll /\ x # Idle
      /\ RollHand(c) /\ Newest(x.roll) /\ Covers(x.man, x.roll) /\ made' = made
  <2>1. Proceeds(c) /\ x \in Call /\ Does(c, "roll") /\ x.roll \in Roll
    BY <1>1, RollProceeds, ManType
  <2>2. Is(c, "moving") \/ Is(c, "restoring")
    BY DEF RollSteps, Move, EndMoves, Look, Extract, Finish
  <2> QED BY <1>1, <2>1, <2>2, RollIsRoll
          DEF MineInv, Hands, OrderInv, RollsAreNewest, Proceeds, Does, seen
<1>3. ASSUME NEW f \in File, Move(c, f) PROVE KeptAway' /\ ListAway'
  <2>1. /\ Stays(c) /\ record' = record
        /\ y.extracted = x.extracted /\ y.man.restored = x.man.restored
        /\ \/ /\ live[f] # None /\ live'[f] = None /\ kept'[x.roll][f] = live[f]
              /\ \A g \in File \ {f} : live'[g] = live[g] /\ kept'[x.roll][g] = kept[x.roll][g]
              /\ \A q \in Roll \ {x.roll} : kept'[q] = kept[q]
              /\ y.man.moved = x.man.moved \cup {f}
           \/ live' = live /\ kept' = kept /\ y.man = x.man
    BY <1>1, <1>3, MoveDoes
  <2>2. \A r \in Roll, g \in File : Claimed(r, g)' => Claimed(r, g)
    <3>1. ListedBy(y) \subseteq ListedBy(x) /\ y.roll = x.roll
      BY <2>1 DEF ListedBy, Stays
    <3> QED BY <1>2, <2>1, <3>1, ClaimsStay
  <2>3. \A g \in File \ made' : OnlyMovedAside(g)
    BY <1>2, <2>1, ContentAssumption DEF OnlyMovedAside
  <2>4. ListAway'
    <3> SUFFICES ASSUME NEW r \in Roll, NEW g \in File, Claimed(r, g)'
                 PROVE  Away(r, g, {})'
      BY DEF ListAway
    <3>1. Away(r, g, {})
      BY <1>1, <2>2 DEF ListAway
    <3> QED BY <2>3, <3>1, AwayStays
  <2>5. KeptAway'
    <3> SUFFICES ASSUME NEW r \in Roll, NEW g \in File, kept'[r][g] # None
                 PROVE  Away(r, g, {r})'
      BY DEF KeptAway
    <3>1. CASE kept[r][g] # None
      <4>1. Away(r, g, {r})
        BY <1>1, <3>1 DEF KeptAway
      <4> QED BY <2>3, <4>1, AwayStays
    <3>2. CASE kept[r][g] = None
      <4>1. r = x.roll /\ g = f /\ live'[f] = None
        BY <1>2, <2>1, <3>2
      <4>2. \A q \in Roll : kept'[q][f] # None => q = x.roll \/ q \in older[x.roll]
        <5>1. \A q \in Roll : kept[q][f] # None => Begun(q)
          BY <1>1 DEF RecordInv, Once, Begun
        <5> QED BY <1>2, <2>1, <5>1 DEF Newest
      <4>3. \A q \in Roll : kept'[q][f] = Mine => q \in older'[r] \cup {r}
        BY <4>1, <4>2, ContentAssumption DEF Grows
      <4> QED BY <4>1, <4>3, ContentAssumption DEF Away
    <3> QED BY <3>1, <3>2
  <2> QED BY <2>4, <2>5
<1>4. CASE EndMoves(c)
  <2>1. /\ Stays(c) /\ live' = live /\ kept' = kept /\ y.extracted = x.extracted
        /\ y.man.restored = x.man.restored /\ y.man.moved = x.man.moved
        /\ record'[x.roll] \in {record[x.roll], y.man}
        /\ \A q \in Roll \ {x.roll} : record'[q] = record[q]
    BY <1>1, <1>4, EndMovesDoes
  <2>2. ListedBy(y) \subseteq ListedBy(x) /\ y.roll = x.roll /\ Listed(y.man) \subseteq ListedBy(x)
    BY <2>1 DEF ListedBy, Listed, Stays
  <2>3. \A r \in Roll, g \in File : Claimed(r, g)' => Claimed(r, g)
    BY <1>2, <2>1, <2>2, ClaimsStay
  <2>4. \A g \in File : OnlyMovedAside(g)
    BY <2>1 DEF OnlyMovedAside
  <2> QED BY <1>1, <2>1, <2>3, <2>4, AwayWithoutClaims
<1>5. ASSUME NEW f \in File, Look(c, f) PROVE KeptAway' /\ ListAway'
  <2>1. /\ Stays(c) /\ live' = live /\ kept' = kept /\ record' = record
        /\ y.extracted = x.extracted /\ y.man = x.man
    BY <1>1, <1>5, LookDoes
  <2>2. ListedBy(y) \subseteq ListedBy(x) /\ y.roll = x.roll
    BY <2>1 DEF ListedBy, Stays
  <2>3. \A r \in Roll, g \in File : Claimed(r, g)' => Claimed(r, g)
    BY <1>2, <2>1, <2>2, ClaimsStay
  <2>4. \A g \in File : OnlyMovedAside(g)
    BY <2>1 DEF OnlyMovedAside
  <2> QED BY <1>1, <2>1, <2>3, <2>4, AwayWithoutClaims
<1>6. CASE Extract(c)
  <2>1. /\ Stays(c) /\ Is(c, "restoring") /\ record' = record /\ kept' = kept /\ y.man = x.man
        /\ x.at \in File /\ x.at # None
        /\ \/ /\ live'[x.at] = x.snap[x.at]
              /\ \A g \in File \ {x.at} : live'[g] = live[g]
              /\ y.extracted = x.extracted \cup {x.at}
           \/ live' = live /\ y.extracted = x.extracted
    BY <1>1, <1>6, ExtractDoes DEF Extract
  <2>2. x.snap[x.at] # Mine /\ (x.at \notin made => live[x.at] = None)
    BY <1>2, <2>1 DEF RollHand
  <2>3. \A g \in File : OnlyMovedAside(g)
    BY <2>1, <2>2 DEF OnlyMovedAside
  <2>4. KeptAway'
    <3> SUFFICES ASSUME NEW r \in Roll, NEW g \in File, kept'[r][g] # None
                 PROVE  Away(r, g, {r})'
      BY DEF KeptAway
    <3>1. Away(r, g, {r})
      BY <1>1, <2>1 DEF KeptAway
    <3> QED BY <2>3, <3>1, AwayStays
  <2>5. ASSUME NEW r \in Roll, NEW g \in File, Claimed(r, g)', ~Claimed(r, g)
        PROVE  r = x.roll /\ g = x.at /\ g \notin x.man.moved
    <3>1. PICK d \in Caller : call'[d] # Idle /\ call'[d].roll = r /\ g \in ListedBy(call'[d])
      BY <2>1, <2>5 DEF Claimed
    <3>2. d = c
      BY <1>2, <2>5, <3>1 DEF Claimed, Others
    <3>3. ListedBy(y) \subseteq ListedBy(x) \cup {x.at} /\ y.roll = x.roll
      BY <2>1 DEF ListedBy, Stays
    <3>4. r = x.roll /\ g \notin ListedBy(x)
      BY <1>2, <2>5, <3>1, <3>2, <3>3 DEF Claimed
    <3> QED BY <2>1, <3>1, <3>2, <3>3, <3>4 DEF ListedBy
  <2>6. ListAway'
    <3> SUFFICES ASSUME NEW r \in Roll, NEW g \in File, Claimed(r, g)'
                 PROVE  Away(r, g, {})'
      BY DEF ListAway
    <3>1. CASE Claimed(r, g)
      <4>1. Away(r, g, {})
        BY <1>1, <3>1 DEF ListAway
      <4> QED BY <2>3, <4>1, AwayStays
    <3>2. CASE ~Claimed(r, g)
      <4>1. r = x.roll /\ g = x.at /\ g \notin x.man.moved
        BY <2>5, <3>2
      <4>2. g \notin made' => live'[g] # Mine
        BY <1>2, <2>1, <2>2, <4>1, ContentAssumption
      <4>3. \A q \in Roll : kept'[q][g] # None => q \in older[r]
        <5>1. \A q \in Roll : kept[q][g] # None => Begun(q)
          BY <1>1 DEF RecordInv, Once, Begun
        <5>2. kept[r][g] = None
          BY <1>2, <4>1 DEF Covers
        <5> QED BY <1>2, <2>1, <4>1, <5>1, <5>2 DEF Newest
      <4>4. \A q \in Roll : kept'[q][g] = Mine => q \in older'[r]
        BY <4>3, ContentAssumption DEF Grows
      <4> QED BY <4>2, <4>4 DEF Away
    <3> QED BY <3>1, <3>2
  <2> QED BY <2>4, <2>6
<1>7. CASE Finish(c)
  <2>1. /\ y = Idle /\ live' = live /\ kept' = kept
        /\ \/ record'[x.roll] = record[x.roll]
           \/ /\ record'[x.roll].moved = x.man.moved
              /\ record'[x.roll].restored = x.extracted \/ record'[x.roll].restored = x.man.restored
        /\ \A q \in Roll \ {x.roll} : record'[q] = record[q]
    BY <1>1, <1>7, FinishDoes
  <2>2. record'[x.roll] = record[x.roll] \/ Listed(record'[x.roll]) \subseteq ListedBy(x)
    BY <2>1 DEF Listed, ListedBy
  <2>3. \A r \in Roll, g \in File : Claimed(r, g)' => Claimed(r, g)
    BY <1>2, <2>1, <2>2, ClaimsStay
  <2>4. \A g \in File : OnlyMovedAside(g)
    BY <2>1 DEF OnlyMovedAside
  <2> QED BY <1>1, <2>1, <2>3, <2>4, AwayWithoutClaims
<1> QED BY <1>3, <1>4, <1>5, <1>6, <1>7 DEF RollSteps

LEMMA UndoKeepsAway ==
  ASSUME MineInv, Grows, NEW c \in Caller, UndoSteps(c)
  PROVE  KeptAway' /\ ListAway'
<1> DEFINE x == call[c]
           y == call'[c]
<1>1. TypeOK /\ RecordInv /\ KeptAway /\ ListAway
  BY DEF MineInv, RecordInv
<1>3. x \in Call /\ x # Idle /\ x.op = "undo" /\ x.roll \in Roll /\ Others(c)
  BY <1>1, UndoIs
\* The step changes no list.
<1>4. CASE ~EndUndo(c)
  <2>1. record' = record
    BY <1>1, <1>4, EnqueueDoes, EnterUndoDoes, DeleteRestoredDoes, TakeOutDoes, PutBackDoes DEF UndoSteps
  <2>2. y # Idle => ListedBy(y) \subseteq ListedBy(x) /\ y.roll = x.roll
    BY <1>1, UndoIs DEF ListedBy
  <2>3. \A r \in Roll, g \in File : Claimed(r, g)' => Claimed(r, g)
    BY <1>3, <2>1, <2>2, ClaimsStay
  <2>4. CASE ~PutBack(c)
    <3>1. kept' = kept /\ \A g \in File : live'[g] \in {live[g], None}
      BY <1>1, <1>4, <2>4, EnqueueDoes, EnterUndoDoes, DeleteRestoredDoes, TakeOutDoes DEF UndoSteps
    <3>2. \A g \in File : OnlyMovedAside(g)
      BY <3>1, ContentAssumption DEF OnlyMovedAside
    <3> QED BY <1>1, <2>3, <3>1, <3>2, AwayWithoutClaims
  <2>5. CASE PutBack(c)
    <3>1. PICK f \in File :
          /\ Is(c, "undoing")
          /\ \/ /\ live'[f] = kept[x.roll][f] /\ kept'[x.roll][f] = None
                /\ \A g \in File \ {f} : live'[g] = live[g] /\ kept'[x.roll][g] = kept[x.roll][g]
                /\ \A q \in Roll \ {x.roll} : kept'[q] = kept[q]
             \/ live' = live /\ kept' = kept
      <4>1. x.at \in File
        BY <1>1, <2>5, PutBackDoes
      <4> QED BY <1>1, <2>5, <4>1, PutBackDoes
    <3>2. \A g \in File \ {f} : OnlyMovedAside(g)
      BY <1>3, <3>1 DEF OnlyMovedAside
    <3>3. \A r \in Roll, g \in File : kept'[r][g] # None => kept[r][g] # None /\ kept'[r][g] = kept[r][g]
      BY <1>3, <3>1
    <3>4. \A r \in Roll : x.roll \in older[r] => r \in late
      BY <3>1 DEF MineInv, OrderInv, UndoesAreEarly
    \* What goes back was with an older roll back than all that are not late.
    <3>5. ASSUME NEW r \in Roll, NEW S, Away(r, f, S),
                 live'[f] = kept[x.roll][f] => x.roll \notin S
          PROVE  Away(r, f, S)'
      <4>1. CASE r \in late \/ f \in made
        BY <4>1 DEF Away, Grows
      <4>2. CASE r \notin late /\ f \notin made
        <5>1. kept[x.roll][f] = Mine => x.roll \in S
          BY <1>3, <3>4, <3>5, <4>2 DEF Away
        <5>2. CASE live'[f] = kept[x.roll][f]
          <6>1. live'[f] # Mine
            BY <3>5, <5>1, <5>2
          <6> QED BY <3>3, <3>5, <4>2, <6>1, ContentAssumption DEF Away, Grows
        <5>3. CASE live' = live
          <6>1. OnlyMovedAside(f)
            BY <3>3, <5>3, ContentAssumption DEF OnlyMovedAside
          <6> QED BY <3>1, <3>5, <6>1, AwayStays
        <5> QED BY <3>1, <5>2, <5>3
      <4> QED BY <4>1, <4>2
    <3>6. ListAway'
      <4> SUFFICES ASSUME NEW r \in Roll, NEW g \in File, Claimed(r, g)'
                   PROVE  Away(r, g, {})'
        BY DEF ListAway
      <4>1. Away(r, g, {})
        BY <1>1, <2>3 DEF ListAway
      <4>2. CASE g = f
        BY <3>5, <4>1, <4>2
      <4>3. CASE g # f
        BY <3>2, <4>1, <4>3, AwayStays
      <4> QED BY <4>2, <4>3
    <3>7. KeptAway'
      <4> SUFFICES ASSUME NEW r \in Roll, NEW g \in File, kept'[r][g] # None
                   PROVE  Away(r, g, {r})'
        BY DEF KeptAway
      <4>1. Away(r, g, {r})
        BY <1>1, <3>3 DEF KeptAway
      <4>2. CASE g = f /\ r # x.roll
        BY <3>5, <4>1, <4>2
      <4>3. CASE g = f /\ r = x.roll
        <5>1. live' = live /\ kept' = kept
          BY <3>1, <4>3
        <5>2. OnlyMovedAside(g)
          BY <5>1 DEF OnlyMovedAside
        <5> QED BY <4>1, <5>2, AwayStays
      <4>4. CASE g # f
        BY <3>2, <4>1, <4>4, AwayStays
      <4> QED BY <4>2, <4>3, <4>4
    <3> QED BY <3>6, <3>7
  <2> QED BY <2>4, <2>5
<1>5. CASE EndUndo(c)
  <2>1. /\ Others(c) /\ y = Idle /\ live' = live /\ kept' = kept
        /\ \/ record'[x.roll] \in {record[x.roll], None, x.man}
           \/ record'[x.roll].moved = x.man.moved /\ record'[x.roll].restored = x.man.restored
        /\ \A q \in Roll \ {x.roll} : record'[q] = record[q]
    BY <1>1, <1>5, EndUndoDoes
  <2>2. record'[x.roll] \in {record[x.roll], None} \/ Listed(record'[x.roll]) \subseteq ListedBy(x)
    BY <2>1 DEF Listed, ListedBy
  <2>3. \A r \in Roll, g \in File : Claimed(r, g)' => Claimed(r, g)
    BY <1>3, <2>1, <2>2, ClaimsStay
  <2>4. \A g \in File : OnlyMovedAside(g)
    BY <2>1 DEF OnlyMovedAside
  <2> QED BY <1>1, <2>1, <2>3, <2>4, AwayWithoutClaims
<1> QED BY <1>4, <1>5

LEMMA NextKeepsAway ==
  ASSUME MineInv, Grows, [Next]_vars
  PROVE  KeptAway' /\ ListAway'
<1>0. TypeOK /\ RecordInv /\ KeptAway /\ ListAway
  BY DEF MineInv, RecordInv
<1>1. ASSUME NEW c \in Caller, RollSteps(c) \/ UndoSteps(c) PROVE KeptAway' /\ ListAway'
  BY <1>1, RollKeepsAway, UndoKeepsAway
<1>2. ASSUME NEW c \in Caller, NEW r \in Roll, Begin(c, r) PROVE KeptAway' /\ ListAway'
  <2>1. /\ Others(c) /\ live' = live /\ kept' = kept
        /\ call'[c].man.restored = {} /\ call'[c].extracted = {} /\ record'[r].restored = {}
        /\ \A q \in Roll \ {r} : record'[q] = record[q]
    BY <1>0, <1>2, BeginDoes
  <2>2. \A q \in Roll, g \in File : Claimed(q, g)' => Claimed(q, g)
    <3> SUFFICES ASSUME NEW q \in Roll, NEW g \in File, Claimed(q, g)'
                 PROVE  Claimed(q, g)
      OBVIOUS
    <3>1. CASE record'[q] # None /\ g \in Listed(record'[q])
      BY <2>1, <3>1 DEF Claimed, Listed
    <3>2. CASE \E d \in Caller : call'[d] # Idle /\ call'[d].roll = q /\ g \in ListedBy(call'[d])
      <4>1. PICK d \in Caller : call'[d] # Idle /\ call'[d].roll = q /\ g \in ListedBy(call'[d])
        BY <3>2
      <4>2. d # c
        BY <2>1, <4>1 DEF ListedBy
      <4> QED BY <2>1, <4>1, <4>2 DEF Others, Claimed
    <3> QED BY <3>1, <3>2 DEF Claimed, Listed, ListedBy
  <2>3. \A g \in File : OnlyMovedAside(g)
    BY <2>1 DEF OnlyMovedAside
  <2> QED BY <1>0, <2>1, <2>2, <2>3, AwayWithoutClaims
<1>3. ASSUME NEW c \in Caller, NEW r \in Roll, AskUndo(c, r) PROVE KeptAway' /\ ListAway'
  <2>1. /\ Others(c) /\ live' = live /\ kept' = kept /\ record' = record /\ record[r] # None
        /\ call'[c].roll = r /\ call'[c].man = record[r] /\ call'[c].extracted = {}
    BY <1>0, <1>3, AskUndoDoes
  <2>2. \A q \in Roll, g \in File : Claimed(q, g)' => Claimed(q, g)
    <3> SUFFICES ASSUME NEW q \in Roll, NEW g \in File, Claimed(q, g)'
                 PROVE  Claimed(q, g)
      OBVIOUS
    <3>1. CASE record'[q] # None /\ g \in Listed(record'[q])
      BY <2>1, <3>1 DEF Claimed
    <3>2. CASE \E d \in Caller : call'[d] # Idle /\ call'[d].roll = q /\ g \in ListedBy(call'[d])
      <4>1. PICK d \in Caller : call'[d] # Idle /\ call'[d].roll = q /\ g \in ListedBy(call'[d])
        BY <3>2
      <4>2. CASE d # c
        BY <2>1, <4>1, <4>2 DEF Others, Claimed
      <4>3. CASE d = c
        BY <2>1, <4>1, <4>3 DEF Claimed, Listed, ListedBy
      <4> QED BY <4>2, <4>3
    <3> QED BY <3>1, <3>2 DEF Claimed, Listed, ListedBy
  <2>3. \A g \in File : OnlyMovedAside(g)
    BY <2>1 DEF OnlyMovedAside
  <2> QED BY <1>0, <2>1, <2>2, <2>3, AwayWithoutClaims
<1>4. ASSUME NEW r \in Roll, DeleteRollbackCopies(r) PROVE KeptAway' /\ ListAway'
  <2>1. /\ call' = call /\ live' = live
        /\ \A q \in Roll : record'[q] = record[q] \/ record'[q] = None
        /\ \A q \in Roll, f \in File : kept'[q][f] = kept[q][f] \/ kept'[q][f] = None
    BY <1>0, <1>4 DEF DeleteRollbackCopies, TypeOK, Empty
  <2>2. \A q \in Roll, g \in File : Claimed(q, g)' => Claimed(q, g)
    BY <2>1 DEF Claimed, Listed, ListedBy
  <2>3. \A g \in File : OnlyMovedAside(g)
    BY <2>1, ContentAssumption DEF OnlyMovedAside
  <2> QED BY <1>0, <2>1, <2>2, <2>3, AwayWithoutClaims
<1>5. CASE \/ \E f \in File : ProgramMakes(f)
           \/ Crash
           \/ UNCHANGED vars
  <2>1. /\ kept' = kept /\ record' = record
        /\ \A d \in Caller : call'[d] \in {call[d], Idle}
        /\ \A g \in File \ made' : live'[g] = live[g]
    BY <1>0, <1>5 DEF ProgramMakes, Crash, vars, TypeOK, Folder
  <2>2. \A q \in Roll, g \in File : Claimed(q, g)' => Claimed(q, g)
    BY <2>1 DEF Claimed, Listed, ListedBy
  <2>3. \A g \in File \ made' : OnlyMovedAside(g)
    BY <2>1 DEF OnlyMovedAside
  <2> QED BY <1>0, <2>1, <2>2, <2>3, AwayWithoutClaims
<1> QED BY <1>1, <1>2, <1>3, <1>4, <1>5 DEF Next
-----------------------------------------------------------------------------
(* No step loses a file *)

LEMMA MineInit == Init => MineInv
<1> SUFFICES ASSUME Init PROVE MineInv
  OBVIOUS
<1>1. RecordInv
  BY InitKeeps
<1>2. /\ \A c \in Caller : call[c] = Idle
      /\ \A r \in Roll : ~Begun(r) /\ record[r] = None /\ older[r] = {}
      /\ \A r \in Roll, f \in File : kept[r][f] = None
      /\ late = {}
  BY DEF Init, Empty, Begun
<1>3. OneRuns /\ RollsAreNewest /\ UndoesAreEarly /\ Hands
  BY <1>2 DEF OneRuns, RollsAreNewest, UndoesAreEarly, Hands, RollHand, UndoHand, Holds, Does, Is
<1>4. InOrder
  BY <1>2 DEF InOrder
<1>5. KeptAway /\ ListAway
  BY <1>2 DEF KeptAway, ListAway, Claimed
<1> QED BY <1>1, <1>3, <1>4, <1>5 DEF MineInv, OrderInv

LEMMA MineNext ==
  ASSUME MineInv, [Next]_vars
  PROVE  MineInv'
<1>1. RecordInv /\ OrderInv /\ OneRuns /\ Hands
  BY DEF MineInv, OrderInv
<1>2. RecordInv'
  BY <1>1, NextKeeps
<1>3. Grows /\ OrderInv'
  BY <1>1, NextKeepsOrder
<1>4. Hands'
  BY <1>1, NextKeepsHands
<1>5. KeptAway' /\ ListAway'
  BY <1>3, NextKeepsAway
<1> QED BY <1>2, <1>3, <1>4, <1>5 DEF MineInv

\* A file that is nobody's but in the place a step destroys is not mine.
LEMMA StepLosesNothing ==
  ASSUME MineInv, [Next]_vars, ~disorder, NEW f \in File \ made
  PROVE  ~Loses(f)
<1>0. TypeOK /\ RecordInv
  BY DEF MineInv, RecordInv
<1> SUFFICES ASSUME HasMine(f), \A r \in Roll : ~DeleteRollbackCopies(r)
             PROVE  HasMine(f)'
  BY DEF Loses
<1>1. CASE live'[f] = live[f] /\ \A q \in Roll : kept'[q][f] = kept[q][f]
  BY <1>1 DEF HasMine
<1>2. ASSUME NEW c \in Caller, NEW g \in File, Move(c, g) PROVE HasMine(f)'
  <2> DEFINE x == call[c]
  <2>1. /\ x \in Call /\ Is(c, "moving") /\ g \in x.todo
        /\ \/ /\ kept'[x.roll][g] = live[g]
              /\ \A h \in File \ {g} : live'[h] = live[h] /\ kept'[x.roll][h] = kept[x.roll][h]
              /\ \A q \in Roll \ {x.roll} : kept'[q] = kept[q]
           \/ live' = live /\ kept' = kept
    BY <1>0, <1>2, MoveDoes DEF Stays
  <2>2. x.roll \in Roll /\ kept[x.roll][g] = None
    BY <1>0, <2>1, RollIsRoll DEF MineInv, Hands, RollHand, Does, Is
  <2>3. CASE f # g \/ (live' = live /\ kept' = kept)
    BY <1>1, <2>1, <2>2, <2>3
  <2>4. CASE f = g /\ kept'[x.roll][g] = live[g] /\ \A q \in Roll \ {x.roll} : kept'[q] = kept[q]
    BY <2>2, <2>4, ContentAssumption DEF HasMine
  <2> QED BY <2>1, <2>3, <2>4
<1>3. ASSUME NEW c \in Caller, Extract(c) PROVE HasMine(f)'
  <2> DEFINE x == call[c]
  <2>1. /\ x \in Call /\ Is(c, "restoring") /\ x.at # None /\ x.at \in File /\ kept' = kept
        /\ \/ \A g \in File \ {x.at} : live'[g] = live[g]
           \/ live' = live
    BY <1>0, <1>3, ExtractDoes DEF Stays, Extract
  <2>2. CASE f = x.at
    <3>1. live[f] = None
      BY <1>0, <2>1, <2>2, RollIsRoll DEF MineInv, Hands, RollHand, Does
    <3> QED BY <2>1, <3>1, ContentAssumption DEF HasMine
  <2>3. CASE f # x.at
    BY <1>1, <2>1, <2>3
  <2> QED BY <2>2, <2>3
<1>4. ASSUME NEW c \in Caller, NEW g \in File, DeleteRestored(c, g) PROVE HasMine(f)'
  <2> DEFINE x == call[c]
  <2>1. /\ x \in Call /\ x # Idle /\ Is(c, "undoing") /\ g \in x.todo /\ kept' = kept
        /\ \A h \in File \ {g} : live'[h] = live[h]
    BY <1>0, <1>4, DeleteRestoredDoes DEF Stays
  <2>2. CASE f = g
    <3>1. x.roll \in Roll /\ x.roll \notin late /\ g \in Listed(x.man)
      BY <1>0, <2>1, UndoIsUndo DEF MineInv, Hands, UndoHand, Does, OrderInv, UndoesAreEarly
    <3>2. Claimed(x.roll, g)
      BY <2>1, <3>1 DEF Claimed, Listed, ListedBy
    <3>3. live[f] # Mine
      BY <2>2, <3>1, <3>2 DEF MineInv, ListAway, Away
    <3> QED BY <2>1, <3>3 DEF HasMine
  <2>3. CASE f # g
    BY <1>1, <2>1, <2>3
  <2> QED BY <2>2, <2>3
<1>5. ASSUME NEW c \in Caller, NEW g \in File, TakeOut(c, g) PROVE HasMine(f)'
  <2> DEFINE x == call[c]
  <2>1. /\ Is(c, "undoing") /\ kept' = kept
        /\ \/ kept[x.roll][g] # None /\ \A h \in File \ {g} : live'[h] = live[h]
           \/ live' = live
    BY <1>0, <1>5, TakeOutDoes
  <2>2. CASE f = g /\ kept[x.roll][g] # None
    <3>1. x.roll \in Roll /\ x.roll \notin late
      BY <1>0, <2>1, UndoIsUndo DEF MineInv, OrderInv, UndoesAreEarly
    <3>2. live[f] # Mine
      BY <2>2, <3>1 DEF MineInv, KeptAway, Away
    <3> QED BY <2>1, <3>2 DEF HasMine
  <2>3. CASE f # g \/ live' = live
    BY <1>1, <2>1, <2>3
  <2> QED BY <2>1, <2>2, <2>3
<1>6. ASSUME NEW c \in Caller, PutBack(c) PROVE HasMine(f)'
  <2> DEFINE x == call[c]
             g == x.at
  <2>1. /\ Is(c, "undoing") /\ g \in File
        /\ \/ /\ live'[g] = kept[x.roll][g] /\ kept[x.roll][g] # None
              /\ \A h \in File \ {g} : live'[h] = live[h] /\ kept'[x.roll][h] = kept[x.roll][h]
              /\ \A q \in Roll \ {x.roll} : kept'[q] = kept[q]
           \/ live' = live /\ kept' = kept
    BY <1>0, <1>6, PutBackDoes
  <2> HIDE DEF g
  <2>2. x.roll \in Roll /\ x.roll \notin late
    BY <1>0, <2>1, UndoIsUndo DEF MineInv, OrderInv, UndoesAreEarly
  <2>3. CASE f = g /\ live'[g] = kept[x.roll][g] /\ kept[x.roll][g] # None
             /\ \A q \in Roll \ {x.roll} : kept'[q] = kept[q]
    <3>1. live[f] # Mine
      BY <2>2, <2>3 DEF MineInv, KeptAway, Away
    <3> QED BY <2>2, <2>3, <3>1 DEF HasMine
  <2>4. CASE f # g \/ (live' = live /\ kept' = kept)
    BY <1>1, <2>1, <2>2, <2>4
  <2> QED BY <2>1, <2>3, <2>4
<1>7. ASSUME NEW g \in File, ProgramMakes(g) PROVE HasMine(f)'
  <2>1. kept' = kept /\ live[g] = None /\ \A h \in File \ {g} : live'[h] = live[h]
    BY <1>0, <1>7 DEF ProgramMakes, TypeOK, Folder
  <2> QED BY <2>1, ContentAssumption DEF HasMine
<1>8. ASSUME NEW c \in Caller,
             EndMoves(c) \/ Finish(c) \/ Enqueue(c) \/ EnterUndo(c) \/ EndUndo(c) \/ \E g \in File : Look(c, g)
      PROVE  HasMine(f)'
  <2>1. live' = live /\ kept' = kept
    BY <1>8 DEF EndMoves, Finish, Enqueue, EnterUndo, EndUndo, Look
  <2> QED BY <1>1, <2>1
<1>9. CASE \/ \E c \in Caller, r \in Roll : Begin(c, r) \/ AskUndo(c, r)
           \/ Crash \/ UNCHANGED vars
  <2>1. live' = live /\ kept' = kept
    BY <1>9 DEF Begin, AskUndo, Crash, vars
  <2> QED BY <1>1, <2>1
<1> QED BY <1>2, <1>3, <1>4, <1>5, <1>6, <1>7, <1>8, <1>9 DEF Next, RollSteps, UndoSteps

\* Whatever moves, restores or Undos fail, end early or are retried, and however
\* often the process ends: no step but Delete kept versions destroys the last copy
\* of a file that no snapshot has, while roll backs are undone from the newest on.
THEOREM RollBacksLoseNothing == Spec => NothingLost
<1>1. Init => MineInv
  BY MineInit
<1>2. MineInv /\ [Next]_vars => MineInv'
  BY MineNext
<1>3. MineInv /\ [Next]_vars => [~disorder => \A f \in File \ made : ~Loses(f)]_vars
  BY StepLosesNothing
<1> QED BY <1>1, <1>2, <1>3, PTL DEF Spec, NothingLost

-----------------------------------------------------------------------------
(* Undo puts back: the invariant                                           *)
(*                                                                         *)
(* UndoPutsBack is about the last state of an Undo.  It rests on what the   *)
(* lists of a roll back that has succeeded say of every file while no roll  *)
(* back has followed it: one moved away is in the safety folder as it was,  *)
(* one made was not there, and all others are as they were.                 *)

\* A roll back that is under way is not recorded as done, nor read as done.
NotDone ==
  \A c \in Caller : Does(c, "roll") =>
    /\ record[call[c].roll] # None => record[call[c].roll].status # "done"
    /\ \A d \in Caller :
         Does(d, "undo") /\ call[d].roll = call[c].roll => call[d].man.status # "done"

\* What a roll back has moved and restored, in its call or in a record as done.
Outcome(r, moved, restored) ==
  \/ /\ record[r] # None /\ record[r].status = "done"
     /\ moved = record[r].moved /\ restored = record[r].restored
  \/ \E c \in Caller : /\ Does(c, "roll") /\ call[c].roll = r
                       /\ moved = call[c].man.moved /\ restored = call[c].extracted
  \/ \E c \in Caller : /\ Does(c, "undo") /\ call[c].roll = r /\ call[c].man.status = "done"
                       /\ moved = call[c].man.moved /\ restored = call[c].man.restored

\* Its record, and what Undos have read of it, may be old, but name nothing else.
Within(m, moved, restored) == m.moved \subseteq moved /\ m.restored \subseteq restored
NamesNoMore(r, moved, restored) ==
  /\ record[r] # None => Within(record[r], moved, restored)
  /\ \A c \in Caller :
       Does(c, "undo") /\ call[c].roll = r => Within(call[c].man, moved, restored)
NothingElse ==
  \A r \in Roll, moved, restored \in SUBSET File :
    Outcome(r, moved, restored) => NamesNoMore(r, moved, restored)

AsBefore(r, moved, restored) ==
  Last(r) =>
    \A f \in File \ made :
      /\ f \in moved => kept[r][f] \in {None, before[r][f]}
      /\ f \in restored \ moved => before[r][f] = None
      /\ f \notin moved \cup restored => live[f] = before[r][f]
OutcomesAsBefore ==
  \A r \in Roll, moved, restored \in SUBSET File :
    Outcome(r, moved, restored) => AsBefore(r, moved, restored)

\* An Undo without problems has put back the files it is no longer about to.
HalfUndone(c) ==
  Is(c, "undoing") /\ call[c].man.status = "done" /\ ~call[c].bad /\ Last(call[c].roll) =>
    \A f \in File \ made :
      /\ f \in call[c].man.moved \ call[c].then => live[f] = before[call[c].roll][f]
      /\ f \in Listed(call[c].man) \ call[c].todo => live[f] = None

ListsInv == NotDone /\ NothingElse
BackInv == MineInv /\ ListsInv /\ OutcomesAsBefore /\ \A c \in Caller : HalfUndone(c)
-----------------------------------------------------------------------------
(* What a roll back has done *)

LEMMA NotTheSameRoll ==
  ASSUME RecordInv, NEW c \in Caller, NEW d \in Caller, Does(c, "roll"), call[d] # Idle, c # d,
         ~Is(d, "asked")
  PROVE  call[c].roll # call[d].roll
BY DEF RecordInv, Alone

LEMMA OutcomeBegun ==
  ASSUME RecordInv, NEW r \in Roll, NEW M, NEW E, Outcome(r, M, E)
  PROVE  Begun(r)
BY DEF RecordInv, Once, Begun, Outcome, Does

\* The outcomes after a step of a roll back are those of the others, and its own.
LEMMA RollOutcomes ==
  ASSUME RecordInv, NotDone, NEW c \in Caller, Does(c, "roll"), Others(c),
         call'[c] # Idle => call'[c].op = "roll" /\ call'[c].roll = call[c].roll,
         \A q \in Roll \ {call[c].roll} : record'[q] = record[q],
         NEW r \in Roll, NEW M, NEW E, Outcome(r, M, E)'
  PROVE  \/ r # call[c].roll /\ Outcome(r, M, E)
         \/ /\ r = call[c].roll /\ record'[r] # None /\ record'[r].status = "done"
            /\ M = record'[r].moved /\ E = record'[r].restored
         \/ /\ r = call[c].roll /\ call'[c] # Idle
            /\ M = call'[c].man.moved /\ E = call'[c].extracted
<1>1. \A d \in Caller \ {c} : call'[d] = call[d]
  BY DEF Others
<1>2. \A d \in Caller \ {c} : Does(d, "roll") => call[d].roll # call[c].roll
  <2>1. \A d \in Caller : Does(d, "roll") => ~Is(d, "asked") /\ call[d] # Idle
    BY DEF RecordInv, Places, Does, Is
  <2> QED BY <2>1, NotTheSameRoll
<1>3. \A d \in Caller : Does(d, "undo")' => call'[d] = call[d] /\ Does(d, "undo")
  BY <1>1 DEF Does
<1>4. CASE record'[r] # None /\ record'[r].status = "done" /\ M = record'[r].moved /\ E = record'[r].restored
  BY <1>4 DEF Outcome
<1>5. CASE \E d \in Caller : /\ Does(d, "roll")' /\ call'[d].roll = r
                             /\ M = call'[d].man.moved /\ E = call'[d].extracted
  <2>1. PICK d \in Caller : /\ Does(d, "roll")' /\ call'[d].roll = r
                            /\ M = call'[d].man.moved /\ E = call'[d].extracted
    BY <1>5
  <2>2. CASE d = c
    BY <2>1, <2>2 DEF Does
  <2>3. CASE d # c
    BY <1>1, <1>2, <2>1, <2>3 DEF Outcome, Does
  <2> QED BY <2>2, <2>3
<1>6. CASE \E d \in Caller : /\ Does(d, "undo")' /\ call'[d].roll = r /\ call'[d].man.status = "done"
                             /\ M = call'[d].man.moved /\ E = call'[d].man.restored
  BY <1>3, <1>6 DEF Outcome, NotDone
<1> QED BY <1>4, <1>5, <1>6 DEF Outcome

\* The outcomes after a step of an Undo were there before.
LEMMA UndoOutcomes ==
  ASSUME RecordInv, NEW c \in Caller, UndoSteps(c),
         NEW r \in Roll, NEW M, NEW E, Outcome(r, M, E)'
  PROVE  Outcome(r, M, E)
<1> DEFINE x == call[c]
           y == call'[c]
<1>1. /\ x # Idle /\ x.op = "undo" /\ Others(c)
      /\ y # Idle => y.op = "undo" /\ y.roll = x.roll /\ y.man = x.man
      /\ \A q \in Roll \ {x.roll} : record'[q] = record[q]
      /\ record'[x.roll] \in {record[x.roll], None, x.man} \/ record'[x.roll].status = "undone"
  BY UndoIs
<1>2. CASE record'[r] # None /\ record'[r].status = "done" /\ M = record'[r].moved /\ E = record'[r].restored
  <2>1. CASE record'[r] = record[r]
    BY <1>2, <2>1 DEF Outcome
  <2>2. CASE record'[r] # record[r]
    <3>1. r = x.roll /\ record'[r] = x.man
      BY <1>1, <1>2, <2>2
    <3> QED BY <1>1, <1>2, <3>1 DEF Outcome, Does
  <2> QED BY <2>1, <2>2
<1>3. \A d \in Caller : call'[d] # Idle =>
        call[d] # Idle /\ call'[d].op = call[d].op /\ call'[d].roll = call[d].roll
        /\ (call[d].op = "undo" => call'[d].man = call[d].man)
        /\ (call[d].op = "roll" => call'[d] = call[d])
  BY <1>1 DEF Others
<1>4. CASE \E d \in Caller : /\ Does(d, "roll")' /\ call'[d].roll = r
                             /\ M = call'[d].man.moved /\ E = call'[d].extracted
  BY <1>3, <1>4 DEF Outcome, Does
<1>5. CASE \E d \in Caller : /\ Does(d, "undo")' /\ call'[d].roll = r /\ call'[d].man.status = "done"
                             /\ M = call'[d].man.moved /\ E = call'[d].man.restored
  BY <1>3, <1>5 DEF Outcome, Does
<1> QED BY <1>2, <1>4, <1>5 DEF Outcome

\* A roll back that begins has moved and restored nothing.
LEMMA BeginOutcomes ==
  ASSUME RecordInv, NEW c \in Caller, NEW p \in Roll, Begin(c, p),
         NEW r \in Roll, NEW M, NEW E, Outcome(r, M, E)'
  PROVE  Outcome(r, M, E) \/ (r = p /\ M = {} /\ E = {})
<1>1. /\ Others(c) /\ call'[c].op = "roll" /\ call'[c].roll = p
      /\ call'[c].man.moved = {} /\ call'[c].extracted = {}
      /\ record'[p].status = "moving" /\ \A q \in Roll \ {p} : record'[q] = record[q]
  BY BeginDoes DEF RecordInv
<1>2. CASE record'[r] # None /\ record'[r].status = "done" /\ M = record'[r].moved /\ E = record'[r].restored
  BY <1>1, <1>2 DEF Outcome
<1>3. CASE \E d \in Caller : /\ Does(d, "roll")' /\ call'[d].roll = r
                             /\ M = call'[d].man.moved /\ E = call'[d].extracted
  BY <1>1, <1>3 DEF Outcome, Does, Others
<1>4. CASE \E d \in Caller : /\ Does(d, "undo")' /\ call'[d].roll = r /\ call'[d].man.status = "done"
                             /\ M = call'[d].man.moved /\ E = call'[d].man.restored
  BY <1>1, <1>4 DEF Outcome, Does, Others
<1> QED BY <1>2, <1>3, <1>4 DEF Outcome

\* An Undo that asks has read no outcome that the record does not have.
LEMMA AskOutcomes ==
  ASSUME RecordInv, NEW c \in Caller, NEW p \in Roll, AskUndo(c, p),
         NEW r \in Roll, NEW M, NEW E, Outcome(r, M, E)'
  PROVE  Outcome(r, M, E)
<1>1. /\ Others(c) /\ record' = record /\ record[p] # None
      /\ call'[c].op = "undo" /\ call'[c].roll = p /\ call'[c].man = record[p]
  BY AskUndoDoes DEF RecordInv
<1>2. CASE record'[r] # None /\ record'[r].status = "done" /\ M = record'[r].moved /\ E = record'[r].restored
  BY <1>1, <1>2 DEF Outcome
<1>3. CASE \E d \in Caller : /\ Does(d, "roll")' /\ call'[d].roll = r
                             /\ M = call'[d].man.moved /\ E = call'[d].extracted
  BY <1>1, <1>3 DEF Outcome, Does, Others
<1>4. CASE \E d \in Caller : /\ Does(d, "undo")' /\ call'[d].roll = r /\ call'[d].man.status = "done"
                             /\ M = call'[d].man.moved /\ E = call'[d].man.restored
  BY <1>1, <1>4 DEF Outcome, Does, Others
<1> QED BY <1>2, <1>3, <1>4 DEF Outcome

-----------------------------------------------------------------------------
(* The lists of a roll back *)

\* What is written down by a step of a roll back names what it has moved and
\* restored, and no more.
LEMMA RollLists ==
  ASSUME RecordInv, NEW c \in Caller, RollHand(c), RollSteps(c)
  PROVE  LET x == call[c] y == call'[c] IN
         /\ TypeOK /\ Others(c) /\ Does(c, "roll") /\ x \in Call /\ x.roll \in Roll /\ x # Idle
         /\ \A q \in Roll \ {x.roll} : record'[q] = record[q]
         /\ y # Idle =>
              /\ y.op = "roll" /\ y.roll = x.roll
              /\ x.man.moved \subseteq y.man.moved /\ x.extracted \subseteq y.extracted
              /\ \/ record'[x.roll] = record[x.roll]
                 \/ /\ record'[x.roll].status = "restoring"
                    /\ Within(record'[x.roll], y.man.moved, y.extracted)
         /\ y = Idle =>
              \/ record'[x.roll] = record[x.roll]
              \/ record'[x.roll].status = "done" =>
                   record'[x.roll].moved = x.man.moved /\ record'[x.roll].restored = x.extracted
<1> DEFINE x == call[c]
           y == call'[c]
<1>1. /\ TypeOK /\ Others(c) /\ Does(c, "roll") /\ x \in Call /\ x.roll \in Roll /\ x # Idle
      /\ y # Idle => y.op = "roll" /\ y.roll = x.roll
  BY RollProceeds, ManType DEF Proceeds, Does, RecordInv
<1>2. ASSUME NEW f \in File, Move(c, f) \/ Look(c, f)
      PROVE  /\ record' = record
             /\ x.man.moved \subseteq y.man.moved /\ x.extracted \subseteq y.extracted
  BY <1>1, <1>2, MoveDoes, LookDoes
<1>3. CASE Extract(c)
  BY <1>1, <1>3, ExtractDoes
<1>4. CASE EndMoves(c)
  <2>1. /\ y.extracted = x.extracted /\ y.man.moved = x.man.moved /\ y.man.restored = x.man.restored
        /\ y.man.status = "restoring" /\ record'[x.roll] \in {record[x.roll], y.man}
        /\ \A q \in Roll \ {x.roll} : record'[q] = record[q]
    BY <1>1, <1>4, EndMovesDoes
  <2>2. x.man.restored = {}
    BY <1>1 DEF RollHand
  <2> QED BY <1>1, <2>1, <2>2 DEF Within
<1>5. CASE Finish(c)
  BY <1>1, <1>5, FinishDoes
<1> QED BY <1>1, <1>2, <1>3, <1>4, <1>5 DEF RollSteps

LEMMA RollKeepsLists ==
  ASSUME RecordInv, Hands, ListsInv, NEW c \in Caller, RollSteps(c)
  PROVE  ListsInv'
<1> DEFINE x == call[c]
           y == call'[c]
<1>1. /\ TypeOK /\ Others(c) /\ Does(c, "roll") /\ x \in Call /\ x.roll \in Roll /\ x # Idle
      /\ \A q \in Roll \ {x.roll} : record'[q] = record[q]
      /\ y # Idle =>
           /\ y.op = "roll" /\ y.roll = x.roll
           /\ x.man.moved \subseteq y.man.moved /\ x.extracted \subseteq y.extracted
           /\ \/ record'[x.roll] = record[x.roll]
              \/ /\ record'[x.roll].status = "restoring"
                 /\ Within(record'[x.roll], y.man.moved, y.extracted)
      /\ y = Idle =>
           \/ record'[x.roll] = record[x.roll]
           \/ record'[x.roll].status = "done" =>
                record'[x.roll].moved = x.man.moved /\ record'[x.roll].restored = x.extracted
  BY RollLists DEF Hands
<1>2. \A d \in Caller : Does(d, "undo")' => call'[d] = call[d] /\ Does(d, "undo")
  BY <1>1 DEF Others, Does
<1>3. NotDone /\ NothingElse
  BY DEF ListsInv
<1>4. NotDone'
  <2> SUFFICES ASSUME NEW d \in Caller, Does(d, "roll")'
               PROVE  /\ record'[call'[d].roll] # None => record'[call'[d].roll].status # "done"
                      /\ \A e \in Caller :
                           Does(e, "undo")' /\ call'[e].roll = call'[d].roll => call'[e].man.status # "done"
    BY DEF NotDone
  <2>1. Does(d, "roll") /\ call'[d].roll = call[d].roll /\ call[d].roll \in Roll
    BY <1>1, CallType, ManType DEF Others, Does
  <2>2. \A e \in Caller :
          Does(e, "undo")' /\ call'[e].roll = call'[d].roll => call'[e].man.status # "done"
    BY <1>2, <1>3, <2>1 DEF NotDone
  <2>3. record'[call[d].roll] # None => record'[call[d].roll].status # "done"
    <3>1. CASE d = c
      BY <1>1, <1>3, <2>1, <3>1 DEF NotDone, Does
    <3>2. CASE d # c
      <4>1. call[d].roll # x.roll
        <5>1. call[d] # Idle /\ ~Is(d, "asked")
          BY <2>1 DEF RecordInv, Places, Does, Is
        <5> QED BY <1>1, <3>2, <5>1, NotTheSameRoll
      <4> QED BY <1>1, <1>3, <2>1, <4>1 DEF NotDone
    <3> QED BY <3>1, <3>2
  <2> QED BY <2>1, <2>2, <2>3
<1>5. NothingElse'
  <2> SUFFICES ASSUME NEW r \in Roll, NEW M \in SUBSET File, NEW E \in SUBSET File, Outcome(r, M, E)'
               PROVE  NamesNoMore(r, M, E)'
    BY DEF NothingElse
  <2>1. x.man.moved \in SUBSET File /\ x.extracted \in SUBSET File
    BY <1>1, ManType DEF Manifest
  <2>2. NamesNoMore(x.roll, x.man.moved, x.extracted)
    <3>1. Outcome(x.roll, x.man.moved, x.extracted)
      BY <1>1 DEF Outcome
    <3> QED BY <1>1, <1>3, <2>1, <3>1 DEF NothingElse
  <2>3. CASE r # x.roll /\ Outcome(r, M, E)
    <3>1. NamesNoMore(r, M, E)
      BY <1>3, <2>3 DEF NothingElse
    <3> QED BY <1>1, <1>2, <2>3, <3>1 DEF NamesNoMore, Within
  <2>4. CASE r = x.roll /\ y # Idle /\ M = y.man.moved /\ E = y.extracted
    <3>1. record'[r] # None => Within(record'[r], M, E)
      BY <1>1, <2>2, <2>4 DEF NamesNoMore, Within
    <3>2. \A d \in Caller : Does(d, "undo")' /\ call'[d].roll = r => Within(call'[d].man, M, E)
      BY <1>1, <1>2, <2>2, <2>4 DEF NamesNoMore, Within
    <3> QED BY <3>1, <3>2 DEF NamesNoMore, Within
  <2>5. CASE /\ r = x.roll /\ record'[r] # None /\ record'[r].status = "done"
             /\ M = record'[r].moved /\ E = record'[r].restored
    <3>1. record[r] = None \/ record[r].status # "done"
      BY <1>1, <1>3, <2>5 DEF NotDone
    <3>2. y = Idle /\ M = x.man.moved /\ E = x.extracted
      BY <1>1, <2>5, <3>1
    <3>3. Within(record'[r], M, E)
      BY <2>5 DEF Within
    <3>4. \A d \in Caller : Does(d, "undo")' /\ call'[d].roll = r => Within(call'[d].man, M, E)
      BY <1>2, <2>2, <2>5, <3>2 DEF NamesNoMore
    <3> QED BY <3>3, <3>4 DEF NamesNoMore, Within
  <2> QED BY <1>1, <1>3, <2>3, <2>4, <2>5, RollOutcomes
<1> QED BY <1>4, <1>5 DEF ListsInv

LEMMA UndoKeepsLists ==
  ASSUME RecordInv, ListsInv, NEW c \in Caller, UndoSteps(c)
  PROVE  ListsInv'
<1> DEFINE x == call[c]
           y == call'[c]
<1>1. /\ x \in Call /\ x # Idle /\ x.op = "undo" /\ x.roll \in Roll /\ Others(c) /\ TypeOK
      /\ y # Idle => y.op = "undo" /\ y.roll = x.roll /\ y.man = x.man
      /\ record' = record \/ Is(c, "undoing")
      /\ \A q \in Roll \ {x.roll} : record'[q] = record[q]
      /\ record'[x.roll] # None =>
           record'[x.roll] = record[x.roll] \/ SameLists(x.man, record'[x.roll])
  BY UndoIs DEF SameLists
<1>2. \A d \in Caller : Does(d, "undo")' =>
        Does(d, "undo") /\ call'[d].roll = call[d].roll /\ call'[d].man = call[d].man
  BY <1>1 DEF Others, Does
<1>3. NotDone /\ NothingElse
  BY DEF ListsInv
<1>4. NotDone'
  <2> SUFFICES ASSUME NEW d \in Caller, Does(d, "roll")'
               PROVE  /\ record'[call'[d].roll] # None => record'[call'[d].roll].status # "done"
                      /\ \A e \in Caller :
                           Does(e, "undo")' /\ call'[e].roll = call'[d].roll => call'[e].man.status # "done"
    BY DEF NotDone
  <2>1. d # c /\ call'[d] = call[d] /\ Does(d, "roll")
    BY <1>1 DEF Others, Does
  <2>2. record'[call[d].roll] = record[call[d].roll]
    <3>1. CASE Is(c, "undoing")
      <4>1. call[d].roll # x.roll /\ call[d].roll \in Roll
        BY <1>1, <2>1, <3>1, NotTheSameRoll, CallType, ManType DEF Does, Is
      <4> QED BY <1>1, <4>1
    <3>2. CASE record' = record
      BY <3>2
    <3> QED BY <1>1, <3>1, <3>2
  <2> QED BY <1>2, <1>3, <2>1, <2>2 DEF NotDone
<1>5. NothingElse'
  <2> SUFFICES ASSUME NEW r \in Roll, NEW M \in SUBSET File, NEW E \in SUBSET File, Outcome(r, M, E)'
               PROVE  NamesNoMore(r, M, E)'
    BY DEF NothingElse
  <2>1. NamesNoMore(r, M, E)
    BY <1>3, UndoOutcomes DEF NothingElse
  <2>2. record'[r] # None => Within(record'[r], M, E)
    <3>1. CASE record'[r] = record[r]
      BY <2>1, <3>1 DEF NamesNoMore
    <3>2. CASE record'[r] # record[r]
      <4>1. r = x.roll /\ (record'[r] # None => SameLists(x.man, record'[r]))
        BY <1>1, <3>2
      <4>2. Within(x.man, M, E)
        BY <1>1, <2>1, <4>1 DEF NamesNoMore, Does
      <4> QED BY <4>1, <4>2 DEF Within, SameLists
    <3> QED BY <3>1, <3>2
  <2> QED BY <1>2, <2>1, <2>2 DEF NamesNoMore, Within
<1> QED BY <1>4, <1>5 DEF ListsInv

LEMMA NextKeepsLists ==
  ASSUME RecordInv, Hands, ListsInv, [Next]_vars
  PROVE  ListsInv'
<1>0. /\ TypeOK /\ NotDone /\ NothingElse
      /\ \A d \in Caller : call[d] # Idle => call[d].roll \in Roll
  BY CallType, ManType DEF RecordInv, ListsInv
<1>1. ASSUME NEW c \in Caller, RollSteps(c) \/ UndoSteps(c) PROVE ListsInv'
  BY <1>1, RollKeepsLists, UndoKeepsLists
<1>2. ASSUME NEW c \in Caller, NEW p \in Roll, Begin(c, p) PROVE ListsInv'
  <2>1. /\ Others(c) /\ ~Begun(p) /\ call'[c].op = "roll" /\ call'[c].roll = p
        /\ record'[p].status = "moving" /\ \A q \in Roll \ {p} : record'[q] = record[q]
        /\ record'[p].moved = {} /\ record'[p].restored = {}
    BY <1>0, <1>2, BeginDoes
  <2>2. \A d \in Caller : call[d] # Idle => call[d].roll # p
    BY <2>1 DEF RecordInv, Once, Begun
  <2>3. \A d \in Caller : Does(d, "undo")' => d # c /\ call'[d] = call[d] /\ Does(d, "undo")
    BY <2>1 DEF Others, Does
  <2>4. NotDone'
    <3> SUFFICES ASSUME NEW d \in Caller, Does(d, "roll")'
                 PROVE  /\ record'[call'[d].roll] # None => record'[call'[d].roll].status # "done"
                        /\ \A e \in Caller :
                             Does(e, "undo")' /\ call'[e].roll = call'[d].roll => call'[e].man.status # "done"
      BY DEF NotDone
    <3>1. CASE d = c
      BY <2>1, <2>2, <2>3, <3>1 DEF Does
    <3>2. CASE d # c
      <4>1. Does(d, "roll") /\ call'[d] = call[d] /\ call[d].roll \in Roll \ {p}
        BY <1>0, <2>1, <2>2, <3>2 DEF Others, Does
      <4> QED BY <1>0, <2>1, <2>3, <4>1 DEF NotDone
    <3> QED BY <3>1, <3>2
  <2>5. NothingElse'
    <3> SUFFICES ASSUME NEW r \in Roll, NEW M \in SUBSET File, NEW E \in SUBSET File, Outcome(r, M, E)'
                 PROVE  NamesNoMore(r, M, E)'
      BY DEF NothingElse
    <3>1. CASE Outcome(r, M, E)
      <4>1. NamesNoMore(r, M, E) /\ r # p
        BY <1>0, <2>1, <3>1, OutcomeBegun DEF NothingElse
      <4> QED BY <2>1, <2>3, <4>1 DEF NamesNoMore, Within
    <3>2. CASE r = p /\ M = {} /\ E = {}
      BY <2>1, <2>2, <2>3, <3>2 DEF NamesNoMore, Within, Does
    <3> QED BY <1>2, <3>1, <3>2, BeginOutcomes
  <2> QED BY <2>4, <2>5 DEF ListsInv
<1>3. ASSUME NEW c \in Caller, NEW p \in Roll, AskUndo(c, p) PROVE ListsInv'
  <2>1. /\ Others(c) /\ record' = record /\ record[p] # None
        /\ call'[c].op = "undo" /\ call'[c].roll = p /\ call'[c].man = record[p]
    BY <1>0, <1>3, AskUndoDoes
  <2>2. NotDone'
    <3> SUFFICES ASSUME NEW d \in Caller, Does(d, "roll")'
                 PROVE  /\ record'[call'[d].roll] # None => record'[call'[d].roll].status # "done"
                        /\ \A e \in Caller :
                             Does(e, "undo")' /\ call'[e].roll = call'[d].roll => call'[e].man.status # "done"
      BY DEF NotDone
    <3>1. d # c /\ Does(d, "roll") /\ call'[d] = call[d]
      BY <2>1 DEF Others, Does
    <3> QED BY <1>0, <2>1, <3>1 DEF NotDone, Others, Does
  <2>3. NothingElse'
    <3> SUFFICES ASSUME NEW r \in Roll, NEW M \in SUBSET File, NEW E \in SUBSET File, Outcome(r, M, E)'
                 PROVE  NamesNoMore(r, M, E)'
      BY DEF NothingElse
    <3>1. NamesNoMore(r, M, E)
      BY <1>0, <1>3, AskOutcomes DEF NothingElse
    <3> QED BY <2>1, <3>1 DEF NamesNoMore, Within, Others, Does
  <2> QED BY <2>2, <2>3 DEF ListsInv
<1>4. CASE \/ \E r \in Roll : DeleteRollbackCopies(r)
           \/ \E f \in File : ProgramMakes(f)
           \/ Crash
           \/ UNCHANGED vars
  <2>1. /\ \A d \in Caller : call'[d] \in {call[d], Idle}
        /\ \A r \in Roll : record'[r] \in {record[r], None}
    BY <1>0, <1>4 DEF DeleteRollbackCopies, ProgramMakes, Crash, vars, TypeOK
  <2>2. NotDone'
    BY <1>0, <2>1 DEF NotDone, Does
  <2>3. NothingElse'
    <3> SUFFICES ASSUME NEW r \in Roll, NEW M \in SUBSET File, NEW E \in SUBSET File, Outcome(r, M, E)'
                 PROVE  NamesNoMore(r, M, E)'
      BY DEF NothingElse
    <3>1. Outcome(r, M, E)
      BY <2>1 DEF Outcome, Does
    <3>2. NamesNoMore(r, M, E)
      BY <1>0, <3>1 DEF NothingElse
    <3> QED BY <2>1, <3>2 DEF NamesNoMore, Within, Does
  <2> QED BY <2>2, <2>3 DEF ListsInv
<1> QED BY <1>1, <1>2, <1>3, <1>4 DEF Next

-----------------------------------------------------------------------------
(* What a roll back left is as it was *)

\* A step of one call disturbs only its own roll back while it is the last.
LEMMA OthersAreNotLast ==
  ASSUME RecordInv, OrderInv, NEW c \in Caller, 
         RollSteps(c) \/ (UndoSteps(c) /\ ~EnterUndo(c) /\ ~Enqueue(c)),
         NEW r \in Roll, Begun(r), r # call[c].roll
  PROVE  ~Last(r)
<1>1. CASE RollSteps(c)
  <2>1. Does(c, "roll") /\ call[c].roll \in Roll
    BY <1>1, RollProceeds, ManType
  <2> QED BY <2>1 DEF OrderInv, RollsAreNewest, Newest, Last
<1>2. CASE UndoSteps(c) /\ ~EnterUndo(c) /\ ~Enqueue(c)
  <2>1. Is(c, "undoing") /\ call[c] # Idle /\ call[c].roll \in Roll
    BY <1>2, UndoProceeds, ManType DEF Does
  <2>2. Begun(call[c].roll)
    BY <2>1 DEF RecordInv, Once, Begun
  <2> QED BY <2>1, <2>2 DEF OrderInv, InOrder, UndoesAreEarly, Last
<1> QED BY <1>1, <1>2

LEMMA LastWas ==
  ASSUME Grows, NEW r \in Roll, Last(r)'
  PROVE  Last(r)
BY DEF Grows, Last

LEMMA AsBeforeStays ==
  ASSUME Grows, NEW r \in Roll, Begun(r), NEW M \in SUBSET File, NEW E \in SUBSET File,
         AsBefore(r, M, E),
         Last(r) => \A f \in File \ made' :
           /\ f \in M => kept'[r][f] \in {kept[r][f], None}
           /\ f \notin M \cup E => live'[f] = live[f]
  PROVE  AsBefore(r, M, E)'
<1>1. before'[r] = before[r] /\ \A f \in File \ made' : f \in File \ made
  BY DEF Grows
<1>2. Last(r)' => Last(r)
  BY LastWas
<1> QED BY <1>1, <1>2 DEF AsBefore

LEMMA RollKeepsOutcomes ==
  ASSUME BackInv, Grows, NEW c \in Caller, RollSteps(c)
  PROVE  OutcomesAsBefore'
<1> DEFINE x == call[c]
           y == call'[c]
<1>1. TypeOK /\ RecordInv /\ OrderInv /\ NotDone
  BY DEF BackInv, ListsInv, MineInv, RecordInv
<1>2. /\ Others(c) /\ Does(c, "roll") /\ x \in Call /\ x.roll \in Roll /\ x # Idle /\ made' = made
      /\ y # Idle => y.op = "roll" /\ y.roll = x.roll
      /\ Begun(x.roll) /\ RollHand(c)
  <2>1. Proceeds(c) /\ x \in Call /\ Does(c, "roll")
    BY <1>1, RollProceeds
  <2> QED BY <2>1, ManType DEF BackInv, MineInv, Hands, OrderInv, RollsAreNewest, Newest, Proceeds, Does, seen
<1>3. x.man.moved \in SUBSET File /\ x.extracted \in SUBSET File
  BY <1>2, ManType DEF Manifest
<1>4. AsBefore(x.roll, x.man.moved, x.extracted)
  <2>1. Outcome(x.roll, x.man.moved, x.extracted)
    BY <1>2 DEF Outcome
  <2> QED BY <1>2, <1>3, <2>1 DEF BackInv, OutcomesAsBefore
<1>5. SUFFICES ASSUME NEW r \in Roll, NEW M \in SUBSET File, NEW E \in SUBSET File, Outcome(r, M, E)'
               PROVE  AsBefore(r, M, E)'
  BY DEF OutcomesAsBefore
\* What the step leaves alone of another roll back does not matter: it is not the last.
<1>6. CASE r # x.roll /\ Outcome(r, M, E)
  <2>1. Begun(r) /\ ~Last(r)
    BY <1>1, <1>6, OutcomeBegun, OthersAreNotLast
  <2>2. ~Last(r)'
    BY <2>1, LastWas
  <2> QED BY <2>2 DEF AsBefore
<1>7. ASSUME r = x.roll, M = x.man.moved, E = x.extracted, live' = live, kept' = kept
      PROVE  AsBefore(r, M, E)'
  BY <1>2, <1>3, <1>4, <1>7, AsBeforeStays
<1>8. ASSUME NEW f \in File, Move(c, f) PROVE AsBefore(r, M, E)'
  <2>1. /\ Is(c, "moving") /\ f \in x.todo /\ record' = record
        /\ y.extracted = x.extracted
        /\ \/ /\ live[f] # None /\ live'[f] = None /\ kept'[x.roll][f] = live[f]
              /\ \A g \in File \ {f} : live'[g] = live[g] /\ kept'[x.roll][g] = kept[x.roll][g]
              /\ y.man.moved = x.man.moved \cup {f}
           \/ live' = live /\ kept' = kept /\ y.man = x.man
    BY <1>1, <1>8, MoveDoes
  <2>2. \/ r # x.roll /\ Outcome(r, M, E)
        \/ r = x.roll /\ M = y.man.moved /\ E = y.extracted
    BY <1>1, <1>2, <1>5, <2>1, RollOutcomes DEF NotDone
  <2>3. CASE /\ r = x.roll /\ M = x.man.moved \cup {f} /\ E = x.extracted
             /\ live[f] # None /\ live'[f] = None /\ kept'[x.roll][f] = live[f]
             /\ \A g \in File \ {f} : live'[g] = live[g] /\ kept'[x.roll][g] = kept[x.roll][g]
    <3>1. x.extracted = {} /\ f \notin x.man.moved
      BY <1>2, <2>1 DEF RollHand
    <3>2. Last(r)' => Last(r)
      BY LastWas
    <3>3. before'[r] = before[r]
      BY <1>2, <2>3 DEF Grows
    <3>4. ASSUME Last(r), NEW g \in File \ made
          PROVE  /\ g \in M => kept'[r][g] \in {None, before[r][g]}
                 /\ g \in E \ M => before[r][g] = None
                 /\ g \notin M \cup E => live'[g] = before[r][g]
      BY <1>4, <2>3, <3>1, <3>4 DEF AsBefore
    <3> QED BY <1>2, <3>2, <3>3, <3>4 DEF AsBefore
  <2> QED BY <1>6, <1>7, <2>1, <2>2, <2>3
<1>9. CASE EndMoves(c)
  <2>1. /\ Is(c, "moving") /\ live' = live /\ kept' = kept
        /\ y.extracted = x.extracted /\ y.man.moved = x.man.moved
        /\ y.man.status = "restoring" /\ record'[x.roll] \in {record[x.roll], y.man}
        /\ \A q \in Roll \ {x.roll} : record'[q] = record[q]
    BY <1>1, <1>9, EndMovesDoes
  <2>2. record'[x.roll] # None => record'[x.roll].status # "done"
    BY <1>1, <1>2, <2>1 DEF NotDone
  <2>3. \/ r # x.roll /\ Outcome(r, M, E)
        \/ r = x.roll /\ M = x.man.moved /\ E = x.extracted
    BY <1>1, <1>2, <1>5, <2>1, <2>2, RollOutcomes
  <2> QED BY <1>6, <1>7, <2>1, <2>3
<1>10. ASSUME NEW f \in File, Look(c, f) PROVE AsBefore(r, M, E)'
  <2>1. /\ live' = live /\ kept' = kept /\ record' = record
        /\ y.extracted = x.extracted /\ y.man = x.man
    BY <1>1, <1>10, LookDoes
  <2>2. \/ r # x.roll /\ Outcome(r, M, E)
        \/ r = x.roll /\ M = x.man.moved /\ E = x.extracted
    BY <1>1, <1>2, <1>5, <2>1, RollOutcomes DEF NotDone
  <2> QED BY <1>6, <1>7, <2>1, <2>2
<1>11. CASE Extract(c)
  <2>1. /\ Is(c, "restoring") /\ record' = record /\ kept' = kept /\ y.man = x.man
        /\ x.at \in File /\ x.at # None
        /\ \/ /\ \A g \in File \ {x.at} : live'[g] = live[g]
              /\ y.extracted = x.extracted \cup {x.at}
           \/ live' = live /\ y.extracted = x.extracted
    BY <1>1, <1>11, ExtractDoes DEF Extract
  <2>2. \/ r # x.roll /\ Outcome(r, M, E)
        \/ r = x.roll /\ M = x.man.moved /\ E = y.extracted
    BY <1>1, <1>2, <1>5, <2>1, RollOutcomes DEF NotDone
  <2>3. CASE /\ r = x.roll /\ M = x.man.moved /\ E = x.extracted \cup {x.at}
             /\ \A g \in File \ {x.at} : live'[g] = live[g]
    <3>1. x.at \notin made => live[x.at] = None
      BY <1>2, <2>1 DEF RollHand
    <3>2. Last(r)' => Last(r)
      BY LastWas
    <3>3. before'[r] = before[r]
      BY <1>2, <2>3 DEF Grows
    <3>4. ASSUME Last(r), NEW g \in File \ made
          PROVE  /\ g \in M => kept'[r][g] \in {None, before[r][g]}
                 /\ g \in E \ M => before[r][g] = None
                 /\ g \notin M \cup E => live'[g] = before[r][g]
      BY <1>4, <2>1, <2>3, <3>1, <3>4 DEF AsBefore
    <3> QED BY <1>2, <3>2, <3>3, <3>4 DEF AsBefore
  <2> QED BY <1>6, <1>7, <2>1, <2>2, <2>3
<1>12. CASE Finish(c)
  <2>1. /\ y = Idle /\ live' = live /\ kept' = kept
        /\ \/ record'[x.roll] = record[x.roll]
           \/ /\ record'[x.roll].moved = x.man.moved
              /\ \/ record'[x.roll].restored = x.extracted
                 \/ record'[x.roll].status = "failed"
        /\ \A q \in Roll \ {x.roll} : record'[q] = record[q]
    BY <1>1, <1>12, FinishDoes
  <2>2. \/ r # x.roll /\ Outcome(r, M, E)
        \/ /\ r = x.roll /\ record'[r] # None /\ record'[r].status = "done"
           /\ M = record'[r].moved /\ E = record'[r].restored
    BY <1>1, <1>2, <1>5, <2>1, RollOutcomes
  <2>3. \/ r # x.roll /\ Outcome(r, M, E)
        \/ r = x.roll /\ M = x.man.moved /\ E = x.extracted
    BY <1>1, <1>2, <2>1, <2>2 DEF NotDone
  <2> QED BY <1>6, <1>7, <2>1, <2>3
<1> QED BY <1>8, <1>9, <1>10, <1>11, <1>12 DEF RollSteps

\* An Undo touches only the files of its lists.
LEMMA UndoTouches ==
  ASSUME MineInv, NEW c \in Caller, UndoSteps(c), NEW f \in File
  PROVE  /\ kept'[call[c].roll][f] \in {kept[call[c].roll][f], None}
         /\ f \notin call[c].man.moved \cup call[c].man.restored => live'[f] = live[f]
<1> DEFINE x == call[c]
<1>1. /\ TypeOK /\ x \in Call /\ x # Idle /\ x.op = "undo" /\ x.roll \in Roll
  BY UndoIs DEF MineInv
<1>2. /\ x.todo \subseteq Listed(x.man) /\ x.then \subseteq x.man.moved
      /\ x.at # None => x.at \in x.then
  BY <1>1 DEF MineInv, Hands, UndoHand, Does
<1>3. CASE Enqueue(c) \/ EnterUndo(c) \/ EndUndo(c)
  BY <1>3 DEF Enqueue, EnterUndo, EndUndo
<1>4. ASSUME NEW g \in File, DeleteRestored(c, g)
      PROVE  kept' = kept /\ (f \notin x.man.moved \cup x.man.restored => live'[f] = live[f])
  <2>1. kept' = kept /\ g \in x.todo /\ \A h \in File \ {g} : live'[h] = live[h]
    BY <1>1, <1>4, DeleteRestoredDoes
  <2> QED BY <1>2, <2>1 DEF Listed
<1>5. ASSUME NEW g \in File, TakeOut(c, g)
      PROVE  kept' = kept /\ (f \notin x.man.moved \cup x.man.restored => live'[f] = live[f])
  <2>1. kept' = kept /\ g \in x.then /\ \A h \in File \ {g} : live'[h] = live[h]
    BY <1>1, <1>5, TakeOutDoes
  <2> QED BY <1>2, <2>1
<1>6. CASE PutBack(c)
  <2>1. /\ x.at \in File /\ x.at # None
        /\ \/ /\ kept'[x.roll][x.at] = None
              /\ \A g \in File \ {x.at} : live'[g] = live[g] /\ kept'[x.roll][g] = kept[x.roll][g]
           \/ live' = live /\ kept' = kept
    BY <1>1, <1>6, PutBackDoes
  <2> QED BY <1>2, <2>1
<1> QED BY <1>3, <1>4, <1>5, <1>6 DEF UndoSteps

LEMMA UndoKeepsOutcomes ==
  ASSUME BackInv, Grows, NEW c \in Caller, UndoSteps(c)
  PROVE  OutcomesAsBefore'
<1> DEFINE x == call[c]
<1>1. RecordInv /\ OrderInv /\ MineInv /\ NothingElse
  BY DEF BackInv, ListsInv, MineInv
<1>2. x # Idle /\ x.op = "undo" /\ x.roll \in Roll
  BY <1>1, UndoIs
<1>3. SUFFICES ASSUME NEW r \in Roll, NEW M \in SUBSET File, NEW E \in SUBSET File, Outcome(r, M, E)'
               PROVE  AsBefore(r, M, E)'
  BY DEF OutcomesAsBefore
<1>4. Outcome(r, M, E)
  BY <1>1, <1>3, UndoOutcomes
<1>5. Begun(r) /\ AsBefore(r, M, E)
  BY <1>1, <1>4, OutcomeBegun DEF BackInv, OutcomesAsBefore
<1>6. Last(r) => \A f \in File \ made' :
        /\ f \in M => kept'[r][f] \in {kept[r][f], None}
        /\ f \notin M \cup E => live'[f] = live[f]
  <2>1. CASE r = x.roll
    <3>1. Within(x.man, M, E)
      BY <1>1, <1>2, <1>4, <2>1 DEF NothingElse, NamesNoMore, Does
    <3> QED BY <1>1, <2>1, <3>1, UndoTouches DEF Within
  <2>2. CASE EnterUndo(c) \/ Enqueue(c)
    BY <2>2 DEF EnterUndo, Enqueue
  <2>3. CASE r # x.roll /\ ~EnterUndo(c) /\ ~Enqueue(c)
    BY <1>1, <1>5, <2>3, OthersAreNotLast
  <2> QED BY <2>1, <2>2, <2>3
<1> QED BY <1>5, <1>6, AsBeforeStays

LEMMA NextKeepsOutcomes ==
  ASSUME BackInv, Grows, [Next]_vars
  PROVE  OutcomesAsBefore'
<1>0. TypeOK /\ RecordInv
  BY DEF BackInv, MineInv, RecordInv
<1>1. ASSUME NEW c \in Caller, RollSteps(c) \/ UndoSteps(c) PROVE OutcomesAsBefore'
  BY <1>1, RollKeepsOutcomes, UndoKeepsOutcomes
<1>2. ASSUME \A f \in File \ made' : live'[f] = live[f],
             \A r \in Roll, f \in File : kept'[r][f] \in {kept[r][f], None},
             NEW r \in Roll, NEW M \in SUBSET File, NEW E \in SUBSET File, Outcome(r, M, E)
      PROVE  AsBefore(r, M, E)'
  <2>1. Begun(r) /\ AsBefore(r, M, E)
    BY <1>0, <1>2, OutcomeBegun DEF BackInv, OutcomesAsBefore
  <2> QED BY <1>2, <2>1, AsBeforeStays
<1>3. ASSUME NEW c \in Caller, NEW r \in Roll, Begin(c, r) PROVE OutcomesAsBefore'
  <2>1. /\ Others(c) /\ live' = live /\ kept' = kept /\ made' = made /\ ~Begun(r)
        /\ call'[c].op = "roll" /\ call'[c].roll = r
        /\ call'[c].man.moved = {} /\ call'[c].extracted = {}
        /\ record'[r].status = "moving" /\ \A q \in Roll \ {r} : record'[q] = record[q]
        /\ before'[r] = live
    BY <1>0, <1>3, BeginDoes
  <2> SUFFICES ASSUME NEW q \in Roll, NEW M \in SUBSET File, NEW E \in SUBSET File, Outcome(q, M, E)'
               PROVE  AsBefore(q, M, E)'
    BY DEF OutcomesAsBefore
  <2>2. CASE Outcome(q, M, E)
    BY <1>2, <2>1, <2>2
  <2>3. CASE q = r /\ M = {} /\ E = {}
    BY <2>1, <2>3 DEF AsBefore
  <2>4. Outcome(q, M, E) \/ (q = r /\ M = {} /\ E = {})
    BY <1>0, <1>3, BeginOutcomes
  <2> QED BY <2>2, <2>3, <2>4
<1>4. ASSUME NEW c \in Caller, NEW r \in Roll, AskUndo(c, r) PROVE OutcomesAsBefore'
  <2>1. live' = live /\ kept' = kept
    BY <1>4 DEF AskUndo
  <2> SUFFICES ASSUME NEW q \in Roll, NEW M \in SUBSET File, NEW E \in SUBSET File, Outcome(q, M, E)'
               PROVE  AsBefore(q, M, E)'
    BY DEF OutcomesAsBefore
  <2>2. Outcome(q, M, E)
    BY <1>0, <1>4, AskOutcomes
  <2> QED BY <1>2, <2>1, <2>2
<1>5. CASE \/ \E r \in Roll : DeleteRollbackCopies(r)
           \/ \E f \in File : ProgramMakes(f)
           \/ Crash
           \/ UNCHANGED vars
  <2>1. /\ \A f \in File \ made' : live'[f] = live[f]
        /\ \A r \in Roll, f \in File : kept'[r][f] \in {kept[r][f], None}
        /\ \A r \in Roll : record'[r] \in {record[r], None}
        /\ \A d \in Caller : call'[d] \in {call[d], Idle}
    BY <1>0, <1>5 DEF DeleteRollbackCopies, ProgramMakes, Crash, vars, TypeOK, Folder, Empty
  <2> SUFFICES ASSUME NEW q \in Roll, NEW M \in SUBSET File, NEW E \in SUBSET File, Outcome(q, M, E)'
               PROVE  AsBefore(q, M, E)'
    BY DEF OutcomesAsBefore
  <2>2. Outcome(q, M, E)
    BY <2>1 DEF Outcome, Does
  <2> QED BY <1>2, <2>1, <2>2
<1> QED BY <1>1, <1>3, <1>4, <1>5 DEF Next

-----------------------------------------------------------------------------
(* What an Undo has put back *)

\* A step that leaves the Undo under way alone, and the folders but for new files.
LEMMA HalfStays ==
  ASSUME RecordInv, Grows, NEW c \in Caller, HalfUndone(c), call'[c] \in {call[c], Idle},
         \A f \in File \ made' : live'[f] = live[f]
  PROVE  HalfUndone(c)'
<1> SUFFICES ASSUME Is(c, "undoing")', call'[c].man.status = "done", ~call'[c].bad, Last(call[c].roll)'
             PROVE  \A f \in File \ made' :
                      /\ f \in call'[c].man.moved \ call'[c].then => live'[f] = before'[call'[c].roll][f]
                      /\ f \in Listed(call'[c].man) \ call'[c].todo => live'[f] = None
  BY DEF HalfUndone, Listed
<1>1. call'[c] = call[c] /\ Is(c, "undoing") /\ call[c] # Idle
  BY DEF Is
<1>2. call[c].roll \in Roll /\ Begun(call[c].roll)
  BY <1>1, CallType, ManType DEF RecordInv, Once, Begun
<1>3. Last(call[c].roll) /\ before'[call[c].roll] = before[call[c].roll]
  BY <1>1, <1>2 DEF Grows, Last
<1>4. \A f \in File \ made' : f \in File \ made
  BY DEF Grows
<1> QED BY <1>1, <1>3, <1>4 DEF HalfUndone

\* An Undo's own step.
LEMMA UndoStepsBack ==
  ASSUME BackInv, Grows, NEW c \in Caller, UndoSteps(c)
  PROVE  HalfUndone(c)'
<1> DEFINE x == call[c]
           y == call'[c]
<1>1. /\ TypeOK /\ RecordInv /\ MineInv /\ HalfUndone(c)
  BY DEF BackInv, MineInv, RecordInv
<1>2. /\ x \in Call /\ x # Idle /\ x.op = "undo" /\ x.roll \in Roll
      /\ y # Idle => y.roll = x.roll /\ y.man = x.man
  BY <1>1, UndoIs
<1>3. /\ x.todo \subseteq Listed(x.man) /\ x.then \subseteq x.man.moved
      /\ x.at # None => x.at \in x.then
      /\ Is(c, "queued") => x.todo = Listed(x.man) /\ x.then = x.man.moved
  BY <1>1, <1>2 DEF MineInv, Hands, UndoHand, Waits, Does
<1>4. Begun(x.roll) /\ before'[x.roll] = before[x.roll]
  BY <1>1, <1>2 DEF RecordInv, Once, Begun, Grows
<1>5. x.man.moved \in SUBSET File /\ x.man.restored \in SUBSET File
  BY <1>2, ManType DEF Manifest
<1> SUFFICES ASSUME Is(c, "undoing")', y.man.status = "done", ~y.bad, Last(call[c].roll)',
                    NEW f \in File, f \notin made'
             PROVE  /\ f \in y.man.moved \ y.then => live'[f] = before'[y.roll][f]
                    /\ f \in Listed(y.man) \ y.todo => live'[f] = None
  BY DEF HalfUndone, Listed
<1>6. y # Idle /\ y.roll = x.roll /\ y.man = x.man /\ Last(x.roll) /\ f \notin made
  <2>1. y # Idle /\ y.roll = x.roll /\ y.man = x.man
    BY <1>2 DEF Is
  <2> QED BY <1>2, <2>1 DEF Grows, Last
<1>7. CASE EnterUndo(c)
  <2>1. Is(c, "queued") /\ y.todo = x.todo /\ y.then = x.then
    BY <1>1, <1>7, EnterUndoDoes
  <2> QED BY <1>3, <1>6, <2>1
\* What holds of the files this step does not touch.
<1>8. ASSUME Is(c, "undoing"), ~x.bad, live'[f] = live[f]
      PROVE  /\ f \in x.man.moved \ x.then => live'[f] = before'[x.roll][f]
             /\ f \in Listed(x.man) \ x.todo => live'[f] = None
  BY <1>1, <1>4, <1>6, <1>8 DEF HalfUndone
<1>9. ASSUME NEW g \in File, DeleteRestored(c, g)
      PROVE  /\ f \in y.man.moved \ y.then => live'[f] = before'[y.roll][f]
             /\ f \in Listed(y.man) \ y.todo => live'[f] = None
  <2>1. /\ Is(c, "undoing") /\ g \in x.todo /\ y.todo = x.todo \ {g} /\ y.then = x.then
        /\ live'[g] = None /\ y.bad = x.bad /\ \A h \in File \ {g} : live'[h] = live[h]
    BY <1>1, <1>9, DeleteRestoredDoes
  <2>2. g \notin x.man.moved
    BY <1>3, <2>1 DEF Listed
  <2>3. CASE f = g
    BY <1>6, <2>1, <2>2, <2>3
  <2>4. CASE f # g
    BY <1>6, <1>8, <2>1, <2>4
  <2> QED BY <2>3, <2>4
<1>10. ASSUME NEW g \in File, TakeOut(c, g)
       PROVE  /\ f \in y.man.moved \ y.then => live'[f] = before'[y.roll][f]
              /\ f \in Listed(y.man) \ y.todo => live'[f] = None
  <2>1. /\ Is(c, "undoing") /\ g \in x.then /\ y.todo = x.todo /\ y.then = x.then
        /\ y.bad = x.bad /\ \A h \in File \ {g} : live'[h] = live[h]
    BY <1>1, <1>10, TakeOutDoes
  <2>2. g \notin Listed(x.man)
    BY <1>3, <2>1 DEF Listed
  <2>3. CASE f = g
    BY <1>6, <2>1, <2>2, <2>3
  <2>4. CASE f # g
    BY <1>6, <1>8, <2>1, <2>4
  <2> QED BY <2>3, <2>4
<1>11. CASE PutBack(c)
  <2>1. /\ Is(c, "undoing") /\ x.at \in File /\ x.at # None
        /\ y.todo = x.todo /\ y.then = x.then \ {x.at} /\ y.bad = x.bad
        /\ live'[x.at] = kept[x.roll][x.at] /\ kept[x.roll][x.at] # None
        /\ \A h \in File \ {x.at} : live'[h] = live[h]
    BY <1>1, <1>11, PutBackDoes
  <2>2. x.at \in x.man.moved /\ x.at \notin Listed(x.man)
    BY <1>3, <2>1 DEF Listed
  <2>3. CASE f = x.at
    <3>1. Outcome(x.roll, x.man.moved, x.man.restored)
      BY <1>2, <1>6 DEF Outcome, Does
    <3>2. AsBefore(x.roll, x.man.moved, x.man.restored)
      BY <1>2, <1>5, <3>1 DEF BackInv, OutcomesAsBefore
    <3>3. kept[x.roll][f] = before[x.roll][f]
      BY <1>6, <2>1, <2>2, <2>3, <3>2 DEF AsBefore
    <3> QED BY <1>4, <1>6, <2>1, <2>2, <2>3, <3>3
  <2>4. CASE f # x.at
    BY <1>6, <1>8, <2>1, <2>4
  <2> QED BY <2>3, <2>4
<1>12. CASE EndUndo(c) \/ Enqueue(c)
  BY <1>1, <1>6, <1>12, EndUndoDoes, EnqueueDoes DEF Is
<1> QED BY <1>7, <1>9, <1>10, <1>11, <1>12 DEF UndoSteps

LEMMA NextKeepsHalves ==
  ASSUME BackInv, Grows, [Next]_vars, NEW d \in Caller
  PROVE  HalfUndone(d)'
<1>1. TypeOK /\ RecordInv /\ OneRuns /\ HalfUndone(d)
  BY DEF BackInv, MineInv, RecordInv, OrderInv
<1>2. ASSUME NEW c \in Caller, UndoSteps(c), c # d PROVE HalfUndone(d)'
  <2>1. CASE Enqueue(c)
    BY <1>1, <1>2, <2>1, EnqueueDoes, HalfStays DEF Others
  <2>2. CASE ~Enqueue(c)
    <3>1. call'[d] = call[d] /\ (Holds(c) \/ SlotIsFree)
      <4>1. CASE EnterUndo(c)
        BY <1>1, <1>2, <4>1, EnterUndoDoes DEF Stays, Others
      <4>2. CASE ~EnterUndo(c)
        BY <1>1, <1>2, <2>2, <4>2, UndoProceeds DEF Proceeds, Others
      <4> QED BY <4>1, <4>2
    <3>2. ~Is(d, "undoing")
      BY <1>1, <1>2, <3>1 DEF OneRuns, Holds, Waits, SlotIsFree, Is
    <3> QED BY <3>1, <3>2 DEF HalfUndone, Is
  <2> QED BY <2>1, <2>2
<1>3. ASSUME NEW c \in Caller, RollSteps(c) PROVE HalfUndone(d)'
  <2>1. Proceeds(c) /\ Does(c, "roll")
    BY <1>1, <1>3, RollProceeds
  <2>2. CASE d = c
    <3>1. call'[c] # Idle => call'[c].op = "roll"
      BY <2>1 DEF Proceeds, Does
    <3>2. ~Is(c, "undoing")'
      <4>1. Places'
        BY <1>1, <1>3, RollKeeps DEF RecordInv
      <4> QED BY <3>1, <4>1 DEF Places, Is
    <3> QED BY <2>2, <3>2 DEF HalfUndone
  <2>3. CASE d # c
    BY <1>1, <2>1, <2>3 DEF Proceeds, Others, OneRuns, Holds, Waits, HalfUndone, Is
  <2> QED BY <2>2, <2>3
<1>4. ASSUME NEW c \in Caller, NEW r \in Roll, Begin(c, r) \/ AskUndo(c, r) PROVE HalfUndone(d)'
  <2>1. /\ Others(c) /\ live' = live /\ call'[c].pc \in {"moving", "asked"}
    BY <1>1, <1>4, BeginDoes, AskUndoDoes
  <2>2. CASE d = c
    BY <2>1, <2>2 DEF HalfUndone, Is
  <2>3. CASE d # c
    BY <1>1, <2>1, <2>3, HalfStays DEF Others
  <2> QED BY <2>2, <2>3
<1>5. CASE \/ \E r \in Roll : DeleteRollbackCopies(r)
           \/ \E f \in File : ProgramMakes(f)
           \/ Crash
           \/ UNCHANGED vars
  <2>1. /\ \A f \in File \ made' : live'[f] = live[f]
        /\ call'[d] \in {call[d], Idle}
    BY <1>1, <1>5 DEF DeleteRollbackCopies, ProgramMakes, Crash, vars, TypeOK, Folder
  <2> QED BY <1>1, <2>1, HalfStays
<1> QED BY <1>2, <1>3, <1>4, <1>5, UndoStepsBack DEF Next

LEMMA BackInit == Init => BackInv
<1> SUFFICES ASSUME Init PROVE BackInv
  OBVIOUS
<1>1. \A c \in Caller : call[c] = Idle
  BY DEF Init
<1>2. \A r \in Roll : record[r] = None
  BY DEF Init
<1>3. ListsInv
  BY <1>1, <1>2 DEF ListsInv, NotDone, NothingElse, Outcome, Does
<1>4. OutcomesAsBefore /\ \A c \in Caller : HalfUndone(c)
  BY <1>1, <1>2 DEF OutcomesAsBefore, Outcome, HalfUndone, Does, Is
<1> QED BY <1>3, <1>4, MineInit DEF BackInv

LEMMA BackNext ==
  ASSUME BackInv, [Next]_vars
  PROVE  BackInv'
<1>1. MineInv /\ RecordInv /\ OrderInv /\ Hands /\ ListsInv
  BY DEF BackInv, MineInv
<1>2. MineInv' /\ ListsInv' /\ Grows
  BY <1>1, MineNext, NextKeepsLists, NextKeepsOrder
<1>3. OutcomesAsBefore' /\ \A c \in Caller : HalfUndone(c)'
  BY <1>2, NextKeepsOutcomes, NextKeepsHalves
<1> QED BY <1>2, <1>3 DEF BackInv

\* Undo of the newest roll back, one that has succeeded, leaves every file as it
\* was when that roll back compared it, unless it reports a problem: however often
\* it has been tried, broken off or overtaken by Delete kept versions before.
THEOREM UndoRestoresAll == Spec => []UndoPutsBack
<1>1. Init => BackInv
  BY BackInit
<1>2. BackInv /\ [Next]_vars => BackInv'
  BY BackNext
<1>3. BackInv => UndoPutsBack
  <2> SUFFICES ASSUME BackInv,
                      NEW c \in Caller, Ending(c), ~call[c].bad, call[c].man.status = "done",
                      call[c].roll \notin late, \A r \in Roll : call[c].roll \notin older[r],
                      NEW f \in File \ made
               PROVE  live[f] = before[call[c].roll][f]
    BY DEF UndoPutsBack, PutsBack
  <2> DEFINE x == call[c]
  <2>1. RecordInv /\ Is(c, "undoing") /\ x.todo = {} /\ x.then = {} /\ Last(x.roll)
    BY DEF BackInv, MineInv, Ending, Last
  <2>2. x \in Call /\ x # Idle /\ x.op = "undo" /\ x.roll \in Roll
    BY <2>1, UndoIsUndo
  <2>3. x.man.moved \in SUBSET File /\ x.man.restored \in SUBSET File
    BY <2>2, ManType DEF Manifest
  <2>4. Outcome(x.roll, x.man.moved, x.man.restored)
    BY <2>2 DEF Outcome, Does
  <2>5. AsBefore(x.roll, x.man.moved, x.man.restored)
    BY <2>2, <2>3, <2>4 DEF BackInv, OutcomesAsBefore
  <2>6. CASE f \in x.man.moved
    BY <2>1, <2>6 DEF BackInv, HalfUndone
  <2>7. CASE f \in x.man.restored \ x.man.moved
    <3>1. live[f] = None
      BY <2>1, <2>7 DEF BackInv, HalfUndone, Listed
    <3>2. before[x.roll][f] = None
      BY <2>1, <2>5, <2>7 DEF AsBefore
    <3> QED BY <3>1, <3>2
  <2>8. CASE f \notin x.man.moved \cup x.man.restored
    BY <2>1, <2>5, <2>8 DEF AsBefore
  <2> QED BY <2>6, <2>7, <2>8
<1> QED BY <1>1, <1>2, <1>3, PTL DEF Spec
===============================================================================
