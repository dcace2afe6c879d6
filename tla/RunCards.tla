------------------------------- MODULE RunCards -------------------------------
(***************************************************************************)
(* The window's cards of the backups the service runs, and who tells the   *)
(* window about them:                                                      *)
(*   - the service keeps a progress entry per run (gui/api/server.go);     *)
(*   - a poller follows each run this window asked for                     *)
(*     (pollBackupProgress, gui/main.go);                                  *)
(*   - a watcher lists the service's runs and follows the others           *)
(*     (watchServiceRuns, gui/service_runs_watch.go);                      *)
(*   - the page (gui/frontend/src/App.jsx) turns their events into cards,  *)
(*     asks for the runs once when it is opened or reloaded, and waits for *)
(*     one part after another in a split backup.                           *)
(* An entry is "none", "queued", "running" (a run that has just begun too), *)
(* "ended" or, dropped ten minutes later or with the service, "gone".      *)
(***************************************************************************)
EXTENDS Naturals, Sequences

CONSTANTS
  Run,        \* the service's runs
  Own,        \* those this window asks for
  NoRun,
  MaxReloads, \* bound: reloads of the page
  MayLeave    \* the app may leave service mode

ASSUME OwnAssumption == Own \subseteq Run
ASSUME NoRunAssumption == NoRun \notin Run
ASSUME ReloadsAssumption == MaxReloads \in Nat
ASSUME LeaveAssumption == MayLeave \in BOOLEAN

VARIABLES
  svc,       \* backupProgress of the service
  poll,      \* the poller of an own run: not there, launched, or polling
  follow,    \* following, of watchServiceRuns
  seen,      \* the entry of its listing it is about to look at
  events,    \* on their way to the page
  cards,     \* runsRef.current
  focus,     \* focusRunRef.current
  ask,       \* GetBackupRuns: "no" call, "asked", or "listed" and not answered
  listing,   \* what it will answer
  waiting,   \* the part of a split backup waited for
  reloads,   \* so far
  stray      \* history: cards of a listing, of runs nobody followed then, and
             \* runs the watcher followed when the app left service mode

tellers == <<poll, follow, seen>>
page == <<cards, focus, ask, listing, waiting>>
cardsVars == <<svc, tellers, events, page, reloads, stray>>

Active == {"queued", "running"}
Status == Active \cup {"none", "ended", "gone"}
Card == {"none", "queued", "running"}
Event == [kind : Active \cup {"complete"}, run : Run, part : Own \cup {NoRun}]
NoCards == [r \in Run |-> "none"]

CardsTypeOK ==
  /\ svc \in [Run -> Status]
  /\ poll \in [Run -> {"no", "launched", "polling"}]
  /\ \A r \in Run \ Own : poll[r] = "no"
  /\ follow \subseteq Run
  /\ seen \in {NoRun} \cup [run : Run, status : Status]
  /\ events \in Seq(Event)
  /\ cards \in [Run -> Card] /\ listing \in [Run -> Card]
  /\ focus \in Run \cup {NoRun}
  /\ ask \in {"no", "asked", "listed"}
  /\ waiting \in Own \cup {NoRun}
  /\ reloads \in 0..MaxReloads
  /\ stray \subseteq Run

\* The window was opened before any run; opening it later is a Reload.
CardsInit ==
  /\ svc = [r \in Run |-> "none"]
  /\ poll = [r \in Run |-> "no"] /\ follow = {}
  /\ seen = NoRun /\ events = <<>>
  /\ cards = NoCards /\ focus = NoRun
  /\ ask = "no" /\ listing = NoCards
  /\ waiting = NoRun /\ reloads = 0 /\ stray = {}

-----------------------------------------------------------------------------
(* The service *)

ScheduledStartsPolled(r) ==
  /\ r \notin Own /\ svc[r] = "none"
  /\ svc' = [svc EXCEPT ![r] = "running"] /\ poll' = [poll EXCEPT ![r] = "launched"]
  /\ UNCHANGED <<follow, seen, events, page, reloads, stray>>

ScheduledStarts(r) ==
  /\ r \notin Own /\ svc[r] = "none"
  /\ svc' = [svc EXCEPT ![r] = "running"]
  /\ UNCHANGED <<tellers, events, page, reloads, stray>>

RunMoves(r) ==
  /\ \/ svc[r] = "running" /\ svc' = [svc EXCEPT ![r] = "queued"]
     \/ svc[r] = "queued" /\ svc' = [svc EXCEPT ![r] = "running"]
     \/ svc[r] \in Active /\ svc' = [svc EXCEPT ![r] = "ended"]
     \/ svc[r] = "ended" /\ svc' = [svc EXCEPT ![r] = "gone"]
  /\ UNCHANGED <<tellers, events, page, reloads, stray>>

ServiceRestarts ==
  /\ svc' = [r \in Run |-> IF svc[r] = "none" THEN "none" ELSE "gone"]
  /\ UNCHANGED <<tellers, events, page, reloads, stray>>

-----------------------------------------------------------------------------
(* The events; bound: one of a run is on its way at a time *)

Tell(kind, r, part) ==
  /\ \A i \in 1..Len(events) : events[i].run # r
  /\ events' = Append(events, [kind |-> kind, run |-> r, part |-> part])

Progress(r, status) == Tell(status, r, NoRun)

(* The poller *)

\* polledRuns.Store
PollStarts(r) ==
  /\ poll[r] = "launched" /\ poll' = [poll EXCEPT ![r] = "polling"]
  /\ UNCHANGED <<svc, follow, seen, events, page, reloads, stray>>

\* A poll: the status is asked for and told on in one step.
Poll(r) ==
  /\ poll[r] = "polling"
  /\ \/ svc[r] \in Active /\ Progress(r, svc[r]) /\ UNCHANGED poll
     \/ /\ svc[r] = "ended" /\ Tell("complete", r, r)
        /\ poll' = [poll EXCEPT ![r] = "no"]
  /\ UNCHANGED <<svc, follow, seen, page, reloads, stray>>

PollGivesUpSilently(r) ==
  /\ poll[r] = "polling" /\ svc[r] = "gone" /\ poll' = [poll EXCEPT ![r] = "no"]
  /\ UNCHANGED <<svc, follow, seen, events, page, reloads, stray>>

\* maxConsecutiveErrors: the service has no such run any more.
PollGivesUp(r) ==
  /\ poll[r] = "polling" /\ svc[r] = "gone" /\ Tell("complete", r, NoRun)
  /\ poll' = [poll EXCEPT ![r] = "no"]
  /\ UNCHANGED <<svc, follow, seen, page, reloads, stray>>

(* The watcher *)

\* An entry of a listing is looked at some time after it was read.
WatchLists(r) ==
  /\ seen = NoRun /\ seen' = [run |-> r, status |-> svc[r]]
  /\ UNCHANGED <<svc, poll, follow, events, page, reloads, stray>>

Polled(r) == poll[r] = "polling"     \* it is in polledRuns
Listed == seen.status \notin {"none", "gone"}

\* A run another follows, or finished before this window saw it, or not there.
WatchPasses(r) ==
  /\ \/ Listed /\ Polled(r)
     \/ r \notin follow /\ seen.status \notin Active
  /\ UNCHANGED <<events, follow, stray>>

WatchFollows(r) ==
  /\ ~Polled(r) /\ seen.status \in Active
  /\ Progress(r, seen.status)
  /\ follow' = follow \cup {r} /\ stray' = stray \ {r}

\* It is complete, or gone from the service.
WatchEnds(r) ==
  /\ r \in follow
  /\ (seen.status = "ended" /\ ~Polled(r)) \/ ~Listed
  /\ Tell("complete", r, NoRun)
  /\ follow' = follow \ {r} /\ UNCHANGED stray

WatchRun(r) ==
  /\ seen # NoRun /\ seen.run = r /\ seen' = NoRun
  /\ WatchPasses(r) \/ WatchFollows(r) \/ WatchEnds(r)
  /\ UNCHANGED <<svc, poll, page, reloads>>

\* The app leaves service mode: the watcher forgets what it followed and tells
\* nobody.  It lists again once the app is back.
LeavesService ==
  /\ MayLeave /\ seen = NoRun /\ follow # {}
  /\ follow' = {} /\ stray' = stray \cup follow
  /\ UNCHANGED <<svc, poll, seen, events, page, reloads>>

-----------------------------------------------------------------------------
(* The page *)

\* "Queued: ..." goes on the waiting list, never on the card.
QueuedArrives(e) ==
  /\ cards' = [cards EXCEPT ![e.run] = "queued"]
  /\ UNCHANGED <<focus, stray, waiting>>

ProgressArrives(e) ==
  /\ cards' = [cards EXCEPT ![e.run] = "running"]
  /\ IF focus = NoRun \/ cards'[focus] # "running"
     THEN focus' = e.run ELSE UNCHANGED focus
  /\ UNCHANGED <<stray, waiting>>

CompleteKeepsCard(e) ==
  /\ cards' = [cards EXCEPT ![e.run] = "none"]
  /\ focus' = IF focus = e.run THEN NoRun ELSE focus
  /\ waiting' = IF e.part \in {NoRun, waiting} THEN NoRun ELSE waiting
  /\ stray' = stray \ {e.run}

\* The listener of a split backup takes a completion that carries its part's
\* backup-id, or none.
CompleteArrives(e) ==
  /\ cards' = [cards EXCEPT ![e.run] = "none"]
  /\ LET next == {r \in Run : cards'[r] = "running"}
     IN IF focus \notin {NoRun, e.run} THEN UNCHANGED focus
        ELSE focus' \in IF next = {} THEN {NoRun} ELSE next
  /\ waiting' = IF e.part \in {NoRun, waiting} THEN NoRun ELSE waiting
  /\ stray' = stray \ {e.run}

Receive ==
  /\ events # <<>> /\ events' = Tail(events)
  /\ LET e == Head(events)
     IN \/ e.kind = "queued" /\ QueuedArrives(e)
        \/ e.kind = "running" /\ ProgressArrives(e)
        \/ e.kind = "complete" /\ CompleteArrives(e)
  /\ UNCHANGED <<svc, tellers, ask, listing, reloads>>

\* The page's state goes; so does what was on its way to it.
Reload ==
  /\ reloads < MaxReloads /\ reloads' = reloads + 1
  /\ cards' = NoCards /\ focus' = NoRun
  /\ ask' = "asked" /\ listing' = NoCards
  /\ waiting' = NoRun /\ events' = <<>> /\ stray' = {}
  /\ UNCHANGED <<svc, tellers>>

\* GetBackupRuns asks the service,
ListingTaken ==
  /\ ask = "asked" /\ ask' = "listed"
  /\ listing' = [r \in Run |-> IF svc[r] \notin Active THEN "none"
                               ELSE IF svc[r] = "queued" THEN "queued" ELSE "running"]
  /\ UNCHANGED <<svc, tellers, events, cards, focus,
                 waiting, reloads, stray>>

\* and its answer comes to the page.
ListingLands ==
  LET named == {r \in Run : listing[r] # "none"}
      shown == {r \in Run : listing[r] = "running"}
  IN /\ ask = "listed" /\ ask' = "no" /\ listing' = NoCards
     /\ cards' = [r \in Run |-> IF r \in named THEN listing[r] ELSE cards[r]]
     /\ IF focus = NoRun /\ shown # {}
        THEN focus' \in shown ELSE UNCHANGED focus
     /\ stray' = stray \cup {r \in named : /\ cards[r] = "none"
                                           /\ r \notin follow /\ poll[r] = "no"}
     /\ UNCHANGED <<svc, tellers, events, waiting, reloads>>

\* A backup the service is asked for: on its own, or as the next part of a
\* split one, with the listener armed before.
AsksForBackup(r) ==
  /\ r \in Own /\ svc[r] = "none"
  /\ svc' = [svc EXCEPT ![r] = "running"]
  /\ poll' = [poll EXCEPT ![r] = "launched"]
  /\ \/ waiting = NoRun /\ waiting' = r
     \/ UNCHANGED waiting
  /\ UNCHANGED <<follow, seen, events, cards, focus,
                 ask, listing, reloads, stray>>

-----------------------------------------------------------------------------
Tellers(r) ==
  PollStarts(r) \/ Poll(r) \/ PollGivesUp(r) \/ WatchLists(r) \/ WatchRun(r)

CardsNext ==
  \/ \E r \in Run : ScheduledStarts(r) \/ RunMoves(r) \/ AsksForBackup(r)
  \/ ServiceRestarts \/ LeavesService
  \/ \E r \in Run : Tellers(r)
  \/ Receive \/ Reload \/ ListingTaken \/ ListingLands

CardsSpec == CardsInit /\ [][CardsNext]_cardsVars

\* The pollers and the watcher go on, the watcher comes to every run, and the
\* page gets its events.
FairCardsSpec ==
  /\ CardsSpec /\ WF_cardsVars(Receive) /\ WF_cardsVars(ListingTaken) /\ WF_cardsVars(ListingLands)
  /\ \A r \in Run : /\ SF_cardsVars(WatchLists(r)) /\ WF_cardsVars(WatchRun(r))
                    /\ WF_cardsVars(PollStarts(r)) /\ WF_cardsVars(Poll(r) \/ PollGivesUp(r))
-----------------------------------------------------------------------------
(* Properties *)

\* The card in full is that of a run, and there is one while any run that has
\* had its turn is shown: it moves on when its run ends, whatever the order of
\* the events and of the listing a reloaded page asked for (the handlers of
\* backup:progress and backup:complete, focusOn).
CardMovesOn ==
  /\ focus # NoRun => cards[focus] # "none"
  /\ focus = NoRun => \A r \in Run : cards[r] # "running"

\* Its completion is on its way to the page.
EndComes(r) ==
  \E i \in 1..Len(events) : events[i].run = r /\ events[i].kind = "complete"

\* A card does not outlive its run: the poller or the watcher still follows
\* the run, or its completion is on its way, unless the card came from a
\* listing when nobody followed the run, or the app has left service mode since.
\* So it is when the service restarts,
\* when poller and watcher follow the same run and when the page is reloaded
\* (watchServiceRuns, pollBackupProgress, GetBackupRuns).
CardIsFollowed ==
  \A r \in Run : cards[r] # "none" =>
    r \in follow \/ poll[r] # "no" \/ EndComes(r) \/ r \in stray

\* A split backup does not wait for ever: the part it waits for is polled, or
\* the completion that ends the wait is on its way (executeSplitBackup).
PartIsFollowed ==
  waiting # NoRun =>
    poll[waiting] # "no" \/
      \E i \in 1..Len(events) :
        events[i].kind = "complete" /\ events[i].part \in {NoRun, waiting}

\* Nobody is left waiting for a run's end, card or part of a split backup
\* (watchServiceRuns, pollBackupProgress, executeSplitBackup).
EndIsTold == CardIsFollowed /\ PartIsFollowed

\* "only this part's completion counts" (executeSplitBackup)
OnlyThisPartCounts ==
  [][waiting # NoRun /\ waiting' = NoRun /\ reloads' = reloads
       => Head(events).run = waiting]_cardsVars

\* The watcher leaves a run this window started to its poller.
OwnRunsAreLeftAlone == follow \cap Own = {}

\* No card stays of a run that is over.
NoCardStays ==
  \A r \in Run : svc[r] \in {"ended", "gone"} ~> cards[r] = "none"
=============================================================================
