-------------------------- MODULE OperationQueueProofs --------------------------
(***************************************************************************)
(* Proofs about the operation queue, for every number of callers, groups    *)
(* and waiters, every limit and every number of calls.                      *)
(*                                                                          *)
(* The properties are not inductive: that a session finds its second free   *)
(* needs that the group's newest snapshot is no younger than the end of the *)
(* group's last backup unless that backup still runs, which needs that the  *)
(* group's backups take turns, which needs that the lists are numbered.     *)
(* Inv says all of it.                                                      *)
(*                                                                          *)
(* The last sections prove that Admits, which says what the loop of         *)
(* admitWaitingLocked comes to, accepts one set and no other, and that the  *)
(* set is what Walk, the loop taken literally, moves to opRunning.          *)
(***************************************************************************)
EXTENDS OperationQueue, FiniteSetTheorems, WellFoundedInduction, TLAPS

-----------------------------------------------------------------------------
(* What one admission guarantees, for every waiting list, every set of      *)
(* running operations and every limit.  The walk of admitWaitingLocked      *)
(* takes the tickets in the order of their numbers, so the arguments take   *)
(* the first or the last ticket of a set: natural numbers are well-founded. *)

\* A list of tickets as the queue holds it: numbered, no number twice.
Numbered(S) ==
  /\ \A t \in S : t.seq \in Nat
  /\ \A s, t \in S : s.seq = t.seq => s = t

\* A set of natural numbers has a least one.
LEMMA LeastNat ==
  ASSUME NEW T, T \subseteq Nat, T # {}
  PROVE  \E n \in T : \A k \in T : n <= k
<1> DEFINE R == {ss \in Nat \X Nat : ss[1] < ss[2]}
<1>1. IsWellFoundedOn(R, Nat)
  BY NatLessThanWellFounded DEF OpToRel
<1>2. PICK n \in T : \A k \in T : ~(<<k, n>> \in R)
  <2> HIDE DEF R
  <2> QED BY <1>1, WFMin
<1>3. \A k \in T : ~(k < n)
  BY <1>2
<1> QED BY <1>3

\* The oldest ticket of a list (the head of opWaiting).
LEMMA Oldest ==
  ASSUME NEW S, Numbered(S), S # {}
  PROVE  \E t \in S : \A s \in S : t.seq <= s.seq
<1> DEFINE Seqs == {t.seq : t \in S}
<1>1. Seqs \subseteq Nat /\ Seqs # {}
  BY DEF Numbered
<1>2. PICK n \in Seqs : \A k \in Seqs : n <= k
  <2> HIDE DEF Seqs
  <2> QED BY <1>1, LeastNat
<1> QED BY <1>2

\* The newest ticket of a list numbered up to top: the least gap to top.
LEMMA Newest ==
  ASSUME NEW S, Numbered(S), S # {}, NEW top \in Nat,
         \A t \in S : t.seq <= top
  PROVE  \E t \in S : \A s \in S : s.seq <= t.seq
<1> DEFINE Gaps == {top - t.seq : t \in S}
<1>1. Gaps \subseteq Nat /\ Gaps # {}
  BY DEF Numbered
<1>2. PICK n \in Gaps : \A k \in Gaps : n <= k
  <2> HIDE DEF Gaps
  <2> QED BY <1>1, LeastNat
<1>3. PICK t \in S : n = top - t.seq
  BY <1>2
<1>4. ASSUME NEW s \in S PROVE s.seq <= t.seq
  <2>1. n <= top - s.seq
    BY <1>2, <1>4
  <2> QED BY <2>1, <1>3, <1>4 DEF Numbered
<1> QED BY <1>3, <1>4

\* Operations that may overlap, two by two.
Compatible(S) == \A s, t \in S : s # t => MayOverlap(s, t)

\* Operations admitted together overlap neither each other nor those that run.
LEMMA AdmitsCompatible ==
  ASSUME NEW waiting, Numbered(waiting), NEW running, Compatible(running),
         NEW limit, NEW A \in SUBSET waiting, Admits(waiting, running, limit, A)
  PROVE  Compatible(running \cup A)
<1>1. ASSUME NEW t \in A, NEW r \in running \cup Before(A, t)
      PROVE  MayOverlap(r, t) /\ MayOverlap(t, r)
  <2>1. ~Blocked(t, limit, running \cup Before(A, t), Before(waiting \ A, t))
    BY <1>1 DEF Admits
  <2>2. t.kind # "exclusive" /\ ~Conflict(t, r)
    BY <1>1, <2>1 DEF Blocked
  <2> QED BY <2>2 DEF Conflict, MayOverlap
<1>2. ASSUME NEW s \in A, NEW t \in A, s # t
      PROVE  s \in Before(A, t) \/ t \in Before(A, s)
  BY <1>2 DEF Before, Numbered
<1>3. ASSUME NEW s \in running \cup A, NEW t \in running \cup A, s # t
      PROVE  MayOverlap(s, t)
  BY <1>1, <1>2, <1>3 DEF Compatible
<1> QED BY <1>3 DEF Compatible

\* An admission leaves nothing waiting in an idle queue: the oldest would start.
LEMMA AdmitsSomething ==
  ASSUME NEW waiting, Numbered(waiting), NEW running,
         NEW limit, NEW A \in SUBSET waiting, Admits(waiting, running, limit, A)
  PROVE  waiting \ A # {} => running \cup A # {}
<1> SUFFICES ASSUME waiting # {}, running \cup A = {} PROVE FALSE
  OBVIOUS
<1>1. PICK t \in waiting : \A s \in waiting : t.seq <= s.seq
  BY Oldest
<1>2. Before(waiting \ A, t) = {} /\ Before(A, t) = {}
  BY <1>1 DEF Before, Numbered
<1>3. ~Blocked(t, limit, running \cup Before(A, t), Before(waiting \ A, t))
  BY <1>2 DEF Blocked
<1> QED BY <1>3 DEF Admits

\* An admission that starts anything ends within the limit: the last ticket it
\* lets in found a free place.
LEMMA AdmitsWithin ==
  ASSUME NEW waiting, Numbered(waiting), NEW top \in Nat, \A t \in waiting : t.seq <= top,
         NEW running, IsFiniteSet(running), IsFiniteSet(waiting), NEW limit \in Nat \ {0},
         NEW A \in SUBSET waiting, Admits(waiting, running, limit, A), A # {}
  PROVE  Cardinality(running \cup A) <= limit
<1>1. Numbered(A) /\ \A t \in A : t.seq <= top
  BY DEF Numbered
<1>2. PICK t \in A : \A s \in A : s.seq <= t.seq
  BY <1>1, Newest
<1>3. Before(A, t) = A \ {t}
  BY <1>1, <1>2 DEF Before, Numbered
<1> DEFINE Others == running \cup (A \ {t})
<1>4. IsFiniteSet(Others) /\ Cardinality(Others) \in Nat
  <2>1. IsFiniteSet(A \ {t})
    BY FS_Subset
  <2> QED BY <2>1, FS_Union, FS_CardinalityType
<1>5. Others # {} => ~(Cardinality(Others) >= limit)
  <2>1. ~Blocked(t, limit, Others, Before(waiting \ A, t))
    BY <1>3 DEF Admits
  <2> QED BY <2>1 DEF Blocked
<1>6. running \cup A = Others \cup {t}
  OBVIOUS
<1> HIDE DEF Others
<1>7. Cardinality(Others) < limit
  <2>1. CASE Others = {}
    <3>1. Cardinality(Others) = 0
      BY <2>1, FS_EmptySet
    <3> QED BY <3>1
  <2>2. CASE Others # {}
    BY <2>2, <1>4, <1>5
  <2> QED BY <2>1, <2>2
<1>8. Cardinality(Others \cup {t}) = IF t \in Others THEN Cardinality(Others)
                                                 ELSE Cardinality(Others) + 1
  BY <1>4, FS_AddElement
<1>9. Cardinality(Others \cup {t}) <= limit
  <2> DEFINE n == Cardinality(Others)
  <2>1. n \in Nat /\ n < limit
    BY <1>4, <1>7
  <2>2. Cardinality(Others \cup {t}) \in {n, n + 1}
    BY <1>8
  <2> HIDE DEF n
  <2> QED BY <2>1, <2>2
<1> QED BY <1>6, <1>9

\* A ticket passed over while a later one starts does not run alone, and
\* conflicts with an operation that runs or was let in before it.
LEMMA AdmitsOrder ==
  ASSUME NEW waiting, Numbered(waiting), IsFiniteSet(waiting),
         NEW running, IsFiniteSet(running), NEW limit \in Nat,
         NEW A \in SUBSET waiting, Admits(waiting, running, limit, A),
         NEW t \in A, NEW w \in waiting \ A, w.seq < t.seq
  PROVE  /\ w.kind # "exclusive"
         /\ \E r \in running \cup Before(A, w) : Conflict(w, r)
         /\ \A r \in running \cup Before(A, w) : ~Conflict(t, r)
<1> DEFINE Run(x) == running \cup Before(A, x)
           Ahead(x) == Before(waiting \ A, x)
<1>1. ~Blocked(t, limit, Run(t), Ahead(t)) /\ Blocked(w, limit, Run(w), Ahead(w))
  BY DEF Admits
<1>2. Run(w) \subseteq Run(t) /\ Ahead(w) \subseteq Ahead(t) /\ w \in Ahead(t)
  BY DEF Before, Numbered
<1>3. w.kind # "exclusive" /\ \A v \in Ahead(w) : v.kind # "exclusive"
  BY <1>1, <1>2 DEF Blocked
<1>4. Run(w) # {} /\ (Cardinality(Run(w)) >= limit \/ \E r \in Run(w) : Conflict(w, r))
  BY <1>1, <1>3 DEF Blocked
<1>5. ~(Cardinality(Run(t)) >= limit) /\ \A r \in Run(t) : ~Conflict(t, r)
  BY <1>1, <1>2, <1>4 DEF Blocked
<1>6. Cardinality(Run(w)) <= Cardinality(Run(t)) /\ Cardinality(Run(t)) \in Nat
      /\ Cardinality(Run(w)) \in Nat
  <2>1. IsFiniteSet(Before(A, t))
    BY FS_Subset DEF Before
  <2>2. IsFiniteSet(Run(t))
    BY <2>1, FS_Union
  <2> HIDE DEF Run
  <2> QED BY <2>2, <1>2, FS_Subset, FS_CardinalityType
<1>7. \E r \in Run(w) : Conflict(w, r)
  BY <1>4, <1>5, <1>6
<1> QED BY <1>2, <1>3, <1>5, <1>7

-----------------------------------------------------------------------------
(* The queue *)

Tickets == opWaiting \cup opRunning

Lists ==
  /\ Numbered(Tickets)
  /\ IsFiniteSet(opWaiting) /\ IsFiniteSet(opRunning)
  /\ Cardinality(opRunning) <= MaxLimit

\* No snapshot is younger than its group's last end, unless its run goes on;
\* a run that works on a new one started after that end.
Seconds ==
  /\ \A g \in Group : lastSnapshot[g] <= now /\ groupEnded[g] <= now
  /\ \A g \in Group :
       \/ lastSnapshot[g] <= groupEnded[g]
       \/ \E t \in opRunning : t.group = g /\ phase[t.caller] = "begun"
  /\ \A t \in opRunning :
       /\ phase[t.caller] \in {"timer", "begun"} => MakesSnapshot(t)
       /\ phase[t.caller] = "working" /\ MakesSnapshot(t) => now > groupEnded[t.group]

Inv ==
  /\ TypeOK /\ Lists
  /\ OneTicketPerCall /\ RunningCompatible /\ NoStuckQueue
  /\ Seconds

-----------------------------------------------------------------------------

\* The limit in force is at least one and at most MaxLimit (clampRunLimit).
LEMMA ClampType ==
  ASSUME NEW n \in Int
  PROVE  Clamp(n) \in Nat \ {0} /\ Clamp(n) <= MaxLimit
BY LimitAssumption DEF Clamp

\* What an admission over the lists W and R leaves.
LEMMA AdmitKeeps ==
  ASSUME setting \in Int, NEW W, NEW R, Numbered(W \cup R), W \cap R = {},
         NEW top \in Nat, \A t \in W : t.seq <= top,
         IsFiniteSet(W), IsFiniteSet(R), Compatible(R), Cardinality(R) <= MaxLimit,
         Admit(W, R)
  PROVE  /\ opWaiting' \cup opRunning' = W \cup R /\ opWaiting' \cap opRunning' = {}
         /\ opWaiting' \subseteq W /\ R \subseteq opRunning'
         /\ IsFiniteSet(opWaiting') /\ IsFiniteSet(opRunning')
         /\ Cardinality(opRunning') <= MaxLimit
         /\ Compatible(opRunning')
         /\ opWaiting' # {} => opRunning' # {}
<1>1. PICK A \in SUBSET W : /\ Admits(W, R, Clamp(setting), A)
                            /\ opWaiting' = W \ A /\ opRunning' = R \cup A
  BY DEF Admit
<1>2. Numbered(W)
  BY DEF Numbered
<1>3. IsFiniteSet(A) /\ IsFiniteSet(W \ A)
  BY FS_Subset
<1>4. IsFiniteSet(R \cup A)
  BY <1>3, FS_Union
<1>5. Compatible(R \cup A)
  BY <1>1, <1>2, AdmitsCompatible
<1>6. W \ A # {} => R \cup A # {}
  BY <1>1, <1>2, AdmitsSomething
<1>7. Cardinality(R \cup A) <= MaxLimit
  <2>1. CASE A = {}
    <3>1. R \cup A = R
      BY <2>1
    <3> QED BY <3>1
  <2>2. CASE A # {}
    <3>1. Clamp(setting) \in Nat \ {0} /\ Clamp(setting) <= MaxLimit
      BY ClampType
    <3>2. Cardinality(R \cup A) <= Clamp(setting)
      BY <1>1, <1>2, <2>2, <3>1, AdmitsWithin
    <3>3. Cardinality(R \cup A) \in Nat
      BY <1>4, FS_CardinalityType
    <3> QED BY <3>1, <3>2, <3>3, LimitAssumption
  <2> QED BY <2>1, <2>2
<1> QED BY <1>1, <1>3, <1>4, <1>5, <1>6, <1>7

\* Every step that empties a place goes through this lemma: a ticket leaves W or
\* R, and the lists stay as Inv wants them.
LEMMA AdmitAfterLeaving ==
  ASSUME Inv, NEW W \in SUBSET opWaiting, NEW R \in SUBSET opRunning, Admit(W, R)
  PROVE  /\ opWaiting' \cup opRunning' = W \cup R /\ opWaiting' \cap opRunning' = {}
         /\ opWaiting' \subseteq W /\ R \subseteq opRunning'
         /\ Lists' /\ RunningCompatible' /\ NoStuckQueue'
<1>1. Numbered(W \cup R) /\ W \cap R = {}
  BY DEF Inv, TypeOK, Lists, Numbered, Tickets
<1>2. opSeq \in Nat /\ setting \in Int /\ \A t \in W : t.seq <= opSeq
  BY SettingAssumption, MaxCallsAssumption DEF Inv, TypeOK
<1>3. IsFiniteSet(W) /\ IsFiniteSet(R)
  BY FS_Subset DEF Inv, Lists
<1>4. Cardinality(R) <= MaxLimit
  <2>1. Cardinality(R) <= Cardinality(opRunning) /\ Cardinality(opRunning) <= MaxLimit
    BY FS_Subset DEF Inv, Lists
  <2>2. Cardinality(R) \in Nat /\ Cardinality(opRunning) \in Nat
    BY <1>3, FS_CardinalityType DEF Inv, Lists
  <2> QED BY <2>1, <2>2, LimitAssumption
<1>5. Compatible(R)
  BY DEF Inv, RunningCompatible, Compatible
<1>6. /\ opWaiting' \cup opRunning' = W \cup R /\ opWaiting' \cap opRunning' = {}
      /\ opWaiting' \subseteq W /\ R \subseteq opRunning'
      /\ IsFiniteSet(opWaiting') /\ IsFiniteSet(opRunning')
      /\ Cardinality(opRunning') <= MaxLimit
      /\ Compatible(opRunning')
      /\ opWaiting' # {} => opRunning' # {}
  BY <1>1, <1>2, <1>3, <1>4, <1>5, AdmitKeeps
<1>7. Lists'
  BY <1>1, <1>6 DEF Lists, Tickets, Numbered
<1> QED BY <1>6, <1>7 DEF RunningCompatible, Compatible, NoStuckQueue

\* A caller takes its ticket.  It held none, so its ticket is the only one with
\* its name, and the number is new.
LEMMA AcquireInv ==
  ASSUME Inv, NEW c \in Caller, Acquire(c)
  PROVE  Inv'
<1>1. PICK r \in Request :
        /\ Admit(opWaiting \cup {NewTicket(c, r)}, opRunning)
        /\ Move(c, IF NewTicket(c, r) \in opRunning' THEN "admitted" ELSE "queued")
  BY DEF Acquire
<1> DEFINE t == NewTicket(c, r)
           W == opWaiting \cup {t}
<1>2. /\ phase[c] = "idle" /\ opSeq < MaxCalls /\ opSeq' = opSeq + 1
      /\ stopped' = stopped \ {c}
      /\ UNCHANGED <<setting, now, groupEnded, lastSnapshot, waiter, horizon>>
  BY DEF Acquire, clock
<1>3. opSeq' \in 1..MaxCalls /\ opSeq \in Nat /\ setting \in Int
  BY <1>2, MaxCallsAssumption, SettingAssumption DEF Inv, TypeOK
<1>4. /\ t \in Ticket /\ TicketRequest(t) \in Request
      /\ t.caller = c /\ t.seq = opSeq'
  BY <1>2, <1>3 DEF NewTicket, Ticket, Request, TicketRequest, Kind
<1>5. \A s \in Tickets : s.caller # c /\ s.seq < t.seq /\ s.seq \in Nat
  BY <1>2, <1>3, <1>4 DEF Inv, TypeOK, OneTicketPerCall, Tickets
<1>6. t \notin Tickets /\ W \cap opRunning = {}
  BY <1>4, <1>5 DEF Inv, TypeOK, Tickets
<1>7. Numbered(W \cup opRunning)
  BY <1>3, <1>4, <1>5 DEF Inv, Lists, Numbered, Tickets
<1>8. IsFiniteSet(W)
  BY FS_AddElement DEF Inv, Lists
<1>9. \A s \in W : s.seq <= opSeq'
  BY <1>3, <1>4, <1>5 DEF Tickets
<1>10. Compatible(opRunning)
  BY DEF Inv, RunningCompatible, Compatible
<1>11. /\ opWaiting' \cup opRunning' = W \cup opRunning /\ opWaiting' \cap opRunning' = {}
       /\ opWaiting' \subseteq W /\ opRunning \subseteq opRunning'
       /\ IsFiniteSet(opWaiting') /\ IsFiniteSet(opRunning')
       /\ Cardinality(opRunning') <= MaxLimit
       /\ Compatible(opRunning')
       /\ opWaiting' # {} => opRunning' # {}
  <2>1. opSeq' \in Nat
    BY <1>3
  <2>2. IsFiniteSet(opRunning) /\ Cardinality(opRunning) <= MaxLimit
    BY DEF Inv, Lists
  <2>3. Admit(W, opRunning)
    BY <1>1
  <2> HIDE DEF W
  <2> QED BY <1>3, <1>6, <1>7, <1>8, <1>9, <1>10, <2>1, <2>2, <2>3, AdmitKeeps
<1>12. Lists' /\ RunningCompatible' /\ NoStuckQueue'
  BY <1>7, <1>11 DEF Lists, Tickets, Numbered, RunningCompatible, Compatible, NoStuckQueue
<1>13. phase' = [phase EXCEPT ![c] = IF t \in opRunning' THEN "admitted" ELSE "queued"]
  BY <1>1 DEF Move
<1>14. \A s \in Tickets : phase'[s.caller] = phase[s.caller]
  BY <1>5, <1>13 DEF Inv, TypeOK, Tickets, Ticket
<1>15. phase' \in [Caller -> Phase] /\ phase'[c] \in {"admitted", "queued"}
  BY <1>13 DEF Inv, TypeOK, Phase
<1>16. TypeOK'
  <2>1. \A s \in opWaiting' \cup opRunning' :
          s \in Ticket /\ s.seq \in 1..opSeq' /\ TicketRequest(s) \in Request
    BY <1>2, <1>3, <1>4, <1>11 DEF Inv, TypeOK
  <2>2. opSeq' \in 0..MaxCalls /\ stopped' \in SUBSET Caller
    BY <1>2, <1>3 DEF Inv, TypeOK
  <2> QED BY <1>2, <1>11, <1>15, <2>1, <2>2 DEF Inv, TypeOK, TicketRequest
<1>17. OneTicketPerCall'
  <2>1. \A s \in opWaiting' : phase'[s.caller] = "queued"
    BY <1>4, <1>11, <1>13, <1>14 DEF Inv, TypeOK, OneTicketPerCall, Tickets
  <2>2. \A s \in opRunning' : phase'[s.caller] # "idle"
    BY <1>4, <1>11, <1>14, <1>15 DEF Inv, OneTicketPerCall, Tickets
  <2>3. \A q, s \in opWaiting' \cup opRunning' : q.caller = s.caller => q = s
    BY <1>4, <1>5, <1>11 DEF Inv, OneTicketPerCall, Tickets
  <2>4. \A d \in Caller : phase'[d] # "idle" => \E s \in opWaiting' \cup opRunning' : s.caller = d
    BY <1>4, <1>11, <1>13 DEF Inv, TypeOK, OneTicketPerCall
  <2> QED BY <2>1, <2>2, <2>3, <2>4 DEF OneTicketPerCall
<1>18. Seconds'
  <2>1. \A s \in opRunning' \ opRunning : phase'[s.caller] \in {"admitted", "queued"}
    BY <1>4, <1>11, <1>14, <1>15 DEF Inv, OneTicketPerCall, Tickets
  <2>2. \A s \in opRunning : phase'[s.caller] = phase[s.caller]
    BY <1>14 DEF Tickets
  <2> QED BY <1>2, <1>11, <2>1, <2>2 DEF Inv, Seconds, MakesSnapshot
<1> QED BY <1>12, <1>16, <1>17, <1>18 DEF Inv

\* A ticket leaves the lists: a queued caller that is stopped, or Release.
LEMMA LeaveInv ==
  ASSUME Inv, NEW t \in Tickets,
         Admit(opWaiting \ {t}, opRunning \ {t}),
         Move(t.caller, "idle"),
         UNCHANGED <<setting, now, lastSnapshot, opSeq, stopped, horizon>>,
         Broadcast,
         \/ NoteEnded(t) /\ t \in opRunning
         \/ groupEnded' = groupEnded /\ phase[t.caller] = "queued"
  PROVE  Inv'
<1> DEFINE W == opWaiting \ {t}
           R == opRunning \ {t}
<1>1. /\ opWaiting' \cup opRunning' = W \cup R /\ opWaiting' \cap opRunning' = {}
      /\ opWaiting' \subseteq W /\ R \subseteq opRunning'
      /\ Lists' /\ RunningCompatible' /\ NoStuckQueue'
  <2>1. W \in SUBSET opWaiting /\ R \in SUBSET opRunning
    OBVIOUS
  <2> HIDE DEF W, R
  <2>2. Admit(W, R)
    BY DEF W, R
  <2> QED BY <2>1, <2>2, AdmitAfterLeaving
<1>2. t \in Ticket /\ t.caller \in Caller
  BY DEF Inv, TypeOK, Tickets, Ticket
<1>3. \A s \in opWaiting' \cup opRunning' : s \in Tickets /\ s.caller # t.caller
  BY <1>1 DEF Inv, OneTicketPerCall, Tickets
<1>4. /\ phase' = [phase EXCEPT ![t.caller] = "idle"]
      /\ \A s \in opWaiting' \cup opRunning' : phase'[s.caller] = phase[s.caller]
  BY <1>2, <1>3 DEF Move, Inv, TypeOK, Ticket, Tickets
<1>5. groupEnded' \in [Group -> Nat] /\ waiter' \in [Waiter -> {"idle", "asleep", "woken", "returned"}]
  BY DEF NoteEnded, Broadcast, Inv, TypeOK
<1>6. TypeOK'
  BY <1>1, <1>2, <1>3, <1>4, <1>5 DEF Inv, TypeOK, TicketRequest, Phase, Tickets
<1>7. OneTicketPerCall'
  <2>1. \A s \in opWaiting' : phase'[s.caller] = "queued"
    BY <1>1, <1>4 DEF Inv, OneTicketPerCall
  <2>2. \A s \in opRunning' : phase'[s.caller] # "idle"
    BY <1>3, <1>4 DEF Inv, OneTicketPerCall, Tickets
  <2>3. \A q, s \in opWaiting' \cup opRunning' : q.caller = s.caller => q = s
    BY <1>3 DEF Inv, OneTicketPerCall, Tickets
  <2>4. \A d \in Caller : phase'[d] # "idle" => \E s \in opWaiting' \cup opRunning' : s.caller = d
    BY <1>1, <1>2, <1>4 DEF Inv, TypeOK, OneTicketPerCall
  <2> QED BY <2>1, <2>2, <2>3, <2>4 DEF OneTicketPerCall
<1>8. Seconds'
  <2>1. \A s \in opRunning' \ opRunning : phase'[s.caller] = "queued"
    BY <1>1, <1>4 DEF Inv, OneTicketPerCall
  <2>2. \A g \in Group : lastSnapshot'[g] <= now' /\ groupEnded'[g] <= now'
    BY DEF NoteEnded, Inv, TypeOK, Seconds
  <2>3. ASSUME NEW g \in Group
        PROVE  \/ lastSnapshot'[g] <= groupEnded'[g]
               \/ \E s \in opRunning' : s.group = g /\ phase'[s.caller] = "begun"
    <3>1. CASE lastSnapshot[g] <= groupEnded[g]
      BY <3>1, <2>3 DEF NoteEnded, Inv, TypeOK, Seconds
    <3>2. CASE \E s \in R : s.group = g /\ phase[s.caller] = "begun"
      BY <1>1, <1>4, <3>2
    <3>3. CASE t \in opRunning /\ t.group = g /\ phase[t.caller] = "begun"
      <4>1. MakesSnapshot(t) /\ NoteEnded(t)
        BY <3>3 DEF Inv, Seconds
      <4>2. groupEnded'[g] = now
        BY <4>1, <3>3, <2>3 DEF NoteEnded, Inv, TypeOK
      <4> QED BY <4>2 DEF Inv, Seconds
    <3> QED BY <3>1, <3>2, <3>3, <2>3 DEF Inv, Seconds
  <2>4. ASSUME NEW s \in opRunning'
        PROVE  /\ phase'[s.caller] \in {"timer", "begun"} => MakesSnapshot(s)
               /\ phase'[s.caller] = "working" /\ MakesSnapshot(s) => now' > groupEnded'[s.group]
    <3>1. CASE s \notin opRunning
      BY <2>1, <2>4, <3>1
    <3>2. CASE s \in opRunning
      <4>1. phase'[s.caller] = phase[s.caller] /\ s # t
        BY <1>3, <1>4, <2>4
      <4>2. MakesSnapshot(s) => groupEnded'[s.group] = groupEnded[s.group]
        <5> SUFFICES ASSUME MakesSnapshot(s), NoteEnded(t), t \in opRunning
                     PROVE  groupEnded'[s.group] = groupEnded[s.group]
          OBVIOUS
        <5>1. s.group # t.group
          BY <3>2, <4>1 DEF Inv, RunningCompatible, MayOverlap, MakesSnapshot
        <5> QED BY <5>1 DEF NoteEnded, Inv, TypeOK
      <4> QED BY <3>2, <4>1, <4>2 DEF Inv, Seconds
    <3> QED BY <3>1, <3>2
  <2> QED BY <2>2, <2>3, <2>4 DEF Seconds, MakesSnapshot
<1> QED BY <1>1, <1>6, <1>7, <1>8 DEF Inv

\* Another limit was saved: waiting tickets get their places, in the phase they
\* were in.
LEMMA AnewInv == Inv /\ AdmitAnew => Inv'
<1> SUFFICES ASSUME Inv, AdmitAnew PROVE Inv'
  OBVIOUS
<1>1. /\ opWaiting' \cup opRunning' = opWaiting \cup opRunning
      /\ opWaiting' \cap opRunning' = {}
      /\ opWaiting' \subseteq opWaiting /\ opRunning \subseteq opRunning'
      /\ Lists' /\ RunningCompatible' /\ NoStuckQueue'
  <2>1. Admit(opWaiting, opRunning)
    BY DEF AdmitAnew
  <2> QED BY <2>1, AdmitAfterLeaving
<1>2. UNCHANGED <<setting, now, groupEnded, lastSnapshot, opSeq, phase, stopped, waiter, horizon>>
  BY DEF AdmitAnew, clock
<1>3. TypeOK'
  BY <1>1, <1>2 DEF Inv, TypeOK, TicketRequest
<1>4. OneTicketPerCall'
  BY <1>1, <1>2 DEF Inv, OneTicketPerCall
<1>5. \A t \in opRunning' \ opRunning : phase[t.caller] = "queued"
  BY <1>1 DEF Inv, OneTicketPerCall
<1>6. Seconds'
  <2>1. \A g \in Group : lastSnapshot'[g] <= now' /\ groupEnded'[g] <= now'
    BY <1>2 DEF Inv, Seconds
  <2>2. \A g \in Group :
          \/ lastSnapshot'[g] <= groupEnded'[g]
          \/ \E t \in opRunning' : t.group = g /\ phase'[t.caller] = "begun"
    BY <1>1, <1>2 DEF Inv, Seconds
  <2>3. \A t \in opRunning' :
          /\ phase'[t.caller] \in {"timer", "begun"} => MakesSnapshot(t)
          /\ phase'[t.caller] = "working" /\ MakesSnapshot(t) => now' > groupEnded'[t.group]
    BY <1>2, <1>5 DEF Inv, Seconds
  <2> QED BY <2>1, <2>2, <2>3 DEF Seconds, MakesSnapshot
<1> QED BY <1>1, <1>3, <1>4, <1>6 DEF Inv

\* The lists' share of Inv speaks of the queue, of opSeq and of the phases.
LEMMA QueueUnchanged ==
  ASSUME Inv, UNCHANGED queue
  PROVE  Lists' /\ RunningCompatible' /\ NoStuckQueue'
BY DEF Inv, queue, Lists, Tickets, Numbered, RunningCompatible, NoStuckQueue

\* An admitted caller goes on: the phases of the others stay.
LEMMA MoveInv ==
  ASSUME Inv, NEW t \in opRunning, NEW p \in {"admitted", "timer", "working", "begun"},
         Move(t.caller, p), UNCHANGED <<setting, opSeq, queue, stopped, waiter, horizon>>,
         UNCHANGED <<now, groupEnded>>,
         p \in {"timer", "begun"} => MakesSnapshot(t),
         p = "working" /\ MakesSnapshot(t) => now > groupEnded[t.group],
         \/ phase[t.caller] # "begun" /\ UNCHANGED lastSnapshot
         \/ p = "begun" /\ lastSnapshot' = [lastSnapshot EXCEPT ![t.group] = now]
  PROVE  Inv'
<1>1. Lists' /\ RunningCompatible' /\ NoStuckQueue'
  BY QueueUnchanged DEF queue
<1>2. t \in Ticket /\ t.caller \in Caller
  BY DEF Inv, TypeOK, Ticket
<1>3. /\ phase' = [phase EXCEPT ![t.caller] = p] /\ phase'[t.caller] = p
      /\ opWaiting' = opWaiting /\ opRunning' = opRunning
  BY <1>2 DEF Move, queue, Inv, TypeOK
<1>4. \A s \in Tickets : s # t => phase'[s.caller] = phase[s.caller]
  BY <1>3 DEF Inv, TypeOK, OneTicketPerCall, Tickets, Ticket
<1>5. TypeOK'
  <2>1. phase' \in [Caller -> Phase]
    BY <1>3 DEF Inv, TypeOK, Phase
  <2>2. lastSnapshot' \in [Group -> Nat]
    BY DEF Inv, TypeOK
  <2> QED BY <1>3, <2>1, <2>2 DEF Inv, TypeOK, TicketRequest, queue
<1>6. OneTicketPerCall'
  <2>1. \A s \in opWaiting : s # t
    BY DEF Inv, TypeOK
  <2>2. \A d \in Caller : phase'[d] # "idle" => phase[d] # "idle" \/ d = t.caller
    BY <1>3 DEF Inv, TypeOK
  <2> QED BY <1>3, <1>4, <2>1, <2>2 DEF Inv, OneTicketPerCall, Tickets
<1>7. Seconds'
  <2>1. \A g \in Group : lastSnapshot'[g] <= now' /\ groupEnded'[g] <= now'
    BY DEF Inv, TypeOK, Seconds
  <2>2. ASSUME NEW g \in Group
        PROVE  \/ lastSnapshot'[g] <= groupEnded'[g]
               \/ \E s \in opRunning' : s.group = g /\ phase'[s.caller] = "begun"
    <3>1. CASE p = "begun" /\ t.group = g
      BY <1>3, <3>1
    <3>2. CASE ~(p = "begun" /\ t.group = g)
      <4>1. lastSnapshot'[g] = lastSnapshot[g]
        BY <3>2, <2>2 DEF Inv, TypeOK
      <4>2. \A s \in opRunning : s.group = g /\ phase[s.caller] = "begun"
               => phase'[s.caller] = "begun"
        BY <1>3, <1>4, <3>2 DEF Tickets
      <4> QED BY <1>3, <4>1, <4>2, <2>2 DEF Inv, Seconds
    <3> QED BY <3>1, <3>2
  <2>3. \A s \in opRunning' :
          /\ phase'[s.caller] \in {"timer", "begun"} => MakesSnapshot(s)
          /\ phase'[s.caller] = "working" /\ MakesSnapshot(s) => now' > groupEnded'[s.group]
    BY <1>3, <1>4 DEF Inv, Seconds, Tickets
  <2> QED BY <2>1, <2>2, <2>3 DEF Seconds, MakesSnapshot
<1> QED BY <1>1, <1>5, <1>6, <1>7 DEF Inv

\* A stop, the setting and the waiters touch neither the lists nor the phases.
LEMMA AsideInv ==
  ASSUME Inv, UNCHANGED <<clock, opSeq, queue, phase>>,
         setting' \in Setting, stopped' \in SUBSET Caller,
         waiter' \in [Waiter -> {"idle", "asleep", "woken", "returned"}],
         horizon' \in [Waiter -> Nat]
  PROVE  Inv'
<1>1. Lists' /\ RunningCompatible' /\ NoStuckQueue'
  BY QueueUnchanged
<1>2. TypeOK'
  BY DEF Inv, TypeOK, clock, queue, TicketRequest
<1>3. OneTicketPerCall'
  BY DEF Inv, OneTicketPerCall, queue
<1>4. Seconds'
  BY DEF Inv, Seconds, queue, clock, MakesSnapshot
<1> QED BY <1>1, <1>2, <1>3, <1>4 DEF Inv

LEMMA InitInv == Init => Inv
<1> SUFFICES ASSUME Init PROVE Inv
  OBVIOUS
<1>1. IsFiniteSet({}) /\ Cardinality({}) = 0
  BY FS_EmptySet
<1> QED BY <1>1, LimitAssumption, MaxCallsAssumption
        DEF Init, Inv, TypeOK, Lists, Tickets, Numbered, OneTicketPerCall, Phase,
            RunningCompatible, NoStuckQueue, Seconds

LEMMA NextInv == Inv /\ [Next]_vars => Inv'
<1> SUFFICES ASSUME Inv, [Next]_vars PROVE Inv'
  OBVIOUS
<1>1. CASE UNCHANGED vars
  <2>1. setting' \in Setting /\ stopped' \in SUBSET Caller /\ horizon' \in [Waiter -> Nat]
        /\ waiter' \in [Waiter -> {"idle", "asleep", "woken", "returned"}]
    BY <1>1 DEF vars, Inv, TypeOK
  <2> QED BY <1>1, <2>1, AsideInv DEF vars
<1>2. ASSUME NEW c \in Caller, Acquire(c) PROVE Inv'
  BY <1>2, AcquireInv
<1>3. ASSUME NEW t \in opWaiting \cup opRunning, SeeAdmitted(t) PROVE Inv'
  BY <1>3, MoveInv DEF SeeAdmitted, clock
<1>4. ASSUME NEW t \in opWaiting \cup opRunning, CancelQueued(t) PROVE Inv'
  <2>1. Admit(opWaiting \ {t}, opRunning \ {t})
    <3>1. t \in opRunning => opWaiting \ {t} = opWaiting
      BY DEF Inv, TypeOK
    <3>2. t \notin opRunning => opRunning \ {t} = opRunning
      OBVIOUS
    <3> QED BY <1>4, <3>1, <3>2 DEF CancelQueued
  <2> QED BY <1>4, <2>1, LeaveInv DEF CancelQueued, clock, Tickets
<1>5. ASSUME NEW t \in opWaiting \cup opRunning, CheckSecond(t) PROVE Inv'
  <2>1. CASE NewSecond(t)
    BY <1>5, <2>1, MoveInv DEF CheckSecond, clock, NewSecond
  <2>2. CASE ~NewSecond(t)
    BY <1>5, <2>2, MoveInv DEF CheckSecond, clock, NewSecond
  <2> QED BY <2>1, <2>2
<1>6. ASSUME NEW t \in opWaiting \cup opRunning, TimerFires(t) PROVE Inv'
  BY <1>6, MoveInv DEF TimerFires, clock
<1>7. ASSUME NEW t \in opWaiting \cup opRunning, Release(t) PROVE Inv'
  <2>1. opWaiting \ {t} = opWaiting
    BY <1>7 DEF Release, Inv, TypeOK
  <2> QED BY <1>7, <2>1, LeaveInv DEF Release, Tickets
<1>8. ASSUME NEW t \in opRunning, Connect(t) PROVE Inv'
  BY <1>8, MoveInv DEF Connect
<1>9. ASSUME NEW t \in opWaiting \cup opRunning, Stop(t) PROVE Inv'
  <2>1. t.caller \in Caller
    BY DEF Inv, TypeOK, Ticket
  <2>2. stopped' \in SUBSET Caller
    BY <1>9, <2>1 DEF Stop, Inv, TypeOK
  <2> QED BY <1>9, <2>2, AsideInv DEF Stop, Inv, TypeOK
<1>10. ASSUME NEW n \in Setting, SetLimit(n) PROVE Inv'
  BY <1>10, AsideInv DEF SetLimit, Inv, TypeOK
<1>14. CASE AdmitAnew
  BY <1>14, AnewInv
<1>11. ASSUME NEW w \in Waiter, BeginWait(w) PROVE Inv'
  <2>1. opSeq \in Nat
    BY MaxCallsAssumption DEF Inv, TypeOK
  <2> QED BY <1>11, <2>1, AsideInv DEF BeginWait, Inv, TypeOK
<1>12. ASSUME NEW w \in Waiter, Wake(w) PROVE Inv'
  BY <1>12, AsideInv DEF Wake, Inv, TypeOK
<1>13. ASSUME Tick PROVE Inv'
  <2>1. Lists' /\ RunningCompatible' /\ NoStuckQueue'
    BY <1>13, QueueUnchanged DEF Tick
  <2>2. now \in Nat /\ now' = now + 1 /\ opWaiting' = opWaiting /\ opRunning' = opRunning
    BY <1>13 DEF Tick, queue, Inv, TypeOK
  <2>3. TypeOK'
    BY <1>13, <2>2 DEF Tick, Inv, TypeOK, TicketRequest
  <2>4. OneTicketPerCall'
    BY <1>13, <2>2 DEF Tick, Inv, OneTicketPerCall
  <2>5. groupEnded \in [Group -> Nat] /\ lastSnapshot \in [Group -> Nat]
    BY DEF Inv, TypeOK
  <2>6. \A t \in opRunning : MakesSnapshot(t) => groupEnded[t.group] \in Nat
    BY <2>5 DEF Inv, TypeOK, Ticket, MakesSnapshot
  <2>7. Seconds'
    BY <1>13, <2>2, <2>5, <2>6 DEF Tick, Inv, Seconds, MakesSnapshot
  <2> QED BY <2>1, <2>3, <2>4, <2>7 DEF Inv
<1> QED
  BY <1>1, <1>2, <1>3, <1>4, <1>5, <1>6, <1>7, <1>8, <1>9, <1>10, <1>11, <1>12, <1>13,
     <1>14
  DEF Next, InAcquire, Work, CancelTimer, Finish

\* The queue's invariant holds in every behaviour.
THEOREM Invariance == Safe => []Inv
<1>1. Init => Inv
  BY InitInv
<1>2. Inv /\ [Next]_vars => Inv'
  BY NextInv
<1> QED BY <1>1, <1>2, PTL DEF Safe

\* A call holds one ticket while it lasts, whatever Stop does to it: the cancel
\* path of acquireOperation leaks no place.
THEOREM NoPlaceLeaked == Safe => []OneTicketPerCall
BY Invariance, PTL DEF Inv

THEOREM TypeCorrect == Safe => []TypeOK
BY Invariance, PTL DEF Inv

\* Operations that run side by side may: the rules of the queue's opening comment
\* hold among everything admitWaitingLocked has let in.
THEOREM RunsAreCompatible == Safe => []RunningCompatible
BY Invariance, PTL DEF Inv

\* Nothing waits in an idle queue.
THEOREM QueueNeverStuck == Safe => []NoStuckQueue
BY Invariance, PTL DEF Inv

\* A backup about to open its session does so in a second later than its group's
\* newest snapshot: were that snapshot younger than the group's last end, its run
\* would still be there, and two runs of one group never are.
LEMMA InvSecondFree == Inv => SessionSecondFree
<1> SUFFICES ASSUME Inv, NEW t \in opRunning, phase[t.caller] = "working", MakesSnapshot(t)
             PROVE  now > lastSnapshot[t.group]
  BY DEF SessionSecondFree
<1>1. t.group \in Group
  BY DEF Inv, TypeOK, Ticket, MakesSnapshot
<1>2. ~\E s \in opRunning : s.group = t.group /\ phase[s.caller] = "begun"
  BY DEF Inv, RunningCompatible, MayOverlap, MakesSnapshot
<1>3. lastSnapshot[t.group] <= groupEnded[t.group] /\ now > groupEnded[t.group]
  BY <1>1, <1>2 DEF Inv, Seconds
<1>4. now \in Nat /\ groupEnded[t.group] \in Nat /\ lastSnapshot[t.group] \in Nat
  BY <1>1 DEF Inv, TypeOK
<1> QED BY <1>3, <1>4

THEOREM SecondsAreFree == Safe => []SessionSecondFree
BY Invariance, InvSecondFree, PTL

-----------------------------------------------------------------------------
(* The exits and shutdowns that wait *)

Waits ==
  /\ \A w \in Waiter : waiter[w] # "idle" => horizon[w] <= opSeq
  /\ ReturnsAfterEarlier
  /\ NoLostWakeup

\* A step that only lets tickets leave wakes every waiter.
LEMMA LeaveWaits ==
  ASSUME Inv, Waits, Broadcast, UNCHANGED <<opSeq, horizon>>,
         opWaiting' \cup opRunning' \subseteq opWaiting \cup opRunning
  PROVE  Waits'
BY DEF Inv, TypeOK, Waits, Broadcast, ReturnsAfterEarlier, NoLostWakeup, Pending

LEMMA NextWaits == Inv /\ Waits /\ [Next]_vars => Waits'
<1> SUFFICES ASSUME Inv, Waits, [Next]_vars PROVE Waits'
  OBVIOUS
<1>1. CASE UNCHANGED <<opSeq, queue, waiter, horizon>>
  BY <1>1 DEF Waits, ReturnsAfterEarlier, NoLostWakeup, Pending, queue
<1>2. ASSUME NEW c \in Caller, Acquire(c) PROVE Waits'
  <2>1. PICK r \in Request : Admit(opWaiting \cup {NewTicket(c, r)}, opRunning)
    BY <1>2 DEF Acquire
  <2>2. opWaiting' \cup opRunning' = opWaiting \cup opRunning \cup {NewTicket(c, r)}
    BY <2>1 DEF Admit
  <2>3. NewTicket(c, r).seq = opSeq + 1 /\ opSeq \in Nat /\ opSeq' = opSeq + 1
    BY <1>2, MaxCallsAssumption DEF NewTicket, Acquire, Inv, TypeOK
  <2>4. waiter' = waiter /\ horizon' = horizon
    BY <1>2 DEF Acquire
  <2>5. horizon \in [Waiter -> Nat]
    BY DEF Inv, TypeOK
  <2> QED BY <2>2, <2>3, <2>4, <2>5 DEF Waits, ReturnsAfterEarlier, NoLostWakeup, Pending
<1>3. ASSUME NEW t \in opWaiting \cup opRunning, CancelQueued(t) PROVE Waits'
  <2>1. opWaiting' \cup opRunning' \subseteq opWaiting \cup opRunning
    BY <1>3 DEF CancelQueued, Admit
  <2> QED BY <1>3, <2>1, LeaveWaits DEF CancelQueued
<1>4. ASSUME NEW t \in opWaiting \cup opRunning, Release(t) PROVE Waits'
  <2>1. opWaiting' \cup opRunning' \subseteq opWaiting \cup opRunning
    BY <1>4 DEF Release, Admit
  <2> QED BY <1>4, <2>1, LeaveWaits DEF Release
<1>5. ASSUME NEW w \in Waiter, BeginWait(w) PROVE Waits'
  <2>1. opSeq \in Nat /\ opSeq' = opSeq
    BY <1>5, MaxCallsAssumption DEF BeginWait, Inv, TypeOK
  <2> QED BY <1>5, <2>1 DEF BeginWait, queue, Inv, TypeOK, Waits, ReturnsAfterEarlier, NoLostWakeup, Pending
<1>6. ASSUME NEW w \in Waiter, Wake(w) PROVE Waits'
  BY <1>6 DEF Wake, queue, Inv, TypeOK, Waits, ReturnsAfterEarlier, NoLostWakeup, Pending
<1>7. ASSUME NEW t \in opWaiting \cup opRunning,
             SeeAdmitted(t) \/ CheckSecond(t) \/ TimerFires(t) \/ Connect(t) \/ Stop(t)
      PROVE  Waits'
  BY <1>1, <1>7 DEF SeeAdmitted, CheckSecond, TimerFires, Connect, Stop
<1>8. ASSUME NEW n \in Setting, SetLimit(n) PROVE Waits'
  BY <1>1, <1>8 DEF SetLimit
<1>11. CASE AdmitAnew
  <2>1. opWaiting' \cup opRunning' = opWaiting \cup opRunning
    BY <1>11 DEF AdmitAnew, Admit
  <2> QED BY <1>11, <2>1 DEF AdmitAnew, Waits, ReturnsAfterEarlier, NoLostWakeup, Pending
<1>9. CASE Tick
  BY <1>1, <1>9 DEF Tick
<1>10. CASE UNCHANGED vars
  BY <1>1, <1>10 DEF vars
<1> QED
  BY <1>2, <1>3, <1>4, <1>5, <1>6, <1>7, <1>8, <1>9, <1>10, <1>11
  DEF Next, InAcquire, Work, CancelTimer, Finish

\* waitForEarlierOperations neither returns while an operation that asked before it
\* goes on nor sleeps through the end of the last one.
THEOREM WaitersAreSafe == Safe => [](ReturnsAfterEarlier /\ NoLostWakeup)
<1>1. Init => Inv /\ Waits
  BY InitInv DEF Init, Waits, ReturnsAfterEarlier, NoLostWakeup, Inv
<1>2. (Inv /\ Waits) /\ [Next]_vars => (Inv /\ Waits)'
  BY NextInv, NextWaits
<1>3. Waits => ReturnsAfterEarlier /\ NoLostWakeup
  BY DEF Waits
<1> QED BY <1>1, <1>2, <1>3, PTL DEF Safe

-----------------------------------------------------------------------------
(* The order and the number of admissions *)

\* Whatever step changes the lists is one admission over lists W and R.
LEMMA ChangesByAdmit ==
  ASSUME Inv, [Next]_vars, queue' # queue
  PROVE  \E W, R : /\ Admit(W, R)
                   /\ Numbered(W) /\ IsFiniteSet(W) /\ (\A t \in W : t.seq <= opSeq')
                   /\ R \subseteq opRunning /\ IsFiniteSet(R)
<1>1. ASSUME NEW c \in Caller, Acquire(c)
      PROVE  \E W, R : /\ Admit(W, R)
                       /\ Numbered(W) /\ IsFiniteSet(W) /\ (\A t \in W : t.seq <= opSeq')
                       /\ R \subseteq opRunning /\ IsFiniteSet(R)
  <2>1. PICK r \in Request : Admit(opWaiting \cup {NewTicket(c, r)}, opRunning)
    BY <1>1 DEF Acquire
  <2> DEFINE W == opWaiting \cup {NewTicket(c, r)}
  <2>2. opSeq \in Nat /\ opSeq' = opSeq + 1 /\ NewTicket(c, r).seq = opSeq + 1
    BY <1>1, MaxCallsAssumption DEF Acquire, NewTicket, Inv, TypeOK
  <2>3. \A t \in opWaiting : t.seq \in Nat /\ t.seq <= opSeq
    BY <2>2 DEF Inv, TypeOK
  <2>4. Numbered(W) /\ \A t \in W : t.seq <= opSeq'
    BY <2>2, <2>3 DEF Inv, Lists, Numbered, Tickets
  <2>5. IsFiniteSet(W) /\ IsFiniteSet(opRunning)
    BY FS_AddElement DEF Inv, Lists
  <2> HIDE DEF W
  <2>6. Admit(W, opRunning)
    BY <2>1 DEF W
  <2> QED BY <2>4, <2>5, <2>6
<1>2. ASSUME NEW t \in Tickets, NEW W \in SUBSET opWaiting, NEW R \in SUBSET opRunning,
             Admit(W, R), opSeq' = opSeq
      PROVE  \E V, Q : /\ Admit(V, Q)
                       /\ Numbered(V) /\ IsFiniteSet(V) /\ (\A s \in V : s.seq <= opSeq')
                       /\ Q \subseteq opRunning /\ IsFiniteSet(Q)
  <2>1. IsFiniteSet(W) /\ IsFiniteSet(R)
    BY FS_Subset DEF Inv, Lists
  <2>2. Numbered(W) /\ \A s \in W : s.seq <= opSeq'
    BY <1>2 DEF Inv, TypeOK, Lists, Numbered, Tickets
  <2> QED BY <1>2, <2>1, <2>2
<1>3. ASSUME NEW t \in opWaiting \cup opRunning, CancelQueued(t) \/ Release(t)
      PROVE  \E W, R : /\ Admit(W, R)
                       /\ Numbered(W) /\ IsFiniteSet(W) /\ (\A s \in W : s.seq <= opSeq')
                       /\ R \subseteq opRunning /\ IsFiniteSet(R)
  <2>1. \E W \in SUBSET opWaiting, R \in SUBSET opRunning : Admit(W, R) /\ opSeq' = opSeq
    <3>1. CASE CancelQueued(t) /\ t \in opRunning
      BY <3>1 DEF CancelQueued
    <3>2. CASE CancelQueued(t) /\ t \notin opRunning
      BY <3>2 DEF CancelQueued
    <3>3. CASE Release(t)
      BY <3>3 DEF Release
    <3> QED BY <1>3, <3>1, <3>2, <3>3
  <2> QED BY <1>2, <2>1 DEF Tickets
<1>4. ASSUME UNCHANGED queue PROVE FALSE
  BY <1>4
<1>5. CASE AdmitAnew
  <2>1. /\ Numbered(opWaiting) /\ IsFiniteSet(opWaiting) /\ IsFiniteSet(opRunning)
        /\ \A t \in opWaiting : t.seq <= opSeq'
    BY <1>5, MaxCallsAssumption DEF AdmitAnew, Inv, TypeOK, Lists, Numbered, Tickets
  <2> QED BY <1>5, <2>1 DEF AdmitAnew
<1> QED
  BY <1>1, <1>3, <1>4, <1>5
  DEF Next, vars, InAcquire, Work, CancelTimer, Finish, SeeAdmitted, CheckSecond,
      TimerFires, Connect, Stop, SetLimit, Tick, BeginWait, Wake

\* No step starts an operation beyond the limit in force.
THEOREM AdmissionsWithinLimit == Safe => AdmitsWithinLimit
<1>1. Inv /\ [Next]_vars =>
        [opRunning' \ opRunning # {} => Cardinality(opRunning') <= Clamp(setting)]_vars
  <2> SUFFICES ASSUME Inv, [Next]_vars, opRunning' \ opRunning # {}
               PROVE  Cardinality(opRunning') <= Clamp(setting)
    OBVIOUS
  <2>1. PICK W, R : /\ Admit(W, R)
                    /\ Numbered(W) /\ IsFiniteSet(W) /\ (\A t \in W : t.seq <= opSeq')
                    /\ R \subseteq opRunning /\ IsFiniteSet(R)
    BY ChangesByAdmit DEF queue
  <2>2. PICK A \in SUBSET W : Admits(W, R, Clamp(setting), A) /\ opRunning' = R \cup A
    BY <2>1 DEF Admit
  <2>3. A # {}
    BY <2>1, <2>2
  <2>4. Clamp(setting) \in Nat \ {0}
    BY ClampType, SettingAssumption DEF Inv, TypeOK
  <2>5. opSeq' \in Nat
    <3>1. opSeq \in Nat
      BY MaxCallsAssumption DEF Inv, TypeOK
    <3>2. TypeOK'
      BY NextInv DEF Inv
    <3> QED BY <3>2, MaxCallsAssumption DEF TypeOK
  <2> QED BY <2>1, <2>2, <2>3, <2>4, <2>5, AdmitsWithin
<1> QED BY <1>1, Invariance, PTL DEF Safe, AdmitsWithinLimit

\* More operations running block no fewer tickets.
LEMMA BlockedByMore ==
  ASSUME NEW t, NEW limit \in Nat, NEW few, NEW many, few \subseteq many,
         IsFiniteSet(many), NEW ahead, Blocked(t, limit, few, ahead)
  PROVE  Blocked(t, limit, many, ahead)
<1>1. Cardinality(few) <= Cardinality(many) /\ Cardinality(few) \in Nat
      /\ Cardinality(many) \in Nat
  BY FS_Subset, FS_CardinalityType
<1>2. Cardinality(few) >= limit => Cardinality(many) >= limit
  BY <1>1
<1> QED BY <1>2 DEF Blocked

\* No operation waits that could run: whichever way the lists change, what is
\* left waiting is blocked by what then runs or by a roll back ahead of it.
THEOREM NobodyWaitsForNothing == Safe => NothingFreeWaits
<1>1. Inv /\ [Next]_vars =>
        [queue' # queue =>
           \A t \in opWaiting' :
             Blocked(t, Clamp(setting), opRunning', Before(opWaiting', t))]_vars
  <2> SUFFICES ASSUME Inv, [Next]_vars, queue' # queue, NEW t \in opWaiting'
               PROVE  Blocked(t, Clamp(setting), opRunning', Before(opWaiting', t))
    OBVIOUS
  <2>1. PICK W, R : /\ Admit(W, R)
                    /\ Numbered(W) /\ IsFiniteSet(W) /\ (\A s \in W : s.seq <= opSeq')
                    /\ R \subseteq opRunning /\ IsFiniteSet(R)
    BY ChangesByAdmit
  <2>2. PICK A \in SUBSET W : /\ Admits(W, R, Clamp(setting), A)
                              /\ opRunning' = R \cup A /\ opWaiting' = W \ A
    BY <2>1 DEF Admit
  <2>3. Blocked(t, Clamp(setting), R \cup Before(A, t), Before(W \ A, t))
    BY <2>2 DEF Admits
  <2>4. Clamp(setting) \in Nat
    BY ClampType, SettingAssumption DEF Inv, TypeOK
  <2>5. IsFiniteSet(R \cup A) /\ R \cup Before(A, t) \subseteq R \cup A
    <3>1. IsFiniteSet(A)
      BY <2>1, FS_Subset
    <3> QED BY <2>1, <3>1, FS_Union DEF Before
  <2>6. Blocked(t, Clamp(setting), R \cup A, Before(W \ A, t))
    BY <2>3, <2>4, <2>5, BlockedByMore
  <2> QED BY <2>2, <2>6
<1> QED BY <1>1, Invariance, PTL DEF Safe, NothingFreeWaits

\* Who starts before an operation that asked earlier leaves it waiting for its
\* group or for the machine or restore place; runs of one kind on one group keep
\* their order; nothing overtakes a roll back.
LEMMA StartsInOrder ==
  ASSUME Inv, [Next]_vars, NEW t \in opRunning' \ opRunning, NEW w \in opWaiting',
         w.seq < t.seq
  PROVE  /\ w.kind # "exclusive"
         /\ \E r \in opRunning' : ~MayOverlap(w, r)
         /\ ~(w.kind = t.kind /\ w.group = t.group)
<1>1. PICK W, R : /\ Admit(W, R)
                  /\ Numbered(W) /\ IsFiniteSet(W) /\ (\A s \in W : s.seq <= opSeq')
                  /\ R \subseteq opRunning /\ IsFiniteSet(R)
  BY ChangesByAdmit DEF queue
<1>2. PICK A \in SUBSET W : /\ Admits(W, R, Clamp(setting), A)
                            /\ opRunning' = R \cup A /\ opWaiting' = W \ A
  BY <1>1 DEF Admit
<1>3. t \in A /\ w \in W \ A
  BY <1>1, <1>2
<1>4. Clamp(setting) \in Nat
  BY ClampType, SettingAssumption DEF Inv, TypeOK
<1>5. /\ w.kind # "exclusive"
      /\ \E r \in R \cup Before(A, w) : Conflict(w, r)
      /\ \A r \in R \cup Before(A, w) : ~Conflict(t, r)
  BY <1>1, <1>2, <1>3, <1>4, AdmitsOrder
<1>6. \E r \in opRunning' : ~MayOverlap(w, r)
  BY <1>2, <1>5 DEF Conflict, MayOverlap, Before
<1>7. ~(w.kind = t.kind /\ w.group = t.group)
  BY <1>5 DEF Conflict
<1> QED BY <1>5, <1>6, <1>7

\* "Whatever cannot start yet waits, in the order it asked."
THEOREM OrderIsKept == Safe => OrderKept
<1>1. Inv /\ [Next]_vars =>
        [\A t \in opRunning' \ opRunning, w \in opWaiting' :
           w.seq < t.seq => /\ w.kind # "exclusive"
                            /\ \E r \in opRunning' : ~MayOverlap(w, r)]_vars
  BY StartsInOrder
<1> QED BY <1>1, Invariance, PTL DEF Safe, OrderKept

\* The runs of one set start in the order they asked.
THEOREM GroupsAreFifo == Safe => FifoPerGroup
<1>1. Inv /\ [Next]_vars =>
        [\A t \in opRunning' \ opRunning, w \in opWaiting' :
           w.kind = t.kind /\ w.group = t.group => t.seq < w.seq]_vars
  <2> SUFFICES ASSUME Inv, [Next]_vars, NEW t \in opRunning' \ opRunning, NEW w \in opWaiting',
                      w.kind = t.kind, w.group = t.group
               PROVE  t.seq < w.seq
    OBVIOUS
  <2>1. ~(w.seq < t.seq)
    BY StartsInOrder
  <2>2. Inv'
    BY NextInv
  <2>3. w # t /\ w.seq \in Nat /\ t.seq \in Nat
    BY <2>2 DEF Inv, TypeOK
  <2>4. w.seq # t.seq
    BY <2>2, <2>3 DEF Inv, Lists, Numbered, Tickets
  <2> QED BY <2>1, <2>3, <2>4
<1> QED BY <1>1, Invariance, PTL DEF Safe, FifoPerGroup

-----------------------------------------------------------------------------
(* The queue implements RunRules *)

\* A step that changes no phase of a ticket that stays, and only adds tickets in
\* other phases, is invisible to RunRules.
LEMMA Invisible ==
  ASSUME lastSnapshot' = lastSnapshot,
         \A t \in opRunning' : phase'[t.caller] \in {"working", "begun"}
           => t \in opRunning /\ phase'[t.caller] = phase[t.caller],
         \A t \in opRunning : phase[t.caller] \in {"working", "begun"}
           => t \in opRunning' /\ phase'[t.caller] = phase[t.caller]
  PROVE  UNCHANGED Rules!vars
<1>1. Granted' = Granted
  BY DEF Granted
<1>2. Begun' = Begun
  BY DEF Begun
<1> QED BY <1>1, <1>2 DEF Rules!vars

\* A ticket's phase changes alone.
LEMMA OnlyItsPhase ==
  ASSUME Inv, NEW t \in opWaiting \cup opRunning, NEW p, Move(t.caller, p)
  PROVE  /\ t \in NumberedTicket
         /\ phase'[t.caller] = p
         /\ \A s \in opWaiting \cup opRunning : s # t =>
              s.caller # t.caller /\ phase'[s.caller] = phase[s.caller]
<1>1. t.caller \in Caller /\ t \in NumberedTicket
  BY MaxCallsAssumption DEF Inv, TypeOK, Ticket, NumberedTicket
<1>2. phase' = [phase EXCEPT ![t.caller] = p] /\ phase \in [Caller -> Phase]
  BY DEF Move, Inv, TypeOK
<1>3. \A s \in opWaiting \cup opRunning : s # t => s.caller # t.caller /\ s.caller \in Caller
  BY DEF Inv, TypeOK, OneTicketPerCall, Ticket
<1> QED BY <1>1, <1>2, <1>3

LEMMA AcquireIsInvisible ==
  ASSUME Inv, NEW c \in Caller, Acquire(c)
  PROVE  UNCHANGED Rules!vars
<1>1. PICK r \in Request :
        /\ Admit(opWaiting \cup {NewTicket(c, r)}, opRunning)
        /\ Move(c, IF NewTicket(c, r) \in opRunning' THEN "admitted" ELSE "queued")
  BY DEF Acquire
<1>2. /\ phase[c] = "idle" /\ lastSnapshot' = lastSnapshot
      /\ phase' = [phase EXCEPT ![c] = IF NewTicket(c, r) \in opRunning' THEN "admitted" ELSE "queued"]
      /\ phase \in [Caller -> Phase]
  BY <1>1 DEF Acquire, clock, Move, Inv, TypeOK
<1>3. opRunning \subseteq opRunning'
      /\ opRunning' \subseteq opRunning \cup opWaiting \cup {NewTicket(c, r)}
  BY <1>1 DEF Admit
<1>4. \A t \in opRunning \cup opWaiting : t.caller # c /\ phase'[t.caller] = phase[t.caller]
  BY <1>2 DEF Inv, TypeOK, OneTicketPerCall, Ticket
<1>5. phase'[NewTicket(c, r).caller] \in {"admitted", "queued"}
  BY <1>2 DEF NewTicket
<1>6. \A t \in opWaiting : phase[t.caller] = "queued"
  BY DEF Inv, OneTicketPerCall
<1> QED BY <1>2, <1>3, <1>4, <1>5, <1>6, Invisible

\* A ticket leaves and was not granted, or was: a stutter or an End.
LEMMA LeaveImplements ==
  ASSUME Inv, NEW t \in opWaiting \cup opRunning, Move(t.caller, "idle"),
         NEW W, NEW R, Admit(W, R), W = opWaiting \ {t}, R = opRunning \ {t},
         lastSnapshot' = lastSnapshot
  PROVE  UNCHANGED Rules!vars \/ Rules!End(t)
<1>1. t \in NumberedTicket
      /\ \A s \in opWaiting \cup opRunning : s # t => phase'[s.caller] = phase[s.caller]
  BY OnlyItsPhase
<1>2. R \subseteq opRunning' /\ opRunning' \subseteq R \cup W
  BY DEF Admit
<1>3. \A s \in opWaiting : phase[s.caller] = "queued"
  BY DEF Inv, OneTicketPerCall
<1>4. Granted' = Granted \ {t}
  BY <1>1, <1>2, <1>3 DEF Granted
<1>5. Begun' = Begun \ {t}
  BY <1>1, <1>2, <1>3 DEF Begun
<1>6. CASE t \in Granted
  BY <1>4, <1>5, <1>6 DEF Rules!End
<1>7. CASE t \notin Granted
  <2>1. t \notin Begun
    BY <1>7 DEF Granted, Begun
  <2> QED BY <1>4, <1>5, <1>7, <2>1 DEF Rules!vars
<1> QED BY <1>6, <1>7

\* An admitted operation gets its handle: RunRules grants it a place.
LEMMA WorkIsGranted ==
  ASSUME Inv, NEW t \in opRunning, phase[t.caller] \in {"admitted", "timer"},
         Move(t.caller, "working"), UNCHANGED <<queue, lastSnapshot>>
  PROVE  Rules!Grant(t)
<1>1. /\ phase'[t.caller] = "working"
      /\ \A s \in opWaiting \cup opRunning : s # t => phase'[s.caller] = phase[s.caller]
  BY OnlyItsPhase
<1>2. t \notin Granted /\ Granted' = Granted \cup {t}
  BY <1>1 DEF Granted, queue
<1>3. Begun' = Begun
  BY <1>1 DEF Begun, queue
<1>4. \A s \in Granted : MayOverlap(s, t)
  BY <1>2 DEF Granted, Inv, RunningCompatible
<1>5. Cardinality(Granted) < MaxLimit
  <2>1. IsFiniteSet(Granted) /\ IsFiniteSet(opRunning)
    BY FS_Subset DEF Granted, Inv, Lists
  <2>2. IsFiniteSet(Granted \cup {t}) /\ Cardinality(Granted \cup {t}) = Cardinality(Granted) + 1
    BY <1>2, <2>1, FS_AddElement
  <2>3. Granted \cup {t} \subseteq opRunning
    BY DEF Granted
  <2>4. Cardinality(Granted \cup {t}) <= Cardinality(opRunning)
    BY <2>1, <2>3, FS_Subset
  <2>5. Cardinality(opRunning) <= MaxLimit
    BY DEF Inv, Lists
  <2>6. Cardinality(Granted) \in Nat /\ Cardinality(opRunning) \in Nat /\ MaxLimit \in Nat
    BY <2>1, FS_CardinalityType, LimitAssumption
  <2> QED BY <2>2, <2>4, <2>5, <2>6
<1>6. \A s \in Granted : Rules!MayOverlap(s, t)
  BY <1>4 DEF MayOverlap, Rules!MayOverlap
<1>7. Rules!Cardinality(Granted) < MaxLimit
  BY <1>5 DEF Cardinality, Rules!Cardinality
<1> QED BY <1>2, <1>3, <1>6, <1>7 DEF Rules!Grant

\* A backup opens its session: RunRules sees a later second.
LEMMA ConnectIsOpen ==
  ASSUME Inv, NEW t \in opRunning, Connect(t)
  PROVE  Rules!Open(t)
<1>1. /\ phase'[t.caller] = "begun"
      /\ \A s \in opWaiting \cup opRunning : s # t => phase'[s.caller] = phase[s.caller]
  BY OnlyItsPhase DEF Connect
<1>2. Granted' = Granted /\ Begun' = Begun \cup {t} /\ t \in Granted \ Begun
  BY <1>1 DEF Connect, queue, Granted, Begun
<1>3. t.group \in Group
  BY DEF Connect, Inv, TypeOK, Ticket, MakesSnapshot
<1>4. now > lastSnapshot[t.group]
  BY InvSecondFree DEF Connect, SessionSecondFree
<1>5. lastSnapshot' = [lastSnapshot EXCEPT ![t.group] = now] /\ lastSnapshot \in [Group -> Nat]
  BY DEF Connect, Inv, TypeOK
<1>6. lastSnapshot'[t.group] > lastSnapshot[t.group]
  BY <1>3, <1>4, <1>5
<1>7. \A g \in Group \ {t.group} : lastSnapshot'[g] = lastSnapshot[g]
  BY <1>5
<1>8. Rules!MakesSnapshot(t) /\ UNCHANGED Granted
  BY <1>2 DEF Connect, Rules!MakesSnapshot, MakesSnapshot
<1> QED BY <1>2, <1>6, <1>7, <1>8 DEF Rules!Open

LEMMA StepImplements == Inv /\ [Next]_vars => [Rules!Next]_(Rules!vars)
<1> SUFFICES ASSUME Inv, [Next]_vars PROVE Rules!Next \/ UNCHANGED Rules!vars
  OBVIOUS
<1>1. ASSUME UNCHANGED <<queue, phase, lastSnapshot>> PROVE UNCHANGED Rules!vars
  BY <1>1, Invisible DEF queue
<1>2. ASSUME NEW c \in Caller, Acquire(c) PROVE UNCHANGED Rules!vars
  BY <1>2, AcquireIsInvisible
<1>3. ASSUME NEW t \in opWaiting \cup opRunning, SeeAdmitted(t) PROVE UNCHANGED Rules!vars
  <2>1. phase'[t.caller] = "admitted"
        /\ \A s \in opWaiting \cup opRunning : s # t => phase'[s.caller] = phase[s.caller]
    BY <1>3, OnlyItsPhase DEF SeeAdmitted
  <2> QED BY <1>3, <2>1, Invisible DEF SeeAdmitted, queue, clock
<1>4. ASSUME NEW t \in opWaiting \cup opRunning, CancelQueued(t) \/ Release(t)
      PROVE  Rules!Next \/ UNCHANGED Rules!vars
  <2>1. t \in NumberedTicket
    BY MaxCallsAssumption DEF Inv, TypeOK, Ticket, NumberedTicket
  <2>2. Move(t.caller, "idle") /\ lastSnapshot' = lastSnapshot
    BY <1>4 DEF CancelQueued, Release, clock
  <2>3. Admit(opWaiting \ {t}, opRunning \ {t})
    <3>1. t \in opRunning => opWaiting \ {t} = opWaiting
      BY DEF Inv, TypeOK
    <3>2. t \notin opRunning => opRunning \ {t} = opRunning
      OBVIOUS
    <3>3. CASE CancelQueued(t)
      BY <3>1, <3>2, <3>3 DEF CancelQueued
    <3>4. CASE Release(t)
      BY <3>1, <3>4 DEF Release
    <3> QED BY <1>4, <3>3, <3>4
  <2>4. UNCHANGED Rules!vars \/ Rules!End(t)
    BY <2>2, <2>3, LeaveImplements
  <2> QED BY <2>1, <2>4 DEF Rules!Next
<1>5. ASSUME NEW t \in opRunning, CheckSecond(t) \/ TimerFires(t)
      PROVE  Rules!Next \/ UNCHANGED Rules!vars
  <2>1. t \in NumberedTicket
    BY MaxCallsAssumption DEF Inv, TypeOK, Ticket, NumberedTicket
  <2>2. CASE Move(t.caller, "working")
    BY <1>5, <2>1, <2>2, WorkIsGranted DEF CheckSecond, TimerFires, clock, Rules!Next
  <2>3. CASE Move(t.caller, "timer") /\ CheckSecond(t)
    <3>1. phase'[t.caller] = "timer"
          /\ \A s \in opWaiting \cup opRunning : s # t => phase'[s.caller] = phase[s.caller]
      BY <2>3, OnlyItsPhase
    <3> QED BY <2>3, <3>1, Invisible DEF CheckSecond, queue, clock
  <2> QED BY <1>5, <2>2, <2>3 DEF CheckSecond, TimerFires
<1>6. ASSUME NEW t \in opRunning, Connect(t) PROVE Rules!Next
  <2>1. t \in NumberedTicket
    BY MaxCallsAssumption DEF Inv, TypeOK, Ticket, NumberedTicket
  <2> QED BY <1>6, <2>1, ConnectIsOpen DEF Rules!Next
<1>7. CASE UNCHANGED vars
  BY <1>1, <1>7 DEF vars, clock
<1>8. ASSUME NEW t \in opWaiting \cup opRunning, Stop(t) PROVE UNCHANGED Rules!vars
  BY <1>1, <1>8 DEF Stop, clock
<1>9. ASSUME NEW n \in Setting, SetLimit(n) PROVE UNCHANGED Rules!vars
  BY <1>1, <1>9 DEF SetLimit, clock
<1>10. ASSUME NEW w \in Waiter, BeginWait(w) \/ Wake(w) PROVE UNCHANGED Rules!vars
  BY <1>1, <1>10 DEF BeginWait, Wake, clock
<1>11. CASE Tick
  BY <1>1, <1>11 DEF Tick
<1>12. CASE AdmitAnew
  <2>1. opRunning \subseteq opRunning' /\ opRunning' \subseteq opRunning \cup opWaiting
    BY <1>12 DEF AdmitAnew, Admit
  <2>2. \A t \in opWaiting : phase[t.caller] = "queued"
    BY DEF Inv, OneTicketPerCall
  <2>3. lastSnapshot' = lastSnapshot /\ phase' = phase
    BY <1>12 DEF AdmitAnew, clock
  <2> QED BY <2>1, <2>2, <2>3, Invisible
<1> QED
  BY <1>2, <1>3, <1>4, <1>5, <1>6, <1>7, <1>8, <1>9, <1>10, <1>11, <1>12
  DEF Next, InAcquire, Work, CancelTimer, Finish, CheckSecond, TimerFires

\* Whatever the callers, stops and settings, what the queue grants obeys the rules:
\* operations that may overlap, no more than the limit's maximum, and a snapshot
\* second that PBS has not seen in the group.
THEOREM QueueImplementsRules == Safe => RunsByTheRules
<1>1. Init => Rules!Init
  BY DEF Init, Rules!Init, Granted, Begun
<1> QED BY <1>1, Invariance, StepImplements, PTL DEF Safe, RunsByTheRules, Rules!Spec

-----------------------------------------------------------------------------
(* Admits is the loop: there is one set it accepts.  Were there none, the   *)
(* model would refuse a call the code serves; were there two, it would have *)
(* a choice the code has not.                                               *)

\* Two sets admitted do not differ in the first ticket they would differ in.
LEMMA AdmitsNoOther ==
  ASSUME NEW W, Numbered(W), NEW running, NEW limit,
         NEW A \in SUBSET W, NEW B \in SUBSET W,
         Admits(W, running, limit, A), Admits(W, running, limit, B)
  PROVE  A = B
<1> DEFINE D == (A \ B) \cup (B \ A)
<1> SUFFICES ASSUME D # {} PROVE FALSE
  OBVIOUS
<1>1. PICK t \in D : \A s \in D : t.seq <= s.seq
  <2>1. Numbered(D)
    BY DEF Numbered
  <2> HIDE DEF D
  <2> QED BY <2>1, Oldest
<1>2. \A s \in W : s.seq < t.seq => (s \in A <=> s \in B)
  <2>1. \A s \in W : s.seq \in Nat
    BY DEF Numbered
  <2>2. t \in W
    BY <1>1
  <2> QED BY <1>1, <2>1, <2>2
<1>3. Before(A, t) = Before(B, t) /\ Before(W \ A, t) = Before(W \ B, t)
  BY <1>2 DEF Before
<1>4. t \in A <=> t \in B
  BY <1>1, <1>3 DEF Admits
<1> QED BY <1>1, <1>4

-----------------------------------------------------------------------------
(* Walk is the loop taken literally.  Its function is defined by recursion    *)
(* over the ticket numbers, so it exists, and what it has moved up to a       *)
(* number is what Admits accepts of the tickets up to that number; both by    *)
(* the least number that would break it.                                      *)

\* g holds the lists of the walk after each ticket number up to n.
WalkedBy(g, W, running, limit, n) ==
  g = [k \in 0..n |-> IF k = 0 THEN [running |-> running, still |-> {}]
                      ELSE Meet(g[k - 1], W, k, limit)]

\* A walk can go on to the next number.
LEMMA WalkGoesOn ==
  ASSUME NEW W, NEW running, NEW limit, NEW n \in Nat, NEW g,
         WalkedBy(g, W, running, limit, n)
  PROVE  \E h : WalkedBy(h, W, running, limit, n + 1)
<1> DEFINE h == [k \in 0..(n + 1) |-> IF k = n + 1 THEN Meet(g[n], W, k, limit) ELSE g[k]]
<1>1. \A k \in 0..n : h[k] = g[k]
  OBVIOUS
<1>2. ASSUME NEW k \in 0..(n + 1)
      PROVE  h[k] = IF k = 0 THEN [running |-> running, still |-> {}]
                    ELSE Meet(h[k - 1], W, k, limit)
  <2>1. CASE k = n + 1
    <3>1. h[k] = Meet(g[n], W, k, limit) /\ k # 0 /\ k - 1 = n /\ n \in 0..n
      BY <2>1
    <3> HIDE DEF h
    <3> QED BY <1>1, <3>1
  <2>2. CASE k # n + 1
    <3>1. k \in 0..n /\ (k # 0 => k - 1 \in 0..n)
      BY <2>2
    <3>2. g[k] = IF k = 0 THEN [running |-> running, still |-> {}]
                 ELSE Meet(g[k - 1], W, k, limit)
      BY <3>1 DEF WalkedBy
    <3> HIDE DEF h
    <3> QED BY <1>1, <3>1, <3>2
  <2> QED BY <2>1, <2>2
<1>3. h = [k \in 0..(n + 1) |-> h[k]]
  OBVIOUS
<1> HIDE DEF h
<1>4. h = [k \in 0..(n + 1) |-> IF k = 0 THEN [running |-> running, still |-> {}]
                                ELSE Meet(h[k - 1], W, k, limit)]
  BY <1>2, <1>3
<1> QED BY <1>4 DEF WalkedBy

\* There is a walk up to every number.
LEMMA WalkExists ==
  ASSUME NEW W, NEW running, NEW limit, NEW last \in Nat
  PROVE  \E g : WalkedBy(g, W, running, limit, last)
<1> DEFINE Ends(n) == \E g : WalkedBy(g, W, running, limit, n)
           T == {n \in Nat : ~Ends(n)}
<1> SUFFICES ASSUME T # {} PROVE FALSE
  OBVIOUS
<1>1. PICK n \in T : \A k \in T : n <= k
  <2>1. T \subseteq Nat
    OBVIOUS
  <2> HIDE DEF T
  <2> QED BY <2>1, LeastNat
<1>2. n \in Nat /\ ~Ends(n)
  BY <1>1
<1>3. Ends(0)
  <2> DEFINE g == [k \in 0..0 |-> [running |-> running, still |-> {}]]
  <2>1. g = [k \in 0..0 |-> IF k = 0 THEN [running |-> running, still |-> {}]
                            ELSE Meet(g[k - 1], W, k, limit)]
    OBVIOUS
  <2> QED BY <2>1 DEF WalkedBy
<1>4. n - 1 \in Nat /\ Ends(n - 1) /\ (n - 1) + 1 = n
  <2>1. n # 0
    BY <1>2, <1>3
  <2>2. n - 1 \in Nat /\ ~(n <= n - 1) /\ (n - 1) + 1 = n
    BY <1>2, <2>1
  <2> HIDE DEF Ends
  <2> QED BY <1>1, <2>2
<1> QED BY <1>2, <1>4, WalkGoesOn

\* The lists hold what Admits accepts of W, and pass over the rest of it.
AdmittedOf(lists, W, running, limit) ==
  \E A \in SUBSET W : /\ Admits(W, running, limit, A)
                      /\ lists = [running |-> running \cup A, still |-> W \ A]

\* t is later than all of W.
IsLast(t, W) == t.seq \in Nat /\ \A s \in W : s.seq < t.seq

\* Meeting one ticket later than all of W does what Admits says.
LEMMA LetInAdmits ==
  ASSUME NEW W, Numbered(W), NEW running, NEW limit, NEW lists,
         AdmittedOf(lists, W, running, limit), NEW t, IsLast(t, W)
  PROVE  AdmittedOf(LetIn(lists, t, limit), W \cup {t}, running, limit)
<1>1. t.seq \in Nat /\ \A s \in W : s.seq < t.seq
  BY DEF IsLast
<1>2. PICK A \in SUBSET W : /\ Admits(W, running, limit, A)
                            /\ lists = [running |-> running \cup A, still |-> W \ A]
  BY DEF AdmittedOf
<1>3. t \notin W
  BY <1>1 DEF Numbered
<1> DEFINE Goes == ~Blocked(t, limit, running \cup A, W \ A)
           B == IF Goes THEN A \cup {t} ELSE A
<1>4. B \in SUBSET (W \cup {t}) /\ (t \in B <=> Goes) /\ \A s \in W : s \in B <=> s \in A
  BY <1>3
<1>5. LetIn(lists, t, limit) = [running |-> running \cup B, still |-> (W \cup {t}) \ B]
  <2>1. CASE Goes
    <3>1. LetIn(lists, t, limit) = [lists EXCEPT !.running = @ \cup {t}]
      BY <1>2, <2>1 DEF LetIn
    <3>2. running \cup B = (running \cup A) \cup {t} /\ (W \cup {t}) \ B = W \ A
      BY <1>3, <2>1
    <3> QED BY <1>2, <3>1, <3>2
  <2>2. CASE ~Goes
    <3>1. LetIn(lists, t, limit) = [lists EXCEPT !.still = @ \cup {t}]
      BY <1>2, <2>2 DEF LetIn
    <3>2. running \cup B = running \cup A /\ (W \cup {t}) \ B = (W \ A) \cup {t}
      BY <1>3, <2>2
    <3> QED BY <1>2, <3>1, <3>2
  <2> QED BY <2>1, <2>2
<1> HIDE DEF B
<1>6. Before(B, t) = A /\ Before((W \cup {t}) \ B, t) = W \ A
  BY <1>4, <1>1 DEF Before
<1>7. ASSUME NEW s \in W
      PROVE  Before(B, s) = Before(A, s) /\ Before((W \cup {t}) \ B, s) = Before(W \ A, s)
  <2>1. s.seq \in Nat /\ ~(t.seq < s.seq)
    BY <1>7, <1>1 DEF Numbered
  <2> QED BY <1>4, <2>1 DEF Before
<1>8. \A s \in W \cup {t} :
        s \in B <=> ~Blocked(s, limit, running \cup Before(B, s), Before((W \cup {t}) \ B, s))
  BY <1>2, <1>4, <1>6, <1>7 DEF Admits
<1> QED BY <1>4, <1>5, <1>8 DEF Admits, AdmittedOf

\* After each number the walk has moved what Admits accepts of the tickets up to it.
LEMMA WalkAdmits ==
  ASSUME NEW W, Numbered(W), \A t \in W : t.seq # 0, NEW last \in Nat,
         \A t \in W : t.seq <= last, NEW running, NEW limit
  PROVE  AdmittedOf(Walk(W, running, limit, last), W, running, limit)
<1> DEFINE g == CHOOSE f : f = [k \in 0..last |->
                                  IF k = 0 THEN [running |-> running, still |-> {}]
                                  ELSE Meet(f[k - 1], W, k, limit)]
<1>1. Walk(W, running, limit, last) = g[last]
  BY DEF Walk
<1>2. g = [k \in 0..last |-> IF k = 0 THEN [running |-> running, still |-> {}]
                             ELSE Meet(g[k - 1], W, k, limit)]
  <2>1. \E f : WalkedBy(f, W, running, limit, last)
    BY WalkExists
  <2>2. \E f : f = [k \in 0..last |-> IF k = 0 THEN [running |-> running, still |-> {}]
                                     ELSE Meet(f[k - 1], W, k, limit)]
    BY <2>1 DEF WalkedBy
  <2> QED BY ONLY <2>2, Zenon
<1> HIDE DEF g
<1> DEFINE UpTo(n) == {t \in W : t.seq <= n}
           Ends(n) == AdmittedOf(g[n], UpTo(n), running, limit)
           T == {n \in 0..last : ~Ends(n)}
<1>3. T = {}
  <2> SUFFICES ASSUME T # {} PROVE FALSE
    OBVIOUS
  <2>1. PICK n \in T : \A k \in T : n <= k
    <3>1. T \subseteq Nat
      OBVIOUS
    <3> HIDE DEF T
    <3> QED BY <3>1, LeastNat
  <2>2. n \in 0..last /\ ~Ends(n)
    BY <2>1
  <2>3. Ends(0)
    <3>1. UpTo(0) = {}
      BY DEF Numbered
    <3>2. g[0] = [running |-> running, still |-> {}]
      BY <1>2
    <3>3. g[0] = [running |-> running \cup {}, still |-> {} \ {}]
      BY <3>2
    <3> HIDE DEF UpTo
    <3> QED BY <3>1, <3>3 DEF Admits, AdmittedOf
  <2>4. n # 0 /\ n - 1 \in 0..last /\ Ends(n - 1)
    <3>1. n # 0
      BY <2>2, <2>3
    <3>2. n - 1 \in 0..last /\ ~(n <= n - 1)
      BY <2>2, <3>1
    <3> HIDE DEF Ends
    <3> QED BY <2>1, <3>1, <3>2
  <2>5. g[n] = Meet(g[n - 1], W, n, limit)
    BY <1>2, <2>2, <2>4
  <2>6. CASE \E t \in W : t.seq = n
    <3> DEFINE t == CHOOSE t \in W : t.seq = n
    <3>1. t \in W /\ t.seq = n
      BY <2>6
    <3>2. g[n] = LetIn(g[n - 1], t, limit)
      BY <2>5, <2>6 DEF Meet
    <3> HIDE DEF t
    <3>3. UpTo(n) = UpTo(n - 1) \cup {t}
      BY <2>2, <3>1 DEF Numbered
    <3>4. Numbered(UpTo(n - 1)) /\ IsLast(t, UpTo(n - 1))
      BY <2>2, <3>1 DEF Numbered, IsLast
    <3> HIDE DEF UpTo
    <3>5. AdmittedOf(LetIn(g[n - 1], t, limit), UpTo(n - 1) \cup {t}, running, limit)
      BY <2>4, <3>4, LetInAdmits
    <3> QED BY <2>2, <3>2, <3>3, <3>5
  <2>7. CASE ~ \E t \in W : t.seq = n
    <3>1. UpTo(n) = UpTo(n - 1)
      BY <2>2, <2>7 DEF Numbered
    <3>2. g[n] = g[n - 1]
      BY <2>5, <2>7 DEF Meet
    <3> HIDE DEF UpTo
    <3> QED BY <2>2, <2>4, <3>1, <3>2
  <2> QED BY <2>6, <2>7
<1>4. Ends(last)
  <2>1. last \in 0..last
    OBVIOUS
  <2> HIDE DEF Ends
  <2> QED BY <1>3, <2>1
<1>5. UpTo(last) = W
  OBVIOUS
<1> HIDE DEF UpTo
<1>6. AdmittedOf(g[last], W, running, limit)
  BY <1>4, <1>5
<1> QED BY <1>1, <1>6

\* The loop of admitWaitingLocked moves the set Admits accepts, in every state and
\* whatever part of the queue waits: all that is proved from Admits is proved of
\* the loop.
THEOREM AdmitsIsTheLoop == Safe => []LoopAdmits
<1>1. Inv => LoopAdmits
  <2> SUFFICES ASSUME Inv, NEW waiting \in SUBSET (opWaiting \cup opRunning),
                      NEW limit \in 1..MaxLimit
               PROVE  {A \in SUBSET waiting :
                         Admits(waiting, opRunning \ waiting, limit, A)}
                        = {Walk(waiting, opRunning \ waiting, limit, opSeq).running
                             \ (opRunning \ waiting)}
    BY DEF LoopAdmits
  <2> DEFINE running == opRunning \ waiting
             walked == Walk(waiting, running, limit, opSeq)
  <2>1. Numbered(waiting) /\ opSeq \in Nat /\ \A t \in waiting : t.seq <= opSeq /\ t.seq # 0
    <3>1. opSeq \in Nat /\ \A t \in Tickets : t.seq \in 1..opSeq
      BY MaxCallsAssumption DEF Inv, TypeOK, Tickets
    <3>2. Numbered(Tickets) /\ waiting \subseteq Tickets
      BY DEF Inv, Lists, Tickets
    <3> QED BY <3>1, <3>2 DEF Numbered
  <2> HIDE DEF walked
  <2>2. PICK A \in SUBSET waiting : /\ Admits(waiting, running, limit, A)
                                    /\ walked.running = running \cup A
    <3>1. AdmittedOf(walked, waiting, running, limit)
      BY <2>1, WalkAdmits DEF walked
    <3> QED BY <3>1 DEF AdmittedOf
  <2>3. walked.running \ running = A
    BY <2>2
  <2>4. \A B \in SUBSET waiting : Admits(waiting, running, limit, B) => B = A
    BY <2>1, <2>2, AdmitsNoOther
  <2>5. {B \in SUBSET waiting : Admits(waiting, running, limit, B)} = {A}
    <3> DEFINE Accepted == {B \in SUBSET waiting : Admits(waiting, running, limit, B)}
    <3>1. A \in Accepted
      BY <2>2
    <3>2. \A B \in Accepted : B = A
      BY <2>4
    <3> HIDE DEF Accepted
    <3>3. Accepted = {A}
      BY <3>1, <3>2
    <3> QED BY <3>3 DEF Accepted
  <2> QED BY <2>3, <2>5 DEF walked
<1> QED BY <1>1, Invariance, PTL
=================================================================================
