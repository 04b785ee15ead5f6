--------------------------- MODULE DispatchCustody ---------------------------
(***************************************************************************)
(* While deadlines are kept and no operator interferes, one invocation at  *)
(* a time works on a card, and whatever it leaves behind is looked after.  *)
(*                                                                         *)
(* The fence of DispatchLease says that a superseded attempt changes       *)
(* nothing.  Here nothing is superseded: the active run of a card is       *)
(* unique, every lock has a running run, so a claim never meets a lock, a  *)
(* lock in use never expires, and the tick recovers dead attempts only.    *)
(* A busy agent has an attempt or somebody who recounts it, as long as no  *)
(* restart leaves the tick a lock to recover.                              *)
(*                                                                         *)
(* Two theorems at the end do without the deadlines: what the fence alone  *)
(* says of the results (ResultsAreFenced), and how far an agent's running  *)
(* attempts may exceed its limit (OverrunStaysBounded).                    *)
(***************************************************************************)
EXTENDS DispatchLease

\* Renewals and statements meet their deadlines, operators send no commands, and no
\* claimed run fails before it started (it may be deferred).  Where malformed reports are counted, a card
\* that reached the limit waits for its recovery (recordProtocolFailure).
Undisturbed ==
  /\ ~Stalls /\ MaxCommands = 0 /\ "unready" \notin Outcomes
  /\ "invalid" \in Outcomes => "blocked" \notin Exhausted

-----------------------------------------------------------------------------
(* What an invocation relies on, by program point.                         *)

Fresh == {"claimed", "chosen", "admitted", "error"}
PreLock == Fresh \cup {"opened", "linked"}
Reported == {"parked", "scolded", "freed", "settling"}
Working == PreLock \cup Holding \cup Reported
Over == {"following", "worked", "refreshing"}

\* The run it claimed is still running and is its own.
OwnRun(i) == i.pc \in Working =>
  i.run \in Runs /\ run[i.run].status = "running" /\ run[i.run].card = i.card
\* Its card is not in recovery.
NoRecovery(i) == i.pc \in PreLock \cup Holding => card[i.card].recovery = "none"
\* Its run gets a heartbeat of this card, its own.
Unlinked(i) ==
  /\ i.pc \in Fresh \cup {"idle"} => i.beat = None
  /\ i.pc \in Fresh \cup {"opened"} => run[i.run].beat = None
  /\ i.pc = "opened" => beat[i.beat].card = i.card
Linked(i) ==
  /\ i.pc \in {"linked"} \cup Holding \cup Reported => run[i.run].beat = i.beat /\ i.beat \in Beats
  /\ i.pc \in {"linked"} \cup Holding => run[i.run].agent = i.agent
\* An attempt has the lock, unexpired, and the card is as it read it; before and
\* after, its heartbeat locks no card.
HasLock(i) == i.pc \in Holding =>
  /\ card[i.card].lock = i.beat /\ ~card[i.card].expired
  /\ SameColumns(card[i.card], i.view)
NoLock(i) == i.pc \notin Holding /\ i.beat # None => \A c \in Cards : card[c].lock # i.beat
\* A refused dispatch is backpressure.
MayReport(i) ==
  /\ i.pc \in Fresh => i.outcome = None
  /\ i.outcome \in Outcomes \cup {None}
\* What is reported has ended: the run first, or the heartbeat.
RunOver(i) == i.pc \in {"following", "worked"} => i.run \in Runs /\ run[i.run].status \in Ended
BeatOver(i) == i.pc \in {"parked", "settling"} \cup Over /\ i.beat # None =>
  beat[i.beat].status # "running"
Sound(i) ==
  /\ i.pc \in Working \cup Over \cup {"idle"}
  /\ OwnRun(i) /\ NoRecovery(i) /\ Unlinked(i) /\ Linked(i) /\ HasLock(i) /\ NoLock(i)
  /\ MayReport(i) /\ RunOver(i) /\ BeatOver(i)
Slots == \A w \in Workers : Sound(inv[w])
Apart == \A v, w \in Workers :
  v # w /\ inv[v].pc \in Working /\ inv[w].pc \in Working => inv[v].run # inv[w].run

(* The tables. *)
\* The unique index of active runs.
OneActive == \A q, r \in Runs :
  run[q].status \in Active /\ run[r].status \in Active /\ run[q].card = run[r].card => q = r
\* A queued run has no heartbeat; a heartbeat is of the card of its run.
RunBeats == \A r \in Runs :
  /\ run[r].status = "queued" => run[r].beat = None
  /\ run[r].beat # None => beat[run[r].beat].status # "absent"
                           /\ beat[run[r].beat].card = run[r].card
\* A lock is a heartbeat of its card, whose run is running.
LockedRuns == \A c \in Cards :
  /\ card[c].lock # None =>
       /\ beat[card[c].lock].card = c
       /\ \E r \in Runs : run[r].status = "running" /\ run[r].card = c
                          /\ run[r].beat = card[c].lock
  /\ card[c].expired => card[c].lock # None
\* A card with three malformed reports is in recovery.
RepairsLimited == "invalid" \in Outcomes =>
  \A c \in Cards : card[c].repairs = 3 => card[c].recovery # "none"

(* The tick. *)
\* A row it read expired is expired as long as the lock is the one it read.
StaleRows == \A s \in tick.stale :
  /\ s[2].lock \in Beats /\ beat[s[2].lock].locked /\ beat[s[2].lock].card = s[1]
  /\ card[s[1]].lock = s[2].lock => card[s[1]].expired
\* The attempt it recovers is dead: its run is still running, but no slot has its
\* heartbeat, and its card is unlocked and no longer in progress.
Recovering ==
  /\ tick.now # None <=> tick.pc \in {"freeAgent", "failBeat", "failRuns"}
  /\ tick.now # None =>
       LET c == tick.now[1]
           h == tick.now[2].lock IN
       /\ h \in Beats /\ beat[h].locked /\ beat[h].card = c
       /\ \A w \in Workers : inv[w].beat # h
       /\ card[c].lock = None /\ card[c].status # "in_progress"
       /\ \E r \in Runs : run[r].status = "running" /\ run[r].card = c /\ run[r].beat = h

CustodyInv ==
  /\ LeaseInv /\ cmd = NoCommand
  /\ Slots /\ Apart
  /\ OneActive /\ RunBeats /\ LockedRuns /\ RepairsLimited
  /\ StaleRows /\ Recovering

-----------------------------------------------------------------------------
(* What a restart may interrupt. *)

\* No restart falls between a heartbeat row and its lock, or between the lock or
\* card a failure released and the heartbeat it ends.
BeatsSurvive ==
  CrashPoints \cap {"opened", "linked", "scolded", "freed", "freeAgent", "failBeat"} = {}
\* ... or between the card and the run it ends.
RunsSurvive == CrashPoints \cap
  ({"linked", "freeAgent", "failBeat", "failRuns"} \cup Reported) = {}
\* No restart falls between a progress report and the next run, and no card is left
\* to its delegations.
CardsSurvive == "following" \notin CrashPoints /\ "delegated" \notin Outcomes

BeatsLookedAfter ==
  /\ tick.pc = "failRuns" => beat[tick.now[2].lock].status # "running"
  /\ \A h \in Beats : beat[h].status = "running" =>
       \/ \E w \in Workers : inv[w].beat = h
       \/ \E c \in Cards : card[c].lock = h
       \/ tick.now # None /\ tick.now[2].lock = h

RunsLookedAfter == \A r \in Runs : run[r].status = "running" =>
  \/ run[r].beat = None
  \/ \E w \in Workers : inv[w].run = r /\ inv[w].pc \in Working
  \/ \E c \in Cards : card[c].lock = run[r].beat
  \/ tick.now # None /\ tick.now[2].lock = run[r].beat

CardsLookedAfter ==
  /\ \A w \in Workers : inv[w].pc \in Reported => card[inv[w].card].status # "in_progress"
  /\ \A c \in Cards : card[c].status = "in_progress" =>
       \/ card[c].lock # None
       \/ ActiveRuns(c) # {}
       \/ \E w \in Workers : inv[w].card = c /\ inv[w].pc = "following"
       \/ AbsentRuns = {}

-----------------------------------------------------------------------------
\* Types of what a slot refers to.
LEMMA SlotRefs ==
  ASSUME LeaseInv, NEW w \in Workers
  PROVE  /\ inv[w] \in Invocation
         /\ inv[w].pc # "idle" => inv[w].card \in Cards /\ card[inv[w].card] \in CardRow
         /\ inv[w].run \in Runs \cup {None} /\ inv[w].beat \in Beats \cup {None}
         /\ inv[w].pc \in {"opened", "linked"} \cup Holding => inv[w].beat \in Beats
<1>1. inv[w] \in Invocation /\ Remembers(inv[w])
  BY SlotType DEF LeaseInv
<1>2. card \in [Cards -> CardRow]
  BY DEF LeaseInv, Rows, TypeOK
<1>3. QED
  BY <1>1, <1>2 DEF Remembers, Invocation

\* The tables are functions of rows.
LEMMA Tables ==
  ASSUME LeaseInv
  PROVE  /\ card \in [Cards -> CardRow] /\ run \in [Runs -> RunRow] /\ beat \in [Beats -> BeatRow]
         /\ inv \in [Workers -> Invocation] /\ tick \in TickRow
         /\ \A c \in Cards : card[c].lock \in Beats \cup {None} /\ card[c].status \in Statuses
                             /\ card[c].repairs \in 0..3
         /\ \A r \in Runs : run[r].beat \in Beats \cup {None}
         /\ None \notin Cards \cup Agents \cup Runs \cup Beats
<1>1. /\ card \in [Cards -> CardRow] /\ run \in [Runs -> RunRow] /\ beat \in [Beats -> BeatRow]
      /\ inv \in [Workers -> Invocation] /\ tick \in TickRow
  BY DEF LeaseInv, Rows, TypeOK, TickRow
<1>2. \A c \in Cards : card[c].lock \in Beats \cup {None} /\ card[c].status \in Statuses
                       /\ card[c].repairs \in 0..3
  BY <1>1 DEF CardRow
<1>3. \A r \in Runs : run[r].beat \in Beats \cup {None}
  BY <1>1 DEF RunRow
<1>4. QED
  BY <1>1, <1>2, <1>3, IdentityAssumption DEF IdentityAssumption

\* No two invocations work on the same run, card or heartbeat.
LEMMA WorkersApart ==
  ASSUME CustodyInv, NEW v \in Workers, NEW w \in Workers, v # w,
         inv[v].pc \in Working, inv[w].pc \in Working
  PROVE  inv[v].run # inv[w].run /\ inv[v].card # inv[w].card
<1>1. inv[v].run # inv[w].run
  BY DEF CustodyInv, Apart
<1>2. /\ inv[v].run \in Runs /\ run[inv[v].run].status = "running" /\ run[inv[v].run].card = inv[v].card
      /\ inv[w].run \in Runs /\ run[inv[w].run].status = "running" /\ run[inv[w].run].card = inv[w].card
  BY DEF CustodyInv, Slots, Sound, OwnRun
<1>3. inv[v].card # inv[w].card
  BY <1>1, <1>2 DEF CustodyInv, OneActive, Active
<1>4. QED
  BY <1>1, <1>3

\* Whoever works on a card has its only active run.
LEMMA OnlyRun ==
  ASSUME CustodyInv, NEW w \in Workers, inv[w].pc \in Working
  PROVE  /\ inv[w].run \in Runs /\ run[inv[w].run].status = "running"
         /\ run[inv[w].run].card = inv[w].card
         /\ \A r \in Runs : run[r].status \in Active /\ run[r].card = inv[w].card => r = inv[w].run
<1>1. inv[w].run \in Runs /\ run[inv[w].run].status = "running" /\ run[inv[w].run].card = inv[w].card
  BY DEF CustodyInv, Slots, Sound, OwnRun
<1>2. QED
  BY <1>1 DEF CustodyInv, OneActive, Active

\* The card of a claim or of a report is not locked: a lock would be the heartbeat of
\* its run.
LEMMA FreeCard ==
  ASSUME CustodyInv, NEW w \in Workers, inv[w].pc \in Working, inv[w].pc \notin Holding
  PROVE  card[inv[w].card].lock = None
<1> DEFINE i == inv[w]
<1>1. i.card \in Cards
  BY SlotRefs DEF CustodyInv, Working, PreLock, Fresh, Holding, Reported
<1> SUFFICES ASSUME card[i.card].lock # None PROVE FALSE
  OBVIOUS
<1>2. PICK r \in Runs : run[r].status = "running" /\ run[r].card = i.card
                        /\ run[r].beat = card[i.card].lock
  BY <1>1 DEF CustodyInv, LockedRuns
<1>3. r = i.run
  BY <1>2, OnlyRun DEF Active
<1>4. Unlinked(i) /\ Linked(i) /\ NoLock(i)
  BY DEF CustodyInv, Slots, Sound
<1>5. i.pc \in Fresh \cup {"opened"} \/ i.pc \in {"linked"} \cup Reported
  BY DEF Working, PreLock
<1>6. CASE i.pc \in Fresh \cup {"opened"}
  BY <1>2, <1>3, <1>4, <1>6 DEF Unlinked
<1>7. CASE i.pc \in {"linked"} \cup Reported
  <2>1. card[i.card].lock = i.beat
    BY <1>2, <1>3, <1>4, <1>7 DEF Linked
  <2>2. QED
    BY <1>1, <1>4, <2>1 DEF NoLock
<1>8. QED
  BY <1>5, <1>6, <1>7

\* An attempt has authority, and is in nobody's way.
LEMMA HoldingFacts ==
  ASSUME CustodyInv, NEW w \in Workers, inv[w].pc \in Holding
  PROVE  /\ StillCurrent(inv[w].card, inv[w].view, inv[w].run) /\ ResultAuthority(w)
         /\ card[inv[w].card].lock = inv[w].beat /\ ~card[inv[w].card].expired
         /\ card[inv[w].card].recovery = "none"
<1> DEFINE i == inv[w]
<1>1. i.pc \in Working
  BY DEF Working
<1>2. HasLock(i) /\ NoRecovery(i) /\ Linked(i)
  BY DEF CustodyInv, Slots, Sound
<1>3. StillCurrent(i.card, i.view, i.run)
  BY <1>1, <1>2, OnlyRun DEF HasLock, NoRecovery, StillCurrent, SameRow, Active
<1>4. QED
  BY <1>2, <1>3 DEF HasLock, NoRecovery, Linked, ResultAuthority

-----------------------------------------------------------------------------
(* The kinds of steps a worker takes.                                      *)

SlotsBut(w) == \A v \in Workers \ {w} : inv'[v] = inv[v]
CardsBut(c) == \A d \in Cards \ {c} : card'[d] = card[d]
RunsBut(r) == \A q \in Runs \ {r} : run'[q] = run[q]
BeatsBut(h) == \A x \in Beats \ {h} : beat'[x] = beat[x]
\* The slot keeps its run, its card and its heartbeat.
Stays(i, j) == j.run = i.run /\ j.card = i.card /\ j.beat = i.beat

\* To the next point, with nothing written.
Advances(w) ==
  LET i == inv[w]
      j == inv'[w] IN
  /\ UNCHANGED <<card, run, beat>>
  /\ Stays(i, j) /\ j.view = i.view
  /\ i.pc \in Fresh \/ j.agent = i.agent
  /\ \/ i.pc \in Fresh /\ j.pc \in Fresh /\ j.outcome = i.outcome
     \/ i.pc \in Holding /\ j.pc \in Holding /\ j.outcome \in {i.outcome} \cup Outcomes
     \/ i.pc = "worked" /\ j.pc = "refreshing" /\ j.outcome = i.outcome
\* A queued run is claimed.
Claims(w) ==
  LET j == inv'[w] IN
  /\ UNCHANGED <<card, beat>>
  /\ inv[w].pc = "idle" /\ j.pc = "claimed" /\ j.beat = None /\ j.outcome = None
  /\ j.run \in Runs /\ run[j.run].status = "queued" /\ run[j.run].card = j.card
  /\ card[j.card].recovery = "none"
  /\ run'[j.run].status = "running" /\ run'[j.run].card = j.card /\ run'[j.run].beat = run[j.run].beat
  /\ RunsBut(j.run)
\* A new heartbeat row for the card.
Opens(w) ==
  LET i == inv[w]
      j == inv'[w] IN
  /\ UNCHANGED <<card, run>>
  /\ i.pc = "admitted" /\ j.pc = "opened" /\ j.run = i.run /\ j.card = i.card
  /\ j.outcome = i.outcome
  /\ j.beat \in Beats /\ beat[j.beat].status = "absent"
  /\ beat'[j.beat].status = "running" /\ beat'[j.beat].card = i.card /\ ~beat'[j.beat].locked
  /\ BeatsBut(j.beat)
\* The run points at its heartbeat.
Links(w) ==
  LET i == inv[w]
      j == inv'[w] IN
  /\ UNCHANGED <<card, beat>>
  /\ i.pc = "opened" /\ j.pc = "linked" /\ Stays(i, j)
  /\ j.outcome = i.outcome
  /\ run'[i.run].status = run[i.run].status /\ run'[i.run].card = run[i.run].card
  /\ run'[i.run].beat = i.beat /\ run'[i.run].agent = j.agent /\ RunsBut(i.run)
\* The lock is taken, and the card read under it.
Acquires(w) ==
  LET i == inv[w]
      j == inv'[w]
      c == i.card IN
  /\ UNCHANGED run
  /\ i.pc = "linked" /\ j.pc = "locked" /\ Stays(i, j) /\ j.agent = i.agent
  /\ j.outcome = i.outcome
  /\ j.view = card'[c] /\ card'[c].lock = i.beat /\ ~card'[c].expired
  /\ card'[c].recovery = card[c].recovery /\ card'[c].repairs = card[c].repairs
  /\ CardsBut(c)
  /\ beat'[i.beat].card = beat[i.beat].card /\ beat'[i.beat].status = beat[i.beat].status
  /\ beat'[i.beat].locked /\ BeatsBut(i.beat)
\* The result of an attempt is written, and what follows it.
Concludes(w) ==
  LET i == inv[w]
      j == inv'[w]
      c == i.card
      h == i.beat
      r == i.run IN
  /\ i.pc \in Holding \cup Reported /\ j.pc \in Reported \cup {"following", "worked"}
  /\ Stays(i, j) /\ j.outcome = i.outcome
  /\ card'[c].lock = None /\ card'[c].expired = FALSE /\ CardsBut(c)
  /\ "invalid" \in Outcomes /\ card'[c].repairs = 3 => card'[c].recovery # "none"
  /\ \/ j.pc = "following" \/ "delegated" \in Outcomes
     \/ card'[c].status # "in_progress"
     \/ i.pc \in Reported /\ card'[c].status = card[c].status
  /\ beat'[h].card = beat[h].card /\ beat'[h].locked = beat[h].locked
  /\ beat'[h].status \in {beat[h].status} \cup Ended
  /\ j.pc \in {"parked", "settling", "following", "worked"} => beat'[h].status # "running"
  /\ BeatsBut(h)
  /\ run'[r].card = run[r].card /\ run'[r].beat = run[r].beat /\ run'[r].agent = run[r].agent
  /\ j.pc \in Reported => run'[r].status = run[r].status
  /\ j.pc \notin Reported => run'[r].status \in Ended
  /\ RunsBut(r)
\* A run of the card is active, or a row is used for a new one.
Enqueues(c) ==
  \/ UNCHANGED run /\ (ActiveRuns(c) # {} \/ AbsentRuns = {})
  \/ \E r \in Runs :
       /\ ActiveRuns(c) = {} /\ run[r].status = "absent"
       /\ run'[r].status = "queued" /\ run'[r].card = c /\ run'[r].beat = None
       /\ RunsBut(r)
Follows(w) ==
  /\ UNCHANGED <<card, beat>>
  /\ inv[w].pc = "following" /\ inv'[w].pc = "worked" /\ Stays(inv[w], inv'[w])
  /\ inv'[w].outcome = inv[w].outcome
  /\ Enqueues(inv[w].card)
\* A run that met backpressure is queued again.
Requeues(w) ==
  LET r == inv[w].run IN
  /\ UNCHANGED <<card, beat>>
  /\ inv[w].pc = "error" /\ inv'[w].pc = "refreshing" /\ Stays(inv[w], inv'[w])
  /\ inv'[w].outcome = inv[w].outcome
  /\ run'[r].status \in Active /\ run'[r].card = run[r].card /\ run'[r].beat = run[r].beat
  /\ RunsBut(r)
Rests(w) == UNCHANGED <<card, run, beat>> /\ inv[w].pc = "refreshing" /\ inv'[w] = Resting

WorkerKind(w) ==
  /\ SlotsBut(w) /\ UNCHANGED <<tick, cmd>>
  /\ \/ Advances(w) \/ Claims(w) \/ Opens(w) \/ Links(w) \/ Acquires(w)
     \/ Concludes(w) \/ Follows(w) \/ Requeues(w) \/ Rests(w)

\* Slot w goes to point p and remembers what it did.
Goes(w, p) ==
  /\ SlotsBut(w) /\ inv'[w].pc = p /\ Stays(inv[w], inv'[w])
  /\ inv'[w].view = inv[w].view /\ inv'[w].agent = inv[w].agent
  /\ inv'[w].outcome = inv[w].outcome

\* The three forms in which slots go on.
LEMMA SlotGoes ==
  ASSUME LeaseInv, NEW w \in Workers, NEW p, NEW s, NEW b,
         \/ inv' = [inv EXCEPT ![w].pc = p]
         \/ inv' = [inv EXCEPT ![w].pc = p, ![w].verdict = s]
         \/ inv' = [inv EXCEPT ![w].pc = p, ![w].verdict = s, ![w].follow = b]
  PROVE  Goes(w, p)
<1>1. inv \in [Workers -> Invocation] /\ inv[w] \in Invocation
  BY Tables
<1>2. CASE inv' = [inv EXCEPT ![w].pc = p]
  BY <1>1, <1>2 DEF Goes, SlotsBut, Stays, Invocation
<1>3. CASE inv' = [inv EXCEPT ![w].pc = p, ![w].verdict = s]
  BY <1>1, <1>3 DEF Goes, SlotsBut, Stays, Invocation
<1>4. CASE inv' = [inv EXCEPT ![w].pc = p, ![w].verdict = s, ![w].follow = b]
  BY <1>1, <1>4 DEF Goes, SlotsBut, Stays, Invocation
<1>5. QED
  BY <1>2, <1>3, <1>4

\* An attempt that is not superseded never settles its heartbeat alone.
LEMMA NeverSettled ==
  ASSUME CustodyInv, NEW w \in Workers, inv[w].pc \in Holding
  PROVE  /\ SameColumns(card[inv[w].card], inv[w].view)
         /\ StillCurrent(inv[w].card, inv[w].view, inv[w].run) /\ ResultAuthority(w)
BY HoldingFacts DEF StillCurrent, SameRow

\* A claimed card is not in recovery.
LEMMA ClaimedCard ==
  ASSUME CustodyInv, NEW w \in Workers, inv[w].pc \in Fresh
  PROVE  card[inv[w].card].recovery = "none" /\ inv[w].outcome = None
BY DEF CustodyInv, Slots, Sound, NoRecovery, MayReport, PreLock

\* The preamble, the call and the check of its products write nothing.
LEMMA AdvanceSteps ==
  ASSUME CustodyInv, Undisturbed, NEW w \in Workers,
         \/ ChooseAgent(w) \/ RefuseDispatch(w) \/ ClaimCapacity(w)
         \/ CheckCurrent(w) \/ AdapterReturns(w) \/ PersistProducts(w)
  PROVE  SlotsBut(w) /\ Advances(w) /\ UNCHANGED <<tick, cmd>>
<1> USE DEF CustodyInv
<1>1. inv \in [Workers -> Invocation] /\ inv[w] \in Invocation
  BY Tables
<1>2. CASE ChooseAgent(w)
  BY <1>1, <1>2 DEF ChooseAgent, Advances, SlotsBut, Stays, Invocation, Fresh
<1>3. CASE RefuseDispatch(w)
  BY <1>3, ClaimedCard DEF RefuseDispatch, Undisturbed, Fresh
<1>4. CASE ClaimCapacity(w)
  <2>1. Goes(w, "admitted") \/ Goes(w, "error")
    BY <1>4, SlotGoes DEF ClaimCapacity, Goto
  <2>2. QED
    BY <1>4, <2>1 DEF ClaimCapacity, Goes, Advances, Fresh
<1>5. CASE CheckCurrent(w)
  <2>1. Goes(w, "executing") /\ UNCHANGED <<card, run, beat, tick, cmd>>
    BY <1>5, SlotGoes, NeverSettled DEF CheckCurrent, Goto, Holding
  <2>2. QED
    BY <1>5, <2>1 DEF CheckCurrent, Goes, Advances, Holding
<1>6. CASE AdapterReturns(w)
  <2>1. PICK o \in Outcomes : /\ inv' = [inv EXCEPT ![w].pc = "returned", ![w].outcome = o]
                              /\ UNCHANGED <<card, run, beat, tick, cmd>>
    BY <1>6, NeverSettled DEF AdapterReturns, Holding
  <2>2. QED
    BY <1>1, <1>6, <2>1 DEF AdapterReturns, SlotsBut, Advances, Holding, Stays, Invocation
<1>7. CASE PersistProducts(w)
  <2>1. Goes(w, "accepted") /\ UNCHANGED <<card, run, beat, tick, cmd>>
    BY <1>7, SlotGoes, NeverSettled DEF PersistProducts, Goto, Holding
  <2>2. QED
    BY <1>7, <2>1 DEF PersistProducts, Goes, Advances, Holding
<1>8. QED
  BY <1>2, <1>3, <1>4, <1>5, <1>6, <1>7

\* claimNextTaskRun claims.
LEMMA ClaimSteps ==
  ASSUME CustodyInv, NEW w \in Workers, ClaimRun(w)
  PROVE  SlotsBut(w) /\ Claims(w) /\ UNCHANGED <<tick, cmd>>
<1>1. inv \in [Workers -> Invocation] /\ run \in [Runs -> RunRow]
  BY Tables DEF CustodyInv
<1>2. PICK r \in Runs :
        /\ inv[w].pc = "idle" /\ run[r].status = "queued" /\ card[run[r].card].recovery = "none"
        /\ run' = [run EXCEPT ![r].status = "running"]
        /\ inv' = [inv EXCEPT ![w] = [Resting EXCEPT !.pc = "claimed", !.run = r,
                                         !.card = run[r].card, !.owner = run[r].agent]]
  BY DEF ClaimRun
<1>3. /\ SlotsBut(w)
      /\ inv'[w] = [Resting EXCEPT !.pc = "claimed", !.run = r, !.card = run[r].card,
                                   !.owner = run[r].agent]
  BY <1>1, <1>2 DEF SlotsBut
<1>4. /\ inv'[w].pc = "claimed" /\ inv'[w].run = r /\ inv'[w].card = run[r].card
      /\ inv'[w].beat = None /\ inv'[w].outcome = None
  BY <1>3 DEF Resting
<1>5. /\ run'[r].status = "running" /\ run'[r].card = run[r].card /\ run'[r].beat = run[r].beat
      /\ RunsBut(r)
  BY <1>1, <1>2 DEF RunRow, RunsBut
<1>6. QED
  BY <1>2, <1>3, <1>4, <1>5 DEF ClaimRun, Claims

\* openHeartbeatRun inserts a row, then links it.
LEMMA OpenSteps ==
  ASSUME CustodyInv, NEW w \in Workers
  PROVE  /\ OpenBeat(w) => SlotsBut(w) /\ Opens(w) /\ UNCHANGED <<tick, cmd>>
         /\ LinkBeat(w) => SlotsBut(w) /\ Links(w) /\ UNCHANGED <<tick, cmd>>
<1>1. inv \in [Workers -> Invocation] /\ inv[w] \in Invocation /\ beat \in [Beats -> BeatRow]
      /\ run \in [Runs -> RunRow]
  BY Tables DEF CustodyInv
<1>2. ASSUME OpenBeat(w) PROVE SlotsBut(w) /\ Opens(w) /\ UNCHANGED <<tick, cmd>>
  <2>1. PICK h \in Beats :
          /\ beat[h].status = "absent"
          /\ beat' = [beat EXCEPT ![h] = [status |-> "running", card |-> inv[w].card,
                                          agent |-> inv[w].agent, locked |-> FALSE]]
          /\ inv' = [inv EXCEPT ![w].pc = "opened", ![w].beat = h]
    BY <1>2 DEF OpenBeat, AbsentBeats
  <2>2. /\ SlotsBut(w) /\ inv'[w].pc = "opened" /\ inv'[w].beat = h
        /\ inv'[w].run = inv[w].run /\ inv'[w].card = inv[w].card /\ inv'[w].outcome = inv[w].outcome
    BY <1>1, <2>1 DEF SlotsBut, Invocation
  <2>3. /\ beat'[h].status = "running" /\ beat'[h].card = inv[w].card /\ ~beat'[h].locked
        /\ BeatsBut(h)
    BY <1>1, <2>1 DEF BeatsBut
  <2>4. QED
    BY <1>2, <2>1, <2>2, <2>3 DEF OpenBeat, Opens
<1>3. ASSUME LinkBeat(w) PROVE SlotsBut(w) /\ Links(w) /\ UNCHANGED <<tick, cmd>>
  <2>1. Goes(w, "linked")
    BY <1>3, SlotGoes DEF LinkBeat, Goto, CustodyInv
  <2>2. inv[w].run \in Runs
    BY <1>3, OnlyRun DEF LinkBeat, Working, PreLock
  <2>3. /\ run'[inv[w].run].status = run[inv[w].run].status
        /\ run'[inv[w].run].card = run[inv[w].run].card
        /\ run'[inv[w].run].beat = inv[w].beat /\ run'[inv[w].run].agent = inv[w].agent
        /\ RunsBut(inv[w].run)
    BY <1>1, <1>3, <2>2 DEF LinkBeat, RunRow, RunsBut
  <2>4. QED
    BY <1>3, <2>1, <2>3 DEF LinkBeat, Links, Goes
<1>4. QED
  BY <1>2, <1>3

\* acquireExecutionLock takes the lock.
LEMMA AcquireSteps ==
  ASSUME CustodyInv, NEW w \in Workers, AcquireLock(w)
  PROVE  SlotsBut(w) /\ Acquires(w) /\ UNCHANGED <<tick, cmd>>
<1> DEFINE c == inv[w].card
           h == inv[w].beat
           row == [card[c] EXCEPT !.status = "in_progress", !.lock = h, !.expired = FALSE]
<1>1. inv \in [Workers -> Invocation] /\ inv[w] \in Invocation /\ beat \in [Beats -> BeatRow]
      /\ card \in [Cards -> CardRow]
  BY Tables DEF CustodyInv
<1>2. c \in Cards /\ h \in Beats /\ card[c] \in CardRow
  BY SlotRefs DEF CustodyInv, AcquireLock
<1>3. /\ row.lock = h /\ ~row.expired /\ row.recovery = card[c].recovery
      /\ row.repairs = card[c].repairs
  BY <1>2 DEF CardRow
<1>4. /\ inv[w].pc = "linked" /\ UNCHANGED <<run, tick, cmd>>
      /\ card' = [card EXCEPT ![c] = row]
      /\ beat' = [beat EXCEPT ![h].locked = TRUE]
      /\ inv' = [inv EXCEPT ![w].pc = "locked", ![w].view = row]
  BY DEF AcquireLock
<1> HIDE DEF row
<1>5. card'[c] = row /\ CardsBut(c)
  BY <1>1, <1>2, <1>4 DEF CardsBut
<1>6. /\ beat'[h].card = beat[h].card /\ beat'[h].status = beat[h].status /\ beat'[h].locked
      /\ BeatsBut(h)
  BY <1>1, <1>2, <1>4 DEF BeatsBut, BeatRow
<1>7. /\ SlotsBut(w) /\ inv'[w].pc = "locked" /\ Stays(inv[w], inv'[w]) /\ inv'[w].view = row
      /\ inv'[w].agent = inv[w].agent /\ inv'[w].outcome = inv[w].outcome
  BY <1>1, <1>4 DEF SlotsBut, Stays, Invocation
<1>8. QED
  BY <1>3, <1>4, <1>5, <1>6, <1>7 DEF Acquires

-----------------------------------------------------------------------------
(* The rows results write. *)

\* The statuses a failed attempt is released in.
LEMMA ReleaseStatuses ==
  /\ "todo" \in Statuses /\ "blocked" \in Statuses /\ "in_progress" \in Statuses
  /\ Finished \subseteq Statuses /\ "in_progress" \notin Finished
BY LimitAssumption DEF LimitAssumption, Statuses

\* requestCardRecovery keeps the lock columns; unless a card may stay blocked, it is
\* in recovery then.
LEMMA RecoveredFacts ==
  ASSUME NEW row \in CardRow, NEW x \in Recovered(row)
  PROVE  /\ x.lock = row.lock /\ x.expired = row.expired /\ x.repairs = row.repairs
         /\ x.status = row.status \/ x.status \in Exhausted
         /\ "blocked" \notin Exhausted \/ row.recovery # "none" => x.recovery # "none"
<1>1. CASE row.recovery # "none"
  BY <1>1 DEF Recovered
<1>2. CASE row.recovery = "none"
  <2>1. PICK s \in Exhausted :
          x = [row EXCEPT !.status = s,
                 !.recovery = CASE s = "needs_review" -> "manager" [] s = "in_review" -> "human"
                                [] OTHER -> "none"]
    BY <1>2 DEF Recovered
  <2> DEFINE g == CASE s = "needs_review" -> "manager" [] s = "in_review" -> "human"
                    [] OTHER -> "none"
  <2>2. s # "blocked" => g # "none"
    BY LimitAssumption DEF LimitAssumption
  <2> HIDE DEF g
  <2>3. x = [row EXCEPT !.status = s, !.recovery = g]
    BY <2>1 DEF g
  <2>4. /\ x.status = s /\ x.recovery = g /\ x.lock = row.lock /\ x.expired = row.expired
        /\ x.repairs = row.repairs
    BY <2>3 DEF CardRow
  <2>5. QED
    BY <1>2, <2>2, <2>4
<1>3. QED
  BY <1>1, <1>2

\* A failed attempt leaves the card unlocked and not in progress.
LEMMA AfterFailureFacts ==
  ASSUME NEW row \in CardRow, NEW v \in CardRow,
         NEW x \in AfterFailure(row, v.retries)
  PROVE  /\ x.lock = None /\ x.expired = FALSE /\ x.status # "in_progress" /\ x.repairs = row.repairs
         /\ row.recovery # "none" => x.recovery # "none"
<1>a. PICK n \in 0..MaxRetries : n = v.retries
  BY DEF CardRow
<1>b. x \in AfterFailure(row, n)
  BY <1>a
<1>1. CASE n + 1 < MaxRetries
  <2>1. PICK m \in 0..MaxRetries : m = n + 1
    BY <1>1, LimitAssumption DEF LimitAssumption
  <2>2. x = Unlocked(row, "todo", m)
    BY <1>1, <1>b, <2>1 DEF AfterFailure
  <2>3. "todo" \in Statuses
    BY ReleaseStatuses
  <2>4. QED
    <3>1. /\ x.status = "todo" /\ x.lock = None /\ x.expired = FALSE
          /\ x.repairs = row.repairs /\ x.recovery = row.recovery
      BY <2>2, <2>3 DEF Unlocked, CardRow
    <3>2. QED
      BY <3>1
<1>2. CASE ~(n + 1 < MaxRetries)
  <2>a. PICK m \in 0..MaxRetries : m = Retried(n)
    BY RetriedBound, LimitAssumption
  <2>b. "blocked" \in Statuses
    BY ReleaseStatuses
  <2> DEFINE free == Unlocked(row, "blocked", m)
  <2>1. x \in Recovered(free)
    BY <1>2, <1>b, <2>a DEF AfterFailure
  <2>2. /\ free \in CardRow /\ free.status = "blocked" /\ free.lock = None /\ free.expired = FALSE
        /\ free.repairs = row.repairs /\ free.recovery = row.recovery
    BY <2>b DEF Unlocked, CardRow
  <2> HIDE DEF free
  <2>3. QED
    BY <2>1, <2>2, RecoveredFacts, LimitAssumption DEF LimitAssumption
<1>3. QED
  BY <1>1, <1>2

\* A malformed report leaves the card unlocked and not in progress; the third one is
\* counted once the card is in recovery.
LEMMA CorrectedFacts ==
  ASSUME NEW row \in CardRow, row.repairs < 3, NEW x \in Corrected(row)
  PROVE  /\ x.lock = None /\ x.expired = FALSE /\ x.status # "in_progress"
         /\ "blocked" \notin Exhausted /\ x.repairs = 3 => x.recovery # "none"
<1>1. row.retries \in 0..MaxRetries /\ row.repairs \in 0..3
  BY DEF CardRow
<1>2. CASE row.repairs < 2
  <2>a. PICK m \in 0..MaxRetries : m = row.retries
    BY <1>1
  <2>b. "todo" \in Statuses
    BY ReleaseStatuses
  <2> DEFINE free == Unlocked(row, "todo", m)
  <2>1. x = [free EXCEPT !.repairs = @ + 1]
    BY <1>2, <2>a DEF Corrected
  <2>2. /\ free \in CardRow /\ free.status = "todo" /\ free.lock = None /\ free.expired = FALSE
        /\ free.repairs = row.repairs
    BY <2>b DEF Unlocked, CardRow
  <2> HIDE DEF free
  <2>3. /\ x.lock = free.lock /\ x.expired = free.expired /\ x.status = free.status
        /\ x.repairs = free.repairs + 1
    BY <2>1, <2>2 DEF CardRow
  <2>4. QED
    BY <1>1, <1>2, <2>2, <2>3
<1>3. CASE ~(row.repairs < 2)
  <2>a. PICK m \in 0..MaxRetries : m = row.retries
    BY <1>1
  <2>b. "blocked" \in Statuses
    BY ReleaseStatuses
  <2> DEFINE free == Unlocked(row, "blocked", m)
             full == [free EXCEPT !.repairs = 3]
  <2>1. x \in Recovered(full)
    BY <1>3, <2>a DEF Corrected
  <2>2. free \in CardRow /\ free.status = "blocked" /\ free.lock = None /\ free.expired = FALSE
    BY <2>b DEF Unlocked, CardRow
  <2> HIDE DEF free
  <2>3. 3 \in 0..3
    OBVIOUS
  <2>4. /\ full \in CardRow /\ full.status = free.status /\ full.lock = free.lock
        /\ full.expired = free.expired
    BY <2>2, <2>3 DEF CardRow
  <2> HIDE DEF full
  <2>5. QED
    BY <2>1, <2>2, <2>4, RecoveredFacts, LimitAssumption DEF LimitAssumption
<1>4. QED
  BY <1>2, <1>3

\* resetProtocolRepair touches no other column.
LEMMA RepairedFacts ==
  ASSUME NEW row \in CardRow, NEW x \in Repaired(row)
  PROVE  /\ x.lock = row.lock /\ x.expired = row.expired /\ x.status = row.status
         /\ x.recovery = row.recovery /\ x.repairs \in {0, row.repairs}
BY DEF Repaired, CardRow

-----------------------------------------------------------------------------
\* The card a result releases: unlocked, and the count of malformed reports is below
\* its limit or the card is in recovery.
Releases(c) ==
  /\ card'[c].lock = None /\ card'[c].expired = FALSE /\ CardsBut(c)
  /\ "invalid" \in Outcomes /\ card'[c].repairs = 3 => card'[c].recovery # "none"

\* The heartbeat ends, or stays as it was.
EndsBeat(h) ==
  /\ beat'[h].card = beat[h].card /\ beat'[h].locked = beat[h].locked
  /\ beat'[h].status \in {beat[h].status} \cup Ended
  /\ BeatsBut(h)

\* A released card is written with one of these rows.
LEMMA ReleasedCard ==
  ASSUME CustodyInv, Undisturbed, NEW c \in Cards, NEW x, card' = [card EXCEPT ![c] = x],
         x.lock = None, x.expired = FALSE,
         \/ "invalid" \in Outcomes /\ x.repairs = 3 => x.recovery # "none"
         \/ x.repairs \in {0, card[c].repairs} /\ (card[c].recovery # "none" => x.recovery # "none")
  PROVE  Releases(c) /\ card'[c] = x
<1>1. card \in [Cards -> CardRow]
  BY Tables DEF CustodyInv
<1>2. card'[c] = x /\ CardsBut(c)
  BY <1>1 DEF CardsBut
<1>3. "invalid" \in Outcomes /\ card[c].repairs = 3 => card[c].recovery # "none"
  BY DEF CustodyInv, RepairsLimited
<1>4. QED
  BY <1>2, <1>3 DEF Releases

\* Ending a heartbeat ends that one.
LEMMA EndedBeat ==
  ASSUME CustodyInv, NEW h \in Beats, NEW s \in Ended,
         \/ beat' = [beat EXCEPT ![h].status = s]
         \/ beat' = IF beat[h].status = "running" THEN [beat EXCEPT ![h].status = s] ELSE beat
  PROVE  EndsBeat(h) /\ beat'[h].status # "running"
<1>1. beat \in [Beats -> BeatRow]
  BY Tables DEF CustodyInv
<1>2. CASE beat' = [beat EXCEPT ![h].status = s]
  BY <1>1, <1>2 DEF EndsBeat, BeatsBut, BeatRow, Ended
<1>3. CASE beat' = beat /\ beat[h].status # "running"
  BY <1>3 DEF EndsBeat, BeatsBut
<1>4. QED
  BY <1>2, <1>3

\* The run of slot w is as it was, or has ended.
KeepsRun(w) ==
  LET r == inv[w].run IN
  /\ run'[r].card = run[r].card /\ run'[r].beat = run[r].beat /\ run'[r].agent = run[r].agent
  /\ inv'[w].pc \in Reported => run'[r].status = run[r].status
  /\ inv'[w].pc \notin Reported => run'[r].status \in Ended
  /\ RunsBut(r)

\* Ending the run of a slot ends that one.
LEMMA EndedRun ==
  ASSUME CustodyInv, NEW w \in Workers, inv[w].pc \in Working, NEW s \in Ended,
         inv'[w].pc \notin Reported, run' = EndRun(inv[w].run, s)
  PROVE  KeepsRun(w)
<1>1. run \in [Runs -> RunRow] /\ inv[w].run \in Runs /\ run[inv[w].run].status = "running"
  BY Tables, OnlyRun DEF CustodyInv
<1>2. run' = [run EXCEPT ![inv[w].run].status = s]
  BY <1>1 DEF EndRun, Active
<1>3. QED
  BY <1>1, <1>2 DEF KeepsRun, RunsBut, RunRow

\* Slot w goes to point p; what it has read may change.
Ends(w, p) ==
  SlotsBut(w) /\ inv'[w].pc = p /\ Stays(inv[w], inv'[w]) /\ inv'[w].outcome = inv[w].outcome

\* A result in these parts is a report.
LEMMA ReportParts ==
  ASSUME NEW w \in Workers, NEW p \in Reported \cup {"following", "worked"},
         inv[w].pc \in Holding \cup Reported, Ends(w, p),
         Releases(inv[w].card), EndsBeat(inv[w].beat), KeepsRun(w),
         p \notin {"scolded", "freed"} => beat'[inv[w].beat].status # "running",
         \/ p = "following" \/ "delegated" \in Outcomes
         \/ card'[inv[w].card].status # "in_progress"
         \/ inv[w].pc \in Reported /\ card'[inv[w].card].status = card[inv[w].card].status
  PROVE  SlotsBut(w) /\ Concludes(w)
BY DEF Ends, Releases, EndsBeat, KeepsRun, Concludes, Reported

\* The rows a result is about.
LEMMA ResultRefs ==
  ASSUME CustodyInv, NEW w \in Workers, inv[w].pc \in Holding \cup Reported
  PROVE  /\ inv[w].pc \in Working /\ inv[w] \in Invocation
         /\ inv[w].card \in Cards /\ card[inv[w].card] \in CardRow
         /\ inv[w].beat \in Beats /\ inv[w].run \in Runs
         /\ inv[w].pc \in Holding => inv[w].view \in CardRow
<1>1. inv[w].pc \in Working /\ inv[w].pc # "idle"
  BY DEF Working, Holding, Reported
<1>2. Linked(inv[w])
  BY DEF CustodyInv, Slots, Sound
<1>3. Remembers(inv[w])
  BY SlotType DEF CustodyInv, LeaseInv
<1>4. QED
  BY <1>1, <1>2, <1>3, SlotRefs, OnlyRun DEF CustodyInv, Linked, Remembers

-----------------------------------------------------------------------------
(* Every result is a report.                                               *)

\* The forms in which a result moves its slot.
LEMMA SlotEnds ==
  ASSUME CustodyInv, NEW w \in Workers, NEW p, NEW s, NEW x,
         \/ inv' = [inv EXCEPT ![w].pc = p]
         \/ inv' = [inv EXCEPT ![w].pc = p, ![w].verdict = s]
         \/ inv' = [inv EXCEPT ![w].pc = p, ![w].verdict = s, ![w].follow = x]
         \/ inv' = [inv EXCEPT ![w].pc = p, ![w].view = x]
  PROVE  Ends(w, p)
<1>1. inv \in [Workers -> Invocation] /\ inv[w] \in Invocation
  BY Tables DEF CustodyInv
<1>2. CASE inv' = [inv EXCEPT ![w].pc = p]
  BY <1>1, <1>2 DEF Ends, SlotsBut, Stays, Invocation
<1>3. CASE inv' = [inv EXCEPT ![w].pc = p, ![w].verdict = s]
  BY <1>1, <1>3 DEF Ends, SlotsBut, Stays, Invocation
<1>4. CASE inv' = [inv EXCEPT ![w].pc = p, ![w].verdict = s, ![w].follow = x]
  BY <1>1, <1>4 DEF Ends, SlotsBut, Stays, Invocation
<1>5. CASE inv' = [inv EXCEPT ![w].pc = p, ![w].view = x]
  BY <1>1, <1>5 DEF Ends, SlotsBut, Stays, Invocation
<1>6. QED
  BY <1>2, <1>3, <1>4, <1>5

\* A result before its run is settled leaves all runs alone.
LEMMA KeptRun ==
  ASSUME NEW w \in Workers, inv'[w].pc \in Reported, UNCHANGED run
  PROVE  KeepsRun(w)
BY DEF KeepsRun, RunsBut

\* A successful attempt: retries start anew, and malformed reports may.
LEMMA SuccessFacts ==
  ASSUME NEW row \in CardRow, NEW s \in Statuses,
         NEW x \in Repaired(Unlocked(row, s, 0))
  PROVE  /\ x.status = s /\ x.lock = None /\ x.expired = FALSE
         /\ x.recovery = row.recovery /\ x.repairs \in {0, row.repairs}
<1> DEFINE free == Unlocked(row, s, 0)
<1>1. 0 \in 0..MaxRetries
  BY LimitAssumption DEF LimitAssumption
<1>2. /\ free \in CardRow /\ free.status = s /\ free.lock = None /\ free.expired = FALSE
      /\ free.repairs = row.repairs /\ free.recovery = row.recovery
  BY <1>1 DEF Unlocked, CardRow
<1>3. x \in Repaired(free)
  OBVIOUS
<1> HIDE DEF free
<1>4. QED
  BY <1>2, <1>3, RepairedFacts

\* The completion transaction.
LEMMA CompleteSteps ==
  ASSUME CustodyInv, Undisturbed, NEW w \in Workers, Complete(w)
  PROVE  SlotsBut(w) /\ Concludes(w) /\ UNCHANGED <<tick, cmd>>
<1> DEFINE c == inv[w].card
           h == inv[w].beat
<1>1. inv[w].pc \in Holding /\ inv[w].pc \in Holding \cup Reported
  BY DEF Complete, Holding
<1>2. c \in Cards /\ card[c] \in CardRow /\ h \in Beats /\ inv[w].pc \in Working
  BY <1>1, ResultRefs
<1>3. PICK s \in IF inv[w].outcome = "progress" THEN {"in_progress"} ELSE Finished :
        /\ \E row \in Repaired(Unlocked(card[c], s, 0)) : card' = [card EXCEPT ![c] = row]
        /\ beat' = [beat EXCEPT ![h].status = "success"]
        /\ run' = EndRun(inv[w].run, "success")
        /\ inv' = [inv EXCEPT ![w].pc = IF s = "in_progress" THEN "following" ELSE "worked"]
  BY <1>1, NeverSettled DEF Complete
<1>4. PICK row \in Repaired(Unlocked(card[c], s, 0)) : card' = [card EXCEPT ![c] = row]
  BY <1>3
<1>5. s \in Statuses
  BY ReleaseStatuses
<1>6. /\ row.status = s /\ row.lock = None /\ row.expired = FALSE
      /\ row.recovery = card[c].recovery /\ row.repairs \in {0, card[c].repairs}
  BY <1>2, <1>5, SuccessFacts
<1>7. Releases(c) /\ card'[c] = row
  BY <1>2, <1>4, <1>6, ReleasedCard
<1>8. PICK p \in {"following", "worked"} :
        p = IF s = "in_progress" THEN "following" ELSE "worked"
  OBVIOUS
<1>9. Ends(w, p)
  BY <1>3, <1>8, SlotEnds
<1>10. EndsBeat(h) /\ beat'[h].status # "running"
  <2>1. "success" \in Ended
    BY DEF Ended
  <2>2. QED
    BY <1>2, <1>3, <2>1, EndedBeat
<1>11. KeepsRun(w)
  <2>1. "success" \in Ended /\ inv'[w].pc \notin Reported
    BY <1>9 DEF Ended, Ends, Reported
  <2>2. QED
    BY <1>2, <1>3, <2>1, EndedRun
<1>12. p = "following" \/ card'[c].status # "in_progress"
  BY <1>6, <1>7, <1>8
<1>13. QED
  BY <1>1, <1>7, <1>9, <1>10, <1>11, <1>12, ReportParts DEF Complete

\* A delegating report releases its card in progress.
LEMMA DelegateSteps ==
  ASSUME CustodyInv, Undisturbed, NEW w \in Workers, Delegate(w)
  PROVE  SlotsBut(w) /\ Concludes(w) /\ UNCHANGED <<tick, cmd>>
<1> DEFINE c == inv[w].card
           h == inv[w].beat
<1>1. inv[w].pc \in Holding /\ inv[w].pc \in Holding \cup Reported
  BY DEF Delegate, Holding
<1>2. c \in Cards /\ card[c] \in CardRow /\ h \in Beats /\ inv[w].pc \in Working
  BY <1>1, ResultRefs
<1>3. PICK row \in Repaired(Unlocked(card[c], "in_progress", 0)) : card' = [card EXCEPT ![c] = row]
  BY DEF Delegate
<1>4. "in_progress" \in Statuses
  BY ReleaseStatuses
<1>5. /\ row.status = "in_progress" /\ row.lock = None /\ row.expired = FALSE
      /\ row.recovery = card[c].recovery /\ row.repairs \in {0, card[c].repairs}
  BY <1>2, <1>4, SuccessFacts
<1>6. Releases(c) /\ card'[c] = row
  BY <1>2, <1>3, <1>5, ReleasedCard
<1>7. Ends(w, "settling")
  BY SlotEnds DEF Delegate
<1>8. EndsBeat(h) /\ beat'[h].status # "running"
  <2>1. "success" \in Ended
    BY DEF Ended
  <2>2. QED
    BY <1>2, <2>1, EndedBeat DEF Delegate
<1>9. KeepsRun(w)
  BY <1>7, KeptRun DEF Delegate, Ends, Reported
<1>10. "delegated" \in Outcomes
  <2>1. inv[w].outcome \in Outcomes \cup {None}
    BY DEF CustodyInv, Slots, Sound, MayReport
  <2>2. QED
    BY <2>1, IdentityAssumption DEF Delegate, IdentityAssumption, AllOutcomes
<1>11. "settling" \in Reported \cup {"following", "worked"}
  BY DEF Reported
<1>12. QED
  BY <1>1, <1>6, <1>7, <1>8, <1>9, <1>10, <1>11, ReportParts DEF Delegate

\* A handoff releases its card for another agent.
LEMMA HandoffSteps ==
  ASSUME CustodyInv, Undisturbed, NEW w \in Workers, Handoff(w)
  PROVE  SlotsBut(w) /\ Concludes(w) /\ UNCHANGED <<tick, cmd>>
<1> DEFINE c == inv[w].card
           h == inv[w].beat
<1>1. inv[w].pc \in Holding /\ inv[w].pc \in Holding \cup Reported
  BY DEF Handoff, Holding
<1>2. c \in Cards /\ card[c] \in CardRow /\ h \in Beats /\ inv[w].pc \in Working
  BY <1>1, ResultRefs
<1>3. PICK a \in Agents :
        /\ card' = [card EXCEPT ![c] = [Unlocked(@, "todo", 0) EXCEPT !.assignee = a]]
        /\ beat' = [beat EXCEPT ![h].status = "success"]
        /\ inv' = [inv EXCEPT ![w].pc = "settling", ![w].verdict = "success", ![w].follow = TRUE]
        /\ UNCHANGED <<run, tick, cmd>>
  BY DEF Handoff
<1> DEFINE row == [Unlocked(card[c], "todo", 0) EXCEPT !.assignee = a]
<1>4. card' = [card EXCEPT ![c] = row]
  BY <1>3
<1>5. /\ row.status = "todo" /\ row.lock = None /\ row.expired = FALSE
      /\ row.recovery = card[c].recovery /\ row.repairs = card[c].repairs
  BY <1>2 DEF Unlocked, CardRow
<1> HIDE DEF row
<1>6. Releases(c) /\ card'[c] = row
  BY <1>2, <1>4, <1>5, ReleasedCard
<1>7. Ends(w, "settling")
  BY <1>3, SlotEnds
<1>8. EndsBeat(h) /\ beat'[h].status # "running"
  <2>1. "success" \in Ended
    BY DEF Ended
  <2>2. QED
    BY <1>2, <1>3, <2>1, EndedBeat
<1>9. KeepsRun(w)
  BY <1>3, <1>7, KeptRun DEF Ends, Reported
<1>10. card'[c].status # "in_progress"
  BY <1>5, <1>6
<1>11. "settling" \in Reported \cup {"following", "worked"}
  BY DEF Reported
<1>12. QED
  BY <1>1, <1>3, <1>6, <1>7, <1>8, <1>9, <1>10, <1>11, ReportParts

\* A failed attempt's card is released and not in progress.
LEMMA FailedCard ==
  ASSUME CustodyInv, Undisturbed, NEW c \in Cards, NEW v \in CardRow,
         \E row \in AfterFailure(card[c], v.retries) : card' = [card EXCEPT ![c] = row]
  PROVE  Releases(c) /\ card'[c].status # "in_progress"
<1>1. card[c] \in CardRow
  BY Tables DEF CustodyInv
<1>2. PICK row \in AfterFailure(card[c], v.retries) : card' = [card EXCEPT ![c] = row]
  OBVIOUS
<1>3. row.status # "in_progress"
  BY <1>1, <1>2, AfterFailureFacts
<1>4. /\ row.lock = None /\ row.expired = FALSE /\ row.repairs = card[c].repairs
      /\ card[c].recovery # "none" => row.recovery # "none"
  BY <1>1, <1>2, AfterFailureFacts
<1>5. Releases(c) /\ card'[c] = row
  BY <1>2, <1>4, ReleasedCard
<1>6. QED
  BY <1>3, <1>5

\* A failure releases its card for a retry or for its recovery.
LEMMA FailSteps ==
  ASSUME CustodyInv, Undisturbed, NEW w \in Workers, Fail(w)
  PROVE  SlotsBut(w) /\ Concludes(w) /\ UNCHANGED <<tick, cmd>>
<1> DEFINE c == inv[w].card
           h == inv[w].beat
<1>1. inv[w].pc \in Holding /\ inv[w].pc \in Holding \cup Reported
  BY DEF Fail, Holding
<1>2. /\ c \in Cards /\ card[c] \in CardRow /\ h \in Beats /\ inv[w].pc \in Working
      /\ inv[w].view \in CardRow
  BY <1>1, ResultRefs
<1>3. /\ \E row \in AfterFailure(card[c], inv[w].view.retries) : card' = [card EXCEPT ![c] = row]
      /\ beat' = [beat EXCEPT ![h].status = "failed"]
      /\ inv' = [inv EXCEPT ![w].pc = "settling", ![w].verdict = "failed"]
      /\ UNCHANGED <<run, tick, cmd>>
  BY <1>1, NeverSettled DEF Fail
<1>7. Releases(c) /\ card'[c].status # "in_progress"
  BY <1>2, <1>3, FailedCard
<1>8. Ends(w, "settling")
  BY <1>3, SlotEnds
<1>9. EndsBeat(h) /\ beat'[h].status # "running"
  <2>1. "failed" \in Ended
    BY DEF Ended
  <2>2. QED
    BY <1>2, <1>3, <2>1, EndedBeat
<1>10. KeepsRun(w)
  BY <1>3, <1>8, KeptRun DEF Ends, Reported
<1>11. "settling" \in Reported \cup {"following", "worked"}
  BY DEF Reported
<1>12. QED
  BY <1>1, <1>3, <1>7, <1>8, <1>9, <1>10, <1>11, ReportParts

\* A missing permission blocks the card; its recovery is requested next.
LEMMA ParkSteps ==
  ASSUME CustodyInv, Undisturbed, NEW w \in Workers, Park(w)
  PROVE  SlotsBut(w) /\ Concludes(w) /\ UNCHANGED <<tick, cmd>>
<1> DEFINE c == inv[w].card
           h == inv[w].beat
           row == Unlocked(card[c], "blocked", card[c].retries)
<1>1. inv[w].pc \in Holding /\ inv[w].pc \in Holding \cup Reported
  BY DEF Park, Holding
<1>2. c \in Cards /\ card[c] \in CardRow /\ h \in Beats /\ inv[w].pc \in Working
  BY <1>1, ResultRefs
<1>3. /\ card' = [card EXCEPT ![c] = row]
      /\ beat' = IF beat[h].status = "running" THEN [beat EXCEPT ![h].status = "failed"] ELSE beat
      /\ inv' = [inv EXCEPT ![w].pc = "parked", ![w].view = row]
      /\ UNCHANGED <<run, tick, cmd>>
  BY <1>1, NeverSettled DEF Park
<1>4. /\ row.status = "blocked" /\ row.lock = None /\ row.expired = FALSE
      /\ row.recovery = card[c].recovery /\ row.repairs = card[c].repairs
  BY <1>2 DEF Unlocked, CardRow
<1> HIDE DEF row
<1>5. Releases(c) /\ card'[c] = row
  BY <1>2, <1>3, <1>4, ReleasedCard
<1>6. Ends(w, "parked")
  BY <1>3, SlotEnds
<1>7. EndsBeat(h) /\ beat'[h].status # "running"
  <2>1. "failed" \in Ended
    BY DEF Ended
  <2>2. QED
    BY <1>2, <1>3, <2>1, EndedBeat
<1>8. KeepsRun(w)
  BY <1>3, <1>6, KeptRun DEF Ends, Reported
<1>9. card'[c].status # "in_progress"
  BY <1>4, <1>5
<1>10. "parked" \in Reported \cup {"following", "worked"}
  BY DEF Reported
<1>11. QED
  BY <1>1, <1>3, <1>5, <1>6, <1>7, <1>8, <1>9, <1>10, ReportParts

\* The columns of a card nobody has locked.
LEMMA ReleasedRow ==
  ASSUME CustodyInv, NEW w \in Workers, inv[w].pc \in Reported, UNCHANGED card
  PROVE  Releases(inv[w].card)
<1> DEFINE c == inv[w].card
<1>1. c \in Cards /\ card[c] \in CardRow
  BY ResultRefs
<1>2. card[c].lock = None
  BY FreeCard DEF Working, Reported, Holding
<1>3. card[c].expired = FALSE
  BY <1>1, <1>2 DEF CustodyInv, LockedRuns, CardRow
<1>4. QED
  BY <1>1, <1>2, <1>3 DEF Releases, CardsBut, CustodyInv, RepairsLimited

\* The recovery of a parked card is requested in a transaction of its own.
LEMMA RecoverParkedSteps ==
  ASSUME CustodyInv, Undisturbed, NEW w \in Workers, RecoverParked(w)
  PROVE  SlotsBut(w) /\ Concludes(w) /\ UNCHANGED <<tick, cmd>>
<1> DEFINE c == inv[w].card
           h == inv[w].beat
<1>1. inv[w].pc \in Reported /\ inv[w].pc \in Holding \cup Reported
  BY DEF RecoverParked, Reported
<1>2. c \in Cards /\ card[c] \in CardRow /\ h \in Beats /\ inv[w].pc \in Working
  BY <1>1, ResultRefs
<1>3. Ends(w, "settling")
  BY SlotEnds DEF RecoverParked
<1>4. EndsBeat(h) /\ beat'[h].status # "running"
  <2>1. BeatOver(inv[w]) /\ h # None
    BY <1>2, IdentityAssumption DEF CustodyInv, Slots, Sound, IdentityAssumption
  <2>2. QED
    BY <2>1 DEF BeatOver, RecoverParked, EndsBeat, BeatsBut
<1>5. KeepsRun(w)
  BY <1>3, KeptRun DEF RecoverParked, Ends, Reported
<1>6. Releases(c) /\ (card'[c].status # "in_progress" \/ card'[c].status = card[c].status)
  <2>1. CASE UNCHANGED card
    BY <1>1, <2>1, ReleasedRow
  <2>2. CASE ~UNCHANGED card
    <3>1. PICK row \in Recovered(card[c]) : card' = [card EXCEPT ![c] = row]
      BY <2>2 DEF RecoverParked
    <3>2. card[c].lock = None /\ card[c].expired = FALSE
      <4>1. card[c].lock = None
        BY <1>1, <1>2, FreeCard DEF Reported, Holding
      <4>2. QED
        BY <1>2, <4>1 DEF CustodyInv, LockedRuns, CardRow
    <3>3. /\ row.lock = None /\ row.expired = FALSE /\ row.repairs = card[c].repairs
          /\ row.status = card[c].status \/ row.status \in Exhausted
          /\ card[c].recovery # "none" => row.recovery # "none"
      BY <1>2, <3>1, <3>2, RecoveredFacts
    <3>4. Releases(c) /\ card'[c] = row
      BY <1>2, <3>1, <3>3, ReleasedCard
    <3>5. "in_progress" \notin Exhausted
      BY LimitAssumption DEF LimitAssumption
    <3>6. QED
      BY <3>3, <3>4, <3>5
  <2>3. QED
    BY <2>1, <2>2
<1>7. "settling" \in Reported \cup {"following", "worked"}
  BY DEF Reported
<1>8. QED
  BY <1>1, <1>3, <1>4, <1>5, <1>6, <1>7, ReportParts DEF RecoverParked

\* A malformed report is always counted: its card is not in recovery yet.
LEMMA ScoldSteps ==
  ASSUME CustodyInv, Undisturbed, NEW w \in Workers, Scold(w)
  PROVE  SlotsBut(w) /\ Concludes(w) /\ UNCHANGED <<tick, cmd>>
<1> DEFINE c == inv[w].card
           h == inv[w].beat
<1>1. inv[w].pc \in Holding /\ inv[w].pc \in Holding \cup Reported
  BY DEF Scold, Holding
<1>2. c \in Cards /\ card[c] \in CardRow /\ h \in Beats /\ inv[w].pc \in Working
  BY <1>1, ResultRefs
<1>3. "invalid" \in Outcomes
  <2>1. inv[w].outcome \in Outcomes \cup {None}
    BY DEF CustodyInv, Slots, Sound, MayReport
  <2>2. QED
    BY <2>1, IdentityAssumption DEF Scold, IdentityAssumption, AllOutcomes
<1>4. card[c].repairs < 3
  <2>1. card[c].recovery = "none"
    BY <1>1, HoldingFacts
  <2>2. card[c].repairs # 3 /\ card[c].repairs \in 0..3
    BY <1>2, <1>3, <2>1 DEF CustodyInv, RepairsLimited, CardRow
  <2>3. QED
    BY <2>2
<1>5. /\ \E row \in Corrected(card[c]) : card' = [card EXCEPT ![c] = row]
      /\ inv' = [inv EXCEPT ![w].pc = "scolded", ![w].verdict = "failed",
                            ![w].follow = card[c].repairs < 2]
      /\ UNCHANGED <<run, beat, tick, cmd>>
  BY <1>1, <1>4, NeverSettled DEF Scold
<1>6. PICK row \in Corrected(card[c]) : card' = [card EXCEPT ![c] = row]
  BY <1>5
<1>7. /\ row.lock = None /\ row.expired = FALSE /\ row.status # "in_progress"
      /\ "invalid" \in Outcomes /\ row.repairs = 3 => row.recovery # "none"
  BY <1>2, <1>3, <1>4, <1>6, CorrectedFacts DEF Undisturbed
<1>8. Releases(c) /\ card'[c] = row
  BY <1>2, <1>6, <1>7, ReleasedCard
<1>9. Ends(w, "scolded")
  BY <1>5, SlotEnds
<1>10. EndsBeat(h)
  BY <1>5 DEF EndsBeat, BeatsBut
<1>11. KeepsRun(w)
  BY <1>5, <1>9, KeptRun DEF Ends, Reported
<1>12. card'[c].status # "in_progress"
  BY <1>7, <1>8
<1>13. "scolded" \in Reported \cup {"following", "worked"}
  BY DEF Reported
<1>14. QED
  BY <1>1, <1>5, <1>8, <1>9, <1>10, <1>11, <1>12, <1>13, ReportParts

\* Its agent is freed and its heartbeat ended.
LEMMA ScoldedSteps ==
  ASSUME CustodyInv, NEW w \in Workers, FreeScolded(w) \/ FailScolded(w)
  PROVE  SlotsBut(w) /\ Concludes(w) /\ UNCHANGED <<tick, cmd>>
<1> DEFINE c == inv[w].card
           h == inv[w].beat
<1>1. inv[w].pc \in Reported /\ inv[w].pc \in Holding \cup Reported /\ UNCHANGED <<card, run, tick, cmd>>
  BY DEF FreeScolded, FailScolded, Reported
<1>2. Releases(c) /\ h \in Beats
  BY <1>1, ReleasedRow, ResultRefs
<1>3. CASE FreeScolded(w)
  <2>1. Ends(w, "freed")
    BY <1>3, SlotEnds DEF FreeScolded, Goto
  <2>2. EndsBeat(h)
    BY <1>3 DEF FreeScolded, EndsBeat, BeatsBut
  <2>3. KeepsRun(w)
    BY <1>1, <2>1, KeptRun DEF Ends, Reported
  <2>4. "freed" \in Reported \cup {"following", "worked"}
    BY DEF Reported
  <2>5. QED
    BY <1>1, <1>2, <2>1, <2>2, <2>3, <2>4, ReportParts
<1>4. CASE FailScolded(w)
  <2>1. Ends(w, "settling")
    BY <1>4, SlotEnds DEF FailScolded, Goto
  <2>2. EndsBeat(h) /\ beat'[h].status # "running"
    <3>1. "failed" \in Ended
      BY DEF Ended
    <3>2. QED
      BY <1>2, <1>4, <3>1, EndedBeat DEF FailScolded
  <2>3. KeepsRun(w)
    BY <1>1, <2>1, KeptRun DEF Ends, Reported
  <2>4. "settling" \in Reported \cup {"following", "worked"}
    BY DEF Reported
  <2>5. QED
    BY <1>1, <1>2, <2>1, <2>2, <2>3, <2>4, ReportParts
<1>5. QED
  BY <1>3, <1>4

\* completeTaskRun ends the run after the result.
LEMMA SettleSteps ==
  ASSUME CustodyInv, NEW w \in Workers, SettleRun(w)
  PROVE  SlotsBut(w) /\ Concludes(w) /\ UNCHANGED <<tick, cmd>>
<1> DEFINE c == inv[w].card
           h == inv[w].beat
<1>1. /\ inv[w].pc = "settling" /\ inv[w].pc \in Reported /\ inv[w].pc \in Holding \cup Reported
      /\ UNCHANGED <<card, beat, tick, cmd>>
  BY DEF SettleRun, Reported
<1>2. Releases(c) /\ h \in Beats /\ inv[w].pc \in Working
  BY <1>1, ReleasedRow, ResultRefs
<1>3. PICK p \in {"following", "worked"} : p = IF inv[w].follow THEN "following" ELSE "worked"
  OBVIOUS
<1>4. Ends(w, p)
  BY <1>3, SlotEnds DEF SettleRun, Goto
<1>5. EndsBeat(h) /\ beat'[h].status # "running"
  <2>1. BeatOver(inv[w]) /\ h # None
    BY <1>2, IdentityAssumption DEF CustodyInv, Slots, Sound, IdentityAssumption
  <2>2. QED
    BY <1>1, <2>1 DEF BeatOver, EndsBeat, BeatsBut
<1>6. KeepsRun(w)
  <2>1. inv[w].verdict \in Ended
    BY <1>1, SlotType DEF CustodyInv, LeaseInv, Remembers
  <2>2. inv'[w].pc \notin Reported /\ run' = EndRun(inv[w].run, inv[w].verdict)
    BY <1>4 DEF SettleRun, Ends, Reported
  <2>3. QED
    BY <1>2, <2>1, <2>2, EndedRun
<1>7. card'[c].status = card[c].status
  BY <1>1
<1>8. QED
  BY <1>1, <1>2, <1>4, <1>5, <1>6, <1>7, ReportParts

-----------------------------------------------------------------------------
(* After a result, and what never happens.                                 *)

\* enqueueTaskRun finds an active run, or makes one.
LEMMA EnqueueForms ==
  ASSUME LeaseInv, NEW c \in Cards, Enqueue(c)
  PROVE  Enqueues(c)
<1>1. run \in [Runs -> RunRow]
  BY Tables
<1>2. CASE (ActiveRuns(c) # {} \/ AbsentRuns = {}) /\ run' = run
  BY <1>2 DEF Enqueues
<1>3. CASE /\ ActiveRuns(c) = {} /\ AbsentRuns # {}
           /\ run' = [run EXCEPT ![CHOOSE r \in AbsentRuns : TRUE] = NewRun(c)]
  <2>1. PICK r \in AbsentRuns : run' = [run EXCEPT ![r] = NewRun(c)]
    BY <1>3
  <2>2. r \in Runs /\ run[r].status = "absent"
    BY DEF AbsentRuns
  <2>3. run'[r] = NewRun(c) /\ RunsBut(r)
    BY <1>1, <2>1, <2>2 DEF RunsBut
  <2>4. run'[r].status = "queued" /\ run'[r].card = c /\ run'[r].beat = None
    BY <2>3 DEF NewRun
  <2>5. QED
    BY <1>3, <2>2, <2>3, <2>4 DEF Enqueues
<1>4. QED
  BY <1>2, <1>3 DEF Enqueue

\* The follow-up, the worker's own end of the run, backpressure and the end.
LEMMA AfterSteps ==
  ASSUME CustodyInv, NEW w \in Workers
  PROVE  /\ EnqueueFollowUp(w) => SlotsBut(w) /\ Follows(w) /\ UNCHANGED <<tick, cmd>>
         /\ FinishRun(w) => SlotsBut(w) /\ Advances(w) /\ UNCHANGED <<tick, cmd>>
         /\ Requeue(w) => SlotsBut(w) /\ Requeues(w) /\ UNCHANGED <<tick, cmd>>
         /\ Refresh(w) => SlotsBut(w) /\ Rests(w) /\ UNCHANGED <<tick, cmd>>
<1>1. inv \in [Workers -> Invocation] /\ inv[w] \in Invocation /\ run \in [Runs -> RunRow]
  BY Tables DEF CustodyInv
<1>2. ASSUME EnqueueFollowUp(w) PROVE SlotsBut(w) /\ Follows(w) /\ UNCHANGED <<tick, cmd>>
  <2>1. Goes(w, "worked")
    BY <1>2, SlotGoes DEF EnqueueFollowUp, Goto, CustodyInv
  <2>2. inv[w].pc = "following" /\ inv[w].card \in Cards
    BY <1>2, SlotRefs DEF EnqueueFollowUp, CustodyInv
  <2>3. Enqueues(inv[w].card)
    BY <1>2, <2>2, EnqueueForms DEF EnqueueFollowUp, CustodyInv
  <2>4. QED
    BY <1>2, <2>1, <2>2, <2>3 DEF EnqueueFollowUp, Goes, Follows
<1>3. ASSUME FinishRun(w) PROVE SlotsBut(w) /\ Advances(w) /\ UNCHANGED <<tick, cmd>>
  <2>1. Goes(w, "refreshing")
    BY <1>3, SlotGoes DEF FinishRun, Goto, CustodyInv
  <2>2. inv[w].pc = "worked" /\ RunOver(inv[w])
    BY <1>3 DEF FinishRun, CustodyInv, Slots, Sound
  <2>3. run' = run
    BY <1>3, <2>2 DEF FinishRun, RunOver, Ended
  <2>4. QED
    BY <1>3, <2>1, <2>2, <2>3 DEF FinishRun, Goes, Advances
<1>4. ASSUME Requeue(w) PROVE SlotsBut(w) /\ Requeues(w) /\ UNCHANGED <<tick, cmd>>
  <2>1. Goes(w, "refreshing")
    BY <1>4, SlotGoes DEF Requeue, Goto, CustodyInv
  <2>2. inv[w].run \in Runs /\ run[inv[w].run].status = "running"
    BY <1>4, OnlyRun DEF Requeue, Working, PreLock, Fresh
  <2>3. /\ run'[inv[w].run].status \in Active /\ run'[inv[w].run].card = run[inv[w].run].card
        /\ run'[inv[w].run].beat = run[inv[w].run].beat /\ RunsBut(inv[w].run)
    <3>1. CASE run' = run
      BY <2>2, <3>1 DEF RunsBut, Active
    <3>2. CASE run' = [run EXCEPT ![inv[w].run].status = "queued"]
      BY <1>1, <2>2, <3>2 DEF RunsBut, Active, RunRow
    <3>3. QED
      BY <1>4, <3>1, <3>2 DEF Requeue
  <2>4. QED
    BY <1>4, <2>1, <2>3 DEF Requeue, Goes, Requeues
<1>5. ASSUME Refresh(w) PROVE SlotsBut(w) /\ Rests(w) /\ UNCHANGED <<tick, cmd>>
  BY <1>1, <1>5 DEF Refresh, Rests, SlotsBut
<1>6. QED
  BY <1>2, <1>3, <1>4, <1>5

\* No claim meets a lock, no dispatch is refused for good, and no lock in use has
\* expired: the error paths of dispatchCard are not taken.
LEMMA NeverRefused ==
  ASSUME CustodyInv, NEW w \in Workers
  PROVE  /\ ~LockRefused(w) /\ ~FreeRefused(w) /\ ~FailRun(w) /\ ~ReadFailedCard(w)
         /\ ~RetryFailedCard(w) /\ ~FreeAssignee(w) /\ ~RenewLock(w)
<1>1. inv[w].pc \in Working \cup Over \cup {"idle"}
  BY DEF CustodyInv, Slots, Sound
<1>2. ~LockRefused(w)
  BY FreeCard DEF LockRefused, LockFree, Working, PreLock, Holding
<1>3. ~FailRun(w)
  <2>1. inv[w].pc = "error" => inv[w].outcome = None
    BY ClaimedCard DEF Fresh
  <2>2. QED
    BY <2>1, IdentityAssumption DEF FailRun, IdentityAssumption, AllOutcomes
<1>4. ~RenewLock(w)
  BY HoldingFacts DEF RenewLock, Holding
<1>5. ~FreeRefused(w) /\ ~ReadFailedCard(w) /\ ~RetryFailedCard(w) /\ ~FreeAssignee(w)
  BY <1>1 DEF FreeRefused, ReadFailedCard, RetryFailedCard, FreeAssignee, Working, PreLock, Fresh,
    Holding, Reported, Over
<1>6. QED
  BY <1>2, <1>3, <1>4, <1>5

\* A worker's step is of one of these kinds.
LEMMA WorkerKinds ==
  ASSUME CustodyInv, Undisturbed, NEW w \in Workers, Worker(w)
  PROVE  WorkerKind(w)
<1>1. CASE Admission(w)
  BY <1>1, AdvanceSteps, ClaimSteps, OpenSteps DEF Admission, WorkerKind
<1>2. CASE Attempt(w)
  BY <1>2, AdvanceSteps, AcquireSteps, NeverRefused, CompleteSteps, DelegateSteps, HandoffSteps,
    FailSteps, ParkSteps, RecoverParkedSteps, ScoldSteps, ScoldedSteps DEF Attempt, WorkerKind
<1>3. CASE Aftermath(w)
  BY <1>3, SettleSteps, AfterSteps, NeverRefused DEF Aftermath, WorkerKind
<1>4. QED
  BY <1>1, <1>2, <1>3 DEF Worker

-----------------------------------------------------------------------------
(* A worker's step keeps the custody of every other slot.                  *)

\* What a slot relies on is kept if its run, card and heartbeat are left alone.
LEMMA SlotFrame ==
  ASSUME CustodyInv, NEW v \in Workers, inv'[v] = inv[v],
         inv[v].pc \in Working => run'[inv[v].run] = run[inv[v].run],
         inv[v].pc \in PreLock \cup Holding => card'[inv[v].card] = card[inv[v].card],
         inv[v].beat # None => beat'[inv[v].beat] = beat[inv[v].beat],
         inv[v].beat # None =>
           \A c \in Cards : card[c].lock # inv[v].beat => card'[c].lock # inv[v].beat,
         RunOver(inv[v])'
  PROVE  Sound(inv[v])'
<1>1. Sound(inv[v])
  BY DEF CustodyInv, Slots
<1>2. inv[v].pc \in {"linked", "opened"} \cup Holding \cup Reported => inv[v].beat # None
  <2>1. Linked(inv[v])
    BY <1>1 DEF Sound
  <2>2. inv[v].pc = "opened" => inv[v].beat \in Beats
    BY SlotRefs DEF CustodyInv
  <2>3. QED
    BY <2>1, <2>2, IdentityAssumption DEF Linked, IdentityAssumption
<1>3. OwnRun(inv[v])'
  BY <1>1 DEF Sound, OwnRun
<1>4. NoRecovery(inv[v])'
  BY <1>1 DEF Sound, NoRecovery
<1>5. Unlinked(inv[v])'
  <2>1. inv[v].pc \in Fresh \cup {"opened"} => inv[v].pc \in Working
    BY DEF Working, PreLock
  <2>2. QED
    BY <1>1, <1>2, <2>1 DEF Sound, Unlinked
<1>6. Linked(inv[v])'
  <2>1. inv[v].pc \in {"linked"} \cup Holding \cup Reported => inv[v].pc \in Working
    BY DEF Working, PreLock
  <2>2. QED
    BY <1>1, <2>1 DEF Sound, Linked
<1>7. HasLock(inv[v])'
  BY <1>1 DEF Sound, HasLock, SameColumns
<1>8. NoLock(inv[v])'
  BY <1>1 DEF Sound, NoLock
<1>9. MayReport(inv[v])'
  BY <1>1 DEF Sound, MayReport
<1>10. BeatOver(inv[v])'
  BY <1>1 DEF Sound, BeatOver
<1>11. QED
  BY <1>1, <1>3, <1>4, <1>5, <1>6, <1>7, <1>8, <1>9, <1>10 DEF Sound

\* Which run a worker's step writes: its own, one it claims, or a new one.
LEMMA RunWrites ==
  ASSUME CustodyInv, NEW w \in Workers, WorkerKind(w)
  PROVE  \/ UNCHANGED run
         \/ inv[w].pc \in Working /\ RunsBut(inv[w].run)
         \/ \E r \in Runs : RunsBut(r) /\ run[r].status \in {"absent", "queued"}
<1>1. CASE UNCHANGED run
  BY <1>1
<1>2. CASE Claims(w)
  BY <1>2 DEF Claims
<1>3. CASE Follows(w)
  BY <1>3 DEF Follows, Enqueues
<1>4. CASE Links(w) \/ Concludes(w) \/ Requeues(w)
  BY <1>4 DEF Links, Concludes, Requeues, Working, PreLock, Fresh
<1>5. QED
  <2>1. Advances(w) \/ Opens(w) \/ Acquires(w) \/ Rests(w) => UNCHANGED run
    BY DEF Advances, Opens, Acquires, Rests
  <2>2. QED
    BY <1>1, <1>2, <1>3, <1>4, <2>1 DEF WorkerKind

\* Which card it writes: that of the lock it takes or gives back.
LEMMA CardWrites ==
  ASSUME CustodyInv, NEW w \in Workers, WorkerKind(w)
  PROVE  /\ UNCHANGED card \/ (inv[w].pc \in Working /\ CardsBut(inv[w].card))
         /\ \A c \in Cards : card'[c].lock \in {card[c].lock, None, inv[w].beat}
<1>1. CASE UNCHANGED card
  <2>1. \A c \in Cards : card'[c].lock = card[c].lock
    BY <1>1
  <2>2. QED
    BY <1>1, <2>1
<1>2. CASE Acquires(w)
  <2>1. inv[w].pc \in Working /\ CardsBut(inv[w].card) /\ card'[inv[w].card].lock = inv[w].beat
    BY <1>2 DEF Acquires, Working, PreLock
  <2>2. QED
    BY <2>1 DEF CardsBut
<1>3. CASE Concludes(w)
  <2>1. inv[w].pc \in Working /\ CardsBut(inv[w].card) /\ card'[inv[w].card].lock = None
    BY <1>3 DEF Concludes, Working
  <2>2. QED
    BY <2>1 DEF CardsBut
<1>4. QED
  <2>1. Advances(w) \/ Claims(w) \/ Opens(w) \/ Links(w) \/ Follows(w) \/ Requeues(w) \/ Rests(w)
          => UNCHANGED card
    BY DEF Advances, Claims, Opens, Links, Follows, Requeues, Rests
  <2>2. QED
    BY <1>1, <1>2, <1>3, <2>1 DEF WorkerKind

\* Which heartbeat it writes: its own, or a new one.
LEMMA BeatWrites ==
  ASSUME CustodyInv, NEW w \in Workers, WorkerKind(w)
  PROVE  \/ UNCHANGED beat
         \/ inv[w].beat \in Beats /\ (\A x \in Beats \ {inv[w].beat} : beat'[x] = beat[x])
              /\ beat'[inv[w].beat].card = beat[inv[w].beat].card
              /\ beat'[inv[w].beat].status \in {beat[inv[w].beat].status} \cup Ended
              /\ (beat[inv[w].beat].locked => beat'[inv[w].beat].locked)
         \/ \E h \in Beats : beat[h].status = "absent" /\ (\A x \in Beats \ {h} : beat'[x] = beat[x])
<1>1. CASE UNCHANGED beat
  BY <1>1
<1>2. CASE Opens(w)
  BY <1>2 DEF Opens, BeatsBut
<1>3. CASE Acquires(w)
  <2>1. inv[w].beat \in Beats
    BY <1>3, SlotRefs DEF Acquires, CustodyInv
  <2>2. QED
    BY <1>3, <2>1 DEF Acquires, BeatsBut
<1>4. CASE Concludes(w)
  <2>1. inv[w].beat \in Beats
    BY <1>4, ResultRefs DEF Concludes
  <2>2. QED
    BY <1>4, <2>1 DEF Concludes, BeatsBut
<1>5. QED
  <2>1. Advances(w) \/ Claims(w) \/ Links(w) \/ Follows(w) \/ Requeues(w) \/ Rests(w)
          => UNCHANGED beat
    BY DEF Advances, Claims, Links, Follows, Requeues, Rests
  <2>2. QED
    BY <1>1, <1>2, <1>3, <1>4, <2>1 DEF WorkerKind

\* The other slots keep what they rely on.
LEMMA OthersKept ==
  ASSUME CustodyInv, NEW w \in Workers, WorkerKind(w), NEW v \in Workers \ {w}
  PROVE  Sound(inv[v])'
<1>1. inv'[v] = inv[v] /\ v # w /\ v \in Workers
  BY DEF WorkerKind, SlotsBut
<1>2. inv[v].pc \in Working => inv[v].run \in Runs /\ run[inv[v].run].status = "running"
  BY <1>1, OnlyRun
<1>3. RunOver(inv[v]) /\ inv[v].beat \in Beats \cup {None}
  BY <1>1, SlotRefs DEF CustodyInv, Slots, Sound
<1>4. inv[v].beat # None => beat[inv[v].beat].status # "absent" /\ inv[v].beat # inv[w].beat
  BY <1>1 DEF CustodyInv, LeaseInv, OwnBeats
<1>5. inv[v].pc \in Working => run'[inv[v].run] = run[inv[v].run]
  <2>1. inv[v].pc \in Working /\ inv[w].pc \in Working => inv[v].run # inv[w].run
    BY <1>1, WorkersApart
  <2>2. QED
    BY <1>2, <2>1, RunWrites DEF RunsBut
<1>6. inv[v].pc \in PreLock \cup Holding => card'[inv[v].card] = card[inv[v].card]
  <2>1. inv[v].pc \in Working /\ inv[w].pc \in Working => inv[v].card # inv[w].card
    BY <1>1, WorkersApart
  <2>2. inv[v].pc \in PreLock \cup Holding => inv[v].pc \in Working /\ inv[v].card \in Cards
    BY <1>1, SlotRefs DEF CustodyInv, Working, PreLock, Fresh, Holding
  <2>3. QED
    BY <2>1, <2>2, CardWrites DEF CardsBut
<1>7. inv[v].beat # None => beat'[inv[v].beat] = beat[inv[v].beat]
  BY <1>3, <1>4, BeatWrites
<1>8. inv[v].beat # None =>
        \A c \in Cards : card[c].lock # inv[v].beat => card'[c].lock # inv[v].beat
  BY <1>4, CardWrites
<1>9. RunOver(inv[v])'
  <2>1. CASE inv[v].pc \notin {"following", "worked"}
    BY <1>1, <2>1 DEF RunOver
  <2>2. CASE inv[v].pc \in {"following", "worked"}
    <3>1. inv[v].run \in Runs /\ run[inv[v].run].status \in Ended
      BY <1>3, <2>2 DEF RunOver
    <3>2. inv[w].pc \in Working => inv[v].run # inv[w].run
      BY <3>1, OnlyRun DEF Ended
    <3>3. run'[inv[v].run] = run[inv[v].run]
      BY <3>1, <3>2, RunWrites DEF RunsBut, Ended
    <3>4. QED
      BY <1>1, <3>1, <3>3 DEF RunOver
  <2>3. QED
    BY <2>1, <2>2
<1>10. QED
  BY <1>1, <1>5, <1>6, <1>7, <1>8, <1>9, SlotFrame

-----------------------------------------------------------------------------
(* The slot that takes a step keeps its own custody.                       *)

\* A slot goes on with nothing written.
LEMMA AdvancedSlot ==
  ASSUME CustodyInv, NEW w \in Workers, Advances(w)
  PROVE  Sound(inv[w])'
<1>1. Sound(inv[w])
  BY DEF CustodyInv, Slots
<1>2. /\ UNCHANGED <<card, run, beat>> /\ Stays(inv[w], inv'[w]) /\ inv'[w].view = inv[w].view
      /\ inv[w].pc \in Fresh \/ inv'[w].agent = inv[w].agent
  BY DEF Advances
<1>3. CASE inv[w].pc \in Fresh /\ inv'[w].pc \in Fresh /\ inv'[w].outcome = inv[w].outcome
  BY <1>1, <1>2, <1>3 DEF Sound, OwnRun, NoRecovery, Unlinked, Linked, HasLock, NoLock, MayReport,
    RunOver, BeatOver, Stays, Working, PreLock, Fresh, Holding, Reported, Over
<1>4. CASE inv[w].pc \in Holding /\ inv'[w].pc \in Holding
           /\ inv'[w].outcome \in {inv[w].outcome} \cup Outcomes /\ inv'[w].agent = inv[w].agent
  BY <1>1, <1>2, <1>4 DEF Sound, OwnRun, NoRecovery, Unlinked, Linked, HasLock, NoLock, MayReport,
    RunOver, BeatOver, Stays, Working, PreLock, Fresh, Holding, Reported, Over, SameColumns
<1>5. CASE inv[w].pc = "worked" /\ inv'[w].pc = "refreshing" /\ inv'[w].outcome = inv[w].outcome
  BY <1>1, <1>2, <1>5 DEF Sound, OwnRun, NoRecovery, Unlinked, Linked, HasLock, NoLock, MayReport,
    RunOver, BeatOver, Stays, Working, PreLock, Fresh, Holding, Reported, Over
<1>6. QED
  <2>1. inv[w].pc \in Holding => inv[w].pc \notin Fresh
    BY DEF Holding, Fresh
  <2>2. QED
    BY <1>2, <1>3, <1>4, <1>5, <2>1 DEF Advances

\* A claim: the run is running, has no heartbeat yet, and its card is not in recovery.
LEMMA ClaimedSlot ==
  ASSUME CustodyInv, NEW w \in Workers, Claims(w)
  PROVE  Sound(inv[w])'
<1>1. /\ inv'[w].pc = "claimed" /\ inv'[w].beat = None /\ inv'[w].outcome = None
      /\ inv'[w].run \in Runs /\ run'[inv'[w].run].status = "running"
      /\ run'[inv'[w].run].card = inv'[w].card /\ card'[inv'[w].card].recovery = "none"
  BY DEF Claims
<1>2. run'[inv'[w].run].beat = None
  BY DEF Claims, CustodyInv, RunBeats
<1>3. QED
  BY <1>1, <1>2 DEF Sound, OwnRun, NoRecovery, Unlinked, Linked, HasLock, NoLock, MayReport,
    RunOver, BeatOver, Working, PreLock, Fresh, Holding, Reported, Over

\* A new heartbeat: of the card of the claim, and no card's lock.
LEMMA OpenedSlot ==
  ASSUME CustodyInv, NEW w \in Workers, Opens(w)
  PROVE  Sound(inv[w])'
<1> DEFINE j == inv'[w]
<1>1. Sound(inv[w]) /\ inv[w].pc = "admitted"
  BY DEF CustodyInv, Slots, Opens
<1>2. /\ UNCHANGED <<card, run>> /\ j.pc = "opened" /\ j.run = inv[w].run /\ j.card = inv[w].card
      /\ j.outcome = inv[w].outcome /\ j.beat \in Beats /\ beat[j.beat].status = "absent"
      /\ beat'[j.beat].card = j.card
  BY DEF Opens
<1>3. \A c \in Cards : card[c].lock # j.beat
  BY <1>2, Tables DEF CustodyInv, LeaseInv, LockHistory
<1>4. OwnRun(inv[w])' /\ NoRecovery(inv[w])' /\ Unlinked(inv[w])'
  BY <1>1, <1>2 DEF Sound, OwnRun, NoRecovery, Unlinked, Working, PreLock, Fresh
<1>5. NoLock(inv[w])'
  BY <1>2, <1>3 DEF NoLock
<1>6. Linked(inv[w])' /\ HasLock(inv[w])' /\ MayReport(inv[w])' /\ RunOver(inv[w])' /\ BeatOver(inv[w])'
  BY <1>1, <1>2 DEF Sound, Linked, HasLock, MayReport, RunOver, BeatOver, Fresh, Holding, Reported, Over
<1>7. QED
  BY <1>2, <1>4, <1>5, <1>6 DEF Sound, Working, PreLock

\* The claim's run points at the heartbeat.
LEMMA LinkedSlot ==
  ASSUME CustodyInv, NEW w \in Workers, Links(w)
  PROVE  Sound(inv[w])'
<1> DEFINE j == inv'[w]
<1>1. Sound(inv[w]) /\ inv[w].pc = "opened" /\ inv[w].beat \in Beats
  BY SlotRefs DEF CustodyInv, Slots, Links
<1>2. /\ UNCHANGED <<card, beat>> /\ j.pc = "linked" /\ j.run = inv[w].run /\ j.card = inv[w].card
      /\ j.beat = inv[w].beat /\ j.outcome = inv[w].outcome
      /\ run'[j.run].status = run[j.run].status /\ run'[j.run].card = run[j.run].card
      /\ run'[j.run].beat = j.beat /\ run'[j.run].agent = j.agent
  BY DEF Links, Stays
<1>3. OwnRun(inv[w])' /\ NoRecovery(inv[w])' /\ Unlinked(inv[w])' /\ Linked(inv[w])'
  BY <1>1, <1>2 DEF Sound, OwnRun, NoRecovery, Unlinked, Linked, Working, PreLock, Fresh, Holding
<1>4. NoLock(inv[w])' /\ HasLock(inv[w])'
  BY <1>1, <1>2 DEF Sound, NoLock, HasLock, Holding
<1>5. MayReport(inv[w])' /\ RunOver(inv[w])' /\ BeatOver(inv[w])'
  BY <1>1, <1>2 DEF Sound, MayReport, RunOver, BeatOver, Fresh, Over
<1>6. QED
  BY <1>2, <1>3, <1>4, <1>5 DEF Sound, Working, PreLock

\* The card is locked for the heartbeat, and is the row that was read.
LEMMA AcquiredSlot ==
  ASSUME CustodyInv, NEW w \in Workers, Acquires(w)
  PROVE  Sound(inv[w])'
<1> DEFINE j == inv'[w]
<1>1. Sound(inv[w]) /\ inv[w].pc = "linked"
  BY DEF CustodyInv, Slots, Acquires
<1>2. /\ UNCHANGED run /\ j.pc = "locked" /\ j.run = inv[w].run /\ j.card = inv[w].card
      /\ j.beat = inv[w].beat /\ j.outcome = inv[w].outcome /\ j.agent = inv[w].agent
      /\ j.view = card'[j.card] /\ card'[j.card].lock = j.beat /\ ~card'[j.card].expired
      /\ card'[j.card].recovery = card[j.card].recovery
  BY DEF Acquires, Stays
<1>3. OwnRun(inv[w])' /\ NoRecovery(inv[w])' /\ Unlinked(inv[w])' /\ Linked(inv[w])'
  BY <1>1, <1>2 DEF Sound, OwnRun, NoRecovery, Unlinked, Linked, Working, PreLock, Fresh, Holding
<1>4. NoLock(inv[w])' /\ HasLock(inv[w])'
  BY <1>1, <1>2 DEF Sound, NoLock, HasLock, Holding, SameColumns
<1>5. MayReport(inv[w])' /\ RunOver(inv[w])' /\ BeatOver(inv[w])'
  BY <1>1, <1>2 DEF Sound, MayReport, RunOver, BeatOver, Fresh, Over
<1>6. QED
  BY <1>2, <1>3, <1>4, <1>5 DEF Sound, Working, Holding

\* A heartbeat locks no card but its own.
LEMMA OwnLock ==
  ASSUME CustodyInv, NEW w \in Workers, inv[w].pc \in Holding \cup Reported, NEW c \in Cards,
         card[c].lock = inv[w].beat
  PROVE  c = inv[w].card
<1>1. inv[w].beat \in Beats
  BY ResultRefs
<1>2. CASE inv[w].pc \in Holding
  <2>1. card[inv[w].card].lock = inv[w].beat /\ inv[w].card \in Cards
    BY <1>2, HoldingFacts, ResultRefs
  <2>2. beat[inv[w].beat].card = c /\ beat[inv[w].beat].card = inv[w].card
    BY <1>1, <2>1, IdentityAssumption DEF CustodyInv, LockedRuns, IdentityAssumption
  <2>3. QED
    BY <2>2
<1>3. CASE inv[w].pc \notin Holding
  BY <1>1, <1>3, IdentityAssumption DEF CustodyInv, Slots, Sound, NoLock, IdentityAssumption
<1>4. QED
  BY <1>2, <1>3

\* A report: the card is released, and the heartbeat or the run has ended.
LEMMA ReportedSlot ==
  ASSUME CustodyInv, NEW w \in Workers, Concludes(w)
  PROVE  Sound(inv[w])'
<1> DEFINE i == inv[w]
           j == inv'[w]
<1>1. Sound(i) /\ i.pc \in Holding \cup Reported /\ i.run \in Runs /\ i.beat \in Beats /\ i.pc \in Working
  BY ResultRefs DEF CustodyInv, Slots, Concludes
<1>2. /\ j.pc \in Reported \cup {"following", "worked"}
      /\ j.run = i.run /\ j.card = i.card /\ j.beat = i.beat /\ j.outcome = i.outcome
      /\ run'[j.run].card = run[j.run].card /\ run'[j.run].beat = run[j.run].beat
      /\ j.pc \in Reported => run'[j.run].status = run[j.run].status
      /\ j.pc \notin Reported => run'[j.run].status \in Ended
      /\ j.pc \in {"parked", "settling", "following", "worked"} => beat'[j.beat].status # "running"
  BY DEF Concludes, Stays
<1>3. OwnRun(inv[w])' /\ NoRecovery(inv[w])' /\ Unlinked(inv[w])' /\ Linked(inv[w])' /\ HasLock(inv[w])'
  BY <1>1, <1>2 DEF Sound, OwnRun, NoRecovery, Unlinked, Linked, HasLock, Working, PreLock, Fresh,
    Holding, Reported
<1>4. NoLock(inv[w])'
  <2>1. \A c \in Cards : card'[c].lock # i.beat
    <3>1. card'[i.card].lock = None /\ CardsBut(i.card) /\ i.beat # None
      BY <1>1, IdentityAssumption DEF Concludes, IdentityAssumption
    <3>2. \A c \in Cards \ {i.card} : card[c].lock # i.beat
      BY <1>1, OwnLock
    <3>3. QED
      BY <3>1, <3>2 DEF CardsBut
  <2>2. QED
    BY <1>2, <2>1 DEF NoLock
<1>5. MayReport(inv[w])' /\ RunOver(inv[w])' /\ BeatOver(inv[w])'
  BY <1>1, <1>2 DEF Sound, MayReport, RunOver, BeatOver, Fresh, Over, Reported
<1>6. QED
  BY <1>2, <1>3, <1>4, <1>5 DEF Sound, Working, Over

\* What is left of a slot once its run has ended or is queued again.
LEMMA EndedSlot ==
  ASSUME CustodyInv, NEW w \in Workers, Follows(w) \/ Requeues(w) \/ Rests(w)
  PROVE  Sound(inv[w])'
<1> DEFINE i == inv[w]
           j == inv'[w]
<1>1. Sound(i)
  BY DEF CustodyInv, Slots
<1>2. CASE Follows(w)
  <2>1. i.run \in Runs /\ run[i.run].status \in Ended /\ i.pc = "following"
    BY <1>1, <1>2 DEF Follows, Sound, RunOver
  <2>2. run'[i.run].status \in Ended
    <3>1. Enqueues(i.card)
      BY <1>2 DEF Follows
    <3>2. QED
      BY <2>1, <3>1 DEF Enqueues, RunsBut, Ended
  <2>3. /\ UNCHANGED <<card, beat>> /\ j.pc = "worked" /\ j.run = i.run /\ j.card = i.card
        /\ j.beat = i.beat /\ j.outcome = i.outcome
    BY <1>2 DEF Follows, Stays
  <2>4. QED
    BY <1>1, <2>1, <2>2, <2>3 DEF Sound, OwnRun, NoRecovery, Unlinked, Linked, HasLock, NoLock,
      MayReport, RunOver, BeatOver, Working, PreLock, Fresh, Holding, Reported, Over
<1>3. CASE Requeues(w)
  <2>1. /\ UNCHANGED <<card, beat>> /\ i.pc = "error" /\ j.pc = "refreshing" /\ j.beat = i.beat
        /\ j.outcome = i.outcome
    BY <1>3 DEF Requeues, Stays
  <2>2. j.beat = None
    BY <1>1, <2>1 DEF Sound, Unlinked, Fresh
  <2>3. QED
    BY <1>1, <2>1, <2>2 DEF Sound, OwnRun, NoRecovery, Unlinked, Linked, HasLock, NoLock,
      MayReport, RunOver, BeatOver, Working, PreLock, Fresh, Holding, Reported, Over
<1>4. CASE Rests(w)
  <2>1. j.pc = "idle" /\ j.beat = None /\ j.outcome = None
    BY <1>4 DEF Rests, Resting
  <2>2. QED
    BY <2>1 DEF Sound, OwnRun, NoRecovery, Unlinked, Linked, HasLock, NoLock,
      MayReport, RunOver, BeatOver, Working, PreLock, Fresh, Holding, Reported, Over
<1>5. QED
  BY <1>2, <1>3, <1>4

\* The slot that takes the step ...
LEMMA OwnKept ==
  ASSUME CustodyInv, NEW w \in Workers, WorkerKind(w)
  PROVE  Sound(inv[w])'
BY AdvancedSlot, ClaimedSlot, OpenedSlot, LinkedSlot, AcquiredSlot, ReportedSlot, EndedSlot
  DEF WorkerKind

\* ... and every other one keeps what it relies on.
LEMMA AllSlotsKept ==
  ASSUME CustodyInv, NEW w \in Workers, WorkerKind(w)
  PROVE  Slots'
<1>1. \A v \in Workers : Sound(inv[v])'
  <2>1. SUFFICES ASSUME NEW v \in Workers PROVE Sound(inv[v])'
    OBVIOUS
  <2>2. CASE v # w
    BY <2>2, OthersKept
  <2>3. CASE v = w
    BY <2>3, OwnKept
  <2>4. QED
    BY <2>2, <2>3
<1>2. QED
  BY <1>1 DEF Slots

-----------------------------------------------------------------------------
(* A worker's step keeps the custody of the tables.                        *)

\* Heartbeats keep their card and their past.
BeatRowsKept == \A h \in Beats : beat[h].status # "absent" =>
  /\ beat'[h].status # "absent" /\ beat'[h].card = beat[h].card
  /\ beat[h].locked => beat'[h].locked
\* No run becomes active.
KeepsActive == \A r \in Runs : run'[r].status \in Active =>
  run[r].status \in Active /\ run'[r].card = run[r].card
\* No run gets a heartbeat, and one that has a heartbeat is not queued.
KeepsLinks == \A r \in Runs :
  /\ run'[r].status = "queued" => run'[r].beat = None
  /\ run'[r].beat # None => run'[r].beat = run[r].beat /\ run'[r].card = run[r].card
\* No card is locked, an expired card is locked, and the run of a lock stays.
KeepsLocks ==
  /\ \A c \in Cards : card'[c].lock # None => card'[c].lock = card[c].lock
  /\ \A c \in Cards : card'[c].expired => card'[c].lock # None
  /\ \A c \in Cards, r \in Runs :
       /\ card'[c].lock # None
       /\ run[r].status = "running" /\ run[r].card = c /\ run[r].beat = card[c].lock
       => run'[r].status = "running" /\ run'[r].card = c /\ run'[r].beat = run[r].beat

\* Four frames, one for each table.
LEMMA OneActiveFrame ==
  ASSUME CustodyInv, KeepsActive \/ \E c \in Cards : Enqueues(c)
  PROVE  OneActive'
<1> SUFFICES ASSUME NEW q \in Runs, NEW r \in Runs, run'[q].status \in Active,
                    run'[r].status \in Active, run'[q].card = run'[r].card
             PROVE  q = r
  BY DEF OneActive
<1>1. CASE KeepsActive
  BY <1>1 DEF KeepsActive, CustodyInv, OneActive
<1>2. ASSUME NEW c \in Cards, Enqueues(c) PROVE q = r
  <2>1. CASE UNCHANGED run
    BY <2>1 DEF CustodyInv, OneActive
  <2>2. ASSUME NEW n \in Runs, ActiveRuns(c) = {}, run[n].status = "absent",
               run'[n].card = c, RunsBut(n)
        PROVE  q = r
    <3>1. \A x \in Runs : run[x].card = c => run[x].status \notin Active
      BY <2>2 DEF ActiveRuns
    <3>2. \A x \in Runs \ {n} : run'[x] = run[x]
      BY <2>2 DEF RunsBut
    <3>3. CASE q = n
      BY <2>2, <3>1, <3>2, <3>3
    <3>4. CASE r = n
      BY <2>2, <3>1, <3>2, <3>4
    <3>5. CASE q # n /\ r # n
      BY <3>2, <3>5 DEF CustodyInv, OneActive
    <3>6. QED
      BY <3>3, <3>4, <3>5
  <2>3. QED
    BY <1>2, <2>1, <2>2 DEF Enqueues
<1>3. QED
  BY <1>1, <1>2

\* The heartbeats of runs.
LEMMA RunBeatsFrame ==
  ASSUME CustodyInv, BeatRowsKept, KeepsLinks
  PROVE  RunBeats'
<1> SUFFICES ASSUME NEW r \in Runs
             PROVE  /\ run'[r].status = "queued" => run'[r].beat = None
                    /\ run'[r].beat # None => beat'[run'[r].beat].status # "absent"
                                              /\ beat'[run'[r].beat].card = run'[r].card
  BY DEF RunBeats
<1>1. run[r].beat \in Beats \cup {None}
  BY Tables DEF CustodyInv
<1>2. run[r].beat # None => beat[run[r].beat].status # "absent" /\ beat[run[r].beat].card = run[r].card
  BY DEF CustodyInv, RunBeats
<1>3. QED
  BY <1>1, <1>2 DEF BeatRowsKept, KeepsLinks

\* The runs of locks.
LEMMA LockedFrame ==
  ASSUME CustodyInv, BeatRowsKept, KeepsLocks
  PROVE  LockedRuns'
<1> SUFFICES ASSUME NEW c \in Cards
             PROVE  /\ card'[c].lock # None =>
                         /\ beat'[card'[c].lock].card = c
                         /\ \E r \in Runs : run'[r].status = "running" /\ run'[r].card = c
                                            /\ run'[r].beat = card'[c].lock
                    /\ card'[c].expired => card'[c].lock # None
  BY DEF LockedRuns
<1>1. card'[c].expired => card'[c].lock # None
  BY DEF KeepsLocks
<1>2. ASSUME card'[c].lock # None
      PROVE  /\ beat'[card'[c].lock].card = c
             /\ \E r \in Runs : run'[r].status = "running" /\ run'[r].card = c
                                /\ run'[r].beat = card'[c].lock
  <2>1. card'[c].lock = card[c].lock /\ card[c].lock # None /\ card[c].lock \in Beats
    BY <1>2, Tables DEF KeepsLocks, CustodyInv
  <2>2. beat[card[c].lock].status # "absent" /\ beat[card[c].lock].card = c
    BY <2>1 DEF CustodyInv, LeaseInv, LockHistory, LockedRuns
  <2>3. PICK r \in Runs : run[r].status = "running" /\ run[r].card = c /\ run[r].beat = card[c].lock
    BY <2>1 DEF CustodyInv, LockedRuns
  <2>4. run'[r].status = "running" /\ run'[r].card = c /\ run'[r].beat = run[r].beat
    BY <1>2, <2>3 DEF KeepsLocks
  <2>5. QED
    BY <2>1, <2>2, <2>3, <2>4 DEF BeatRowsKept
<1>3. QED
  BY <1>1, <1>2

\* A worker's step keeps the rows of the heartbeats.
LEMMA WorkerBeatRows ==
  ASSUME CustodyInv, NEW w \in Workers, WorkerKind(w)
  PROVE  BeatRowsKept
<1>1. CASE UNCHANGED beat
  BY <1>1 DEF BeatRowsKept
<1>2. CASE /\ inv[w].beat \in Beats /\ \A x \in Beats \ {inv[w].beat} : beat'[x] = beat[x]
           /\ beat'[inv[w].beat].card = beat[inv[w].beat].card
           /\ beat'[inv[w].beat].status \in {beat[inv[w].beat].status} \cup Ended
           /\ beat[inv[w].beat].locked => beat'[inv[w].beat].locked
  BY <1>2 DEF BeatRowsKept, Ended
<1>3. CASE \E h \in Beats :
             beat[h].status = "absent" /\ \A x \in Beats \ {h} : beat'[x] = beat[x]
  BY <1>3 DEF BeatRowsKept
<1>4. \/ UNCHANGED beat
      \/ inv[w].beat \in Beats /\ (\A x \in Beats \ {inv[w].beat} : beat'[x] = beat[x])
           /\ beat'[inv[w].beat].card = beat[inv[w].beat].card
           /\ beat'[inv[w].beat].status \in {beat[inv[w].beat].status} \cup Ended
           /\ (beat[inv[w].beat].locked => beat'[inv[w].beat].locked)
      \/ \E h \in Beats : beat[h].status = "absent" /\ (\A x \in Beats \ {h} : beat'[x] = beat[x])
  BY BeatWrites
<1>5. QED
  BY <1>1, <1>2, <1>3, <1>4

\* No two slots work on the same run: a claim takes a queued one.
LEMMA ApartKept ==
  ASSUME CustodyInv, NEW w \in Workers, WorkerKind(w)
  PROVE  Apart'
<1>1. ASSUME NEW v \in Workers, inv'[v].pc \in Working
      PROVE  \/ inv[v].pc \in Working /\ inv'[v].run = inv[v].run
             \/ v = w /\ inv'[v].run \in Runs /\ run[inv'[v].run].status = "queued"
  <2>1. CASE v # w
    BY <1>1, <2>1 DEF WorkerKind, SlotsBut
  <2>2. CASE v = w
    <3>1. CASE Claims(w)
      BY <2>2, <3>1 DEF Claims
    <3>2. CASE Advances(w) \/ Opens(w) \/ Links(w) \/ Acquires(w)
      BY <1>1, <2>2, <3>2 DEF Advances, Opens, Links, Acquires, Stays, Working, PreLock, Fresh, Holding,
        Reported
    <3>3. CASE Concludes(w)
      BY <1>1, <2>2, <3>3 DEF Concludes, Stays, Working
    <3>4. CASE Follows(w) \/ Requeues(w) \/ Rests(w)
      BY <1>1, <2>2, <3>4 DEF Follows, Requeues, Rests, Resting, Working, PreLock, Fresh, Holding,
        Reported
    <3>5. QED
      BY <3>1, <3>2, <3>3, <3>4 DEF WorkerKind
  <2>3. QED
    BY <2>1, <2>2
<1>2. SUFFICES ASSUME NEW u \in Workers, NEW v \in Workers, u # v, inv'[u].pc \in Working,
                      inv'[v].pc \in Working
               PROVE  inv'[u].run # inv'[v].run
  BY DEF Apart
<1>3. CASE inv[u].pc \in Working /\ inv'[u].run = inv[u].run /\ inv[v].pc \in Working /\ inv'[v].run = inv[v].run
  BY <1>2, <1>3 DEF CustodyInv, Apart
<1>4. CASE inv[u].pc \in Working /\ inv'[u].run = inv[u].run /\ run[inv'[v].run].status = "queued"
  BY <1>4, OnlyRun
<1>5. CASE inv[v].pc \in Working /\ inv'[v].run = inv[v].run /\ run[inv'[u].run].status = "queued"
  BY <1>5, OnlyRun
<1>6. QED
  BY <1>1, <1>2, <1>3, <1>4, <1>5

\* The active run of a card stays unique.
LEMMA WorkerActive ==
  ASSUME CustodyInv, NEW w \in Workers, WorkerKind(w)
  PROVE  OneActive'
<1>1. CASE UNCHANGED run
  BY <1>1, OneActiveFrame DEF KeepsActive
<1>2. CASE Claims(w)
  <2>1. KeepsActive
    BY <1>2 DEF Claims, KeepsActive, RunsBut, Active
  <2>2. QED
    BY <2>1, OneActiveFrame
<1>3. CASE Links(w) \/ Concludes(w)
  <2>1. KeepsActive
    BY <1>3 DEF Links, Concludes, KeepsActive, RunsBut, Active, Ended
  <2>2. QED
    BY <2>1, OneActiveFrame
<1>4. CASE Requeues(w)
  <2>1. run[inv[w].run].status = "running"
    BY <1>4, OnlyRun DEF Requeues, Working, PreLock, Fresh
  <2>2. KeepsActive
    BY <1>4, <2>1 DEF Requeues, KeepsActive, RunsBut, Active
  <2>3. QED
    BY <2>2, OneActiveFrame
<1>5. CASE Follows(w)
  <2>1. inv[w].card \in Cards /\ Enqueues(inv[w].card)
    BY <1>5, SlotRefs DEF Follows, CustodyInv
  <2>2. QED
    BY <2>1, OneActiveFrame
<1>6. QED
  <2>1. Advances(w) \/ Opens(w) \/ Acquires(w) \/ Rests(w) => UNCHANGED run
    BY DEF Advances, Opens, Acquires, Rests
  <2>2. QED
    BY <1>1, <1>2, <1>3, <1>4, <1>5, <2>1 DEF WorkerKind

\* What a run's heartbeat was before its invocation writes it.
LEMMA LinkFacts ==
  ASSUME CustodyInv, NEW w \in Workers
  PROVE  /\ inv[w].pc \in Fresh \cup {"opened"} => run[inv[w].run].beat = None
         /\ inv[w].pc = "opened" =>
              inv[w].beat \in Beats /\ beat[inv[w].beat].status # "absent"
              /\ beat[inv[w].beat].card = inv[w].card
         /\ inv[w].pc \in {"linked"} \cup Holding \cup Reported =>
              inv[w].beat \in Beats /\ run[inv[w].run].beat = inv[w].beat
<1>1. Unlinked(inv[w]) /\ Linked(inv[w])
  BY DEF CustodyInv, Slots, Sound
<1>2. inv[w].pc = "opened" => inv[w].beat \in Beats
  BY SlotRefs DEF CustodyInv
<1>3. inv[w].beat # None => beat[inv[w].beat].status # "absent"
  BY DEF CustodyInv, LeaseInv, OwnBeats
<1>4. QED
  BY <1>1, <1>2, <1>3, Tables DEF Unlinked, Linked, CustodyInv

\* The heartbeats of runs stay theirs.
LEMMA WorkerLinks ==
  ASSUME CustodyInv, NEW w \in Workers, WorkerKind(w)
  PROVE  RunBeats'
<1>0. \A r \in Runs : run[r].status = "queued" => run[r].beat = None
  BY DEF CustodyInv, RunBeats
<1>1. CASE UNCHANGED run
  <2>1. KeepsLinks
    BY <1>0, <1>1 DEF KeepsLinks
  <2>2. QED
    BY <2>1, WorkerBeatRows, RunBeatsFrame
<1>2. CASE Claims(w)
  <2>1. KeepsLinks
    BY <1>0, <1>2 DEF Claims, KeepsLinks, RunsBut
  <2>2. QED
    BY <2>1, WorkerBeatRows, RunBeatsFrame
<1>3. CASE Concludes(w)
  <2>1. run[inv[w].run].status = "running"
    BY <1>3, OnlyRun DEF Concludes, Working
  <2>2. KeepsLinks
    BY <1>0, <1>3, <2>1 DEF Concludes, KeepsLinks, RunsBut, Ended
  <2>3. QED
    BY <2>2, WorkerBeatRows, RunBeatsFrame
<1>4. CASE Requeues(w)
  <2>1. run[inv[w].run].beat = None
    BY <1>4, LinkFacts DEF Requeues, Fresh
  <2>2. KeepsLinks
    BY <1>0, <1>4, <2>1 DEF Requeues, KeepsLinks, RunsBut
  <2>3. QED
    BY <2>2, WorkerBeatRows, RunBeatsFrame
<1>5. CASE Follows(w)
  <2>1. KeepsLinks
    BY <1>0, <1>5 DEF Follows, Enqueues, KeepsLinks, RunsBut
  <2>2. QED
    BY <2>1, WorkerBeatRows, RunBeatsFrame
<1>6. CASE Links(w)
  <2>1. /\ inv[w].beat \in Beats /\ beat[inv[w].beat].status # "absent"
        /\ beat[inv[w].beat].card = inv[w].card
    BY <1>6, LinkFacts DEF Links
  <2>2. inv[w].run \in Runs /\ run[inv[w].run].status = "running" /\ run[inv[w].run].card = inv[w].card
    BY <1>6, OnlyRun DEF Links, Working, PreLock
  <2>3. \A r \in Runs : /\ run[r].status = "queued" => run[r].beat = None
                        /\ run[r].beat # None => beat[run[r].beat].status # "absent"
                                                 /\ beat[run[r].beat].card = run[r].card
    BY DEF CustodyInv, RunBeats
  <2>4. QED
    BY <1>6, <2>1, <2>2, <2>3 DEF Links, RunsBut, RunBeats
<1>7. QED
  <2>1. Advances(w) \/ Opens(w) \/ Acquires(w) \/ Rests(w) => UNCHANGED run
    BY DEF Advances, Opens, Acquires, Rests
  <2>2. QED
    BY <1>1, <1>2, <1>3, <1>4, <1>5, <1>6, <2>1 DEF WorkerKind

\* A lock keeps its running run.
LEMMA WorkerLockedRuns ==
  ASSUME CustodyInv, NEW w \in Workers, WorkerKind(w)
  PROVE  LockedRuns'
<1>0. \A c \in Cards : card[c].expired => card[c].lock # None
  BY DEF CustodyInv, LockedRuns
<1>1. CASE UNCHANGED <<card, run>>
  <2>1. KeepsLocks
    BY <1>0, <1>1 DEF KeepsLocks
  <2>2. QED
    BY <2>1, WorkerBeatRows, LockedFrame
<1>2. CASE Claims(w)
  <2>1. KeepsLocks
    BY <1>0, <1>2 DEF Claims, KeepsLocks, RunsBut
  <2>2. QED
    BY <2>1, WorkerBeatRows, LockedFrame
<1>3. CASE Links(w) \/ Requeues(w)
  <2>1. run[inv[w].run].beat = None /\ UNCHANGED card /\ RunsBut(inv[w].run)
    BY <1>3, LinkFacts DEF Links, Requeues, Fresh
  <2>2. KeepsLocks
    BY <1>0, <2>1 DEF KeepsLocks, RunsBut
  <2>3. QED
    BY <2>2, WorkerBeatRows, LockedFrame
<1>4. CASE Follows(w)
  <2>1. KeepsLocks
    BY <1>0, <1>4 DEF Follows, Enqueues, KeepsLocks, RunsBut
  <2>2. QED
    BY <2>1, WorkerBeatRows, LockedFrame
<1>5. CASE Concludes(w)
  <2>1. run[inv[w].run].card = inv[w].card
    BY <1>5, OnlyRun DEF Concludes, Working
  <2>2. /\ card'[inv[w].card].lock = None /\ card'[inv[w].card].expired = FALSE
        /\ \A d \in Cards \ {inv[w].card} : card'[d] = card[d]
        /\ \A q \in Runs \ {inv[w].run} : run'[q] = run[q]
    BY <1>5 DEF Concludes, CardsBut, RunsBut
  <2>3. KeepsLocks
    BY <1>0, <2>1, <2>2 DEF KeepsLocks
  <2>4. QED
    BY <2>3, WorkerBeatRows, LockedFrame
<1>6. CASE Acquires(w)
  <2> DEFINE c == inv[w].card
             h == inv[w].beat
  <2>1. /\ c \in Cards /\ h \in Beats /\ inv[w].run \in Runs
        /\ run[inv[w].run].status = "running" /\ run[inv[w].run].card = c
        /\ run[inv[w].run].beat = h
    BY <1>6, OnlyRun, LinkFacts, SlotRefs DEF Acquires, Working, PreLock, CustodyInv
  <2>2. beat[h].card = c
    BY <2>1, Tables DEF CustodyInv, RunBeats
  <2>3. /\ UNCHANGED run /\ card'[c].lock = h /\ ~card'[c].expired
        /\ (\A d \in Cards \ {c} : card'[d] = card[d])
        /\ (\A x \in Beats \ {h} : beat'[x] = beat[x]) /\ beat'[h].card = beat[h].card
    BY <1>6 DEF Acquires, CardsBut, BeatsBut
  <2>4. \A d \in Cards : card[d].lock \in Beats \cup {None}
    BY Tables DEF CustodyInv
  <2>5. \A d \in Cards :
          /\ card[d].lock # None =>
               /\ beat[card[d].lock].card = d
               /\ \E r \in Runs : run[r].status = "running" /\ run[r].card = d
                                  /\ run[r].beat = card[d].lock
          /\ card[d].expired => card[d].lock # None
    BY DEF CustodyInv, LockedRuns
  <2>6. SUFFICES ASSUME NEW d \in Cards
                 PROVE  /\ card'[d].lock # None =>
                             /\ beat'[card'[d].lock].card = d
                             /\ \E r \in Runs : run'[r].status = "running" /\ run'[r].card = d
                                                /\ run'[r].beat = card'[d].lock
                        /\ card'[d].expired => card'[d].lock # None
    BY DEF LockedRuns
  <2>7. CASE d = c
    <3>1. run'[inv[w].run].status = "running" /\ run'[inv[w].run].card = d
          /\ run'[inv[w].run].beat = card'[d].lock
      BY <2>1, <2>3, <2>7
    <3>2. QED
      BY <2>1, <2>2, <2>3, <2>7, <3>1
  <2>8. CASE d # c
    <3>1. card'[d] = card[d] /\ \A x \in Beats : beat'[x].card = beat[x].card
      BY <2>3, <2>8
    <3>2. QED
      BY <2>3, <2>4, <2>5, <3>1
  <2>9. QED
    BY <2>7, <2>8
<1>7. QED
  <2>1. Advances(w) \/ Opens(w) \/ Rests(w) => UNCHANGED <<card, run>>
    BY DEF Advances, Opens, Rests
  <2>2. QED
    BY <1>1, <1>2, <1>3, <1>4, <1>5, <1>6, <2>1 DEF WorkerKind

\* The limit of malformed reports stays that of cards in recovery.
LEMMA WorkerRepairs ==
  ASSUME CustodyInv, NEW w \in Workers, WorkerKind(w)
  PROVE  RepairsLimited'
<1>1. CASE UNCHANGED card
  BY <1>1 DEF CustodyInv, RepairsLimited
<1>2. CASE Acquires(w) \/ Concludes(w)
  BY <1>2 DEF CustodyInv, RepairsLimited, Acquires, Concludes, CardsBut
<1>3. QED
  <2>1. Advances(w) \/ Claims(w) \/ Opens(w) \/ Links(w) \/ Follows(w) \/ Requeues(w) \/ Rests(w)
          => UNCHANGED card
    BY DEF Advances, Claims, Opens, Links, Follows, Requeues, Rests
  <2>2. QED
    BY <1>1, <1>2, <2>1 DEF WorkerKind

\* A heartbeat that held a lock is not a new one.
LEMMA LockedRow ==
  ASSUME CustodyInv, NEW h \in Beats, beat[h].locked
  PROVE  beat[h].status # "absent"
BY DEF CustodyInv, LeaseInv, LockHistory

\* Rows the tick read expired stay so, or lost the lock it read.
LEMMA WorkerStale ==
  ASSUME CustodyInv, NEW w \in Workers, WorkerKind(w)
  PROVE  StaleRows'
<1> SUFFICES ASSUME NEW s \in tick.stale
             PROVE  /\ s[2].lock \in Beats /\ beat'[s[2].lock].locked /\ beat'[s[2].lock].card = s[1]
                    /\ card'[s[1]].lock = s[2].lock => card'[s[1]].expired
  BY DEF WorkerKind, StaleRows
<1>1. /\ s[2].lock \in Beats /\ beat[s[2].lock].locked /\ beat[s[2].lock].card = s[1]
      /\ card[s[1]].lock = s[2].lock => card[s[1]].expired
  BY DEF CustodyInv, StaleRows
<1>2. s[1] \in Cards /\ s[2].lock # None
  BY <1>1, Tables DEF CustodyInv, TickRow
<1>3. beat'[s[2].lock].locked /\ beat'[s[2].lock].card = s[1]
  BY <1>1, WorkerBeatRows, LockedRow DEF BeatRowsKept
<1>4. card'[s[1]].lock = s[2].lock => card'[s[1]].expired
  <2>1. CASE Acquires(w)
    <3>1. ~beat[inv[w].beat].locked
      BY <2>1 DEF Acquires, CustodyInv, LeaseInv, LockHistory
    <3>2. QED
      BY <1>1, <1>2, <2>1, <3>1 DEF Acquires, CardsBut
  <2>2. CASE Concludes(w)
    BY <1>1, <1>2, <2>2 DEF Concludes, CardsBut
  <2>3. CASE UNCHANGED card
    BY <1>1, <2>3
  <2>4. QED
    <3>1. Advances(w) \/ Claims(w) \/ Opens(w) \/ Links(w) \/ Follows(w) \/ Requeues(w) \/ Rests(w)
            => UNCHANGED card
      BY DEF Advances, Claims, Opens, Links, Follows, Requeues, Rests
    <3>2. QED
      BY <2>1, <2>2, <2>3, <3>1 DEF WorkerKind
<1>5. QED
  BY <1>1, <1>3, <1>4

\* No slot works on the card whose dead attempt is recovered.
LEMMA DeadCard ==
  ASSUME CustodyInv, NEW w \in Workers, inv[w].pc \in Working, NEW h \in Beats, NEW c \in Cards,
         \A v \in Workers : inv[v].beat # h,
         \E r \in Runs : run[r].status = "running" /\ run[r].card = c /\ run[r].beat = h
  PROVE  inv[w].card # c
<1> SUFFICES ASSUME inv[w].card = c PROVE FALSE
  OBVIOUS
<1>1. PICK r \in Runs : run[r].status = "running" /\ run[r].card = c /\ run[r].beat = h
  OBVIOUS
<1>2. r = inv[w].run
  BY <1>1, OnlyRun DEF Active
<1>3. run[inv[w].run].beat = h /\ inv[w].beat # h /\ h # None
  BY <1>1, <1>2, Tables DEF CustodyInv
<1>4. QED
  BY <1>3, LinkFacts DEF Working, PreLock

\* The recovery of a dead attempt is disturbed by no worker.
LEMMA WorkerRecovering ==
  ASSUME CustodyInv, NEW w \in Workers, WorkerKind(w)
  PROVE  Recovering'
<1>1. tick' = tick
  BY DEF WorkerKind
<1>2. tick.now # None <=> tick.pc \in {"freeAgent", "failBeat", "failRuns"}
  BY DEF CustodyInv, Recovering
<1>3. ASSUME tick.now # None
      PROVE  LET c == tick.now[1]
                 h == tick.now[2].lock IN
             /\ h \in Beats /\ beat'[h].locked /\ beat'[h].card = c
             /\ \A v \in Workers : inv'[v].beat # h
             /\ card'[c].lock = None /\ card'[c].status # "in_progress"
             /\ \E r \in Runs : run'[r].status = "running" /\ run'[r].card = c /\ run'[r].beat = h
  <2> DEFINE c == tick.now[1]
             h == tick.now[2].lock
  <2>1. /\ h \in Beats /\ beat[h].locked /\ beat[h].card = c
        /\ \A v \in Workers : inv[v].beat # h
        /\ card[c].lock = None /\ card[c].status # "in_progress"
        /\ \E r \in Runs : run[r].status = "running" /\ run[r].card = c /\ run[r].beat = h
    BY <1>3 DEF CustodyInv, Recovering
  <2>2. c \in Cards
    BY <1>3, Tables DEF CustodyInv, TickRow
  <2>3. h # None
    BY <2>1, Tables DEF CustodyInv
  <2>a. beat[h].status # "absent"
    BY <2>1, LockedRow
  <2> HIDE DEF c, h
  <2>4. beat'[h].locked /\ beat'[h].card = c
    BY <2>1, <2>a, WorkerBeatRows DEF BeatRowsKept
  <2>5. inv'[w].beat # h
    <3>1. CASE Opens(w)
      BY <2>a, <3>1 DEF Opens
    <3>2. CASE Claims(w) \/ Rests(w)
      BY <2>3, <3>2 DEF Claims, Rests, Resting
    <3>3. CASE Advances(w) \/ Links(w) \/ Acquires(w) \/ Concludes(w) \/ Follows(w) \/ Requeues(w)
      BY <2>1, <3>3 DEF Advances, Links, Acquires, Concludes, Follows, Requeues, Stays
    <3>4. QED
      BY <3>1, <3>2, <3>3 DEF WorkerKind
  <2>6. \A v \in Workers : inv'[v].beat # h
    BY <2>1, <2>5 DEF WorkerKind, SlotsBut
  <2>7. inv[w].pc \in Working => inv[w].card # c
    BY <2>1, <2>2, DeadCard
  <2>8. card'[c] = card[c]
    BY <2>2, <2>7, CardWrites DEF CardsBut
  <2>9. PICK r \in Runs : run[r].status = "running" /\ run[r].card = c /\ run[r].beat = h
    BY <2>1
  <2>10. inv[w].pc \in Working => inv[w].run # r
    BY <2>7, <2>9, OnlyRun
  <2>11. run'[r] = run[r]
    BY <2>9, <2>10, RunWrites DEF RunsBut
  <2>12. QED
    BY <2>1, <2>4, <2>6, <2>8, <2>9, <2>11 DEF c, h
<1>4. QED
  BY <1>1, <1>2, <1>3 DEF Recovering

\* A worker's step preserves the invariant.
LEMMA WorkerCustody ==
  ASSUME CustodyInv, Undisturbed, NEW w \in Workers, Worker(w), LeaseInv'
  PROVE  CustodyInv'
<1>1. WorkerKind(w)
  BY WorkerKinds
<1>2. cmd' = NoCommand
  BY <1>1 DEF WorkerKind, CustodyInv
<1>3. QED
  BY <1>1, <1>2, AllSlotsKept, ApartKept, WorkerActive, WorkerLinks, WorkerLockedRuns, WorkerRepairs,
    WorkerStale, WorkerRecovering DEF CustodyInv

-----------------------------------------------------------------------------
(* The tick, the expiry of locks and restarts keep the custody.            *)

\* The part of the invariant that is about the tables and the slots.
TablesKept == (Slots /\ Apart /\ OneActive /\ RunBeats /\ LockedRuns /\ RepairsLimited)'

\* The slots stand still: what they rely on is kept if the rows they work with are.
LEMMA StandingSlots ==
  ASSUME CustodyInv, UNCHANGED inv,
         \A v \in Workers : inv[v].pc \in Working => run'[inv[v].run] = run[inv[v].run],
         \A r \in Runs : run[r].status \in Ended => run'[r].status \in Ended,
         \A v \in Workers : inv[v].pc \in PreLock \cup Holding => card'[inv[v].card] = card[inv[v].card],
         \A v \in Workers : inv[v].beat # None => beat'[inv[v].beat] = beat[inv[v].beat],
         \A c \in Cards : card'[c].lock \in {None, card[c].lock}
  PROVE  Slots' /\ Apart'
<1>1. ASSUME NEW v \in Workers PROVE Sound(inv[v])'
  <2>1. inv'[v] = inv[v] /\ RunOver(inv[v])
    BY DEF CustodyInv, Slots, Sound
  <2>2. RunOver(inv[v])'
    BY <2>1 DEF RunOver
  <2>3. inv[v].beat # None =>
          \A c \in Cards : card[c].lock # inv[v].beat => card'[c].lock # inv[v].beat
    OBVIOUS
  <2>4. QED
    BY <2>1, <2>2, <2>3, SlotFrame
<1>2. Slots'
  BY <1>1 DEF Slots
<1>3. Apart'
  BY DEF CustodyInv, Apart
<1>4. QED
  BY <1>2, <1>3

\* A step that writes no table keeps them.
LEMMA StandingTables ==
  ASSUME CustodyInv, UNCHANGED <<card, run, beat, inv>>
  PROVE  TablesKept
<1>1. Slots' /\ Apart'
  BY StandingSlots
<1>2. OneActive' /\ RunBeats' /\ LockedRuns' /\ RepairsLimited'
  BY DEF CustodyInv, OneActive, RunBeats, LockedRuns, RepairsLimited
<1>3. QED
  BY <1>1, <1>2 DEF TablesKept

\* A lock that is not in use has no slot before or under it.
LEMMA UnusedLock ==
  ASSUME CustodyInv, NEW c \in Cards, card[c].lock # None,
         card[c].expired \/ ~LiveHolder(c)
  PROVE  \A v \in Workers : inv[v].pc \in PreLock \cup Holding => inv[v].card # c
<1> SUFFICES ASSUME NEW v \in Workers, inv[v].pc \in PreLock \cup Holding, inv[v].card = c
             PROVE  FALSE
  OBVIOUS
<1>1. CASE inv[v].pc \in Holding
  BY <1>1, HoldingFacts DEF LiveHolder
<1>2. CASE inv[v].pc \notin Holding
  BY <1>2, FreeCard DEF Working
<1>3. QED
  BY <1>1, <1>2

\* An expired lock is a dead attempt's.
LEMMA ExpireCustody ==
  ASSUME CustodyInv, Undisturbed, LeaseInv', NEW c \in Cards, ExpireLock(c)
  PROVE  CustodyInv'
<1>1. /\ card[c].lock # None /\ ~LiveHolder(c) /\ card' = [card EXCEPT ![c].expired = TRUE]
      /\ UNCHANGED <<run, beat, inv, tick, cmd>>
  BY DEF ExpireLock, Undisturbed
<1>2. card \in [Cards -> CardRow] /\ card[c] \in CardRow
  BY Tables DEF CustodyInv
<1>3. /\ card'[c].lock = card[c].lock /\ card'[c].expired = TRUE
      /\ card'[c].status = card[c].status /\ card'[c].repairs = card[c].repairs
      /\ card'[c].recovery = card[c].recovery
      /\ \A d \in Cards \ {c} : card'[d] = card[d]
  BY <1>1, <1>2 DEF CardRow
<1>4. \A v \in Workers : inv[v].pc \in PreLock \cup Holding => card'[inv[v].card] = card[inv[v].card]
  <2>1. \A v \in Workers : inv[v].pc \in PreLock \cup Holding => inv[v].card # c /\ inv[v].card \in Cards
    BY <1>1, UnusedLock, SlotRefs DEF CustodyInv, PreLock, Fresh, Holding
  <2>2. QED
    BY <1>3, <2>1
<1>5. Slots' /\ Apart'
  <2>1. \A d \in Cards : card'[d].lock \in {None, card[d].lock}
    BY <1>3
  <2>2. QED
    BY <1>1, <1>4, <2>1, StandingSlots
<1>6. OneActive' /\ RunBeats'
  BY <1>1 DEF CustodyInv, OneActive, RunBeats
<1>7. LockedRuns'
  <2>1. KeepsLocks /\ BeatRowsKept
    BY <1>1, <1>3 DEF KeepsLocks, BeatRowsKept, CustodyInv, LockedRuns
  <2>2. QED
    BY <2>1, LockedFrame
<1>8. RepairsLimited'
  BY <1>3 DEF CustodyInv, RepairsLimited
<1>9. StaleRows'
  <2>1. \A s \in tick.stale : s[1] \in Cards
    BY Tables DEF CustodyInv, TickRow
  <2>2. QED
    BY <1>1, <1>3, <2>1 DEF CustodyInv, StaleRows
<1>10. Recovering'
  <2>1. tick.now # None => tick.now[1] \in Cards
    BY Tables DEF CustodyInv, TickRow
  <2>2. tick.now # None => card'[tick.now[1]] = card[tick.now[1]]
    BY <1>1, <1>3, <2>1 DEF CustodyInv, Recovering
  <2>3. QED
    BY <1>1, <2>2 DEF CustodyInv, Recovering
<1>11. QED
  BY <1>1, <1>5, <1>6, <1>7, <1>8, <1>9, <1>10 DEF CustodyInv

\* A claim that never reached a heartbeat is nobody's.
LEMMA StaleRunCustody ==
  ASSUME CustodyInv, Undisturbed, LeaseInv', NEW r \in Runs, RecoverStaleRun(r)
  PROVE  CustodyInv'
<1>1. /\ run[r].status = "running" /\ run[r].beat = None /\ \A w \in Workers : inv[w].run # r
      /\ run' = [run EXCEPT ![r].status = "queued"]
      /\ UNCHANGED <<card, beat, inv, tick, cmd>>
  BY DEF RecoverStaleRun, Undisturbed
<1>2. run \in [Runs -> RunRow] /\ run[r] \in RunRow
  BY Tables DEF CustodyInv
<1>3. /\ run'[r].status = "queued" /\ run'[r].card = run[r].card /\ run'[r].beat = None
      /\ \A q \in Runs \ {r} : run'[q] = run[q]
  BY <1>1, <1>2 DEF RunRow
<1>4. Slots' /\ Apart'
  <2>1. \A v \in Workers : inv[v].pc \in Working => run'[inv[v].run] = run[inv[v].run]
    BY <1>1, <1>3, OnlyRun
  <2>2. \A q \in Runs : run[q].status \in Ended => run'[q].status \in Ended
    BY <1>1, <1>3 DEF Ended
  <2>3. QED
    BY <1>1, <2>1, <2>2, StandingSlots
<1>5. OneActive'
  <2>1. KeepsActive
    BY <1>1, <1>3 DEF KeepsActive, Active
  <2>2. QED
    BY <2>1, OneActiveFrame
<1>6. RunBeats' /\ LockedRuns'
  <2>1. BeatRowsKept
    BY <1>1 DEF BeatRowsKept
  <2>2. KeepsLinks
    BY <1>1, <1>3 DEF KeepsLinks, CustodyInv, RunBeats
  <2>3. KeepsLocks
    BY <1>1, <1>3 DEF KeepsLocks, CustodyInv, LockedRuns
  <2>4. QED
    BY <2>1, <2>2, <2>3, RunBeatsFrame, LockedFrame
<1>7. RepairsLimited' /\ StaleRows'
  BY <1>1 DEF CustodyInv, RepairsLimited, StaleRows
<1>8. Recovering'
  <2>1. tick.now # None => tick.now[2].lock # None
    BY Tables DEF CustodyInv, Recovering
  <2>2. ASSUME tick.now # None
        PROVE  \E q \in Runs : run'[q].status = "running" /\ run'[q].card = tick.now[1]
                               /\ run'[q].beat = tick.now[2].lock
    <3>1. PICK q \in Runs : run[q].status = "running" /\ run[q].card = tick.now[1]
                            /\ run[q].beat = tick.now[2].lock
      BY <2>2 DEF CustodyInv, Recovering
    <3>2. q # r
      BY <1>1, <2>1, <2>2, <3>1
    <3>3. QED
      BY <1>3, <3>1, <3>2
  <2>3. QED
    BY <1>1, <2>2 DEF CustodyInv, Recovering
<1>9. QED
  BY <1>1, <1>4, <1>5, <1>6, <1>7, <1>8 DEF CustodyInv

\* The steps of the tick that write no table.
LEMMA TickOnlyCustody ==
  ASSUME CustodyInv, LeaseInv', UNCHANGED <<card, run, beat, inv, cmd>>,
         StaleRows', Recovering'
  PROVE  CustodyInv'
<1>1. TablesKept
  BY StandingTables
<1>2. QED
  BY <1>1 DEF CustodyInv, TablesKept

\* What the tick reads expired is expired (recoverStaleExecutionLocks).
LEMMA StartTickCustody ==
  ASSUME CustodyInv, LeaseInv', StartTick
  PROVE  CustodyInv'
<1>1. /\ tick' = [NoTick EXCEPT !.pc = "locks",
                    !.stale = {<<c, card[c]>> : c \in {d \in Cards : card[d].expired}}]
      /\ UNCHANGED <<card, run, beat, inv, cmd>>
  BY DEF StartTick
<1>2. /\ tick'.stale = {<<c, card[c]>> : c \in {d \in Cards : card[d].expired}}
      /\ tick'.now = None /\ tick'.pc = "locks"
  BY <1>1 DEF NoTick
<1>3. StaleRows'
  <2>1. ASSUME NEW c \in Cards, card[c].expired
        PROVE  /\ card[c].lock \in Beats /\ beat[card[c].lock].locked
               /\ beat[card[c].lock].card = c
    <3>1. card[c].lock # None /\ beat[card[c].lock].card = c
      BY <2>1 DEF CustodyInv, LockedRuns
    <3>2. QED
      BY <3>1, Tables DEF CustodyInv, LeaseInv, LockHistory
  <2>2. \A s \in tick'.stale : \E c \in Cards : card[c].expired /\ s[1] = c /\ s[2] = card[c]
    BY <1>2
  <2>3. QED
    BY <1>1, <2>1, <2>2 DEF StaleRows
<1>4. Recovering'
  BY <1>2 DEF Recovering
<1>5. QED
  BY <1>1, <1>3, <1>4, TickOnlyCustody

\* The tick recovers locks of dead attempts: no slot has the heartbeat.
LEMMA DeadLock ==
  ASSUME CustodyInv, NEW c \in Cards, card[c].lock # None, card[c].expired
  PROVE  \A w \in Workers : inv[w].beat # card[c].lock
<1> SUFFICES ASSUME NEW w \in Workers, inv[w].beat = card[c].lock
             PROVE  FALSE
  OBVIOUS
<1>1. HasLock(inv[w]) /\ NoLock(inv[w])
  BY DEF CustodyInv, Slots, Sound
<1>2. inv[w].pc \in Holding
  BY <1>1 DEF NoLock
<1>3. inv[w].card \in Cards
  BY <1>2, SlotRefs DEF CustodyInv, Holding
<1>4. card[inv[w].card].lock = card[c].lock /\ ~card[inv[w].card].expired
  BY <1>1, <1>2 DEF HasLock
<1>5. inv[w].card = c
  BY <1>3, <1>4 DEF CustodyInv, LockedRuns
<1>6. QED
  BY <1>4, <1>5

\* What recoverStaleExecutionLocks writes: the card is unlocked, and no longer in
\* progress.
LEMMA RecoverLockEffect ==
  ASSUME CustodyInv, NEW s \in tick.stale, s[1] \in Cards, s[2] \in CardRow,
         SameRow(card[s[1]], s[2]),
         IF s[2].status = "in_progress"
         THEN \E row \in AfterFailure(card[s[1]], s[2].retries) : card' = [card EXCEPT ![s[1]] = row]
         ELSE card' = [card EXCEPT ![s[1]] = Unlocked(@, s[2].status, s[2].retries)]
  PROVE  /\ card'[s[1]].lock = None /\ card'[s[1]].expired = FALSE
         /\ card'[s[1]].status # "in_progress" /\ card'[s[1]].repairs = card[s[1]].repairs
         /\ card[s[1]].recovery # "none" => card'[s[1]].recovery # "none"
         /\ \A d \in Cards \ {s[1]} : card'[d] = card[d]
<1> DEFINE c == s[1]
           v == s[2]
<1>1. card \in [Cards -> CardRow] /\ card[c] \in CardRow
  BY Tables DEF CustodyInv
<1>2. CASE v.status = "in_progress"
  <2>1. PICK row \in AfterFailure(card[c], v.retries) : card' = [card EXCEPT ![c] = row]
    BY <1>2
  <2>2. /\ row.lock = None /\ row.expired = FALSE /\ row.status # "in_progress"
        /\ row.repairs = card[c].repairs
        /\ card[c].recovery # "none" => row.recovery # "none"
    BY <1>1, <2>1, AfterFailureFacts
  <2>3. card'[c] = row /\ \A d \in Cards \ {c} : card'[d] = card[d]
    BY <1>1, <2>1
  <2>4. QED
    BY <2>2, <2>3
<1>3. CASE v.status # "in_progress"
  <2>1. card' = [card EXCEPT ![c] = Unlocked(card[c], v.status, v.retries)]
    BY <1>3
  <2>2. card'[c] = Unlocked(card[c], v.status, v.retries) /\ \A d \in Cards \ {c} : card'[d] = card[d]
    BY <1>1, <2>1
  <2>3. QED
    BY <1>1, <1>3, <2>2 DEF Unlocked, CardRow
<1>4. QED
  BY <1>2, <1>3

\* The recovery of an expired lock.
LEMMA RecoverLockCustody ==
  ASSUME CustodyInv, LeaseInv', RecoverLock
  PROVE  CustodyInv'
<1>1. PICK s \in tick.stale :
        /\ tick.pc = "locks" /\ UNCHANGED <<run, beat, inv, cmd>>
        /\ \/ /\ SameRow(card[s[1]], s[2])
              /\ IF s[2].status = "in_progress"
                 THEN \E row \in AfterFailure(card[s[1]], s[2].retries) :
                        card' = [card EXCEPT ![s[1]] = row]
                 ELSE card' = [card EXCEPT ![s[1]] = Unlocked(@, s[2].status, s[2].retries)]
              /\ tick' = [tick EXCEPT !.pc = "freeAgent", !.now = s, !.stale = @ \ {s}]
           \/ tick' = [tick EXCEPT !.stale = @ \ {s}] /\ UNCHANGED card
  BY DEF RecoverLock
<1> DEFINE c == s[1]
           h == s[2].lock
<1>2. tick \in TickRow /\ c \in Cards /\ s[2] \in CardRow
  BY Tables DEF CustodyInv, TickRow
<1>3. tick.now = None
  BY <1>1 DEF CustodyInv, Recovering
<1>4. /\ h \in Beats /\ beat[h].locked /\ beat[h].card = c
      /\ card[c].lock = h => card[c].expired
  BY DEF CustodyInv, StaleRows
<1>5. CASE tick' = [tick EXCEPT !.stale = @ \ {s}] /\ UNCHANGED card
  <2>1. tick'.stale \subseteq tick.stale /\ tick'.now = None /\ tick'.pc = tick.pc
    BY <1>2, <1>3, <1>5 DEF TickRow
  <2>2. StaleRows'
    BY <1>1, <1>5, <2>1 DEF CustodyInv, StaleRows
  <2>3. Recovering'
    BY <1>1, <2>1 DEF Recovering
  <2>4. QED
    BY <1>1, <1>5, <2>2, <2>3, TickOnlyCustody
<1>6. CASE /\ SameRow(card[s[1]], s[2])
           /\ IF s[2].status = "in_progress"
              THEN \E row \in AfterFailure(card[s[1]], s[2].retries) :
                     card' = [card EXCEPT ![s[1]] = row]
              ELSE card' = [card EXCEPT ![s[1]] = Unlocked(@, s[2].status, s[2].retries)]
           /\ tick' = [tick EXCEPT !.pc = "freeAgent", !.now = s, !.stale = @ \ {s}]
  <2>1. card[c].lock = h /\ card[c].expired /\ h # None
    BY <1>4, <1>6, Tables DEF SameRow, SameColumns, CustodyInv
  <2>2. /\ card'[c].lock = None /\ card'[c].expired = FALSE
        /\ card'[c].status # "in_progress" /\ card'[c].repairs = card[c].repairs
        /\ card[c].recovery # "none" => card'[c].recovery # "none"
        /\ \A d \in Cards \ {c} : card'[d] = card[d]
    BY <1>2, <1>6, RecoverLockEffect
  <2>3. tick'.stale \subseteq tick.stale /\ tick'.now = s /\ tick'.pc = "freeAgent"
    BY <1>2, <1>6 DEF TickRow
  <2>4. \A w \in Workers : inv[w].beat # h
    BY <1>2, <2>1, DeadLock
  <2>5. \E r \in Runs : run[r].status = "running" /\ run[r].card = c /\ run[r].beat = h
    BY <1>2, <2>1 DEF CustodyInv, LockedRuns
  <2> HIDE DEF c, h
  <2>6. \A v \in Workers : inv[v].pc \in PreLock \cup Holding => card'[inv[v].card] = card[inv[v].card]
    <3>1. \A v \in Workers : inv[v].pc \in PreLock \cup Holding => inv[v].card # c /\ inv[v].card \in Cards
      BY <1>2, <2>1, UnusedLock, SlotRefs DEF CustodyInv, PreLock, Fresh, Holding, c
    <3>2. QED
      BY <2>2, <3>1
  <2>7. Slots' /\ Apart'
    <3>1. \A d \in Cards : card'[d].lock \in {None, card[d].lock}
      BY <2>2
    <3>2. QED
      BY <1>1, <2>6, <3>1, StandingSlots
  <2>8. OneActive' /\ RunBeats'
    BY <1>1 DEF CustodyInv, OneActive, RunBeats
  <2>9. LockedRuns'
    <3>1. KeepsLocks /\ BeatRowsKept
      BY <1>1, <2>2 DEF KeepsLocks, BeatRowsKept, CustodyInv, LockedRuns
    <3>2. QED
      BY <3>1, LockedFrame
  <2>10. RepairsLimited'
    BY <2>2 DEF CustodyInv, RepairsLimited
  <2>11. StaleRows'
    <3>1. \A t \in tick'.stale : t[1] \in Cards /\ t \in tick.stale /\ t[2].lock # None
      BY <2>3, Tables DEF CustodyInv, TickRow, StaleRows
    <3>2. QED
      BY <1>1, <2>2, <3>1 DEF CustodyInv, StaleRows
  <2>12. Recovering'
    <3>1. s # None
      BY <1>2, Tables, RowAssumption DEF RowAssumption, CustodyInv, TickRow
    <3>2. QED
      BY <1>1, <1>2, <1>4, <2>2, <2>3, <2>4, <2>5, <3>1 DEF Recovering, c, h
  <2>13. QED
    BY <1>1, <2>7, <2>8, <2>9, <2>10, <2>11, <2>12 DEF CustodyInv
<1>7. QED
  BY <1>1, <1>5, <1>6

\* The agent of a recovered lock is freed, and the cards are scanned: no table that
\* the custody is about is written.
LEMMA TickMovesCustody ==
  ASSUME CustodyInv, LeaseInv', FreeLockAgent \/ ScanCards \/ EndTick
  PROVE  CustodyInv'
<1>1. tick \in TickRow
  BY Tables DEF CustodyInv
<1>2. UNCHANGED <<card, run, beat, inv, cmd>>
  BY DEF FreeLockAgent, ScanCards, EndTick
<1>3. tick'.stale \subseteq tick.stale
  <2>1. CASE FreeLockAgent
    BY <1>1, <2>1 DEF FreeLockAgent, TickRow
  <2>2. CASE ScanCards
    BY <1>1, <2>2 DEF ScanCards, TickRow
  <2>3. CASE EndTick
    BY <2>3 DEF EndTick, NoTick
  <2>4. QED
    BY <2>1, <2>2, <2>3
<1>4. StaleRows'
  BY <1>2, <1>3 DEF CustodyInv, StaleRows
<1>5. Recovering'
  <2>1. CASE FreeLockAgent
    <3>1. tick'.now = tick.now /\ tick'.pc = "failBeat" /\ tick.pc = "freeAgent"
      BY <1>1, <2>1 DEF FreeLockAgent, TickRow
    <3>2. QED
      BY <1>2, <3>1 DEF CustodyInv, Recovering
  <2>2. CASE ScanCards \/ EndTick
    <3>1. tick.now = None
      BY <2>2 DEF ScanCards, EndTick, CustodyInv, Recovering
    <3>2. tick'.now = None /\ tick'.pc \in {"cards", "idle"}
      <4>1. CASE ScanCards
        BY <1>1, <3>1, <4>1 DEF ScanCards, TickRow
      <4>2. CASE EndTick
        BY <4>2 DEF EndTick, NoTick
      <4>3. QED
        BY <2>2, <4>1, <4>2
    <3>3. QED
      BY <3>2 DEF Recovering
  <2>3. QED
    BY <2>1, <2>2
<1>6. QED
  BY <1>2, <1>4, <1>5, TickOnlyCustody

\* The heartbeat of a recovered lock is nobody else's.
LEMMA FailBeatCustody ==
  ASSUME CustodyInv, LeaseInv', FailLockBeat
  PROVE  CustodyInv'
<1> DEFINE h == tick.now[2].lock
<1>1. /\ tick.pc = "failBeat" /\ beat' = [beat EXCEPT ![h].status = "failed"]
      /\ tick' = [tick EXCEPT !.pc = "failRuns"] /\ UNCHANGED <<card, run, inv, cmd>>
  BY DEF FailLockBeat
<1>2. /\ tick.now # None /\ h \in Beats /\ beat[h].locked
      /\ \A w \in Workers : inv[w].beat # h
  BY <1>1 DEF CustodyInv, Recovering
<1>3. tick'.now = tick.now /\ tick'.stale = tick.stale /\ tick'.pc = "failRuns"
  BY <1>1, Tables DEF CustodyInv, TickRow
<1> HIDE DEF h
<1>4. /\ beat'[h].card = beat[h].card /\ beat'[h].locked = beat[h].locked
      /\ beat'[h].status = "failed" /\ \A x \in Beats \ {h} : beat'[x] = beat[x]
  <2>1. beat \in [Beats -> BeatRow] /\ beat[h] \in BeatRow
    BY <1>2, Tables DEF CustodyInv
  <2>2. QED
    BY <1>1, <1>2, <2>1 DEF BeatRow
<1>5. BeatRowsKept
  BY <1>4 DEF BeatRowsKept
<1>6. Slots' /\ Apart'
  <2>1. \A v \in Workers : inv[v].beat # None => beat'[inv[v].beat] = beat[inv[v].beat]
    BY <1>2, <1>4, SlotRefs DEF CustodyInv
  <2>2. QED
    BY <1>1, <2>1, StandingSlots
<1>7. OneActive' /\ RepairsLimited'
  BY <1>1 DEF CustodyInv, OneActive, RepairsLimited
<1>8. RunBeats' /\ LockedRuns'
  <2>1. KeepsLinks /\ KeepsLocks
    BY <1>1 DEF KeepsLinks, KeepsLocks, CustodyInv, RunBeats, LockedRuns
  <2>2. QED
    BY <1>5, <2>1, RunBeatsFrame, LockedFrame
<1>9. StaleRows'
  BY <1>1, <1>3, <1>4 DEF CustodyInv, StaleRows
<1>10. Recovering'
  BY <1>1, <1>2, <1>3, <1>4 DEF CustodyInv, Recovering
<1>11. QED
  BY <1>1, <1>6, <1>7, <1>8, <1>9, <1>10 DEF CustodyInv

\* The runs of a recovered lock are nobody else's.
LEMMA FailRunsCustody ==
  ASSUME CustodyInv, LeaseInv', FailLockRuns
  PROVE  CustodyInv'
<1> DEFINE h == tick.now[2].lock
           c == tick.now[1]
<1>1. /\ tick.pc = "failRuns"
      /\ run' = [r \in Runs |-> IF r \in BeatRuns(h) THEN [run[r] EXCEPT !.status = "failed"] ELSE run[r]]
      /\ tick' = [tick EXCEPT !.pc = "locks", !.now = None] /\ UNCHANGED <<card, beat, inv, cmd>>
  BY DEF FailLockRuns
<1>2. /\ tick.now # None /\ h \in Beats /\ beat[h].card = c
      /\ \A w \in Workers : inv[w].beat # h
      /\ card[c].lock = None
  BY <1>1 DEF CustodyInv, Recovering
<1>3. tick'.now = None /\ tick'.stale = tick.stale /\ tick'.pc = "locks"
  BY <1>1, Tables DEF CustodyInv, TickRow
<1> HIDE DEF h, c
<1>4. \A r \in Runs :
        /\ run[r].beat # h => run'[r] = run[r]
        /\ run'[r].card = run[r].card /\ run'[r].beat = run[r].beat
        /\ run'[r].status \in {run[r].status, "failed"}
  <2>1. \A r \in Runs : run[r] \in RunRow
    BY Tables DEF CustodyInv
  <2>2. QED
    BY <1>1, <2>1 DEF BeatRuns, RunRow
<1>5. Slots' /\ Apart'
  <2>1. \A v \in Workers : inv[v].pc \in Working => run'[inv[v].run] = run[inv[v].run]
    <3>1. SUFFICES ASSUME NEW v \in Workers, inv[v].pc \in Working
                   PROVE  run'[inv[v].run] = run[inv[v].run]
      OBVIOUS
    <3>2. inv[v].run \in Runs
      BY <3>1, OnlyRun
    <3>3. run[inv[v].run].beat # h
      BY <1>2, <3>1, LinkFacts, Tables DEF Working, PreLock, CustodyInv
    <3>4. QED
      BY <1>4, <3>2, <3>3
  <2>2. \A r \in Runs : run[r].status \in Ended => run'[r].status \in Ended
    BY <1>4 DEF Ended
  <2>3. QED
    BY <1>1, <2>1, <2>2, StandingSlots
<1>6. OneActive'
  <2>1. KeepsActive
    BY <1>4 DEF KeepsActive, Active
  <2>2. QED
    BY <2>1, OneActiveFrame
<1>7. BeatRowsKept
  BY <1>1 DEF BeatRowsKept
<1>8. RunBeats'
  <2>1. KeepsLinks
    BY <1>4 DEF KeepsLinks, CustodyInv, RunBeats
  <2>2. QED
    BY <1>7, <2>1, RunBeatsFrame
<1>9. LockedRuns'
  <2>1. \A d \in Cards : card[d].lock # h
    BY <1>2, Tables DEF CustodyInv, LockedRuns
  <2>2. \A d \in Cards : card[d].expired => card[d].lock # None
    BY DEF CustodyInv, LockedRuns
  <2>3. \A d \in Cards, r \in Runs : run[r].beat = card[d].lock => run'[r] = run[r]
    BY <1>4, <2>1
  <2>4. KeepsLocks
    BY <1>1, <2>2, <2>3 DEF KeepsLocks
  <2>5. QED
    BY <1>7, <2>4, LockedFrame
<1>10. RepairsLimited' /\ StaleRows'
  BY <1>1, <1>3 DEF CustodyInv, RepairsLimited, StaleRows
<1>11. Recovering'
  BY <1>3 DEF Recovering
<1>12. QED
  BY <1>1, <1>5, <1>6, <1>8, <1>9, <1>10, <1>11 DEF CustodyInv

\* The tick enqueues a waiting card.
LEMMA EnqueueCustody ==
  ASSUME CustodyInv, LeaseInv', EnqueueScanned
  PROVE  CustodyInv'
<1>1. PICK c \in tick.todo :
        /\ tick.pc = "cards" /\ Enqueue(c) /\ tick' = [tick EXCEPT !.todo = @ \ {c}]
        /\ UNCHANGED <<card, beat, inv, cmd>>
  BY DEF EnqueueScanned
<1>2. /\ tick'.now = tick.now /\ tick'.stale = tick.stale /\ tick'.pc = tick.pc /\ c \in Cards
  BY <1>1, Tables DEF CustodyInv, TickRow
<1>3. Enqueues(c)
  BY <1>1, <1>2, EnqueueForms DEF CustodyInv
<1>4. \A r \in Runs : run[r].status # "absent" => run'[r] = run[r]
  BY <1>3 DEF Enqueues, RunsBut
<1>5. Slots' /\ Apart'
  <2>1. \A v \in Workers : inv[v].pc \in Working => run'[inv[v].run] = run[inv[v].run]
    BY <1>4, OnlyRun
  <2>2. \A r \in Runs : run[r].status \in Ended => run'[r].status \in Ended
    BY <1>4 DEF Ended
  <2>3. QED
    BY <1>1, <2>1, <2>2, StandingSlots
<1>6. OneActive'
  BY <1>2, <1>3, OneActiveFrame
<1>7. BeatRowsKept
  BY <1>1 DEF BeatRowsKept
<1>8. RunBeats'
  <2>1. KeepsLinks
    BY <1>3 DEF KeepsLinks, Enqueues, RunsBut, CustodyInv, RunBeats
  <2>2. QED
    BY <1>7, <2>1, RunBeatsFrame
<1>9. LockedRuns'
  <2>1. KeepsLocks
    BY <1>1, <1>4 DEF KeepsLocks, CustodyInv, LockedRuns
  <2>2. QED
    BY <1>7, <2>1, LockedFrame
<1>10. RepairsLimited' /\ StaleRows'
  BY <1>1, <1>2 DEF CustodyInv, RepairsLimited, StaleRows
<1>11. Recovering'
  <2>1. tick.now = None
    BY <1>1 DEF CustodyInv, Recovering
  <2>2. QED
    BY <1>1, <1>2, <2>1 DEF Recovering
<1>12. QED
  BY <1>1, <1>5, <1>6, <1>8, <1>9, <1>10, <1>11 DEF CustodyInv

\* After a restart every slot rests.
LEMMA CrashCustody ==
  ASSUME CustodyInv, LeaseInv', Crash
  PROVE  CustodyInv'
<1>1. /\ inv' = [w \in Workers |-> Resting] /\ tick' = NoTick /\ cmd' = NoCommand
      /\ UNCHANGED <<card, run, beat>>
  BY DEF Crash
<1>2. \A w \in Workers : inv'[w].pc = "idle" /\ inv'[w].beat = None /\ inv'[w].outcome = None
  BY <1>1 DEF Resting
<1>3. Slots'
  <2>1. SUFFICES ASSUME NEW w \in Workers PROVE Sound(inv[w])'
    BY DEF Slots
  <2>2. inv'[w].pc = "idle" /\ inv'[w].beat = None /\ inv'[w].outcome = None
    BY <1>2
  <2>3. QED
    BY <2>2 DEF Sound, OwnRun, NoRecovery, Unlinked, Linked, HasLock, NoLock,
      MayReport, RunOver, BeatOver, Working, PreLock, Fresh, Holding, Reported, Over
<1>4. Apart'
  BY <1>2 DEF Apart, Working, PreLock, Fresh, Holding, Reported
<1>5. OneActive' /\ RunBeats' /\ LockedRuns' /\ RepairsLimited'
  BY <1>1 DEF CustodyInv, OneActive, RunBeats, LockedRuns, RepairsLimited
<1>6. StaleRows' /\ Recovering'
  BY <1>1 DEF StaleRows, Recovering, NoTick
<1>7. QED
  BY <1>1, <1>3, <1>4, <1>5, <1>6 DEF CustodyInv

\* No operator interferes.
LEMMA NoOperator ==
  ASSUME CustodyInv, Undisturbed
  PROVE  ~Operator
<1>1. cmd.pc = "idle"
  BY DEF CustodyInv, NoCommand
<1>2. ~(commands < MaxCommands)
  <2>1. commands \in 0..MaxCommands
    BY DEF CustodyInv, LeaseInv, Rows, TypeOK
  <2>2. QED
    BY <2>1 DEF Undisturbed
<1>3. QED
  BY <1>1, <1>2 DEF Operator, CancelRuns, ContinueAgent, Command, CancelBeat, CancelAgents,
    CancelCard, CancelBeats, CancelCapacity, ContinueCard

\* The invariant is inductive.
LEMMA StepCustody ==
  ASSUME CustodyInv, Undisturbed, LeaseInv', [Next]_vars
  PROVE  CustodyInv'
<1>1. ASSUME NEW w \in Workers, Worker(w) PROVE CustodyInv'
  BY <1>1, WorkerCustody
<1>2. \A w \in Workers : ~RenewLock(w)
  BY NeverRefused
<1>3. CASE Tick
  BY <1>3, StartTickCustody, RecoverLockCustody, TickMovesCustody, FailBeatCustody, FailRunsCustody,
    EnqueueCustody DEF Tick
<1>4. CASE Crash
  BY <1>4, CrashCustody
<1>5. ASSUME NEW c \in Cards, ExpireLock(c) PROVE CustodyInv'
  BY <1>5, ExpireCustody
<1>6. ASSUME NEW r \in Runs, RecoverStaleRun(r) PROVE CustodyInv'
  BY <1>6, StaleRunCustody
<1>7. CASE UNCHANGED vars
  <2>1. UNCHANGED <<card, run, beat, inv, tick, cmd>>
    BY <1>7 DEF vars
  <2>2. StaleRows' /\ Recovering'
    BY <2>1 DEF CustodyInv, StaleRows, Recovering
  <2>3. QED
    BY <2>1, <2>2, TickOnlyCustody
<1>8. QED
  BY <1>1, <1>2, <1>3, <1>4, <1>5, <1>6, <1>7, NoOperator DEF Next

\* It holds initially.
LEMMA InitCustody ==
  ASSUME Init, LeaseInv
  PROVE  CustodyInv
<1>1. /\ \A c \in Cards : card[c].lock = None /\ card[c].expired = FALSE /\ card[c].repairs = 0
      /\ \A r \in Runs : run[r].status = "absent" /\ run[r].beat = None
      /\ \A w \in Workers : inv[w].pc = "idle" /\ inv[w].beat = None /\ inv[w].outcome = None
      /\ tick = NoTick /\ cmd = NoCommand
  <2>1. \A c \in Cards : card[c].lock = None /\ card[c].expired = FALSE /\ card[c].repairs = 0
    <3>1. SUFFICES ASSUME NEW c \in Cards
                   PROVE card[c].lock = None /\ card[c].expired = FALSE /\ card[c].repairs = 0
      OBVIOUS
    <3>2. card[c] \in {[status |-> "todo", lock |-> None, expired |-> FALSE,
                        retries |-> 0, repairs |-> 0, recovery |-> "none",
                        assignee |-> a] : a \in Agents}
      BY DEF Init
    <3>3. QED
      BY <3>2
  <2>2. \A r \in Runs : run[r].status = "absent" /\ run[r].beat = None
    BY DEF Init
  <2>3. \A w \in Workers : inv[w].pc = "idle" /\ inv[w].beat = None /\ inv[w].outcome = None
    BY DEF Init, Resting
  <2>4. QED
    BY <2>1, <2>2, <2>3 DEF Init
<1>2. Slots
  <2>1. SUFFICES ASSUME NEW w \in Workers PROVE Sound(inv[w])
    BY DEF Slots
  <2>2. inv[w].pc = "idle" /\ inv[w].beat = None /\ inv[w].outcome = None
    BY <1>1
  <2>3. QED
    BY <2>2 DEF Sound, OwnRun, NoRecovery, Unlinked, Linked, HasLock, NoLock,
      MayReport, RunOver, BeatOver, Working, PreLock, Fresh, Holding, Reported, Over
<1>3. Apart
  BY <1>1 DEF Apart, Working, PreLock, Fresh, Holding, Reported
<1>4. OneActive /\ RunBeats /\ LockedRuns /\ RepairsLimited
  BY <1>1 DEF OneActive, RunBeats, LockedRuns, RepairsLimited, Active
<1>5. StaleRows /\ Recovering
  BY <1>1 DEF StaleRows, Recovering, NoTick
<1>6. QED
  BY <1>1, <1>2, <1>3, <1>4, <1>5 DEF CustodyInv

\* While deadlines are kept and no operator interferes, one invocation at a time works
\* on a card: the active run of a card is unique, every lock has its running run, and
\* the tick recovers dead attempts only (acquireExecutionLock, enqueueTaskRun,
\* recoverStaleExecutionLocks).
THEOREM CustodyInvariant == Undisturbed /\ Spec => []CustodyInv
<1>1. Undisturbed /\ Init => CustodyInv
  BY InitLease, InitCustody, IdentityAssumption, LimitAssumption
<1>2. Undisturbed /\ CustodyInv /\ [Next]_vars => Undisturbed' /\ CustodyInv'
  <2>1. LeaseInv /\ [Next]_vars => LeaseInv'
    BY StepLease, IdentityAssumption, LimitAssumption
  <2>2. Undisturbed => Undisturbed'
    BY DEF Undisturbed
  <2>3. QED
    BY <2>1, <2>2, StepCustody DEF CustodyInv
<1>3. QED
  BY <1>1, <1>2, PTL DEF Spec

-----------------------------------------------------------------------------
(* Heartbeats are looked after.                                            *)

\* A worker's step opens a heartbeat in its slot, and drops one that has ended.
LEMMA WorkerBeatsLookedAfter ==
  ASSUME CustodyInv, BeatsLookedAfter, NEW w \in Workers, WorkerKind(w)
  PROVE  BeatsLookedAfter'
<1>1. tick' = tick /\ SlotsBut(w)
  BY DEF WorkerKind
<1>2. tick.pc = "failRuns" => beat'[tick.now[2].lock].status # "running"
  <2>1. SUFFICES ASSUME tick.pc = "failRuns" PROVE beat'[tick.now[2].lock].status # "running"
    OBVIOUS
  <2> DEFINE h == tick.now[2].lock
  <2>2. h \in Beats /\ beat[h].locked /\ beat[h].status # "running"
    BY <2>1 DEF CustodyInv, Recovering, BeatsLookedAfter
  <2>3. beat[h].status # "absent"
    BY <2>2, LockedRow
  <2> HIDE DEF h
  <2>4. QED
    BY <2>2, <2>3, BeatWrites DEF Ended, h
<1>3. ASSUME NEW h \in Beats, beat'[h].status = "running"
      PROVE  \/ \E v \in Workers : inv'[v].beat = h
             \/ \E c \in Cards : card'[c].lock = h
             \/ tick.now # None /\ tick.now[2].lock = h
  <2>1. CASE beat[h].status # "running"
    <3>1. CASE Opens(w)
      BY <1>3, <2>1, <3>1 DEF Opens, BeatsBut
    <3>2. CASE Acquires(w) \/ Concludes(w)
      BY <1>3, <2>1, <3>2 DEF Acquires, Concludes, BeatsBut, Ended
    <3>3. CASE UNCHANGED beat
      BY <1>3, <2>1, <3>3
    <3>4. QED
      <4>1. Advances(w) \/ Claims(w) \/ Links(w) \/ Follows(w) \/ Requeues(w) \/ Rests(w)
              => UNCHANGED beat
        BY DEF Advances, Claims, Links, Follows, Requeues, Rests
      <4>2. QED
        BY <3>1, <3>2, <3>3, <4>1 DEF WorkerKind
  <2>2. ASSUME NEW v \in Workers, inv[v].beat = h, beat[h].status = "running"
        PROVE  inv'[v].beat = h
    <3>1. CASE v # w
      BY <1>1, <2>2, <3>1 DEF SlotsBut
    <3>2. CASE v = w
      <4>1. Unlinked(inv[w]) /\ BeatOver(inv[w]) /\ h # None
        BY Tables DEF CustodyInv, Slots, Sound
      <4>2. ~Claims(w) /\ ~Opens(w) /\ ~Rests(w)
        BY <2>2, <3>2, <4>1 DEF Claims, Opens, Rests, Unlinked, BeatOver, Over, Fresh
      <4>3. QED
        BY <2>2, <3>2, <4>2 DEF WorkerKind, Advances, Links, Acquires, Concludes, Follows, Requeues,
          Stays
    <3>3. QED
      BY <3>1, <3>2
  <2>3. ASSUME NEW c \in Cards, card[c].lock = h
        PROVE  card'[c].lock = h \/ inv'[w].beat = h
    <3>0. h # None
      BY Tables DEF CustodyInv
    <3>1. CASE Acquires(w)
      <4>1. card[inv[w].card].lock = None
        BY <3>1, FreeCard DEF Acquires, Working, PreLock, Fresh, Holding
      <4>2. QED
        BY <2>3, <3>0, <3>1, <4>1 DEF Acquires, CardsBut
    <3>2. CASE Concludes(w)
      <4>1. card[inv[w].card].lock \in {None, inv[w].beat}
        BY <3>2, FreeCard, HoldingFacts DEF Concludes, Working
      <4>2. QED
        BY <2>3, <3>0, <3>2, <4>1 DEF Concludes, CardsBut, Stays
    <3>3. CASE UNCHANGED card
      BY <2>3, <3>3
    <3>4. QED
      <4>1. Advances(w) \/ Claims(w) \/ Opens(w) \/ Links(w) \/ Follows(w) \/ Requeues(w) \/ Rests(w)
              => UNCHANGED card
        BY DEF Advances, Claims, Opens, Links, Follows, Requeues, Rests
      <4>2. QED
        BY <3>1, <3>2, <3>3, <4>1 DEF WorkerKind
  <2>4. QED
    BY <2>1, <2>2, <2>3 DEF BeatsLookedAfter
<1>4. QED
  BY <1>1, <1>2, <1>3 DEF BeatsLookedAfter

\* The tick ends the heartbeat whose lock it cleared.
LEMMA TickBeatsLookedAfter ==
  ASSUME CustodyInv, BeatsLookedAfter, Tick
  PROVE  BeatsLookedAfter'
<1>0. tick \in TickRow
  BY Tables DEF CustodyInv
<1>1. CASE RecoverLock
  <2>1. PICK s \in tick.stale :
          /\ tick.pc = "locks" /\ UNCHANGED <<run, beat, inv, cmd>>
          /\ \/ /\ SameRow(card[s[1]], s[2])
                /\ IF s[2].status = "in_progress"
                   THEN \E row \in AfterFailure(card[s[1]], s[2].retries) :
                          card' = [card EXCEPT ![s[1]] = row]
                   ELSE card' = [card EXCEPT ![s[1]] = Unlocked(@, s[2].status, s[2].retries)]
                /\ tick' = [tick EXCEPT !.pc = "freeAgent", !.now = s, !.stale = @ \ {s}]
             \/ tick' = [tick EXCEPT !.stale = @ \ {s}] /\ UNCHANGED card
    BY <1>1 DEF RecoverLock
  <2>2. s[1] \in Cards /\ s[2] \in CardRow /\ tick.now = None /\ s # None
    BY <1>0, <2>1, RowAssumption DEF TickRow, CustodyInv, Recovering, RowAssumption
  <2>3. CASE tick' = [tick EXCEPT !.stale = @ \ {s}] /\ UNCHANGED card
    <3>1. tick'.now = tick.now /\ tick'.pc = "locks"
      BY <1>0, <2>1, <2>3 DEF TickRow
    <3>2. QED
      BY <2>1, <2>3, <3>1 DEF BeatsLookedAfter
  <2>4. CASE /\ SameRow(card[s[1]], s[2])
             /\ IF s[2].status = "in_progress"
                THEN \E row \in AfterFailure(card[s[1]], s[2].retries) :
                       card' = [card EXCEPT ![s[1]] = row]
                ELSE card' = [card EXCEPT ![s[1]] = Unlocked(@, s[2].status, s[2].retries)]
             /\ tick' = [tick EXCEPT !.pc = "freeAgent", !.now = s, !.stale = @ \ {s}]
    <3>1. \A d \in Cards \ {s[1]} : card'[d] = card[d]
      BY <2>2, <2>4, RecoverLockEffect
    <3>2. tick'.now = s /\ tick'.pc = "freeAgent"
      BY <1>0, <2>4 DEF TickRow
    <3>3. card[s[1]].lock = s[2].lock
      BY <2>4 DEF SameRow, SameColumns
    <3>4. QED
      BY <2>1, <2>2, <3>1, <3>2, <3>3 DEF BeatsLookedAfter
  <2>5. QED
    BY <2>1, <2>3, <2>4
<1>2. CASE FailLockBeat
  <2> DEFINE h == tick.now[2].lock
  <2>1. /\ tick.pc = "failBeat" /\ beat' = [beat EXCEPT ![h].status = "failed"]
        /\ tick' = [tick EXCEPT !.pc = "failRuns"] /\ UNCHANGED <<card, run, inv, cmd>>
    BY <1>2 DEF FailLockBeat
  <2>2. h \in Beats /\ tick'.now = tick.now
    BY <1>0, <2>1 DEF CustodyInv, Recovering, TickRow
  <2>3. beat'[h].status = "failed" /\ \A x \in Beats \ {h} : beat'[x] = beat[x]
    <3>1. beat \in [Beats -> BeatRow] /\ beat[h] \in BeatRow
      BY <2>2, Tables DEF CustodyInv
    <3> HIDE DEF h
    <3>2. QED
      BY <2>1, <2>2, <3>1 DEF BeatRow
  <2>4. QED
    BY <2>1, <2>2, <2>3 DEF BeatsLookedAfter
<1>3. CASE FailLockRuns
  <2>1. /\ tick.pc = "failRuns" /\ tick' = [tick EXCEPT !.pc = "locks", !.now = None]
        /\ UNCHANGED <<card, beat, inv, cmd>>
    BY <1>3 DEF FailLockRuns
  <2>2. tick'.pc = "locks" /\ tick'.now = None
    BY <1>0, <2>1 DEF TickRow
  <2>3. QED
    BY <2>1, <2>2 DEF BeatsLookedAfter
<1>4. CASE FreeLockAgent
  <2>1. tick'.now = tick.now /\ tick'.pc = "failBeat" /\ UNCHANGED <<card, beat, inv>>
    BY <1>0, <1>4 DEF FreeLockAgent, TickRow
  <2>2. QED
    BY <2>1 DEF BeatsLookedAfter
<1>5. CASE StartTick \/ ScanCards \/ EndTick \/ EnqueueScanned
  <2>1. tick.now = None
    BY <1>5 DEF StartTick, ScanCards, EndTick, EnqueueScanned, CustodyInv, Recovering
  <2>2. tick'.pc # "failRuns"
    <3>1. CASE StartTick
      <4>1. tick' = [NoTick EXCEPT !.pc = "locks",
                       !.stale = {<<c, card[c]>> : c \in {d \in Cards : card[d].expired}}]
        BY <3>1 DEF StartTick
      <4>2. QED
        BY <4>1 DEF NoTick
    <3>0. CASE EndTick
      BY <3>0 DEF EndTick, NoTick
    <3>2. CASE ScanCards
      BY <1>0, <3>2 DEF ScanCards, TickRow
    <3>3. CASE EnqueueScanned
      BY <1>0, <3>3 DEF EnqueueScanned, TickRow
    <3>4. QED
      BY <1>5, <3>0, <3>1, <3>2, <3>3
  <2>3. UNCHANGED <<card, beat, inv>>
    BY <1>5 DEF StartTick, ScanCards, EndTick, EnqueueScanned
  <2>4. QED
    BY <2>1, <2>2, <2>3 DEF BeatsLookedAfter
<1>6. QED
  BY <1>1, <1>2, <1>3, <1>4, <1>5 DEF Tick

\* A restart leaves the heartbeats of locks.
LEMMA CrashBeatsLookedAfter ==
  ASSUME CustodyInv, BeatsLookedAfter, BeatsSurvive, Crash
  PROVE  BeatsLookedAfter'
<1>1. /\ \A w \in Workers : inv[w].pc \in CrashPoints \cup {"idle"}
      /\ tick.pc \in CrashPoints \cup {"idle"} /\ tick' = NoTick
      /\ UNCHANGED <<card, run, beat>>
  BY DEF Crash
<1>2. ASSUME NEW h \in Beats, beat[h].status = "running"
      PROVE  \E c \in Cards : card[c].lock = h
  <2>1. h # None
    BY Tables DEF CustodyInv
  <2>2. ~(tick.now # None /\ tick.now[2].lock = h)
    BY <1>1, <1>2 DEF BeatsSurvive, CustodyInv, Recovering, BeatsLookedAfter
  <2>3. ASSUME NEW w \in Workers, inv[w].beat = h
        PROVE  \E c \in Cards : card[c].lock = h
    <3>1. Sound(inv[w])
      BY DEF CustodyInv, Slots
    <3>2. inv[w].pc \in Holding
      <4>1. inv[w].pc \notin Fresh \cup {"idle"}
        BY <2>1, <2>3, <3>1 DEF Sound, Unlinked
      <4>2. inv[w].pc \notin {"parked", "settling"} \cup Over
        BY <1>2, <2>1, <2>3, <3>1 DEF Sound, BeatOver
      <4>3. inv[w].pc \notin {"opened", "linked", "scolded", "freed"}
        BY <1>1 DEF BeatsSurvive
      <4>4. QED
        BY <3>1, <4>1, <4>2, <4>3 DEF Sound, Working, PreLock, Reported
    <3>3. inv[w].card \in Cards
      BY <3>2, SlotRefs DEF CustodyInv, Holding
    <3>4. QED
      BY <2>3, <3>2, <3>3, HoldingFacts
  <2>4. QED
    BY <1>2, <2>2, <2>3 DEF BeatsLookedAfter
<1>3. QED
  BY <1>1, <1>2 DEF BeatsLookedAfter, NoTick

\* Every step keeps heartbeats looked after.
LEMMA StepBeatsLookedAfter ==
  ASSUME CustodyInv, Undisturbed, BeatsLookedAfter, BeatsSurvive, [Next]_vars
  PROVE  BeatsLookedAfter'
<1>1. ASSUME NEW w \in Workers, Worker(w) PROVE BeatsLookedAfter'
  BY <1>1, WorkerKinds, WorkerBeatsLookedAfter
<1>2. ASSUME NEW c \in Cards, ExpireLock(c) PROVE BeatsLookedAfter'
  <2>1. \A d \in Cards : card'[d].lock = card[d].lock
    <3>1. card \in [Cards -> CardRow] /\ card' = [card EXCEPT ![c].expired = TRUE]
      BY <1>2, Tables DEF ExpireLock, CustodyInv
    <3>2. QED
      BY <3>1 DEF CardRow
  <2>2. QED
    BY <1>2, <2>1 DEF ExpireLock, BeatsLookedAfter
<1>3. ASSUME NEW r \in Runs, RecoverStaleRun(r) PROVE BeatsLookedAfter'
  BY <1>3 DEF RecoverStaleRun, BeatsLookedAfter
<1>4. CASE UNCHANGED vars
  BY <1>4 DEF vars, BeatsLookedAfter
<1>5. QED
  BY <1>1, <1>2, <1>3, <1>4, NeverRefused, NoOperator, TickBeatsLookedAfter, CrashBeatsLookedAfter
    DEF Next

-----------------------------------------------------------------------------
(* Runs are looked after.                                                  *)

\* A worker keeps its run, or ends it.
LEMMA WorkerRunsLookedAfter ==
  ASSUME CustodyInv, RunsLookedAfter, NEW w \in Workers, WorkerKind(w)
  PROVE  RunsLookedAfter'
<1>1. tick' = tick /\ SlotsBut(w)
  BY DEF WorkerKind
<1> SUFFICES ASSUME NEW r \in Runs, run'[r].status = "running"
             PROVE  \/ run'[r].beat = None
                    \/ \E v \in Workers : inv'[v].run = r /\ inv'[v].pc \in Working
                    \/ \E c \in Cards : card'[c].lock = run'[r].beat
                    \/ tick.now # None /\ tick.now[2].lock = run'[r].beat
  BY <1>1 DEF RunsLookedAfter
<1>2. CASE Claims(w) \/ Links(w)
  <2>1. CASE r = inv'[w].run
    BY <1>2, <2>1 DEF Claims, Links, Working, PreLock, Fresh
  <2>2. CASE r # inv'[w].run
    <3>1. run'[r] = run[r] /\ UNCHANGED card
      BY <1>2, <2>2 DEF Claims, Links, RunsBut, Stays
    <3>2. ASSUME NEW v \in Workers, inv[v].run = r, inv[v].pc \in Working
          PROVE  inv'[v].run = r /\ inv'[v].pc \in Working
      BY <1>1, <1>2, <2>2, <3>2 DEF SlotsBut, Claims, Links, Stays, Working, PreLock, Fresh, Holding, Reported
    <3>3. QED
      BY <1>1, <3>1, <3>2 DEF RunsLookedAfter
  <2>3. QED
    BY <2>1, <2>2
<1>3. CASE Follows(w) \/ Rests(w)
  <2>1. CASE run[r].status = "running"
    <3>1. run'[r] = run[r] /\ UNCHANGED card
      BY <1>3, <2>1 DEF Follows, Rests, Enqueues, RunsBut
    <3>2. ASSUME NEW v \in Workers, inv[v].run = r, inv[v].pc \in Working
          PROVE  inv'[v].run = r /\ inv'[v].pc \in Working
      BY <1>1, <1>3, <3>2 DEF SlotsBut, Follows, Rests, Working, PreLock, Fresh, Holding, Reported
    <3>3. QED
      BY <1>1, <2>1, <3>1, <3>2 DEF RunsLookedAfter
  <2>2. CASE run[r].status # "running"
    BY <1>3, <2>2 DEF Follows, Rests, Enqueues, RunsBut
  <2>3. QED
    BY <2>1, <2>2
<1>4. CASE Requeues(w)
  <2>1. CASE r = inv[w].run
    BY <1>4, <2>1, LinkFacts DEF Requeues, Fresh
  <2>2. CASE r # inv[w].run
    <3>1. run'[r] = run[r] /\ UNCHANGED card
      BY <1>4, <2>2 DEF Requeues, RunsBut
    <3>2. ASSUME NEW v \in Workers, inv[v].run = r, inv[v].pc \in Working
          PROVE  inv'[v].run = r /\ inv'[v].pc \in Working
      BY <1>1, <2>2, <3>2 DEF SlotsBut
    <3>3. QED
      BY <1>1, <3>1, <3>2 DEF RunsLookedAfter
  <2>3. QED
    BY <2>1, <2>2
<1>5. CASE Advances(w) \/ Opens(w) \/ Acquires(w)
  <2>1. UNCHANGED run
    BY <1>5 DEF Advances, Opens, Acquires
  <2>2. ASSUME NEW v \in Workers, inv[v].run = r, inv[v].pc \in Working
        PROVE  inv'[v].run = r /\ inv'[v].pc \in Working
    BY <1>1, <1>5, <2>2 DEF SlotsBut, Advances, Opens, Acquires, Stays, Working, PreLock, Fresh,
      Holding, Reported
  <2>3. ASSUME NEW c \in Cards, card[c].lock = run[r].beat, run[r].beat # None
        PROVE  card'[c].lock = run[r].beat
    <3>1. Acquires(w) => card[inv[w].card].lock = None
      BY FreeCard DEF Acquires, Working, PreLock, Fresh, Holding
    <3>2. QED
      BY <1>5, <2>3, <3>1 DEF Advances, Opens, Acquires, CardsBut
  <2>4. QED
    BY <1>1, <2>1, <2>2, <2>3 DEF RunsLookedAfter
<1>6. CASE Concludes(w)
  <2>1. CASE r = inv[w].run
    BY <1>6, <2>1 DEF Concludes, Stays, Working, Ended
  <2>2. CASE r # inv[w].run
    <3>1. run'[r] = run[r]
      BY <1>6, <2>2 DEF Concludes, RunsBut
    <3>2. ASSUME NEW v \in Workers, inv[v].run = r, inv[v].pc \in Working
          PROVE  inv'[v].run = r /\ inv'[v].pc \in Working
      BY <1>1, <2>2, <3>2 DEF SlotsBut
    <3>3. ASSUME NEW c \in Cards, card[c].lock = run[r].beat, run[r].beat # None
          PROVE  card'[c].lock = run[r].beat
      <4>1. c # inv[w].card
        <5>1. SUFFICES ASSUME c = inv[w].card PROVE FALSE
          OBVIOUS
        <5>2. beat[run[r].beat].card = run[r].card /\ beat[card[c].lock].card = c
          BY <3>3 DEF CustodyInv, RunBeats, LockedRuns
        <5>3. QED
          BY <1>6, <2>2, <3>1, <3>3, <5>1, <5>2, OnlyRun DEF Concludes, Working, Active
      <4>2. QED
        BY <1>6, <3>3, <4>1 DEF Concludes, CardsBut
    <3>4. QED
      BY <1>1, <3>1, <3>2, <3>3 DEF RunsLookedAfter
  <2>3. QED
    BY <2>1, <2>2
<1>7. QED
  BY <1>2, <1>3, <1>4, <1>5, <1>6 DEF WorkerKind

\* The tick ends the run whose lock it cleared.
LEMMA TickRunsLookedAfter ==
  ASSUME CustodyInv, RunsLookedAfter, Tick
  PROVE  RunsLookedAfter'
<1>0. tick \in TickRow
  BY Tables DEF CustodyInv
<1>1. CASE RecoverLock
  <2>1. PICK s \in tick.stale :
          /\ tick.pc = "locks" /\ UNCHANGED <<run, beat, inv, cmd>>
          /\ \/ /\ SameRow(card[s[1]], s[2])
                /\ IF s[2].status = "in_progress"
                   THEN \E row \in AfterFailure(card[s[1]], s[2].retries) :
                          card' = [card EXCEPT ![s[1]] = row]
                   ELSE card' = [card EXCEPT ![s[1]] = Unlocked(@, s[2].status, s[2].retries)]
                /\ tick' = [tick EXCEPT !.pc = "freeAgent", !.now = s, !.stale = @ \ {s}]
             \/ tick' = [tick EXCEPT !.stale = @ \ {s}] /\ UNCHANGED card
    BY <1>1 DEF RecoverLock
  <2>2. s[1] \in Cards /\ s[2] \in CardRow /\ tick.now = None /\ s # None
    BY <1>0, <2>1, RowAssumption DEF TickRow, CustodyInv, Recovering, RowAssumption
  <2>3. CASE tick' = [tick EXCEPT !.stale = @ \ {s}] /\ UNCHANGED card
    <3>1. tick'.now = tick.now
      BY <1>0, <2>3 DEF TickRow
    <3>2. QED
      BY <2>1, <2>3, <3>1 DEF RunsLookedAfter
  <2>4. CASE /\ SameRow(card[s[1]], s[2])
             /\ IF s[2].status = "in_progress"
                THEN \E row \in AfterFailure(card[s[1]], s[2].retries) :
                       card' = [card EXCEPT ![s[1]] = row]
                ELSE card' = [card EXCEPT ![s[1]] = Unlocked(@, s[2].status, s[2].retries)]
             /\ tick' = [tick EXCEPT !.pc = "freeAgent", !.now = s, !.stale = @ \ {s}]
    <3>1. \A d \in Cards \ {s[1]} : card'[d] = card[d]
      BY <2>2, <2>4, RecoverLockEffect
    <3>2. tick'.now = s
      BY <1>0, <2>4 DEF TickRow
    <3>3. card[s[1]].lock = s[2].lock
      BY <2>4 DEF SameRow, SameColumns
    <3>4. QED
      BY <2>1, <2>2, <3>1, <3>2, <3>3 DEF RunsLookedAfter
  <2>5. QED
    BY <2>1, <2>3, <2>4
<1>2. CASE FailLockRuns
  <2> DEFINE h == tick.now[2].lock
  <2>1. /\ run' = [r \in Runs |-> IF r \in BeatRuns(h) THEN [run[r] EXCEPT !.status = "failed"] ELSE run[r]]
        /\ UNCHANGED <<card, inv>>
    BY <1>2 DEF FailLockRuns
  <2> HIDE DEF h
  <2>2. \A r \in Runs : run'[r].status = "running" => run'[r] = run[r] /\ run[r].beat # h
    <3>1. \A r \in Runs : run[r] \in RunRow
      BY Tables DEF CustodyInv
    <3>2. QED
      BY <2>1, <3>1 DEF BeatRuns, RunRow
  <2>3. QED
    BY <2>1, <2>2 DEF RunsLookedAfter, h
<1>3. CASE FreeLockAgent \/ FailLockBeat
  <2>1. tick'.now = tick.now /\ UNCHANGED <<card, run, inv>>
    BY <1>0, <1>3 DEF FreeLockAgent, FailLockBeat, TickRow
  <2>2. QED
    BY <2>1 DEF RunsLookedAfter
<1>4. CASE StartTick \/ ScanCards \/ EndTick \/ EnqueueScanned
  <2>1. tick.now = None
    BY <1>4 DEF StartTick, ScanCards, EndTick, EnqueueScanned, CustodyInv, Recovering
  <2>2. UNCHANGED <<card, inv>>
    BY <1>4 DEF StartTick, ScanCards, EndTick, EnqueueScanned
  <2>3. \A r \in Runs : run'[r].status = "running" => run'[r] = run[r]
    <3>1. CASE EnqueueScanned
      <4>1. PICK c \in tick.todo : Enqueue(c)
        BY <3>1 DEF EnqueueScanned
      <4>2. c \in Cards
        BY <1>0, <4>1 DEF TickRow
      <4>3. Enqueues(c)
        BY <4>1, <4>2, EnqueueForms DEF CustodyInv
      <4>4. QED
        BY <4>3 DEF Enqueues, RunsBut
    <3>2. CASE StartTick \/ ScanCards \/ EndTick
      BY <3>2 DEF StartTick, ScanCards, EndTick
    <3>3. QED
      BY <1>4, <3>1, <3>2
  <2>4. QED
    BY <2>1, <2>2, <2>3 DEF RunsLookedAfter
<1>5. QED
  BY <1>1, <1>2, <1>3, <1>4 DEF Tick

\* A restart leaves the runs of locks, and claims without a heartbeat.
LEMMA CrashRunsLookedAfter ==
  ASSUME CustodyInv, RunsLookedAfter, RunsSurvive, Crash
  PROVE  RunsLookedAfter'
<1>1. /\ \A w \in Workers : inv[w].pc \in CrashPoints \cup {"idle"}
      /\ tick.pc \in CrashPoints \cup {"idle"}
      /\ UNCHANGED <<card, run, beat>>
  BY DEF Crash
<1>2. tick.now = None
  BY <1>1 DEF RunsSurvive, CustodyInv, Recovering
<1>3. ASSUME NEW w \in Workers, inv[w].pc \in Working
      PROVE  run[inv[w].run].beat = None \/ \E c \in Cards : card[c].lock = run[inv[w].run].beat
  <2>1. CASE inv[w].pc \in Holding
    <3>1. card[inv[w].card].lock = inv[w].beat /\ run[inv[w].run].beat = inv[w].beat
      BY <2>1, HoldingFacts, LinkFacts
    <3>2. inv[w].card \in Cards
      BY <2>1, SlotRefs DEF CustodyInv, Holding
    <3>3. QED
      BY <3>1, <3>2
  <2>2. CASE inv[w].pc \in Fresh \cup {"opened"}
    BY <2>2, LinkFacts
  <2>3. QED
    BY <1>1, <1>3, <2>1, <2>2 DEF RunsSurvive, Working, PreLock, Reported
<1>4. QED
  BY <1>1, <1>2, <1>3 DEF RunsLookedAfter

\* Every step keeps runs looked after.
LEMMA StepRunsLookedAfter ==
  ASSUME CustodyInv, Undisturbed, RunsLookedAfter, RunsSurvive, [Next]_vars
  PROVE  RunsLookedAfter'
<1>1. ASSUME NEW w \in Workers, Worker(w) PROVE RunsLookedAfter'
  BY <1>1, WorkerKinds, WorkerRunsLookedAfter
<1>2. ASSUME NEW c \in Cards, ExpireLock(c) PROVE RunsLookedAfter'
  <2>1. \A d \in Cards : card'[d].lock = card[d].lock
    <3>1. card \in [Cards -> CardRow] /\ card' = [card EXCEPT ![c].expired = TRUE]
      BY <1>2, Tables DEF ExpireLock, CustodyInv
    <3>2. QED
      BY <3>1 DEF CardRow
  <2>2. QED
    BY <1>2, <2>1 DEF ExpireLock, RunsLookedAfter
<1>3. ASSUME NEW r \in Runs, RecoverStaleRun(r) PROVE RunsLookedAfter'
  <2>1. run' = [run EXCEPT ![r].status = "queued"] /\ UNCHANGED <<card, inv, tick>>
    BY <1>3 DEF RecoverStaleRun
  <2>2. \A q \in Runs : run'[q].status = "running" => run'[q] = run[q]
    BY <2>1, Tables DEF CustodyInv, RunRow
  <2>3. QED
    BY <2>1, <2>2 DEF RunsLookedAfter
<1>4. CASE UNCHANGED vars
  BY <1>4 DEF vars, RunsLookedAfter
<1>5. QED
  BY <1>1, <1>2, <1>3, <1>4, NeverRefused, NoOperator, TickRunsLookedAfter, CrashRunsLookedAfter
    DEF Next

-----------------------------------------------------------------------------
(* Cards are looked after.                                                 *)

\* A worker takes its card out of progress, or enqueues its next run.
LEMMA WorkerCardsLookedAfter ==
  ASSUME CustodyInv, CardsLookedAfter, CardsSurvive, NEW w \in Workers, WorkerKind(w)
  PROVE  CardsLookedAfter'
<1>1. SlotsBut(w)
  BY DEF WorkerKind
<1>2. inv[w].pc \in Working \cup Over => inv[w].card \in Cards
  BY SlotRefs DEF CustodyInv, Working, PreLock, Fresh, Holding, Reported, Over
<1>3. Concludes(w) =>
        \/ inv'[w].pc = "following" /\ inv'[w].card = inv[w].card
        \/ card'[inv[w].card].status # "in_progress"
  BY DEF Concludes, Stays, CardsSurvive, CardsLookedAfter
<1>4. ASSUME NEW v \in Workers, inv'[v].pc \in Reported
      PROVE  card'[inv'[v].card].status # "in_progress"
  <2>1. CASE v = w
    <3>1. Concludes(w)
      BY <1>4, <2>1 DEF WorkerKind, Advances, Claims, Opens, Links, Acquires, Follows, Requeues, Rests,
        Resting, Fresh, Holding, Reported
    <3>2. QED
      BY <1>3, <1>4, <2>1, <3>1 DEF Concludes, Stays, Reported
  <2>2. CASE v # w
    <3>1. inv'[v] = inv[v] /\ inv[v].pc \in Working /\ inv[v].card \in Cards
      BY <1>1, <1>4, <2>2, SlotRefs DEF SlotsBut, Working, Reported, CustodyInv
    <3>2. card[inv[v].card].status # "in_progress"
      BY <1>4, <3>1 DEF CardsLookedAfter
    <3>3. card'[inv[v].card] = card[inv[v].card]
      BY <2>2, <3>1, WorkersApart, CardWrites DEF CardsBut
    <3>4. QED
      BY <3>1, <3>2, <3>3
  <2>3. QED
    BY <2>1, <2>2
<1>5. ASSUME NEW c \in Cards, card'[c].status = "in_progress"
      PROVE  \/ card'[c].lock # None
             \/ ActiveRuns(c)' # {}
             \/ \E v \in Workers : inv'[v].card = c /\ inv'[v].pc = "following"
             \/ AbsentRuns' = {}
  <2>1. CASE Acquires(w) /\ c = inv[w].card
    <3>1. card'[c].lock \in Beats
      BY <2>1, LinkFacts DEF Acquires
    <3>2. QED
      BY <3>1, Tables DEF CustodyInv
  <2>2. CASE Concludes(w) /\ c = inv[w].card
    BY <1>3, <1>5, <2>2
  <2>3. CASE Follows(w) /\ c = inv[w].card
    <3>1. ActiveRuns(c)' # {} \/ AbsentRuns' = {}
      <4>1. CASE UNCHANGED run
        BY <2>3, <4>1 DEF Follows, Enqueues, ActiveRuns, AbsentRuns
      <4>2. CASE \E r \in Runs : run'[r].status = "queued" /\ run'[r].card = c
        BY <4>2 DEF ActiveRuns, Active
      <4>3. QED
        BY <2>3, <4>1, <4>2 DEF Follows, Enqueues
    <3>2. QED
      BY <3>1
  <2>4. CASE ~((Acquires(w) \/ Concludes(w) \/ Follows(w)) /\ c = inv[w].card)
    <3>1. card'[c] = card[c]
      <4>1. Advances(w) \/ Claims(w) \/ Opens(w) \/ Links(w) \/ Follows(w) \/ Requeues(w) \/ Rests(w)
              => UNCHANGED card
        BY DEF Advances, Claims, Opens, Links, Follows, Requeues, Rests
      <4>2. Acquires(w) \/ Concludes(w) => \A d \in Cards \ {inv[w].card} : card'[d] = card[d]
        BY DEF Acquires, Concludes, CardsBut
      <4>3. QED
        BY <2>4, <4>1, <4>2 DEF WorkerKind
    <3>2. ASSUME NEW r \in Runs, run[r].card = c, run[r].status \in Active
          PROVE  run'[r].card = c /\ run'[r].status \in Active
      <4>1. CASE UNCHANGED run
        BY <3>2, <4>1
      <4>2. CASE Claims(w) \/ Links(w) \/ Requeues(w)
        BY <3>2, <4>2 DEF Claims, Links, Requeues, RunsBut, Active
      <4>3. CASE Follows(w)
        BY <3>2, <4>3 DEF Follows, Enqueues, RunsBut, Active
      <4>4. CASE Concludes(w)
        <5>1. run[inv[w].run].card = inv[w].card
          BY <4>4, OnlyRun DEF Concludes, Working
        <5>2. QED
          BY <2>4, <3>2, <4>4, <5>1 DEF Concludes, RunsBut
      <4>5. QED
        <5>1. Advances(w) \/ Opens(w) \/ Acquires(w) \/ Rests(w) => UNCHANGED run
          BY DEF Advances, Opens, Acquires, Rests
        <5>2. QED
          BY <4>1, <4>2, <4>3, <4>4, <5>1 DEF WorkerKind
    <3>3. ASSUME NEW v \in Workers, inv[v].card = c, inv[v].pc = "following"
          PROVE  inv'[v].card = c /\ inv'[v].pc = "following"
      <4>1. CASE v = w
        BY <2>4, <3>3, <4>1 DEF WorkerKind, Advances, Claims, Opens, Links, Acquires, Concludes,
          Requeues, Rests, Fresh, Holding, Reported
      <4>2. CASE v # w
        BY <1>1, <3>3, <4>2 DEF SlotsBut
      <4>3. QED
        BY <4>1, <4>2
    <3>4. AbsentRuns = {} => AbsentRuns' = {}
      <4>1. \A r \in Runs : run[r].status # "absent" => run'[r].status # "absent"
        <5>1. CASE Requeues(w) \/ Concludes(w)
          <6>1. run[inv[w].run].status = "running"
            BY <5>1, OnlyRun DEF Requeues, Concludes, Working, PreLock, Fresh
          <6>2. QED
            BY <5>1, <6>1 DEF Requeues, Concludes, RunsBut, Active, Ended
        <5>2. CASE Claims(w) \/ Links(w) \/ Follows(w)
          BY <5>2 DEF Claims, Links, Follows, Enqueues, RunsBut
        <5>3. CASE UNCHANGED run
          BY <5>3
        <5>4. QED
          <6>1. Advances(w) \/ Opens(w) \/ Acquires(w) \/ Rests(w) => UNCHANGED run
            BY DEF Advances, Opens, Acquires, Rests
          <6>2. QED
            BY <5>1, <5>2, <5>3, <6>1 DEF WorkerKind
      <4>2. QED
        BY <4>1 DEF AbsentRuns
    <3>5. \/ card[c].lock # None
          \/ ActiveRuns(c) # {}
          \/ \E v \in Workers : inv[v].card = c /\ inv[v].pc = "following"
          \/ AbsentRuns = {}
      BY <1>5, <3>1 DEF CardsLookedAfter
    <3>6. ActiveRuns(c) # {} => ActiveRuns(c)' # {}
      BY <3>2 DEF ActiveRuns
    <3>7. QED
      BY <3>1, <3>3, <3>4, <3>5, <3>6
  <2>5. QED
    BY <2>1, <2>2, <2>3, <2>4
<1>6. QED
  BY <1>4, <1>5 DEF CardsLookedAfter

\* Steps that put no card in progress, and end no run of a card in progress.
LEMMA StandingCards ==
  ASSUME CustodyInv, CardsLookedAfter, UNCHANGED inv,
         \A c \in Cards : card'[c].status = "in_progress" =>
           card[c].status = "in_progress" /\ card'[c].lock = card[c].lock,
         \A r \in Runs : run[r].status # "absent" => run'[r].status # "absent",
         \A c \in Cards, r \in Runs :
           /\ card[c].status = "in_progress" /\ run[r].card = c /\ run[r].status \in Active
           => run'[r].card = c /\ run'[r].status \in Active
  PROVE  CardsLookedAfter'
<1>1. ASSUME NEW v \in Workers, inv'[v].pc \in Reported
      PROVE  card'[inv'[v].card].status # "in_progress"
  <2>1. inv'[v] = inv[v] /\ inv[v].card \in Cards
    BY <1>1, SlotRefs DEF CustodyInv, Reported
  <2>2. QED
    BY <1>1, <2>1 DEF CardsLookedAfter
<1>2. ASSUME NEW c \in Cards, card'[c].status = "in_progress"
      PROVE  \/ card'[c].lock # None
             \/ ActiveRuns(c)' # {}
             \/ \E v \in Workers : inv'[v].card = c /\ inv'[v].pc = "following"
             \/ AbsentRuns' = {}
  <2>1. card[c].status = "in_progress" /\ card'[c].lock = card[c].lock
    BY <1>2
  <2>2. \/ card[c].lock # None
        \/ ActiveRuns(c) # {}
        \/ \E v \in Workers : inv[v].card = c /\ inv[v].pc = "following"
        \/ AbsentRuns = {}
    BY <2>1 DEF CardsLookedAfter
  <2>3. ActiveRuns(c) # {} => ActiveRuns(c)' # {}
    BY <2>1 DEF ActiveRuns
  <2>4. AbsentRuns = {} => AbsentRuns' = {}
    BY DEF AbsentRuns
  <2>5. QED
    BY <2>1, <2>2, <2>3, <2>4
<1>3. QED
  BY <1>1, <1>2 DEF CardsLookedAfter

\* The tick takes the card of a dead attempt out of progress first, and ends its run
\* last.
LEMMA TickCardsLookedAfter ==
  ASSUME CustodyInv, CardsLookedAfter, Tick
  PROVE  CardsLookedAfter'
<1>0. tick \in TickRow
  BY Tables DEF CustodyInv
<1>1. CASE RecoverLock
  <2>1. PICK s \in tick.stale :
          /\ tick.pc = "locks" /\ UNCHANGED <<run, beat, inv, cmd>>
          /\ \/ /\ SameRow(card[s[1]], s[2])
                /\ IF s[2].status = "in_progress"
                   THEN \E row \in AfterFailure(card[s[1]], s[2].retries) :
                          card' = [card EXCEPT ![s[1]] = row]
                   ELSE card' = [card EXCEPT ![s[1]] = Unlocked(@, s[2].status, s[2].retries)]
             \/ UNCHANGED card
    BY <1>1 DEF RecoverLock
  <2>2. s[1] \in Cards /\ s[2] \in CardRow
    BY <1>0, <2>1 DEF TickRow
  <2>3. \A c \in Cards : card'[c].status = "in_progress" =>
          card[c].status = "in_progress" /\ card'[c].lock = card[c].lock
    <3>1. CASE UNCHANGED card
      BY <3>1
    <3>2. CASE /\ SameRow(card[s[1]], s[2])
               /\ IF s[2].status = "in_progress"
                  THEN \E row \in AfterFailure(card[s[1]], s[2].retries) :
                         card' = [card EXCEPT ![s[1]] = row]
                  ELSE card' = [card EXCEPT ![s[1]] = Unlocked(@, s[2].status, s[2].retries)]
      <4>1. card'[s[1]].status # "in_progress" /\ \A d \in Cards \ {s[1]} : card'[d] = card[d]
        BY <2>1, <2>2, <3>2, RecoverLockEffect
      <4>2. QED
        BY <4>1
    <3>3. QED
      BY <2>1, <3>1, <3>2
  <2>4. QED
    BY <2>1, <2>3, StandingCards
<1>2. CASE FailLockRuns
  <2> DEFINE h == tick.now[2].lock
             c == tick.now[1]
  <2>1. /\ tick.pc = "failRuns" /\ UNCHANGED <<card, inv>>
        /\ run' = [r \in Runs |-> IF r \in BeatRuns(h) THEN [run[r] EXCEPT !.status = "failed"] ELSE run[r]]
    BY <1>2 DEF FailLockRuns
  <2>2. h \in Beats /\ beat[h].card = c /\ card[c].status # "in_progress"
    BY <2>1 DEF CustodyInv, Recovering
  <2>3. h # None
    BY <2>2, Tables DEF CustodyInv
  <2> HIDE DEF h, c
  <2>4. \A r \in Runs :
          /\ run[r].beat # h => run'[r] = run[r]
          /\ run'[r].status \in {run[r].status, "failed"}
    <3>1. \A r \in Runs : run[r] \in RunRow
      BY Tables DEF CustodyInv
    <3>2. QED
      BY <2>1, <3>1 DEF BeatRuns, RunRow
  <2>5. \A r \in Runs : run[r].beat = h => run[r].card = c
    BY <2>2, <2>3 DEF CustodyInv, RunBeats
  <2>6. QED
    BY <2>1, <2>2, <2>4, <2>5, StandingCards
<1>3. CASE EnqueueScanned
  <2>1. PICK c \in tick.todo : Enqueue(c) /\ UNCHANGED <<card, inv>>
    BY <1>3 DEF EnqueueScanned
  <2>2. c \in Cards
    BY <1>0, <2>1 DEF TickRow
  <2>3. Enqueues(c)
    BY <2>1, <2>2, EnqueueForms DEF CustodyInv
  <2>4. \A r \in Runs : run[r].status # "absent" => run'[r] = run[r]
    BY <2>3 DEF Enqueues, RunsBut
  <2>5. QED
    BY <2>1, <2>4, StandingCards DEF Active
<1>4. CASE StartTick \/ FreeLockAgent \/ FailLockBeat \/ ScanCards \/ EndTick
  <2>1. UNCHANGED <<card, run, inv>>
    BY <1>4 DEF StartTick, FreeLockAgent, FailLockBeat, ScanCards, EndTick
  <2>2. QED
    BY <2>1, StandingCards
<1>5. QED
  BY <1>1, <1>2, <1>3, <1>4 DEF Tick

\* Every step keeps cards looked after.
LEMMA StepCardsLookedAfter ==
  ASSUME CustodyInv, Undisturbed, CardsLookedAfter, CardsSurvive, [Next]_vars
  PROVE  CardsLookedAfter'
<1>1. ASSUME NEW w \in Workers, Worker(w) PROVE CardsLookedAfter'
  BY <1>1, WorkerKinds, WorkerCardsLookedAfter
<1>2. ASSUME NEW c \in Cards, ExpireLock(c) PROVE CardsLookedAfter'
  <2>1. \A d \in Cards : card'[d].lock = card[d].lock /\ card'[d].status = card[d].status
    <3>1. card \in [Cards -> CardRow] /\ card' = [card EXCEPT ![c].expired = TRUE]
      BY <1>2, Tables DEF ExpireLock, CustodyInv
    <3>2. QED
      BY <3>1 DEF CardRow
  <2>2. UNCHANGED <<run, inv>>
    BY <1>2 DEF ExpireLock
  <2>3. QED
    BY <2>1, <2>2, StandingCards
<1>3. ASSUME NEW r \in Runs, RecoverStaleRun(r) PROVE CardsLookedAfter'
  <2>1. run' = [run EXCEPT ![r].status = "queued"] /\ UNCHANGED <<card, inv>>
    BY <1>3 DEF RecoverStaleRun
  <2>2. \A q \in Runs : run'[q].card = run[q].card /\ run'[q].status \in {run[q].status, "queued"}
    BY <2>1, Tables DEF CustodyInv, RunRow
  <2>3. QED
    BY <2>1, <2>2, StandingCards DEF Active
<1>4. CASE UNCHANGED vars
  <2>1. UNCHANGED <<card, run, inv>>
    BY <1>4 DEF vars
  <2>2. QED
    BY <2>1, StandingCards
<1>5. CASE Crash
  <2>1. /\ \A w \in Workers : inv[w].pc \in CrashPoints \cup {"idle"}
        /\ inv' = [w \in Workers |-> Resting] /\ UNCHANGED <<card, run>>
    BY <1>5 DEF Crash
  <2>2. \A w \in Workers : inv'[w].pc = "idle" /\ inv[w].pc # "following"
    BY <2>1 DEF CardsSurvive, Resting
  <2>3. QED
    BY <2>1, <2>2 DEF CardsLookedAfter, Reported, ActiveRuns, AbsentRuns
<1>6. QED
  BY <1>1, <1>2, <1>3, <1>4, <1>5, NeverRefused, NoOperator, TickCardsLookedAfter DEF Next

-----------------------------------------------------------------------------
(* What that means for the properties of the dispatch path.                *)

\* A running heartbeat always has somebody who will end it, unless a restart hits
\* between the statements that open it, or those that end it after its lock or its card
\* was released (openHeartbeatRun, recoverStaleExecutionLocks,
\* sendAgentFeedbackAndRequeue).
THEOREM BeatsAreInCustody ==
  Undisturbed /\ BeatsSurvive /\ Spec => []BeatInCustody
<1> DEFINE I == Undisturbed /\ BeatsSurvive /\ CustodyInv /\ BeatsLookedAfter
<1>1. Init /\ CustodyInv => BeatsLookedAfter
  BY DEF Init, BeatsLookedAfter, NoTick
<1>2. I /\ CustodyInv' /\ [Next]_vars => I'
  <2>1. Undisturbed /\ BeatsSurvive => Undisturbed' /\ BeatsSurvive'
    BY DEF Undisturbed, BeatsSurvive
  <2>2. QED
    BY <2>1, StepBeatsLookedAfter
<1>3. I => BeatInCustody
  BY DEF BeatsLookedAfter, BeatInCustody
<1>4. QED
  BY <1>1, <1>2, <1>3, CustodyInvariant, PTL DEF Spec

\* A running run always has somebody who will end it, unless a restart hits between
\* the two statements that open its heartbeat, or between the one that releases its card
\* and the one that ends the run (completeTaskRun, recoverStaleExecutionLocks).
THEOREM RunsAreInCustody ==
  Undisturbed /\ RunsSurvive /\ Spec => []RunInCustody
<1> DEFINE I == Undisturbed /\ RunsSurvive /\ CustodyInv /\ RunsLookedAfter
<1>1. Init /\ CustodyInv => RunsLookedAfter
  BY DEF Init, RunsLookedAfter
<1>2. I /\ CustodyInv' /\ [Next]_vars => I'
  <2>1. Undisturbed /\ RunsSurvive => Undisturbed' /\ RunsSurvive'
    BY DEF Undisturbed, RunsSurvive
  <2>2. QED
    BY <2>1, StepRunsLookedAfter
<1>3. I => RunInCustody
  BY DEF RunsLookedAfter, RunInCustody
<1>4. QED
  BY <1>1, <1>2, <1>3, CustodyInvariant, PTL DEF Spec

\* A card in progress is locked, has an active run, or a worker is about to enqueue
\* its next one, unless a restart hits before that or the card waits for its
\* delegations (enqueueTaskRun after a progress report).
THEOREM CardsAreInCustody ==
  Undisturbed /\ CardsSurvive /\ Spec => []CardInCustody
<1> DEFINE I == Undisturbed /\ CardsSurvive /\ CustodyInv /\ CardsLookedAfter
<1>1. Init /\ CustodyInv => CardsLookedAfter
  <2>1. SUFFICES ASSUME Init, CustodyInv PROVE CardsLookedAfter
    OBVIOUS
  <2>2. \A w \in Workers : inv[w].pc = "idle"
    BY <2>1 DEF Init, Resting
  <2>3. \A c \in Cards : card[c].status = "todo"
    <3>1. SUFFICES ASSUME NEW c \in Cards PROVE card[c].status = "todo"
      OBVIOUS
    <3>2. card[c] \in {[status |-> "todo", lock |-> None, expired |-> FALSE,
                        retries |-> 0, repairs |-> 0, recovery |-> "none",
                        assignee |-> a] : a \in Agents}
      BY <2>1 DEF Init
    <3>3. QED
      BY <3>2
  <2>4. QED
    BY <2>2, <2>3 DEF CardsLookedAfter, Reported
<1>2. I /\ CustodyInv' /\ [Next]_vars => I'
  <2>1. Undisturbed /\ CardsSurvive => Undisturbed' /\ CardsSurvive'
    BY DEF Undisturbed, CardsSurvive
  <2>2. QED
    BY <2>1, StepCardsLookedAfter
<1>3. I => CardInCustody
  BY DEF CardsLookedAfter, CardInCustody
<1>4. QED
  BY <1>1, <1>2, <1>3, CustodyInvariant, PTL DEF Spec

\* Whoever has taken the lock has authority until it acts itself.
HoldersAuthorized == \A w \in Workers : inv[w].pc \in Holding => Authorized(w)

\* An attempt with authority keeps it until it acts itself: no other attempt, failure
\* handler or cron tick takes it away while deadlines are kept and no operator
\* interferes (completionCondition, recoverStaleExecutionLocks).
THEOREM AuthorityIsKept == Undisturbed /\ Spec => AuthorityKept
<1>1. CustodyInv => HoldersAuthorized
  BY HoldingFacts DEF HoldersAuthorized, Authorized
<1>2. HoldersAuthorized' /\ [Next]_vars =>
        [\A w \in Workers : Authorized(w) /\ inv'[w] = inv[w] =>
           \/ Authorized(w)'
           \/ card[inv[w].card].expired
           \/ inv[w].card \in {cmd.card, cmd'.card}]_vars
  BY DEF HoldersAuthorized, Authorized
<1>3. QED
  BY <1>1, <1>2, CustodyInvariant, PTL DEF AuthorityKept, Spec

\* Every result that changes its card is written under authority, delegations and
\* handoffs among them, which name the card by its id only (dispatchCard's completion
\* transactions).
THEOREM ResultsAreAuthorized == Undisturbed /\ Spec => ResultNeedsAuthority
<1>1. CustodyInv => HoldersAuthorized
  BY HoldingFacts DEF HoldersAuthorized, Authorized
<1>2. HoldersAuthorized /\ [Next]_vars =>
        [\A w \in Workers :
           inv[w].pc \in Holding /\ inv'[w] # inv[w] /\ card'[inv[w].card] # card[inv[w].card] =>
             Authorized(w)]_vars
  BY DEF HoldersAuthorized
<1>3. QED
  BY <1>1, <1>2, CustodyInvariant, PTL DEF ResultNeedsAuthority, Spec

-----------------------------------------------------------------------------
(* The flags of the agents.                                                *)

\* Between its capacity claim and its heartbeat, and from the end of its heartbeat to
\* the final recount, an invocation alone looks after the flag of its agent.
Recounting == {"admitted", "settling", "following", "worked", "refreshing"}
\* No restart falls there, nor while a lock is held: the tick would free the agent
\* before it ends the heartbeat, and a recount in between sets the flag again.
FlagsSurvive == CrashPoints \cap (Holding \cup Recounting) = {}

HasBeat(a) == \E h \in Beats : beat[h].status = "running" /\ beat[h].agent = a
Recounts(i, a) == i.pc \in Recounting /\ i.owner = a

\* Every lock has its attempt, so that the tick recovers none.
LocksHeld ==
  /\ \A c \in Cards : card[c].lock # None =>
       \E w \in Workers : inv[w].pc \in Holding /\ inv[w].card = c
  /\ tick.stale = {} /\ tick.now = None
\* A run is of the assignee of its card until its result has handed the card on.
RunAgents == \A r \in Runs : run[r].status \in Active =>
  \/ run[r].agent = card[run[r].card].assignee
  \/ \E w \in Workers : inv[w].pc = "settling" /\ inv[w].run = r
\* The agent it dispatches to, and whose heartbeat it has, is the one it recounts.
RecountsItsAgent(i) ==
  /\ i.pc # "idle" => i.owner \in Agents
  /\ i.pc \in Fresh \cup {"opened"} => i.owner = card[i.card].assignee
  /\ i.pc \notin {"idle", "claimed"} => i.agent = i.owner
  /\ i.beat # None => beat[i.beat].agent = i.owner
FlagsLookedAfter ==
  /\ LocksHeld /\ RunAgents
  /\ \A w \in Workers : RecountsItsAgent(inv[w])
  /\ \A a \in Agents : busy[a] => HasBeat(a) \/ \E w \in Workers : Recounts(inv[w], a)

\* A result leaves the assignee of a card alone.
LEMMA RowAssignees ==
  ASSUME NEW row \in CardRow, NEW n \in 0..MaxRetries
  PROVE  /\ \A s \in Statuses : Unlocked(row, s, n).assignee = row.assignee
         /\ \A x \in Recovered(row) : x.assignee = row.assignee
         /\ \A x \in Repaired(row) : x.assignee = row.assignee
         /\ \A x \in AfterFailure(row, n) : x.assignee = row.assignee
         /\ \A x \in Corrected(row) : x.assignee = row.assignee
<1>1. ASSUME NEW r \in CardRow PROVE \A x \in Recovered(r) : x.assignee = r.assignee
  BY <1>1 DEF Recovered, CardRow
<1>2. Retried(n) \in 0..MaxRetries /\ (n + 1 < MaxRetries => n + 1 \in 0..MaxRetries)
  BY LimitAssumption DEF Retried, LimitAssumption
<1>3. ASSUME NEW s \in Statuses, NEW m \in 0..MaxRetries
      PROVE  Unlocked(row, s, m) \in CardRow /\ Unlocked(row, s, m).assignee = row.assignee
  BY <1>3 DEF Unlocked, CardRow
<1>4. \A x \in Repaired(row) : x.assignee = row.assignee
  BY DEF Repaired, CardRow
<1>5. ASSUME NEW x \in AfterFailure(row, n) PROVE x.assignee = row.assignee
  <2>1. CASE n + 1 < MaxRetries
    <3>1. x = Unlocked(row, "todo", n + 1) /\ "todo" \in Statuses
      BY <1>5, <2>1 DEF AfterFailure, Statuses
    <3>2. QED
      BY <1>2, <1>3, <2>1, <3>1
  <2>2. CASE ~(n + 1 < MaxRetries)
    <3>1. x \in Recovered(Unlocked(row, "blocked", Retried(n))) /\ "blocked" \in Statuses
      BY <1>5, <2>2 DEF AfterFailure, Statuses
    <3>2. QED
      BY <1>1, <1>2, <1>3, <3>1
  <2>3. QED
    BY <2>1, <2>2
<1>6. ASSUME NEW x \in Corrected(row) PROVE x.assignee = row.assignee
  <2>1. row.retries \in 0..MaxRetries /\ {"todo", "blocked"} \subseteq Statuses
    BY DEF CardRow, Statuses
  <2>2. CASE row.repairs < 2
    <3>1. Unlocked(row, "todo", row.retries) \in CardRow
          /\ Unlocked(row, "todo", row.retries).assignee = row.assignee
      BY <1>3, <2>1
    <3>2. x = [Unlocked(row, "todo", row.retries) EXCEPT !.repairs = @ + 1]
      BY <1>6, <2>2 DEF Corrected
    <3>3. QED
      BY <3>1, <3>2 DEF CardRow
  <2>3. CASE ~(row.repairs < 2)
    <3> DEFINE r == [Unlocked(row, "blocked", row.retries) EXCEPT !.repairs = 3]
    <3>1. Unlocked(row, "blocked", row.retries) \in CardRow
          /\ Unlocked(row, "blocked", row.retries).assignee = row.assignee
      BY <1>3, <2>1
    <3>2. r \in CardRow /\ r.assignee = row.assignee
      BY <3>1 DEF CardRow
    <3>3. x \in Recovered(r)
      BY <1>6, <2>3 DEF Corrected
    <3> HIDE DEF r
    <3>4. QED
      BY <1>1, <3>2, <3>3
  <2>4. QED
    BY <2>2, <2>3
<1>7. QED
  BY <1>1, <1>3, <1>4, <1>5, <1>6

\* Only a handoff changes the assignee of a card.
LEMMA Assignees ==
  ASSUME CustodyInv, Undisturbed, NEW w \in Workers, Worker(w), NEW c \in Cards
  PROVE  \/ card'[c].assignee = card[c].assignee
         \/ c = inv[w].card /\ inv[w].pc = "accepted" /\ inv'[w].pc = "settling" /\ UNCHANGED run
<1> DEFINE i == inv[w]
<1>1. card \in [Cards -> CardRow] /\ inv \in [Workers -> Invocation] /\ inv[w] \in Invocation
      /\ card[c] \in CardRow
  BY Tables DEF CustodyInv
<1>2. ASSUME NEW row, row.assignee = card[i.card].assignee,
             card' = [card EXCEPT ![i.card] = row]
      PROVE  card'[c].assignee = card[c].assignee
  BY <1>1, <1>2
<1>3. i.pc \in Holding \cup Reported =>
        /\ i.card \in Cards /\ card[i.card] \in CardRow
        /\ i.pc \in Holding => i.view \in CardRow
  BY ResultRefs
<1>4. 0 \in 0..MaxRetries /\ {"in_progress", "todo", "blocked"} \subseteq Statuses
  BY LimitAssumption DEF LimitAssumption, Statuses
<1>5. ASSUME i.pc \in Holding, NEW s \in Statuses,
             \E row \in Repaired(Unlocked(card[i.card], s, 0)) : card' = [card EXCEPT ![i.card] = row]
      PROVE  card'[c].assignee = card[c].assignee
  <2>1. Unlocked(card[i.card], s, 0) \in CardRow
    BY <1>3, <1>4, <1>5 DEF Unlocked, CardRow
  <2>2. QED
    BY <1>2, <1>3, <1>4, <1>5, <2>1, RowAssignees
<1>6. CASE AcquireLock(w)
  <2>1. i.card \in Cards
    BY <1>6, SlotRefs DEF CustodyInv, AcquireLock
  <2>2. [card[i.card] EXCEPT !.status = "in_progress", !.lock = i.beat, !.expired = FALSE].assignee
          = card[i.card].assignee
    BY <1>1, <2>1 DEF CardRow
  <2>3. QED
    BY <1>2, <1>6, <2>2 DEF AcquireLock
<1>7. CASE Complete(w)
  <2>1. i.pc \in Holding
    BY <1>7 DEF Complete, Holding
  <2>2. PICK s \in IF i.outcome = "progress" THEN {"in_progress"} ELSE Finished :
          \E row \in Repaired(Unlocked(card[i.card], s, 0)) : card' = [card EXCEPT ![i.card] = row]
    BY <1>7, <2>1, NeverSettled DEF Complete
  <2>3. s \in Statuses
    BY ReleaseStatuses
  <2>4. QED
    BY <1>5, <2>1, <2>2, <2>3
<1>8. CASE Delegate(w)
  BY <1>4, <1>5, <1>8 DEF Delegate, Holding
<1>9. CASE Handoff(w)
  <2>1. i.pc \in Holding /\ i.pc = "accepted" /\ UNCHANGED run
    BY <1>9 DEF Handoff, Holding
  <2>2. inv'[w].pc = "settling"
    BY <1>1, <1>9 DEF Handoff
  <2>3. c # i.card => card'[c] = card[c]
    BY <1>9, HandoffSteps DEF Concludes, CardsBut
  <2>4. QED
    BY <2>1, <2>2, <2>3
<1>10. CASE Fail(w)
  <2>1. i.pc \in Holding
    BY <1>10 DEF Fail, Holding
  <2>2. \E row \in AfterFailure(card[i.card], i.view.retries) : card' = [card EXCEPT ![i.card] = row]
    BY <1>10, <2>1, NeverSettled DEF Fail
  <2>3. i.view.retries \in 0..MaxRetries
    BY <1>3, <2>1 DEF CardRow
  <2>4. QED
    BY <1>2, <1>3, <2>1, <2>2, <2>3, RowAssignees
<1>11. CASE Park(w)
  <2>1. i.pc \in Holding
    BY <1>11 DEF Park, Holding
  <2>2. card' = [card EXCEPT ![i.card] = Unlocked(card[i.card], "blocked", card[i.card].retries)]
    BY <1>11, <2>1, NeverSettled DEF Park
  <2>3. card[i.card].retries \in 0..MaxRetries
    BY <1>3, <2>1 DEF CardRow
  <2>4. QED
    BY <1>2, <1>3, <1>4, <2>1, <2>2, <2>3, RowAssignees
<1>12. CASE RecoverParked(w)
  <2>1. i.pc \in Reported
    BY <1>12 DEF RecoverParked, Reported
  <2>2. \/ UNCHANGED card
        \/ \E row \in Recovered(card[i.card]) : card' = [card EXCEPT ![i.card] = row]
    BY <1>12 DEF RecoverParked
  <2>3. QED
    BY <1>2, <1>3, <1>4, <2>1, <2>2, RowAssignees
<1>13. CASE Scold(w)
  <2>1. i.pc \in Holding
    BY <1>13 DEF Scold, Holding
  <2>2. \/ UNCHANGED card
        \/ \E row \in Corrected(card[i.card]) : card' = [card EXCEPT ![i.card] = row]
    BY <1>13 DEF Scold
  <2>3. QED
    BY <1>2, <1>3, <1>4, <2>1, <2>2, RowAssignees
<1>14. CASE Admission(w) \/ CheckCurrent(w) \/ AdapterReturns(w) \/ PersistProducts(w)
            \/ FreeScolded(w) \/ FailScolded(w) \/ SettleRun(w) \/ EnqueueFollowUp(w) \/ FinishRun(w)
            \/ Requeue(w) \/ Refresh(w)
  <2>1. UNCHANGED card
    BY <1>14 DEF Admission, ClaimRun, ChooseAgent, RefuseDispatch, ClaimCapacity, OpenBeat, LinkBeat,
      CheckCurrent, AdapterReturns, PersistProducts, Settle, FreeScolded, FailScolded, SettleRun,
      EnqueueFollowUp, FinishRun, Requeue, Refresh
  <2>2. QED
    BY <2>1
<1>15. QED
  BY <1>6, <1>7, <1>8, <1>9, <1>10, <1>11, <1>12, <1>13, <1>14, NeverRefused
    DEF Worker, Attempt, Aftermath

\* A heartbeat stays with its agent.
LEMMA BeatAgents ==
  ASSUME CustodyInv, Undisturbed, NEW w \in Workers, Worker(w),
         NEW h \in Beats, beat[h].status # "absent"
  PROVE  beat'[h].agent = beat[h].agent
<1>1. beat \in [Beats -> BeatRow]
  BY Tables DEF CustodyInv
<1>2. ASSUME NEW x, NEW s,
             \/ beat' = [beat EXCEPT ![x].status = s]
             \/ beat' = IF beat[x].status = "running" THEN [beat EXCEPT ![x].status = s] ELSE beat
             \/ beat' = [beat EXCEPT ![x].locked = s]
      PROVE  beat'[h].agent = beat[h].agent
  BY <1>1, <1>2 DEF BeatRow
<1>3. CASE OpenBeat(w)
  BY <1>1, <1>3 DEF OpenBeat, AbsentBeats
<1>4. CASE AcquireLock(w)
  BY <1>2, <1>4 DEF AcquireLock
<1>5. CASE Complete(w) \/ Delegate(w) \/ Handoff(w) \/ Fail(w) \/ Park(w)
  <2>1. inv[w].pc \in Holding
    BY <1>5 DEF Complete, Delegate, Handoff, Fail, Park, Holding
  <2>2. CASE Complete(w)
    BY <1>2, <2>1, <2>2, NeverSettled DEF Complete
  <2>3. CASE Delegate(w)
    BY <1>2, <2>3 DEF Delegate
  <2>4. CASE Handoff(w)
    BY <1>2, <2>4 DEF Handoff
  <2>5. CASE Fail(w)
    BY <1>2, <2>1, <2>5, NeverSettled DEF Fail
  <2>6. CASE Park(w)
    BY <1>2, <2>1, <2>6, NeverSettled DEF Park
  <2>7. QED
    BY <1>5, <2>2, <2>3, <2>4, <2>5, <2>6
<1>6. CASE FailScolded(w)
  BY <1>2, <1>6 DEF FailScolded
<1>7. CASE CheckCurrent(w) \/ AdapterReturns(w) \/ PersistProducts(w)
  <2>1. inv[w].pc \in Holding
    BY <1>7 DEF CheckCurrent, AdapterReturns, PersistProducts, Holding
  <2>2. UNCHANGED beat
    BY <1>7, <2>1, NeverSettled DEF CheckCurrent, AdapterReturns, PersistProducts
  <2>3. QED
    BY <2>2
<1>8. CASE ClaimRun(w) \/ ChooseAgent(w) \/ RefuseDispatch(w) \/ ClaimCapacity(w) \/ LinkBeat(w)
           \/ RecoverParked(w) \/ Scold(w) \/ FreeScolded(w) \/ SettleRun(w) \/ EnqueueFollowUp(w)
           \/ FinishRun(w) \/ Requeue(w) \/ Refresh(w)
  BY <1>8 DEF ClaimRun, ChooseAgent, RefuseDispatch, ClaimCapacity, LinkBeat, RecoverParked, Scold,
    FreeScolded, SettleRun, EnqueueFollowUp, FinishRun, Requeue, Refresh
<1>9. QED
  BY <1>3, <1>4, <1>5, <1>6, <1>7, <1>8, NeverRefused DEF Worker, Admission, Attempt, Aftermath

\* A slot keeps its agents and its heartbeat, but where it claims, chooses, opens or ends.
LEMMA SlotAgents ==
  ASSUME CustodyInv, Undisturbed, NEW w \in Workers, Worker(w),
         ~ClaimRun(w), ~ChooseAgent(w), ~OpenBeat(w), ~Refresh(w)
  PROVE  /\ inv[w].pc \notin {"idle", "claimed"}
         /\ inv'[w].owner = inv[w].owner /\ inv'[w].agent = inv[w].agent
         /\ inv'[w].beat = inv[w].beat /\ inv'[w].card = inv[w].card
         /\ inv'[w].pc \notin {"idle", "claimed"}
         /\ inv'[w].pc \in Fresh \cup {"opened"} => inv[w].pc \in Fresh
<1> DEFINE Same == /\ inv'[w].owner = inv[w].owner /\ inv'[w].agent = inv[w].agent
                   /\ inv'[w].beat = inv[w].beat /\ inv'[w].card = inv[w].card
<1>1. inv \in [Workers -> Invocation] /\ inv[w] \in Invocation
  BY Tables DEF CustodyInv
<1>2. ASSUME NEW p, NEW s, NEW b,
             \/ inv' = [inv EXCEPT ![w].pc = p]
             \/ inv' = [inv EXCEPT ![w].pc = p, ![w].verdict = s]
             \/ inv' = [inv EXCEPT ![w].pc = p, ![w].verdict = s, ![w].follow = b]
             \/ inv' = [inv EXCEPT ![w].pc = p, ![w].view = s]
             \/ inv' = [inv EXCEPT ![w].pc = p, ![w].outcome = s]
      PROVE  Same /\ inv'[w].pc = p
  BY <1>1, <1>2 DEF Invocation
<1> HIDE DEF Same
<1>3. CASE ClaimCapacity(w)
  <2>1. inv[w].pc = "chosen" /\ Same /\ inv'[w].pc \in {"admitted", "error"}
    BY <1>2, <1>3 DEF ClaimCapacity, Goto
  <2>2. QED
    BY <2>1 DEF Same, Fresh
<1>4. CASE LinkBeat(w) \/ AcquireLock(w)
  <2>1. PICK s : \/ inv[w].pc = "opened" /\ inv' = [inv EXCEPT ![w].pc = "linked"]
                 \/ inv[w].pc = "linked" /\ inv' = [inv EXCEPT ![w].pc = "locked", ![w].view = s]
    BY <1>4 DEF LinkBeat, AcquireLock, Goto
  <2>2. inv[w].pc \in {"opened", "linked"} /\ Same /\ inv'[w].pc \in {"linked", "locked"}
    BY <1>2, <2>1
  <2>3. QED
    BY <2>2 DEF Same, Fresh
<1>5. CASE CheckCurrent(w) \/ AdapterReturns(w) \/ PersistProducts(w)
  <2>1. inv[w].pc \in Holding
    BY <1>5 DEF CheckCurrent, AdapterReturns, PersistProducts, Holding
  <2>2. Same /\ inv'[w].pc \in Holding
    BY <1>2, <1>5, <2>1, NeverSettled DEF CheckCurrent, AdapterReturns, PersistProducts, Goto, Holding
  <2>3. QED
    BY <2>1, <2>2 DEF Same, Fresh, Holding
<1>6. CASE Complete(w) \/ Delegate(w) \/ Handoff(w) \/ Fail(w) \/ Park(w) \/ Scold(w)
  <2>1. inv[w].pc \in Holding
    BY <1>6 DEF Complete, Delegate, Handoff, Fail, Park, Scold, Holding
  <2>2. CASE Complete(w)
    <3>1. PICK p \in {"following", "worked"} : inv' = [inv EXCEPT ![w].pc = p]
      BY <2>1, <2>2, NeverSettled DEF Complete
    <3>2. QED
      BY <1>2, <2>1, <3>1 DEF Same, Fresh, Holding
  <2>3. CASE Delegate(w) \/ Fail(w)
    <3>1. PICK s : inv' = [inv EXCEPT ![w].pc = "settling", ![w].verdict = s]
      BY <2>1, <2>3, NeverSettled DEF Delegate, Fail
    <3>2. Same /\ inv'[w].pc = "settling"
      BY <1>2, <3>1
    <3>3. QED
      BY <3>2, <2>1 DEF Same, Fresh, Holding
  <2>4. CASE Handoff(w)
    <3>1. inv' = [inv EXCEPT ![w].pc = "settling", ![w].verdict = "success", ![w].follow = TRUE]
      BY <2>4 DEF Handoff
    <3>2. Same /\ inv'[w].pc = "settling"
      BY <1>2, <3>1
    <3>3. QED
      BY <3>2, <2>1 DEF Same, Fresh, Holding
  <2>5. CASE Park(w)
    <3>1. PICK s : inv' = [inv EXCEPT ![w].pc = "parked", ![w].view = s]
      BY <2>1, <2>5, NeverSettled DEF Park
    <3>2. Same /\ inv'[w].pc = "parked"
      BY <1>2, <3>1
    <3>3. QED
      BY <3>2, <2>1 DEF Same, Fresh, Holding
  <2>6. CASE Scold(w)
    <3>1. PICK b :
            \/ inv' = [inv EXCEPT ![w].pc = "scolded", ![w].verdict = "failed", ![w].follow = b]
            \/ inv' = [inv EXCEPT ![w].pc = "settling", ![w].verdict = "failed"]
      BY <2>6 DEF Scold
    <3>2. CASE inv' = [inv EXCEPT ![w].pc = "scolded", ![w].verdict = "failed", ![w].follow = b]
      <4>1. Same /\ inv'[w].pc = "scolded"
        BY <1>2, <3>2
      <4>2. QED
        BY <2>1, <4>1 DEF Same, Fresh, Holding
    <3>3. CASE inv' = [inv EXCEPT ![w].pc = "settling", ![w].verdict = "failed"]
      <4>1. Same /\ inv'[w].pc = "settling"
        BY <1>2, <3>3
      <4>2. QED
        BY <2>1, <4>1 DEF Same, Fresh, Holding
    <3>4. QED
      BY <3>1, <3>2, <3>3
  <2>7. QED
    BY <1>6, <2>2, <2>3, <2>4, <2>5, <2>6
<1>7. CASE RecoverParked(w) \/ FreeScolded(w) \/ FailScolded(w) \/ SettleRun(w)
  <2>1. inv[w].pc \in Reported /\ Same /\ inv'[w].pc \in {"settling", "freed", "following", "worked"}
    BY <1>2, <1>7 DEF RecoverParked, FreeScolded, FailScolded, SettleRun, Goto, Reported
  <2>2. QED
    BY <2>1 DEF Same, Fresh, Reported
<1>8. CASE EnqueueFollowUp(w) \/ FinishRun(w) \/ Requeue(w)
  <2>1. /\ inv[w].pc \in {"following", "worked", "error"} /\ Same
        /\ inv'[w].pc \in {"worked", "refreshing"}
    BY <1>2, <1>8 DEF EnqueueFollowUp, FinishRun, Requeue, Goto
  <2>2. QED
    BY <2>1 DEF Same, Fresh
<1>9. ~RefuseDispatch(w)
  BY ClaimedCard DEF RefuseDispatch, Undisturbed, Fresh
<1>10. QED
  BY <1>3, <1>4, <1>5, <1>6, <1>7, <1>8, <1>9, NeverRefused DEF Worker, Admission, Attempt, Aftermath

\* Which runs a worker's step leaves active: a new one is of its card's assignee.
LEMMA ActiveAgents ==
  ASSUME CustodyInv, Undisturbed, FlagsLookedAfter, NEW w \in Workers, Worker(w),
         NEW r \in Runs, run'[r].status \in Active
  PROVE  \/ /\ run[r].status \in Active /\ run'[r].agent = run[r].agent
            /\ run'[r].card = run[r].card
            /\ ~(inv[w].pc = "settling" /\ inv[w].run = r)
         \/ UNCHANGED card /\ run'[r].agent = card[run'[r].card].assignee
<1>1. run \in [Runs -> RunRow] /\ inv \in [Workers -> Invocation] /\ inv[w] \in Invocation
  BY Tables DEF CustodyInv
<1>2. CASE UNCHANGED run /\ inv[w].pc # "settling"
  BY <1>2
<1>3. CASE ClaimRun(w)
  <2>1. PICK q \in Runs : run[q].status = "queued" /\ run' = [run EXCEPT ![q].status = "running"]
                          /\ inv[w].pc = "idle"
    BY <1>3 DEF ClaimRun
  <2>2. QED
    BY <1>1, <2>1 DEF RunRow, Active
<1>4. CASE LinkBeat(w)
  <2>1. /\ run' = [run EXCEPT ![inv[w].run].beat = inv[w].beat, ![inv[w].run].agent = inv[w].agent]
        /\ inv[w].pc = "opened" /\ UNCHANGED card
    BY <1>4 DEF LinkBeat
  <2>2. inv[w].run \in Runs /\ run[inv[w].run].card = inv[w].card
    BY <2>1, OnlyRun DEF Working, PreLock
  <2>3. inv[w].agent = card[inv[w].card].assignee
    BY <2>1 DEF FlagsLookedAfter, RecountsItsAgent
  <2>4. CASE r = inv[w].run
    <3>1. run'[r].agent = inv[w].agent /\ run'[r].card = run[r].card
      BY <1>1, <2>1, <2>2, <2>4 DEF RunRow
    <3>2. QED
      BY <2>1, <2>2, <2>3, <2>4, <3>1
  <2>5. CASE r # inv[w].run
    <3>1. run'[r] = run[r]
      BY <1>1, <2>1, <2>5
    <3>2. QED
      BY <2>1, <3>1
  <2>6. QED
    BY <2>4, <2>5
<1>5. CASE Complete(w) \/ SettleRun(w) \/ FinishRun(w)
  <2>1. /\ SlotsBut(w) /\ (Concludes(w) \/ Advances(w))
    BY <1>5, CompleteSteps, SettleSteps, AfterSteps
  <2>2. CASE Advances(w)
    BY <2>2, <1>2 DEF Advances, Fresh, Holding
  <2>3. CASE Concludes(w)
    <3>1. inv[w].run \in Runs /\ RunsBut(inv[w].run) /\ run'[inv[w].run].agent = run[inv[w].run].agent
          /\ run'[inv[w].run].card = run[inv[w].run].card
      BY <2>3, ResultRefs DEF Concludes
    <3>2. r # inv[w].run
      <4>1. SUFFICES ASSUME r = inv[w].run PROVE FALSE
        OBVIOUS
      <4>2. inv'[w].pc \notin Reported
        <5>1. CASE SettleRun(w)
          <6>1. \E p \in {"following", "worked"} : Goto(w, p)
            BY <5>1 DEF SettleRun
          <6>2. QED
            BY <1>1, <6>1 DEF Goto, Reported
        <5>2. CASE Complete(w)
          <6>1. inv[w].pc \in Holding
            BY <5>2 DEF Complete, Holding
          <6>2. \E p \in {"following", "worked"} : Goto(w, p)
            BY <5>2, <6>1, NeverSettled DEF Complete, Goto
          <6>3. QED
            BY <1>1, <6>2 DEF Goto, Reported
        <5>3. CASE FinishRun(w)
          BY <2>3, <5>3 DEF FinishRun, Concludes, Holding, Reported
        <5>4. QED
          BY <1>5, <5>1, <5>2, <5>3
      <4>3. QED
        BY <2>3, <4>1, <4>2 DEF Concludes, Ended, Active
    <3>3. QED
      BY <3>1, <3>2 DEF RunsBut
  <2>4. QED
    BY <2>1, <2>2, <2>3
<1>6. CASE EnqueueFollowUp(w)
  <2>1. inv[w].pc = "following" /\ UNCHANGED card /\ Enqueue(inv[w].card)
    BY <1>6 DEF EnqueueFollowUp
  <2>2. CASE run' = run
    BY <2>1, <2>2
  <2>3. CASE /\ AbsentRuns # {}
             /\ run' = [run EXCEPT ![CHOOSE q \in AbsentRuns : TRUE] = NewRun(inv[w].card)]
    <3>1. PICK q \in Runs : run' = [run EXCEPT ![q] = NewRun(inv[w].card)]
      BY <2>3 DEF AbsentRuns
    <3>2. CASE r = q
      <4>1. run'[r] = NewRun(inv[w].card)
        BY <1>1, <3>1, <3>2
      <4>2. QED
        BY <2>1, <4>1 DEF NewRun
    <3>3. CASE r # q
      BY <1>1, <2>1, <3>1, <3>3
    <3>4. QED
      BY <3>2, <3>3
  <2>4. QED
    BY <2>1, <2>2, <2>3 DEF Enqueue
<1>7. CASE Requeue(w)
  <2>1. inv[w].pc = "error" /\ (run' = run \/ run' = [run EXCEPT ![inv[w].run].status = "queued"])
    BY <1>7 DEF Requeue
  <2>2. run[inv[w].run].status = "running" /\ inv[w].run \in Runs
    BY <2>1, OnlyRun DEF Working, PreLock, Fresh
  <2>3. QED
    BY <1>1, <2>1, <2>2 DEF RunRow, Active
<1>8. CASE ChooseAgent(w) \/ ClaimCapacity(w) \/ OpenBeat(w)
           \/ AcquireLock(w) \/ RecoverParked(w) \/ Scold(w) \/ FreeScolded(w)
           \/ FailScolded(w) \/ Refresh(w) \/ Delegate(w) \/ Handoff(w)
  <2>1. UNCHANGED run /\ inv[w].pc # "settling"
    BY <1>8 DEF ChooseAgent, ClaimCapacity, OpenBeat, AcquireLock,
      RecoverParked, Scold, FreeScolded, FailScolded, Refresh, Delegate, Handoff
  <2>2. QED
    BY <1>2, <2>1
<1>9. CASE CheckCurrent(w) \/ AdapterReturns(w) \/ PersistProducts(w) \/ Fail(w) \/ Park(w)
  <2>1. inv[w].pc \in Holding
    BY <1>9 DEF CheckCurrent, AdapterReturns, PersistProducts, Fail, Park, Holding
  <2>2. UNCHANGED run
    BY <1>9, <2>1, NeverSettled DEF CheckCurrent, AdapterReturns, PersistProducts, Fail, Park
  <2>3. QED
    BY <1>2, <2>1, <2>2 DEF Holding
<1>10. ~RefuseDispatch(w)
  BY ClaimedCard DEF RefuseDispatch, Undisturbed, Fresh
<1>11. QED
  BY <1>3, <1>4, <1>5, <1>6, <1>7, <1>8, <1>9, <1>10, NeverRefused DEF Worker, Admission, Attempt, Aftermath

\* Runs stay with the assignees of their cards, until a handoff is settled.
LEMMA WorkerRunAgents ==
  ASSUME CustodyInv, Undisturbed, FlagsLookedAfter, NEW w \in Workers, Worker(w), CustodyInv'
  PROVE  RunAgents'
<1> SUFFICES ASSUME NEW r \in Runs, run'[r].status \in Active
             PROVE  \/ run'[r].agent = card'[run'[r].card].assignee
                    \/ \E v \in Workers : inv'[v].pc = "settling" /\ inv'[v].run = r
  BY DEF RunAgents
<1>1. SlotsBut(w)
  BY WorkerKinds DEF WorkerKind
<1>2. CASE UNCHANGED card /\ run'[r].agent = card[run'[r].card].assignee
  BY <1>2
<1>3. CASE /\ run[r].status \in Active /\ run'[r].agent = run[r].agent /\ run'[r].card = run[r].card
           /\ ~(inv[w].pc = "settling" /\ inv[w].run = r)
  <2>1. CASE \E v \in Workers : inv[v].pc = "settling" /\ inv[v].run = r
    BY <1>1, <1>3, <2>1 DEF SlotsBut
  <2>2. CASE run[r].agent = card[run[r].card].assignee
    <3>1. run[r].card \in Cards
      BY <1>3 DEF CustodyInv, LeaseInv, Rows, RunRows, Active
    <3>2. CASE card'[run[r].card].assignee = card[run[r].card].assignee
      BY <1>3, <2>2, <3>2
    <3>3. CASE run[r].card = inv[w].card /\ inv[w].pc = "accepted" /\ inv'[w].pc = "settling"
      <4>1. r = inv[w].run
        BY <1>3, <3>3, OnlyRun DEF Working, Holding
      <4>2. inv'[w].run = inv[w].run
        BY <3>3, WorkerKinds DEF WorkerKind, Advances, Claims, Opens, Links, Acquires, Concludes,
          Follows, Requeues, Rests, Stays, Fresh, Holding
      <4>3. QED
        BY <3>3, <4>1, <4>2
    <3>4. QED
      BY <3>1, <3>2, <3>3, Assignees
  <2>3. QED
    BY <1>3, <2>1, <2>2 DEF FlagsLookedAfter, RunAgents
<1>4. QED
  BY <1>2, <1>3, ActiveAgents

\* An invocation keeps the agent it recounts.
LEMMA WorkerRecounts ==
  ASSUME CustodyInv, Undisturbed, FlagsLookedAfter, NEW w \in Workers, Worker(w), CustodyInv',
         NEW v \in Workers
  PROVE  RecountsItsAgent(inv[v])'
<1>1. inv[v] \in Invocation /\ inv \in [Workers -> Invocation] /\ card \in [Cards -> CardRow]
      /\ beat \in [Beats -> BeatRow] /\ RecountsItsAgent(inv[v])
  BY Tables DEF CustodyInv, FlagsLookedAfter
<1>2. inv[v].beat # None => /\ inv[v].beat \in Beats /\ beat[inv[v].beat].status # "absent"
                            /\ beat'[inv[v].beat].agent = beat[inv[v].beat].agent
  <2>1. inv[v].beat # None => inv[v].beat \in Beats /\ beat[inv[v].beat].status # "absent"
    BY SlotRefs DEF CustodyInv, LeaseInv, OwnBeats
  <2>2. QED
    BY <2>1, BeatAgents
<1>3. CASE v # w
  <2>1. inv'[v] = inv[v]
    BY <1>3, WorkerKinds DEF WorkerKind, SlotsBut
  <2>2. inv[v].pc \in Fresh \cup {"opened"} => card'[inv[v].card].assignee = card[inv[v].card].assignee
    <3>1. SUFFICES ASSUME inv[v].pc \in Fresh \cup {"opened"}
                   PROVE  card'[inv[v].card].assignee = card[inv[v].card].assignee
      OBVIOUS
    <3>2. inv[v].card \in Cards /\ inv[v].pc \in Working
      BY <3>1, SlotRefs DEF CustodyInv, Working, PreLock, Fresh
    <3>3. inv[w].pc = "accepted" => inv[v].card # inv[w].card
      BY <1>3, <3>2, WorkersApart DEF Working, Holding
    <3>4. QED
      BY <3>2, <3>3, Assignees
  <2>3. QED
    BY <1>1, <1>2, <2>1, <2>2 DEF RecountsItsAgent
<1>4. CASE v = w
  <2>1. CASE ClaimRun(w)
    <3>1. PICK r \in Runs :
            /\ inv[w].pc = "idle" /\ run[r].status = "queued" /\ UNCHANGED card
            /\ inv' = [inv EXCEPT ![w] = [Resting EXCEPT !.pc = "claimed", !.run = r,
                                             !.card = run[r].card, !.owner = run[r].agent]]
      BY <2>1 DEF ClaimRun
    <3>2. /\ inv'[w].pc = "claimed" /\ inv'[w].owner = run[r].agent /\ inv'[w].card = run[r].card
          /\ inv'[w].beat = None
      <4>1. inv'[w] = [Resting EXCEPT !.pc = "claimed", !.run = r, !.card = run[r].card,
                                      !.owner = run[r].agent]
        BY <1>1, <3>1
      <4>2. QED
        BY <4>1 DEF Resting
    <3>3. \A u \in Workers : ~(inv[u].pc = "settling" /\ inv[u].run = r)
      BY <3>1, OnlyRun DEF Working, Reported
    <3>4. run[r].agent = card[run[r].card].assignee
      BY <3>1, <3>3 DEF FlagsLookedAfter, RunAgents, Active
    <3>5. run[r].card \in Cards
      BY <3>1 DEF CustodyInv, LeaseInv, Rows, RunRows
    <3>6. card[run[r].card].assignee \in Agents
      BY <1>1, <3>5 DEF CardRow
    <3>7. QED
      BY <1>4, <3>1, <3>2, <3>4, <3>6 DEF RecountsItsAgent, Fresh
  <2>2. CASE ChooseAgent(w)
    <3>1. /\ inv[w].pc = "claimed" /\ UNCHANGED <<card, beat>>
          /\ \E p \in {"error", "chosen"} :
               inv' = [inv EXCEPT ![w].pc = p, ![w].agent = card[inv[w].card].assignee]
      BY <2>2 DEF ChooseAgent
    <3>2. /\ inv'[w].pc \in {"error", "chosen"} /\ inv'[w].agent = card[inv[w].card].assignee
          /\ inv'[w].owner = inv[w].owner /\ inv'[w].card = inv[w].card /\ inv'[w].beat = inv[w].beat
      BY <1>1, <1>4, <3>1 DEF Invocation
    <3>3. QED
      BY <1>1, <1>4, <3>1, <3>2 DEF RecountsItsAgent, Fresh
  <2>3. CASE OpenBeat(w)
    <3>1. PICK h \in Beats :
            /\ inv[w].pc = "admitted" /\ UNCHANGED card
            /\ beat' = [beat EXCEPT ![h] = [status |-> "running", card |-> inv[w].card,
                                            agent |-> inv[w].agent, locked |-> FALSE]]
            /\ inv' = [inv EXCEPT ![w].pc = "opened", ![w].beat = h]
      BY <2>3 DEF OpenBeat, AbsentBeats
    <3>2. /\ inv'[w].pc = "opened" /\ inv'[w].beat = h /\ inv'[w].agent = inv[w].agent
          /\ inv'[w].owner = inv[w].owner /\ inv'[w].card = inv[w].card
      BY <1>1, <1>4, <3>1 DEF Invocation
    <3>3. beat'[h].agent = inv[w].agent
      BY <1>1, <3>1
    <3>4. QED
      BY <1>1, <1>4, <3>1, <3>2, <3>3 DEF RecountsItsAgent, Fresh
  <2>4. CASE Refresh(w)
    <3>1. inv'[w] = Resting
      BY <1>1, <2>4 DEF Refresh
    <3>2. QED
      BY <1>4, <3>1 DEF RecountsItsAgent, Resting, Fresh
  <2>5. CASE ~ClaimRun(w) /\ ~ChooseAgent(w) /\ ~OpenBeat(w) /\ ~Refresh(w)
    <3>1. /\ inv[w].pc \notin {"idle", "claimed"}
          /\ inv'[w].owner = inv[w].owner /\ inv'[w].agent = inv[w].agent
          /\ inv'[w].beat = inv[w].beat /\ inv'[w].card = inv[w].card
          /\ inv'[w].pc \notin {"idle", "claimed"}
          /\ inv'[w].pc \in Fresh \cup {"opened"} => inv[w].pc \in Fresh
      BY <2>5, SlotAgents
    <3>2. inv'[w].pc \in Fresh \cup {"opened"} =>
            card'[inv[w].card].assignee = card[inv[w].card].assignee
      <4>1. inv'[w].pc # "settling" \/ inv'[w].pc \notin Fresh \cup {"opened"}
        BY DEF Fresh
      <4>2. inv[w].card \in Cards
        BY <3>1, SlotRefs DEF CustodyInv
      <4>3. QED
        BY <4>1, <4>2, Assignees
    <3>3. QED
      BY <1>1, <1>2, <1>4, <3>1, <3>2 DEF RecountsItsAgent
  <2>6. QED
    BY <2>1, <2>2, <2>3, <2>4, <2>5
<1>5. QED
  BY <1>3, <1>4

\* A worker's step locks its own card, or unlocks it when its attempt ends.
LEMMA WorkerLocksHeld ==
  ASSUME CustodyInv, LocksHeld, NEW w \in Workers, WorkerKind(w)
  PROVE  LocksHeld'
<1>1. tick' = tick /\ SlotsBut(w)
  BY DEF WorkerKind
<1> SUFFICES ASSUME NEW c \in Cards, card'[c].lock # None
             PROVE  \E v \in Workers : inv'[v].pc \in Holding /\ inv'[v].card = c
  BY <1>1 DEF LocksHeld
<1>2. CASE Acquires(w)
  <2>1. CASE c = inv[w].card
    BY <1>2, <2>1 DEF Acquires, Stays, Holding
  <2>2. CASE c # inv[w].card
    <3>1. card[c].lock # None
      BY <1>2, <2>2 DEF Acquires, CardsBut
    <3>2. PICK v \in Workers : inv[v].pc \in Holding /\ inv[v].card = c
      BY <3>1 DEF LocksHeld
    <3>3. QED
      BY <1>1, <2>2, <3>2 DEF SlotsBut
  <2>3. QED
    BY <2>1, <2>2
<1>3. CASE Concludes(w)
  <2>1. c # inv[w].card
    BY <1>3 DEF Concludes
  <2>2. card[c].lock # None
    BY <1>3, <2>1 DEF Concludes, CardsBut
  <2>3. PICK v \in Workers : inv[v].pc \in Holding /\ inv[v].card = c
    BY <2>2 DEF LocksHeld
  <2>4. QED
    BY <1>1, <2>1, <2>3 DEF SlotsBut
<1>4. CASE Advances(w)
  <2>1. PICK v \in Workers : inv[v].pc \in Holding /\ inv[v].card = c
    BY <1>4 DEF LocksHeld, Advances
  <2>2. CASE v = w
    BY <1>4, <2>1, <2>2 DEF Advances, Stays, Fresh, Holding
  <2>3. CASE v # w
    BY <1>1, <2>1, <2>3 DEF SlotsBut
  <2>4. QED
    BY <2>2, <2>3
<1>5. CASE Claims(w) \/ Opens(w) \/ Links(w) \/ Follows(w) \/ Requeues(w) \/ Rests(w)
  <2>1. UNCHANGED card /\ inv[w].pc \notin Holding
    BY <1>5 DEF Claims, Opens, Links, Follows, Requeues, Rests, Holding
  <2>2. PICK v \in Workers : inv[v].pc \in Holding /\ inv[v].card = c
    BY <2>1 DEF LocksHeld
  <2>3. QED
    BY <1>1, <2>1, <2>2 DEF SlotsBut
<1>6. QED
  BY <1>2, <1>3, <1>4, <1>5 DEF WorkerKind

\* What a busy agent has before a step of slot w it has after it, if the slot leaves the
\* heartbeats of the agent running or recounts it, and hands its recount on.
LEMMA FlagFrame ==
  ASSUME FlagsLookedAfter, NEW w \in Workers, SlotsBut(w), NEW a \in Agents, busy[a],
         \/ \A h \in Beats : beat[h].status = "running" /\ beat[h].agent = a =>
              beat'[h].status = "running" /\ beat'[h].agent = a
         \/ Recounts(inv'[w], a),
         Recounts(inv[w], a) => HasBeat(a)' \/ Recounts(inv'[w], a)
  PROVE  HasBeat(a)' \/ \E v \in Workers : Recounts(inv'[v], a)
<1>1. CASE HasBeat(a)
  BY <1>1 DEF HasBeat
<1>2. CASE \E v \in Workers : Recounts(inv[v], a)
  <2>1. PICK v \in Workers : Recounts(inv[v], a)
    BY <1>2
  <2>2. v # w => inv'[v] = inv[v]
    BY DEF SlotsBut
  <2>3. QED
    BY <2>1, <2>2
<1>3. QED
  BY <1>1, <1>2 DEF FlagsLookedAfter

\* A slot that ends its heartbeat, if at all, goes on to the recount of its agent.
LEMMA EndedFlags ==
  ASSUME CustodyInv, Undisturbed, FlagsLookedAfter, NEW w \in Workers, Worker(w), CustodyInv',
         inv[w].pc \in Holding \cup Reported,
         BeatsBut(inv[w].beat), inv'[w].owner = inv[w].owner,
         \/ inv'[w].pc \in Recounting
         \/ UNCHANGED beat /\ inv[w].pc \notin Recounting,
         NEW a \in Agents, busy[a]
  PROVE  HasBeat(a)' \/ \E v \in Workers : Recounts(inv'[v], a)
<1>1. SlotsBut(w)
  BY WorkerKinds DEF WorkerKind
<1>2. beat[inv[w].beat].agent = inv[w].owner /\ inv[w].beat \in Beats
  BY ResultRefs, Tables DEF CustodyInv, FlagsLookedAfter, RecountsItsAgent
<1>3. CASE inv'[w].pc \in Recounting /\ inv[w].owner = a
  BY <1>1, <1>3, FlagFrame DEF Recounts
<1>4. CASE inv[w].owner # a
  <2>1. \A h \in Beats : beat[h].status = "running" /\ beat[h].agent = a =>
          beat'[h].status = "running" /\ beat'[h].agent = a
    BY <1>2, <1>4 DEF BeatsBut
  <2>2. ~Recounts(inv[w], a)
    BY <1>4 DEF Recounts
  <2>3. QED
    BY <1>1, <2>1, <2>2, FlagFrame
<1>5. CASE UNCHANGED beat /\ inv[w].pc \notin Recounting
  BY <1>1, <1>5, FlagFrame DEF Recounts
<1>6. QED
  BY <1>3, <1>4, <1>5

\* A result frees its agent, or leaves the flags alone, and goes on to the recount.
LEMMA ResultFlags ==
  ASSUME CustodyInv, Undisturbed, FlagsLookedAfter, NEW w \in Workers, Worker(w), CustodyInv',
         inv[w].pc \in Holding \cup Reported, NEW a \in Agents, busy'[a]
  PROVE  HasBeat(a)' \/ \E v \in Workers : Recounts(inv'[v], a)
<1>0. busy \in [Agents -> BOOLEAN] /\ inv \in [Workers -> Invocation] /\ inv[w] \in Invocation
      /\ beat \in [Beats -> BeatRow]
  BY Tables DEF CustodyInv, LeaseInv, Rows, TypeOK
<1>1. SlotsBut(w)
  BY WorkerKinds DEF WorkerKind
<1>2. inv[w].beat \in Beats /\ inv[w].agent = inv[w].owner /\ inv[w].owner \in Agents
      /\ beat[inv[w].beat].agent = inv[w].owner
  BY ResultRefs, Tables DEF CustodyInv, FlagsLookedAfter, RecountsItsAgent, Holding, Reported
<1>3. ~ClaimRun(w) /\ ~ChooseAgent(w) /\ ~OpenBeat(w) /\ ~Refresh(w)
  BY DEF ClaimRun, ChooseAgent, OpenBeat, Refresh, Holding, Reported
<1>4. inv'[w].owner = inv[w].owner
  BY <1>3, SlotAgents
<1>5. BeatsBut(inv[w].beat)
  BY WorkerKinds DEF WorkerKind, Advances, Claims, Opens, Links, Acquires, Concludes, Follows, Requeues,
    Rests, BeatsBut, Fresh, Holding, Reported
<1>6. ASSUME busy' = busy \/ busy' = [busy EXCEPT ![inv[w].agent] = FALSE],
             \/ inv'[w].pc \in Recounting
             \/ UNCHANGED beat /\ inv[w].pc \notin Recounting
      PROVE  HasBeat(a)' \/ \E v \in Workers : Recounts(inv'[v], a)
  <2>1. busy[a]
    BY <1>0, <1>2, <1>6
  <2>2. QED
    BY <1>4, <1>5, <1>6, <2>1, EndedFlags
<1>7. CASE CheckCurrent(w) \/ AdapterReturns(w) \/ PersistProducts(w)
  <2>1. inv[w].pc \in Holding
    BY <1>7 DEF CheckCurrent, AdapterReturns, PersistProducts, Holding
  <2>2. UNCHANGED <<beat, busy>>
    BY <1>7, <2>1, NeverSettled DEF CheckCurrent, AdapterReturns, PersistProducts
  <2>3. QED
    BY <1>6, <2>1, <2>2 DEF Holding, Recounting
<1>8. CASE Complete(w)
  <2>1. inv[w].pc \in Holding
    BY <1>8 DEF Complete, Holding
  <2>2. PICK p \in {"following", "worked"} :
          inv' = [inv EXCEPT ![w].pc = p] /\ busy' = [busy EXCEPT ![inv[w].agent] = FALSE]
    BY <1>8, <2>1, NeverSettled DEF Complete
  <2>3. inv'[w].pc = p
    BY <1>0, <2>2
  <2>4. QED
    BY <1>6, <2>2, <2>3 DEF Recounting
<1>9. CASE Delegate(w) \/ Handoff(w) \/ Fail(w)
  <2>1. inv[w].pc \in Holding
    BY <1>9 DEF Delegate, Handoff, Fail, Holding
  <2>2. busy' = [busy EXCEPT ![inv[w].agent] = FALSE]
    BY <1>9, <2>1, NeverSettled DEF Delegate, Handoff, Fail
  <2>3. PICK s, b : \/ inv' = [inv EXCEPT ![w].pc = "settling", ![w].verdict = s]
                    \/ inv' = [inv EXCEPT ![w].pc = "settling", ![w].verdict = s, ![w].follow = b]
    BY <1>9, <2>1, NeverSettled DEF Delegate, Handoff, Fail
  <2>4. inv'[w].pc = "settling"
    <3>1. CASE inv' = [inv EXCEPT ![w].pc = "settling", ![w].verdict = s]
      BY <1>0, <3>1
    <3>2. CASE inv' = [inv EXCEPT ![w].pc = "settling", ![w].verdict = s, ![w].follow = b]
      BY <1>0, <3>2
    <3>3. QED
      BY <2>3, <3>1, <3>2
  <2>5. QED
    BY <1>6, <2>2, <2>4 DEF Recounting
<1>10. CASE Park(w)
  <2> DEFINE h == inv[w].beat
  <2>1. inv[w].pc \in Holding
    BY <1>10 DEF Park, Holding
  <2>2. busy' = IF RunningBeats(inv[w].agent) \ {h} = {} THEN [busy EXCEPT ![inv[w].agent] = FALSE]
                ELSE busy
    BY <1>10, <2>1, NeverSettled DEF Park
  <2>3. ~Recounts(inv[w], a)
    BY <2>1 DEF Recounts, Recounting, Holding
  <2>4. CASE a = inv[w].owner
    <3>1. RunningBeats(a) \ {h} # {}
      <4>1. busy' # [busy EXCEPT ![a] = FALSE] \/ ~busy'[a]
        BY <1>0
      <4>2. QED
        BY <1>2, <2>2, <2>4, <4>1
    <3>2. PICK x \in Beats \ {h} : beat[x].status = "running" /\ beat[x].agent = a
      BY <3>1 DEF RunningBeats
    <3>3. QED
      BY <1>5, <3>2 DEF HasBeat, BeatsBut
  <2>5. CASE a # inv[w].owner
    <3>1. busy[a]
      BY <1>0, <1>2, <2>2, <2>5
    <3>2. \A x \in Beats : beat[x].status = "running" /\ beat[x].agent = a =>
            beat'[x].status = "running" /\ beat'[x].agent = a
      BY <1>2, <1>5, <2>5 DEF BeatsBut
    <3>3. QED
      BY <1>1, <2>3, <3>1, <3>2, FlagFrame
  <2>6. QED
    BY <2>4, <2>5
<1>11. CASE Scold(w)
  BY <1>6, <1>11 DEF Scold, Recounting
<1>12. CASE RecoverParked(w)
  BY <1>6, <1>12 DEF RecoverParked, Recounting
<1>13. CASE FreeScolded(w)
  BY <1>6, <1>13 DEF FreeScolded, Recounting
<1>14. CASE FailScolded(w)
  <2>1. inv'[w].pc = "settling" /\ busy' = busy
    BY <1>0, <1>14 DEF FailScolded, Goto
  <2>2. QED
    BY <1>6, <2>1 DEF Recounting
<1>15. CASE SettleRun(w)
  <2>1. PICK p \in {"following", "worked"} : Goto(w, p)
    BY <1>15 DEF SettleRun
  <2>2. inv'[w].pc = p
    BY <2>1, SlotEnds DEF Goto, Ends
  <2>3. busy' = busy
    BY <1>15 DEF SettleRun
  <2>4. QED
    BY <1>6, <2>2, <2>3 DEF Recounting
<1>16. QED
  <2>1. ~Admission(w) /\ ~AcquireLock(w)
    BY DEF Admission, ClaimRun, ChooseAgent, RefuseDispatch, ClaimCapacity, OpenBeat, LinkBeat, AcquireLock,
      Holding, Reported
  <2>2. ~EnqueueFollowUp(w) /\ ~FinishRun(w) /\ ~Requeue(w) /\ ~Refresh(w)
    BY DEF EnqueueFollowUp, FinishRun, Requeue, Refresh, Holding, Reported
  <2>3. QED
    BY <1>7, <1>8, <1>9, <1>10, <1>11, <1>12, <1>13, <1>14, <1>15, <2>1, <2>2, NeverRefused
      DEF Worker, Attempt, Aftermath

\* A claim of capacity, the heartbeat, the lock and what follows the result keep the flags.
LEMMA WorkerFlags ==
  ASSUME CustodyInv, Undisturbed, FlagsLookedAfter, NEW w \in Workers, Worker(w), CustodyInv',
         NEW a \in Agents, busy'[a]
  PROVE  HasBeat(a)' \/ \E v \in Workers : Recounts(inv'[v], a)
<1>0. busy \in [Agents -> BOOLEAN] /\ inv \in [Workers -> Invocation] /\ inv[w] \in Invocation
      /\ beat \in [Beats -> BeatRow] /\ RecountsItsAgent(inv[w])
  BY Tables DEF CustodyInv, LeaseInv, Rows, TypeOK, FlagsLookedAfter
<1>1. SlotsBut(w)
  BY WorkerKinds DEF WorkerKind
<1>2. ASSUME UNCHANGED beat, busy[a], Recounts(inv[w], a) => Recounts(inv'[w], a)
      PROVE  HasBeat(a)' \/ \E v \in Workers : Recounts(inv'[v], a)
  BY <1>1, <1>2, FlagFrame
<1>3. CASE ClaimRun(w) \/ ChooseAgent(w) \/ LinkBeat(w)
  BY <1>2, <1>3 DEF ClaimRun, ChooseAgent, LinkBeat, Recounts, Recounting
<1>4. CASE ClaimCapacity(w)
  <2>1. inv[w].pc = "chosen" /\ inv[w].agent = inv[w].owner /\ UNCHANGED beat /\ inv[w].owner \in Agents
    BY <1>0, <1>4 DEF ClaimCapacity, RecountsItsAgent
  <2>2. ~Recounts(inv[w], a)
    BY <2>1 DEF Recounts, Recounting
  <2>3. CASE busy' = busy
    BY <1>2, <2>1, <2>2, <2>3
  <2>4. CASE /\ Goto(w, "admitted")
             /\ busy' = [busy EXCEPT ![inv[w].agent] =
                            Cardinality(RunningBeats(inv[w].agent)) + 1 >= MaxConcurrent]
    <3>1. inv'[w].pc = "admitted" /\ inv'[w].owner = inv[w].owner
      BY <1>0, <2>4 DEF Goto, Invocation
    <3>2. CASE a = inv[w].owner
      BY <3>1, <3>2 DEF Recounts, Recounting
    <3>3. CASE a # inv[w].owner
      <4>1. busy[a]
        BY <1>0, <2>1, <2>4, <3>3
      <4>2. QED
        BY <1>2, <2>1, <2>2, <4>1
    <3>4. QED
      BY <3>2, <3>3
  <2>5. QED
    BY <1>4, <2>3, <2>4 DEF ClaimCapacity
<1>5. CASE OpenBeat(w)
  <2>1. PICK h \in Beats :
          /\ beat[h].status = "absent" /\ inv[w].pc = "admitted" /\ UNCHANGED busy
          /\ beat' = [beat EXCEPT ![h] = [status |-> "running", card |-> inv[w].card,
                                          agent |-> inv[w].agent, locked |-> FALSE]]
    BY <1>5 DEF OpenBeat, AbsentBeats
  <2>2. beat'[h].status = "running" /\ beat'[h].agent = inv[w].owner
    BY <1>0, <2>1 DEF RecountsItsAgent
  <2>3. \A x \in Beats : beat[x].status = "running" /\ beat[x].agent = a =>
          beat'[x].status = "running" /\ beat'[x].agent = a
    BY <1>0, <2>1
  <2>4. Recounts(inv[w], a) => HasBeat(a)'
    BY <2>2 DEF Recounts, HasBeat
  <2>5. busy[a]
    BY <2>1
  <2>6. QED
    BY <1>1, <2>3, <2>4, <2>5, FlagFrame
<1>6. CASE AcquireLock(w)
  <2>1. /\ inv[w].pc = "linked" /\ UNCHANGED busy
        /\ beat' = [beat EXCEPT ![inv[w].beat].locked = TRUE]
    BY <1>6 DEF AcquireLock
  <2>2. \A x \in Beats : beat[x].status = "running" /\ beat[x].agent = a =>
          beat'[x].status = "running" /\ beat'[x].agent = a
    BY <1>0, <2>1 DEF BeatRow
  <2>3. ~Recounts(inv[w], a) /\ busy[a]
    BY <2>1 DEF Recounts, Recounting
  <2>4. QED
    BY <1>1, <2>2, <2>3, FlagFrame
<1>7. CASE EnqueueFollowUp(w) \/ FinishRun(w) \/ Requeue(w)
  <2>1. /\ UNCHANGED <<beat, busy>>
        /\ ~ClaimRun(w) /\ ~ChooseAgent(w) /\ ~OpenBeat(w) /\ ~Refresh(w)
    BY <1>7 DEF EnqueueFollowUp, FinishRun, Requeue, ClaimRun, ChooseAgent, OpenBeat, Refresh
  <2>2. inv'[w].owner = inv[w].owner
    BY <2>1, SlotAgents
  <2>3. inv'[w].pc \in {"worked", "refreshing"}
    BY <1>7, AfterSteps DEF Follows, Advances, Requeues, FinishRun, Fresh, Holding
  <2>4. QED
    BY <1>2, <2>1, <2>2, <2>3 DEF Recounts, Recounting
<1>8. CASE Refresh(w)
  <2>1. /\ inv[w].pc = "refreshing" /\ UNCHANGED beat
        /\ busy' = [busy EXCEPT ![inv[w].owner] = Refreshed(beat, inv[w].owner)]
    BY <1>8 DEF Refresh
  <2>2. CASE a = inv[w].owner
    <3> DEFINE hs == {h \in Beats : beat[h].status = "running" /\ beat[h].agent = a}
    <3>1. Cardinality(hs) >= MaxConcurrent
      BY <1>0, <2>1, <2>2 DEF Refreshed
    <3>2. MaxConcurrent >= 1
      BY LimitAssumption DEF LimitAssumption
    <3>3. hs # {}
      <4>1. SUFFICES ASSUME hs = {} PROVE FALSE
        OBVIOUS
      <4>2. Cardinality(hs) = 0
        BY <4>1, FS_EmptySet
      <4> HIDE DEF hs
      <4>3. QED
        BY <3>1, <3>2, <4>2, LimitAssumption DEF LimitAssumption
    <3>4. QED
      BY <2>1, <3>3 DEF HasBeat
  <2>3. CASE a # inv[w].owner
    <3>1. busy[a] /\ ~Recounts(inv[w], a)
      BY <1>0, <2>1, <2>3 DEF Recounts
    <3>2. QED
      BY <1>2, <2>1, <3>1
  <2>4. QED
    BY <2>2, <2>3
<1>9. CASE inv[w].pc \in Holding \cup Reported
  BY <1>9, ResultFlags
<1>10. ~RefuseDispatch(w)
  BY ClaimedCard DEF RefuseDispatch, Undisturbed, Fresh
<1>11. CASE CheckCurrent(w) \/ AdapterReturns(w) \/ PersistProducts(w) \/ Complete(w) \/ Delegate(w)
            \/ Handoff(w) \/ Fail(w) \/ Park(w) \/ RecoverParked(w) \/ Scold(w) \/ FreeScolded(w)
            \/ FailScolded(w) \/ SettleRun(w)
  BY <1>9, <1>11 DEF CheckCurrent, AdapterReturns, PersistProducts, Complete, Delegate, Handoff, Fail, Park,
    RecoverParked, Scold, FreeScolded, FailScolded, SettleRun, Holding, Reported
<1>12. QED
  BY <1>3, <1>4, <1>5, <1>6, <1>7, <1>8, <1>10, <1>11, NeverRefused
    DEF Worker, Admission, Attempt, Aftermath

\* A worker's step looks after the flags.
LEMMA WorkerFlagsLookedAfter ==
  ASSUME CustodyInv, Undisturbed, FlagsLookedAfter, NEW w \in Workers, Worker(w), CustodyInv'
  PROVE  FlagsLookedAfter'
<1>1. LocksHeld'
  BY WorkerKinds, WorkerLocksHeld DEF FlagsLookedAfter
<1>2. RunAgents' /\ \A v \in Workers : RecountsItsAgent(inv[v])'
  BY WorkerRunAgents, WorkerRecounts
<1>3. ASSUME NEW a \in Agents, busy'[a]
      PROVE  HasBeat(a)' \/ \E v \in Workers : Recounts(inv'[v], a)
  BY <1>3, WorkerFlags
<1>4. QED
  BY <1>1, <1>2, <1>3 DEF FlagsLookedAfter, Recounts

\* Only attempts have locks, and their locks do not expire.
LEMMA NoneExpired ==
  ASSUME CustodyInv, FlagsLookedAfter, NEW c \in Cards
  PROVE  ~card[c].expired /\ (card[c].lock # None => LiveHolder(c))
<1>1. CASE card[c].lock = None
  BY <1>1 DEF CustodyInv, LockedRuns
<1>2. CASE card[c].lock # None
  BY <1>2, HoldingFacts DEF FlagsLookedAfter, LocksHeld, LiveHolder
<1>3. QED
  BY <1>1, <1>2

\* What leaves heartbeats, flags, slots, cards and the active runs alone.
LEMMA StandingFlags ==
  ASSUME FlagsLookedAfter, UNCHANGED <<beat, busy, inv>>, tick'.stale = {}, tick'.now = None,
         \A c \in Cards : card'[c].lock = card[c].lock,
         \A c : card'[c].assignee = card[c].assignee,
         \A r \in Runs : run'[r].status \in Active =>
           \/ run'[r].agent = card[run'[r].card].assignee
           \/ run[r].status \in Active /\ run'[r].agent = run[r].agent /\ run'[r].card = run[r].card
  PROVE  FlagsLookedAfter'
<1>1. LocksHeld'
  BY DEF FlagsLookedAfter, LocksHeld
<1>2. RunAgents'
  BY DEF FlagsLookedAfter, RunAgents
<1>3. \A w \in Workers : RecountsItsAgent(inv[w])'
  BY DEF FlagsLookedAfter, RecountsItsAgent
<1>4. \A a \in Agents : busy'[a] => HasBeat(a)' \/ \E w \in Workers : Recounts(inv[w], a)'
  BY DEF FlagsLookedAfter, HasBeat, Recounts
<1>5. QED
  BY <1>1, <1>2, <1>3, <1>4 DEF FlagsLookedAfter

\* The tick finds no expired lock, and enqueues for assignees.
LEMMA TickFlagsLookedAfter ==
  ASSUME CustodyInv, FlagsLookedAfter, Tick
  PROVE  FlagsLookedAfter'
<1>1. tick.stale = {} /\ tick.now = None /\ tick \in TickRow /\ run \in [Runs -> RunRow]
  BY Tables DEF FlagsLookedAfter, LocksHeld, CustodyInv
<1>2. ~RecoverLock /\ ~FreeLockAgent /\ ~FailLockBeat /\ ~FailLockRuns
  BY <1>1 DEF RecoverLock, FreeLockAgent, FailLockBeat, FailLockRuns, CustodyInv, Recovering
<1>3. CASE StartTick
  <2>1. {d \in Cards : card[d].expired} = {}
    BY NoneExpired
  <2>2. tick' = [NoTick EXCEPT !.pc = "locks", !.stale = {}]
    BY <1>3, <2>1 DEF StartTick
  <2>3. tick'.stale = {} /\ tick'.now = None
    BY <2>2 DEF NoTick
  <2>4. QED
    BY <1>3, <2>3, StandingFlags DEF StartTick
<1>4. CASE ScanCards \/ EndTick
  <2>1. tick'.stale = {} /\ tick'.now = None
    <3>1. CASE ScanCards
      BY <1>1, <3>1 DEF ScanCards, TickRow
    <3>2. CASE EndTick
      BY <3>2 DEF EndTick, NoTick
    <3>3. QED
      BY <1>4, <3>1, <3>2
  <2>2. QED
    BY <1>4, <2>1, StandingFlags DEF ScanCards, EndTick
<1>5. CASE EnqueueScanned
  <2>1. PICK c \in tick.todo : Enqueue(c) /\ tick' = [tick EXCEPT !.todo = @ \ {c}]
                               /\ UNCHANGED <<card, beat, busy, inv>>
    BY <1>5 DEF EnqueueScanned
  <2>2. tick'.stale = {} /\ tick'.now = None
    BY <1>1, <2>1 DEF TickRow
  <2>3. ASSUME NEW r \in Runs, run'[r].status \in Active
        PROVE  \/ run'[r].agent = card[run'[r].card].assignee
               \/ run[r].status \in Active /\ run'[r].agent = run[r].agent /\ run'[r].card = run[r].card
    <3>1. CASE run' = run
      BY <2>3, <3>1
    <3>2. CASE /\ AbsentRuns # {}
               /\ run' = [run EXCEPT ![CHOOSE q \in AbsentRuns : TRUE] = NewRun(c)]
      <4>1. PICK q \in Runs : run' = [run EXCEPT ![q] = NewRun(c)]
        BY <3>2 DEF AbsentRuns
      <4>2. CASE r = q
        <5>1. run'[r] = NewRun(c)
          BY <1>1, <4>1, <4>2
        <5>2. QED
          BY <5>1 DEF NewRun
      <4>3. CASE r # q
        BY <1>1, <2>3, <4>1, <4>3
      <4>4. QED
        BY <4>2, <4>3
    <3>3. QED
      BY <2>1, <3>1, <3>2 DEF Enqueue
  <2>4. QED
    BY <2>1, <2>2, <2>3, StandingFlags
<1>6. QED
  BY <1>2, <1>3, <1>4, <1>5 DEF Tick

\* A restart drops no invocation that looks after a flag or a lock.
LEMMA CrashFlagsLookedAfter ==
  ASSUME CustodyInv, FlagsLookedAfter, FlagsSurvive, Crash
  PROVE  FlagsLookedAfter'
<1>1. /\ inv' = [w \in Workers |-> Resting] /\ tick' = NoTick /\ UNCHANGED <<card, run, beat, busy>>
  BY DEF Crash
<1>2. \A w \in Workers : inv[w].pc \notin Holding \cup Recounting
  BY DEF Crash, FlagsSurvive, Holding, Recounting
<1>3. LocksHeld'
  BY <1>1, <1>2 DEF FlagsLookedAfter, LocksHeld, NoTick
<1>4. RunAgents'
  BY <1>1, <1>2 DEF FlagsLookedAfter, RunAgents, Recounting
<1>5. \A w \in Workers : RecountsItsAgent(inv[w])'
  BY <1>1 DEF RecountsItsAgent, Resting, Fresh
<1>6. \A a \in Agents : busy'[a] => HasBeat(a)'
  BY <1>1, <1>2 DEF FlagsLookedAfter, HasBeat, Recounts
<1>7. QED
  BY <1>3, <1>4, <1>5, <1>6 DEF FlagsLookedAfter

\* Every step keeps the flags looked after.
LEMMA StepFlagsLookedAfter ==
  ASSUME CustodyInv, Undisturbed, FlagsLookedAfter, FlagsSurvive, [Next]_vars, CustodyInv'
  PROVE  FlagsLookedAfter'
<1>1. ASSUME NEW w \in Workers, Worker(w) PROVE FlagsLookedAfter'
  BY <1>1, WorkerFlagsLookedAfter
<1>2. ASSUME NEW c \in Cards, ExpireLock(c) PROVE FALSE
  BY <1>2, NoneExpired DEF ExpireLock, Undisturbed
<1>3. ASSUME NEW r \in Runs, RecoverStaleRun(r) PROVE FlagsLookedAfter'
  <2>1. /\ run[r].status = "running" /\ run' = [run EXCEPT ![r].status = "queued"]
        /\ UNCHANGED <<card, beat, busy, inv, tick>>
    BY <1>3 DEF RecoverStaleRun
  <2>2. run \in [Runs -> RunRow]
    BY Tables DEF CustodyInv
  <2>3. \A q \in Runs : run'[q].status \in Active =>
          run[q].status \in Active /\ run'[q].agent = run[q].agent /\ run'[q].card = run[q].card
    BY <2>1, <2>2 DEF RunRow, Active
  <2>4. tick'.stale = {} /\ tick'.now = None
    BY <2>1 DEF FlagsLookedAfter, LocksHeld
  <2>5. QED
    BY <2>1, <2>3, <2>4, StandingFlags
<1>4. CASE UNCHANGED vars
  <2>1. UNCHANGED <<card, run, beat, busy, inv, tick>>
    BY <1>4 DEF vars
  <2>2. tick'.stale = {} /\ tick'.now = None
    BY <2>1 DEF FlagsLookedAfter, LocksHeld
  <2>3. QED
    BY <2>1, <2>2, StandingFlags
<1>5. QED
  BY <1>1, <1>2, <1>3, <1>4, NeverRefused, NoOperator, TickFlagsLookedAfter, CrashFlagsLookedAfter
    DEF Next

\* A busy agent has a running heartbeat or an invocation that will recount it, unless a
\* restart hits one of these invocations or an attempt that has the lock (claimAgentCapacity,
\* refreshAgentRemoteCapacity, recoverStaleExecutionLocks).
THEOREM BusyAgentsAreInCustody ==
  Undisturbed /\ FlagsSurvive /\ Spec => []BusyInCustody
<1> DEFINE I == Undisturbed /\ FlagsSurvive /\ CustodyInv /\ FlagsLookedAfter
<1>1. Init /\ CustodyInv => FlagsLookedAfter
  <2>1. SUFFICES ASSUME Init, CustodyInv PROVE FlagsLookedAfter
    OBVIOUS
  <2>2. /\ \A w \in Workers : inv[w] = Resting
        /\ \A r \in Runs : run[r].status = "absent"
        /\ \A a \in Agents : ~busy[a]
        /\ tick = NoTick
    BY <2>1 DEF Init
  <2>3. \A c \in Cards : card[c].lock = None
    <3>1. SUFFICES ASSUME NEW c \in Cards PROVE card[c].lock = None
      OBVIOUS
    <3>2. card[c] \in {[status |-> "todo", lock |-> None, expired |-> FALSE,
                        retries |-> 0, repairs |-> 0, recovery |-> "none",
                        assignee |-> a] : a \in Agents}
      BY <2>1 DEF Init
    <3>3. QED
      BY <3>2
  <2>4. LocksHeld /\ RunAgents
    BY <2>2, <2>3 DEF LocksHeld, RunAgents, NoTick, Active
  <2>5. \A w \in Workers : RecountsItsAgent(inv[w])
    BY <2>2 DEF RecountsItsAgent, Resting, Fresh
  <2>6. QED
    BY <2>2, <2>4, <2>5 DEF FlagsLookedAfter
<1>2. I /\ CustodyInv' /\ [Next]_vars => I'
  <2>1. Undisturbed /\ FlagsSurvive => Undisturbed' /\ FlagsSurvive'
    BY DEF Undisturbed, FlagsSurvive
  <2>2. QED
    BY <2>1, StepFlagsLookedAfter
<1>3. I => BusyInCustody
  <2>1. SUFFICES ASSUME FlagsLookedAfter, NEW a \in Agents, busy[a]
                 PROVE  \/ RunningBeats(a) # {}
                        \/ \E w \in Workers : inv[w].pc # "idle" /\ a \in {inv[w].agent, inv[w].owner}
    BY DEF BusyInCustody
  <2>2. QED
    BY <2>1 DEF FlagsLookedAfter, HasBeat, RunningBeats, Recounts, Recounting
<1>4. QED
  BY <1>1, <1>2, <1>3, CustodyInvariant, PTL DEF Spec

-----------------------------------------------------------------------------
(* The same without any assumption on deadlines and operators, but for     *)
(* reports that settle the card by its id only.                            *)

Fenced == Outcomes \cap {"delegated", "handoff"} = {}
NoneDirect == \A w \in Workers : inv[w].outcome \notin {"delegated", "handoff"}

\* A worker's step moves its own slot; the outcome it remembers is what the adapter
\* returned.
LEMMA WorkerOutcome ==
  ASSUME Rows, NEW w \in Workers, Worker(w)
  PROVE  /\ \A v \in Workers \ {w} : inv'[v] = inv[v]
         /\ inv'[w].outcome \in {inv[w].outcome, None, "failed"} \cup Outcomes
<1>1. inv \in [Workers -> Invocation] /\ inv[w] \in Invocation
  BY DEF Rows, TypeOK
<1>2. CASE ClaimRun(w)
  <2>1. PICK r \in Runs :
          inv' = [inv EXCEPT ![w] = [Resting EXCEPT !.pc = "claimed", !.run = r,
                                     !.card = run[r].card, !.owner = run[r].agent]]
    BY <1>2 DEF ClaimRun
  <2>2. [Resting EXCEPT !.pc = "claimed", !.run = r,
                        !.card = run[r].card, !.owner = run[r].agent].outcome = None
    BY DEF Resting
  <2>3. QED
    BY <1>1, <2>1, <2>2
<1>0. CASE Refresh(w)
  BY <1>1, <1>0 DEF Refresh, Resting
<1>3. CASE OpenBeat(w)
  BY <1>1, <1>3 DEF OpenBeat, Invocation
<1>4. ASSUME NEW s, Settle(w, s)
      PROVE  /\ \A v \in Workers \ {w} : inv'[v] = inv[v]
             /\ inv'[w].outcome = inv[w].outcome
  BY <1>1, <1>4 DEF Settle, Invocation
<1>5. CASE ChooseAgent(w) \/ RefuseDispatch(w) \/ ClaimCapacity(w) \/ LinkBeat(w)
  BY <1>1, <1>5 DEF ChooseAgent, RefuseDispatch, ClaimCapacity, LinkBeat, Goto, Invocation
<1>6. CASE AcquireLock(w) \/ LockRefused(w) \/ FreeRefused(w)
  BY <1>1, <1>6 DEF AcquireLock, LockRefused, FreeRefused, Goto, Invocation
<1>7. CASE CheckCurrent(w)
  BY <1>1, <1>4, <1>7 DEF CheckCurrent, Goto, Invocation
<1>8. CASE AdapterReturns(w)
  BY <1>1, <1>4, <1>8 DEF AdapterReturns, Invocation
<1>9. CASE PersistProducts(w)
  BY <1>1, <1>4, <1>9 DEF PersistProducts, Goto, Invocation
<1>10. CASE Complete(w)
  BY <1>1, <1>4, <1>10 DEF Complete, Invocation
<1>11. CASE Delegate(w) \/ Handoff(w)
  BY <1>1, <1>11 DEF Delegate, Handoff, Invocation
<1>12. CASE Fail(w)
  BY <1>1, <1>4, <1>12 DEF Fail, Invocation
<1>13. CASE Park(w)
  BY <1>1, <1>4, <1>13 DEF Park, Invocation
<1>14. CASE RecoverParked(w) \/ FreeScolded(w) \/ FailScolded(w)
  BY <1>1, <1>14 DEF RecoverParked, FreeScolded, FailScolded, Goto, Invocation
<1>15. CASE Scold(w)
  BY <1>1, <1>15 DEF Scold, Invocation
<1>16. CASE SettleRun(w) \/ EnqueueFollowUp(w) \/ FinishRun(w) \/ Requeue(w) \/ FailRun(w)
  BY <1>1, <1>16 DEF SettleRun, EnqueueFollowUp, FinishRun, Requeue, FailRun, Goto, Invocation
<1>17. CASE ReadFailedCard(w) \/ RetryFailedCard(w) \/ FreeAssignee(w)
  BY <1>1, <1>17 DEF ReadFailedCard, RetryFailedCard, FreeAssignee, Goto, Invocation
<1>18. QED
  BY <1>0, <1>2, <1>3, <1>5, <1>6, <1>7, <1>8, <1>9, <1>10, <1>11, <1>12, <1>13, <1>14, <1>15, <1>16,
    <1>17 DEF Worker, Admission, Attempt, Aftermath

\* No slot remembers a report of that kind.
LEMMA StepOutcomes ==
  ASSUME Rows, Fenced, NoneDirect, [Next]_vars
  PROVE  NoneDirect'
<1>1. {None, "failed"} \cup Outcomes \subseteq {None} \cup (AllOutcomes \ {"delegated", "handoff"})
  BY LimitAssumption DEF LimitAssumption, Fenced, AllOutcomes
<1>2. None \notin {"delegated", "handoff"}
  BY IdentityAssumption DEF IdentityAssumption, AllOutcomes
<1>3. CASE UNCHANGED inv
  BY <1>3 DEF NoneDirect
<1>4. ASSUME NEW w \in Workers, Worker(w) PROVE NoneDirect'
  BY <1>1, <1>2, <1>4, WorkerOutcome DEF NoneDirect
<1>5. CASE Crash
  BY <1>2, <1>5 DEF Crash, Resting, NoneDirect
<1>6. QED
  <2>1. CASE \/ \E w \in Workers : RenewLock(w)
             \/ \E c \in Cards : ExpireLock(c)
             \/ \E r \in Runs : RecoverStaleRun(r)
    BY <1>3, <2>1 DEF RenewLock, ExpireLock, RecoverStaleRun
  <2>2. CASE Tick
    BY <1>3, <2>2 DEF Tick, StartTick, RecoverLock, FreeLockAgent, FailLockBeat, FailLockRuns,
      ScanCards, EnqueueScanned, EndTick
  <2>3. CASE Operator
    BY <1>3, <2>3 DEF Operator, CancelRuns, ContinueAgent, CancelBeat, CancelAgents, CancelCard,
      CancelBeats, CancelCapacity, ContinueCard
  <2>4. CASE UNCHANGED vars
    BY <1>3, <2>4 DEF vars
  <2>5. QED
    BY <1>4, <1>5, <2>1, <2>2, <2>3, <2>4 DEF Next

\* A slot that moves and writes its card has authority.
LEMMA MoveNeedsAuthority ==
  ASSUME Rows, NoneDirect, [Next]_vars, NEW w \in Workers, inv[w].pc \in Holding,
         inv'[w] # inv[w], card'[inv[w].card] # card[inv[w].card]
  PROVE  Authorized(w)
<1>1. ASSUME NEW v \in Workers, Worker(v) PROVE Authorized(w)
  <2>1. v = w
    BY <1>1, WorkerOutcome
  <2>2. ~Delegate(w) /\ ~Handoff(w)
    BY DEF NoneDirect, Delegate, Handoff
  <2>3. Attempt(w)
    BY <1>1, <2>1 DEF Worker, Admission, Aftermath, Holding, ClaimRun, ChooseAgent, RefuseDispatch,
      ClaimCapacity, OpenBeat, LinkBeat, SettleRun, EnqueueFollowUp, FinishRun, Requeue, FailRun,
      ReadFailedCard, RetryFailedCard, FreeAssignee, Refresh
  <2>4. \A s : ~Settle(w, s)
    BY DEF Settle
  <2>5. CASE Complete(w) \/ Fail(w) \/ Park(w)
    BY <2>4, <2>5 DEF Complete, Fail, Park, ResultAuthority, Authorized
  <2>6. CASE Scold(w)
    BY <2>6 DEF Scold, Authorized
  <2>7. CASE CheckCurrent(w) \/ AdapterReturns(w) \/ PersistProducts(w)
    BY <2>4, <2>7 DEF CheckCurrent, AdapterReturns, PersistProducts
  <2>8. CASE AcquireLock(w) \/ LockRefused(w) \/ FreeRefused(w) \/ RecoverParked(w) \/ FreeScolded(w)
             \/ FailScolded(w)
    BY <2>8 DEF AcquireLock, LockRefused, FreeRefused, RecoverParked, FreeScolded, FailScolded, Holding
  <2>9. QED
    BY <2>2, <2>3, <2>5, <2>6, <2>7, <2>8 DEF Attempt
<1>2. CASE Crash
  BY <1>2 DEF Crash
<1>3. ~UNCHANGED inv
  OBVIOUS
<1>4. QED
  <2>1. ~(\/ \E v \in Workers : RenewLock(v)
          \/ \E c \in Cards : ExpireLock(c)
          \/ \E r \in Runs : RecoverStaleRun(r))
    BY <1>3 DEF RenewLock, ExpireLock, RecoverStaleRun
  <2>2. ~Tick
    BY <1>3 DEF Tick, StartTick, RecoverLock, FreeLockAgent, FailLockBeat, FailLockRuns,
      ScanCards, EnqueueScanned, EndTick
  <2>3. ~Operator
    BY <1>3 DEF Operator, CancelRuns, ContinueAgent, CancelBeat, CancelAgents, CancelCard,
      CancelBeats, CancelCapacity, ContinueCard
  <2>4. ~UNCHANGED vars
    BY <1>3 DEF vars
  <2>5. QED
    BY <1>1, <1>2, <2>1, <2>2, <2>3, <2>4 DEF Next

\* However late renewals and statements come, whatever operators command and wherever
\* the server restarts: a result changes its card only under authority, delegations and
\* handoffs apart (lockResultAuthority, completionCondition).
THEOREM ResultsAreFenced == Fenced /\ Spec => ResultNeedsAuthority
<1>1. Init => NoneDirect
  <2>1. None \notin {"delegated", "handoff"}
    BY IdentityAssumption DEF IdentityAssumption, AllOutcomes
  <2>2. QED
    BY <2>1 DEF Init, Resting, NoneDirect
<1>2. LeaseInv /\ Fenced /\ NoneDirect /\ [Next]_vars => Fenced' /\ NoneDirect'
  <2>1. Fenced => Fenced'
    BY DEF Fenced
  <2>2. QED
    BY <2>1, StepOutcomes DEF LeaseInv
<1>3. LeaseInv /\ NoneDirect /\ [Next]_vars =>
        [\A w \in Workers :
           inv[w].pc \in Holding /\ inv'[w] # inv[w] /\ card'[inv[w].card] # card[inv[w].card] =>
             Authorized(w)]_vars
  BY MoveNeedsAuthority DEF LeaseInv
<1>4. QED
  BY <1>1, <1>2, <1>3, LeaseInvariant, PTL DEF ResultNeedsAuthority, Spec

-----------------------------------------------------------------------------
(* Counting an agent's heartbeats and opening the next one are separate    *)
(* statements: every slot that counted may open one more.                  *)

\* Slots that found room on the agent and have not opened their heartbeat.
AdmittedOn(a) == {w \in Workers : inv[w].pc = "admitted" /\ inv[w].agent = a}

\* Running heartbeats and those about to be opened, together.
LoadBounded == \A a \in Agents :
  Cardinality(RunningBeats(a)) + Cardinality(AdmittedOn(a)) < MaxConcurrent + Cardinality(Workers)

\* No heartbeat starts running.
NoneOpened == \A h \in Beats :
  beat'[h].status = "running" => beat[h].status = "running" /\ beat'[h].agent = beat[h].agent

\* Ending a heartbeat opens none.
LEMMA EndedOpensNone ==
  ASSUME Rows, NEW h, NEW s \in Ended,
         \/ beat' = [beat EXCEPT ![h].status = s]
         \/ beat' = IF beat[h].status = "running" THEN [beat EXCEPT ![h].status = s] ELSE beat
  PROVE  NoneOpened
<1>1. CASE beat' = [beat EXCEPT ![h].status = s]
  <2>1. \A x \in Beats : /\ beat[x] \in BeatRow
                         /\ beat'[x] = beat[x] \/ beat'[x] = [beat[x] EXCEPT !.status = s]
    BY <1>1 DEF Rows, TypeOK
  <2>2. QED
    BY <2>1 DEF NoneOpened, BeatRow, Ended
<1>2. CASE beat' = beat
  BY <1>2 DEF NoneOpened
<1>3. QED
  BY <1>1, <1>2

\* A settled attempt ends its heartbeat at most.
LEMMA SettleOpensNone ==
  ASSUME Rows, NEW w \in Workers, NEW s \in Ended, Settle(w, s)
  PROVE  NoneOpened
BY EndedOpensNone DEF Settle

\* Only openHeartbeatRun starts a heartbeat.
LEMMA WorkerOpensNone ==
  ASSUME Rows, NEW w \in Workers, Worker(w), ~OpenBeat(w)
  PROVE  NoneOpened
<1>1. CASE UNCHANGED beat
  BY <1>1 DEF NoneOpened
<1>2. CASE Admission(w)
  BY <1>1, <1>2 DEF Admission, ClaimRun, ChooseAgent, RefuseDispatch, ClaimCapacity, LinkBeat
<1>3. CASE Aftermath(w)
  BY <1>1, <1>3 DEF Aftermath, SettleRun, EnqueueFollowUp, FinishRun, Requeue, FailRun,
     ReadFailedCard, RetryFailedCard, FreeAssignee, Refresh
<1>4. CASE LockRefused(w) \/ Delegate(w) \/ Handoff(w) \/ FailScolded(w)
  BY <1>4, EndedOpensNone DEF LockRefused, Delegate, Handoff, FailScolded, Ended
<1>5. CASE FreeRefused(w) \/ RecoverParked(w) \/ Scold(w) \/ FreeScolded(w)
  BY <1>1, <1>5 DEF FreeRefused, RecoverParked, Scold, FreeScolded
<1>6. CASE AcquireLock(w)
  <2>1. beat' = [beat EXCEPT ![inv[w].beat].locked = TRUE] /\ beat \in [Beats -> BeatRow]
    BY <1>6 DEF AcquireLock, Rows, TypeOK
  <2>2. \A x \in Beats : beat'[x].status = beat[x].status /\ beat'[x].agent = beat[x].agent
    BY <2>1 DEF BeatRow
  <2>3. QED
    BY <2>2 DEF NoneOpened
<1>7. CASE CheckCurrent(w)
  BY <1>1, <1>7, SettleOpensNone DEF CheckCurrent, Ended
<1>8. CASE AdapterReturns(w)
  BY <1>1, <1>8, SettleOpensNone, StatusOfEnded DEF AdapterReturns
<1>9. CASE PersistProducts(w)
  BY <1>1, <1>9, SettleOpensNone DEF PersistProducts, Ended
<1>10. CASE Complete(w)
  BY <1>10, SettleOpensNone, EndedOpensNone DEF Complete, Ended
<1>11. CASE Fail(w)
  BY <1>11, SettleOpensNone, StatusOfEnded, EndedOpensNone DEF Fail, Ended
<1>12. CASE Park(w)
  BY <1>12, SettleOpensNone, EndedOpensNone DEF Park, Ended
<1>13. QED
  BY <1>2, <1>3, <1>4, <1>5, <1>6, <1>7, <1>8, <1>9, <1>10, <1>11, <1>12 DEF Worker, Attempt

\* Neither does the tick, an operator or a restart.
LEMMA OthersOpenNone ==
  ASSUME Rows, \/ \E w \in Workers : RenewLock(w)
               \/ \E c \in Cards : ExpireLock(c)
               \/ \E r \in Runs : RecoverStaleRun(r)
               \/ Tick \/ Operator \/ Crash \/ UNCHANGED vars
  PROVE  NoneOpened
<1>1. CASE UNCHANGED beat
  BY <1>1 DEF NoneOpened
<1>2. CASE FailLockBeat \/ CancelBeat
  BY <1>1, <1>2, EndedOpensNone DEF FailLockBeat, CancelBeat, Ended
<1>3. CASE CancelBeats
  <2>1. \A h \in Beats : beat'[h].status = "running" => beat'[h] = beat[h]
    <3>1. \A h \in Beats : /\ beat[h] \in BeatRow
                           /\ beat'[h] \in {beat[h], [beat[h] EXCEPT !.status = "cancelled"]}
      BY <1>3 DEF CancelBeats, Rows, TypeOK
    <3>2. QED
      BY <3>1 DEF BeatRow
  <2>2. QED
    BY <2>1 DEF NoneOpened
<1>4. CASE /\ Operator \/ Tick
           /\ ~FailLockBeat /\ ~CancelBeat /\ ~CancelBeats
  BY <1>1, <1>4 DEF Operator, Tick, CancelRuns, ContinueAgent, CancelAgents, CancelCard,
    CancelCapacity, ContinueCard, StartTick, RecoverLock, FreeLockAgent, FailLockRuns, ScanCards,
    EnqueueScanned, EndTick
<1>5. CASE \/ \E w \in Workers : RenewLock(w)
           \/ \E c \in Cards : ExpireLock(c)
           \/ \E r \in Runs : RecoverStaleRun(r)
           \/ Crash \/ UNCHANGED vars
  BY <1>1, <1>5 DEF RenewLock, ExpireLock, RecoverStaleRun, Crash, vars
<1>6. QED
  BY <1>2, <1>3, <1>4, <1>5

\* Then no agent has more running heartbeats than before.
LEMMA CountsFall ==
  ASSUME NoneOpened, NEW a
  PROVE  /\ Cardinality(RunningBeats(a))' \in Nat /\ Cardinality(RunningBeats(a)) \in Nat
         /\ Cardinality(RunningBeats(a))' <= Cardinality(RunningBeats(a))
<1>1. RunningBeats(a)' \subseteq RunningBeats(a) /\ RunningBeats(a) \subseteq Beats
  BY DEF NoneOpened, RunningBeats
<1>2. IsFiniteSet(Beats)
  BY IdentityAssumption DEF IdentityAssumption
<1>3. IsFiniteSet(RunningBeats(a))
  BY <1>1, <1>2, FS_Subset
<1>4. RunningBeats(a)' \in SUBSET RunningBeats(a)
  BY <1>1
<1>5. IsFiniteSet(RunningBeats(a)') /\ Cardinality(RunningBeats(a)') <= Cardinality(RunningBeats(a))
  BY <1>3, <1>4, FS_Subset
<1>6. Cardinality(RunningBeats(a)') \in Nat /\ Cardinality(RunningBeats(a)) \in Nat
  BY <1>3, <1>5, FS_CardinalityType
<1>7. QED
  BY <1>5, <1>6

\* A slot comes to "admitted" only through claimAgentCapacity, and with room.
LEMMA AdmittedWithRoom ==
  ASSUME Rows, NEW w \in Workers, Worker(w), inv'[w].pc = "admitted"
  PROVE  /\ UNCHANGED beat /\ inv'[w].agent = inv[w].agent
         /\ Cardinality(RunningBeats(inv[w].agent)) < MaxConcurrent
<1>1. inv \in [Workers -> Invocation] /\ inv[w] \in Invocation
  BY DEF Rows, TypeOK
<1>2. CASE ClaimCapacity(w)
  <2>1. CASE CanAdmit(inv[w].agent)
    BY <1>1, <1>2, <2>1 DEF ClaimCapacity, CanAdmit, Goto, Invocation
  <2>2. CASE ~CanAdmit(inv[w].agent)
    BY <1>1, <1>2, <2>2 DEF ClaimCapacity, Goto, Invocation
  <2>3. QED
    BY <2>1, <2>2
<1>3. CASE ClaimRun(w)
  <2>1. PICK r \in Runs :
          inv' = [inv EXCEPT ![w] = [Resting EXCEPT !.pc = "claimed", !.run = r,
                                     !.card = run[r].card, !.owner = run[r].agent]]
    BY <1>3 DEF ClaimRun
  <2>2. [Resting EXCEPT !.pc = "claimed", !.run = r,
                        !.card = run[r].card, !.owner = run[r].agent].pc = "claimed"
    BY DEF Resting
  <2>3. QED
    BY <1>1, <2>1, <2>2
<1>4. CASE Refresh(w)
  BY <1>1, <1>4 DEF Refresh, Resting
<1>5. CASE OpenBeat(w)
  BY <1>1, <1>5 DEF OpenBeat, Invocation
<1>6. \A s : ~Settle(w, s)
  BY <1>1 DEF Settle, Invocation
<1>7. CASE ChooseAgent(w) \/ RefuseDispatch(w) \/ LinkBeat(w)
  BY <1>1, <1>7 DEF ChooseAgent, RefuseDispatch, LinkBeat, Goto, Invocation
<1>8. CASE AcquireLock(w) \/ LockRefused(w) \/ FreeRefused(w)
  BY <1>1, <1>8 DEF AcquireLock, LockRefused, FreeRefused, Goto, Invocation
<1>9. CASE CheckCurrent(w) \/ AdapterReturns(w) \/ PersistProducts(w)
  BY <1>1, <1>6, <1>9 DEF CheckCurrent, AdapterReturns, PersistProducts, Goto, Invocation
<1>10. CASE Complete(w) \/ Delegate(w) \/ Handoff(w)
  BY <1>1, <1>6, <1>10 DEF Complete, Delegate, Handoff, Invocation
<1>11. CASE Fail(w) \/ Park(w)
  BY <1>1, <1>6, <1>11 DEF Fail, Park, Invocation
<1>12. CASE RecoverParked(w) \/ FreeScolded(w) \/ FailScolded(w) \/ Scold(w)
  BY <1>1, <1>12 DEF RecoverParked, FreeScolded, FailScolded, Scold, Goto, Invocation
<1>13. CASE SettleRun(w) \/ EnqueueFollowUp(w) \/ FinishRun(w) \/ Requeue(w) \/ FailRun(w)
  BY <1>1, <1>13 DEF SettleRun, EnqueueFollowUp, FinishRun, Requeue, FailRun, Goto, Invocation
<1>14. CASE ReadFailedCard(w) \/ RetryFailedCard(w) \/ FreeAssignee(w)
  BY <1>1, <1>14 DEF ReadFailedCard, RetryFailedCard, FreeAssignee, Goto, Invocation
<1>15. QED
  BY <1>2, <1>3, <1>4, <1>5, <1>7, <1>8, <1>9, <1>10, <1>11, <1>12, <1>13, <1>14
    DEF Worker, Admission, Attempt, Aftermath

\* What is counted is a number.
LEMMA LoadIsNat ==
  ASSUME NEW a
  PROVE  /\ IsFiniteSet(RunningBeats(a)) /\ Cardinality(RunningBeats(a)) \in Nat
         /\ IsFiniteSet(AdmittedOn(a)) /\ Cardinality(AdmittedOn(a)) \in Nat
         /\ Cardinality(AdmittedOn(a)) <= Cardinality(Workers)
         /\ Cardinality(Workers) \in Nat
<1>1. IsFiniteSet(Beats) /\ IsFiniteSet(Workers)
  BY IdentityAssumption DEF IdentityAssumption
<1>2. RunningBeats(a) \in SUBSET Beats /\ AdmittedOn(a) \in SUBSET Workers
  BY DEF RunningBeats, AdmittedOn
<1>3. /\ IsFiniteSet(RunningBeats(a)) /\ IsFiniteSet(AdmittedOn(a))
      /\ Cardinality(AdmittedOn(a)) <= Cardinality(Workers)
  BY <1>1, <1>2, FS_Subset
<1>4. QED
  BY <1>1, <1>3, FS_CardinalityType

\* Where no heartbeat is opened and no slot admitted, the load does not grow.
LEMMA LoadFalls ==
  ASSUME LoadBounded, NoneOpened, NEW a \in Agents, AdmittedOn(a)' \subseteq AdmittedOn(a)
  PROVE  Cardinality(RunningBeats(a))' + Cardinality(AdmittedOn(a))'
           < MaxConcurrent + Cardinality(Workers)
<1>1. /\ Cardinality(RunningBeats(a))' \in Nat
      /\ Cardinality(RunningBeats(a))' <= Cardinality(RunningBeats(a))
  BY CountsFall
<1>2. IsFiniteSet(AdmittedOn(a)')
      /\ Cardinality(AdmittedOn(a)') <= Cardinality(AdmittedOn(a))
  <2>1. AdmittedOn(a)' \in SUBSET AdmittedOn(a)
    OBVIOUS
  <2>2. QED
    BY <2>1, LoadIsNat, FS_Subset
<1>3. Cardinality(AdmittedOn(a)') \in Nat
  BY <1>2, FS_CardinalityType
<1>4. Cardinality(RunningBeats(a)) + Cardinality(AdmittedOn(a))
        < MaxConcurrent + Cardinality(Workers)
  BY DEF LoadBounded
<1>5. MaxConcurrent \in Nat
  BY LimitAssumption DEF LimitAssumption
<1>6. QED
  BY <1>1, <1>2, <1>3, <1>4, <1>5, LoadIsNat

\* The slot that opens its heartbeat was counted before.
LEMMA OpenKeepsLoad ==
  ASSUME Rows, LoadBounded, NEW w \in Workers, OpenBeat(w)
  PROVE  LoadBounded'
<1> DEFINE a == inv[w].agent
<1>1. PICK h \in Beats :
        /\ inv[w].pc = "admitted" /\ beat[h].status = "absent"
        /\ beat' = [beat EXCEPT ![h] = [status |-> "running", card |-> inv[w].card,
                                        agent |-> a, locked |-> FALSE]]
        /\ inv' = [inv EXCEPT ![w].pc = "opened", ![w].beat = h]
  BY DEF OpenBeat, AbsentBeats
<1>2. /\ beat'[h].agent = a /\ \A x \in Beats \ {h} : beat'[x] = beat[x]
      /\ inv'[w].pc = "opened" /\ \A v \in Workers \ {w} : inv'[v] = inv[v]
  <2>1. beat \in [Beats -> BeatRow] /\ inv \in [Workers -> Invocation]
    BY DEF Rows, TypeOK
  <2>2. QED
    BY <1>1, <2>1 DEF Invocation
<1>3. ASSUME NEW b \in Agents
      PROVE  Cardinality(RunningBeats(b))' + Cardinality(AdmittedOn(b))'
               < MaxConcurrent + Cardinality(Workers)
  <2>1. Cardinality(RunningBeats(b)) + Cardinality(AdmittedOn(b))
          < MaxConcurrent + Cardinality(Workers)
    BY DEF LoadBounded
  <2>2. MaxConcurrent \in Nat
    BY LimitAssumption DEF LimitAssumption
  <2>3. CASE b = a
    <3>1. /\ IsFiniteSet(RunningBeats(b)') /\ Cardinality(RunningBeats(b)') \in Nat
          /\ Cardinality(RunningBeats(b)') <= Cardinality(RunningBeats(b)) + 1
      <4>1. RunningBeats(b)' \in SUBSET (RunningBeats(b) \cup {h})
        BY <1>2 DEF RunningBeats
      <4>2. /\ IsFiniteSet(RunningBeats(b) \cup {h})
            /\ Cardinality(RunningBeats(b) \cup {h}) \in {Cardinality(RunningBeats(b)),
                                                          Cardinality(RunningBeats(b)) + 1}
        BY LoadIsNat, FS_AddElement
      <4>3. /\ IsFiniteSet(RunningBeats(b)')
            /\ Cardinality(RunningBeats(b)') <= Cardinality(RunningBeats(b) \cup {h})
        BY <4>1, <4>2, FS_Subset
      <4>4. Cardinality(RunningBeats(b)') \in Nat
        BY <4>3, FS_CardinalityType
      <4>5. QED
        BY <4>2, <4>3, <4>4, LoadIsNat
    <3>2. Cardinality(AdmittedOn(b)') = Cardinality(AdmittedOn(b)) - 1
      <4>1. w \in AdmittedOn(b)
        BY <1>1, <2>3 DEF AdmittedOn
      <4>2. AdmittedOn(b)' = AdmittedOn(b) \ {w}
        BY <1>2 DEF AdmittedOn
      <4>3. QED
        BY <4>1, <4>2, LoadIsNat, FS_RemoveElement
    <3>3. QED
      BY <2>1, <2>2, <3>1, <3>2, LoadIsNat
  <2>4. CASE b # a
    <3>1. RunningBeats(b)' \in SUBSET RunningBeats(b) /\ AdmittedOn(b)' \in SUBSET AdmittedOn(b)
      BY <1>2, <2>4 DEF RunningBeats, AdmittedOn
    <3>2. /\ IsFiniteSet(RunningBeats(b)') /\ IsFiniteSet(AdmittedOn(b)')
          /\ Cardinality(RunningBeats(b)') <= Cardinality(RunningBeats(b))
          /\ Cardinality(AdmittedOn(b)') <= Cardinality(AdmittedOn(b))
      BY <3>1, LoadIsNat, FS_Subset
    <3>3. Cardinality(RunningBeats(b)') \in Nat /\ Cardinality(AdmittedOn(b)') \in Nat
      BY <3>2, FS_CardinalityType
    <3>4. QED
      BY <2>1, <2>2, <3>2, <3>3, LoadIsNat
  <2>5. QED
    BY <2>3, <2>4
<1>4. QED
  BY <1>3 DEF LoadBounded

\* Every step keeps the load bounded, whoever counts between whose statements.
LEMMA StepLoad ==
  ASSUME Rows, LoadBounded, [Next]_vars
  PROVE  LoadBounded'
<1>1. ASSUME NEW w \in Workers, Worker(w), ~OpenBeat(w) PROVE LoadBounded'
  <2>1. NoneOpened
    BY <1>1, WorkerOpensNone
  <2>2. ASSUME NEW a \in Agents
        PROVE  Cardinality(RunningBeats(a))' + Cardinality(AdmittedOn(a))'
                 < MaxConcurrent + Cardinality(Workers)
    <3>1. CASE w \in AdmittedOn(a)'
      <4>1. /\ UNCHANGED beat /\ inv'[w].agent = inv[w].agent
            /\ Cardinality(RunningBeats(inv[w].agent)) < MaxConcurrent
        BY <1>1, <3>1, AdmittedWithRoom DEF AdmittedOn
      <4>2. RunningBeats(a)' = RunningBeats(a) /\ inv[w].agent = a
        BY <3>1, <4>1 DEF RunningBeats, AdmittedOn
      <4>3. IsFiniteSet(Workers) /\ AdmittedOn(a)' \in SUBSET Workers
        BY IdentityAssumption DEF IdentityAssumption, AdmittedOn
      <4>4. IsFiniteSet(AdmittedOn(a)') /\ Cardinality(AdmittedOn(a)') <= Cardinality(Workers)
        BY <4>3, FS_Subset
      <4>5. Cardinality(AdmittedOn(a)') \in Nat
        BY <4>4, FS_CardinalityType
      <4>6. MaxConcurrent \in Nat
        BY LimitAssumption DEF LimitAssumption
      <4>7. QED
        BY <4>1, <4>2, <4>4, <4>5, <4>6, LoadIsNat
    <3>2. CASE w \notin AdmittedOn(a)'
      <4>1. \A v \in Workers \ {w} : inv'[v] = inv[v]
        BY <1>1, WorkerOutcome
      <4>2. AdmittedOn(a)' \subseteq AdmittedOn(a)
        BY <3>2, <4>1 DEF AdmittedOn
      <4>3. QED
        BY <2>1, <4>2, LoadFalls
    <3>3. QED
      BY <3>1, <3>2
  <2>3. QED
    BY <2>2 DEF LoadBounded
<1>2. CASE \/ \E w \in Workers : RenewLock(w)
           \/ \E c \in Cards : ExpireLock(c)
           \/ \E r \in Runs : RecoverStaleRun(r)
           \/ Tick \/ Operator \/ Crash \/ UNCHANGED vars
  <2>1. NoneOpened
    BY <1>2, OthersOpenNone
  <2>2. UNCHANGED inv \/ \A w \in Workers : inv'[w].pc = "idle"
    <3>1. CASE \/ \E w \in Workers : RenewLock(w)
               \/ \E c \in Cards : ExpireLock(c)
               \/ \E r \in Runs : RecoverStaleRun(r)
               \/ UNCHANGED vars
      BY <3>1 DEF RenewLock, ExpireLock, RecoverStaleRun, vars
    <3>2. CASE Tick
      BY <3>2 DEF Tick, StartTick, RecoverLock, FreeLockAgent, FailLockBeat, FailLockRuns,
        ScanCards, EnqueueScanned, EndTick
    <3>3. CASE Operator
      BY <3>3 DEF Operator, CancelRuns, ContinueAgent, CancelBeat, CancelAgents, CancelCard,
        CancelBeats, CancelCapacity, ContinueCard
    <3>4. CASE Crash
      BY <3>4 DEF Crash, Resting
    <3>5. QED
      BY <1>2, <3>1, <3>2, <3>3, <3>4
  <2>3. \A a \in Agents : AdmittedOn(a)' \subseteq AdmittedOn(a)
    BY <2>2 DEF AdmittedOn
  <2>4. QED
    BY <2>1, <2>3, LoadFalls DEF LoadBounded
<1>3. QED
  BY <1>1, <1>2, OpenKeepsLoad DEF Next

\* However many slots count an agent's heartbeats before any of them opens its own,
\* and however many attempts died with the server and still count: an agent runs at
\* most one attempt per further worker slot beyond its limit, with a single slot none
\* (claimAgentCapacity, openHeartbeatRun).
THEOREM OverrunStaysBounded == Spec => []OverrunIsBounded
<1>1. Init => LoadBounded
  <2>1. SUFFICES ASSUME Init, NEW a \in Agents
                 PROVE  Cardinality(RunningBeats(a)) + Cardinality(AdmittedOn(a))
                          < MaxConcurrent + Cardinality(Workers)
    BY DEF LoadBounded
  <2>2. RunningBeats(a) = {} /\ AdmittedOn(a) = {}
    BY <2>1 DEF Init, Resting, RunningBeats, AdmittedOn
  <2>3. Cardinality({}) = 0
    BY FS_EmptySet
  <2>4. MaxConcurrent \in Nat \ {0}
    BY LimitAssumption DEF LimitAssumption
  <2>5. QED
    BY <2>2, <2>3, <2>4, LoadIsNat
<1>2. LeaseInv /\ LoadBounded /\ [Next]_vars => LoadBounded'
  BY StepLoad DEF LeaseInv
<1>3. LoadBounded => OverrunIsBounded
  <2>1. SUFFICES ASSUME LoadBounded, NEW a \in Agents
                 PROVE  Cardinality(RunningBeats(a)) < MaxConcurrent + Cardinality(Workers)
    BY DEF OverrunIsBounded
  <2>2. MaxConcurrent \in Nat
    BY LimitAssumption DEF LimitAssumption
  <2>3. QED
    BY <2>1, <2>2, LoadIsNat DEF LoadBounded
<1>4. QED
  BY <1>1, <1>2, <1>3, LeaseInvariant, PTL DEF Spec
=============================================================================
