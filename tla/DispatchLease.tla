--------------------------- MODULE DispatchLease ---------------------------
(***************************************************************************)
(* Result authority is exclusive, because the execution locks are leases.  *)
(*                                                                         *)
(* Only two statements matter: openHeartbeatRun opens a heartbeat row that *)
(* no slot ever had, and acquireExecutionLock grants a lock to a heartbeat *)
(* that never held one.  Every other step keeps or clears locks, keeps or  *)
(* ends heartbeats, and keeps or drops the heartbeat of a slot (LocksKept, *)
(* BeatsKept, SlotsKept), which preserves LeaseInv whatever else it does.  *)
(***************************************************************************)
EXTENDS DispatchTypes

\* At most one lock is cleared and none is granted.
LocksKept ==
  \/ \A c \in Cards : card'[c].lock = card[c].lock
  \/ \E c \in Cards : /\ card[c].lock # None /\ card'[c].lock = None
                      /\ \A d \in Cards \ {c} : card'[d].lock = card[d].lock
\* Heartbeat rows stay, and so does what they held.
BeatsKept == \A h \in Beats :
  /\ beat[h].status # "absent" => beat'[h].status # "absent"
  /\ beat'[h].locked = beat[h].locked
\* Every slot keeps its heartbeat or drops it, and none is admitted.
SlotsKept == \A v \in Workers :
  \/ inv'[v].beat = None /\ inv'[v].pc \notin {"opened", "linked"}
  \/ /\ inv'[v].beat = inv[v].beat
     /\ inv'[v].pc \in {"opened", "linked"} => inv[v].pc \in {"opened", "linked"}

\* A step that clears or keeps one lock, and no other, is a release.
LEMMA LockUpdate ==
  ASSUME NEW c \in Cards, card'[c].lock \in {None, card[c].lock},
         \A d \in Cards \ {c} : card'[d] = card[d]
  PROVE  LocksKept
BY DEF LocksKept

\* Ending a heartbeat keeps its row and its lock history.
LEMMA BeatEnded ==
  ASSUME Rows, NEW h, NEW s \in Ended, beat' = [beat EXCEPT ![h].status = s]
  PROVE  BeatsKept
<1>1. s # "absent"
  BY DEF Ended
<1>2. \A x \in Beats : beat'[x].status \in {s, beat[x].status} /\ beat'[x].locked = beat[x].locked
  BY DEF Rows, TypeOK, BeatRow
<1>3. QED
  BY <1>1, <1>2 DEF BeatsKept

\* A slot that keeps or drops its heartbeat.
LEMMA SlotKept ==
  ASSUME Rows, NEW w \in Workers, NEW i, inv' = [inv EXCEPT ![w] = i],
         \/ i.beat = None /\ i.pc \notin {"opened", "linked"}
         \/ i.beat = inv[w].beat /\ (i.pc \in {"opened", "linked"} => inv[w].pc \in {"opened", "linked"})
  PROVE  SlotsKept
<1>1. inv'[w] = i /\ \A v \in Workers \ {w} : inv'[v] = inv[v]
  BY DEF Rows, TypeOK
<1>2. QED
  BY <1>1 DEF SlotsKept

\* A step that leaves a table alone keeps its history.
LEMMA NothingKept ==
  /\ UNCHANGED card => LocksKept
  /\ UNCHANGED beat => BeatsKept
  /\ UNCHANGED inv => SlotsKept
BY DEF LocksKept, BeatsKept, SlotsKept

\* A slot that moves past the lock keeps its heartbeat.
MovesOn(w) == inv'[w].pc \notin {"opened", "linked"} /\ inv'[w].beat = inv[w].beat

\* One slot moves on, the others stay.
LEMMA SlotMoved ==
  ASSUME NEW w \in Workers, MovesOn(w), \A v \in Workers \ {w} : inv'[v] = inv[v]
  PROVE  SlotsKept
BY DEF MovesOn, SlotsKept

\* Settling a heartbeat moves one slot on.
LEMMA SettleSlots ==
  ASSUME Rows, NEW w \in Workers, NEW s, Settle(w, s)
  PROVE  MovesOn(w) /\ \A v \in Workers \ {w} : inv'[v] = inv[v]
<1>1. inv[w] \in Invocation /\ DOMAIN inv = Workers
  BY DEF Rows, TypeOK
<1>2. QED
  BY <1>1 DEF Settle, MovesOn, Invocation

\* Admission keeps the slots' heartbeats, but for openHeartbeatRun.
LEMMA AdmissionSlots ==
  ASSUME Rows, NEW w \in Workers, Admission(w), ~OpenBeat(w)
  PROVE  SlotsKept
<1>1. inv[w] \in Invocation /\ DOMAIN inv = Workers
  BY DEF Rows, TypeOK
<1>2. CASE ClaimRun(w)
  BY <1>2, SlotKept DEF ClaimRun, Resting
<1>3. CASE ChooseAgent(w)
  BY <1>1, <1>3, SlotMoved DEF ChooseAgent, MovesOn, Invocation
<1>4. CASE RefuseDispatch(w)
  BY <1>1, <1>4, SlotMoved DEF RefuseDispatch, MovesOn, Invocation
<1>5. CASE ClaimCapacity(w)
  BY <1>1, <1>5, SlotMoved DEF ClaimCapacity, Goto, MovesOn, Invocation
<1>6. CASE LinkBeat(w)
  BY <1>6, SlotKept, SlotType DEF LinkBeat, Goto, Invocation
<1>7. QED
  BY <1>2, <1>3, <1>4, <1>5, <1>6 DEF Admission

\* An attempt keeps the slots' heartbeats.
LEMMA AttemptSlots ==
  ASSUME Rows, NEW w \in Workers, Attempt(w)
  PROVE  SlotsKept
<1>1. inv[w] \in Invocation /\ DOMAIN inv = Workers
  BY DEF Rows, TypeOK
<1>2. CASE AcquireLock(w)
  BY <1>1, <1>2, SlotMoved DEF AcquireLock, Goto, MovesOn, Invocation
<1>3. CASE LockRefused(w)
  BY <1>1, <1>3, SlotMoved DEF LockRefused, Goto, MovesOn, Invocation
<1>4. CASE FreeRefused(w)
  BY <1>1, <1>4, SlotMoved DEF FreeRefused, Goto, MovesOn, Invocation
<1>5. CASE CheckCurrent(w)
  BY <1>1, <1>5, SlotMoved, SettleSlots DEF CheckCurrent, Goto, MovesOn, Invocation
<1>6. CASE AdapterReturns(w)
  BY <1>1, <1>6, SlotMoved, SettleSlots DEF AdapterReturns, Goto, MovesOn, Invocation
<1>7. CASE PersistProducts(w)
  BY <1>1, <1>7, SlotMoved, SettleSlots DEF PersistProducts, Goto, MovesOn, Invocation
<1>8. CASE Complete(w)
  BY <1>1, <1>8, SlotMoved, SettleSlots DEF Complete, Goto, MovesOn, Invocation
<1>9. CASE Delegate(w)
  BY <1>1, <1>9, SlotMoved DEF Delegate, Goto, MovesOn, Invocation
<1>10. CASE Handoff(w)
  BY <1>1, <1>10, SlotMoved DEF Handoff, Goto, MovesOn, Invocation
<1>11. CASE Fail(w)
  BY <1>1, <1>11, SlotMoved, SettleSlots DEF Fail, Goto, MovesOn, Invocation
<1>12. CASE Park(w)
  BY <1>1, <1>12, SlotMoved, SettleSlots DEF Park, Goto, MovesOn, Invocation
<1>13. CASE RecoverParked(w)
  BY <1>1, <1>13, SlotMoved DEF RecoverParked, Goto, MovesOn, Invocation
<1>14. CASE Scold(w)
  BY <1>1, <1>14, SlotMoved DEF Scold, Goto, MovesOn, Invocation
<1>15. CASE FreeScolded(w)
  BY <1>1, <1>15, SlotMoved DEF FreeScolded, Goto, MovesOn, Invocation
<1>16. CASE FailScolded(w)
  BY <1>1, <1>16, SlotMoved DEF FailScolded, Goto, MovesOn, Invocation
<1>17. QED
  BY <1>2, <1>3, <1>4, <1>5, <1>6, <1>7, <1>8, <1>9, <1>10, <1>11, <1>12, <1>13, <1>14, <1>15, <1>16 DEF Attempt

\* What follows a result keeps the slots' heartbeats or drops one.
LEMMA AftermathSlots ==
  ASSUME Rows, NEW w \in Workers, Aftermath(w)
  PROVE  SlotsKept
<1>1. inv[w] \in Invocation /\ DOMAIN inv = Workers
  BY DEF Rows, TypeOK
<1>2. CASE SettleRun(w)
  BY <1>1, <1>2, SlotMoved DEF SettleRun, Goto, MovesOn, Invocation
<1>3. CASE EnqueueFollowUp(w)
  BY <1>1, <1>3, SlotMoved DEF EnqueueFollowUp, Goto, MovesOn, Invocation
<1>4. CASE FinishRun(w)
  BY <1>1, <1>4, SlotMoved DEF FinishRun, Goto, MovesOn, Invocation
<1>5. CASE Requeue(w)
  BY <1>1, <1>5, SlotMoved DEF Requeue, Goto, MovesOn, Invocation
<1>6. CASE FailRun(w)
  BY <1>1, <1>6, SlotMoved DEF FailRun, Goto, MovesOn, Invocation
<1>7. CASE ReadFailedCard(w)
  BY <1>1, <1>7, SlotMoved DEF ReadFailedCard, Goto, MovesOn, Invocation
<1>8. CASE RetryFailedCard(w)
  BY <1>1, <1>8, SlotMoved DEF RetryFailedCard, Goto, MovesOn, Invocation
<1>9. CASE FreeAssignee(w)
  BY <1>1, <1>9, SlotMoved DEF FreeAssignee, Goto, MovesOn, Invocation
<1>10. CASE Refresh(w)
  BY <1>10, SlotKept DEF Refresh, Resting
<1>11. QED
  BY <1>2, <1>3, <1>4, <1>5, <1>6, <1>7, <1>8, <1>9, <1>10 DEF Aftermath

-----------------------------------------------------------------------------
\* Settling a heartbeat touches no lock.
LEMMA SettleBeats ==
  ASSUME Rows, NEW w \in Workers, NEW s \in Ended, Settle(w, s)
  PROVE  BeatsKept /\ LocksKept
BY BeatEnded, NothingKept DEF Settle

\* Only openHeartbeatRun and acquireExecutionLock do more to a heartbeat than end it.
LEMMA WorkerBeats ==
  ASSUME Rows, NEW w \in Workers, Worker(w), ~OpenBeat(w), ~AcquireLock(w)
  PROVE  BeatsKept
<1>1. CASE Admission(w)
  BY <1>1, NothingKept DEF Admission, ClaimRun, ChooseAgent, RefuseDispatch, ClaimCapacity, LinkBeat
<1>2. CASE Aftermath(w)
  BY <1>2, NothingKept DEF Aftermath, SettleRun, EnqueueFollowUp, FinishRun, Requeue, FailRun,
     ReadFailedCard, RetryFailedCard, FreeAssignee, Refresh
<1>3. CASE LockRefused(w) \/ Delegate(w) \/ Handoff(w) \/ FailScolded(w)
  BY <1>3, BeatEnded DEF LockRefused, Delegate, Handoff, FailScolded, Ended
<1>4. CASE FreeRefused(w) \/ RecoverParked(w) \/ Scold(w) \/ FreeScolded(w)
  BY <1>4, NothingKept DEF FreeRefused, RecoverParked, Scold, FreeScolded
<1>5. CASE CheckCurrent(w)
  BY <1>5, SettleBeats, NothingKept DEF CheckCurrent, Ended
<1>6. CASE AdapterReturns(w)
  BY <1>6, SettleBeats, StatusOfEnded, NothingKept DEF AdapterReturns
<1>7. CASE PersistProducts(w)
  BY <1>7, SettleBeats, NothingKept DEF PersistProducts, Ended
<1>8. CASE Complete(w)
  BY <1>8, SettleBeats, BeatEnded DEF Complete, Ended
<1>9. CASE Fail(w)
  BY <1>9, SettleBeats, StatusOfEnded, BeatEnded DEF Fail, Ended
<1>10. CASE Park(w)
  BY <1>10, SettleBeats, BeatEnded, NothingKept DEF Park, Ended
<1>11. QED
  BY <1>1, <1>2, <1>3, <1>4, <1>5, <1>6, <1>7, <1>8, <1>9, <1>10 DEF Worker, Attempt

\* Only acquireExecutionLock gives a lock; the others keep it or clear one.
LEMMA WorkerLocks ==
  ASSUME Rows, LimitAssumption, NEW w \in Workers, Worker(w), ~AcquireLock(w)
  PROVE  LocksKept
<1>1. CASE Admission(w)
  BY <1>1, NothingKept DEF Admission, ClaimRun, ChooseAgent, RefuseDispatch, ClaimCapacity,
     OpenBeat, LinkBeat
<1>2. CASE Aftermath(w) /\ ~RetryFailedCard(w)
  BY <1>2, NothingKept DEF Aftermath, SettleRun, EnqueueFollowUp, FinishRun, Requeue, FailRun,
     ReadFailedCard, FreeAssignee, Refresh
<1>3. CASE LockRefused(w) \/ FreeRefused(w) \/ FreeScolded(w) \/ FailScolded(w)
  BY <1>3, NothingKept DEF LockRefused, FreeRefused, FreeScolded, FailScolded
<1>4. CASE CheckCurrent(w)
  BY <1>4, SettleBeats, NothingKept DEF CheckCurrent, Ended
<1>5. CASE AdapterReturns(w)
  BY <1>5, SettleBeats, StatusOfEnded, NothingKept DEF AdapterReturns
<1>6. CASE PersistProducts(w)
  BY <1>6, SettleBeats, NothingKept DEF PersistProducts, Ended
<1> DEFINE c == inv[w].card
<1>7. /\ inv[w].pc # "idle" => c \in Cards /\ card[c] \in CardRow
      /\ DOMAIN card = Cards
  BY SlotFacts DEF Rows, TypeOK
<1>8. CASE Complete(w)
  <2>1. CASE ~StillCurrent(c, inv[w].view, inv[w].run)
    BY <1>8, <2>1, SettleBeats DEF Complete, Ended
  <2>2. CASE StillCurrent(c, inv[w].view, inv[w].run)
    <3>1. PICK s \in Finished \cup {"in_progress"} :
            \E row \in Repaired(Unlocked(card[c], s, 0)) : card' = [card EXCEPT ![c] = row]
      BY <1>8, <2>2 DEF Complete
    <3>2. PICK row \in Repaired(Unlocked(card[c], s, 0)) : card' = [card EXCEPT ![c] = row]
      BY <3>1
    <3>3. s \in Statuses /\ 0 \in 0..MaxRetries
      <4>1. s \in Statuses
        BY LimitAssumption, <3>1 DEF LimitAssumption, Statuses
      <4>2. 0 \in 0..MaxRetries
        BY LimitAssumption DEF LimitAssumption
      <4>3. QED
        BY <4>1, <4>2
    <3>4. row.lock = None
      <4>1. Unlocked(card[c], s, 0) \in CardRow
        BY <1>7, <1>8, <3>3, UnlockedRow DEF Complete
      <4>2. Unlocked(card[c], s, 0).lock = None
        BY <1>7, <1>8 DEF Complete, Unlocked, CardRow
      <4>3. QED
        BY <3>2, <4>1, <4>2, RepairedRows
    <3>5. card'[c].lock = None /\ \A d \in Cards \ {c} : card'[d] = card[d]
      BY <1>7, <1>8, <3>2, <3>4 DEF Complete
    <3>6. QED
      BY <1>7, <1>8, <3>5, LockUpdate DEF Complete
  <2>3. QED
    BY <2>1, <2>2
<1>9. CASE Delegate(w)
  <2> DEFINE free == Unlocked(card[c], "in_progress", 0)
  <2>1. free \in CardRow
    <3>1. 0 \in 0..MaxRetries
      BY DEF LimitAssumption
    <3>2. QED
      BY <1>7, <1>9, <3>1, UnlockedRow DEF Delegate, Statuses
  <2>2. free.lock = None
    BY <1>7, <1>9 DEF Delegate, Unlocked, CardRow
  <2>3. PICK row \in Repaired(free) : card' = [card EXCEPT ![c] = row]
    BY <1>9 DEF Delegate
  <2>4. row.lock = None
    BY <2>1, <2>2, <2>3, RepairedRows
  <2>5. card'[c].lock = None /\ \A d \in Cards \ {c} : card'[d] = card[d]
    BY <1>7, <1>9, <2>3, <2>4 DEF Delegate
  <2>6. QED
    BY <1>7, <1>9, <2>5, LockUpdate DEF Delegate
<1>10. CASE Handoff(w)
  <2>1. PICK a : card' = [card EXCEPT ![c] = [Unlocked(card[c], "todo", 0) EXCEPT !.assignee = a]]
    BY <1>10 DEF Handoff
  <2>2. [Unlocked(card[c], "todo", 0) EXCEPT !.assignee = a].lock = None
    BY <1>7, <1>10 DEF Handoff, Unlocked, CardRow
  <2>3. card'[c].lock = None /\ \A d \in Cards \ {c} : card'[d] = card[d]
    BY <1>7, <1>10, <2>1, <2>2 DEF Handoff
  <2>4. QED
    BY <1>7, <1>10, <2>3, LockUpdate DEF Handoff
<1>11. CASE Fail(w)
  <2>1. CASE ~ResultAuthority(w)
    BY <1>11, <2>1, SettleBeats, StatusOfEnded DEF Fail, Ended
  <2>2. CASE ResultAuthority(w)
    <3>1. PICK row \in AfterFailure(card[c], inv[w].view.retries) : card' = [card EXCEPT ![c] = row]
      BY <1>11, <2>2 DEF Fail
    <3>2. row.lock = None
      BY <1>11, SlotFacts, FailureRows DEF Fail, Holding
    <3>3. card'[c].lock = None /\ \A d \in Cards \ {c} : card'[d] = card[d]
      BY <1>7, <1>11, <3>1, <3>2 DEF Fail
    <3>4. QED
      BY <1>7, <1>11, <3>3, LockUpdate DEF Fail
  <2>3. QED
    BY <2>1, <2>2
<1>12. CASE Park(w)
  <2>1. CASE ~ResultAuthority(w)
    BY <1>12, <2>1, SettleBeats DEF Park, Ended
  <2>2. CASE ResultAuthority(w)
    <3>1. Unlocked(card[c], "blocked", card[c].retries).lock = None
      BY <1>7, <1>12 DEF Park, Unlocked, CardRow
    <3>2. card'[c].lock = None /\ \A d \in Cards \ {c} : card'[d] = card[d]
      BY <1>7, <1>12, <2>2, <3>1 DEF Park
    <3>3. QED
      BY <1>7, <1>12, <3>2, LockUpdate DEF Park
  <2>3. QED
    BY <2>1, <2>2
<1>13. CASE RecoverParked(w)
  <2>1. CASE UNCHANGED card
    BY <2>1, NothingKept
  <2>2. CASE ~UNCHANGED card
    <3>1. PICK row \in Recovered(card[c]) : card' = [card EXCEPT ![c] = row]
      BY <1>13, <2>2 DEF RecoverParked
    <3>2. row.lock = card[c].lock
      BY <1>7, <1>13, <3>1, RecoveredRows DEF RecoverParked
    <3>3. card'[c].lock = card[c].lock /\ \A d \in Cards \ {c} : card'[d] = card[d]
      BY <1>7, <1>13, <3>1, <3>2 DEF RecoverParked
    <3>4. QED
      BY <1>7, <1>13, <3>3, LockUpdate DEF RecoverParked
  <2>3. QED
    BY <2>1, <2>2
<1>14. CASE Scold(w)
  <2>1. CASE UNCHANGED card
    BY <2>1, NothingKept
  <2>2. CASE ~UNCHANGED card
    <3>1. PICK row \in Corrected(card[c]) : card' = [card EXCEPT ![c] = row]
      BY <1>14, <2>2 DEF Scold
    <3>2. row.lock = None
      BY <1>7, <1>14, <3>1, CorrectedRows DEF Scold
    <3>3. card'[c].lock = None /\ \A d \in Cards \ {c} : card'[d] = card[d]
      BY <1>7, <1>14, <3>1, <3>2 DEF Scold
    <3>4. QED
      BY <1>7, <1>14, <3>3, LockUpdate DEF Scold
  <2>3. QED
    BY <2>1, <2>2
<1>15. CASE RetryFailedCard(w)
  <2>1. CASE UNCHANGED card
    BY <2>1, NothingKept
  <2>2. CASE ~UNCHANGED card
    <3>1. PICK row \in AfterFailure(card[c], inv[w].view.retries) : card' = [card EXCEPT ![c] = row]
      BY <1>15, <2>2 DEF RetryFailedCard
    <3>2. row.lock = None
      BY <1>15, SlotFacts, FailureRows DEF RetryFailedCard
    <3>3. card'[c].lock = None /\ \A d \in Cards \ {c} : card'[d] = card[d]
      BY <1>7, <1>15, <3>1, <3>2 DEF RetryFailedCard
    <3>4. QED
      BY <1>7, <1>15, <3>3, LockUpdate DEF RetryFailedCard
  <2>3. QED
    BY <2>1, <2>2
<1>16. QED
  BY <1>1, <1>2, <1>3, <1>4, <1>5, <1>6, <1>8, <1>9, <1>10, <1>11, <1>12, <1>13, <1>14, <1>15
     DEF Worker, Attempt, Aftermath

\* Renewal, expiry and the stale-claim recovery change no owner.
LEMMA RenewExpireKept ==
  ASSUME Rows, \/ \E w \in Workers : RenewLock(w)
               \/ \E c \in Cards : ExpireLock(c)
               \/ \E r \in Runs : RecoverStaleRun(r)
  PROVE  LocksKept /\ BeatsKept /\ SlotsKept
<1>1. \A c \in Cards : \A b : [card[c] EXCEPT !.expired = b].lock = card[c].lock
  BY DEF Rows, TypeOK, CardRow
<1>2. CASE \E w \in Workers : RenewLock(w)
  <2>1. \A c \in Cards : card'[c].lock = card[c].lock
    BY <1>1, <1>2 DEF RenewLock, Rows, TypeOK
  <2>2. QED
    BY <1>2, <2>1, NothingKept DEF RenewLock, LocksKept
<1>3. CASE \E c \in Cards : ExpireLock(c)
  <2>1. \A c \in Cards : card'[c].lock = card[c].lock
    BY <1>1, <1>3 DEF ExpireLock, Rows, TypeOK
  <2>2. QED
    BY <1>3, <2>1, NothingKept DEF ExpireLock, LocksKept
<1>4. CASE \E r \in Runs : RecoverStaleRun(r)
  BY <1>4, NothingKept DEF RecoverStaleRun
<1>5. QED
  BY <1>2, <1>3, <1>4

\* The recovery of an expired lock releases at most that lock.
LEMMA RecoverLockKept ==
  ASSUME Rows, LimitAssumption, RecoverLock
  PROVE  LocksKept
<1>1. CASE UNCHANGED card
  BY <1>1, NothingKept
<1>2. CASE ~UNCHANGED card
  <2>1. PICK s \in tick.stale :
          \/ \E row \in AfterFailure(card[s[1]], s[2].retries) : card' = [card EXCEPT ![s[1]] = row]
          \/ card' = [card EXCEPT ![s[1]] = Unlocked(card[s[1]], s[2].status, s[2].retries)]
    BY <1>2 DEF RecoverLock
  <2> DEFINE c == s[1]
  <2>2. s \in Cards \X CardRow
    BY TableTypes DEF TickRow
  <2>3. c \in Cards /\ card[c] \in CardRow /\ s[2] \in CardRow
    BY <2>2, TableTypes
  <2>4. s[2].retries \in 0..MaxRetries
    BY <2>3 DEF CardRow
  <2>5. PICK row : card' = [card EXCEPT ![c] = row] /\ row.lock = None
    <3>1. Unlocked(card[c], s[2].status, s[2].retries).lock = None
      BY <2>3 DEF Unlocked, CardRow
    <3>2. \A row \in AfterFailure(card[c], s[2].retries) : row.lock = None
      BY <2>3, <2>4, FailureRows
    <3>3. QED
      BY <2>1, <3>1, <3>2
  <2>6. card'[c].lock = None /\ \A d \in Cards \ {c} : card'[d] = card[d]
    BY <2>3, <2>5 DEF Rows, TypeOK
  <2>7. QED
    BY <2>3, <2>6, LockUpdate
<1>3. QED
  BY <1>1, <1>2

\* The cron tick gives no lock and opens no heartbeat.
LEMMA TickKept ==
  ASSUME Rows, LimitAssumption, Tick
  PROVE  LocksKept /\ BeatsKept /\ SlotsKept
<1>1. CASE RecoverLock
  BY <1>1, RecoverLockKept, NothingKept DEF RecoverLock
<1>2. CASE FailLockBeat
  BY <1>2, BeatEnded, NothingKept DEF FailLockBeat, Ended
<1>3. CASE StartTick \/ FreeLockAgent \/ FailLockRuns \/ ScanCards \/ EnqueueScanned \/ EndTick
  BY <1>3, NothingKept DEF StartTick, FreeLockAgent, FailLockRuns, ScanCards, EnqueueScanned, EndTick
<1>4. QED
  BY <1>1, <1>2, <1>3 DEF Tick

\* Operator commands give no lock and open no heartbeat.
LEMMA OperatorKept ==
  ASSUME Rows, Operator
  PROVE  LocksKept /\ BeatsKept /\ SlotsKept
<1>1. CASE CancelBeat
  BY <1>1, BeatEnded, NothingKept DEF CancelBeat, Ended
<1>2. CASE CancelBeats
  <2>1. \A h \in Beats : /\ beat[h] \in BeatRow
                         /\ beat'[h] \in {beat[h], [beat[h] EXCEPT !.status = "cancelled"]}
    BY <1>2 DEF CancelBeats, Rows, TypeOK
  <2>2. BeatsKept
    BY <2>1 DEF BeatsKept, BeatRow
  <2>3. QED
    BY <1>2, <2>2, NothingKept DEF CancelBeats
<1>3. CASE CancelCard
  <2>1. CASE cmd.card \in Cards
    <3>1. Unlocked(card[cmd.card], "cancelled", card[cmd.card].retries).lock = None
      BY <2>1, TableTypes DEF Unlocked, CardRow
    <3>2. card'[cmd.card].lock = None /\ \A d \in Cards \ {cmd.card} : card'[d] = card[d]
      BY <1>3, <2>1, <3>1 DEF CancelCard, Rows, TypeOK
    <3>3. QED
      BY <1>3, <2>1, <3>2, LockUpdate, NothingKept DEF CancelCard
  <2>2. CASE cmd.card \notin Cards
    BY <1>3, <2>2, NothingKept DEF CancelCard, LocksKept, Rows, TypeOK
  <2>3. QED
    BY <2>1, <2>2
<1>4. CASE ContinueCard
  <2>1. \A c \in Cards : [card[c] EXCEPT !.status = "todo"].lock = card[c].lock
    BY DEF Rows, TypeOK, CardRow
  <2>2. \A c \in Cards : card'[c].lock = card[c].lock
    BY <1>4, <2>1 DEF ContinueCard, Rows, TypeOK
  <2>3. QED
    BY <1>4, <2>2, NothingKept DEF ContinueCard, LocksKept
<1>5. CASE CancelAgents \/ CancelCapacity \/ \E c \in Cards : CancelRuns(c) \/ ContinueAgent(c)
  BY <1>5, NothingKept DEF CancelAgents, CancelCapacity, CancelRuns, ContinueAgent
<1>6. QED
  BY <1>1, <1>2, <1>3, <1>4, <1>5 DEF Operator

\* A restart changes no lock and no heartbeat.
LEMMA CrashKept ==
  ASSUME Rows, Crash
  PROVE  LocksKept /\ BeatsKept /\ SlotsKept
<1>1. SlotsKept
  BY DEF Crash, Resting, SlotsKept
<1>2. QED
  BY <1>1, NothingKept DEF Crash

\* Every step but openHeartbeatRun's and acquireExecutionLock's keeps the three.
LEMMA StepKept ==
  ASSUME Rows, LimitAssumption, [Next]_vars,
         \A w \in Workers : ~OpenBeat(w) /\ ~AcquireLock(w)
  PROVE  LocksKept /\ BeatsKept /\ SlotsKept
<1>1. CASE UNCHANGED vars
  BY <1>1, NothingKept DEF vars
<1>2. ASSUME NEW w \in Workers, Worker(w) PROVE LocksKept /\ BeatsKept /\ SlotsKept
  <2>1. SlotsKept
    BY <1>2, AdmissionSlots, AttemptSlots, AftermathSlots DEF Worker
  <2>2. QED
    BY <1>2, <2>1, WorkerLocks, WorkerBeats
<1>3. QED
  BY <1>1, <1>2, RenewExpireKept, TickKept, OperatorKept, CrashKept DEF Next

-----------------------------------------------------------------------------
\* Steps of that kind preserve the lock history.
LEMMA KeptHistory ==
  ASSUME LeaseInv, Rows', LocksKept, BeatsKept, SlotsKept
  PROVE  OwnBeats' /\ LockHistory'
<1>1. \A v \in Workers : inv[v].beat \in Beats \cup {None} /\ inv'[v].beat \in {None, inv[v].beat}
  BY DEF LeaseInv, Rows, TypeOK, Invocation, SlotsKept
<1>2. \A c \in Cards : /\ card[c].lock \in Beats \cup {None}
                       /\ card'[c].lock \in {None, card[c].lock}
  BY DEF LeaseInv, Rows, TypeOK, CardRow, LocksKept
<1>3. OwnBeats'
  BY <1>1 DEF LeaseInv, OwnBeats, BeatsKept
<1>4. \A h \in Beats : beat'[h].locked => beat'[h].status # "absent"
  BY DEF LeaseInv, LockHistory, BeatsKept
<1>5. \A c \in Cards : card'[c].lock # None => beat'[card'[c].lock].locked
  BY <1>2 DEF LeaseInv, LockHistory, BeatsKept
<1>6. ASSUME NEW w \in Workers, inv'[w].pc \in {"opened", "linked"}
      PROVE  ~beat'[inv'[w].beat].locked
  <2>1. inv'[w].beat = inv[w].beat /\ inv[w].pc \in {"opened", "linked"}
    BY <1>6 DEF SlotsKept
  <2>2. inv[w].beat \in Beats
    BY <2>1 DEF LeaseInv, Rows, Memory, Remembers
  <2>3. QED
    BY <2>1, <2>2 DEF LeaseInv, LockHistory, BeatsKept
<1>7. QED
  BY <1>3, <1>4, <1>5, <1>6 DEF LockHistory

\* A new heartbeat is nobody else's and never held a lock.
LEMMA OpenBeatHistory ==
  ASSUME LeaseInv, IdentityAssumption, NEW w \in Workers, OpenBeat(w)
  PROVE  OwnBeats' /\ LockHistory'
<1>1. PICK h \in Beats :
        /\ beat[h].status = "absent"
        /\ beat' = [beat EXCEPT ![h] = [status |-> "running", card |-> inv[w].card,
                                        agent |-> inv[w].agent, locked |-> FALSE]]
        /\ inv' = [inv EXCEPT ![w].pc = "opened", ![w].beat = h]
  BY DEF OpenBeat, AbsentBeats
<1>2. inv[w] \in Invocation /\ DOMAIN inv = Workers /\ DOMAIN beat = Beats
  BY DEF LeaseInv, Rows, TypeOK
<1>3. inv'[w].beat = h /\ \A v \in Workers \ {w} : inv'[v] = inv[v]
  BY <1>1, <1>2 DEF Invocation
<1>4. /\ beat'[h].status = "running" /\ beat'[h].locked = FALSE
      /\ \A x \in Beats \ {h} : beat'[x] = beat[x]
  BY <1>1, <1>2
<1>5. \A v \in Workers : inv[v].beat # h /\ inv[v].beat \in Beats \cup {None}
  BY <1>1 DEF LeaseInv, OwnBeats, Rows, TypeOK, Invocation, IdentityAssumption
<1>6. \A c \in Cards : card[c].lock # h /\ card[c].lock \in Beats \cup {None}
  BY <1>1 DEF LeaseInv, LockHistory, Rows, TypeOK, CardRow, IdentityAssumption
<1>7. OwnBeats'
  BY <1>3, <1>4, <1>5 DEF LeaseInv, OwnBeats
<1>8. \A x \in Beats : beat'[x].locked => beat'[x].status # "absent"
  BY <1>4 DEF LeaseInv, LockHistory
<1>9. \A c \in Cards : card'[c].lock # None => beat'[card'[c].lock].locked
  BY <1>4, <1>6 DEF OpenBeat, LeaseInv, LockHistory
<1>10. ASSUME NEW v \in Workers, inv'[v].pc \in {"opened", "linked"}
       PROVE  ~beat'[inv'[v].beat].locked
  <2>1. CASE v = w
    BY <1>3, <1>4, <2>1
  <2>2. CASE v # w
    <3>1. inv'[v] = inv[v] /\ inv[v].beat \in Beats \ {h}
      BY <1>3, <1>5, <1>10, <2>2 DEF LeaseInv, Rows, Memory, Remembers
    <3>2. QED
      BY <1>4, <1>10, <3>1 DEF LeaseInv, LockHistory
  <2>3. QED
    BY <2>1, <2>2
<1>11. QED
  BY <1>7, <1>8, <1>9, <1>10 DEF LockHistory

\* What acquireExecutionLock writes.
LEMMA AcquireLockEffect ==
  ASSUME LeaseInv, IdentityAssumption, NEW w \in Workers, AcquireLock(w)
  PROVE  LET c == inv[w].card  h == inv[w].beat IN
         /\ c \in Cards /\ h \in Beats /\ ~beat[h].locked /\ beat[h].status # "absent"
         /\ card'[c].lock = h /\ \A d \in Cards \ {c} : card'[d] = card[d]
         /\ beat'[h].locked /\ beat'[h].status = beat[h].status
         /\ \A x \in Beats \ {h} : beat'[x] = beat[x]
         /\ inv'[w].beat = h /\ inv'[w].pc = "locked"
         /\ \A v \in Workers \ {w} : inv'[v] = inv[v]
<1> DEFINE c == inv[w].card
           h == inv[w].beat
<1>1. inv[w] \in Invocation /\ c \in Cards /\ h \in Beats
  BY SlotType DEF LeaseInv, AcquireLock, Remembers
<1>2. ~beat[h].locked /\ beat[h].status # "absent"
  <2>1. inv[w].pc = "linked" /\ inv[w].beat # None
    BY <1>1 DEF AcquireLock, IdentityAssumption
  <2>2. QED
    BY <2>1 DEF LeaseInv, LockHistory, OwnBeats
<1>3. card[c] \in CardRow /\ beat[h] \in BeatRow
  BY <1>1 DEF LeaseInv, Rows, TypeOK
<1>4. /\ DOMAIN card = Cards /\ DOMAIN beat = Beats /\ DOMAIN inv = Workers
  BY DEF LeaseInv, Rows, TypeOK
<1>5. card'[c].lock = h /\ \A d \in Cards \ {c} : card'[d] = card[d]
  BY <1>1, <1>3, <1>4 DEF AcquireLock, CardRow
<1>6. beat'[h].locked /\ beat'[h].status = beat[h].status /\ \A x \in Beats \ {h} : beat'[x] = beat[x]
  BY <1>1, <1>3, <1>4 DEF AcquireLock, BeatRow
<1>7. inv'[w].beat = h /\ inv'[w].pc = "locked" /\ \A v \in Workers \ {w} : inv'[v] = inv[v]
  BY <1>1, <1>4 DEF AcquireLock, Invocation
<1>8. QED
  BY <1>1, <1>2, <1>5, <1>6, <1>7

\* A granted lock goes to a heartbeat that never held one.
LEMMA AcquireLockHistory ==
  ASSUME LeaseInv, IdentityAssumption, NEW w \in Workers, AcquireLock(w)
  PROVE  OwnBeats' /\ LockHistory'
<1> DEFINE c == inv[w].card
           h == inv[w].beat
<1>1. /\ c \in Cards /\ h \in Beats /\ ~beat[h].locked /\ beat[h].status # "absent"
      /\ card'[c].lock = h /\ \A d \in Cards \ {c} : card'[d] = card[d]
      /\ beat'[h].locked /\ beat'[h].status = beat[h].status
      /\ \A x \in Beats \ {h} : beat'[x] = beat[x]
      /\ inv'[w].beat = h /\ inv'[w].pc = "locked"
      /\ \A v \in Workers \ {w} : inv'[v] = inv[v]
  BY AcquireLockEffect
<1> HIDE DEF c, h
<1>2. h # None /\ inv[w].beat = h
  BY <1>1 DEF IdentityAssumption, h
<1>3. \A v \in Workers : inv'[v].beat = inv[v].beat /\ inv[v].beat \in Beats \cup {None}
  BY <1>1, <1>2 DEF LeaseInv, Rows, TypeOK, Invocation
<1>4. \A x \in Beats : beat'[x].status = beat[x].status
  BY <1>1
<1>5. OwnBeats'
  BY <1>3, <1>4 DEF LeaseInv, OwnBeats
<1>6. \A x \in Beats : beat'[x].locked => beat'[x].status # "absent"
  BY <1>1 DEF LeaseInv, LockHistory
<1>7. \A d \in Cards : card[d].lock \in Beats \cup {None}
  BY DEF LeaseInv, Rows, TypeOK, CardRow
<1>8. \A d \in Cards : card'[d].lock # None => beat'[card'[d].lock].locked
  BY <1>1, <1>7 DEF LeaseInv, LockHistory
<1>9. ASSUME NEW v \in Workers, inv'[v].pc \in {"opened", "linked"}
      PROVE  ~beat'[inv'[v].beat].locked
  <2>1. v # w
    BY <1>1, <1>9
  <2>2. inv'[v] = inv[v]
    BY <1>1, <2>1
  <2>3. inv[v].beat \in Beats
    BY <1>9, <2>2 DEF LeaseInv, Rows, Memory, Remembers
  <2>4. inv[v].beat # h
    BY <1>2, <2>1, <2>3 DEF LeaseInv, OwnBeats, IdentityAssumption
  <2>5. QED
    BY <1>1, <1>9, <2>2, <2>3, <2>4 DEF LeaseInv, LockHistory
<1>10. QED
  BY <1>5, <1>6, <1>8, <1>9 DEF LockHistory

\* The invariant holds initially.
LEMMA InitLease ==
  ASSUME IdentityAssumption, LimitAssumption, Init
  PROVE  LeaseInv
<1>1. Rows
  BY InitRows
<1>2. OwnBeats
  BY DEF Init, OwnBeats, Resting
<1>3. LockHistory
  BY DEF Init, LockHistory, Resting
<1>4. QED
  BY <1>1, <1>2, <1>3 DEF LeaseInv

\* The invariant is inductive.
LEMMA StepLease ==
  ASSUME LeaseInv, IdentityAssumption, LimitAssumption, [Next]_vars
  PROVE  LeaseInv'
<1>1. Rows'
  BY StepRows DEF LeaseInv
<1>2. CASE \E w \in Workers : OpenBeat(w)
  BY <1>1, <1>2, OpenBeatHistory DEF LeaseInv
<1>3. CASE \E w \in Workers : AcquireLock(w)
  BY <1>1, <1>3, AcquireLockHistory DEF LeaseInv
<1>4. CASE \A w \in Workers : ~OpenBeat(w) /\ ~AcquireLock(w)
  <2>1. LocksKept /\ BeatsKept /\ SlotsKept
    BY <1>4, StepKept DEF LeaseInv
  <2>2. QED
    BY <1>1, <2>1, KeptHistory DEF LeaseInv
<1>5. QED
  BY <1>2, <1>3, <1>4

\* The lock history: a lock is a heartbeat that took it once, and no two slots ever
\* share a heartbeat (openHeartbeatRun, acquireExecutionLock).
THEOREM LeaseInvariant == Spec => []LeaseInv
<1>1. Init => LeaseInv
  BY IdentityAssumption, LimitAssumption, InitLease
<1>2. LeaseInv /\ [Next]_vars => LeaseInv'
  BY IdentityAssumption, LimitAssumption, StepLease
<1>3. QED
  BY <1>1, <1>2, PTL DEF Spec

\* Two authorized attempts on one card would share a heartbeat.
LEMMA LeaseExcludes ==
  ASSUME LeaseInv, IdentityAssumption
  PROVE  ExclusiveAuthority
<1>1. SUFFICES ASSUME NEW v \in Workers, NEW w \in Workers, v # w, Authorized(v), Authorized(w),
                      inv[v].card = inv[w].card
               PROVE  FALSE
  BY DEF ExclusiveAuthority
<1>2. card[inv[v].card].lock = inv[v].beat /\ card[inv[w].card].lock = inv[w].beat
  BY <1>1 DEF LeaseInv, Rows, Memory, Remembers, Authorized, StillCurrent, SameRow, SameColumns
<1>3. inv[v].beat \in Beats
  BY <1>1 DEF LeaseInv, Rows, Memory, Remembers, Authorized
<1>4. inv[v].beat # inv[w].beat
  BY <1>1, <1>3 DEF LeaseInv, OwnBeats, IdentityAssumption
<1>5. QED
  BY <1>1, <1>2, <1>4

\* Two attempts on one card never hold result authority at once, for any number of
\* cards, agents, worker slots, runs, retries, crashes and operator commands
\* (completionCondition).
THEOREM AuthorityIsExclusive == Spec => []ExclusiveAuthority
<1>1. LeaseInv => ExclusiveAuthority
  BY IdentityAssumption, LeaseExcludes
<1>2. QED
  BY <1>1, LeaseInvariant, PTL

-----------------------------------------------------------------------------
\* The initial locks are the initial leases.
LEMMA InitImplements ==
  ASSUME Init
  PROVE  Lease!LeaseInit
BY DEF Init, Lease!LeaseInit

\* Every step grants one lease, revokes one, or stutters.
LEMMA StepImplements ==
  ASSUME LeaseInv, LeaseInv', IdentityAssumption, LimitAssumption, [Next]_vars
  PROVE  [Lease!LeaseNext]_(Lease!lease)
<1> DEFINE holder == [c \in Cards |-> card[c].lock]
           spent == {h \in Beats : beat[h].locked}
<1>1. CASE \E w \in Workers : AcquireLock(w)
  <2>1. PICK w \in Workers : AcquireLock(w)
    BY <1>1
  <2>2. PICK c \in Cards, h \in Beats :
          /\ ~beat[h].locked
          /\ card'[c].lock = h /\ \A d \in Cards \ {c} : card'[d] = card[d]
          /\ beat'[h].locked /\ \A x \in Beats \ {h} : beat'[x] = beat[x]
    BY <2>1, AcquireLockEffect
  <2>3. holder' = [holder EXCEPT ![c] = h]
    BY <2>2
  <2>4. spent' = spent \cup {h} /\ h \notin spent
    BY <2>2
  <2>5. Lease!Grant(c, h)
    BY <2>3, <2>4 DEF Lease!Grant
  <2>6. QED
    BY <2>5 DEF Lease!LeaseNext
<1>2. CASE \E w \in Workers : OpenBeat(w)
  <2>1. PICK w \in Workers, h \in Beats :
          /\ beat[h].status = "absent" /\ UNCHANGED card
          /\ beat' = [beat EXCEPT ![h] = [status |-> "running", card |-> inv[w].card,
                                          agent |-> inv[w].agent, locked |-> FALSE]]
    BY <1>2 DEF OpenBeat, AbsentBeats
  <2>2. ~beat[h].locked /\ DOMAIN beat = Beats
    BY <2>1 DEF LeaseInv, LockHistory, Rows, TypeOK
  <2>3. ~beat'[h].locked /\ \A x \in Beats \ {h} : beat'[x] = beat[x]
    BY <2>1, <2>2
  <2>4. spent' = spent
    BY <2>2, <2>3
  <2>5. QED
    BY <2>1, <2>4 DEF Lease!lease
<1>3. CASE \A w \in Workers : ~OpenBeat(w) /\ ~AcquireLock(w)
  <2>1. LocksKept /\ BeatsKept
    BY <1>3, StepKept DEF LeaseInv
  <2>2. spent' = spent
    BY <2>1 DEF BeatsKept
  <2>3. CASE \A c \in Cards : card'[c].lock = card[c].lock
    BY <2>2, <2>3 DEF Lease!lease
  <2>4. CASE \E c \in Cards : /\ card[c].lock # None /\ card'[c].lock = None
                              /\ \A d \in Cards \ {c} : card'[d].lock = card[d].lock
    <3>1. PICK c \in Cards : /\ card[c].lock # None /\ card'[c].lock = None
                             /\ \A d \in Cards \ {c} : card'[d].lock = card[d].lock
      BY <2>4
    <3>2. holder' = [holder EXCEPT ![c] = None]
      <4>1. \A d \in Cards : card'[d].lock = IF d = c THEN None ELSE card[d].lock
        BY <3>1
      <4>2. holder' = [d \in Cards |-> IF d = c THEN None ELSE card[d].lock]
        BY <4>1
      <4>3. QED
        BY <4>2
    <3>3. Lease!Revoke(c)
      BY <2>2, <3>1, <3>2 DEF Lease!Revoke
    <3>4. QED
      BY <3>3 DEF Lease!LeaseNext
  <2>5. QED
    BY <2>1, <2>3, <2>4 DEF LocksKept
<1>4. QED
  BY <1>1, <1>2, <1>3

\* The execution locks implement CardLease: a lease is granted to a fresh attempt or
\* revoked, and a lost one is never granted again (acquireExecutionLock).
THEOREM LocksAreLeases == Spec => ImplementsLease
<1>1. Init => Lease!LeaseInit
  BY InitImplements
<1>2. LeaseInv /\ LeaseInv' /\ [Next]_vars => [Lease!LeaseNext]_(Lease!lease)
  BY IdentityAssumption, LimitAssumption, StepImplements
<1>3. QED
  BY <1>1, <1>2, LeaseInvariant, PTL DEF Spec, ImplementsLease, Lease!LeaseSpec
=============================================================================
