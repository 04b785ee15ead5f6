--------------------------- MODULE DispatchTypes ---------------------------
(***************************************************************************)
(* The tables of the dispatch path, and what its processes remember about  *)
(* them, stay well formed (Rows): one lemma per statement of the code.     *)
(***************************************************************************)
EXTENDS DispatchProperties, FiniteSetTheorems, TLAPS

\* A released card is a well-formed row without a lock.
LEMMA UnlockedRow ==
  ASSUME NEW row \in CardRow, NEW s \in Statuses, NEW n \in 0..MaxRetries
  PROVE  Unlocked(row, s, n) \in CardRow /\ Unlocked(row, s, n).lock = None
BY DEF Unlocked, CardRow

\* The retry counter stays within its limit.
LEMMA RetriedBound ==
  ASSUME LimitAssumption, NEW n \in 0..MaxRetries
  PROVE  Retried(n) \in 0..MaxRetries
BY DEF Retried, LimitAssumption

\* requestCardRecovery writes a well-formed row and leaves the lock alone.
LEMMA RecoveredRows ==
  ASSUME LimitAssumption, NEW row \in CardRow, NEW x \in Recovered(row)
  PROVE  x \in CardRow /\ x.lock = row.lock
<1>1. CASE row.recovery # "none"
  BY <1>1 DEF Recovered
<1>2. CASE row.recovery = "none"
  <2>1. PICK s \in Exhausted : \E g \in {"none", "manager", "human"} :
          x = [row EXCEPT !.status = s, !.recovery = g]
    BY <1>2 DEF Recovered
  <2>2. PICK g \in {"none", "manager", "human"} : x = [row EXCEPT !.status = s, !.recovery = g]
    BY <2>1
  <2>3. s \in Statuses
    BY DEF LimitAssumption, Statuses
  <2>4. QED
    BY <2>2, <2>3 DEF CardRow
<1>3. QED
  BY <1>1, <1>2

\* What a counted malformed report leaves is a row without a lock.
LEMMA CorrectedRows ==
  ASSUME LimitAssumption, NEW row \in CardRow, NEW x \in Corrected(row)
  PROVE  x \in CardRow /\ x.lock = None
<1>1. row.retries \in 0..MaxRetries /\ row.repairs \in 0..3
  BY DEF CardRow
<1>2. CASE row.repairs < 2
  <2> DEFINE free == Unlocked(row, "todo", row.retries)
  <2>1. x = [free EXCEPT !.repairs = @ + 1]
    BY <1>2 DEF Corrected
  <2>2. free \in CardRow /\ free.repairs = row.repairs /\ free.lock = None
    BY <1>1 DEF Unlocked, CardRow, Statuses
  <2>3. free.repairs + 1 \in 0..3
    BY <1>1, <1>2, <2>2
  <2>4. QED
    BY <2>1, <2>2, <2>3 DEF CardRow
<1>3. CASE ~(row.repairs < 2)
  <2> DEFINE free == [Unlocked(row, "blocked", row.retries) EXCEPT !.repairs = 3]
  <2>1. x \in Recovered(free)
    BY <1>3 DEF Corrected
  <2>2. Unlocked(row, "blocked", row.retries) \in CardRow
    BY <1>1, UnlockedRow DEF Statuses
  <2>3. 3 \in 0..3
    OBVIOUS
  <2>4. free \in CardRow
    BY <2>2, <2>3 DEF CardRow
  <2>5. free.lock = None
    BY <1>1 DEF Unlocked, CardRow
  <2>6. QED
    BY <2>1, <2>4, <2>5, RecoveredRows
<1>4. QED
  BY <1>2, <1>3

\* What an accepted result leaves is a row without a lock.
LEMMA RepairedRows ==
  ASSUME NEW row \in CardRow, NEW x \in Repaired(row)
  PROVE  x \in CardRow /\ x.lock = row.lock
BY DEF Repaired, CardRow

\* A card that failed an attempt is well formed and not locked.
LEMMA FailureRows ==
  ASSUME LimitAssumption, NEW row \in CardRow, NEW n \in 0..MaxRetries,
         NEW x \in AfterFailure(row, n)
  PROVE  x \in CardRow /\ x.lock = None
<1>1. CASE n + 1 < MaxRetries
  <2>1. x = Unlocked(row, "todo", n + 1) /\ n + 1 \in 0..MaxRetries
    BY <1>1 DEF AfterFailure, LimitAssumption
  <2>2. QED
    BY <2>1, UnlockedRow DEF Statuses
<1>2. CASE ~(n + 1 < MaxRetries)
  <2>1. x \in Recovered(Unlocked(row, "blocked", Retried(n)))
    BY <1>2 DEF AfterFailure
  <2>2. Unlocked(row, "blocked", Retried(n)) \in CardRow
        /\ Unlocked(row, "blocked", Retried(n)).lock = None
    BY RetriedBound, UnlockedRow DEF Statuses
  <2>3. QED
    BY <2>1, <2>2, RecoveredRows
<1>3. QED
  BY <1>1, <1>2

-----------------------------------------------------------------------------
\* Writing a well-formed row keeps the cards table well formed.
LEMMA CardUpdate ==
  ASSUME Rows, NEW c, NEW row \in CardRow, card' = [card EXCEPT ![c] = row]
  PROVE  card' \in [Cards -> CardRow]
BY DEF Rows, TypeOK

\* Ending a heartbeat keeps its table well formed.
LEMMA BeatUpdate ==
  ASSUME Rows, NEW h, NEW s \in Ended, beat' = [beat EXCEPT ![h].status = s]
  PROVE  beat' \in [Beats -> BeatRow]
<1>1. h \in Beats => [beat[h] EXCEPT !.status = s] \in BeatRow
  BY DEF Rows, TypeOK, BeatRow
<1>2. QED
  BY <1>1 DEF Rows, TypeOK

\* The runs table stays well formed when a row that exists changes its status.
LEMMA RunUpdate ==
  ASSUME Rows, NEW r, NEW s \in Active \cup Ended, r \in Runs => run[r].status # "absent",
         run' = [run EXCEPT ![r].status = s]
  PROVE  /\ run' \in [Runs -> RunRow]
         /\ \A q \in Runs : run'[q].status # "absent" => run'[q].card \in Cards
         /\ \A q \in Runs : run[q].status # "absent" => run'[q].status # "absent"
<1>1. r \in Runs => [run[r] EXCEPT !.status = s] \in RunRow
  BY DEF Rows, TypeOK, RunRow
<1>2. run' \in [Runs -> RunRow]
  BY <1>1 DEF Rows, TypeOK
<1>3. \A q \in Runs : run'[q].card = run[q].card /\ run'[q].status \in {s, run[q].status}
  BY DEF Rows, TypeOK, RunRow
<1>4. s # "absent"
  BY DEF Active, Ended
<1>5. \A q \in Runs : run'[q].status = "absent" <=> run[q].status = "absent"
  BY <1>3, <1>4 DEF Rows, TypeOK, RunRow
<1>6. QED
  BY <1>2, <1>3, <1>5 DEF Rows, RunRows

\* A slot that remembers what its point needs keeps every slot well formed.
LEMMA SlotUpdate ==
  ASSUME Rows, NEW w \in Workers, NEW i \in Invocation, Remembers(i),
         inv' = [inv EXCEPT ![w] = i]
  PROVE  inv' \in [Workers -> Invocation] /\ Memory'
<1>1. inv' \in [Workers -> Invocation]
  BY DEF Rows, TypeOK
<1>2. ASSUME NEW v \in Workers PROVE Remembers(inv'[v])
  BY DEF Rows, TypeOK, Memory
<1>3. QED
  BY <1>1, <1>2 DEF Memory

\* The runs table stays well formed and no run disappears.
RunsKept ==
  /\ run' \in [Runs -> RunRow]
  /\ \A q \in Runs : run'[q].status # "absent" => run'[q].card \in Cards
  /\ \A q \in Runs : run[q].status # "absent" => run'[q].status # "absent"

\* Slot w moves and remembers what its new point needs.
SlotMoves(w) ==
  /\ inv' = [inv EXCEPT ![w] = inv'[w]]
  /\ inv'[w] \in Invocation /\ Remembers(inv'[w]) /\ inv'[w].run \in {None, inv[w].run}

\* An invocation that moves to another point and learns one more fact.
LEMMA SlotFields ==
  ASSUME NEW x \in Invocation, NEW p \in WorkerPoints
  PROVE  /\ \A s \in Ended : [x EXCEPT !.pc = p, !.verdict = s] \in Invocation
         /\ \A o \in Reports : [x EXCEPT !.pc = p, !.outcome = o] \in Invocation
         /\ \A v \in CardRow : [x EXCEPT !.pc = p, !.view = v] \in Invocation
         /\ \A a \in Agents : [x EXCEPT !.pc = p, !.agent = a] \in Invocation
         /\ \A h \in Beats : [x EXCEPT !.pc = p, !.beat = h] \in Invocation
         /\ \A s \in Ended, b \in BOOLEAN :
              [x EXCEPT !.pc = p, !.verdict = s, !.follow = b] \in Invocation
<1>1. ASSUME NEW s \in Ended PROVE [x EXCEPT !.pc = p, !.verdict = s] \in Invocation
  BY DEF Invocation
<1>2. ASSUME NEW o \in Reports PROVE [x EXCEPT !.pc = p, !.outcome = o] \in Invocation
  BY DEF Invocation
<1>3. ASSUME NEW v \in CardRow PROVE [x EXCEPT !.pc = p, !.view = v] \in Invocation
  BY DEF Invocation
<1>4. ASSUME NEW a \in Agents PROVE [x EXCEPT !.pc = p, !.agent = a] \in Invocation
  BY DEF Invocation
<1>5. ASSUME NEW h \in Beats PROVE [x EXCEPT !.pc = p, !.beat = h] \in Invocation
  BY DEF Invocation
<1>6. ASSUME NEW s \in Ended, NEW b \in BOOLEAN
      PROVE  [x EXCEPT !.pc = p, !.verdict = s, !.follow = b] \in Invocation
  BY DEF Invocation
<1>7. QED
  BY <1>1, <1>2, <1>3, <1>4, <1>5, <1>6

\* The form in which every worker action moves its slot.
LEMMA SlotStep ==
  ASSUME Rows, NEW w \in Workers, NEW i \in Invocation, Remembers(i),
         i.run \in {None, inv[w].run}, inv' = [inv EXCEPT ![w] = i]
  PROVE  SlotMoves(w)
BY DEF Rows, TypeOK, SlotMoves

\* Most actions only move their slot to the next point.
LEMMA SlotGoto ==
  ASSUME Rows, NEW w \in Workers, NEW p \in WorkerPoints, inv[w].pc # "idle",
         inv' = [inv EXCEPT ![w].pc = p], p = "settling" => inv[w].verdict \in Ended,
         p \notin Holding \/ inv[w].pc \in Holding,
         p \notin {"opened", "linked", "uncaught", "scolded"}, p = "freed" => inv[w].pc = "scolded",
         p # "freeing" \/ inv[w].pc = "uncaught"
  PROVE  SlotMoves(w)
<1> DEFINE i == [inv[w] EXCEPT !.pc = p]
<1>1. inv[w] \in Invocation /\ Remembers(inv[w])
  BY DEF Rows, TypeOK, Memory
<1>2. i \in Invocation /\ i.run = inv[w].run
  BY <1>1 DEF Invocation
<1>3. Remembers(i)
  BY <1>1 DEF Remembers, Invocation
<1>4. QED
  BY <1>2, <1>3, SlotStep

\* Writing a flag keeps the agents table well formed.
LEMMA BusyUpdate ==
  ASSUME Rows, NEW a, NEW b \in BOOLEAN, busy' = [busy EXCEPT ![a] = b]
  PROVE  busy' \in [Agents -> BOOLEAN]
BY DEF Rows, TypeOK

\* Heartbeats can be counted.
LEMMA CountType ==
  ASSUME IdentityAssumption, NEW S \in SUBSET Beats
  PROVE  Cardinality(S) \in Nat
BY FS_Subset, FS_CardinalityType DEF IdentityAssumption

\* The slot of every worker is well formed.
LEMMA SlotType ==
  ASSUME Rows, NEW w \in Workers
  PROVE  inv[w] \in Invocation /\ Remembers(inv[w])
BY DEF Rows, TypeOK, Memory

\* A step that leaves the runs table alone keeps it well formed.
LEMMA RunsUnchanged ==
  ASSUME Rows, UNCHANGED run
  PROVE  RunsKept
BY DEF Rows, TypeOK, RunRows, RunsKept

\* Ending a run keeps the runs table well formed.
LEMMA RunEnded ==
  ASSUME Rows, NEW r, NEW s \in Ended, run' = EndRun(r, s)
  PROVE  RunsKept
<1>1. CASE run[r].status \in Active
  <2>1. r \in Runs => run[r].status # "absent"
    BY <1>1 DEF Active
  <2>2. QED
    BY <1>1, <2>1, RunUpdate DEF EndRun, RunsKept
<1>2. CASE run[r].status \notin Active
  BY <1>2, RunsUnchanged DEF EndRun
<1>3. QED
  BY <1>1, <1>2

\* enqueueTaskRun keeps the runs table well formed.
LEMMA EnqueueRuns ==
  ASSUME Rows, NEW c \in Cards, Enqueue(c)
  PROVE  RunsKept
<1>1. CASE run' = run
  BY <1>1, RunsUnchanged
<1>2. CASE run' # run
  <2>1. PICK r \in Runs : run[r].status = "absent" /\ run' = [run EXCEPT ![r] = NewRun(c)]
    BY <1>2 DEF Enqueue, AbsentRuns
  <2>2. NewRun(c) \in RunRow /\ NewRun(c).status # "absent" /\ NewRun(c).card = c
    BY DEF Rows, TypeOK, CardRow, NewRun, RunRow, Active
  <2>3. run' \in [Runs -> RunRow]
    BY <2>1, <2>2 DEF Rows, TypeOK
  <2>4. \A q \in Runs : run'[q] = IF q = r THEN NewRun(c) ELSE run[q]
    BY <2>1 DEF Rows, TypeOK
  <2>5. QED
    BY <2>2, <2>3, <2>4 DEF RunsKept, Rows, RunRows
<1>3. QED
  BY <1>1, <1>2

\* A worker action that writes its tables and its slot in these forms keeps
\* everything well formed.
LEMMA WorkerRows ==
  ASSUME Rows, NEW w \in Workers,
         card' \in [Cards -> CardRow], RunsKept, beat' \in [Beats -> BeatRow],
         busy' \in [Agents -> BOOLEAN], SlotMoves(w), UNCHANGED <<tick, cmd, crashes, commands>>
  PROVE  Rows'
<1>1. inv' \in [Workers -> Invocation] /\ Memory'
  BY SlotUpdate DEF SlotMoves
<1>2. TypeOK'
  BY <1>1 DEF Rows, TypeOK, RunsKept
<1>3. ASSUME NEW v \in Workers, inv'[v].run # None
      PROVE  run'[inv'[v].run].status # "absent"
  <2>1. inv'[v].run = inv[v].run /\ inv[v].run \in Runs
    BY <1>3 DEF SlotMoves, Rows, TypeOK, Invocation
  <2>2. QED
    BY <1>3, <2>1 DEF Rows, RunRows, RunsKept
<1>4. QED
  BY <1>1, <1>2, <1>3 DEF Rows, RunRows, RunsKept

\* settleOriginalHeartbeat keeps the tables well formed.
LEMMA SettleRows ==
  ASSUME Rows, NEW w \in Workers, NEW s \in Ended, inv[w].pc # "idle", Settle(w, s),
         UNCHANGED <<tick, cmd, crashes, commands>>
  PROVE  Rows'
<1>1. beat' \in [Beats -> BeatRow]
  BY BeatUpdate DEF Settle, Rows, TypeOK
<1>2. busy' \in [Agents -> BOOLEAN]
  BY DEF Settle, Rows, TypeOK
<1> DEFINE i == [inv[w] EXCEPT !.pc = "settling", !.verdict = s]
<1>3. inv[w] \in Invocation
  BY SlotType
<1>4. i \in Invocation
  BY <1>3, SlotFields DEF WorkerPoints
<1>5. i.run = inv[w].run
  BY <1>3 DEF Invocation
<1>6. Remembers(i)
  BY SlotType DEF Invocation, Remembers, Holding
<1>7. SlotMoves(w)
  BY <1>5, <1>4, <1>6, SlotStep DEF Settle
<1>8. QED
  BY <1>1, <1>2, <1>7, RunsUnchanged, WorkerRows DEF Settle, Rows, TypeOK

\* The preamble of dispatchCard keeps the tables well formed.
LEMMA ChooseAgentRows ==
  ASSUME Rows, LimitAssumption, NEW w \in Workers, ChooseAgent(w)
  PROVE  Rows'
<1> DEFINE a == card[inv[w].card].assignee
<1>0. PICK p \in {"chosen", "error"} :
        /\ inv[w].pc = "claimed"
        /\ inv' = [inv EXCEPT ![w].pc = p, ![w].agent = a]
        /\ UNCHANGED <<card, run, beat, busy, tick, cmd, crashes, commands>>
  BY DEF ChooseAgent
<1> DEFINE i == [inv[w] EXCEPT !.pc = p, !.agent = a]
<1>1. inv[w] \in Invocation
  BY SlotType
<1>2. a \in Agents
  BY <1>0, SlotType DEF Remembers, Rows, TypeOK, CardRow
<1>3. p \in WorkerPoints
  BY DEF WorkerPoints
<1>4. i \in Invocation
  BY <1>1, <1>2, <1>3, SlotFields
<1>5. i.run = inv[w].run
  BY <1>1 DEF Invocation
<1>6. Remembers(i)
  BY <1>0, SlotType DEF Invocation, Remembers, Holding
<1>7. SlotMoves(w)
  BY <1>0, <1>5, <1>4, <1>6, SlotStep
<1>8. QED
  BY <1>0, <1>7, RunsUnchanged, WorkerRows DEF Rows, TypeOK

\* A refused dispatch keeps the tables well formed.
LEMMA RefuseDispatchRows ==
  ASSUME Rows, LimitAssumption, NEW w \in Workers, RefuseDispatch(w)
  PROVE  Rows'
<1>1. inv[w] \in Invocation
  BY SlotType
<1> DEFINE i == [inv[w] EXCEPT !.pc = "error", !.outcome = "failed"]
<1>2. "failed" \in Reports /\ "error" \in WorkerPoints
  BY DEF Reports, AllOutcomes, WorkerPoints
<1>3. i \in Invocation
  BY <1>1, <1>2, SlotFields
<1>4. i.run = inv[w].run
  BY <1>1 DEF Invocation
<1>5. Remembers(i)
  BY SlotType DEF RefuseDispatch, Invocation, Remembers, Holding
<1>6. SlotMoves(w)
  BY <1>4, <1>3, <1>5, SlotStep DEF RefuseDispatch
<1>7. QED
  BY <1>6, RunsUnchanged, WorkerRows DEF RefuseDispatch, Rows, TypeOK

\* claimAgentCapacity keeps the tables well formed.
LEMMA ClaimCapacityRows ==
  ASSUME Rows, IdentityAssumption, LimitAssumption, NEW w \in Workers, ClaimCapacity(w)
  PROVE  Rows'
<1>1. Cardinality(RunningBeats(inv[w].agent)) \in Nat
  BY CountType DEF RunningBeats
<1>2. (Cardinality(RunningBeats(inv[w].agent)) + 1 >= MaxConcurrent) \in BOOLEAN
  BY <1>1 DEF LimitAssumption
<1>3. busy' \in [Agents -> BOOLEAN]
  BY <1>2, BusyUpdate DEF ClaimCapacity, Rows, TypeOK
<1>4. SlotMoves(w)
  BY SlotType, SlotGoto DEF ClaimCapacity, Goto, WorkerPoints, Holding, Remembers
<1>5. QED
  BY <1>3, <1>4, RunsUnchanged, WorkerRows DEF ClaimCapacity, Rows, TypeOK

\* A refused execution lock keeps the tables well formed.
LEMMA LockRefusedRows ==
  ASSUME Rows, NEW w \in Workers, LockRefused(w)
  PROVE  Rows'
<1>1. beat' \in [Beats -> BeatRow]
  BY BeatUpdate DEF LockRefused, Ended
<1>2. SlotMoves(w)
  BY SlotType, SlotGoto DEF LockRefused, Goto, WorkerPoints, Holding, Remembers
<1>3. QED
  BY <1>1, <1>2, RunsUnchanged, WorkerRows DEF LockRefused, Rows, TypeOK

\* The capacity given back after a refused lock keeps the tables well formed.
LEMMA FreeRefusedRows ==
  ASSUME Rows, NEW w \in Workers, FreeRefused(w)
  PROVE  Rows'
<1>1. inv[w] \in Invocation
  BY SlotType
<1> DEFINE i == [inv[w] EXCEPT !.pc = "error", !.outcome = "failed"]
<1>2. "failed" \in Reports /\ "error" \in WorkerPoints
  BY DEF Reports, AllOutcomes, WorkerPoints
<1>3. i \in Invocation
  BY <1>1, <1>2, SlotFields
<1>4. i.run = inv[w].run
  BY <1>1 DEF Invocation
<1>5. Remembers(i)
  BY SlotType DEF FreeRefused, Invocation, Remembers, Holding
<1>6. SlotMoves(w)
  BY <1>4, <1>3, <1>5, SlotStep DEF FreeRefused
<1>7. busy' \in [Agents -> BOOLEAN]
  BY BusyUpdate DEF FreeRefused
<1>8. QED
  BY <1>6, <1>7, RunsUnchanged, WorkerRows DEF FreeRefused, Rows, TypeOK

\* The heartbeat update of sendAgentFeedbackAndRequeue keeps the tables well formed.
LEMMA FailScoldedRows ==
  ASSUME Rows, NEW w \in Workers, FailScolded(w)
  PROVE  Rows'
<1>1. beat' \in [Beats -> BeatRow]
  BY BeatUpdate DEF FailScolded, Ended
<1>2. SlotMoves(w)
  BY SlotType, SlotGoto DEF FailScolded, Goto, WorkerPoints, Holding, Remembers
<1>3. QED
  BY <1>1, <1>2, RunsUnchanged, WorkerRows DEF FailScolded, Rows, TypeOK

\* refreshAgentRemoteCapacity keeps the tables well formed.
LEMMA RefreshRows ==
  ASSUME Rows, IdentityAssumption, LimitAssumption, NEW w \in Workers, Refresh(w)
  PROVE  Rows'
<1>1. Cardinality({h \in Beats : beat[h].status = "running" /\ beat[h].agent = inv[w].owner}) \in Nat
  BY CountType
<1>2. Refreshed(beat, inv[w].owner) \in BOOLEAN
  BY <1>1 DEF Refreshed, LimitAssumption
<1>3. busy' \in [Agents -> BOOLEAN]
  BY <1>2, BusyUpdate DEF Refresh
<1>4. Resting \in Invocation /\ Remembers(Resting) /\ Resting.run = None
  BY DEF Resting, Invocation, WorkerPoints, Remembers, Holding
<1>5. SlotMoves(w)
  BY <1>4, SlotStep DEF Refresh
<1>6. QED
  BY <1>3, <1>5, RunsUnchanged, WorkerRows DEF Refresh, Rows, TypeOK

\* acquireExecutionLock keeps the tables well formed.
LEMMA AcquireLockRows ==
  ASSUME Rows, NEW w \in Workers, AcquireLock(w)
  PROVE  Rows'
<1> DEFINE row == [card[inv[w].card] EXCEPT !.status = "in_progress", !.lock = inv[w].beat, !.expired = FALSE]
           i == [inv[w] EXCEPT !.pc = "locked", !.view = row]
<1>1. inv[w].card \in Cards /\ inv[w].beat \in Beats
  BY SlotType DEF AcquireLock, Remembers
<1>2. card[inv[w].card] \in CardRow /\ beat[inv[w].beat] \in BeatRow
  BY <1>1 DEF Rows, TypeOK
<1>3. row \in CardRow /\ row.lock = inv[w].beat
  BY <1>1, <1>2 DEF CardRow, Statuses
<1>4. card' \in [Cards -> CardRow]
  BY <1>3, CardUpdate DEF AcquireLock
<1>5. [beat[inv[w].beat] EXCEPT !.locked = TRUE] \in BeatRow
  BY <1>2 DEF BeatRow
<1>6. beat' \in [Beats -> BeatRow]
  BY <1>1, <1>5 DEF AcquireLock, Rows, TypeOK
<1>7. inv[w] \in Invocation
  BY SlotType
<1>8. i \in Invocation
  BY <1>7, <1>3, SlotFields DEF WorkerPoints
<1>9. i.run = inv[w].run
  BY <1>7 DEF Invocation
<1>10. Remembers(i)
  BY <1>1, <1>3, SlotType DEF Invocation, Remembers, Holding
<1>11. SlotMoves(w)
  BY <1>9, <1>8, <1>10, SlotStep DEF AcquireLock
<1>12. QED
  BY <1>4, <1>6, <1>11, RunsUnchanged, WorkerRows DEF AcquireLock, Rows, TypeOK

\* The insert of openHeartbeatRun keeps the tables well formed.
LEMMA OpenBeatRows ==
  ASSUME Rows, NEW w \in Workers, OpenBeat(w)
  PROVE  Rows'
<1>1. PICK h \in Beats :
        /\ beat' = [beat EXCEPT ![h] = [status |-> "running", card |-> inv[w].card,
                                        agent |-> inv[w].agent, locked |-> FALSE]]
        /\ inv' = [inv EXCEPT ![w].pc = "opened", ![w].beat = h]
  BY DEF OpenBeat, AbsentBeats
<1> DEFINE i == [inv[w] EXCEPT !.pc = "opened", !.beat = h]
<1>2. [status |-> "running", card |-> inv[w].card, agent |-> inv[w].agent, locked |-> FALSE] \in BeatRow
  BY SlotType DEF Invocation, BeatRow
<1>3. beat' \in [Beats -> BeatRow]
  BY <1>1, <1>2 DEF Rows, TypeOK
<1>4. inv[w] \in Invocation
  BY SlotType
<1>5. i \in Invocation /\ i.run = inv[w].run
  BY <1>4 DEF Invocation, WorkerPoints
<1>6. Remembers(i)
  BY SlotType DEF OpenBeat, Invocation, Remembers, Holding
<1>7. SlotMoves(w)
  BY <1>1, <1>5, <1>6, SlotStep
<1>8. QED
  BY <1>3, <1>7, RunsUnchanged, WorkerRows DEF OpenBeat, Rows, TypeOK

\* The update of openHeartbeatRun keeps the tables well formed.
LEMMA LinkBeatRows ==
  ASSUME Rows, NEW w \in Workers, LinkBeat(w)
  PROVE  Rows'
<1> DEFINE row == [run[inv[w].run] EXCEPT !.beat = inv[w].beat, !.agent = inv[w].agent]
<1>1. inv[w].beat \in Beats \cup {None} /\ inv[w].agent \in Agents \cup {None}
  BY SlotType DEF Invocation
<1>2. inv[w].run \in Runs => run[inv[w].run] \in RunRow
  BY DEF Rows, TypeOK
<1>3. inv[w].run \in Runs => row \in RunRow
  BY <1>1, <1>2 DEF RunRow
<1>4. run' = [run EXCEPT ![inv[w].run] = row]
  BY DEF LinkBeat
<1>5. run' \in [Runs -> RunRow]
  BY <1>3, <1>4 DEF Rows, TypeOK
<1>6. \A q \in Runs : run'[q].status = run[q].status /\ run'[q].card = run[q].card
  BY <1>4 DEF Rows, TypeOK, RunRow
<1>7. RunsKept
  BY <1>5, <1>6 DEF RunsKept, Rows, RunRows
<1>8. inv[w] \in Invocation
  BY SlotType
<1> DEFINE i == [inv[w] EXCEPT !.pc = "linked"]
<1>9. i \in Invocation /\ i.run \in {None, inv[w].run}
  BY <1>8 DEF Invocation, WorkerPoints
<1>10. Remembers(i)
  BY SlotType DEF LinkBeat, Invocation, Remembers, Holding
<1>11. SlotMoves(w)
  BY <1>9, <1>10, SlotStep DEF LinkBeat, Goto
<1>12. QED
  BY <1>7, <1>11, RunsUnchanged, WorkerRows DEF LinkBeat, Rows, TypeOK

\* The follow-up enqueue keeps the tables well formed.
LEMMA EnqueueFollowUpRows ==
  ASSUME Rows, NEW w \in Workers, EnqueueFollowUp(w)
  PROVE  Rows'
<1>1. RunsKept
  BY SlotType, EnqueueRuns DEF EnqueueFollowUp, Remembers
<1>2. SlotMoves(w)
  BY SlotType, SlotGoto DEF EnqueueFollowUp, Goto, WorkerPoints, Holding, Remembers
<1>3. QED
  BY <1>1, <1>2, RunsUnchanged, WorkerRows DEF EnqueueFollowUp, Rows, TypeOK

\* claimNextTaskRun keeps the tables well formed.
LEMMA ClaimRunRows ==
  ASSUME Rows, IdentityAssumption, NEW w \in Workers, ClaimRun(w)
  PROVE  Rows'
<1>1. PICK r \in Runs :
        /\ run[r].status = "queued"
        /\ run' = [run EXCEPT ![r].status = "running"]
        /\ inv' = [inv EXCEPT ![w] = [Resting EXCEPT !.pc = "claimed", !.run = r,
                                   !.card = run[r].card, !.owner = run[r].agent]]
  BY DEF ClaimRun
<1> DEFINE i == [Resting EXCEPT !.pc = "claimed", !.run = r,
                           !.card = run[r].card, !.owner = run[r].agent]
<1>2. run[r].card \in Cards /\ run[r].agent \in Agents \cup {None}
  BY <1>1 DEF Rows, RunRows, TypeOK, RunRow
<1>3. i \in Invocation /\ i.run = r
  BY <1>2 DEF Resting, Invocation, WorkerPoints
<1>4. Remembers(i)
  BY <1>2 DEF Resting, Remembers, Holding
<1>5. inv' \in [Workers -> Invocation] /\ Memory'
  BY <1>1, <1>3, <1>4, SlotUpdate
<1>6. RunsKept
  BY <1>1, RunUpdate DEF RunsKept, Active
<1>7. TypeOK'
  BY <1>5, <1>6 DEF ClaimRun, RunsKept, Rows, TypeOK
<1>8. ASSUME NEW v \in Workers, inv'[v].run # None
      PROVE  run'[inv'[v].run].status # "absent"
  <2>1. CASE v = w
    BY <1>1, <1>3, <1>6, <2>1 DEF RunsKept, Rows, TypeOK
  <2>2. CASE v # w
    <3>1. inv'[v] = inv[v] /\ inv[v].run \in Runs
      BY <1>1, <1>8, <2>2 DEF Rows, TypeOK, Invocation
    <3>2. QED
      BY <1>6, <1>8, <3>1 DEF RunsKept, Rows, RunRows
  <2>3. QED
    BY <2>1, <2>2
<1>9. QED
  BY <1>5, <1>6, <1>7, <1>8 DEF Rows, RunRows, RunsKept

\* What the slot of a worker that acts on a result remembers.
LEMMA SlotFacts ==
  ASSUME Rows, NEW w \in Workers, inv[w].pc # "idle"
  PROVE  /\ inv[w] \in Invocation /\ inv[w].card \in Cards
         /\ card[inv[w].card] \in CardRow
         /\ inv[w].pc \in Holding \cup {"uncaught", "freeing"} => inv[w].view.retries \in 0..MaxRetries
<1>1. inv[w] \in Invocation /\ Remembers(inv[w])
  BY SlotType
<1>2. inv[w].card \in Cards
  BY <1>1 DEF Remembers
<1>3. card[inv[w].card] \in CardRow
  BY <1>2 DEF Rows, TypeOK
<1>4. inv[w].pc \in Holding \cup {"uncaught", "freeing"} => inv[w].view \in CardRow
  BY <1>1 DEF Remembers
<1>5. QED
  BY <1>1, <1>2, <1>3, <1>4 DEF CardRow

\* terminalRunStatus is an ended status.
LEMMA StatusOfEnded ==
  ASSUME NEW c
  PROVE  StatusOf(c) \in Ended
BY DEF StatusOf, Ended

\* completionStillCurrent keeps the tables well formed.
LEMMA CheckCurrentRows ==
  ASSUME Rows, NEW w \in Workers, CheckCurrent(w)
  PROVE  Rows'
<1>1. CASE StillCurrent(inv[w].card, inv[w].view, inv[w].run)
  <2>1. SlotMoves(w)
    BY <1>1, SlotGoto DEF CheckCurrent, Goto, WorkerPoints, Holding
  <2>2. QED
    BY <1>1, <2>1, RunsUnchanged, WorkerRows DEF CheckCurrent, Rows, TypeOK
<1>2. CASE ~StillCurrent(inv[w].card, inv[w].view, inv[w].run)
  BY <1>2, SettleRows DEF CheckCurrent, Ended
<1>3. QED
  BY <1>1, <1>2

\* The return of the adapter keeps the tables well formed.
LEMMA AdapterReturnsRows ==
  ASSUME Rows, NEW w \in Workers, AdapterReturns(w)
  PROVE  Rows'
<1>1. CASE SameColumns(card[inv[w].card], inv[w].view)
  <2>1. PICK o \in Reports : inv' = [inv EXCEPT ![w].pc = "returned", ![w].outcome = o]
    BY <1>1 DEF AdapterReturns
  <2> DEFINE i == [inv[w] EXCEPT !.pc = "returned", !.outcome = o]
  <2>2. inv[w] \in Invocation /\ Remembers(inv[w])
    BY SlotType
  <2>3. i \in Invocation
    BY <2>2, SlotFields DEF WorkerPoints
  <2>4. i.run = inv[w].run
    BY <2>2 DEF Invocation
  <2>5. Remembers(i)
    BY <2>2 DEF AdapterReturns, Invocation, Remembers, Holding
  <2>6. SlotMoves(w)
    BY <2>1, <2>3, <2>4, <2>5, SlotStep
  <2>7. QED
    BY <1>1, <2>6, RunsUnchanged, WorkerRows DEF AdapterReturns, Rows, TypeOK
<1>2. CASE ~SameColumns(card[inv[w].card], inv[w].view)
  BY <1>2, StatusOfEnded, SettleRows DEF AdapterReturns
<1>3. QED
  BY <1>1, <1>2

\* persistAgentWorkProducts keeps the tables well formed.
LEMMA PersistProductsRows ==
  ASSUME Rows, NEW w \in Workers, PersistProducts(w)
  PROVE  Rows'
<1>1. CASE ResultAuthority(w)
  <2>1. SlotMoves(w)
    BY <1>1, SlotGoto DEF PersistProducts, Goto, WorkerPoints, Holding
  <2>2. QED
    BY <1>1, <2>1, RunsUnchanged, WorkerRows DEF PersistProducts, Rows, TypeOK
<1>2. CASE ~ResultAuthority(w)
  BY <1>2, SettleRows DEF PersistProducts, Ended
<1>3. QED
  BY <1>1, <1>2

\* Every result that is accepted writes the card, frees the agent and ends the
\* heartbeat; the slot then moves on.
LEMMA SettledSlot ==
  ASSUME Rows, NEW w \in Workers, inv[w].pc # "idle", NEW s \in Ended,
         inv' = [inv EXCEPT ![w].pc = "settling", ![w].verdict = s]
  PROVE  SlotMoves(w)
<1> DEFINE i == [inv[w] EXCEPT !.pc = "settling", !.verdict = s]
<1>1. inv[w] \in Invocation /\ Remembers(inv[w])
  BY SlotType
<1>2. i \in Invocation
  BY <1>1, SlotFields DEF WorkerPoints
<1>3. i.run = inv[w].run
  BY <1>1 DEF Invocation
<1>4. Remembers(i)
  BY <1>1 DEF Invocation, Remembers, Holding
<1>5. QED
  BY <1>2, <1>3, <1>4, SlotStep

\* A slot that may enqueue a follow-up knows how its run ends.
LEMMA FollowedSlot ==
  ASSUME Rows, NEW w \in Workers, inv[w].pc # "idle", NEW s \in Ended, NEW b \in BOOLEAN,
         NEW p \in {"settling", "scolded"},
         inv' = [inv EXCEPT ![w].pc = p, ![w].verdict = s, ![w].follow = b]
  PROVE  SlotMoves(w)
<1> DEFINE i == [inv[w] EXCEPT !.pc = p, !.verdict = s, !.follow = b]
<1>1. inv[w] \in Invocation /\ Remembers(inv[w])
  BY SlotType
<1>2. i \in Invocation
  BY <1>1, SlotFields DEF WorkerPoints
<1>3. i.run = inv[w].run
  BY <1>1 DEF Invocation
<1>4. Remembers(i)
  BY <1>1 DEF Invocation, Remembers, Holding
<1>5. QED
  BY <1>2, <1>3, <1>4, SlotStep

\* The delegation transaction keeps the tables well formed.
LEMMA DelegateRows ==
  ASSUME Rows, LimitAssumption, NEW w \in Workers, Delegate(w)
  PROVE  Rows'
<1> DEFINE free == Unlocked(card[inv[w].card], "in_progress", 0)
<1>1. inv[w].card \in Cards /\ card[inv[w].card] \in CardRow
  BY SlotFacts DEF Delegate
<1>2. 0 \in 0..MaxRetries
  BY DEF LimitAssumption
<1>3. free \in CardRow
  BY <1>2, <1>1, UnlockedRow DEF Statuses
<1>4. PICK row \in Repaired(free) : card' = [card EXCEPT ![inv[w].card] = row]
  BY DEF Delegate
<1>5. card' \in [Cards -> CardRow]
  <2>1. row \in CardRow
    BY <1>3, <1>4, RepairedRows
  <2>2. QED
    BY <1>4, <2>1, CardUpdate
<1>6. beat' \in [Beats -> BeatRow]
  BY BeatUpdate DEF Delegate, Ended
<1>7. busy' \in [Agents -> BOOLEAN]
  BY BusyUpdate DEF Delegate
<1>8. SlotMoves(w)
  BY SettledSlot DEF Delegate, Ended
<1>9. QED
  BY <1>5, <1>6, <1>7, <1>8, RunsUnchanged, WorkerRows DEF Delegate

\* The handoff transaction keeps the tables well formed.
LEMMA HandoffRows ==
  ASSUME Rows, LimitAssumption, NEW w \in Workers, Handoff(w)
  PROVE  Rows'
<1>1. PICK a \in Agents :
        card' = [card EXCEPT ![inv[w].card] =
                   [Unlocked(card[inv[w].card], "todo", 0) EXCEPT !.assignee = a]]
  BY DEF Handoff
<1> DEFINE row == [Unlocked(card[inv[w].card], "todo", 0) EXCEPT !.assignee = a]
<1>2. inv[w].card \in Cards /\ card[inv[w].card] \in CardRow
  BY SlotFacts DEF Handoff
<1>3. 0 \in 0..MaxRetries
  BY DEF LimitAssumption
<1>4. Unlocked(card[inv[w].card], "todo", 0) \in CardRow
  BY <1>3, <1>2, UnlockedRow DEF Statuses
<1>5. row \in CardRow
  BY <1>4 DEF CardRow
<1>6. card' \in [Cards -> CardRow]
  BY <1>1, <1>5, CardUpdate
<1>7. beat' \in [Beats -> BeatRow]
  BY BeatUpdate DEF Handoff, Ended
<1>8. busy' \in [Agents -> BOOLEAN]
  BY BusyUpdate DEF Handoff
<1>9. SlotMoves(w)
  BY FollowedSlot DEF Handoff, Ended
<1>10. QED
  BY <1>6, <1>7, <1>8, <1>9, RunsUnchanged, WorkerRows DEF Handoff

\* The completion transaction keeps the tables well formed.
LEMMA CompleteRows ==
  ASSUME Rows, LimitAssumption, NEW w \in Workers, Complete(w)
  PROVE  Rows'
<1>1. CASE ~StillCurrent(inv[w].card, inv[w].view, inv[w].run)
  BY <1>1, SettleRows DEF Complete, Ended
<1>2. CASE StillCurrent(inv[w].card, inv[w].view, inv[w].run)
  <2>1. PICK s \in Finished \cup {"in_progress"} :
          /\ busy' = [busy EXCEPT ![inv[w].agent] = FALSE]
          /\ \E row \in Repaired(Unlocked(card[inv[w].card], s, 0)) :
               card' = [card EXCEPT ![inv[w].card] = row]
          /\ beat' = [beat EXCEPT ![inv[w].beat].status = "success"]
          /\ run' = EndRun(inv[w].run, "success")
          /\ inv' = [inv EXCEPT ![w].pc = IF s = "in_progress" THEN "following" ELSE "worked"]
    BY <1>2 DEF Complete
  <2>2. inv[w].card \in Cards /\ card[inv[w].card] \in CardRow /\ s \in Statuses
    BY SlotFacts DEF Complete, LimitAssumption, Statuses
  <2>3. Unlocked(card[inv[w].card], s, 0) \in CardRow
    BY <2>2, UnlockedRow DEF LimitAssumption
  <2>4. PICK row \in Repaired(Unlocked(card[inv[w].card], s, 0)) :
          card' = [card EXCEPT ![inv[w].card] = row]
    BY <2>1
  <2>5. card' \in [Cards -> CardRow]
    BY <2>3, <2>4, RepairedRows, CardUpdate
  <2>6. beat' \in [Beats -> BeatRow]
    BY <2>1, BeatUpdate DEF Ended
  <2>7. busy' \in [Agents -> BOOLEAN]
    BY <2>1, BusyUpdate
  <2>8. RunsKept
    BY <2>1, RunEnded DEF Ended
  <2>9. SlotMoves(w)
    BY <2>1, SlotGoto DEF Complete, WorkerPoints, Holding
  <2>10. QED
    BY <2>5, <2>6, <2>7, <2>8, <2>9, WorkerRows DEF Complete
<1>3. QED
  BY <1>1, <1>2

\* handleDispatchFailure keeps the tables well formed.
LEMMA FailRows ==
  ASSUME Rows, LimitAssumption, NEW w \in Workers, Fail(w)
  PROVE  Rows'
<1>1. CASE ~ResultAuthority(w)
  BY <1>1, StatusOfEnded, SettleRows DEF Fail, Ended
<1>2. CASE ResultAuthority(w)
  <2>1. PICK row \in AfterFailure(card[inv[w].card], inv[w].view.retries) :
          card' = [card EXCEPT ![inv[w].card] = row]
    BY <1>2 DEF Fail
  <2>2. card[inv[w].card] \in CardRow /\ inv[w].view.retries \in 0..MaxRetries
    BY SlotFacts DEF Fail, Holding
  <2>3. card' \in [Cards -> CardRow]
    BY <2>1, <2>2, FailureRows, CardUpdate
  <2>4. beat' \in [Beats -> BeatRow]
    BY <1>2, BeatUpdate DEF Fail, Ended
  <2>5. busy' \in [Agents -> BOOLEAN]
    BY <1>2, BusyUpdate DEF Fail
  <2>6. SlotMoves(w)
    BY <1>2, SettledSlot DEF Fail, Ended
  <2>7. QED
    BY <1>2, <2>3, <2>4, <2>5, <2>6, RunsUnchanged, WorkerRows DEF Fail
<1>3. QED
  BY <1>1, <1>2

\* parkPermissionBlockedResult keeps the tables well formed.
LEMMA ParkRows ==
  ASSUME Rows, LimitAssumption, NEW w \in Workers, Park(w)
  PROVE  Rows'
<1> DEFINE row == Unlocked(card[inv[w].card], "blocked", card[inv[w].card].retries)
           i == [inv[w] EXCEPT !.pc = "parked", !.view = row]
<1>1. CASE ~ResultAuthority(w)
  BY <1>1, SettleRows DEF Park, Ended
<1>2. CASE ResultAuthority(w)
  <2>1. inv[w] \in Invocation /\ card[inv[w].card] \in CardRow
    BY SlotFacts DEF Park
  <2>2. card[inv[w].card].retries \in 0..MaxRetries
    BY <2>1 DEF CardRow
  <2>3. row \in CardRow
    BY <2>1, <2>2, UnlockedRow DEF Statuses
  <2>4. card' \in [Cards -> CardRow]
    BY <1>2, <2>3, CardUpdate DEF Park
  <2>5. beat' \in [Beats -> BeatRow]
    BY <1>2, BeatUpdate DEF Park, Ended, Rows, TypeOK
  <2>6. busy' \in [Agents -> BOOLEAN]
    BY <1>2, BusyUpdate DEF Park, Rows, TypeOK
  <2>7. i \in Invocation
    BY <2>1, <2>3, SlotFields DEF WorkerPoints
  <2>8. i.run = inv[w].run
    BY <2>1 DEF Invocation
  <2>9. Remembers(i)
    BY <2>1, SlotType DEF Park, Invocation, Remembers, Holding
  <2>10. SlotMoves(w)
    BY <1>2, <2>7, <2>8, <2>9, SlotStep DEF Park
  <2>11. QED
    BY <1>2, <2>4, <2>5, <2>6, <2>10, RunsUnchanged, WorkerRows DEF Park
<1>3. QED
  BY <1>1, <1>2

\* The recovery of a parked card keeps the tables well formed.
LEMMA RecoverParkedRows ==
  ASSUME Rows, LimitAssumption, NEW w \in Workers, RecoverParked(w)
  PROVE  Rows'
<1>1. card[inv[w].card] \in CardRow
  BY SlotFacts DEF RecoverParked
<1>2. card' \in [Cards -> CardRow]
  BY <1>1, RecoveredRows, CardUpdate DEF RecoverParked, Rows, TypeOK
<1>3. SlotMoves(w)
  BY SettledSlot DEF RecoverParked, Ended
<1>4. QED
  BY <1>2, <1>3, RunsUnchanged, WorkerRows DEF RecoverParked, Rows, TypeOK

\* recordProtocolFailure keeps the tables well formed.
LEMMA ScoldRows ==
  ASSUME Rows, LimitAssumption, NEW w \in Workers, Scold(w)
  PROVE  Rows'
<1> DEFINE c == inv[w].card
           counted == StillCurrent(c, inv[w].view, inv[w].run) /\ card[c].repairs < 3
<1>1. card[c] \in CardRow
  BY SlotFacts DEF Scold
<1>2. ASSUME counted PROVE card' \in [Cards -> CardRow]
  <2>1. PICK row \in Corrected(card[c]) : card' = [card EXCEPT ![c] = row]
    BY <1>2 DEF Scold
  <2>2. row \in CardRow
    BY <1>1, <2>1, CorrectedRows
  <2>3. QED
    BY <2>1, <2>2, CardUpdate
<1>3. card' \in [Cards -> CardRow]
  BY <1>2 DEF Scold, Rows, TypeOK
<1>4. ASSUME counted PROVE SlotMoves(w)
  <2>1. (card[c].repairs < 2) \in BOOLEAN
    BY <1>1 DEF CardRow
  <2>2. QED
    BY <1>4, <2>1, FollowedSlot DEF Scold, Ended
<1>5. SlotMoves(w)
  BY <1>4, SettledSlot DEF Scold, Ended
<1>6. QED
  BY <1>3, <1>5, RunsUnchanged, WorkerRows DEF Scold, Rows, TypeOK

\* The read of recordUncaughtDispatchFailure keeps the tables well formed.
LEMMA ReadFailedCardRows ==
  ASSUME Rows, NEW w \in Workers, ReadFailedCard(w)
  PROVE  Rows'
<1> DEFINE i == [inv[w] EXCEPT !.pc = "uncaught", !.view = card[inv[w].card]]
<1>1. inv[w] \in Invocation /\ Remembers(inv[w]) /\ card[inv[w].card] \in CardRow
  BY SlotType, SlotFacts DEF ReadFailedCard
<1>2. i \in Invocation
  BY <1>1, SlotFields DEF WorkerPoints
<1>3. i.run = inv[w].run
  BY <1>1 DEF Invocation
<1>4. Remembers(i)
  BY <1>1 DEF ReadFailedCard, Invocation, Remembers, Holding
<1>5. CASE inv' = [inv EXCEPT ![w].pc = "refreshing"]
  BY <1>5, SlotGoto, RunsUnchanged, WorkerRows DEF ReadFailedCard, WorkerPoints, Holding, Rows, TypeOK
<1>6. CASE inv' = [inv EXCEPT ![w].pc = "uncaught", ![w].view = card[inv[w].card]]
  <2>1. SlotMoves(w)
    BY <1>2, <1>3, <1>4, <1>6, SlotStep
  <2>2. QED
    BY <2>1, RunsUnchanged, WorkerRows DEF ReadFailedCard, Rows, TypeOK
<1>7. QED
  BY <1>5, <1>6 DEF ReadFailedCard, Goto

\* The card update of recordUncaughtDispatchFailure keeps the tables well formed.
LEMMA RetryFailedCardRows ==
  ASSUME Rows, LimitAssumption, NEW w \in Workers, RetryFailedCard(w)
  PROVE  Rows'
<1>1. card[inv[w].card] \in CardRow /\ inv[w].view.retries \in 0..MaxRetries
  BY SlotFacts DEF RetryFailedCard
<1>2. card' \in [Cards -> CardRow]
  BY <1>1, FailureRows, CardUpdate DEF RetryFailedCard, Rows, TypeOK
<1>3. SlotMoves(w)
  BY SlotGoto DEF RetryFailedCard, Goto, WorkerPoints, Holding
<1>4. QED
  BY <1>2, <1>3, RunsUnchanged, WorkerRows DEF RetryFailedCard, Rows, TypeOK
\* The agent update of sendAgentFeedbackAndRequeue keeps the tables well formed.
LEMMA FreeScoldedRows ==
  ASSUME Rows, NEW w \in Workers, FreeScolded(w)
  PROVE  Rows'
<1>1. busy' \in [Agents -> BOOLEAN]
  BY BusyUpdate DEF FreeScolded
<1>2. SlotMoves(w)
  BY SlotType, SlotGoto DEF FreeScolded, Goto, WorkerPoints, Holding, Remembers
<1>3. QED
  BY <1>1, <1>2, RunsUnchanged, WorkerRows DEF FreeScolded, Rows, TypeOK

\* The agent update of recordUncaughtDispatchFailure keeps the tables well formed.
LEMMA FreeAssigneeRows ==
  ASSUME Rows, NEW w \in Workers, FreeAssignee(w)
  PROVE  Rows'
<1>1. busy' \in [Agents -> BOOLEAN]
  BY BusyUpdate DEF FreeAssignee
<1>2. SlotMoves(w)
  BY SlotType, SlotGoto DEF FreeAssignee, Goto, WorkerPoints, Holding, Remembers
<1>3. QED
  BY <1>1, <1>2, RunsUnchanged, WorkerRows DEF FreeAssignee, Rows, TypeOK

\* completeTaskRun keeps the tables well formed.
LEMMA SettleRunRows ==
  ASSUME Rows, NEW w \in Workers, SettleRun(w)
  PROVE  Rows'
<1>1. RunsKept
  BY SlotType, RunEnded DEF SettleRun, Remembers
<1>2. SlotMoves(w)
  BY SlotType, SlotGoto DEF SettleRun, Goto, WorkerPoints, Holding, Remembers
<1>3. QED
  BY <1>1, <1>2, RunsUnchanged, WorkerRows DEF SettleRun, Rows, TypeOK

\* A dispatch error keeps the tables well formed.
LEMMA FailRunRows ==
  ASSUME Rows, NEW w \in Workers, FailRun(w)
  PROVE  Rows'
<1>1. RunsKept
  BY RunEnded DEF FailRun, Ended
<1>2. SlotMoves(w)
  BY SlotType, SlotGoto DEF FailRun, Goto, WorkerPoints, Holding, Remembers
<1>3. QED
  BY <1>1, <1>2, RunsUnchanged, WorkerRows DEF FailRun, Rows, TypeOK

\* finishWorkerTaskRun keeps the tables well formed.
LEMMA FinishRunRows ==
  ASSUME Rows, NEW w \in Workers, FinishRun(w)
  PROVE  Rows'
<1>1. RunsKept
  BY RunUpdate, RunsUnchanged DEF FinishRun, RunsKept, Ended
<1>2. SlotMoves(w)
  BY SlotType, SlotGoto DEF FinishRun, Goto, WorkerPoints, Holding, Remembers
<1>3. QED
  BY <1>1, <1>2, RunsUnchanged, WorkerRows DEF FinishRun, Rows, TypeOK

\* requeueBackpressuredTaskRun keeps the tables well formed.
LEMMA RequeueRows ==
  ASSUME Rows, IdentityAssumption, NEW w \in Workers, Requeue(w)
  PROVE  Rows'
<1>1. inv[w].run \in Runs => run[inv[w].run].status # "absent"
  BY DEF Rows, RunRows, IdentityAssumption
<1>2. RunsKept
  BY <1>1, RunUpdate, RunsUnchanged DEF Requeue, RunsKept, Active
<1>3. SlotMoves(w)
  BY SlotType, SlotGoto DEF Requeue, Goto, WorkerPoints, Holding, Remembers
<1>4. QED
  BY <1>2, <1>3, RunsUnchanged, WorkerRows DEF Requeue, Rows, TypeOK

\* The types of the tick's and the command's records.
TickRow == [pc: TickPoints, stale: SUBSET (Cards \X CardRow),
            now: (Cards \X CardRow) \cup {None}, todo: SUBSET Cards]
CommandRow == [pc: CommandPoints, card: Cards \cup {None}, view: CardRow \cup {None}]

\* Steps that are not a worker's: the slots stay as they are.
LEMMA OtherRows ==
  ASSUME Rows, card' \in [Cards -> CardRow], RunsKept, beat' \in [Beats -> BeatRow],
         busy' \in [Agents -> BOOLEAN], tick' \in TickRow, cmd' \in CommandRow,
         UNCHANGED inv, crashes' \in 0..MaxCrashes, commands' \in 0..MaxCommands
  PROVE  Rows'
<1>1. TypeOK'
  BY DEF Rows, TypeOK, RunsKept, TickRow, CommandRow
<1>2. Memory'
  BY DEF Rows, Memory
<1>3. RunRows'
  BY DEF Rows, RunRows, RunsKept, TypeOK, Invocation
<1>4. QED
  BY <1>1, <1>2, <1>3 DEF Rows

\* The tables and the records of the tick and the command are well formed.
LEMMA TableTypes ==
  ASSUME Rows
  PROVE  /\ card \in [Cards -> CardRow] /\ beat \in [Beats -> BeatRow]
         /\ busy \in [Agents -> BOOLEAN] /\ tick \in TickRow /\ cmd \in CommandRow
         /\ crashes \in 0..MaxCrashes /\ commands \in 0..MaxCommands
BY DEF Rows, TypeOK, TickRow, CommandRow

\* startExecutionLockRenewal keeps the tables well formed.
LEMMA RenewLockRows ==
  ASSUME Rows, NEW w \in Workers, RenewLock(w)
  PROVE  Rows'
<1>1. \A c \in Cards : [card[c] EXCEPT !.expired = FALSE] \in CardRow
  BY TableTypes DEF CardRow
<1>2. card' \in [Cards -> CardRow]
  BY <1>1, TableTypes DEF RenewLock
<1>3. QED
  BY <1>2, TableTypes, RunsUnchanged, OtherRows DEF RenewLock

\* The expiry of a lock keeps the tables well formed.
LEMMA ExpireLockRows ==
  ASSUME Rows, NEW c \in Cards, ExpireLock(c)
  PROVE  Rows'
<1>1. [card[c] EXCEPT !.expired = TRUE] \in CardRow
  BY TableTypes DEF CardRow
<1>2. card' \in [Cards -> CardRow]
  BY <1>1, TableTypes DEF ExpireLock
<1>3. QED
  BY <1>2, TableTypes, RunsUnchanged, OtherRows DEF ExpireLock

\* recoverStaleTaskRuns keeps the tables well formed.
LEMMA RecoverStaleRunRows ==
  ASSUME Rows, NEW r \in Runs, RecoverStaleRun(r)
  PROVE  Rows'
<1>1. RunsKept
  BY RunUpdate DEF RecoverStaleRun, RunsKept, Active
<1>2. QED
  BY <1>1, TableTypes, OtherRows DEF RecoverStaleRun

-----------------------------------------------------------------------------
\* The updates of the tick's record.
LEMMA TickFields ==
  ASSUME NEW t \in TickRow, NEW p \in TickPoints
  PROVE  /\ [t EXCEPT !.pc = p] \in TickRow
         /\ [t EXCEPT !.pc = p, !.now = None] \in TickRow
         /\ \A s : [t EXCEPT !.stale = @ \ {s}] \in TickRow
         /\ \A s \in Cards \X CardRow : [t EXCEPT !.pc = p, !.now = s, !.stale = @ \ {s}] \in TickRow
         /\ \A S \in SUBSET Cards : [t EXCEPT !.pc = p, !.todo = S] \in TickRow
         /\ \A c : [t EXCEPT !.todo = @ \ {c}] \in TickRow
<1>1. [t EXCEPT !.pc = p] \in TickRow /\ [t EXCEPT !.pc = p, !.now = None] \in TickRow
  BY DEF TickRow
<1>2. ASSUME NEW s PROVE t.stale \ {s} \in SUBSET (Cards \X CardRow)
  BY DEF TickRow
<1>3. ASSUME NEW s PROVE [t EXCEPT !.stale = @ \ {s}] \in TickRow
  BY <1>2 DEF TickRow
<1>4. ASSUME NEW s \in Cards \X CardRow
      PROVE  [t EXCEPT !.pc = p, !.now = s, !.stale = @ \ {s}] \in TickRow
  BY <1>2 DEF TickRow
<1>5. ASSUME NEW S \in SUBSET Cards PROVE [t EXCEPT !.pc = p, !.todo = S] \in TickRow
  BY DEF TickRow
<1>6. ASSUME NEW c PROVE t.todo \ {c} \in SUBSET Cards
  BY DEF TickRow
<1>7. ASSUME NEW c PROVE [t EXCEPT !.todo = @ \ {c}] \in TickRow
  BY <1>6 DEF TickRow
<1>8. QED
  BY <1>1, <1>3, <1>4, <1>5, <1>7

\* The tick's record between two ticks.
LEMMA NoTickType == NoTick \in TickRow
BY DEF NoTick, TickRow, TickPoints

\* The query of recoverStaleExecutionLocks keeps the tables well formed.
LEMMA StartTickRows ==
  ASSUME Rows, StartTick
  PROVE  Rows'
<1>1. {<<c, card[c]>> : c \in {d \in Cards : card[d].expired}} \in SUBSET (Cards \X CardRow)
  BY TableTypes
<1>2. tick' \in TickRow
  BY <1>1 DEF StartTick, NoTick, TickRow, TickPoints
<1>3. QED
  BY <1>2, TableTypes, RunsUnchanged, OtherRows DEF StartTick

\* The card update of recoverStaleExecutionLocks keeps the tables well formed.
LEMMA RecoverLockRows ==
  ASSUME Rows, LimitAssumption, RecoverLock
  PROVE  Rows'
<1>1. PICK s \in tick.stale :
        /\ \/ /\ SameRow(card[s[1]], s[2])
              /\ \/ \E row \in AfterFailure(card[s[1]], s[2].retries) :
                       card' = [card EXCEPT ![s[1]] = row]
                 \/ card' = [card EXCEPT ![s[1]] = Unlocked(card[s[1]], s[2].status, s[2].retries)]
              /\ tick' = [tick EXCEPT !.pc = "freeAgent", !.now = s, !.stale = @ \ {s}]
           \/ tick' = [tick EXCEPT !.stale = @ \ {s}] /\ UNCHANGED card
  BY DEF RecoverLock
<1>2. s \in Cards \X CardRow
  BY <1>1, TableTypes DEF TickRow
<1>3. s[1] \in Cards /\ card[s[1]] \in CardRow /\ s[2] \in CardRow
  BY <1>2, TableTypes
<1>4. s[2].status \in Statuses /\ s[2].retries \in 0..MaxRetries
  BY <1>3 DEF CardRow
<1>5. Unlocked(card[s[1]], s[2].status, s[2].retries) \in CardRow
  BY <1>3, <1>4, UnlockedRow
<1>6. \A row \in AfterFailure(card[s[1]], s[2].retries) : row \in CardRow
  BY <1>3, <1>4, FailureRows
<1>7. card' \in [Cards -> CardRow]
  BY <1>1, <1>5, <1>6, CardUpdate, TableTypes
<1>8. /\ [tick EXCEPT !.pc = "freeAgent", !.now = s, !.stale = @ \ {s}] \in TickRow
      /\ [tick EXCEPT !.stale = @ \ {s}] \in TickRow
  BY <1>2, TableTypes, TickFields DEF TickPoints
<1>9. tick' \in TickRow
  BY <1>1, <1>8
<1>10. QED
  BY <1>7, <1>9, TableTypes, RunsUnchanged, OtherRows DEF RecoverLock

\* The agent update of recoverStaleExecutionLocks keeps the tables well formed.
LEMMA FreeLockAgentRows ==
  ASSUME Rows, FreeLockAgent
  PROVE  Rows'
<1>1. busy' \in [Agents -> BOOLEAN]
  BY BusyUpdate DEF FreeLockAgent
<1>2. tick' \in TickRow
  BY TableTypes, TickFields DEF FreeLockAgent, TickPoints
<1>3. QED
  BY <1>1, <1>2, TableTypes, RunsUnchanged, OtherRows DEF FreeLockAgent

\* The heartbeat update of recoverStaleExecutionLocks keeps the tables well formed.
LEMMA FailLockBeatRows ==
  ASSUME Rows, FailLockBeat
  PROVE  Rows'
<1>1. beat' \in [Beats -> BeatRow]
  BY BeatUpdate DEF FailLockBeat, Ended
<1>2. tick' \in TickRow
  BY TableTypes, TickFields DEF FailLockBeat, TickPoints
<1>3. QED
  BY <1>1, <1>2, TableTypes, RunsUnchanged, OtherRows DEF FailLockBeat

\* Several rows of the runs table move to one status together.
LEMMA RunsUpdate ==
  ASSUME Rows, NEW S, NEW s \in Active \cup Ended, \A r \in Runs : r \in S => run[r].status # "absent",
         run' = [r \in Runs |-> IF r \in S THEN [run[r] EXCEPT !.status = s] ELSE run[r]]
  PROVE  RunsKept
<1>1. \A r \in Runs : run[r] \in RunRow /\ [run[r] EXCEPT !.status = s] \in RunRow
  BY DEF Rows, TypeOK, RunRow
<1>2. run' \in [Runs -> RunRow]
  BY <1>1
<1>3. s # "absent"
  BY DEF Active, Ended
<1>4. \A r \in Runs : run'[r].card = run[r].card
                      /\ (run'[r].status = "absent" <=> run[r].status = "absent")
  BY <1>1, <1>3 DEF RunRow
<1>5. QED
  BY <1>2, <1>4 DEF RunsKept, Rows, RunRows
\* The run update of recoverStaleExecutionLocks keeps the tables well formed.
LEMMA FailLockRunsRows ==
  ASSUME Rows, FailLockRuns
  PROVE  Rows'
<1> DEFINE S == BeatRuns(tick.now[2].lock)
<1>1. \A r \in Runs : r \in S => run[r].status # "absent"
  BY DEF BeatRuns
<1> HIDE DEF S
<1>2. run' = [r \in Runs |-> IF r \in S THEN [run[r] EXCEPT !.status = "failed"] ELSE run[r]]
  BY DEF FailLockRuns, S
<1>3. RunsKept
  BY <1>1, <1>2, RunsUpdate DEF Ended
<1>4. tick' \in TickRow
  BY TableTypes, TickFields DEF FailLockRuns, TickPoints
<1>5. QED
  BY <1>3, <1>4, TableTypes, OtherRows DEF FailLockRuns

\* The card query of runDispatchCronTick keeps the tables well formed.
LEMMA ScanCardsRows ==
  ASSUME Rows, ScanCards
  PROVE  Rows'
<1>1. {c \in Cards : card[c].status = "todo"} \in SUBSET Cards
  OBVIOUS
<1>2. tick' \in TickRow
  BY <1>1, TableTypes, TickFields DEF ScanCards, TickPoints
<1>3. QED
  BY <1>2, TableTypes, RunsUnchanged, OtherRows DEF ScanCards

\* An enqueue of runDispatchCronTick keeps the tables well formed.
LEMMA EnqueueScannedRows ==
  ASSUME Rows, EnqueueScanned
  PROVE  Rows'
<1>1. PICK c \in tick.todo : Enqueue(c) /\ tick' = [tick EXCEPT !.todo = @ \ {c}]
  BY DEF EnqueueScanned
<1>2. c \in Cards
  BY TableTypes DEF TickRow
<1>3. RunsKept
  BY <1>1, <1>2, EnqueueRuns
<1>4. [tick EXCEPT !.todo = @ \ {c}] \in TickRow
  BY TableTypes, TickFields DEF TickPoints
<1>5. QED
  BY <1>1, <1>3, <1>4, TableTypes, OtherRows DEF EnqueueScanned

\* The end of runDispatchCronTick keeps the tables well formed.
LEMMA EndTickRows ==
  ASSUME Rows, EndTick
  PROVE  Rows'
BY NoTickType, TableTypes, RunsUnchanged, OtherRows DEF EndTick

-----------------------------------------------------------------------------
\* The updates of the command's record.
LEMMA CommandTypes ==
  /\ NoCommand \in CommandRow
  /\ \A c \in Cards, v \in CardRow \cup {None}, p \in CommandPoints :
       [pc |-> p, card |-> c, view |-> v] \in CommandRow
  /\ \A k \in CommandRow, p \in CommandPoints : [k EXCEPT !.pc = p] \in CommandRow
BY DEF NoCommand, CommandRow, CommandPoints

\* Recounting agents keeps their table well formed.
LEMMA RecountType ==
  ASSUME Rows, IdentityAssumption, LimitAssumption, NEW S, Recount(S)
  PROVE  busy' \in [Agents -> BOOLEAN]
<1>1. ASSUME NEW a \in Agents PROVE Refreshed(beat, a) \in BOOLEAN
  <2>1. Cardinality({h \in Beats : beat[h].status = "running" /\ beat[h].agent = a}) \in Nat
    BY CountType
  <2>2. QED
    BY <2>1 DEF Refreshed, LimitAssumption
<1>2. QED
  BY <1>1, TableTypes DEF Recount

\* The bound on commands is kept.
LEMMA CommandCount ==
  ASSUME Rows, LimitAssumption, NEW k, Command(k)
  PROVE  commands' \in 0..MaxCommands
BY TableTypes DEF Command, LimitAssumption

\* The run update of a cancel keeps the tables well formed.
LEMMA CancelRunsRows ==
  ASSUME Rows, LimitAssumption, NEW c \in Cards, CancelRuns(c)
  PROVE  Rows'
<1>1. RunsKept
  BY RunsUpdate DEF CancelRuns, ActiveRuns, Active, Ended
<1>2. [pc |-> "beat", card |-> c, view |-> card[c]] \in CommandRow
  BY CommandTypes, TableTypes DEF CommandPoints
<1>3. QED
  BY <1>1, <1>2, CommandCount, TableTypes, OtherRows DEF CancelRuns

\* The heartbeat update of a cancel keeps the tables well formed.
LEMMA CancelBeatRows ==
  ASSUME Rows, CancelBeat
  PROVE  Rows'
<1>1. beat' \in [Beats -> BeatRow]
  BY BeatUpdate, TableTypes DEF CancelBeat, Ended
<1>2. [cmd EXCEPT !.pc = "agents"] \in CommandRow
  BY CommandTypes, TableTypes DEF CommandPoints
<1>3. QED
  BY <1>1, <1>2, TableTypes, RunsUnchanged, OtherRows DEF CancelBeat

\* The capacity update of a cancel keeps the tables well formed.
LEMMA CancelAgentsRows ==
  ASSUME Rows, IdentityAssumption, LimitAssumption, CancelAgents
  PROVE  Rows'
<1>1. busy' \in [Agents -> BOOLEAN]
  BY RecountType DEF CancelAgents
<1>2. [cmd EXCEPT !.pc = "card"] \in CommandRow
  BY CommandTypes, TableTypes DEF CommandPoints
<1>3. QED
  BY <1>1, <1>2, TableTypes, RunsUnchanged, OtherRows DEF CancelAgents

\* The card update of a cancel keeps the tables well formed.
LEMMA CancelCardRows ==
  ASSUME Rows, CancelCard
  PROVE  Rows'
<1>1. \A c \in Cards : card[c] \in CardRow /\ card[c].retries \in 0..MaxRetries
  BY TableTypes DEF CardRow
<1>2. \A c \in Cards : Unlocked(card[c], "cancelled", card[c].retries) \in CardRow
  BY <1>1, UnlockedRow DEF Statuses
<1>3. card' \in [Cards -> CardRow]
  BY <1>2, TableTypes DEF CancelCard
<1>4. [cmd EXCEPT !.pc = "beats"] \in CommandRow
  BY CommandTypes, TableTypes DEF CommandPoints
<1>5. QED
  BY <1>3, <1>4, TableTypes, RunsUnchanged, OtherRows DEF CancelCard

\* The heartbeat sweep of refreshCancelledCardCapacity keeps the tables well formed.
LEMMA CancelBeatsRows ==
  ASSUME Rows, CancelBeats
  PROVE  Rows'
<1>1. \A h \in Beats : [beat[h] EXCEPT !.status = "cancelled"] \in BeatRow
  BY TableTypes DEF BeatRow, Ended
<1>2. beat' \in [Beats -> BeatRow]
  BY <1>1, TableTypes DEF CancelBeats
<1>3. [cmd EXCEPT !.pc = "capacity"] \in CommandRow
  BY CommandTypes, TableTypes DEF CommandPoints
<1>4. QED
  BY <1>2, <1>3, TableTypes, RunsUnchanged, OtherRows DEF CancelBeats

\* The recount of refreshCancelledCardCapacity keeps the tables well formed.
LEMMA CancelCapacityRows ==
  ASSUME Rows, IdentityAssumption, LimitAssumption, CancelCapacity
  PROVE  Rows'
<1>1. busy' \in [Agents -> BOOLEAN]
  BY RecountType DEF CancelCapacity
<1>2. QED
  BY <1>1, CommandTypes, TableTypes, RunsUnchanged, OtherRows DEF CancelCapacity

\* The agent update of continue_run keeps the tables well formed.
LEMMA ContinueAgentRows ==
  ASSUME Rows, LimitAssumption, NEW c \in Cards, ContinueAgent(c)
  PROVE  Rows'
<1>1. busy' \in [Agents -> BOOLEAN]
  BY BusyUpdate DEF ContinueAgent
<1>2. [pc |-> "continue", card |-> c, view |-> None] \in CommandRow
  BY CommandTypes DEF CommandPoints
<1>3. QED
  BY <1>1, <1>2, CommandCount, TableTypes, RunsUnchanged, OtherRows DEF ContinueAgent

\* The card update of continue_run keeps the tables well formed.
LEMMA ContinueCardRows ==
  ASSUME Rows, ContinueCard
  PROVE  Rows'
<1>1. \A c \in Cards : [card[c] EXCEPT !.status = "todo"] \in CardRow
  BY TableTypes DEF CardRow, Statuses
<1>2. card' \in [Cards -> CardRow]
  BY <1>1, TableTypes DEF ContinueCard
<1>3. QED
  BY <1>2, CommandTypes, TableTypes, RunsUnchanged, OtherRows DEF ContinueCard

\* A restart keeps the tables well formed.
LEMMA CrashRows ==
  ASSUME Rows, LimitAssumption, Crash
  PROVE  Rows'
<1>1. Resting \in Invocation /\ Remembers(Resting) /\ Resting.run = None
  BY DEF Resting, Invocation, WorkerPoints, Remembers, Holding
<1>2. inv' \in [Workers -> Invocation] /\ Memory'
  BY <1>1 DEF Crash, Memory
<1>3. crashes' \in 0..MaxCrashes
  BY TableTypes DEF Crash, LimitAssumption
<1>4. NoTick \in TickRow /\ NoCommand \in CommandRow
  BY NoTickType, CommandTypes
<1>5. TypeOK'
  BY <1>2, <1>3, <1>4 DEF Crash, Rows, TypeOK, TickRow, CommandRow
<1>6. RunRows'
  BY <1>1 DEF Crash, Rows, RunRows
<1>7. QED
  BY <1>2, <1>5, <1>6 DEF Rows

\* The initial tables are well formed.
LEMMA InitRows ==
  ASSUME IdentityAssumption, LimitAssumption, Init
  PROVE  Rows
<1>1. \A a \in Agents : [status |-> "todo", lock |-> None, expired |-> FALSE, retries |-> 0,
                         repairs |-> 0, recovery |-> "none", assignee |-> a] \in CardRow
  BY DEF CardRow, Statuses, LimitAssumption
<1>2. card \in [Cards -> CardRow]
  BY <1>1 DEF Init
<1>3. run \in [Runs -> RunRow] /\ beat \in [Beats -> BeatRow] /\ busy \in [Agents -> BOOLEAN]
  BY DEF Init, RunRow, BeatRow
<1>4. Resting \in Invocation /\ Remembers(Resting) /\ Resting.run = None
  BY DEF Resting, Invocation, WorkerPoints, Remembers, Holding
<1>5. inv \in [Workers -> Invocation] /\ Memory
  BY <1>4 DEF Init, Memory
<1>6. tick \in TickRow /\ cmd \in CommandRow
  BY NoTickType, CommandTypes DEF Init
<1>7. crashes \in 0..MaxCrashes /\ commands \in 0..MaxCommands
  BY DEF Init, LimitAssumption
<1>8. TypeOK
  BY <1>2, <1>3, <1>5, <1>6, <1>7 DEF TypeOK, TickRow, CommandRow
<1>9. RunRows
  BY <1>4 DEF Init, RunRows
<1>10. QED
  BY <1>5, <1>8, <1>9 DEF Rows

\* No worker action breaks the tables.
LEMMA WorkerStepRows ==
  ASSUME Rows, IdentityAssumption, LimitAssumption, NEW w \in Workers, Worker(w)
  PROVE  Rows'
<1>1. CASE Admission(w)
  BY <1>1, ClaimRunRows, ChooseAgentRows, RefuseDispatchRows, ClaimCapacityRows, OpenBeatRows,
     LinkBeatRows DEF Admission
<1>2. CASE Attempt(w)
  BY <1>2, AcquireLockRows, LockRefusedRows, FreeRefusedRows, CheckCurrentRows, AdapterReturnsRows,
     PersistProductsRows, CompleteRows, DelegateRows, HandoffRows, FailRows, ParkRows,
     RecoverParkedRows, ScoldRows, FreeScoldedRows, FailScoldedRows DEF Attempt
<1>3. CASE Aftermath(w)
  BY <1>3, SettleRunRows, EnqueueFollowUpRows, FinishRunRows, RequeueRows, FailRunRows,
     ReadFailedCardRows, RetryFailedCardRows, FreeAssigneeRows, RefreshRows DEF Aftermath
<1>4. QED
  BY <1>1, <1>2, <1>3 DEF Worker

\* No step breaks the tables.
LEMMA StepRows ==
  ASSUME Rows, IdentityAssumption, LimitAssumption, [Next]_vars
  PROVE  Rows'
<1>1. CASE UNCHANGED vars
  BY <1>1, RunsUnchanged, TableTypes, OtherRows DEF vars
<1>2. ASSUME NEW w \in Workers, Worker(w) \/ RenewLock(w) PROVE Rows'
  BY <1>2, WorkerStepRows, RenewLockRows
<1>3. CASE Tick
  BY <1>3, StartTickRows, RecoverLockRows, FreeLockAgentRows, FailLockBeatRows, FailLockRunsRows,
     ScanCardsRows, EnqueueScannedRows, EndTickRows DEF Tick
<1>4. CASE Operator
  BY <1>4, CancelRunsRows, ContinueAgentRows, CancelBeatRows, CancelAgentsRows, CancelCardRows,
     CancelBeatsRows, CancelCapacityRows, ContinueCardRows DEF Operator
<1>5. CASE Crash
  BY <1>5, CrashRows
<1>6. ASSUME NEW c \in Cards, ExpireLock(c) PROVE Rows'
  BY <1>6, ExpireLockRows
<1>7. ASSUME NEW r \in Runs, RecoverStaleRun(r) PROVE Rows'
  BY <1>7, RecoverStaleRunRows
<1>8. QED
  BY <1>1, <1>2, <1>3, <1>4, <1>5, <1>6, <1>7 DEF Next

\* Every reachable state is well typed and every process remembers what its next
\* statement needs (Dispatch against the columns and variables of dispatch.ts).
THEOREM TypeCorrect == Spec => []Rows
<1>1. Init => Rows
  BY IdentityAssumption, LimitAssumption, InitRows
<1>2. Rows /\ [Next]_vars => Rows'
  BY IdentityAssumption, LimitAssumption, StepRows
<1>3. QED
  BY <1>1, <1>2, PTL DEF Spec
=============================================================================
