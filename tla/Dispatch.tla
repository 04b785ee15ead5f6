------------------------------ MODULE Dispatch ------------------------------
(***************************************************************************)
(* The dispatch path of the control plane: the task-run queue, the worker  *)
(* that turns a queued run into an agent call, the execution lock of the   *)
(* card, the heartbeat record and the capacity flag of the agent, the cron *)
(* tick that recovers expired locks and enqueues waiting cards, and the    *)
(* operator's cancel and continue commands.                                *)
(*                                                                         *)
(* One action is one database statement or one transaction: everything the *)
(* code awaits between two of them may interleave with the other actors.   *)
(* Everything a worker, the tick or a command remembers between two steps  *)
(* is process memory and is lost by Crash; the tables survive it.          *)
(***************************************************************************)
EXTENDS Naturals, FiniteSets

CONSTANTS
  Cards, Agents,
  Workers,            \* invocations a server runs at once (TASK_RUN_WORKER_BATCH_SIZE)
  Runs, Beats,        \* identities of task_runs and heartbeat_runs rows (bounds)
  None,               \* SQL NULL
  MaxConcurrent,      \* agents.max_concurrent
  MaxRetries,         \* cards.max_retries
  Outcomes,           \* how a dispatch may end
  Finished,           \* where an accepted completion may leave a card
  Exhausted,          \* where a card goes when its retries are used up
  Stalls,             \* a live worker may miss its claim and lock deadlines
  CrashPoints,        \* program points a process may be at when it crashes
  MaxCrashes, MaxCommands, Commands   \* bounds on crashes and operator commands

\* How a dispatch ends: the report settles the card, asks for more work by the
\* same agent, reports an error, hands work to direct reports or the card to a
\* peer, is malformed, or names a missing permission. Two never start: "unready"
\* fails its run, "deferred" is backpressure other than a busy agent.
AllOutcomes == {"completed", "progress", "failed", "delegated", "handoff",
                "invalid", "permission", "unready", "deferred"}
Reports == AllOutcomes \ {"unready", "deferred"}

ASSUME IdentityAssumption ==
  /\ None \notin Cards \cup Agents \cup Runs \cup Beats \cup AllOutcomes
  /\ Agents # {} /\ IsFiniteSet(Beats) /\ IsFiniteSet(Workers)
ASSUME LimitAssumption ==
  /\ MaxConcurrent \in Nat \ {0} /\ MaxRetries \in Nat \ {0}
  /\ MaxCrashes \in Nat /\ MaxCommands \in Nat
  /\ Stalls \in BOOLEAN
  /\ Outcomes \subseteq AllOutcomes
  /\ Finished \subseteq {"in_review", "needs_review", "waiting_on_client", "done", "blocked"}
  /\ Exhausted \subseteq {"needs_review", "in_review", "blocked"}

VARIABLES
  card,     \* cards: status, execution lock and its expiry, failed attempts, malformed
            \* reports, who has to recover the card, assignee
  run,      \* dispatch task runs: status, card, agent, heartbeat
  beat,     \* heartbeat runs: status, card, agent, whether they ever took the lock
  busy,     \* agents.is_busy
  inv,      \* the invocation each worker slot is running
  tick,     \* the cron tick in progress
  cmd,      \* the operator command in progress
  crashes, commands

vars == <<card, run, beat, busy, inv, tick, cmd, crashes, commands>>

-----------------------------------------------------------------------------
(* Rows and their types.                                                   *)

Statuses == {"todo", "in_progress", "in_review", "needs_review", "waiting_on_client",
             "done", "blocked", "cancelled"}
Ended == {"success", "failed", "cancelled"}
Active == {"queued", "running"}

CardRow == [status: Statuses, lock: Beats \cup {None}, expired: BOOLEAN,
            retries: 0..MaxRetries, repairs: 0..3,
            recovery: {"none", "manager", "human"}, assignee: Agents]
RunRow == [status: {"absent"} \cup Active \cup Ended, card: Cards \cup {None},
           agent: Agents \cup {None}, beat: Beats \cup {None}]
BeatRow == [status: {"absent", "running"} \cup Ended, card: Cards \cup {None},
            agent: Agents \cup {None}, locked: BOOLEAN]

\* What the tick remembers of a row it read is not NULL.
ASSUME RowAssumption == None \notin Cards \X CardRow

WorkerPoints == {"idle", "claimed", "chosen", "admitted", "opened", "linked", "refused",
  "locked", "executing", "returned", "accepted", "parked", "scolded", "freed",
  "settling", "following",
  "worked", "error", "failed", "uncaught", "freeing", "refreshing"}
TickPoints == {"idle", "locks", "freeAgent", "failBeat", "failRuns", "cards"}
CommandPoints == {"idle", "beat", "agents", "card", "beats", "capacity", "continue"}

Invocation == [pc: WorkerPoints, run: Runs \cup {None}, card: Cards \cup {None},
               owner: Agents \cup {None}, agent: Agents \cup {None},
               beat: Beats \cup {None}, view: CardRow \cup {None},
               outcome: Reports \cup {None},
               verdict: Ended \cup {None}, follow: BOOLEAN]
Resting == [pc |-> "idle", run |-> None, card |-> None, owner |-> None,
            agent |-> None, beat |-> None, view |-> None, outcome |-> None, verdict |-> None,
            follow |-> FALSE]

NoTick == [pc |-> "idle", stale |-> {}, now |-> None, todo |-> {}]
NoCommand == [pc |-> "idle", card |-> None, view |-> None]

TypeOK ==
  /\ card \in [Cards -> CardRow]
  /\ run \in [Runs -> RunRow]
  /\ beat \in [Beats -> BeatRow]
  /\ busy \in [Agents -> BOOLEAN]
  /\ inv \in [Workers -> Invocation]
  /\ tick \in [pc: TickPoints, stale: SUBSET (Cards \X CardRow),
               now: (Cards \X CardRow) \cup {None}, todo: SUBSET Cards]
  /\ cmd \in [pc: CommandPoints, card: Cards \cup {None}, view: CardRow \cup {None}]
  /\ crashes \in 0..MaxCrashes /\ commands \in 0..MaxCommands

Init ==
  /\ card \in [Cards -> {[status |-> "todo", lock |-> None, expired |-> FALSE,
                          retries |-> 0, repairs |-> 0, recovery |-> "none",
                          assignee |-> a] : a \in Agents}]
  /\ run = [r \in Runs |-> [status |-> "absent", card |-> None,
                            agent |-> None, beat |-> None]]
  /\ beat = [h \in Beats |-> [status |-> "absent", card |-> None,
                              agent |-> None, locked |-> FALSE]]
  /\ busy = [a \in Agents |-> FALSE]
  /\ inv = [w \in Workers |-> Resting]
  /\ tick = NoTick /\ cmd = NoCommand
  /\ crashes = 0 /\ commands = 0

-----------------------------------------------------------------------------
(* Queries and updates the statements are made of.                         *)

RunningBeats(a) == {h \in Beats : beat[h].status = "running" /\ beat[h].agent = a}
ActiveRuns(c) == {r \in Runs : run[r].card = c /\ run[r].status \in Active}
BeatRuns(h) == {r \in Runs : run[r].beat = h /\ run[r].status # "absent"}
AbsentRuns == {r \in Runs : run[r].status = "absent"}
\* Mutant of AbsentBeats: rows of ended heartbeats are used again.
ReusableBeats == {h \in Beats : beat[h].status # "running"}

AbsentBeats == {h \in Beats : beat[h].status = "absent"}

\* cardChangedOutsideCurrentRun: the row is still the one the writer read.
\* Reviewer, project and approval columns never change here.
SameColumns(row, view) ==
  row.status = view.status /\ row.assignee = view.assignee /\ row.lock = view.lock

\* completionCondition: and no human gate is pending.
SameRow(row, view) == SameColumns(row, view) /\ row.recovery # "human"

\* Mutant of StillCurrent: the lock and the run are not compared.
StatusCurrent(c, view, r) ==
  card[c].status = view.status /\ card[c].assignee = view.assignee

\* The writer's own run must also be queued or running.
StillCurrent(c, view, r) == SameRow(card[c], view) /\ run[r].status \in Active

\* recoveryMutationAllowed: settled cards and cards at a human gate are left alone.
RecoveryAllowed(row) ==
  row.status \notin {"done", "cancelled", "waiting_on_client"} /\ row.recovery # "human"

\* The columns every release of the execution lock writes together.
Unlocked(row, s, n) ==
  [row EXCEPT !.status = s, !.retries = n, !.lock = None, !.expired = FALSE]

Retried(n) == IF n + 1 < MaxRetries THEN n + 1 ELSE MaxRetries

\* requestCardRecovery on a blocked row: a manager or a human takes over, unless
\* the manager who has it already did not fail himself.
Recovered(row) ==
  IF row.recovery = "none"
  THEN {[row EXCEPT !.status = s,
          !.recovery = CASE s = "needs_review" -> "manager" [] s = "in_review" -> "human"
                         [] OTHER -> "none"] : s \in Exhausted}
  ELSE {row}

\* Mutant of AfterFailure: the card is unlocked where it stands.
RetryInPlace(row, n) ==
  IF n + 1 < MaxRetries THEN {Unlocked(row, row.status, n + 1)}
  ELSE Recovered(Unlocked(row, "blocked", Retried(n)))

\* A failed attempt goes back to todo, or to recovery once retries are used up.
AfterFailure(row, n) ==
  IF n + 1 < MaxRetries THEN {Unlocked(row, "todo", n + 1)}
  ELSE Recovered(Unlocked(row, "blocked", Retried(n)))

\* protocolRepairResetState: a substantial result clears the malformed reports.
Repaired(row) == {row, [row EXCEPT !.repairs = 0]}

\* recordProtocolFailure: two corrections are asked of the agent, then the card
\* goes to recovery and no further one is counted.
Corrected(row) ==
  IF row.repairs < 2
  THEN {[Unlocked(row, "todo", row.retries) EXCEPT !.repairs = @ + 1]}
  ELSE Recovered([Unlocked(row, "blocked", row.retries) EXCEPT !.repairs = 3])

EndRun(r, s) ==
  IF run[r].status \in Active THEN [run EXCEPT ![r].status = s] ELSE run

NewRun(c) == [status |-> "queued", card |-> c, agent |-> card[c].assignee, beat |-> None]

\* Mutant of Enqueue: the existing active run is not looked up.
EnqueueAgain(c) ==
  \/ AbsentRuns = {} /\ run' = run
  \/ AbsentRuns # {} /\ run' = [run EXCEPT ![CHOOSE r \in AbsentRuns : TRUE] = NewRun(c)]

\* enqueueTaskRun: an active run of the card is returned as it is; the unique
\* index makes concurrent inserts resolve to one row. Bound: nothing is inserted
\* once every row of Runs is used.
Enqueue(c) ==
  \/ (ActiveRuns(c) # {} \/ AbsentRuns = {}) /\ run' = run
  \/ /\ ActiveRuns(c) = {} /\ AbsentRuns # {}
     /\ run' = [run EXCEPT ![CHOOSE r \in AbsentRuns : TRUE] = NewRun(c)]

\* Mutant of Refreshed: heartbeats that ended count as well.
EverBeating(hs, a) ==
  Cardinality({h \in Beats : hs[h].status # "absent" /\ hs[h].agent = a}) >= MaxConcurrent

\* refreshAgentRemoteCapacity, from heartbeat rows hs.
Refreshed(hs, a) ==
  Cardinality({h \in Beats : hs[h].status = "running" /\ hs[h].agent = a}) >= MaxConcurrent

Goto(w, p) == inv' = [inv EXCEPT ![w].pc = p]

-----------------------------------------------------------------------------
(* A worker slot: claiming a run and admitting it on the agent.            *)

\* claimNextTaskRun: a queued dispatch run is taken whatever the card's status,
\* unless its recovery is pending (runRetryReady).
ClaimRun(w) == \E r \in Runs :
  /\ inv[w].pc = "idle"
  /\ run[r].status = "queued"
  /\ card[run[r].card].recovery = "none"
  /\ ~busy[card[run[r].card].assignee]
  /\ run' = [run EXCEPT ![r].status = "running"]
  /\ inv' = [inv EXCEPT ![w] = [Resting EXCEPT !.pc = "claimed", !.run = r,
                             !.card = run[r].card, !.owner = run[r].agent]]
  /\ UNCHANGED <<card, beat, busy, tick, cmd, crashes, commands>>

\* dispatchCard's preamble: the assignee is read. A busy one is backpressure, so is
\* one without budget or runtime and a card that waits for its parts.
ChooseAgent(w) == \E p \in {"chosen", "error"} :
  LET a == card[inv[w].card].assignee IN
  /\ inv[w].pc = "claimed" /\ card[inv[w].card].recovery = "none"
  /\ \/ p = "chosen" /\ ~busy[a]
     \/ p = "error" /\ (busy[a] \/ "deferred" \in Outcomes)
  /\ inv' = [inv EXCEPT ![w].pc = p, ![w].agent = a]
  /\ UNCHANGED <<card, run, beat, busy, tick, cmd, crashes, commands>>

\* The preamble's other refusals, a recovery begun meanwhile among them, are errors.
RefuseDispatch(w) ==
  /\ inv[w].pc = "claimed"
  /\ "unready" \in Outcomes \/ card[inv[w].card].recovery # "none"
  /\ inv' = [inv EXCEPT ![w].pc = "error", ![w].outcome = "failed"]
  /\ UNCHANGED <<card, run, beat, busy, tick, cmd, crashes, commands>>

\* claimAgentCapacity: the running heartbeats are counted now, the new one is
\* inserted by a later statement. The flag itself only refuses a single slot.
CanAdmit(a) ==
  /\ MaxConcurrent = 1 => ~busy[a]
  /\ Cardinality(RunningBeats(a)) < MaxConcurrent

ClaimCapacity(w) ==
  LET a == inv[w].agent IN
  /\ inv[w].pc = "chosen"
  /\ IF CanAdmit(a)
     THEN /\ busy' = [busy EXCEPT ![a] = Cardinality(RunningBeats(a)) + 1 >= MaxConcurrent]
          /\ Goto(w, "admitted")
     ELSE Goto(w, "error") /\ UNCHANGED busy
  /\ UNCHANGED <<card, run, beat, tick, cmd, crashes, commands>>

\* openHeartbeatRun, first statement: a new heartbeat row.
OpenBeat(w) == \E h \in AbsentBeats :
  /\ inv[w].pc = "admitted"
  /\ h = CHOOSE x \in AbsentBeats : TRUE
  /\ beat' = [beat EXCEPT ![h] = [status |-> "running", card |-> inv[w].card,
                                  agent |-> inv[w].agent, locked |-> FALSE]]
  /\ inv' = [inv EXCEPT ![w].pc = "opened", ![w].beat = h]
  /\ UNCHANGED <<card, run, busy, tick, cmd, crashes, commands>>

\* openHeartbeatRun, second statement: the run points at its heartbeat.
LinkBeat(w) ==
  /\ inv[w].pc = "opened"
  /\ run' = [run EXCEPT ![inv[w].run].beat = inv[w].beat, ![inv[w].run].agent = inv[w].agent]
  /\ Goto(w, "linked")
  /\ UNCHANGED <<card, beat, busy, tick, cmd, crashes, commands>>

-----------------------------------------------------------------------------
(* The attempt: execution lock, agent call and result.                     *)

\* acquireExecutionLock: only a live lock refuses, neither the card's status
\* nor the run's is looked at.
LockFree(c) == card[c].lock = None \/ card[c].expired

AcquireLock(w) ==
  LET c == inv[w].card
      h == inv[w].beat
      row == [card[c] EXCEPT !.status = "in_progress", !.lock = h, !.expired = FALSE] IN
  /\ inv[w].pc = "linked"
  /\ LockFree(c)
  /\ card' = [card EXCEPT ![c] = row]
  /\ beat' = [beat EXCEPT ![h].locked = TRUE]
  /\ inv' = [inv EXCEPT ![w].pc = "locked", ![w].view = row]
  /\ UNCHANGED <<run, busy, tick, cmd, crashes, commands>>

\* Mutant of LockRefused: the refused heartbeat is left running.
LockRefusedOnly(w) ==
  /\ inv[w].pc = "linked"
  /\ ~LockFree(inv[w].card)
  /\ Goto(w, "refused")
  /\ UNCHANGED <<card, run, beat, busy, tick, cmd, crashes, commands>>

LockRefused(w) ==
  /\ inv[w].pc = "linked"
  /\ ~LockFree(inv[w].card)
  /\ beat' = [beat EXCEPT ![inv[w].beat].status = "cancelled"]
  /\ Goto(w, "refused")
  /\ UNCHANGED <<card, run, busy, tick, cmd, crashes, commands>>

FreeRefused(w) ==
  /\ inv[w].pc = "refused"
  /\ busy' = [busy EXCEPT ![inv[w].agent] = FALSE]
  /\ inv' = [inv EXCEPT ![w].pc = "error", ![w].outcome = "failed"]
  /\ UNCHANGED <<card, run, beat, tick, cmd, crashes, commands>>

\* settleOriginalHeartbeat: end the attempt's own heartbeat and free the agent
\* only when nothing else of it is running.
OtherWork(w) ==
  LET a == inv[w].agent
      h == inv[w].beat IN
  \/ card[inv[w].card].lock \notin {None, inv[w].view.lock, h}
  \/ RunningBeats(a) \ {h} # {}
  \/ \E r \in Runs \ {inv[w].run} : run[r].status = "running" /\ run[r].agent = a

Settle(w, s) ==
  /\ beat' = IF beat[inv[w].beat].status = "running"
             THEN [beat EXCEPT ![inv[w].beat].status = s] ELSE beat
  /\ busy' = IF OtherWork(w) THEN busy ELSE [busy EXCEPT ![inv[w].agent] = FALSE]
  /\ inv' = [inv EXCEPT ![w].pc = "settling", ![w].verdict = s]
  /\ UNCHANGED <<card, run>>

\* terminalRunStatus of the card that moved on.
StatusOf(c) ==
  IF card[c].status = "cancelled" THEN "cancelled"
  ELSE IF card[c].status = "blocked" THEN "failed" ELSE "success"

\* completionStillCurrent, before the agent is called.
CheckCurrent(w) ==
  /\ inv[w].pc = "locked"
  /\ IF StillCurrent(inv[w].card, inv[w].view, inv[w].run)
     THEN Goto(w, "executing") /\ UNCHANGED <<card, run, beat, busy>>
     ELSE Settle(w, "cancelled")
  /\ UNCHANGED <<tick, cmd, crashes, commands>>

\* The adapter call ends and the card is read again (cardChangedOutsideCurrentRun).
AdapterReturns(w) == \E o \in Outcomes \cap Reports :
  /\ inv[w].pc = "executing"
  /\ IF SameColumns(card[inv[w].card], inv[w].view)
     THEN /\ inv' = [inv EXCEPT ![w].pc = "returned", ![w].outcome = o]
          /\ UNCHANGED <<card, run, beat, busy>>
     ELSE Settle(w, StatusOf(inv[w].card))
  /\ UNCHANGED <<tick, cmd, crashes, commands>>

\* Mutants of ResultAuthority: nothing, or only the card's status, is compared.
NoAuthority(w) == TRUE
StatusAuthority(w) == card[inv[w].card].status = inv[w].view.status

\* lockResultAuthority: the run must also still be this agent's.
ResultAuthority(w) ==
  /\ StillCurrent(inv[w].card, inv[w].view, inv[w].run)
  /\ run[inv[w].run].agent \in {None, inv[w].agent}

\* persistAgentWorkProducts: the evidence of a result, also of one that reports
\* its own failure, is stored under lockResultAuthority.
PersistProducts(w) ==
  /\ inv[w].pc = "returned" /\ inv[w].outcome # "permission"
  /\ IF ResultAuthority(w)
     THEN Goto(w, "accepted") /\ UNCHANGED <<card, run, beat, busy>>
     ELSE Settle(w, "success")
  /\ UNCHANGED <<tick, cmd, crashes, commands>>

\* The completion transaction: agent, card, heartbeat and run move together,
\* or the result is superseded and only its own heartbeat is settled.
Complete(w) ==
  LET c == inv[w].card IN
  /\ inv[w].pc = "accepted" /\ inv[w].outcome \in {"completed", "progress"}
  /\ IF StillCurrent(c, inv[w].view, inv[w].run)
     THEN \E s \in IF inv[w].outcome = "progress" THEN {"in_progress"} ELSE Finished :
          /\ busy' = [busy EXCEPT ![inv[w].agent] = FALSE]
          /\ \E row \in Repaired(Unlocked(card[c], s, 0)) : card' = [card EXCEPT ![c] = row]
          /\ beat' = [beat EXCEPT ![inv[w].beat].status = "success"]
          /\ run' = EndRun(inv[w].run, "success")
          /\ inv' = [inv EXCEPT ![w].pc = IF s = "in_progress" THEN "following" ELSE "worked"]
     ELSE Settle(w, "success")
  /\ UNCHANGED <<tick, cmd, crashes, commands>>

\* A report that delegates: the card keeps working through its delegations.
\* The transaction names the card by its id only.
Delegate(w) ==
  LET c == inv[w].card IN
  /\ inv[w].pc = "accepted" /\ inv[w].outcome = "delegated"
  /\ busy' = [busy EXCEPT ![inv[w].agent] = FALSE]
  /\ \E row \in Repaired(Unlocked(card[c], "in_progress", 0)) : card' = [card EXCEPT ![c] = row]
  /\ beat' = [beat EXCEPT ![inv[w].beat].status = "success"]
  /\ inv' = [inv EXCEPT ![w].pc = "settling", ![w].verdict = "success"]
  /\ UNCHANGED <<run, tick, cmd, crashes, commands>>

\* A report that hands the card to another agent, also by id only.
Handoff(w) == \E a \in Agents \ {inv[w].agent} :
  /\ inv[w].pc = "accepted" /\ inv[w].outcome = "handoff"
  /\ busy' = [busy EXCEPT ![inv[w].agent] = FALSE]
  /\ card' = [card EXCEPT ![inv[w].card] =
                [Unlocked(@, "todo", 0) EXCEPT !.assignee = a]]
  /\ beat' = [beat EXCEPT ![inv[w].beat].status = "success"]
  /\ inv' = [inv EXCEPT ![w].pc = "settling", ![w].verdict = "success", ![w].follow = TRUE]
  /\ UNCHANGED <<run, tick, cmd, crashes, commands>>

\* handleDispatchFailure: under lockResultAuthority the card is retried or sent
\* to recovery; otherwise the failure is only recorded. The card is read once
\* before the transaction, so a superseded failure ends with either status.
Fail(w) ==
  LET c == inv[w].card
      v == inv[w].view IN
  /\ inv[w].pc \in {"returned", "accepted"} /\ inv[w].outcome = "failed"
  /\ IF ResultAuthority(w)
     THEN \E row \in AfterFailure(card[c], v.retries) :
          /\ card' = [card EXCEPT ![c] = row]
          /\ busy' = [busy EXCEPT ![inv[w].agent] = FALSE]
          /\ beat' = [beat EXCEPT ![inv[w].beat].status = "failed"]
          /\ inv' = [inv EXCEPT ![w].pc = "settling", ![w].verdict = "failed"]
          /\ UNCHANGED run
     ELSE \E s \in {StatusOf(c), "failed"} : Settle(w, s)
  /\ UNCHANGED <<tick, cmd, crashes, commands>>

\* parkPermissionBlockedResult: the card is blocked under lockResultAuthority ...
Park(w) ==
  LET a == inv[w].agent
      h == inv[w].beat
      row == Unlocked(card[inv[w].card], "blocked", card[inv[w].card].retries) IN
  /\ inv[w].pc = "returned" /\ inv[w].outcome = "permission"
  /\ IF ResultAuthority(w)
     THEN /\ card' = [card EXCEPT ![inv[w].card] = row]
          /\ beat' = IF beat[h].status = "running"
                     THEN [beat EXCEPT ![h].status = "failed"] ELSE beat
          /\ busy' = IF RunningBeats(a) \ {h} = {} THEN [busy EXCEPT ![a] = FALSE] ELSE busy
          /\ inv' = [inv EXCEPT ![w].pc = "parked", ![w].view = row]
          /\ UNCHANGED run
     ELSE Settle(w, "failed")
  /\ UNCHANGED <<tick, cmd, crashes, commands>>

\* ... and its recovery requested in a transaction of its own.
RecoverParked(w) ==
  LET c == inv[w].card IN
  /\ inv[w].pc = "parked"
  /\ IF SameRow(card[c], inv[w].view)
     THEN \E row \in Recovered(card[c]) : card' = [card EXCEPT ![c] = row]
     ELSE UNCHANGED card
  /\ inv' = [inv EXCEPT ![w].pc = "settling", ![w].verdict = "failed"]
  /\ UNCHANGED <<run, beat, busy, tick, cmd, crashes, commands>>

\* sendAgentFeedbackAndRequeue: a malformed report is counted under authority.
\* Without it, or once counting stopped, nothing is settled but the run.
Scold(w) ==
  LET c == inv[w].card IN
  /\ inv[w].pc \in {"returned", "accepted"} /\ inv[w].outcome = "invalid"
  /\ IF StillCurrent(c, inv[w].view, inv[w].run) /\ card[c].repairs < 3
     THEN /\ \E row \in Corrected(card[c]) : card' = [card EXCEPT ![c] = row]
          /\ inv' = [inv EXCEPT ![w].pc = "scolded", ![w].verdict = "failed",
                                ![w].follow = card[c].repairs < 2]
     ELSE /\ inv' = [inv EXCEPT ![w].pc = "settling", ![w].verdict = "failed"]
          /\ UNCHANGED card
  /\ UNCHANGED <<run, beat, busy, tick, cmd, crashes, commands>>

\* The agent and the heartbeat follow, one statement each.
FreeScolded(w) ==
  /\ inv[w].pc = "scolded"
  /\ busy' = [busy EXCEPT ![inv[w].agent] = FALSE]
  /\ Goto(w, "freed")
  /\ UNCHANGED <<card, run, beat, tick, cmd, crashes, commands>>

\* Mutant of FailScolded: the heartbeat is forgotten.
KeepScoldedBeat(w) ==
  /\ inv[w].pc = "freed"
  /\ Goto(w, "settling")
  /\ UNCHANGED <<card, run, beat, busy, tick, cmd, crashes, commands>>

FailScolded(w) ==
  /\ inv[w].pc = "freed"
  /\ beat' = [beat EXCEPT ![inv[w].beat].status = "failed"]
  /\ Goto(w, "settling")
  /\ UNCHANGED <<card, run, busy, tick, cmd, crashes, commands>>

-----------------------------------------------------------------------------
(* After the result: the run, the follow-up and the agent's capacity.      *)

\* completeTaskRun: a separate statement after the result's transaction.
SettleRun(w) ==
  /\ inv[w].pc = "settling"
  /\ run' = EndRun(inv[w].run, inv[w].verdict)
  /\ Goto(w, IF inv[w].follow THEN "following" ELSE "worked")
  /\ UNCHANGED <<card, beat, busy, tick, cmd, crashes, commands>>

\* Mutant of EnqueueFollowUp: the next dispatch is forgotten.
NoFollowUp(w) ==
  /\ inv[w].pc = "following"
  /\ Goto(w, "worked")
  /\ UNCHANGED <<card, run, beat, busy, tick, cmd, crashes, commands>>

\* The next dispatch of a handed-off or progressing card.
EnqueueFollowUp(w) ==
  /\ inv[w].pc = "following"
  /\ Enqueue(inv[w].card)
  /\ Goto(w, "worked")
  /\ UNCHANGED <<card, beat, busy, tick, cmd, crashes, commands>>

\* finishWorkerTaskRun: a run nobody completed is completed now.
FinishRun(w) ==
  /\ inv[w].pc = "worked"
  /\ run' = IF run[inv[w].run].status = "running"
            THEN [run EXCEPT ![inv[w].run].status = "success"] ELSE run
  /\ Goto(w, "refreshing")
  /\ UNCHANGED <<card, beat, busy, tick, cmd, crashes, commands>>

\* requeueBackpressuredTaskRun names the run by its id only: whatever ended the
\* run meanwhile, it is queued again. The unique index stops it when the card
\* has another active run.
Requeue(w) ==
  LET r == inv[w].run IN
  /\ inv[w].pc = "error" /\ inv[w].outcome = None
  /\ run' = IF ActiveRuns(inv[w].card) \ {r} = {}
            THEN [run EXCEPT ![r].status = "queued"] ELSE run
  /\ Goto(w, "refreshing")
  /\ UNCHANGED <<card, beat, busy, tick, cmd, crashes, commands>>

\* Any other error fails the run, ...
FailRun(w) ==
  /\ inv[w].pc = "error" /\ inv[w].outcome = "failed"
  /\ run' = EndRun(inv[w].run, "failed")
  /\ Goto(w, "failed")
  /\ UNCHANGED <<card, beat, busy, tick, cmd, crashes, commands>>

\* ... then recordUncaughtDispatchFailure reads the card as it is by then ...
ReadFailedCard(w) ==
  LET c == inv[w].card IN
  /\ inv[w].pc = "failed"
  /\ IF card[c].status \in {"done", "blocked", "cancelled"}
     THEN Goto(w, "refreshing")
     ELSE inv' = [inv EXCEPT ![w].pc = "uncaught", ![w].view = card[c]]
  /\ UNCHANGED <<card, run, beat, busy, tick, cmd, crashes, commands>>

\* ... and retries it if the row is the one it read, whoever holds the lock.
RetryFailedCard(w) ==
  LET c == inv[w].card
      v == inv[w].view IN
  /\ inv[w].pc = "uncaught"
  /\ IF SameRow(card[c], v) /\ RecoveryAllowed(card[c]) /\ v.assignee = inv[w].owner
     THEN \E row \in AfterFailure(card[c], v.retries) :
          /\ card' = [card EXCEPT ![c] = row]
          /\ Goto(w, "freeing")
     ELSE Goto(w, "refreshing") /\ UNCHANGED card
  /\ UNCHANGED <<run, beat, busy, tick, cmd, crashes, commands>>

FreeAssignee(w) ==
  /\ inv[w].pc = "freeing"
  /\ busy' = [busy EXCEPT ![inv[w].view.assignee] = FALSE]
  /\ Goto(w, "refreshing")
  /\ UNCHANGED <<card, run, beat, tick, cmd, crashes, commands>>

\* Mutant of Refresh: the flag is left as the attempt's end wrote it.
RestOnly(w) ==
  /\ inv[w].pc = "refreshing"
  /\ inv' = [inv EXCEPT ![w] = Resting]
  /\ UNCHANGED <<card, run, beat, busy, tick, cmd, crashes, commands>>

\* The finally block: the agent's flag is recomputed from its heartbeats.
Refresh(w) ==
  LET a == inv[w].owner IN
  /\ inv[w].pc = "refreshing"
  /\ busy' = [busy EXCEPT ![a] = Refreshed(beat, a)]
  /\ inv' = [inv EXCEPT ![w] = Resting]
  /\ UNCHANGED <<card, run, beat, tick, cmd, crashes, commands>>

-----------------------------------------------------------------------------
(* The cron tick: expired locks are recovered, then waiting cards enqueued. *)

\* startExecutionLockRenewal keeps the lock alive only around the agent call.
Holding == {"locked", "executing", "returned", "accepted"}

LiveHolder(c) == \E w \in Workers :
  inv[w].pc \in Holding /\ inv[w].card = c /\ inv[w].beat = card[c].lock

ExpireLock(c) ==
  /\ card[c].lock # None /\ ~card[c].expired
  /\ Stalls \/ ~LiveHolder(c)
  /\ card' = [card EXCEPT ![c].expired = TRUE]
  /\ UNCHANGED <<run, beat, busy, inv, tick, cmd, crashes, commands>>

\* Mutant of RenewLock: the renewal does not ask whether the lock is still its own.
RenewBlindly(w) ==
  LET c == inv[w].card IN
  /\ inv[w].pc = "executing"
  /\ card[c].lock = None \/ card[c].expired
  /\ card' = [card EXCEPT ![c].lock = inv[w].beat, ![c].expired = FALSE]
  /\ UNCHANGED <<run, beat, busy, inv, tick, cmd, crashes, commands>>

RenewLock(w) ==
  /\ inv[w].pc = "executing"
  /\ card[inv[w].card].lock = inv[w].beat /\ card[inv[w].card].expired
  /\ card' = [card EXCEPT ![inv[w].card].expired = FALSE]
  /\ UNCHANGED <<run, beat, busy, inv, tick, cmd, crashes, commands>>

\* recoverStaleExecutionLocks reads the expired rows once ...
StartTick ==
  /\ tick.pc = "idle"
  /\ tick' = [NoTick EXCEPT !.pc = "locks",
                 !.stale = {<<c, card[c]>> : c \in {d \in Cards : card[d].expired}}]
  /\ UNCHANGED <<card, run, beat, busy, inv, cmd, crashes, commands>>

\* ... and recovers each row that is still the one it read.
RecoverLock == \E s \in tick.stale :
  LET c == s[1]
      v == s[2] IN
  /\ tick.pc = "locks"
  /\ IF SameRow(card[c], v) /\ RecoveryAllowed(card[c])
     THEN /\ IF v.status = "in_progress"
             THEN \E row \in AfterFailure(card[c], v.retries) : card' = [card EXCEPT ![c] = row]
             ELSE card' = [card EXCEPT ![c] = Unlocked(@, v.status, v.retries)]
          /\ tick' = [tick EXCEPT !.pc = "freeAgent", !.now = s, !.stale = @ \ {s}]
     ELSE tick' = [tick EXCEPT !.stale = @ \ {s}] /\ UNCHANGED card
  /\ UNCHANGED <<run, beat, busy, inv, cmd, crashes, commands>>

\* Three statements of their own follow: the agent, the heartbeat, its runs.
FreeLockAgent ==
  /\ tick.pc = "freeAgent"
  /\ busy' = [busy EXCEPT ![beat[tick.now[2].lock].agent] = FALSE]
  /\ tick' = [tick EXCEPT !.pc = "failBeat"]
  /\ UNCHANGED <<card, run, beat, inv, cmd, crashes, commands>>

FailLockBeat ==
  /\ tick.pc = "failBeat"
  /\ beat' = [beat EXCEPT ![tick.now[2].lock].status = "failed"]
  /\ tick' = [tick EXCEPT !.pc = "failRuns"]
  /\ UNCHANGED <<card, run, busy, inv, cmd, crashes, commands>>

\* Mutant of FailLockRuns: the runs of the lost heartbeat stay running.
KeepLockRuns ==
  /\ tick.pc = "failRuns"
  /\ tick' = [tick EXCEPT !.pc = "locks", !.now = None]
  /\ UNCHANGED <<card, run, beat, busy, inv, cmd, crashes, commands>>

FailLockRuns ==
  /\ tick.pc = "failRuns"
  /\ run' = [r \in Runs |-> IF r \in BeatRuns(tick.now[2].lock)
                             THEN [run[r] EXCEPT !.status = "failed"] ELSE run[r]]
  /\ tick' = [tick EXCEPT !.pc = "locks", !.now = None]
  /\ UNCHANGED <<card, beat, busy, inv, cmd, crashes, commands>>


\* The tick then loads the cards it may act on, once for the whole loop ...
ScanCards ==
  /\ tick.pc = "locks" /\ tick.stale = {}
  /\ tick' = [tick EXCEPT !.pc = "cards", !.todo = {c \in Cards : card[c].status = "todo"}]
  /\ UNCHANGED <<card, run, beat, busy, inv, cmd, crashes, commands>>

\* ... and enqueues them one by one.
EnqueueScanned == \E c \in tick.todo :
  /\ tick.pc = "cards"
  /\ Enqueue(c)
  /\ tick' = [tick EXCEPT !.todo = @ \ {c}]
  /\ UNCHANGED <<card, beat, busy, inv, cmd, crashes, commands>>

EndTick ==
  /\ tick.pc = "cards" /\ tick.todo = {}
  /\ tick' = NoTick
  /\ UNCHANGED <<card, run, beat, busy, inv, cmd, crashes, commands>>

\* recoverStaleTaskRuns: a claim that never reached a heartbeat is queued again.
RecoverStaleRun(r) ==
  /\ run[r].status = "running" /\ run[r].beat = None
  /\ Stalls \/ \A w \in Workers : inv[w].run # r
  /\ run' = [run EXCEPT ![r].status = "queued"]
  /\ UNCHANGED <<card, beat, busy, inv, tick, cmd, crashes, commands>>

-----------------------------------------------------------------------------
(* Operator commands, statement by statement.                              *)

Command(k) == cmd.pc = "idle" /\ k \in Commands /\ commands < MaxCommands
              /\ commands' = commands + 1

CancelRuns(c) ==
  /\ Command("cancel")
  /\ run' = [r \in Runs |-> IF r \in ActiveRuns(c)
                             THEN [run[r] EXCEPT !.status = "cancelled"] ELSE run[r]]
  /\ cmd' = [pc |-> "beat", card |-> c, view |-> card[c]]
  /\ UNCHANGED <<card, beat, busy, inv, tick, crashes>>

\* The heartbeat the command saw on the card ...
CancelBeat ==
  LET h == cmd.view.lock IN
  /\ cmd.pc = "beat"
  /\ beat' = IF h = None THEN beat ELSE [beat EXCEPT ![h].status = "cancelled"]
  /\ cmd' = [cmd EXCEPT !.pc = "agents"]
  /\ UNCHANGED <<card, run, busy, inv, tick, crashes, commands>>

\* ... then the agents it saw there are recounted.
Recount(as) == busy' = [a \in Agents |-> IF a \in as THEN Refreshed(beat, a) ELSE busy[a]]

CancelAgents ==
  LET h == cmd.view.lock IN
  /\ cmd.pc = "agents"
  /\ Recount({cmd.view.assignee} \cup IF h = None THEN {} ELSE {beat[h].agent})
  /\ cmd' = [cmd EXCEPT !.pc = "card"]
  /\ UNCHANGED <<card, run, beat, inv, tick, crashes, commands>>

CancelCard ==
  /\ cmd.pc = "card"
  /\ card' = [card EXCEPT ![cmd.card] = Unlocked(@, "cancelled", @.retries)]
  /\ cmd' = [cmd EXCEPT !.pc = "beats"]
  /\ UNCHANGED <<run, beat, busy, inv, tick, crashes, commands>>

\* refreshCancelledCardCapacity: whatever still runs for the card is cancelled
\* and every agent that ever worked on it is recounted.
CancelBeats ==
  /\ cmd.pc = "beats"
  /\ beat' = [h \in Beats |-> IF beat[h].card = cmd.card /\ beat[h].status = "running"
                              THEN [beat[h] EXCEPT !.status = "cancelled"] ELSE beat[h]]
  /\ cmd' = [cmd EXCEPT !.pc = "capacity"]
  /\ UNCHANGED <<card, run, busy, inv, tick, crashes, commands>>

CancelCapacity ==
  /\ cmd.pc = "capacity"
  /\ Recount({run[r].agent : r \in {q \in Runs : run[q].card = cmd.card}}
             \cup {beat[h].agent : h \in {x \in Beats : beat[x].card = cmd.card}})
  /\ cmd' = NoCommand
  /\ UNCHANGED <<card, run, beat, inv, tick, crashes, commands>>

\* continue_run frees the agent and puts the card back to todo; lock, retries
\* and runs stay as they are.
ContinueAgent(c) ==
  /\ Command("continue")
  /\ busy' = [busy EXCEPT ![card[c].assignee] = FALSE]
  /\ cmd' = [pc |-> "continue", card |-> c, view |-> None]
  /\ UNCHANGED <<card, run, beat, inv, tick, crashes>>

ContinueCard ==
  /\ cmd.pc = "continue"
  /\ card' = [card EXCEPT ![cmd.card].status = "todo"]
  /\ cmd' = NoCommand
  /\ UNCHANGED <<run, beat, busy, inv, tick, crashes, commands>>

-----------------------------------------------------------------------------
(* A server restart: the tables stay, everything in memory is gone.        *)

Crash ==
  /\ crashes < MaxCrashes
  /\ \A w \in Workers : inv[w].pc \in CrashPoints \cup {"idle"}
  /\ {tick.pc, cmd.pc} \subseteq CrashPoints \cup {"idle"}
  /\ \/ \E w \in Workers : inv[w].pc # "idle"
     \/ tick.pc # "idle" \/ cmd.pc # "idle"
  /\ crashes' = crashes + 1
  /\ inv' = [w \in Workers |-> Resting] /\ tick' = NoTick /\ cmd' = NoCommand
  /\ UNCHANGED <<card, run, beat, busy, commands>>

Admission(w) ==
  \/ ClaimRun(w) \/ ChooseAgent(w) \/ RefuseDispatch(w)
  \/ ClaimCapacity(w) \/ OpenBeat(w) \/ LinkBeat(w)
Attempt(w) ==
  \/ AcquireLock(w) \/ LockRefused(w) \/ FreeRefused(w) \/ CheckCurrent(w)
  \/ AdapterReturns(w) \/ PersistProducts(w)
  \/ Complete(w) \/ Delegate(w) \/ Handoff(w) \/ Fail(w)
  \/ Park(w) \/ RecoverParked(w) \/ Scold(w) \/ FreeScolded(w) \/ FailScolded(w)
Aftermath(w) ==
  \/ SettleRun(w) \/ EnqueueFollowUp(w) \/ FinishRun(w) \/ Requeue(w) \/ FailRun(w)
  \/ ReadFailedCard(w) \/ RetryFailedCard(w) \/ FreeAssignee(w) \/ Refresh(w)
Worker(w) == Admission(w) \/ Attempt(w) \/ Aftermath(w)

Tick == StartTick \/ RecoverLock \/ FreeLockAgent \/ FailLockBeat \/ FailLockRuns
        \/ ScanCards \/ EnqueueScanned \/ EndTick

Operator ==
  \/ \E c \in Cards : CancelRuns(c) \/ ContinueAgent(c)
  \/ CancelBeat \/ CancelAgents \/ CancelCard \/ CancelBeats \/ CancelCapacity
  \/ ContinueCard

Next ==
  \/ \E w \in Workers : Worker(w) \/ RenewLock(w)
  \/ Tick \/ Operator \/ Crash
  \/ \E c \in Cards : ExpireLock(c)
  \/ \E r \in Runs : RecoverStaleRun(r)

Spec == Init /\ [][Next]_vars

\* Timers keep the worker loop and the cron tick running, an abandoned lock
\* expires and an abandoned claim turns stale; operators and crashes may not come.
Fairness ==
  /\ \A w \in Workers : WF_vars(Worker(w))
  /\ WF_vars(Tick)
  /\ \A c \in Cards : WF_vars(ExpireLock(c))
  /\ \A r \in Runs : WF_vars(RecoverStaleRun(r))

FairSpec == Spec /\ Fairness
=============================================================================
