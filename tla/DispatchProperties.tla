------------------------- MODULE DispatchProperties -------------------------
(***************************************************************************)
(* What the dispatch path promises.                                        *)
(***************************************************************************)
EXTENDS Dispatch

\* The attempt of slot w would pass completionCondition now.
Authorized(w) ==
  inv[w].pc \in Holding /\ StillCurrent(inv[w].card, inv[w].view, inv[w].run)

\* Two attempts on one card never hold result authority at once, however claims
\* are requeued, locks expire and are stolen, or commands interleave
\* (acquireExecutionLock with completionCondition).
ExclusiveAuthority == \A v, w \in Workers :
  v # w /\ Authorized(v) /\ Authorized(w) => inv[v].card # inv[w].card

\* A running task run always has somebody who will end it: its invocation, the
\* stale-claim recovery (no heartbeat yet) or the expiry of the lock it holds
\* (recoverStaleTaskRuns, recoverStaleExecutionLocks).
RunInCustody == \A r \in Runs : run[r].status = "running" =>
  \/ run[r].beat = None
  \/ \E w \in Workers : inv[w].run = r
  \/ \E c \in Cards : card[c].lock = run[r].beat
  \/ tick.now # None /\ tick.now[2].lock = run[r].beat

\* A card in progress is never left behind: it is locked, has an active run, or
\* a worker is about to enqueue its next run or to retry it; the cron tick does
\* not scan cards in progress.
CardInCustody == \A c \in Cards : card[c].status = "in_progress" =>
  \/ card[c].lock # None
  \/ ActiveRuns(c) # {}
  \/ \E w \in Workers : inv[w].card = c /\ inv[w].pc \in {"settling", "following", "failed", "uncaught"}
  \/ AbsentRuns = {}  \* bound: no row is left for its next run

\* A running heartbeat, which counts against its agent's slots, always has
\* somebody who will end it: its attempt, the lock it holds, the recovery of
\* that lock, or a cancel in progress (heartbeat_runs against
\* settleOriginalHeartbeat, sendAgentFeedbackAndRequeue, refreshCancelledCardCapacity).
BeatInCustody == \A h \in Beats : beat[h].status = "running" =>
  \/ \E w \in Workers : inv[w].beat = h
  \/ \E c \in Cards : card[c].lock = h
  \/ tick.now # None /\ tick.now[2].lock = h
  \/ cmd.card = beat[h].card

\* A busy agent has a running heartbeat or a worker that will recount it
\* (agents.is_busy against heartbeat_runs).
BusyInCustody == \A a \in Agents : busy[a] =>
  \/ RunningBeats(a) # {}
  \/ \E w \in Workers : inv[w].pc # "idle" /\ a \in {inv[w].agent, inv[w].owner}
  \/ cmd.pc # "idle"
  \/ tick.now # None

\* Counting an agent's heartbeats and opening the next one are separate statements,
\* so an agent may run more attempts than its limit: at most one more for every
\* further worker slot, whatever restarts leave running (claimAgentCapacity,
\* openHeartbeatRun).
OverrunIsBounded == \A a \in Agents :
  Cardinality(RunningBeats(a)) < MaxConcurrent + Cardinality(Workers)

\* An attempt with authority keeps it until it acts itself, its lock expires or
\* an operator cancels or continues the card: no other attempt, failure handler
\* or cron tick takes it away.
AuthorityKept == [][\A w \in Workers :
  Authorized(w) /\ inv'[w] = inv[w] =>
    \/ Authorized(w)'
    \/ card[inv[w].card].expired
    \/ inv[w].card \in {cmd.card, cmd'.card}]_vars

\* The result of an attempt changes its card only under authority
\* (lockResultAuthority, completionCondition).
ResultNeedsAuthority == [][\A w \in Workers :
  inv[w].pc \in Holding /\ inv'[w] # inv[w] /\ card'[inv[w].card] # card[inv[w].card] =>
    Authorized(w)]_vars

\* allowedTransitions, restricted to the statuses modelled here.
allowedTransitions == [s \in Statuses |->
  CASE s = "todo" -> {"in_progress", "blocked", "cancelled"}
    [] s = "in_progress" -> {"in_review", "needs_review", "waiting_on_client", "done",
                             "blocked", "cancelled"}
    [] s = "in_review" -> {"waiting_on_client", "done", "todo", "in_progress", "blocked",
                           "cancelled"}
    [] s = "needs_review" -> {"todo", "in_progress", "done", "blocked", "cancelled"}
    [] s = "waiting_on_client" -> {"in_progress", "todo", "blocked", "cancelled"}
    [] s = "done" -> {"todo"}
    [] s = "blocked" -> {"todo", "cancelled"}
    [] s = "cancelled" -> {"todo", "done"}]

\* A step moves a card in status s only where the transition table lets it.
LegalFrom(s) == \A c \in Cards :
  card[c].status = s => card'[c].status \in {s} \cup allowedTransitions[s]

\* A finished or cancelled card is not put to work again unless it was reopened
\* first (allowedTransitions against acquireExecutionLock).
SettledTransitions == [][LegalFrom("done") /\ LegalFrom("cancelled")]_vars

\* Bound: no identity is left for a new run or heartbeat.
OutOfRows == AbsentRuns = {} \/ AbsentBeats = {}

Settled == Statuses \ {"todo", "in_progress"}


\* Every claimed run eventually leaves running, also when the server that claimed
\* it is gone (recoverStaleExecutionLocks, recoverStaleTaskRuns).
RunsEnd == \A r \in Runs : run[r].status = "running" ~> run[r].status # "running" \/ OutOfRows

-----------------------------------------------------------------------------
(* The strengthening of ExclusiveAuthority that every step preserves.      *)

\* What an invocation remembers at its program point.
Remembers(i) ==
  /\ i.pc # "idle" => i.card \in Cards
  /\ i.pc \in Holding => i.view \in CardRow /\ i.view.lock = i.beat
  /\ i.pc \in {"uncaught", "freeing"} => i.view \in CardRow
  /\ i.pc \in Holding \cup {"opened", "linked"} => i.beat \in Beats
  /\ i.pc \in {"scolded", "freed", "settling"} => i.verdict \in Ended

Memory == \A w \in Workers : Remembers(inv[w])

\* Every queued or claimed row is a run of some card; a claim is never undone.
RunRows ==
  /\ \A r \in Runs : run[r].status # "absent" => run[r].card \in Cards
  /\ \A w \in Workers : inv[w].run # None => run[inv[w].run].status # "absent"

\* No two slots ever work with the same heartbeat row.
OwnBeats ==
  /\ \A w \in Workers : inv[w].beat # None => beat[inv[w].beat].status # "absent"
  /\ \A v, w \in Workers : v # w /\ inv[v].beat # None => inv[v].beat # inv[w].beat

\* A lock is a heartbeat that took it once; before that it never did.
LockHistory ==
  /\ \A h \in Beats : beat[h].locked => beat[h].status # "absent"
  /\ \A c \in Cards : card[c].lock # None => beat[card[c].lock].locked
  /\ \A w \in Workers : inv[w].pc \in {"opened", "linked"} => ~beat[inv[w].beat].locked

Rows == TypeOK /\ Memory /\ RunRows
LeaseInv == Rows /\ OwnBeats /\ LockHistory

\* The execution locks implement the abstract lease: a card's holder is its
\* lock, an attempt is spent once its heartbeat took a lock (acquireExecutionLock
\* against every statement that writes executionLockId).
Lease == INSTANCE CardLease WITH
  Attempts <- Beats,
  holder <- [c \in Cards |-> card[c].lock],
  spent <- {h \in Beats : beat[h].locked}

ImplementsLease == Lease!LeaseSpec
=============================================================================
