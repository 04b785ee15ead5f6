----------------------------- MODULE RemoteWork -----------------------------
(***************************************************************************)
(* The work of one agent behind an A2A gateway: direct chat messages       *)
(* (chat-jobs.ts), card runs (a2a-task-recovery.ts), the durable journal   *)
(* of each submission (a2a-executions.ts, a2a-polling.ts), its usage entry *)
(* (usage-ledger.ts) and the sweep that reconciles what the platform lost  *)
(* sight of (a2a-remote-reconciliation.ts).                                *)
(*                                                                         *)
(* A consumer is one invocation of a worker on one piece of work; at[c] is *)
(* what it holds in memory.  Every write of the journal by the poll loop   *)
(* is a compare-and-set on its revision, so a poll step reads and writes   *)
(* the current journal.  The gateway is external: it may lose the message, *)
(* accept it, and finish or cancel the task whenever it likes.             *)
(***************************************************************************)
EXTENDS Naturals, FiniteSets

CONSTANTS
  Chats,       \* user messages of a chat with the agent
  Runs,        \* task runs of cards assigned to the agent
  Consumers,   \* worker invocations of all server processes
  Sweepers,    \* sweepA2aRemoteReconciliation, one per server process
  Outcomes,    \* how the gateway may end a task
  None,
  Budgets      \* bounds on the failures of a behaviour

Naturally == {"completed", "failed"}  \* naturalA2aTerminal

BudgetOf ==
  [lapses : Nat,   \* leases that expire although their owner is alive
   crashes : Nat,  \* owners that die
   revokes : Nat]  \* users who lose access while they wait for a reply

ASSUME RemoteAssumption ==
  /\ Chats \cap Runs = {}
  /\ Outcomes \subseteq Naturally \cup {"canceled"}
  /\ None \notin Consumers \cup Sweepers
  /\ None \notin {"sent", "lost", "working", "completed", "failed", "canceled",
                  "agent", "system", "answer", "failure"}
  /\ Budgets \subseteq BudgetOf

VARIABLES
  job,      \* chat_jobs and task_runs: status, lease, reply
  entry,    \* cost_events of the attempt: none, admitted, settled
  journal,  \* a2a_executions
  remote,   \* the gateway: messages sent, the message under way, the task
  at,       \* the consumers
  sw,       \* the reconciliation each sweeper is at
  busy,     \* agents.is_busy
  budget    \* the failures that are left

remoteVars == <<job, entry, journal, remote, at, sw, busy, budget>>

Works == Chats \cup Runs
Idle == [pc |-> "idle", w |-> None, owns |-> FALSE, prior |-> FALSE, result |-> None]
NoJob == [status |-> "none", holder |-> None, lease |-> FALSE,
          reply |-> None, applied |-> 0, revoked |-> FALSE]

RemoteInit ==
  /\ job = [w \in Works |-> NoJob]
  /\ entry = [w \in Works |-> "none"]
  /\ journal = [w \in Works |-> [phase |-> "absent", active |-> FALSE,
                                 baseline |-> FALSE, task |-> FALSE, late |-> FALSE,
                                 outcome |-> None, token |-> None]]
  /\ remote = [w \in Works |-> [sends |-> 0, wire |-> None, task |-> None]]
  /\ at = [c \in Consumers |-> Idle]
  /\ sw = [s \in Sweepers |-> None]
  /\ busy = FALSE
  /\ budget \in Budgets

-----------------------------------------------------------------------------
(* Rows as the queries select them. *)

Live(w) == job[w].status \in {"queued", "running"}
Ended(w) == job[w].status = "done"
Known(w) == journal[w].phase # "absent"

\* A canceled outcome holds the agent even when it is no longer active: the
\* subprocess behind a canceled task may go on.
Pending(j, w) == j[w].active \/ j[w].outcome = "canceled"
RemotePending == \E w \in Works : Pending(journal, w)

\* refreshAgentRemoteCapacity after jobs jb and journals jn have been written.
BusyAfter(jb, jn) ==
  \/ \E w \in Works : Pending(jn, w)
  \/ \E w \in Works : jb[w].status \in {"queued", "running"}

\* Mutant of Acknowledged: whatever the journal says, the local work is over.
AcknowledgedBlindly(w) == [journal EXCEPT ![w].active = FALSE]
\* acknowledgeA2aExecution: the result has been handled.
Acknowledged(w) ==
  [journal EXCEPT ![w].active =
     @ /\ ~(journal[w].phase = "terminal" /\ journal[w].outcome # "canceled")]

\* Of an ended job only what its reply did is remembered.
Finished(w) ==
  [job EXCEPT ![w] = [NoJob EXCEPT !.status = "done", !.applied = job[w].applied]]

Goto(c, rec) == at' = [at EXCEPT ![c] = rec]
Rest(c) == Goto(c, Idle)
Move(c, pc) == Goto(c, [at[c] EXCEPT !.pc = pc])
Fails(c, pc) == Goto(c, [at[c] EXCEPT !.pc = pc, !.result = "failure"])

\* projectChatJob holds the row of the job locked from its check to its commit.
RowLocked(w) == \E c \in Consumers : at[c].w = w /\ at[c].pc \in {"apply", "finish"}

-----------------------------------------------------------------------------
(* Work arrives and is claimed. *)

\* enqueueChatJob; no other reply is pending and nothing of the agent is remote.
EnqueueChat(w) ==
  /\ w \in Chats /\ job[w].status = "none"
  /\ \A v \in Chats : ~Live(v)
  /\ ~RemotePending /\ ~busy
  /\ job' = [job EXCEPT ![w].status = "queued"]
  /\ busy' = TRUE
  /\ UNCHANGED <<entry, journal, remote, at, sw, budget>>

\* A worker claims a queued run and claimAgentCapacity lets it have the agent.
StartRun(c, w) ==
  /\ at[c] = Idle
  /\ w \in Runs /\ job[w].status = "none"
  /\ ~RemotePending /\ ~busy
  /\ job' = [job EXCEPT ![w].status = "running", ![w].holder = c, ![w].lease = TRUE]
  /\ busy' = TRUE
  /\ Goto(c, [Idle EXCEPT !.pc = "admit", !.w = w])
  /\ UNCHANGED <<entry, journal, remote, sw, budget>>

\* Mutant of Claimable: only a fresh job is claimed.
ClaimableOnce(w) == job[w].status = "queued"
\* A job nobody took or whose lease has run out.
Claimable(w) ==
  \/ job[w].status = "queued"
  \/ job[w].status = "running" /\ ~job[w].lease

\* Mutant of AfterSavedReply: the actions of the saved reply are applied again.
AfterSavedReplyReplay == "apply"
\* A reply that was saved before an exit is only marked; its actions are not
\* replayed.
AfterSavedReply == "finish"

\* claimChatJob and the first reads of the chat worker.
ClaimChat(c, w) ==
  /\ at[c] = Idle
  /\ w \in Chats /\ Claimable(w) /\ ~RowLocked(w)
  /\ job' = [job EXCEPT ![w].status = "running", ![w].holder = c, ![w].lease = TRUE]
  /\ Goto(c, [Idle EXCEPT !.w = w,
                !.pc = IF job[w].reply # None THEN AfterSavedReply
                       ELSE IF job[w].revoked THEN "project" ELSE "prior",
                !.result = IF job[w].revoked THEN "failure" ELSE None])
  /\ UNCHANGED <<entry, journal, remote, sw, busy, budget>>

\* claimRecoverableA2aTaskRun: the invocation goes on under another owner.
RecoverRun(c, w) ==
  /\ at[c] = Idle
  /\ w \in Runs /\ job[w].status = "running" /\ ~job[w].lease
  /\ journal[w].active /\ entry[w] # "none"
  /\ job' = [job EXCEPT ![w].holder = c, ![w].lease = TRUE]
  /\ Goto(c, [Idle EXCEPT !.pc = "admit", !.w = w])
  /\ UNCHANGED <<entry, journal, remote, sw, busy, budget>>

\* recoverStaleExecutionLocks: a run without a live journal is given up.
FailStaleRun(w) ==
  /\ w \in Runs /\ job[w].status = "running" /\ ~job[w].lease
  /\ ~journal[w].active
  /\ job' = Finished(w)
  /\ busy' = FALSE
  /\ UNCHANGED <<entry, journal, remote, at, sw, budget>>

\* A2aTaskRunLease.assertCurrent; a chat job is only checked when it is projected.
Owner(c, w) ==
  w \in Runs => job[w].status = "running" /\ job[w].holder = c /\ job[w].lease

\* An invocation that lost its lease writes nothing more.
LoseLease(c) ==
  /\ at[c].pc \in {"admit", "settle"} /\ ~Owner(c, at[c].w)
  /\ Rest(c)
  /\ UNCHANGED <<job, entry, journal, remote, sw, busy, budget>>

-----------------------------------------------------------------------------
(* Admission and submission. *)

\* performChatReply looks for the usage of an earlier consumer.
ReadPrior(c) ==
  /\ at[c].pc = "prior"
  /\ Goto(c, [at[c] EXCEPT !.pc = "admit", !.prior = entry[at[c].w] # "none"])
  /\ UNCHANGED <<job, entry, journal, remote, sw, busy, budget>>

\* executeUsage: an attempt with a journal keeps its entry, a new one is admitted
\* unless it was admitted meanwhile or other work is remote.
Admit(c) ==
  LET w == at[c].w
      keeps == at[c].prior \/ (w \in Runs /\ Known(w))
      admits == entry[w] = "none" /\ ~RemotePending
  IN
  /\ at[c].pc = "admit" /\ Owner(c, w)
  /\ entry' = IF ~keeps /\ admits THEN [entry EXCEPT ![w] = "admitted"] ELSE entry
  /\ IF keeps \/ admits
     THEN Goto(c, [at[c] EXCEPT !.pc = "begin", !.prior = FALSE]) ELSE Fails(c, "project")
  /\ UNCHANGED <<job, journal, remote, sw, busy, budget>>

\* assertA2aSubmissionAuthority: the local work still runs, whoever holds it.
Authorized(w) == job[w].status = "running"

\* store.begin: the one that creates the journal owns the submission.
Begin(c) ==
  LET w == at[c].w
      creates == ~Known(w) /\ Authorized(w) /\ ~RemotePending
  IN
  /\ at[c].pc = "begin"
  /\ journal' = IF creates THEN [journal EXCEPT ![w].phase = "preparing", ![w].active = TRUE]
                ELSE journal
  /\ IF Known(w) \/ creates
     THEN Goto(c, [at[c] EXCEPT !.pc = "poll", !.owns = creates])
     ELSE Fails(c, "settle")
  /\ UNCHANGED <<job, entry, remote, sw, busy, budget>>

\* Mutant of MaySubmit: no task appeared, so the message must have been lost.
MaySubmitAgain(c, w) ==
  \/ at[c].owns /\ journal[w].phase = "preparing"
  \/ journal[w].phase = "sending" /\ ~journal[w].task /\ remote[w].task = None
MaySubmit(c, w) == at[c].owns /\ journal[w].phase = "preparing"

\* The intent is durable before the message leaves; nobody sends again. The loop
\* reads the deadline at its top, so this and the two writes below may come after it.
Submit(c) ==
  LET w == at[c].w IN
  /\ at[c].pc = "poll" /\ MaySubmit(c, w)
  /\ Authorized(w)
  /\ journal' = [journal EXCEPT ![w].phase = "sending", ![w].baseline = TRUE]
  /\ remote' = [remote EXCEPT ![w].sends = @ + 1, ![w].wire = "sent"]
  /\ Goto(c, [at[c] EXCEPT !.owns = FALSE])
  /\ UNCHANGED <<job, entry, sw, busy, budget>>

\* The task is learnt from the answer to the message or found by listing.
Discover(c) ==
  LET w == at[c].w IN
  /\ at[c].pc = "poll"
  /\ journal[w].phase = "sending" /\ ~journal[w].task /\ remote[w].task # None
  /\ journal' = [journal EXCEPT ![w].task = TRUE, ![w].phase = "polling"]
  /\ UNCHANGED <<job, entry, remote, at, sw, busy, budget>>

\* The full task is cached when the gateway reports it terminal.
CacheOutcome(c) ==
  LET w == at[c].w IN
  /\ at[c].pc = "poll"
  /\ journal[w].phase \in {"sending", "polling"} /\ journal[w].task
  /\ remote[w].task \in Outcomes
  /\ journal' = [journal EXCEPT ![w].phase = "terminal", ![w].outcome = remote[w].task]
  /\ UNCHANGED <<job, entry, remote, at, sw, busy, budget>>

\* fail: past the deadline the journal waits for reconciliation.
Expire(c) ==
  LET w == at[c].w IN
  /\ at[c].pc = "poll" /\ journal[w].late
  /\ journal[w].phase \in {"preparing", "sending", "polling"}
  /\ journal' = [journal EXCEPT ![w].phase = "reconciliation_required"]
  /\ Fails(c, "settle")
  /\ UNCHANGED <<job, entry, remote, sw, busy, budget>>

\* The loop returns the cached result, or stops at a journal that expired.
EndPoll(c) ==
  LET w == at[c].w IN
  /\ at[c].pc = "poll" /\ journal[w].phase \in {"terminal", "reconciliation_required"}
  /\ Goto(c, [at[c] EXCEPT !.pc = "settle",
                !.result = IF /\ journal[w].phase = "terminal"
                              /\ journal[w].outcome = "completed"
                           THEN "answer" ELSE "failure"])
  /\ UNCHANGED <<job, entry, journal, remote, sw, busy, budget>>

\* settleUsage, whatever the result was worth.
Settle(c) ==
  LET w == at[c].w IN
  /\ at[c].pc = "settle" /\ Owner(c, w)
  /\ entry' = [entry EXCEPT ![w] = "settled"]
  /\ Move(c, "project")
  /\ UNCHANGED <<job, journal, remote, sw, busy, budget>>

-----------------------------------------------------------------------------
(* Results. *)

\* projectChatJob, as long as this consumer holds the job.  The reply is saved on
\* a connection of its own and stays when the transaction is lost.
SaveReply(c) ==
  LET w == at[c].w
      holds == job[w].status = "running" /\ job[w].holder = c
      saves == holds /\ ~RowLocked(w) /\ job[w].reply = None
  IN
  /\ at[c].pc = "project" /\ w \in Chats
  /\ holds => saves
  /\ IF saves
     THEN /\ job' = [job EXCEPT ![w].reply =
                       IF at[c].result = "answer" THEN "agent" ELSE "system"]
          /\ Move(c, IF at[c].result = "answer" THEN "apply" ELSE "finish")
     ELSE UNCHANGED job /\ Rest(c)
  /\ UNCHANGED <<entry, journal, remote, sw, busy, budget>>

\* applyChatWorkItems: the board updates the agent proposed in its reply.
ApplyActions(c) ==
  /\ at[c].pc = "apply"
  /\ job' = [job EXCEPT ![at[c].w].applied = @ + 1]
  /\ Move(c, "finish")
  /\ UNCHANGED <<entry, journal, remote, sw, busy, budget>>

\* The commit: journal acknowledged, job ended, capacity recomputed.
FinishChat(c) ==
  LET w == at[c].w IN
  /\ at[c].pc = "finish"
  /\ journal' = Acknowledged(w)
  /\ job' = Finished(w)
  /\ busy' = BusyAfter(job', journal')
  /\ Rest(c)
  /\ UNCHANGED <<entry, remote, sw, budget>>

\* completeTaskRun: a run that is still running is ended and acknowledged.
FinishRun(c) ==
  LET w == at[c].w IN
  /\ at[c].pc = "project" /\ w \in Runs
  /\ IF job[w].status = "running"
     THEN /\ journal' = Acknowledged(w) /\ job' = Finished(w)
          /\ busy' = BusyAfter(job', journal')
     ELSE UNCHANGED <<journal, job, busy>>
  /\ Rest(c)
  /\ UNCHANGED <<entry, remote, sw, budget>>

\* An operator cancels the card: the run ends, its usage is released, its
\* heartbeat is closed; the journal is left to the sweep.
CancelRun(w) ==
  /\ w \in Runs /\ job[w].status = "running"
  /\ job' = Finished(w)
  /\ entry' = [entry EXCEPT ![w] = IF @ = "none" THEN @ ELSE "settled"]
  /\ busy' = BusyAfter(job', journal)
  /\ UNCHANGED <<journal, remote, at, sw, budget>>

\* The user loses the access to the chat; the next consumer refuses to answer.
Revoke(w) ==
  /\ w \in Chats /\ Live(w) /\ ~job[w].revoked
  /\ budget.revokes > 0 /\ budget' = [budget EXCEPT !.revokes = @ - 1]
  /\ job' = [job EXCEPT ![w].revoked = TRUE]
  /\ UNCHANGED <<entry, journal, remote, at, sw, busy>>

-----------------------------------------------------------------------------
(* Reconciliation. *)

\* Mutant of Found: only a task the journal already names is looked up.
FoundByName(w) == journal[w].task
\* inspectA2aRemoteTask knows the task or lists what came after the baseline.
Found(w) ==
  \/ journal[w].task
  \/ journal[w].baseline /\ remote[w].task # None

\* What the journal and the gateway prove about a claimed row.
Inspection(w) ==
  LET j == journal[w]
      verdict(state, outcome) ==
        [w |-> w, state |-> state, outcome |-> outcome, task |-> Found(w)]
  IN CASE j.phase = "preparing" /\ ~j.task /\ Ended(w) -> verdict("never_submitted", None)
       [] j.outcome \in Naturally -> verdict("resolved", j.outcome)
       [] Found(w) /\ remote[w].task \in Naturally -> verdict("resolved", remote[w].task)
       [] OTHER -> verdict("unresolved", None)

\* claimA2aRemoteReconciliation, and the reads of the gateway that follow it.
SweepClaim(s, w) ==
  /\ sw[s] = None
  /\ Pending(journal, w) /\ journal[w].token = None
  /\ journal[w].phase = "reconciliation_required" \/ journal[w].late \/ Ended(w)
  /\ journal' = [journal EXCEPT ![w].token = s]
  /\ sw' = [sw EXCEPT ![s] = Inspection(w)]
  /\ UNCHANGED <<job, entry, remote, at, busy, budget>>

\* Mutant of SettledBy: the journal is released without its accounting.
SettledByNobody(w) == entry
SettledBy(w) == [entry EXCEPT ![w] = "settled"]

\* finishA2aRemoteReconciliation: what was proved is checked against the row as
\* it is now; an unresolved row is tried again later.
SweepFinish(s) ==
  LET i == sw[s]
      w == i.w
      j == journal[w]
      never == i.state = "never_submitted" /\ j.phase = "preparing" /\ ~j.task /\ Ended(w)
      resolved == i.state = "resolved" \/ never
      found == [j EXCEPT !.token = None, !.task = @ \/ i.task]
  IN
  /\ sw[s] # None
  /\ sw' = [sw EXCEPT ![s] = None]
  /\ CASE j.token # s -> UNCHANGED <<entry, journal, busy>>
       [] j.token = s /\ resolved ->
            /\ entry' = SettledBy(w)
            /\ journal' = [journal EXCEPT ![w] =
                 [found EXCEPT !.active = FALSE,
                   !.outcome = IF never THEN @ ELSE i.outcome,
                   !.phase = IF @ = "terminal" THEN @ ELSE "reconciliation_required"]]
            /\ busy' = BusyAfter(job, journal')
       [] OTHER ->
            /\ journal' = [journal EXCEPT ![w] = found]
            /\ busy' = BusyAfter(job, journal') /\ UNCHANGED entry
  /\ UNCHANGED <<job, remote, at, budget>>

-----------------------------------------------------------------------------
(* The gateway, the clock, and failures. *)

OnlyRemote == UNCHANGED <<job, entry, journal, at, sw, busy, budget>>
Accept(w) ==
  /\ remote[w].wire = "sent"
  /\ remote' = [remote EXCEPT ![w].wire = None, ![w].task = "working"]
  /\ OnlyRemote
Lose(w) ==
  /\ remote[w].wire = "sent"
  /\ remote' = [remote EXCEPT ![w].wire = "lost"]
  /\ OnlyRemote
EndTask(w) ==
  /\ remote[w].task = "working"
  /\ \E o \in Outcomes : remote' = [remote EXCEPT ![w].task = o]
  /\ OnlyRemote

\* The deadline of a journal; one that awaits reconciliation has no use for it.
Deadline(w) ==
  /\ journal[w].phase \in {"preparing", "sending", "polling", "terminal"} /\ ~journal[w].late
  /\ journal' = [journal EXCEPT ![w].late = TRUE]
  /\ UNCHANGED <<job, entry, remote, at, sw, busy, budget>>

WorkedOn(w) == \E c \in Consumers : job[w].holder = c /\ at[c].w = w
Spend(field) == budget' = [budget EXCEPT ![field] = @ - 1]

\* The lease of a live owner lapses when its renewals are late.
LeaseLapses(w) ==
  /\ job[w].lease
  /\ IF WorkedOn(w) THEN budget.lapses > 0 /\ Spend("lapses") ELSE UNCHANGED budget
  /\ job' = [job EXCEPT ![w].lease = FALSE]
  /\ UNCHANGED <<entry, journal, remote, at, sw, busy>>
TokenLapses(w) ==
  LET s == journal[w].token IN
  /\ s # None
  /\ IF sw[s] # None /\ sw[s].w = w
     THEN budget.lapses > 0 /\ Spend("lapses") ELSE UNCHANGED budget
  /\ journal' = [journal EXCEPT ![w].token = None]
  /\ UNCHANGED <<job, entry, remote, at, sw, busy>>

Crash(c) ==
  /\ budget.crashes > 0 /\ at[c] # Idle
  /\ Rest(c) /\ Spend("crashes")
  /\ UNCHANGED <<job, entry, journal, remote, sw, busy>>
CrashSweep(s) ==
  /\ budget.crashes > 0 /\ sw[s] # None
  /\ sw' = [sw EXCEPT ![s] = None] /\ Spend("crashes")
  /\ UNCHANGED <<job, entry, journal, remote, at, busy>>

-----------------------------------------------------------------------------
Take(c, w) == ClaimChat(c, w) \/ RecoverRun(c, w)
Step(c) ==
  \/ LoseLease(c) \/ ReadPrior(c) \/ Admit(c) \/ Begin(c)
  \/ Submit(c) \/ Discover(c) \/ CacheOutcome(c) \/ Expire(c) \/ EndPoll(c)
  \/ Settle(c) \/ SaveReply(c) \/ ApplyActions(c) \/ FinishChat(c) \/ FinishRun(c)
Gateway(w) == Accept(w) \/ Lose(w) \/ EndTask(w)
Operator(w) == EnqueueChat(w) \/ CancelRun(w) \/ Revoke(w)
Clock(w) == Deadline(w) \/ LeaseLapses(w) \/ TokenLapses(w)

RemoteNext ==
  \/ \E w \in Works :
       \/ Gateway(w) \/ Operator(w) \/ Clock(w) \/ FailStaleRun(w)
       \/ \E c \in Consumers : StartRun(c, w) \/ Take(c, w)
       \/ \E s \in Sweepers : SweepClaim(s, w)
  \/ \E c \in Consumers : Step(c) \/ Crash(c)
  \/ \E s \in Sweepers : SweepFinish(s) \/ CrashSweep(s)

\* Workers, sweeps and clocks go on.  The sweep takes the oldest rows first, so
\* none that comes due again and again is passed over.  The gateway owes nothing.
RemoteFairness ==
  /\ \A w \in Works :
       /\ WF_remoteVars(Clock(w)) /\ WF_remoteVars(FailStaleRun(w))
       /\ SF_remoteVars(\E c \in Consumers : Take(c, w))
       /\ SF_remoteVars(\E s \in Sweepers : SweepClaim(s, w))
  /\ \A c \in Consumers : WF_remoteVars(Step(c))
  /\ \A s \in Sweepers : WF_remoteVars(SweepFinish(s))

RemoteSpec == RemoteInit /\ [][RemoteNext]_remoteVars /\ RemoteFairness

-----------------------------------------------------------------------------
(* Properties. *)

\* However consumers crash, lose their leases and take over from each other, a
\* message is sent to the gateway once: an answer that was lost is looked for and
\* never asked for again (ownsSubmission of pollA2aMessage, store.begin).
OneSubmission == \A w \in Works : remote[w].sends <= 1

\* The agent has room for one: nothing is submitted while another task of it may
\* still be running on the gateway, however its local work ended
\* (remoteWorkPending, acknowledgeA2aExecution).
MayBeRunning(w) == remote[w].wire = "sent" \/ remote[w].task \in {"working", "canceled"}
OneRemoteTask == Cardinality({w \in Works : MayBeRunning(w)}) <= 1

\* "Never dispatch again or replay chat actions": the board updates of a reply are
\* applied at most once, across crashes between saving, applying and finishing.
ActionsOnce == \A w \in Chats : job[w].applied <= 1

\* The journal of a run is released only with its accounting done, by whichever
\* of the consumers, the cancel and the sweep gets there.
ReleasedIsSettled ==
  \A w \in Runs : Known(w) /\ ~journal[w].active => entry[w] = "settled"

\* Whatever the gateway, the crashes and the leases do, every message is answered
\* and every run ends.
WorkEnds == <>[](\A w \in Works : ~Live(w))

\* A task that ended naturally gives the agent back, also when no consumer ever
\* learnt that the gateway accepted it.
RemoteReleased ==
  <>[](\A w \in Works : remote[w].task \in Naturally => ~Pending(journal, w))

\* "A journal proven never submitted can be fenced and released"
\* (2026-09-11-a2a-polling-design.md:19).
NeverSentIsReleased ==
  \A w \in Works : (Ended(w) /\ Known(w) /\ remote[w].sends = 0) ~> ~Pending(journal, w)
=============================================================================
