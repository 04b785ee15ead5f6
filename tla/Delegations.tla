---------------------------- MODULE Delegations ----------------------------
(***************************************************************************)
(* The message board of one card (dispatch.ts, delegated-help.ts,          *)
(* delegated-acceptance.ts, brainstorm.ts): its owner delegates work,      *)
(* delegates delegate further, report, ask for help and are reviewed by    *)
(* whoever asked them; stale requests expire; the owner consults the heads *)
(* of departments in a brainstorm round.  Every answer has to find its way *)
(* back to somebody who waits for it.                                      *)
(*                                                                         *)
(* Each of these is a row of card_comments, worked on by runs that any     *)
(* worker may claim.  What follows an agent call is a sequence of          *)
(* statements, todo, of which other processes may see any prefix.  A       *)
(* statement names its rows by id: what it overwrites may have changed.    *)
(*                                                                         *)
(* The model ends where the card is handed to its recovery.                *)
(***************************************************************************)
EXTENDS Naturals, Sequences, FiniteSets

CONSTANTS
  Workers,       \* invocations of the task-run worker
  Heads,         \* department heads a round addresses
  MaxRequests, MaxReports, MaxRounds,  \* bounds on rows
  MaxDepth,      \* MAX_DELEGATION_DEPTH
  FailureLimit,  \* RUN_FAILURE_LIMIT
  Budgets        \* bounds on what agents do and what goes wrong

\* Who works, what may happen, and how often; expire: whether the 24 hours of a
\* request may pass before it is settled.
BudgetOf == [staff : SUBSET Workers, fail : Nat, revise : Nat, escalate : Nat, progress : Nat, ask : Nat,
             crash : Nat, round : 0 .. MaxRounds, expire : BOOLEAN]

ASSUME BoardAssumption ==
  /\ {MaxRequests, MaxReports, MaxRounds, MaxDepth, FailureLimit} \subseteq Nat
  /\ Workers \cap {"owner", "tick", "none", "queued", "lost"} = {}
  /\ FailureLimit > 0
  /\ Budgets \subseteq BudgetOf

VARIABLES
  card,      \* kanban_cards, and the dispatch run of its owner
  msg,       \* card_comments: delegation_status, what it is a part of or reports
             \* on, its run (none, queued, lost or its worker), the open question
             \* of a request, whether a report is escalated and accepted
  proposal,  \* the questions of the brainstorm rounds
  at,        \* what each process is at: idle, start, call, or work on todo
  budget

boardVars == <<card, msg, proposal, at, budget>>

Requests == 1 .. MaxRequests
Reports == MaxRequests + 1 .. MaxRequests + MaxReports
Comments == Requests \cup Reports
Owner == 0  \* the agent of the card; a request is worked on by an agent of its own
Boss == MaxRequests + MaxReports + 1
Procs == Workers \cup {"owner", "tick"}

Idle == [pc |-> "idle", on |-> 0, todo |-> <<>>, new |-> 0, settled |-> FALSE, behind |-> {}]

BoardInit ==
  /\ card = [status |-> "todo", owner |-> "queued", waiting |-> FALSE, round |-> 0,
             message |-> 0, message_review |-> 0]
  /\ msg = [c \in Comments |-> [status |-> "absent", of |-> 0, run |-> "none",
              question |-> FALSE, up |-> FALSE, accepted |-> FALSE]]
  /\ proposal = [k \in 1 .. MaxRounds |-> [h \in Heads |-> "absent"]]
  /\ at = [p \in Procs |-> Idle]
  /\ budget \in Budgets

-----------------------------------------------------------------------------
(* Rows as the statements select them. *)

Free(S) == {c \in S : msg[c].status = "absent"}
Least(S) == CHOOSE c \in S : \A d \in S : c <= d
Children(i) == {k \in Requests : msg[k].status # "absent" /\ msg[k].of = i}
TopLevel == Children(Owner)
Terminal == card.status = "done"

\* childDelegationsPending
ChildrenPending(i) == \E k \in Children(i) : msg[k].status \notin {"approved", "cancelled"}

\* delegationDepthOf: a request is a row after the one it is a part of.
DepthOf(i) ==
  LET depth[k \in 0 .. MaxRequests] == IF k = Owner THEN 0 ELSE 1 + depth[msg[k].of]
  IN depth[i]

\* The agent a comment is addressed to.
Agent(c) == IF c \in Requests THEN c
            ELSE IF msg[c].up THEN Boss ELSE msg[msg[c].of].of

\* currentDelivery: request and report are approved by the reviewer the request
\* names.  The run behind a report had ended when its review was queued.
Delivers(j) ==
  /\ msg[j].status = "approved" /\ ~msg[j].up
  /\ msg[msg[j].of].status = "approved"

\* delegatedEvidenceStatus; a top-level request that is pending has no evidence.
Delivered(i) == \E j \in Reports : msg[j].of = i /\ msg[j].accepted /\ Delivers(j)
\* Mutant of EvidenceReady: a report is evidence before anybody has reviewed it.
RequestsReady == \A i \in Requests :
  msg[i].status \in {"absent", "cancelled", "submitted"} \/ Delivered(i)
EvidenceReady == \A i \in Requests :
  msg[i].status \in {"absent", "cancelled"} \/ Delivered(i)

-----------------------------------------------------------------------------
(* What a statement does to the rows. *)

Marked(ms, c, status) == [ms EXCEPT ![c].status = status]

\* enqueueMessageTaskRun: an active run is returned as it is; the comment of a
\* settled card is cancelled, but a submitted report may still be reviewed.
Queued(ms, c) ==
  LET mayRun == ~Terminal \/ (c \in Reports /\ ms[c].status = "submitted")
      skipped == IF c \in Reports THEN {c, ms[c].of} ELSE {c}
  IN IF mayRun
     THEN [ms EXCEPT ![c].run = IF @ = "none" THEN "queued" ELSE @]
     ELSE [d \in Comments |->
             [ms[d] EXCEPT !.status = IF d \in skipped THEN "cancelled" ELSE @,
                           !.run = IF d = c THEN "none" ELSE @]]

\* enqueueTaskRun(card, 'dispatch')
OwnerQueued(cd) == [cd EXCEPT !.owner = IF @ = "none" THEN "queued" ELSE @]

\* completeTaskRun of the run process p works on, if it is still running.
Completed(ms, p) == [ms EXCEPT ![at[p].on].run = IF @ = p THEN "none" ELSE @]

Streak(p) == IF at[p].on \in Requests THEN "message" ELSE "message_review"
\* completeRetryableRun: a failure lengthens the streak of its kind and at the
\* limit hands the card to its recovery; any other outcome resets it.
Failed(p) ==
  LET n == card[Streak(p)] + 1 IN
  [card EXCEPT ![Streak(p)] = n,
               !.status = IF n >= FailureLimit /\ ~Terminal THEN "blocked" ELSE @]
Succeeded(p) == [card EXCEPT ![Streak(p)] = 0]

-----------------------------------------------------------------------------
(* Processes. *)

Ends(p) == [q \in Procs |-> IF q = p THEN Idle ELSE [at[q] EXCEPT !.behind = @ \ {p}]]
\* Process p goes on with these statements.
Goes(p, todo) ==
  at' = IF todo = <<>> THEN Ends(p) ELSE [at EXCEPT ![p].pc = "work", ![p].todo = todo]
Then(p) == Goes(p, Tail(at[p].todo))
At(p, statement) ==
  /\ at[p].pc = "work" /\ Head(at[p].todo) = statement
  /\ card.status # "blocked"

\* An agent call lasts longer than the statements of a handler that was at work
\* when it began.
Calls(p, c) ==
  at' = [at EXCEPT ![p] = [Idle EXCEPT !.pc = "call", !.on = c, !.settled = Terminal,
                             !.behind = {q \in Procs \ {p} : at[q].pc = "work"}]]
Returns(p) == at[p].pc = "call" /\ at[p].behind = {} /\ card.status # "blocked"

\* agents.is_busy: the flag is cleared as soon as a call has returned; the owner
\* keeps it until its turn is committed.
BusyAgents ==
  {Agent(at[w].on) : w \in {v \in Workers : at[v].pc \in {"start", "call"}}}
    \cup (IF card.owner = "running" THEN {Owner} ELSE {})

Spend(what) == budget[what] > 0 /\ budget' = [budget EXCEPT ![what] = @ - 1]

-----------------------------------------------------------------------------
(* A worker takes a run: claimNextTaskRun, runMessageDelegation and            *)
(* reviewMessageDelegation up to the agent call.                               *)

Claim(p, c) ==
  /\ p \in budget.staff /\ at[p].pc = "idle"
  /\ msg[c].run = "queued" /\ card.status # "blocked"
  /\ Agent(c) \notin BusyAgents
  /\ IF Terminal /\ ~(c \in Reports /\ msg[c].status = "submitted")
     THEN /\ msg' = Queued([msg EXCEPT ![c].run = "none"], c)
          /\ UNCHANGED at
     ELSE /\ msg' = [msg EXCEPT ![c].run = p]
          /\ at' = [at EXCEPT ![p] = [Idle EXCEPT !.pc = "start", !.on = c]]
  /\ UNCHANGED <<card, proposal, budget>>

Start(p) ==
  LET c == at[p].on IN
  /\ at[p].pc = "start" /\ card.status # "blocked"
  /\ IF Terminal /\ c \in Requests
     THEN /\ card' = Failed(p) /\ msg' = Completed(msg, p)
          /\ Goes(p, <<>>)
     ELSE /\ msg' = IF c \in Requests THEN Marked(msg, c, "running") ELSE msg
          /\ Calls(p, c)
          /\ UNCHANGED card
  /\ UNCHANGED <<proposal, budget>>

\* The result of a run that was taken from its worker is dropped.
Dropped(p) == msg[at[p].on].run # p

Delegation == <<"insertRequest", "queueNew">>
\* Mutant of Retry: the next run is queued while this one still counts as active.
RetryFirst == <<"again", "queue", "fail">>
Retry == <<"fail", "again", "queue">>

\* Rows that are neither used nor promised.
Promised(statement) ==
  Cardinality({x \in Procs \X (1 .. 9) :
    x[2] \in DOMAIN at[x[1]].todo /\ at[x[1]].todo[x[2]] = statement})
Room(S, statement) == Cardinality(Free(S)) - Promised(statement)

RequestReturns(p) ==
  LET i == at[p].on IN
  /\ Returns(p) /\ p \in Workers /\ i \in Requests
  /\ \/ Dropped(p) /\ Goes(p, <<>>) /\ UNCHANGED budget
     \/ ~Dropped(p) /\ Room(Reports, "insertReport") > 0 /\ UNCHANGED budget
        /\ Goes(p, <<"report", "insertReport", "submit", "succeed", "queueNew">>)
     \/ ~Dropped(p) /\ DepthOf(i) < MaxDepth /\ Room(Requests, "insertRequest") > 0
        /\ Goes(p, Delegation \o <<"wait", "succeed">>) /\ UNCHANGED budget
     \/ ~Dropped(p) /\ Spend("progress") /\ Goes(p, <<"wait", "settle", "queue">>)
     \/ ~Dropped(p) /\ Spend("ask") /\ Goes(p, <<"wait", "ask", "settle">>)
     \/ ~Dropped(p) /\ Spend("fail") /\ Goes(p, Retry)
  /\ UNCHANGED <<card, msg, proposal>>

\* Mutant of Approval: the reviewer's run ends before it has told anybody.
ApprovalUntold == <<"approve", "accept", "succeed">>
Approval == <<"approve", "accept", "resume", "succeed">>

\* The run of a review ends under its worker only through a webhook.
ReviewReturns(p) ==
  /\ Returns(p) /\ p \in Workers /\ at[p].on \in Reports
  /\ \/ Goes(p, Approval) /\ UNCHANGED budget
     \/ Spend("revise") /\ Goes(p, <<"reject", "requeue", "queueRequest", "succeed">>)
     \/ Spend("escalate") /\ Goes(p, <<"escalate", "queue", "succeed">>)
     \/ Spend("fail") /\ Goes(p, Retry)
  /\ UNCHANGED <<card, msg, proposal>>

-----------------------------------------------------------------------------
(* Statements of a request's run. *)

\* A report is no report while delegated parts of it are pending.
Report(p) ==
  /\ At(p, "report")
  /\ IF ChildrenPending(at[p].on) THEN Goes(p, <<"wait", "succeed">>) ELSE Then(p)
  /\ UNCHANGED <<card, msg, proposal, budget>>

\* createMessageDelegations, by a delegate or by the owner.
InsertRequest(p) ==
  LET i == Least(Free(Requests)) IN
  /\ At(p, "insertRequest") /\ Free(Requests) # {}
  /\ msg' = [msg EXCEPT ![i].status = "queued", ![i].of = at[p].on]
  /\ at' = [at EXCEPT ![p].todo = Tail(@), ![p].new = i]
  /\ UNCHANGED <<card, proposal, budget>>

InsertReport(p) ==
  LET j == Least(Free(Reports)) IN
  /\ At(p, "insertReport") /\ Free(Reports) # {}
  /\ msg' = [msg EXCEPT ![j].status = "submitted", ![j].of = at[p].on]
  /\ at' = [at EXCEPT ![p].todo = Tail(@), ![p].new = j]
  /\ UNCHANGED <<card, proposal, budget>>

QueueNew(p) ==
  /\ At(p, "queueNew") /\ msg' = Queued(msg, at[p].new) /\ Then(p)
  /\ UNCHANGED <<card, proposal, budget>>

\* delegation_status of the comment the process works on, by id.
StatusAfter == [submit |-> "submitted", wait |-> "waiting"]
Mark(p, statement) ==
  /\ At(p, statement) /\ msg' = Marked(msg, at[p].on, StatusAfter[statement]) /\ Then(p)
  /\ UNCHANGED <<card, proposal, budget>>

\* routeDelegatedQuestion: one transaction.
Ask(p) ==
  /\ At(p, "ask")
  /\ msg' = [msg EXCEPT ![at[p].on].question = TRUE, ![at[p].on].status = "waiting"]
  /\ Then(p)
  /\ UNCHANGED <<card, proposal, budget>>

Succeed(p) ==
  /\ At(p, "succeed")
  /\ card' = IF Dropped(p) THEN card ELSE Succeeded(p)
  /\ msg' = Completed(msg, p) /\ Then(p)
  /\ UNCHANGED <<proposal, budget>>

\* preserveCard: the streak is left alone.
Settle(p) ==
  /\ At(p, "settle") /\ msg' = Completed(msg, p) /\ Then(p)
  /\ UNCHANGED <<card, proposal, budget>>

Fail(p) ==
  /\ At(p, "fail")
  /\ card' = IF Dropped(p) THEN card ELSE Failed(p)
  /\ msg' = Completed(msg, p) /\ Then(p)
  /\ UNCHANGED <<proposal, budget>>

\* requeueMessageTaskAfterFailure
Again(p) ==
  /\ At(p, "again")
  /\ msg' = Marked(msg, at[p].on, IF at[p].on \in Reports THEN "submitted" ELSE "queued")
  /\ Then(p)
  /\ UNCHANGED <<card, proposal, budget>>

QueueSame(p) ==
  /\ At(p, "queue") /\ msg' = Queued(msg, at[p].on) /\ Then(p)
  /\ UNCHANGED <<card, proposal, budget>>

-----------------------------------------------------------------------------
(* Statements of a review. *)

Approved(j) == [msg EXCEPT ![j].status = "approved", ![msg[j].of].status = "approved"]

Approve(p) ==
  /\ At(p, "approve") /\ msg' = Approved(at[p].on) /\ Then(p)
  /\ UNCHANGED <<card, proposal, budget>>

\* acceptDelegatedDelivery
Accept(p) ==
  /\ At(p, "accept")
  /\ msg' = [msg EXCEPT ![at[p].on].accepted = @ \/ Delivers(at[p].on)]
  /\ Then(p)
  /\ UNCHANGED <<card, proposal, budget>>

\* The requester of request i, told by process p: a delegate whose parts are all
\* settled is queued again, the owner gets a turn.  Nobody is told what a review
\* settled after the card was done; an expired part wakes a delegate even then.
Told(p, i) ==
  LET rest == Tail(at[p].todo) IN
  IF at[p].settled /\ (p # "tick" \/ msg[i].of = Owner) THEN rest
  ELSE IF msg[i].of = Owner THEN <<"wakeOwner">> \o rest
  ELSE IF ChildrenPending(msg[i].of) THEN rest
  ELSE <<"wakeParent", "queueParent">> \o rest

\* The request a process reports on: of the report it reviews, or the expired one.
About(p) == IF at[p].on \in Reports THEN msg[at[p].on].of ELSE at[p].on

\* continueAfterMessageReportApproval, and the end of expireStaleDelegations.
Resume(p) ==
  /\ At(p, "resume") /\ Goes(p, Told(p, About(p)))
  /\ UNCHANGED <<card, msg, proposal, budget>>
WakeParent(p) ==
  /\ At(p, "wakeParent") /\ msg' = Marked(msg, msg[About(p)].of, "queued") /\ Then(p)
  /\ UNCHANGED <<card, proposal, budget>>
QueueParent(p) ==
  /\ At(p, "queueParent") /\ msg' = Queued(msg, msg[About(p)].of) /\ Then(p)
  /\ UNCHANGED <<card, proposal, budget>>
WakeOwner(p) ==
  /\ At(p, "wakeOwner") /\ card' = OwnerQueued(card) /\ Then(p)
  /\ UNCHANGED <<msg, proposal, budget>>

\* A revision: the report is rejected, then its request is queued.
Reject(p) ==
  /\ At(p, "reject") /\ msg' = Marked(msg, at[p].on, "rejected") /\ Then(p)
  /\ UNCHANGED <<card, proposal, budget>>
Requeue(p) ==
  /\ At(p, "requeue") /\ msg' = Marked(msg, About(p), "queued") /\ Then(p)
  /\ UNCHANGED <<card, proposal, budget>>
QueueRequest(p) ==
  /\ At(p, "queueRequest") /\ msg' = Queued(msg, About(p)) /\ Then(p)
  /\ UNCHANGED <<card, proposal, budget>>

\* The report is addressed to the reviewer's manager; its run is still this one.
Escalate(p) ==
  /\ At(p, "escalate")
  /\ msg' = [msg EXCEPT ![at[p].on].up = TRUE, ![at[p].on].status = "submitted"]
  /\ Then(p)
  /\ UNCHANGED <<card, proposal, budget>>

-----------------------------------------------------------------------------
(* The owner: dispatchCard, as far as the board is concerned.                *)

\* parentWaitingOnChildren holds the run back while evidence is missing that an
\* earlier turn already waited for.
OwnerClaims ==
  /\ at["owner"].pc = "idle" /\ card.owner = "queued" /\ card.status # "blocked"
  /\ card.waiting => EvidenceReady
  /\ Owner \notin BusyAgents
  /\ IF Terminal
     THEN /\ card' = [card EXCEPT !.owner = "none"]
          /\ UNCHANGED at
     ELSE /\ card' = [card EXCEPT !.owner = "running", !.status = "in_progress"]
          /\ Calls("owner", 0)
  /\ UNCHANGED <<msg, proposal, budget>>

OwnerDelegates == \E n \in 1 .. 2 :
  /\ n <= Room(Requests, "insertRequest")
  /\ Goes("owner", (IF n = 1 THEN Delegation ELSE Delegation \o Delegation)
                   \o <<"toProgress", "ownerDone">>)
  /\ UNCHANGED budget

\* resolveBrainstormRequest: a round is only opened when no question is pending.
Asked(k, status) == {h \in Heads : proposal[k][h] = status}
OwnerBroadcasts ==
  /\ \A k \in DOMAIN proposal : Asked(k, "queued") = {}
  /\ card.round < MaxRounds /\ Spend("round")
  /\ Goes("owner", <<"park", "openQuestions", "toRound">>)

OwnerReturns ==
  /\ Returns("owner")
  /\ \/ OwnerDelegates
     \/ OwnerBroadcasts
     \/ Goes("owner", <<"check", "finish">>) /\ UNCHANGED budget
  /\ UNCHANGED <<card, msg, proposal>>

\* Updates the card by id.
ToProgress(p) ==
  /\ At(p, "toProgress")
  /\ card' = [card EXCEPT !.status = "in_progress"] /\ Then(p)
  /\ UNCHANGED <<msg, proposal, budget>>

OwnerDone ==
  /\ At("owner", "ownerDone")
  /\ card' = [card EXCEPT !.owner = "none"] /\ Then("owner")
  /\ UNCHANGED <<msg, proposal, budget>>

\* The turn is over and the card parked before the round exists.
Park ==
  /\ At("owner", "park")
  /\ card' = [card EXCEPT !.status = "waiting_on_brainstorm", !.owner = "none"]
  /\ Then("owner")
  /\ UNCHANGED <<msg, proposal, budget>>

\* openBrainstormRound
OpenQuestions ==
  /\ At("owner", "openQuestions")
  /\ proposal' = [proposal EXCEPT ![card.round + 1] = [h \in Heads |-> "queued"]]
  /\ Then("owner")
  /\ UNCHANGED <<card, msg, budget>>
ToRound ==
  /\ At("owner", "toRound")
  /\ card' = [card EXCEPT !.status = "waiting_on_brainstorm", !.round = @ + 1]
  /\ Then("owner")
  /\ UNCHANGED <<msg, proposal, budget>>

\* completionBlockedByChildren, some statements before the transaction.
Check ==
  /\ At("owner", "check")
  /\ at' = [at EXCEPT !["owner"].settled = EvidenceReady, !["owner"].todo = Tail(@)]
  /\ UNCHANGED <<card, msg, proposal, budget>>

\* The transaction asks again (completionEvidenceReady) before it writes done; it
\* does not ask again when the answer was that something is missing.
Finish ==
  /\ At("owner", "finish")
  /\ card' = IF at["owner"].settled /\ EvidenceReady
             THEN [card EXCEPT !.owner = "none", !.status = "done"]
             ELSE [card EXCEPT !.owner = "none", !.status = "in_progress", !.waiting = TRUE]
  /\ Then("owner")
  /\ UNCHANGED <<msg, proposal, budget>>

-----------------------------------------------------------------------------
(* The cron tick, one sweep after another.                                   *)

TickGoes(i, todo) ==
  at' = [at EXCEPT !["tick"] = [Idle EXCEPT !.pc = "work", !.on = i, !.todo = todo,
                                             !.settled = Terminal]]

\* Mutant of Stale: a request that waits for its parts does not age.
StaleRun == {"queued", "running"}
Stale == {"queued", "running", "waiting"}

\* expireStaleDelegations.  No request is a day old when the handler that made it
\* is still at work.
Expire(i) ==
  /\ budget.expire /\ at["tick"].pc = "idle" /\ card.status # "blocked"
  /\ msg[i].status \in Stale
  /\ \A p \in Procs : at[p].pc = "work" => at[p].new # i
  /\ TickGoes(i, <<"cancel", "cancelRun", "resume">>)
  /\ UNCHANGED <<card, msg, proposal, budget>>
Cancel ==
  /\ At("tick", "cancel") /\ msg' = Marked(msg, at["tick"].on, "cancelled") /\ Then("tick")
  /\ UNCHANGED <<card, proposal, budget>>
\* A run that is running goes on.
CancelRun ==
  /\ At("tick", "cancelRun")
  /\ msg' = [msg EXCEPT ![at["tick"].on].run = IF @ = "queued" THEN "none" ELSE @]
  /\ Then("tick")
  /\ UNCHANGED <<card, proposal, budget>>

\* answerPeerQuestion of a delegate's question, with resumeDelegatedQuestion: the
\* call outlasts the statements of the run that asked.  A question whose request
\* does not wait stays queued and changes nothing.
AnswerQuestion(i) ==
  /\ at["tick"].pc = "idle" /\ card.status # "blocked" /\ msg[i].question
  /\ msg[i].of \notin BusyAgents /\ msg[i].status = "waiting"
  /\ \A w \in Workers : at[w].pc = "work" => at[w].on # i
  /\ \/ /\ msg' = [msg EXCEPT ![i].question = FALSE, ![i].status = "queued"]
        /\ TickGoes(i, <<"queue">>)
        /\ UNCHANGED <<card, budget>>
     \/ /\ Spend("fail")
        /\ msg' = [msg EXCEPT ![i].question = FALSE, ![i].status = "failed"]
        /\ card' = [card EXCEPT !.status = "blocked"]
        /\ UNCHANGED at
  /\ UNCHANGED proposal

\* answerPeerQuestion of a brainstorm question.
AnswerProposal(k, h) == \E status \in {"done", "failed"} :
  /\ at["tick"].pc = "idle" /\ card.status # "blocked" /\ proposal[k][h] = "queued"
  /\ proposal' = [proposal EXCEPT ![k][h] = status]
  /\ UNCHANGED <<card, msg, at, budget>>

\* Mutant of RoundOver: a round waits for every head, however long.
EveryHeadAnswered == \A k \in DOMAIN proposal : k = card.round => Asked(k, "queued") = {}
\* brainstormRoundComplete: all have answered, or BRAINSTORM_TIMEOUT_MINUTES have passed.
RoundOver == TRUE

\* sweepBrainstormRounds
SweepRound ==
  /\ at["tick"].pc = "idle" /\ card.status = "waiting_on_brainstorm" /\ RoundOver
  /\ TickGoes(0, <<"cancelQuestions", "toProgress", "wakeOwner">>)
  /\ UNCHANGED <<card, msg, proposal, budget>>
CancelQuestions ==
  /\ At("tick", "cancelQuestions")
  /\ proposal' = [k \in DOMAIN proposal |-> [h \in Heads |->
       IF k = card.round /\ proposal[k][h] = "queued" THEN "cancelled" ELSE proposal[k][h]]]
  /\ Then("tick")
  /\ UNCHANGED <<card, msg, budget>>

-----------------------------------------------------------------------------
\* The server dies during a delegate's call.  Its run has a heartbeat and is not
\* queued again (recoverStaleTaskRuns), and no recovery frees its agent.
Crash(w) ==
  /\ at[w].pc = "call" /\ at[w].on \in Requests /\ Spend("crash") /\ card.status # "blocked"
  /\ msg' = [msg EXCEPT ![at[w].on].run = IF @ = w THEN "lost" ELSE @]
  /\ at' = Ends(w)
  /\ UNCHANGED <<card, proposal>>

Statement(p) ==
  \/ Report(p) \/ InsertRequest(p) \/ InsertReport(p) \/ QueueNew(p)
  \/ Mark(p, "submit") \/ Mark(p, "wait") \/ Ask(p) \/ Succeed(p) \/ Settle(p)
  \/ Fail(p) \/ Again(p) \/ QueueSame(p)
  \/ Approve(p) \/ Accept(p) \/ Resume(p) \/ WakeParent(p) \/ QueueParent(p)
  \/ WakeOwner(p) \/ Reject(p) \/ Requeue(p) \/ QueueRequest(p) \/ Escalate(p)

Worker(w) ==
  \/ \E c \in Comments : Claim(w, c)
  \/ Start(w) \/ RequestReturns(w) \/ ReviewReturns(w) \/ Statement(w)

OwnerTurn ==
  \/ OwnerClaims \/ OwnerReturns
  \/ InsertRequest("owner") \/ QueueNew("owner") \/ ToProgress("owner") \/ OwnerDone
  \/ Park \/ OpenQuestions \/ ToRound \/ Check \/ Finish

TickWorks ==
  \/ Cancel \/ CancelRun \/ Resume("tick") \/ WakeParent("tick") \/ QueueParent("tick")
  \/ QueueSame("tick") \/ CancelQuestions \/ ToProgress("tick") \/ WakeOwner("tick")

BoardNext ==
  \/ \E w \in Workers : Worker(w) \/ Crash(w)
  \/ OwnerTurn \/ TickWorks
  \/ \E i \in Requests : Expire(i) \/ AnswerQuestion(i)
  \/ \E k \in 1 .. MaxRounds, h \in Heads : AnswerProposal(k, h)
  \/ SweepRound

\* Workers, the owner's dispatch and the tick never stop; the tick runs every sweep.
\* No department head has to answer.
BoardFairness ==
  /\ \A w \in Workers : WF_boardVars(Worker(w))
  /\ WF_boardVars(OwnerTurn) /\ WF_boardVars(TickWorks)
  /\ SF_boardVars(\E i \in Requests : Expire(i))
  /\ SF_boardVars(\E i \in Requests : AnswerQuestion(i))
  /\ SF_boardVars(SweepRound)

BoardSpec == BoardInit /\ [][BoardNext]_boardVars /\ BoardFairness

-----------------------------------------------------------------------------
(* Properties.                                                               *)

InTime == ~budget.expire

\* The next statements of some process queue a run for comment c.
Promises == {"queue", "queueNew", "queueRequest", "queueParent"}
WillQueue(c) == \E p \in Procs :
  /\ at[p].pc = "work" /\ \E n \in DOMAIN at[p].todo : at[p].todo[n] \in Promises
  /\ \/ c \in {at[p].on, at[p].new}
     \/ at[p].on # 0 /\ (c = About(p) \/ c = msg[About(p)].of)

\* Custody: while no request has timed out, what is queued or under review has a
\* run, or a process that is about to queue one.  (An escalated report has neither,
\* dispatch.ts:3031-3037; a timeout takes the run of a request by id.)
Pending(c) ==
  IF c \in Requests THEN msg[c].status \in {"queued", "running"}
  ELSE msg[c].status = "submitted" /\ ~msg[c].up
MessageInCustody == InTime =>
  \A c \in Comments : Pending(c) => msg[c].run # "none" \/ WillQueue(c)

\* While no request has timed out, a finished card stays covered by evidence: every
\* request of every level was approved, its report was accepted, and no later review,
\* answer or wake-up takes that back (completionEvidenceReady against what runs after it).
DoneIsDelivered == InTime /\ Terminal =>
  \A i \in Requests : msg[i].status = "absent" \/ Delivered(i)

LostAgents == {Agent(c) : c \in {d \in Comments : msg[d].run = "lost"}}
\* A report nobody reviews: it was escalated, or its reviewer died with the server.
Stranded(i) == \E j \in Reports :
  /\ msg[j].status = "submitted" /\ msg[j].of \in {i} \cup Children(i)
  /\ msg[j].up \/ Agent(j) \in LostAgents
OutOfReports == Free(Reports) = {}

\* Every request is settled in the end: approved, or cancelled by its timeout, also
\* through failures, revisions, questions, parts and a server that dies; unless the card
\* is handed to recovery or the report has no reviewer.
RequestsSettle == \A i \in Requests :
  msg[i].status = "queued" ~>
    \/ msg[i].status \in {"approved", "cancelled"}
    \/ card.status = "blocked" \/ Stranded(i) \/ OutOfReports

\* A brainstorm round gives the card back, whether the heads answer, fail or stay
\* silent, and however the owner's other work interferes.
RoundsClose == card.status = "waiting_on_brainstorm" ~> card.status # "waiting_on_brainstorm"

\* "A final-reviewed delegated report is approved; parent assignee queued to integrate
\* it" (dispatch.ts:2826): when all its requests are approved, the owner gets a turn.
AllApproved ==
  /\ card.status = "in_progress" /\ TopLevel # {}
  /\ \A i \in TopLevel : msg[i].status = "approved"
OwnerIntegrates == AllApproved ~> card.owner # "none" \/ card.status \in {"done", "blocked"}
=============================================================================
