----------------------------- MODULE MergeGate -----------------------------
(***************************************************************************)
(* What lies between an approved review and Done: the merge gate           *)
(* (merge-gate.ts), the manager's decision (manager-merge.ts), the merge   *)
(* the platform requests itself (authorized-merge.ts), the external waits  *)
(* a card is parked on (external-events.ts) and the database fence that    *)
(* keeps every other writer off a card whose merge may be under way        *)
(* (managed-merge-migration.ts).                                           *)
(*                                                                         *)
(* One card with one pull request.  A server process runs one merge        *)
(* operation of a card at a time (serializeMerge); several processes share *)
(* the database and the provider, so op[s] is what process s holds in      *)
(* memory between two statements.  A transaction under the lock of the     *)
(* card is one step.  The provider is external: heads move, people merge,  *)
(* close and reopen, requests and answers are lost.                        *)
(*                                                                         *)
(* mergeGateVersion is only ever compared with the version an intent was   *)
(* written under, so an intent says whether the two still agree.           *)
(***************************************************************************)
EXTENDS Naturals, FiniteSets

CONSTANTS
  Servers,      \* server processes
  Heads,        \* commits the pull request may point at
  None,
  MaxWaits,     \* rows of external_waits a behaviour may use
  MaxPolls,     \* EXTERNAL_POLL_MAX
  MaxAttempts,  \* MERGE_ATTEMPT_MAX
  MaxAsks,      \* decisions a manager is asked for one candidate
  Modes,        \* is the project managed (autoMergeAfterApproval) or not
  Commands,     \* what operators may do
  CrashPoints,  \* where a process may die
  Budgets       \* bounds on the changes, commands and crashes of a behaviour

MergeBudget == [changes : Nat, commands : Nat, crashes : Nat]

ASSUME MergeAssumption ==
  /\ None \notin Heads
  /\ {MaxWaits, MaxPolls, MaxAttempts, MaxAsks} \subseteq Nat \ {0}
  /\ Modes \subseteq BOOLEAN
  /\ Budgets \subseteq MergeBudget

VARIABLES
  card,      \* kanban_cards: status, pending human gate, review identity
  waits,     \* external_waits of the card, in the order they were opened
  intents,   \* merge_intents, one per wait of a managed project
  pr,        \* the pull request at the provider
  requests,  \* merge requests on their way to the provider
  hooks,     \* webhook payloads that were sent, each delivered never or often
  op,        \* the merge operation each process is at
  managed,
  accepted,  \* history: heads whose review ended in an approval
  budget

mergeVars == <<card, waits, intents, pr, requests, hooks, op, managed, accepted, budget>>

Waits == 1 .. MaxWaits
Idle == [pc |-> "idle", wait |-> None, seen |-> None, next |-> "end", attempt |-> 0, answer |-> None]
NoWait == [state |-> "none", head |-> None, gitea |-> FALSE, timed |-> FALSE, polls |-> 0]
NoIntent == [state |-> "none", current |-> FALSE, attempts |-> 0,
             authorized |-> FALSE, asks |-> 0, asked |-> FALSE]

MergeInit ==
  /\ card = [status |-> "in_progress", gated |-> FALSE, identity |-> None, reviewing |-> FALSE]
  /\ waits = [w \in Waits |-> NoWait]
  /\ intents = [w \in Waits |-> NoIntent]
  /\ pr \in [state : {"open"}, head : Heads]
  /\ requests = {} /\ hooks = {} /\ accepted = {}
  /\ op = [s \in Servers |-> Idle]
  /\ managed \in Modes
  /\ budget \in Budgets

-----------------------------------------------------------------------------
(* Rows as the statements select them. *)

Active == {"in_flight", "uncertain", "accepted"}
Unsent == {"prepared", "retryable"}

Open(w) == waits[w].state = "waiting"
MergeWait(w) == Open(w) /\ waits[w].gitea
Free == {w \in Waits : waits[w].state = "none"}
Least(S) == CHOOSE w \in S : \A v \in S : w <= v
Newest(S) == CHOOSE w \in S : \A v \in S : v <= w

\* completionCondition of a card that was read while it had this status.
Unchanged(status) == card.status = status /\ ~card.gated
Parked == Unchanged("waiting_on_external")

\* Mutant of Fenced: an intent whose answer was lost fences nothing.
FencedInFlight(is) == \E w \in Waits : is[w].state = "in_flight"
\* mc_merge_gate_fence raises MC409: a merge may already have happened.
Fenced(is) == \E w \in Waits : is[w].state \in Active

\* mc_merge_gate_fence raises mergeGateVersion: what was authorized before no
\* longer holds.
Invalidated(is) == [w \in Waits |-> [is[w] EXCEPT !.current = FALSE]]

\* A write to the card, its waits, gates, rounds or runs by anyone.
GateWrite == ~Fenced(intents) /\ intents' = Invalidated(intents)

\* settleMergeIntent
Settled(w, result) ==
  [intents EXCEPT ![w].state = IF @ \in Active \cup Unsent THEN result ELSE @]

Goto(s, rec) == op' = [op EXCEPT ![s] = rec]
Rest(s) == Goto(s, Idle)
Move(s, pc) == Goto(s, [op[s] EXCEPT !.pc = pc])
AtRest == UNCHANGED <<card, waits, intents, pr, requests, hooks, managed, accepted, budget>>
External == UNCHANGED <<card, waits, intents, managed, accepted>>

-----------------------------------------------------------------------------
(* Review and parking. *)

\* The agent reports the work as delivered and the card goes to review.
Deliver ==
  /\ Unchanged("in_progress") /\ GateWrite
  /\ card' = [card EXCEPT !.status = "in_review", !.reviewing = FALSE]
  /\ UNCHANGED <<waits, pr, requests, hooks, op, managed, accepted, budget>>

\* beginReviewIdentity: the head under review is recorded before the review.
BeginReview ==
  /\ Unchanged("in_review") /\ ~card.reviewing /\ GateWrite
  /\ pr.state # "closed"
  /\ card' = [card EXCEPT !.identity = pr.head, !.reviewing = TRUE]
  /\ UNCHANGED <<waits, pr, requests, hooks, op, managed, accepted, budget>>

\* planMergeGate: the provider still shows the head that was reviewed.
EvidenceMatches == pr.head = card.identity

\* The review ends in an approval and the gate is planned.  A closed pull request
\* blocks the card, a head that moved sends it to a new review.
Approve(s) ==
  /\ op[s] = Idle /\ card.reviewing /\ Unchanged("in_review")
  /\ accepted' = accepted \cup {card.identity}
  /\ IF pr.state # "closed" /\ EvidenceMatches
     THEN /\ Goto(s, [Idle EXCEPT !.pc = "approved", !.seen = pr])
          /\ card' = [card EXCEPT !.reviewing = FALSE]
          /\ UNCHANGED intents
     ELSE /\ GateWrite
          /\ card' = [card EXCEPT !.reviewing = FALSE,
                        !.status = IF pr.state = "closed" THEN "blocked" ELSE @]
          /\ UNCHANGED op
  /\ UNCHANGED <<waits, pr, requests, hooks, managed, budget>>

\* reviewCard moves the card before it opens the wait; a panel round and an
\* automatic approval leave that to parkForMerge.
MoveFirst(s) ==
  /\ op[s].pc = "approved"
  /\ IF Unchanged("in_review") /\ ~Fenced(intents)
     THEN /\ card' = [card EXCEPT !.status = "waiting_on_external"]
          /\ intents' = Invalidated(intents)
          /\ Move(s, "moved")
     ELSE Rest(s) /\ UNCHANGED <<card, intents>>
  /\ UNCHANGED <<waits, pr, requests, hooks, managed, accepted, budget>>

StatusAt(pc) == IF pc = "approved" THEN "in_review" ELSE "waiting_on_external"

\* Open merge waits for the head that was approved.
SameWaits(s) == {w \in Waits : MergeWait(w) /\ waits[w].head = op[s].seen.head}

MayPark(s) == op[s].pc \in {"approved", "moved"} /\ Unchanged(StatusAt(op[s].pc))

\* parkForMerge returns the wait that is already there.
KeepWait(s) ==
  /\ MayPark(s)
  /\ \E w \in SameWaits(s) : ~managed \/ intents[w].current
  /\ Rest(s) /\ AtRest

\* The intent of the same head is replaced only before anything was sent.
Replaced(s) ==
  [w \in Waits |-> IF w \in SameWaits(s) /\ managed
                   THEN [intents[w] EXCEPT !.state = "superseded"] ELSE intents[w]]

\* Mutant of Superseded: older waits stay open.
SupersededNone == waits
\* One merge wait is open at a time.
Superseded == [w \in Waits |-> IF MergeWait(w) THEN [waits[w] EXCEPT !.state = "superseded"]
                                               ELSE waits[w]]

\* parkForMerge opens the wait and, for a managed project, its intent; then it
\* reconciles at once.
OpenWait(s) ==
  LET n == Least(Free) IN
  /\ MayPark(s) /\ Free # {}
  /\ \A w \in SameWaits(s) : managed /\ ~intents[w].current /\ intents[w].state \in Unsent
  /\ ~Fenced(Replaced(s))
  /\ card' = [card EXCEPT !.status = "waiting_on_external"]
  /\ waits' = [Superseded EXCEPT ![n] =
                 [NoWait EXCEPT !.state = "waiting", !.head = op[s].seen.head, !.gitea = TRUE]]
  /\ intents' = [Invalidated(Replaced(s)) EXCEPT ![n] =
                   IF managed THEN [NoIntent EXCEPT !.state = "prepared", !.current = TRUE] ELSE @]
  /\ Goto(s, [Idle EXCEPT !.pc = "check", !.wait = n])
  /\ UNCHANGED <<pr, requests, hooks, managed, accepted, budget>>

\* The authority is gone, or the fence or an intent that was sent is in the way.
ParkRefused(s) ==
  /\ op[s].pc \in {"approved", "moved"}
  /\ \/ ~Unchanged(StatusAt(op[s].pc))
     \/ Fenced(Replaced(s))
     \/ \E w \in SameWaits(s) : managed /\ ~intents[w].current /\ intents[w].state \notin Unsent
  /\ Rest(s) /\ AtRest

-----------------------------------------------------------------------------
(* The manager's decision. *)

Reviewed(w) == card.identity = waits[w].head /\ ~card.reviewing

\* managerDecisionStillValid
DecisionValid(is, w) == is[w].authorized /\ Reviewed(w)

\* ensureMergeDecision has something to wait for.
NeedsDecision(is, w) ==
  /\ is[w].state \in Unsent /\ is[w].current
  /\ card.status = "waiting_on_external" /\ ~DecisionValid(is, w)
Asked(is, w) ==
  IF is[w].asked \/ is[w].asks >= MaxAsks \/ ~Reviewed(w) THEN is
  ELSE [is EXCEPT ![w].asked = TRUE, ![w].asks = @ + 1]

\* requestManagerMerge
MayAuthorize(w) ==
  /\ intents[w].state \in Unsent /\ intents[w].current
  /\ Parked /\ MergeWait(w) /\ Reviewed(w)

\* The manager answers the question; what is not an authorization ends it too.
Answer(w) ==
  /\ intents[w].asked
  /\ \E grant \in {FALSE} \cup {MayAuthorize(w)} :
       intents' = [intents EXCEPT ![w].asked = FALSE, ![w].authorized = @ \/ grant]
  /\ UNCHANGED <<card, waits, pr, requests, hooks, op, managed, accepted, budget>>

\* A manager authorizes the candidate in a direct chat, which reconciles at once.
ChatMerge(s, w) ==
  /\ "chat" \in Commands /\ budget.commands > 0
  /\ op[s] = Idle /\ MayAuthorize(w)
  /\ intents' = [intents EXCEPT ![w].authorized = TRUE]
  /\ Goto(s, [Idle EXCEPT !.pc = "check", !.wait = w])
  /\ budget' = [budget EXCEPT !.commands = @ - 1]
  /\ UNCHANGED <<card, waits, pr, requests, hooks, managed, accepted>>

-----------------------------------------------------------------------------
(* Reconciliation. *)

\* Mutant of PollsLeft: one check too many.
OnePollMore(w) == waits[w].polls <= MaxPolls
PollsLeft(w) == waits[w].polls < MaxPolls

\* reconcileMergeWait up to the claim of the poll: a decision that is missing is
\* asked for and costs no poll.
Reconcile(s, w) ==
  IF ~MergeWait(w) \/ ~Parked THEN Rest(s) /\ UNCHANGED <<waits, intents>>
  ELSE IF NeedsDecision(intents, w)
  THEN intents' = Asked(intents, w) /\ Rest(s) /\ UNCHANGED waits
  ELSE IF PollsLeft(w)
  THEN /\ waits' = [waits EXCEPT ![w].polls = @ + 1]
       /\ Goto(s, [Idle EXCEPT !.pc = "read", !.wait = w, !.next = "decide"])
       /\ UNCHANGED intents
  ELSE Rest(s) /\ UNCHANGED <<waits, intents>>

CheckParked(s) ==
  /\ op[s].pc = "check" /\ Reconcile(s, op[s].wait)
  /\ UNCHANGED <<card, pr, requests, hooks, managed, accepted, budget>>

\* sweepExternalWaitPolls; only a check that does something is a step.
SweepPoll(s, w) ==
  /\ op[s] = Idle /\ MergeWait(w) /\ Parked /\ PollsLeft(w)
  /\ Reconcile(s, w)
  /\ UNCHANGED <<card, pr, requests, hooks, managed, accepted, budget>>

\* The provider answers with the pull request, or is unreachable.
ReadPull(s) ==
  /\ op[s].pc = "read"
  /\ Goto(s, [op[s] EXCEPT !.pc = "handle", !.seen = pr]) \/ Rest(s)
  /\ AtRest

\* handleGiteaWebhookEvent: a managed project takes the webhook as a hint and
\* reads the provider, another one believes the payload.
Webhook(s, w, payload) ==
  /\ op[s] = Idle /\ payload \in hooks /\ MergeWait(w)
  /\ card.status = "waiting_on_external"
  /\ Goto(s, [Idle EXCEPT !.wait = w, !.pc = IF managed THEN "read" ELSE "handle",
                          !.seen = IF managed THEN None ELSE payload])
  /\ AtRest

\* Mutant of MergeVerdict: whatever was merged is taken for the approved head.
AnyMergeVerdict(w, p) ==
  CASE p.state = "merged" -> "success"
    [] p.state = "closed" -> "failure"
    [] p.state = "open" -> IF p.head = waits[w].head THEN "ignore" ELSE "drift"
\* mergeVerdict
MergeVerdict(w, p) ==
  CASE p.state = "closed" -> "failure"
    [] p.state = "merged" /\ p.head = waits[w].head -> "success"
    [] p.state = "open" /\ p.head = waits[w].head -> "ignore"
    [] p.head # waits[w].head /\ p.state \in {"open", "merged"} -> "drift"

\* What applyExternalEvent and recordDrift make of a verdict.
StatusFor == [success |-> "done", failure |-> "in_progress", drift |-> "in_review"]
IntentFor == [success |-> "verified", failure |-> "closed", drift |-> "drift"]
WaitFor == [success |-> "success", failure |-> "failure", drift |-> "superseded"]

\* Mutant of Claims: the wait may have been resolved by someone else.
ClaimsAny(w) == TRUE
\* The wait is claimed in the transaction that moves the card, or both roll back.
Claims(w) == Open(w)

\* applyExternalEvent with verifiedMerge, recordDrift.
Handle(s) ==
  LET w == op[s].wait
      v == MergeVerdict(w, op[s].seen)
      settled == Settled(w, IntentFor[v]) IN
  /\ op[s].pc = "handle" /\ v # "ignore"
  /\ IF Parked /\ Claims(w) /\ ~Fenced(settled)
     THEN /\ card' = [card EXCEPT !.status = StatusFor[v]]
          /\ waits' = [waits EXCEPT ![w].state = WaitFor[v]]
          /\ intents' = Invalidated(settled)
     ELSE UNCHANGED <<card, waits, intents>>
  /\ Rest(s)
  /\ UNCHANGED <<pr, requests, hooks, managed, accepted, budget>>

Ignore(s) ==
  /\ op[s].pc = "handle" /\ MergeVerdict(op[s].wait, op[s].seen) = "ignore"
  /\ IF managed /\ op[s].next = "decide" THEN Move(s, "decide") ELSE Rest(s)
  /\ AtRest

-----------------------------------------------------------------------------
(* The merge the platform requests itself. *)

\* 30 seconds after an attempt, more than the bound of the request: the provider
\* has handled it or never will.
RequestOver(w) == \A r \in requests : r.wait # w

\* reopenUncertainMerge: the provider shows the candidate open and unmerged.
Reopened(w, p) ==
  IF /\ intents[w].state \in {"uncertain", "in_flight"} /\ intents[w].current
     /\ intents[w].attempts < MaxAttempts /\ RequestOver(w)
     /\ p.head = waits[w].head
  THEN [intents EXCEPT ![w].state = "retryable", ![w].authorized = FALSE,
                       ![w].asks = 0, ![w].asked = FALSE]
  ELSE intents

Decide(s) ==
  LET w == op[s].wait
      is == Reopened(w, op[s].seen) IN
  /\ op[s].pc = "decide"
  /\ IF NeedsDecision(is, w) THEN intents' = Asked(is, w) /\ Rest(s)
     ELSE intents' = is /\ Move(s, "execute")
  /\ UNCHANGED <<card, waits, pr, requests, hooks, managed, accepted, budget>>

Preflight(w) ==
  /\ intents[w].state \in Unsent \cup {"uncertain", "in_flight"}
  /\ intents[w].attempts < MaxAttempts /\ RequestOver(w)
  /\ pr = [state |-> "open", head |-> waits[w].head]

\* executeAuthorizedMerge up to the claim: the intent and the provider are read.
Execute(s) ==
  /\ op[s].pc = "execute"
  /\ \/ /\ Preflight(op[s].wait)
        /\ Goto(s, [op[s] EXCEPT !.pc = "claim", !.seen = intents[op[s].wait].state,
                                 !.attempt = intents[op[s].wait].attempts])
     \/ Rest(s)
  /\ AtRest

\* Mutant of SameAttempt: the claim trusts what was read before.
AnyAttempt(s) == TRUE
\* No other process has claimed or settled the intent in between.
SameAttempt(s) ==
  LET w == op[s].wait IN
  intents[w].state = op[s].seen /\ intents[w].attempts = op[s].attempt

\* The committed claim is the irreversible boundary; the request follows it.
Claim(s) ==
  LET w == op[s].wait
      n == intents[w].attempts + 1 IN
  /\ op[s].pc = "claim"
  /\ IF Parked /\ intents[w].current /\ MergeWait(w) /\ SameAttempt(s) /\ DecisionValid(intents, w)
     THEN /\ intents' = [intents EXCEPT ![w].state = "in_flight", ![w].attempts = n]
          /\ requests' = requests \cup {[wait |-> w, head |-> waits[w].head, attempt |-> n]}
          /\ Goto(s, [op[s] EXCEPT !.pc = "post", !.seen = None, !.attempt = n])
     ELSE Rest(s) /\ UNCHANGED <<intents, requests>>
  /\ UNCHANGED <<card, waits, pr, hooks, managed, accepted, budget>>

\* Mutant of StillInFlight: the answer is written over whatever came in between.
AlwaysInFlight(s) == TRUE
\* A webhook may already have resolved this intent while the POST was under way.
StillInFlight(s) ==
  LET w == op[s].wait IN
  intents[w].state = "in_flight" /\ intents[w].attempts = op[s].attempt

\* The answer, or after the time limit its absence, is written; then the provider
\* is read again.
WriteBack(s) ==
  LET w == op[s].wait IN
  /\ op[s].pc = "post"
  /\ intents' = IF StillInFlight(s)
                THEN [intents EXCEPT ![w].state =
                        IF op[s].answer = None THEN "uncertain" ELSE op[s].answer]
                ELSE intents
  /\ Goto(s, [Idle EXCEPT !.pc = "read", !.wait = w])
  /\ UNCHANGED <<card, waits, pr, requests, hooks, managed, accepted, budget>>

-----------------------------------------------------------------------------
(* The provider and the people who use it. *)

Told(p) == hooks' = hooks \cup {p}

\* The process that waits for this request gets the answer or does not.
Answered(r, answer) ==
  \/ op' = [s \in Servers |->
              IF op[s].pc = "post" /\ op[s].wait = r.wait /\ op[s].attempt = r.attempt
              THEN [op[s] EXCEPT !.answer = answer] ELSE op[s]]
  \/ UNCHANGED op

ProviderMerges(r) ==
  LET merged == [pr EXCEPT !.state = "merged"] IN
  /\ pr = [state |-> "open", head |-> r.head]
  /\ pr' = merged /\ Told(merged) /\ Answered(r, "accepted")
  /\ requests' = requests \ {r}
  /\ External /\ UNCHANGED budget

\* 405, 409 or 422, or nothing reaches the provider.
ProviderRefuses(r) ==
  /\ Answered(r, "retryable")
  /\ requests' = requests \ {r}
  /\ External /\ UNCHANGED <<pr, hooks, budget>>

\* Commits are pushed; people merge, close and reopen the pull request.
Change ==
  /\ budget.changes > 0
  /\ pr' \in [state : {"open", "closed", "merged"}, head : Heads]
  /\ \/ pr.state = "open" /\ pr'.state = "open" /\ pr'.head # pr.head
     \/ pr.state = "open" /\ pr'.state # "open" /\ pr'.head = pr.head
     \/ pr.state = "closed" /\ pr'.state = "open" /\ pr'.head = pr.head
  /\ Told(pr')
  /\ budget' = [budget EXCEPT !.changes = @ - 1]
  /\ External /\ UNCHANGED <<requests, op>>

-----------------------------------------------------------------------------
(* Other writers of the card; each meets the fence. *)

Spent == budget' = [budget EXCEPT !.commands = @ - 1]
Commanded(c) == c \in Commands /\ budget.commands > 0 /\ Spent

Moved(status) == [card EXCEPT !.status = status, !.reviewing = FALSE]

\* PATCH /api/cards/:id takes the card out of the lane it is in.
MoveCard(c, status) ==
  /\ Commanded(c) /\ GateWrite
  /\ card.status \in {"in_review", "waiting_on_external", "blocked"}
  /\ card' = Moved(status)
  /\ UNCHANGED <<waits, pr, requests, hooks, op, managed, accepted>>
Rework == MoveCard("rework", "in_progress")
Cancel == MoveCard("cancel", "cancelled")

\* POST /api/external-events: success asks for a review, failure goes back to the
\* author; plain waits are resolved, an authorization is not. The card has a
\* reviewer: without one a success would go through planMergeGate.
GenericEvent ==
  /\ Commanded("event") /\ GateWrite
  /\ card.status \notin {"done", "cancelled"} /\ ~card.gated
  /\ \E status \in {"in_review", "in_progress"} :
       LET plain == {w \in Waits : Open(w) /\ waits[w].head = None} IN
       /\ card.status # status \/ plain # {}
       /\ card' = IF card.status = status THEN card ELSE Moved(status)
       /\ waits' = [w \in Waits |->
                      IF w \in plain
                      THEN [waits[w] EXCEPT !.state = IF status = "in_review" THEN "success" ELSE "failure"]
                      ELSE waits[w]]
  /\ UNCHANGED <<pr, requests, hooks, op, managed, accepted>>

\* POST /api/cards/:id/external-waits parks the card whatever its status is.
PlainWait ==
  /\ Commanded("wait") /\ GateWrite /\ Free # {}
  /\ card' = Moved("waiting_on_external")
  /\ waits' = [waits EXCEPT ![Least(Free)] = [NoWait EXCEPT !.state = "waiting", !.timed = TRUE]]
  /\ UNCHANGED <<pr, requests, hooks, op, managed, accepted>>

\* The agent reports that it waits; a webhook report takes over the newest open
\* wait, whatever it was opened for.
ReportWaiting ==
  LET open == {w \in Waits : Open(w)} IN
  /\ Commanded("report") /\ GateWrite /\ Unchanged("in_progress")
  /\ card' = Moved("waiting_on_external")
  /\ \/ open # {} /\ waits' = [waits EXCEPT ![Newest(open)].gitea = FALSE]
     \/ open = {} /\ Free # {}
        /\ waits' = [waits EXCEPT ![Least(Free)] = [NoWait EXCEPT !.state = "waiting"]]
  /\ UNCHANGED <<pr, requests, hooks, op, managed, accepted>>

\* A human gate is opened on the card, and decided or withdrawn.
HumanGate ==
  /\ Commanded("gate") /\ ~Fenced(intents)
  /\ card' = [card EXCEPT !.gated = ~@]
  /\ intents' = IF card.gated THEN intents ELSE Invalidated(intents)
  /\ UNCHANGED <<waits, pr, requests, hooks, op, managed, accepted>>

\* sweepExternalWaitTimeouts
TimeOut(w) ==
  /\ Open(w) /\ waits[w].timed /\ Parked /\ GateWrite
  /\ card' = [card EXCEPT !.status = "blocked"]
  /\ waits' = [waits EXCEPT ![w].state = "timeout"]
  /\ UNCHANGED <<pr, requests, hooks, op, managed, accepted, budget>>

\* A process dies with what it holds in memory.
Crash(s) ==
  /\ budget.crashes > 0 /\ op[s].pc \in CrashPoints
  /\ Rest(s)
  /\ budget' = [budget EXCEPT !.crashes = @ - 1]
  /\ UNCHANGED <<card, waits, intents, pr, requests, hooks, managed, accepted>>

-----------------------------------------------------------------------------
Review(s) == Approve(s) \/ MoveFirst(s) \/ KeepWait(s) \/ OpenWait(s) \/ ParkRefused(s)
Merge(s) == Decide(s) \/ Execute(s) \/ Claim(s) \/ WriteBack(s)
Step(s) == CheckParked(s) \/ ReadPull(s) \/ Handle(s) \/ Ignore(s) \/ Merge(s)
Operator == Rework \/ Cancel \/ GenericEvent \/ PlainWait \/ ReportWaiting \/ HumanGate

MergeNext ==
  \/ Deliver \/ BeginReview \/ Operator \/ Change
  \/ \E r \in requests : ProviderMerges(r) \/ ProviderRefuses(r)
  \/ \E w \in Waits : Answer(w) \/ TimeOut(w)
  \/ \E s \in Servers :
       \/ Review(s) \/ Step(s) \/ Crash(s)
       \/ \E w \in Waits :
            \/ ChatMerge(s, w) \/ SweepPoll(s, w)
            \/ \E p \in hooks : Webhook(s, w, p)

MergeSpec == MergeInit /\ [][MergeNext]_mergeVars

-----------------------------------------------------------------------------
(* Properties. *)

\* Columns hold what the schema allows, and a wait is polled no more often than
\* its budget (EXTERNAL_POLL_MAX) however many processes sweep.
MergeTypeOK ==
  /\ card.status \in {"in_progress", "in_review", "waiting_on_external", "blocked",
                      "done", "cancelled"}
  /\ card.identity \in Heads \cup {None} /\ {card.gated, card.reviewing} \subseteq BOOLEAN
  /\ \A w \in Waits :
       /\ waits[w].head \in Heads \cup {None} /\ waits[w].polls \in 0 .. MaxPolls
       /\ intents[w].attempts \in 0 .. MaxAttempts /\ intents[w].asks \in 0 .. MaxAsks
  /\ pr \in [state : {"open", "closed", "merged"}, head : Heads]

\* "This card is done only when exactly that commit is merged"
\* (mergeAuthorizedMessage): a card that is done had its head approved by a review
\* and the provider merged that head, whatever was pushed, closed, reopened,
\* delivered late or twice in between.
DoneIsMerged == card.status = "done" => pr.state = "merged" /\ pr.head \in accepted

\* Reviews may approve again and again, several processes may park: at most one
\* merge wait can complete the card.
OneMergeWait == Cardinality({w \in Waits : MergeWait(w)}) <= 1

\* From the claim of a merge until the provider's verdict is known nobody changes
\* what was authorized: the card stays parked on the wait of that head without a
\* pending gate, and no second merge is under way.
MergeIsFenced ==
  \A w \in Waits : intents[w].state \in Active =>
    /\ Parked /\ MergeWait(w) /\ intents[w].current
    /\ \A v \in Waits \ {w} : intents[v].state \notin Active

\* Processes that reconcile the same wait, retry after a lost answer or restart
\* never have two merge requests for one authorization on their way.
OneRequest == \A r1, r2 \in requests : r1.wait = r2.wait => r1 = r2

\* What the provider verified, and what a new review replaced, stays settled: the
\* late answer of a merge request does not bring an intent back.
IntentsStaySettled ==
  [][\A w \in Waits : intents[w].state \in {"verified", "drift", "closed", "superseded"}
                        => intents'[w].state = intents[w].state]_mergeVars

\* A wait is resolved once, by the first of webhook, poll, event and timeout.
WaitsResolveOnce ==
  [][\A w \in Waits : waits[w].state \in {"success", "failure", "timeout", "superseded"}
                        => waits'[w].state = waits[w].state]_mergeVars
=============================================================================
