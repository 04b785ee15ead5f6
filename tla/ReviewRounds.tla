---------------------------- MODULE ReviewRounds ----------------------------
(***************************************************************************)
(* Blind review rounds of one card (review-rounds.ts, review-panel.ts),    *)
(* the single review that stands in for them (reviewCard of dispatch.ts)   *)
(* and the human gate behind both.                                         *)
(*                                                                         *)
(* A round is opened, answered, closed and decided by separate statements; *)
(* at[p] is what each process that executes them holds in memory.  An      *)
(* action is one statement, or several in a row that no other process can  *)
(* tell apart.  A restart of the server loses every at[p].                 *)
(***************************************************************************)
EXTENDS Naturals, FiniteSets

CONSTANTS
  Reviewers,      \* the eligible reviewers composeReviewPanel finds
  Issues,         \* titles two reviewers may raise independently
  Blocking,       \* the issues of severity P0; the others are P2
  None,
  MaxRounds,      \* bound: rows of review_rounds in any scenario
  MaxLevel,       \* bound on the fix levels of any scenario
  MaxRevisions,   \* cards.max_revisions
  MaxAttempts,    \* PANEL_REVIEW_SLOT_MAX_ATTEMPTS
  FailureLimit,   \* RUN_FAILURE_LIMIT, failed single reviews in a row
  Parked,         \* where an approved card may wait: children, merge
  Unavailable,    \* reviewers whose runtime goes down after the round opened
  CrashPoints,    \* program points of the single review a restart may hit
  Scenarios       \* what a behaviour is about, see ScenarioOf

\* The columns of the card that choose its review path, what may go wrong, and
\* the bounds on rounds, commands and restarts.
ScenarioOf ==
  [mandatory : BOOLEAN,     \* critical, requires approval, or panel required
   client : BOOLEAN,        \* requires_approval
   collaboration : BOOLEAN, \* split_request_key starts with 'collaboration:'
   faults : SUBSET {"answer", "timeout", "reassign"},
   levels : 0..MaxLevel,    \* bosses above the author inside the department
   ticks : Nat,             \* cron ticks while one of Between is at work
   rounds : 0..MaxRounds, commands : Nat, restarts : Nat]

ASSUME ReviewAssumption ==
  /\ {MaxRounds, MaxLevel, MaxRevisions, MaxAttempts, FailureLimit} \subseteq Nat
  /\ Parked \subseteq {"in_progress", "waiting_on_external"}
  /\ Blocking \subseteq Issues /\ Unavailable \subseteq Reviewers
  /\ Scenarios \subseteq ScenarioOf
  /\ None \notin Issues
  /\ Reviewers \cap {"author", "operator", "sweep", "human", "single"} = {}
  /\ None \notin {"approved", "revision_requested", "unavailable", "cancelled"}

VARIABLES
  card,     \* kanban_cards: stage, fix level, revisions, gate, single review
  round,    \* review_rounds
  finding,  \* review_findings: what each reviewer filed in each round
  slot,     \* sealed slot comments and their panel_review runs
  at,       \* the process-local state
  scenario  \* the columns and bounds; commands and restarts count down

reviewVars == <<card, round, finding, slot, at, scenario>>

Ids == 1..MaxRounds
Procs == Reviewers \cup {"author", "operator", "sweep", "human", "single"}
\* A verdict to escalate counts like one to revise.
Verdicts == {"approved", "revision_requested"}
Idle == [pc |-> "idle"]

NoRound == [status |-> "absent", kind |-> "panel", decision |-> None,
            verdicts |-> [r \in Reviewers |-> None],
            checks |-> [r \in Reviewers |-> {}],
            panel |-> None, scope |-> {}, seats |-> {}, expired |-> FALSE]
NoFinding == [issue |-> None, reassign |-> FALSE, disposition |-> None,
              verification |-> None]
NoSlot == [run |-> "absent", done |-> FALSE, failed |-> FALSE, attempt |-> 0,
           said |-> None]  \* the verdict in the output of the run

ReviewInit ==
  /\ card = [status |-> "todo", level |-> 0, revisions |-> 0, rounds |-> 0,
             gate |-> FALSE, single |-> "none", failures |-> 0]
  /\ round = [k \in Ids |-> NoRound]
  /\ finding = [k \in Ids |-> [r \in Reviewers |-> NoFinding]]
  /\ slot = [k \in Ids |-> [r \in Reviewers |-> NoSlot]]
  /\ at = [p \in Procs |-> Idle]
  /\ scenario \in Scenarios

-----------------------------------------------------------------------------
(* Rows as the queries select them. *)

Open == {k \in Ids : round[k].status = "open"}
HasOpenRound == Open # {}
Unused == {k \in Ids : round[k].status = "absent"}
Last(S) == CHOOSE k \in S : \A j \in S : j <= k

\* The latest closed panel round, cancelled and unanswered ones included.
ClosedPanels == {k \in Ids : round[k].status = "closed" /\ round[k].kind = "panel"}
LatestPanel == IF ClosedPanels = {} THEN None ELSE Last(ClosedPanels)

Filers(k) == {r \in Reviewers : finding[k][r].issue # None}
FindingIsOpen(f) == f.disposition = None \/ f.verification = "still_open"
OpenFilers(k) == {r \in Filers(k) : FindingIsOpen(finding[k][r])}

\* The round whose findings the author has to answer now.
FixRound ==
  IF /\ card.rounds > 0 /\ LatestPanel # None
     /\ round[LatestPanel].decision = "revision_requested"
     /\ OpenFilers(LatestPanel) # {}
  THEN LatestPanel ELSE None

\* Answered by the author and verified by nobody yet.
AwaitingVerification(k) ==
  {r \in Filers(k) : /\ finding[k][r].disposition # None
                     /\ finding[k][r].verification = None}

Seated(k) == {r \in Reviewers : slot[k][r].run # "absent"}
Active == {"queued", "running"}
StopRun(s) == [s EXCEPT !.run = IF @ \in Active THEN "ended" ELSE @]
\* What a slot of a decided round holds is read by nobody.
Forgotten(k) == [slot EXCEPT ![k] = [r \in Reviewers |->
  IF @[r].run = "absent" THEN NoSlot ELSE [NoSlot EXCEPT !.run = "ended"]]]

(* Process-local state. *)
Goto(p, rec) == at' = [at EXCEPT ![p] = rec]
Rest(p) == Goto(p, Idle)
In(p, pc) == at[p].pc = pc

\* The columns of a card row that are compared or counted on later.
View(c) == [status |-> c.status, level |-> c.level, revisions |-> c.revisions]

\* Mutant of StillCurrent: a human gate that came up meanwhile is not looked for.
StageCurrent(view) == card.status = view.status /\ card.level = view.level

\* completionCondition: the row this process read is the row still there, and
\* no human gate has come up since.
StillCurrent(view) ==
  /\ card.status = view.status /\ card.level = view.level
  /\ ~card.gate

-----------------------------------------------------------------------------
(* Gates and fallbacks. *)

\* ensureHumanGate leaves a settled card alone.
Gated(c) == [c EXCEPT !.gate = @ \/ c.status \notin {"done", "cancelled"}]

\* enqueueTaskRun(card, 'review'): an active run is returned as it is.
SingleQueued(c) == [c EXCEPT !.single = IF @ = "none" THEN "queued" ELSE @]

\* Nobody can review: a human where review is mandatory, else the single path.
RouteUnavailable(c) == IF scenario.mandatory THEN Gated(c) ELSE SingleQueued(c)

-----------------------------------------------------------------------------
(* The author reports completion; a fix must answer every open finding. *)

AuthorCompletes ==
  /\ In("author", "idle") /\ card.status = "todo" /\ ~card.gate
  /\ card' = [card EXCEPT !.status = "in_review"]
  /\ LET fix == FixRound
         view == View([card EXCEPT !.status = "in_review"])
     IN IF fix # None
        THEN \E pc \in {"dispose", "takeover"} :
               Goto("author", [pc |-> pc, k |-> fix, view |-> view])
        ELSE IF scenario.mandatory
             THEN Goto("author", [pc |-> "open", kind |-> "panel"])
             ELSE Goto("author", [pc |-> "enqueue"])
  /\ UNCHANGED <<round, finding, slot, scenario>>

\* afterAuthorFix: the dispositions of the findings that were open, then the
\* verify round.  A finding merged into another is treated like a rejected one.
RecordFix ==
  /\ In("author", "dispose")
  /\ LET k == at["author"].k
     IN \E d \in [OpenFilers(k) -> {"adopted", "rejected"}] :
          finding' = [finding EXCEPT ![k] = [r \in Reviewers |->
            IF r \in DOMAIN d
            THEN [@[r] EXCEPT !.disposition = d[r], !.verification = None]
            ELSE @[r]]]
  /\ Goto("author", [pc |-> "open", kind |-> "verify"])
  /\ UNCHANGED <<card, round, slot, scenario>>

\* takeoverCard: the boss inside the department gets the card, or a human does.
\* The update names the card by its id and builds on the row read before.
TakenOver(view) ==
  IF view.level < scenario.levels
  THEN [card EXCEPT !.status = "todo", !.level = view.level + 1,
                    !.revisions = 0, !.gate = FALSE]
  ELSE Gated(card)

EscalateFix ==
  /\ In("author", "takeover")
  /\ card' = TakenOver(at["author"].view)
  /\ Rest("author")
  /\ UNCHANGED <<round, finding, slot, scenario>>

EnqueueReview(p) ==
  /\ In(p, "enqueue")
  /\ card' = SingleQueued(card)
  /\ Rest(p)
  /\ UNCHANGED <<round, finding, slot, scenario>>

-----------------------------------------------------------------------------
(* openPanelRound: look for an open round, insert, then seat the reviewers. *)

CheckOpen(p) ==
  /\ In(p, "open")
  /\ LET kind == at[p].kind
         scope == IF kind = "verify" /\ LatestPanel # None
                  THEN AwaitingVerification(LatestPanel) ELSE {}
     IN IF HasOpenRound THEN Rest(p) /\ UNCHANGED card
        ELSE IF kind = "verify" /\ scope = {}
             THEN Rest(p) /\ card' = SingleQueued(card)
        ELSE IF Reviewers = {}
             THEN Rest(p) /\ card' = RouteUnavailable(card)
        ELSE /\ Goto(p, [pc |-> "insert", kind |-> kind, scope |-> scope,
                         panel |-> IF kind = "verify" THEN LatestPanel ELSE None])
             /\ UNCHANGED card
  /\ UNCHANGED <<round, finding, slot, scenario>>

InsertRound(p) ==
  /\ In(p, "insert") /\ Cardinality(Ids \ Unused) < scenario.rounds
  /\ LET k == CHOOSE j \in Unused : \A i \in Unused : j <= i
     IN /\ round' = [round EXCEPT ![k] =
              [NoRound EXCEPT !.status = "open", !.kind = at[p].kind,
                              !.panel = at[p].panel, !.scope = at[p].scope,
                              !.seats = Reviewers]]
        /\ Goto(p, [pc |-> "seat", k |-> k])
  /\ card' = [card EXCEPT !.rounds = @ + (IF at[p].kind = "panel" THEN 1 ELSE 0)]
  /\ UNCHANGED <<finding, slot, scenario>>

\* One slot comment and its panel_review run per reviewer, one at a time.
SeatReviewer(p) ==
  /\ In(p, "seat")
  /\ LET k == at[p].k
         missing == round[k].seats \ Seated(k)
     IN \E r \in missing :
          /\ slot' = [slot EXCEPT ![k][r] =
               [NoSlot EXCEPT !.attempt = 1, !.run = "queued"]]
          /\ IF missing = {r} THEN Rest(p) ELSE UNCHANGED at
  /\ UNCHANGED <<card, round, finding, scenario>>

-----------------------------------------------------------------------------
(* A reviewer's slot. *)

\* The worker claims a slot run of a card in review; reviewPanelSlot drops the
\* run of a closed round or of a slot already answered.
TakeSlot(r) ==
  /\ In(r, "idle") /\ card.status = "in_review"
  /\ \E k \in Ids :
       /\ slot[k][r].run = "queued"
       /\ IF round[k].status # "open" \/ slot[k][r].done
          THEN slot' = [slot EXCEPT ![k][r].run = "ended"] /\ UNCHANGED at
          ELSE /\ slot' = [slot EXCEPT ![k][r].run = "running"]
               /\ Goto(r, [pc |-> "call", k |-> k])
  /\ UNCHANGED <<card, round, finding, scenario>>

\* What a reviewer may say: in a panel a verdict with at most one finding, which
\* must be there unless the verdict approves; in a verify round, for each
\* finding in its scope, verified, still open, or nothing.
PanelAnswers ==
  {a \in [verdict : Verdicts, issue : Issues \cup {None}, reassign : BOOLEAN] :
     /\ a.verdict # "approved" => a.issue # None
     /\ a.reassign => a.issue \in Blocking /\ "reassign" \in scenario.faults}
Checks(k) == {{<<f, c[f]>> : f \in DOMAIN c} :
               c \in UNION {[S -> {"verified", "still_open"}] :
                              S \in (SUBSET round[k].scope) \ {{}}}}

\* requeueSlot: a failed call or an answer that is not accepted.
RequeueSlot(r) ==
  /\ In(r, "call") /\ "answer" \in scenario.faults
  /\ LET k == at[r].k
     IN /\ slot[k][r].run = "running"
        /\ IF slot[k][r].attempt < MaxAttempts
           THEN /\ slot' = [slot EXCEPT ![k][r].attempt = @ + 1,
                                        ![k][r].run = "queued"]
                /\ Rest(r)
           ELSE /\ slot' = [slot EXCEPT ![k][r].done = TRUE,
                                        ![k][r].failed = TRUE,
                                        ![k][r].run = "ended"]
                /\ Goto(r, [pc |-> "try", k |-> k])
  /\ UNCHANGED <<card, round, finding, scenario>>

\* The call returned.  Unless the run was ended meanwhile, submitSlot reads the
\* round, and with it everybody's answers so far ...
AnswerSlot(r) ==
  /\ In(r, "call")
  /\ LET k == at[r].k
         reading(a) == [pc |-> "write", k |-> k, answer |-> a,
                        verdicts |-> round[k].verdicts, checks |-> round[k].checks]
     IN IF slot[k][r].run # "running" THEN Rest(r) /\ UNCHANGED slot
        ELSE IF round[k].status # "open"
        THEN Rest(r) /\ slot' = [slot EXCEPT ![k][r].run = "ended"]
        ELSE /\ \E a \in IF round[k].kind = "panel" THEN PanelAnswers ELSE Checks(k) :
                  Goto(r, reading(a))
             /\ UNCHANGED slot
  /\ UNCHANGED <<card, round, finding, scenario>>

\* ... and writes them back with its own added.  The status is not looked at;
\* answers written to a closed round are kept but read by nobody.
Submitted(r) ==
  LET k == at[r].k
      a == at[r].answer
  IN /\ finding' = IF round[k].kind = "verify" THEN finding
                   ELSE [finding EXCEPT ![k][r] =
                     IF a.issue = None THEN NoFinding
                     ELSE [NoFinding EXCEPT !.issue = a.issue, !.reassign = a.reassign]]
     /\ IF round[k].status # "open" THEN UNCHANGED <<round, slot>>
        ELSE /\ round' = IF round[k].kind = "panel"
               THEN [round EXCEPT ![k].verdicts = [at[r].verdicts EXCEPT ![r] = a.verdict]]
               ELSE [round EXCEPT ![k].checks = [at[r].checks EXCEPT ![r] = a]]
             /\ slot' = [slot EXCEPT ![k][r] =
                  [StopRun(@) EXCEPT !.done = TRUE,
                     !.said = IF round[k].kind = "panel" THEN a.verdict ELSE @]]

SubmitSlot(r) ==
  /\ In(r, "write")
  /\ Submitted(r)
  /\ Goto(r, [pc |-> "try", k |-> at[r].k])
  /\ UNCHANGED <<card, scenario>>

-----------------------------------------------------------------------------
(* tryCloseRound: read the slots, claim the round, decide, apply. *)

Answered(k) == {r \in Seated(k) : /\ slot[k][r].done
                                  /\ scenario.collaboration => ~slot[k][r].failed}
Missing(k) == {r \in Seated(k) : ~slot[k][r].done \/ slot[k][r].failed}
Viable(k) == {r \in Missing(k) \ Unavailable : slot[k][r].run \in Active}

\* What a closer does after reading round k: claim it, or leave it open.
ClosingStep(k) ==
  LET done == Answered(k)
      early == ~round[k].expired /\ Cardinality(done) < Cardinality(Seated(k))
      waits == scenario.collaboration /\ Viable(k) # {}
      short == IF scenario.collaboration THEN Missing(k) \cap Unavailable ELSE {}
  IN IF round[k].status # "open" \/ early \/ waits THEN Idle
     ELSE [pc |-> "claim", k |-> k, answered |-> done, seats |-> round[k].seats \ short,
           lost |-> scenario.collaboration /\ Missing(k) \ Unavailable # {}]

TryClose(r) ==
  /\ In(r, "try")
  /\ Goto(r, ClosingStep(at[r].k))
  /\ UNCHANGED <<card, round, finding, slot, scenario>>

\* The answers leave with the closer; from now on nobody reads them in the row.
Closed(row) == [row EXCEPT !.status = "closed", !.expired = FALSE,
                           !.verdicts = NoRound.verdicts, !.checks = NoRound.checks]

\* Mutant of ClaimRound: the update does not ask for an open round.
ClaimAnyway(p) ==
  /\ In(p, "claim")
  /\ LET k == at[p].k
     IN /\ round' = [round EXCEPT ![k] = Closed([@ EXCEPT !.seats = at[p].seats])]
        /\ slot' = [slot EXCEPT ![k] = [r \in Reviewers |-> StopRun(@[r])]]
        /\ Goto(p, [pc |-> "decide", k |-> k, answered |-> at[p].answered,
                    lost |-> at[p].lost, verdicts |-> round[k].verdicts,
                    checks |-> round[k].checks])
  /\ UNCHANGED <<card, finding, scenario>>

\* The conditional update that lets one closer through; the runs of absent
\* reviewers end with it.
ClaimRound(p) ==
  /\ In(p, "claim")
  /\ LET k == at[p].k
     IN IF round[k].status # "open"
        THEN Rest(p) /\ UNCHANGED <<round, slot>>
        ELSE /\ round' = [round EXCEPT ![k] = Closed([@ EXCEPT !.seats = at[p].seats])]
             /\ slot' = [slot EXCEPT ![k] = [r \in Reviewers |-> StopRun(@[r])]]
             /\ Goto(p, [pc |-> "decide", k |-> k, answered |-> at[p].answered,
                         lost |-> at[p].lost, verdicts |-> round[k].verdicts,
                         checks |-> round[k].checks])
  /\ UNCHANGED <<card, finding, scenario>>

\* mergeFindings: of the reviewers who raised the same issue one stays primary.
Merges(k) == {keep \in SUBSET Filers(k) :
  /\ \A r, s \in keep : finding[k][r].issue = finding[k][s].issue => r = s
  /\ \A r \in Filers(k) : \E s \in keep : finding[k][r].issue = finding[k][s].issue}

\* roundDecision over the answers that count.
PanelDecision(k, keep, verdicts) ==
  IF /\ verdicts # {} /\ verdicts = {"approved"}
     /\ ~\E r \in keep : finding[k][r].issue \in Blocking /\ FindingIsOpen(finding[k][r])
  THEN "approved" ELSE "revision_requested"

\* verificationDecision: what stays open after the round.
StillOpen(k, entries) ==
  {f \in round[k].scope :
     \/ <<f, "still_open">> \in entries
     \/ /\ finding[round[k].panel][f].disposition = "adopted"
        /\ <<f, "verified">> \notin entries}

Unanswered(me) == me.lost \/ me.answered = {}

\* applyRoundDecision reads the card again; a card that left review stays put.
Apply(p, k, d) ==
  Goto(p, IF card.status # "in_review" THEN Idle
          ELSE [pc |-> "move", k |-> k, decision |-> d, view |-> View(card)])

ClosePanel(p) ==
  LET me == at[p]
      k == me.k
      said == {me.verdicts[r] : r \in me.answered} \ {None}
  IN /\ In(p, "decide") /\ round[k].kind = "panel"
     /\ \E keep \in Merges(k) :
          LET d == IF Unanswered(me) THEN "unavailable" ELSE PanelDecision(k, keep, said)
          IN /\ finding' = [finding EXCEPT ![k] = [r \in Reviewers |->
                  IF r \in Filers(k) \ keep
                  THEN [@[r] EXCEPT !.disposition = "merged", !.verification = "verified"]
                  ELSE @[r]]]
             /\ round' = [round EXCEPT ![k].decision = d]
             /\ Apply(p, k, d)
     /\ slot' = Forgotten(k)
     /\ UNCHANGED <<card, scenario>>

CloseVerify(p) ==
  LET me == at[p]
      k == me.k
      entries == UNION {me.checks[r] : r \in me.answered}
      open == StillOpen(k, entries)
      d == IF Unanswered(me) THEN "unavailable"
           ELSE IF open = {} THEN "approved" ELSE "revision_requested"
  IN /\ In(p, "decide") /\ round[k].kind = "verify"
     /\ round' = [round EXCEPT ![k].decision = d]
     /\ finding' = IF d = "unavailable" THEN finding
                   ELSE [finding EXCEPT ![round[k].panel] = [f \in Reviewers |->
                     IF f \in round[k].scope
                     THEN [@[f] EXCEPT !.verification =
                             IF f \in open THEN "still_open" ELSE "verified"]
                     ELSE @[f]]]
     /\ Apply(p, k, d)
     /\ slot' = Forgotten(k)
     /\ UNCHANGED <<card, scenario>>

\* approveAfterRound.  Waiting for children is written by the card's id alone;
\* finishing and parking for a merge need the row that was read.
ApproveCard(view) ==
  IF scenario.client THEN {Gated(card)}
  ELSE IF StillCurrent(view)
       THEN {[card EXCEPT !.status = s] : s \in {"done"} \cup (Parked \ {"in_progress"})}
       ELSE {card}
WaitForChildren(c) ==
  {[c EXCEPT !.status = s, !.gate = FALSE] : s \in Parked \cap {"in_progress"}}

\* takeoverTrigger without an escalation: the revisions of this level are used
\* up, or every reviewer raised the same P0 for reassignment.
Panel(k) == IF round[k].kind = "panel" THEN k ELSE round[k].panel
Reassigned(k) ==
  \E i \in Blocking : \A r \in round[k].seats :
    finding[Panel(k)][r].issue = i /\ finding[Panel(k)][r].reassign
\* Mutant of TakeoverTriggered: one revision more than the level has.
LateTakeover(view, k) ==
  \/ MaxRevisions > 0 /\ view.revisions > MaxRevisions
  \/ Reassigned(k)

TakeoverTriggered(view, k) ==
  \/ MaxRevisions > 0 /\ view.revisions >= MaxRevisions
  \/ Reassigned(k)

\* Mutant of Rejected: the revision is not counted.
RejectedUncounted(view) == [card EXCEPT !.status = "todo", !.gate = FALSE]

\* rejectAfterRound names the card by its id and counts from the row it read.
Rejected(view) ==
  [card EXCEPT !.status = "todo", !.revisions = view.revisions + 1, !.gate = FALSE]

MoveDecided(p) ==
  LET me == at[p]
  IN /\ In(p, "move")
     /\ \/ me.decision = "unavailable" /\ card' = RouteUnavailable(card)
        \/ me.decision = "approved"
           /\ card' \in ApproveCard(me.view) \cup WaitForChildren(card)
        \/ /\ me.decision = "revision_requested"
           /\ card' = IF TakeoverTriggered(me.view, me.k) THEN TakenOver(me.view)
                      ELSE Rejected(me.view)
     /\ Rest(p)
     /\ UNCHANGED <<round, finding, slot, scenario>>

Expire(k) ==
  /\ "timeout" \in scenario.faults
  /\ round[k].status = "open" /\ ~round[k].expired
  /\ round' = [round EXCEPT ![k].expired = TRUE]
  /\ UNCHANGED <<card, finding, slot, at, scenario>>

-----------------------------------------------------------------------------
(* The cron tick: sweepReviewRounds, then the scan for cards in review. *)

SweepRound ==
  /\ In("sweep", "idle")
  /\ \E k \in Open :
       Goto("sweep", IF card.status # "in_review" THEN [pc |-> "cancel", k |-> k]
                     ELSE ClosingStep(k))
  /\ UNCHANGED <<card, round, finding, slot, scenario>>

\* cancelRound: the card left review by other means.
CancelRound ==
  /\ In("sweep", "cancel")
  /\ LET k == at["sweep"].k
     IN IF round[k].status # "open" THEN UNCHANGED <<round, slot>>
        ELSE /\ round' = [round EXCEPT ![k] = [Closed(@) EXCEPT !.decision = "cancelled"]]
             /\ slot' = Forgotten(k)
  /\ Rest("sweep")
  /\ UNCHANGED <<card, finding, scenario>>

\* Who has committed a step of the review and not yet its next one.
Between == {p \in Procs : at[p].pc \in
              {"dispose", "takeover", "open", "insert", "decide", "move"}}

\* Mutant of ScanReview: a card with a review round behind it is passed over.
ScanUnreviewed ==
  /\ In("sweep", "idle") /\ card.single = "none"
  /\ \/ card.status = "needs_review"
     \/ card.status = "in_review" /\ card.rounds = 0 /\ ~card.gate
  /\ Goto("sweep", [pc |-> "enqueue"])
  /\ UNCHANGED <<card, round, finding, slot, scenario>>

\* Cards an open round reviews or a human gate holds are left alone.
ScanReview ==
  /\ In("sweep", "idle") /\ card.single = "none"
  /\ \/ card.status = "needs_review"
     \/ card.status = "in_review" /\ ~HasOpenRound /\ ~card.gate
  /\ \/ Between = {} /\ UNCHANGED scenario
     \/ /\ Between # {} /\ scenario.ticks > 0
        /\ scenario' = [scenario EXCEPT !.ticks = @ - 1]
  /\ Goto("sweep", [pc |-> "enqueue"])
  /\ UNCHANGED <<card, round, finding, slot>>

-----------------------------------------------------------------------------
(* The single review: reviewCard. *)

StartSingle ==
  /\ In("single", "idle") /\ card.single = "queued"
  /\ card.status \in {"in_review", "needs_review"}
  /\ IF card.rounds > 0 /\ card.status = "in_review" /\ HasOpenRound
     THEN card' = [card EXCEPT !.single = "none"] /\ UNCHANGED at
     ELSE /\ card' = [card EXCEPT !.single = "running"]
          /\ Goto("single", [pc |-> "judge", view |-> View(card)])
  /\ UNCHANGED <<round, finding, slot, scenario>>

\* A verdict is written only while the row read before the call, and the run,
\* are still current.  Otherwise the run ends and the card is left alone.
\* Bound: the reviewer has one manager to escalate to.
SingleEnded(c) == [c EXCEPT !.single = IF @ = "running" THEN "none" ELSE @]
Judged(view) ==
  LET ended == [card EXCEPT !.single = "none", !.failures = 0]
  IN IF ~(StillCurrent(view) /\ card.single = "running")
     THEN {SingleEnded(card)}
     ELSE {[ended EXCEPT !.status = "todo"],
           IF card.status = "in_review"
           THEN [ended EXCEPT !.status = "needs_review", !.single = "queued"]
           ELSE [ended EXCEPT !.status = "blocked"]}
          \cup {[ended EXCEPT !.status = s] : s \in Parked}
          \cup IF scenario.client
               THEN {[ended EXCEPT !.status = "in_review", !.gate = TRUE]}
               ELSE {[ended EXCEPT !.status = "done"]}

JudgeSingle ==
  /\ In("single", "judge")
  /\ card' \in Judged(at["single"].view)
  /\ Rest("single")
  /\ UNCHANGED <<round, finding, slot, scenario>>

\* completeRetryableRun of a failed call: the streak of the card grows, and at
\* the limit the card is blocked.  A gate or a settled card is not written to.
FailSingle ==
  /\ In("single", "judge") /\ "answer" \in scenario.faults
  /\ card' = IF \/ card.single # "running" \/ card.gate
                \/ card.status = "cancelled"
             THEN SingleEnded(card)
             ELSE [card EXCEPT !.single = "none", !.failures = @ + 1,
                     !.status = IF card.failures + 1 >= FailureLimit /\ @ # "done"
                                THEN "blocked" ELSE @]
  /\ Rest("single")
  /\ UNCHANGED <<round, finding, slot, scenario>>

-----------------------------------------------------------------------------
(* Operators, the client, and restarts. *)

Command == /\ scenario.commands > 0
           /\ scenario' = [scenario EXCEPT !.commands = @ - 1]

\* POST /api/cards/:id/review-rounds
ForceRound ==
  /\ Command /\ In("operator", "idle")
  /\ card.status = "in_review" /\ ~HasOpenRound
  /\ Goto("operator", [pc |-> "open", kind |-> "panel"])
  /\ UNCHANGED <<card, round, finding, slot>>

\* POST /api/cards/:id/cancel
CancelCard ==
  /\ Command /\ card.status # "cancelled"
  /\ card' = [card EXCEPT !.status = "cancelled", !.single = "none"]
  /\ slot' = [k \in Ids |-> [r \in Reviewers |-> StopRun(slot[k][r])]]
  /\ UNCHANGED <<round, finding, at>>

\* PUT /api/approvals/:id reads the card, then consumes the approval and moves
\* the card if nothing changed meanwhile.
OpenApproval ==
  /\ Command /\ In("human", "idle") /\ card.gate
  /\ Goto("human", [pc |-> "decide", view |-> View(card)])
  /\ UNCHANGED <<card, round, finding, slot>>

DecideApproval ==
  /\ In("human", "decide")
  /\ LET same == /\ card.status = at["human"].view.status
                 /\ card.level = at["human"].view.level
                 /\ card.status \notin {"done", "cancelled"}
     IN \E s \in {"done", "todo"} :
          card' = [card EXCEPT !.gate = FALSE, !.status = IF same THEN s ELSE @]
  /\ Rest("human")
  /\ UNCHANGED <<round, finding, slot, scenario>>

Restart ==
  /\ scenario.restarts > 0
  /\ In("single", "idle") \/ at["single"].pc \in CrashPoints
  /\ \E p \in Procs : ~In(p, "idle")
  /\ at' = [p \in Procs |-> Idle]
  /\ scenario' = [scenario EXCEPT !.restarts = @ - 1]
  /\ UNCHANGED <<card, round, finding, slot>>

-----------------------------------------------------------------------------
Opening(p) == CheckOpen(p) \/ InsertRound(p) \/ SeatReviewer(p)
Closing(p) ==
  \/ ClaimRound(p) \/ ClosePanel(p) \/ CloseVerify(p)
  \/ MoveDecided(p)
Author ==
  \/ AuthorCompletes \/ RecordFix \/ EscalateFix \/ EnqueueReview("author")
  \/ Opening("author")
Reviewer(r) ==
  \/ TakeSlot(r) \/ AnswerSlot(r) \/ RequeueSlot(r) \/ SubmitSlot(r)
  \/ TryClose(r) \/ Closing(r)
Sweep ==
  \/ SweepRound \/ CancelRound \/ ScanReview \/ EnqueueReview("sweep")
  \/ Closing("sweep")
Single == StartSingle \/ JudgeSingle \/ FailSingle
Human == OpenApproval \/ DecideApproval
Operator == ForceRound \/ CancelCard \/ Opening("operator")

ReviewNext ==
  \/ Author \/ Sweep \/ Single \/ Human \/ Operator \/ Restart
  \/ \E r \in Reviewers : Reviewer(r)
  \/ \E k \in Ids : Expire(k)

\* The worker, the cron tick and the clock go on; a reviewer's call returns or
\* the slot waits for its timeout.  Nobody has to decide an approval.
ReviewFairness ==
  /\ WF_reviewVars(Author) /\ WF_reviewVars(Single)
  /\ WF_reviewVars(Sweep) /\ WF_reviewVars(Opening("operator"))
  /\ \A r \in Reviewers : WF_reviewVars(Reviewer(r))
  /\ \A k \in Ids : WF_reviewVars(Expire(k))

ReviewSpec == ReviewInit /\ [][ReviewNext]_reviewVars /\ ReviewFairness

-----------------------------------------------------------------------------
(* Properties. *)

\* Slot answers, the sweep and a forced close meet at the same round
\* (tryCloseRound, cancelRound): whoever closes it decides it, once.
OneDecision ==
  [][\A k \in Ids :
       /\ round[k].status = "closed" => round'[k].status = "closed"
       /\ round[k].decision # None => round'[k].decision = round[k].decision]_reviewVars

\* While a human gate is pending the card is finished by the decision of that
\* gate and by nothing else, whatever rounds and reviews were under way.
GateHolds ==
  [][card.gate /\ card.status # "done" /\ card'.status = "done" =>
       In("human", "decide") /\ at'["human"] = Idle]_reviewVars

\* Rounds and reviews that decide at the same time never spend more revisions
\* than a fix level has; zero sets no limit.
RevisionBudget == MaxRevisions > 0 => card.revisions <= MaxRevisions

\* Whatever fails, times out or restarts, a card in review is moved on or ends
\* at a human: no review is lost for good.
ReviewEnds ==
  (card.status = "in_review") ~> (card.status # "in_review" \/ card.gate)

\* The loop of panel, fix and verify rounds ends: the levels are climbed and the
\* card is settled or ends at a human.
FixLoopEnds ==
  (scenario.mandatory /\ scenario.commands = 0 /\ card.status = "todo")
    ~> (card.gate \/ card.status \in {"done", "blocked"} \cup Parked)

\* "A panel round passes only when every reviewer who answered approved"
\* (review-panel.ts:179), in whatever order the answers are written.
ApprovalIsUnanimous ==
  [][\A k \in Ids :
       /\ round[k].kind = "panel"
       /\ round[k].decision = None /\ round'[k].decision = "approved"
       => \A r \in Reviewers : slot[k][r].said # "revision_requested"]_reviewVars
=============================================================================
