------------------------- MODULE ReviewRoundsProofs -------------------------
(***************************************************************************)
(* Theorems about ReviewRounds for every number of reviewers, rounds and   *)
(* revisions: a round is closed and decided once, a pending human gate is  *)
(* passed by nobody but the human, and a fix level never spends more       *)
(* revisions than it has.  They hold of every step; the fairness of        *)
(* ReviewSpec is not used.                                                 *)
(*                                                                         *)
(* What makes the decision of a round unique is who may take it: the       *)
(* conditional update of ClaimRound hands an open round to one process,    *)
(* and Deciders says that this process, and it alone, holds the round      *)
(* until the decision is written.                                          *)
(***************************************************************************)
EXTENDS ReviewRounds, TLAPS, FiniteSetTheorems, WellFoundedInduction

-----------------------------------------------------------------------------
(* The card and what a process holds. *)

CardRow ==
  [status : {"todo", "in_progress", "in_review", "needs_review", "blocked", "done",
             "cancelled", "waiting_on_external"},
   level : Nat, revisions : Nat, rounds : Nat, gate : BOOLEAN,
   single : {"none", "queued", "running"}, failures : Nat]

\* A row of review_rounds has the columns the proofs are about.
Shaped(row) == {"status", "decision", "kind", "seats", "expired", "verdicts", "checks"} \subseteq DOMAIN row

\* Who closes rounds; the human decides approvals under the same name.
Closers == Procs \ {"human"}

\* What a process has read by the time it is at a statement.
Sound(o) ==
  /\ o.pc \in {"call", "write", "try", "claim"} => o.k \in Ids
  /\ o.pc \in {"dispose", "takeover", "move"} => o.view.level \in Nat /\ o.view.revisions \in Nat

ReviewRows ==
  /\ card \in CardRow
  /\ round = [k \in Ids |-> round[k]] /\ \A k \in Ids : Shaped(round[k])
  /\ at = [p \in Procs |-> at[p]] /\ \A p \in Procs : Sound(at[p])
  /\ scenario \in ScenarioOf

\* Only a closed round has a decision.
Undecided == \A k \in Ids : round[k].status # "closed" => round[k].decision = None

\* Who decides a round has closed it, and nobody else decides it.
Deciders ==
  \A p \in Closers : at[p].pc = "decide" =>
    /\ at[p].k \in Ids /\ round[at[p].k].status = "closed" /\ round[at[p].k].decision = None
    /\ \A q \in Closers \ {p} : at[q].pc = "decide" => at[q].k # at[p].k

ReviewInv == ReviewRows /\ Undecided /\ Deciders /\ RevisionBudget

-----------------------------------------------------------------------------
(* What a step may do. *)

\* The card spends a revision only where one is left, and a gated card is not
\* finished.
CardMoves ==
  /\ card' \in CardRow
  /\ RevisionBudget => RevisionBudget'
  /\ card.gate /\ card.status # "done" => card'.status # "done"

\* Processes hold what they have read; nobody starts to decide a round.
LocalsMove ==
  /\ at' = [p \in Procs |-> at'[p]] /\ \A p \in Procs : Sound(at'[p])
  /\ \A p \in Closers : at'[p].pc = "decide" => at'[p] = at[p]

\* No round is opened, closed or decided.
RoundsStay ==
  /\ round' = [k \in Ids |-> round'[k]]
  /\ \A k \in Ids : /\ Shaped(round'[k])
                    /\ round'[k].status = round[k].status
                    /\ round'[k].decision = round[k].decision

\* One round changes: its status and decision are from and to.
RoundMoves(k, from, to) ==
  /\ k \in Ids
  /\ round' = [j \in Ids |-> round'[j]] /\ \A j \in Ids : Shaped(round'[j])
  /\ round[k].status = from
  /\ round'[k].status = to.status /\ round'[k].decision = to.decision
  /\ \A j \in Ids \ {k} : round'[j] = round[j]

Opened == \E k \in Ids : RoundMoves(k, "absent", [status |-> "open", decision |-> None])
Cancelled == \E k \in Ids : RoundMoves(k, "open", [status |-> "closed", decision |-> "cancelled"])

\* A closer takes the round it read open, and its answers with it.
Claimed(p) ==
  /\ p \in Closers /\ at[p].pc = "claim"
  /\ RoundMoves(at[p].k, "open", [status |-> "closed", decision |-> round[at[p].k].decision])
  /\ at'[p].pc = "decide" /\ at'[p].k = at[p].k
  /\ \A q \in Procs \ {p} : at'[q] = at[q]

\* The closer of a round decides it.
Decided(p) ==
  /\ p \in Closers /\ at[p].pc = "decide" /\ at'[p].pc # "decide"
  /\ \A q \in Procs \ {p} : at'[q] = at[q]
  /\ \E d : RoundMoves(at[p].k, round[at[p].k].status,
                       [status |-> round[at[p].k].status, decision |-> d])

StepKind ==
  /\ card' \in CardRow /\ (RevisionBudget => RevisionBudget') /\ scenario' \in ScenarioOf
  /\ at' = [p \in Procs |-> at'[p]] /\ \A p \in Procs : Sound(at'[p])
  /\ \/ card.gate /\ card.status # "done" => card'.status # "done"
     \/ In("human", "decide") /\ at'["human"] = Idle
  /\ \/ LocalsMove /\ (RoundsStay \/ Opened \/ Cancelled)
     \/ \E p \in Procs : Claimed(p) \/ Decided(p)

-----------------------------------------------------------------------------
(* Rows, processes and numbers. *)

\* The processes are told apart.
LEMMA Processes ==
  /\ \A r \in Reviewers : r \in Closers
  /\ {"author", "operator", "sweep", "single"} \subseteq Closers
  /\ "human" \in Procs /\ Closers \subseteq Procs
BY ReviewAssumption DEF Closers, Procs

\* The bounds are numbers.
LEMMA Bounds == MaxRounds \in Nat /\ MaxRevisions \in Nat /\ Ids \subseteq Nat
BY ReviewAssumption DEF Ids

LessThan == {p \in Nat \X Nat : p[1] < p[2]}

\* The order of the numbers is well founded.
LEMMA LessThanWellFounded == IsWellFoundedOn(LessThan, Nat)
<1>1. OpToRel(<, Nat) = LessThan
  BY DEF OpToRel, LessThan
<1> QED
  BY <1>1, NatLessThanWellFounded

\* The row a new round takes is one of those that are left.
LEMMA FirstIsMember ==
  ASSUME NEW S \in SUBSET Nat, S # {}
  PROVE  (CHOOSE j \in S : \A i \in S : j <= i) \in S
<1>1. PICK x \in S : \A y \in S : ~(<<y, x>> \in LessThan)
  BY LessThanWellFounded, WFMin
<1>2. ASSUME NEW y \in S, ~(x <= y) PROVE FALSE
  <2>1. y \in Nat /\ x \in Nat /\ y < x
    BY <1>2
  <2>2. <<y, x>> \in Nat \X Nat /\ <<y, x>>[1] < <<y, x>>[2]
    BY <2>1
  <2>3. <<y, x>> \in LessThan
    BY <2>2, Zenon DEF LessThan
  <2> QED
    BY <1>1, <2>3
<1> QED
  BY <1>2

\* A process goes to another statement.
LEMMA GotoMoves ==
  ASSUME ReviewRows, NEW p \in Procs, NEW rec, Goto(p, rec), Sound(rec)
  PROVE  /\ at' = [q \in Procs |-> at'[q]] /\ \A q \in Procs : Sound(at'[q])
         /\ at'[p] = rec /\ \A q \in Procs \ {p} : at'[q] = at[q]
<1>1. /\ at' = [q \in Procs |-> at'[q]]
      /\ at'[p] = rec /\ \A q \in Procs \ {p} : at'[q] = at[q]
  BY DEF ReviewRows, Goto
<1> QED
  BY <1>1 DEF ReviewRows

\* A process goes to a statement where it decides no round.
LEMMA LocalsGo ==
  ASSUME ReviewRows, NEW p \in Procs, NEW rec, Goto(p, rec), Sound(rec),
         rec.pc # "decide" \/ p = "human"
  PROVE  LocalsMove
<1>1. /\ at' = [q \in Procs |-> at'[q]] /\ \A q \in Procs : Sound(at'[q])
      /\ at'[p] = rec /\ \A q \in Procs \ {p} : at'[q] = at[q]
  BY GotoMoves
<1> QED
  BY <1>1 DEF LocalsMove, Closers

\* A process that holds nothing.
LEMMA IdleIsSound == Sound(Idle) /\ Idle.pc = "idle"
BY DEF Idle, Sound

\* A process ends what it was doing.
LEMMA LocalsRest ==
  ASSUME ReviewRows, NEW p \in Procs, Rest(p)
  PROVE  LocalsMove /\ at'[p] = Idle
<1>1. Goto(p, Idle)
  BY DEF Rest
<1>2. LocalsMove
  BY <1>1, IdleIsSound, LocalsGo
<1>3. at'[p] = Idle
  BY <1>1, IdleIsSound, GotoMoves
<1> QED
  BY <1>2, <1>3

\* No process moves, or none touches the rounds.
LEMMA Stays ==
  ASSUME ReviewRows
  PROVE  /\ UNCHANGED at => LocalsMove
         /\ UNCHANGED round => RoundsStay
         /\ UNCHANGED card => CardMoves
<1>1. ASSUME UNCHANGED at PROVE LocalsMove
  BY <1>1 DEF ReviewRows, LocalsMove
<1>2. ASSUME UNCHANGED round PROVE RoundsStay
  BY <1>2 DEF ReviewRows, RoundsStay
<1>3. ASSUME UNCHANGED card PROVE CardMoves
  BY <1>3 DEF ReviewRows, CardMoves, RevisionBudget
<1> QED
  BY <1>1, <1>2, <1>3

\* A row of one round is written.
LEMMA RoundUpdate ==
  ASSUME ReviewRows, NEW k, NEW row, k \in Ids => Shaped(row), round' = [round EXCEPT ![k] = row]
  PROVE  /\ round' = [j \in Ids |-> round'[j]] /\ \A j \in Ids : Shaped(round'[j])
         /\ k \in Ids => round'[k] = row
         /\ \A j \in Ids \ {k} : round'[j] = round[j]
<1>1. /\ round' = [j \in Ids |-> round'[j]]
      /\ k \in Ids => round'[k] = row
      /\ \A j \in Ids \ {k} : round'[j] = round[j]
  BY DEF ReviewRows
<1> QED
  BY <1>1 DEF ReviewRows

\* The columns of a row that is written.
LEMMA RowColumns ==
  /\ Shaped(NoRound) /\ NoRound.status = "absent" /\ NoRound.decision = None
  /\ \A row, d : Shaped(row) =>
       LET new == [row EXCEPT !.decision = d] IN
       Shaped(new) /\ new.status = row.status /\ new.decision = d
  /\ \A row, s : Shaped(row) =>
       LET new == [row EXCEPT !.seats = s] IN
       Shaped(new) /\ new.status = row.status /\ new.decision = row.decision
  /\ \A row : Shaped(row) =>
       Shaped(Closed(row)) /\ Closed(row).status = "closed" /\ Closed(row).decision = row.decision
<1>1. Shaped(NoRound) /\ NoRound.status = "absent" /\ NoRound.decision = None
  BY DEF Shaped, NoRound
<1>2. ASSUME NEW row, NEW d, Shaped(row)
      PROVE  LET new == [row EXCEPT !.decision = d] IN
             Shaped(new) /\ new.status = row.status /\ new.decision = d
  BY <1>2 DEF Shaped
<1>3. ASSUME NEW row, NEW s, Shaped(row)
      PROVE  LET new == [row EXCEPT !.seats = s] IN
             Shaped(new) /\ new.status = row.status /\ new.decision = row.decision
  BY <1>3 DEF Shaped
<1>4. ASSUME NEW row, Shaped(row)
      PROVE  Shaped(Closed(row)) /\ Closed(row).status = "closed" /\ Closed(row).decision = row.decision
  BY <1>4 DEF Shaped, Closed
<1> QED
  BY <1>1, <1>2, <1>3, <1>4

-----------------------------------------------------------------------------
(* What the actions make of the card. *)

\* A card that is not finished and spends no revision moves as it may.
LEMMA SafeCard ==
  ASSUME card \in CardRow, card' \in CardRow,
         card'.status # "done" \/ card'.status = card.status,
         card'.revisions = card.revisions \/ card'.revisions = 0
  PROVE  CardMoves
BY Bounds DEF CardMoves, RevisionBudget

\* Gates, queued reviews and takeovers neither finish a card nor spend a revision.
LEMMA CardValues ==
  ASSUME card \in CardRow, NEW view, view.level \in Nat
  PROVE  \A c \in {card, SingleQueued(card), Gated(card), RouteUnavailable(card), TakenOver(view),
                   SingleEnded(card)} :
           /\ c \in CardRow
           /\ c.status # "done" \/ c.status = card.status
           /\ c.revisions = card.revisions \/ c.revisions = 0
<1> DEFINE fine(c) == /\ c \in CardRow
                      /\ c.status # "done" \/ c.status = card.status
                      /\ c.revisions = card.revisions \/ c.revisions = 0
<1>1. fine(card) /\ fine(SingleQueued(card)) /\ fine(SingleEnded(card))
  BY DEF CardRow, SingleQueued, SingleEnded
<1>2. fine(Gated(card))
  <2>1. (card.gate \/ card.status \notin {"done", "cancelled"}) \in BOOLEAN
    BY DEF CardRow
  <2>2. Gated(card) = [card EXCEPT !.gate = (card.gate \/ card.status \notin {"done", "cancelled"})]
    BY DEF Gated
  <2> QED
    BY <2>1, <2>2 DEF CardRow
<1>3. fine(RouteUnavailable(card))
  BY <1>1, <1>2 DEF RouteUnavailable
<1>4. fine(TakenOver(view))
  <2>1. CASE view.level < scenario.levels
    <3>1. view.level + 1 \in Nat /\ FALSE \in BOOLEAN /\ 0 \in Nat
      OBVIOUS
    <3>2. TakenOver(view) = [card EXCEPT !.status = "todo", !.level = view.level + 1,
                                         !.revisions = 0, !.gate = FALSE]
      BY <2>1 DEF TakenOver
    <3> QED
      BY <3>1, <3>2 DEF CardRow
  <2>2. CASE ~(view.level < scenario.levels)
    BY <1>2, <2>2 DEF TakenOver
  <2> QED
    BY <2>1, <2>2
<1> QED
  BY <1>1, <1>2, <1>3, <1>4

\* Such a value is written.
LEMMA CardWritten ==
  ASSUME ReviewRows, NEW view, view.level \in Nat,
         card' \in {card, SingleQueued(card), Gated(card), RouteUnavailable(card), TakenOver(view),
                    SingleEnded(card)}
  PROVE  CardMoves
BY CardValues, SafeCard DEF ReviewRows

\* A single review is queued, or a gate is opened.
LEMMA CardQueued ==
  ASSUME ReviewRows,
         card' \in {card, SingleQueued(card), Gated(card), RouteUnavailable(card), SingleEnded(card)}
  PROVE  CardMoves
<1> DEFINE view == [level |-> 0]
<1>1. view.level \in Nat
  OBVIOUS
<1> HIDE DEF view
<1> QED
  BY <1>1, CardWritten

\* The kind of a step is put together.
LEMMA Ordinarily ==
  ASSUME CardMoves, LocalsMove, RoundsStay \/ Opened \/ Cancelled, scenario' \in ScenarioOf
  PROVE  StepKind
BY DEF StepKind, CardMoves, LocalsMove

\* What a process reads of the card.
LEMMA ViewIsSound ==
  ASSUME ReviewRows, NEW c \in CardRow
  PROVE  View(c).level \in Nat /\ View(c).revisions \in Nat
BY DEF View, CardRow

-----------------------------------------------------------------------------
(* The author, the opening of a round and its seats. *)

\* The author reports completion.
LEMMA AuthorCompletesStep ==
  ASSUME ReviewRows, AuthorCompletes
  PROVE  StepKind
<1>1. "author" \in Procs
  BY Processes
<1>2. card' = [card EXCEPT !.status = "in_review"] /\ UNCHANGED <<round, scenario>>
  BY DEF AuthorCompletes
<1>3. card' \in CardRow /\ card'.status = "in_review" /\ card'.revisions = card.revisions
  BY <1>2 DEF ReviewRows, CardRow
<1>4. CardMoves
  BY <1>3, SafeCard DEF ReviewRows
<1>5. LocalsMove
  <2> DEFINE view == View([card EXCEPT !.status = "in_review"])
  <2>1. view.level \in Nat /\ view.revisions \in Nat
    BY <1>2, <1>3, ViewIsSound
  <2> HIDE DEF view
  <2>2. ASSUME NEW rec, Goto("author", rec),
               \/ \E fix : \E pc \in {"dispose", "takeover"} : rec = [pc |-> pc, k |-> fix, view |-> view]
               \/ rec = [pc |-> "open", kind |-> "panel"]
               \/ rec = [pc |-> "enqueue"]
        PROVE  LocalsMove
    <3>1. Sound(rec) /\ rec.pc # "decide"
      BY <2>1, <2>2 DEF Sound
    <3> QED
      BY <1>1, <2>2, <3>1, LocalsGo
  <2>3. \/ \E fix : \E pc \in {"dispose", "takeover"} :
             Goto("author", [pc |-> pc, k |-> fix, view |-> view])
        \/ Goto("author", [pc |-> "open", kind |-> "panel"])
        \/ Goto("author", [pc |-> "enqueue"])
    BY DEF AuthorCompletes, view
  <2> QED
    BY <2>2, <2>3
<1> QED
  BY <1>2, <1>4, <1>5, Stays, Ordinarily DEF ReviewRows

\* The author answers the findings, or its boss takes over, or a single review
\* is queued.
LEMMA AuthorSteps ==
  ASSUME ReviewRows,
         \/ RecordFix \/ EscalateFix
         \/ \E p \in Closers : EnqueueReview(p)
  PROVE  StepKind
<1>1. "author" \in Procs
  BY Processes
<1>2. CASE RecordFix
  <2>1. LocalsMove
    <3> DEFINE rec == [pc |-> "open", kind |-> "verify"]
    <3>1. Goto("author", rec) /\ Sound(rec) /\ rec.pc # "decide"
      BY <1>2 DEF RecordFix, Sound
    <3> QED
      BY <1>1, <3>1, LocalsGo
  <2> QED
    BY <1>2, <2>1, Stays, Ordinarily DEF RecordFix, ReviewRows
<1>3. CASE EscalateFix
  <2>1. at["author"].view.level \in Nat
    BY <1>1, <1>3 DEF EscalateFix, In, ReviewRows, Sound
  <2>2. CardMoves
    BY <1>3, <2>1, CardWritten DEF EscalateFix
  <2>3. LocalsMove
    BY <1>1, <1>3, LocalsRest DEF EscalateFix
  <2> QED
    BY <1>3, <2>2, <2>3, Stays, Ordinarily DEF EscalateFix, ReviewRows
<1>4. ASSUME NEW p \in Closers, EnqueueReview(p) PROVE StepKind
  <2>1. CardMoves
    BY <1>4, CardQueued DEF EnqueueReview
  <2>2. LocalsMove
    BY <1>4, Processes, LocalsRest DEF EnqueueReview
  <2> QED
    BY <1>4, <2>1, <2>2, Stays, Ordinarily DEF EnqueueReview, ReviewRows
<1> QED
  BY <1>2, <1>3, <1>4

\* A process finds a round open, or nobody to review, or goes on to insert one.
LEMMA CheckOpenStep ==
  ASSUME ReviewRows, NEW p \in Closers, CheckOpen(p)
  PROVE  StepKind
<1>1. p \in Procs /\ UNCHANGED <<round, scenario>>
  BY Processes DEF CheckOpen
<1>2. CASE Rest(p) /\ card' \in {card, SingleQueued(card), RouteUnavailable(card)}
  <2>1. LocalsMove
    BY <1>1, <1>2, LocalsRest
  <2>2. CardMoves
    BY <1>2, CardQueued
  <2> QED
    BY <1>1, <2>1, <2>2, Stays, Ordinarily DEF ReviewRows
<1>3. ASSUME NEW kind, NEW scope, NEW panel, UNCHANGED card,
             Goto(p, [pc |-> "insert", kind |-> kind, scope |-> scope, panel |-> panel])
      PROVE  StepKind
  <2> DEFINE rec == [pc |-> "insert", kind |-> kind, scope |-> scope, panel |-> panel]
  <2>1. Goto(p, rec) /\ Sound(rec) /\ rec.pc # "decide"
    BY <1>3 DEF Sound
  <2>2. LocalsMove
    BY <1>1, <2>1, LocalsGo
  <2> QED
    BY <1>1, <1>3, <2>2, Stays, Ordinarily DEF ReviewRows
<1> QED
  BY <1>2, <1>3 DEF CheckOpen

\* A round that was absent is opened.
LEMMA InsertRoundStep ==
  ASSUME ReviewRows, Undecided, NEW p \in Closers, InsertRound(p)
  PROVE  StepKind
<1>1. p \in Procs /\ UNCHANGED scenario /\ scenario.rounds \in 0 .. MaxRounds
  BY Processes DEF InsertRound, ReviewRows, ScenarioOf
<1> DEFINE first == CHOOSE j \in Unused : \A i \in Unused : j <= i
<1>2. Unused # {}
  <2>1. SUFFICES ASSUME Unused = {} PROVE FALSE
    OBVIOUS
  <2>2. Cardinality(Ids \ Unused) = MaxRounds
    <3>1. Ids \ Unused = 1 .. MaxRounds
      BY <2>1 DEF Ids
    <3>2. Cardinality(1 .. MaxRounds) = MaxRounds
      BY Bounds, FS_Interval
    <3> QED
      BY <3>1, <3>2
  <2> QED
    BY <1>1, <2>2, Bounds DEF InsertRound
<1>3. first \in Unused
  <2>1. Unused \in SUBSET Nat
    BY Bounds DEF Unused
  <2> QED
    BY <1>2, <2>1, FirstIsMember
<1>4. PICK k \in Ids : k = first /\ round[k].status = "absent"
  BY <1>3 DEF Unused
<1>5. PICK row : /\ row = [NoRound EXCEPT !.status = "open", !.kind = at[p].kind,
                                          !.panel = at[p].panel, !.scope = at[p].scope,
                                          !.seats = Reviewers]
                 /\ round' = [round EXCEPT ![k] = row]
  BY <1>4 DEF InsertRound
<1>6. Shaped(row) /\ row.status = "open" /\ row.decision = None
  BY <1>5 DEF Shaped, NoRound
<1>7. Opened
  <2>1. RoundMoves(k, "absent", [status |-> "open", decision |-> None])
    <3>1. round' = [round EXCEPT ![k] = row]
      BY <1>5
    <3>2. /\ round' = [j \in Ids |-> round'[j]] /\ \A j \in Ids : Shaped(round'[j])
          /\ round'[k] = row /\ \A j \in Ids \ {k} : round'[j] = round[j]
      BY <1>6, <3>1, RoundUpdate
    <3> QED
      BY <1>4, <1>6, <3>2 DEF RoundMoves
  <2> QED
    BY <2>1 DEF Opened
<1>8. LocalsMove
  <2> DEFINE rec == [pc |-> "seat", k |-> k]
  <2>1. Goto(p, rec) /\ Sound(rec) /\ rec.pc # "decide"
    BY <1>4 DEF InsertRound, Sound
  <2> QED
    BY <1>1, <2>1, LocalsGo
<1>9. CardMoves
  <2>1. card' \in CardRow /\ card'.status = card.status /\ card'.revisions = card.revisions
    BY DEF InsertRound, ReviewRows, CardRow
  <2> QED
    BY <2>1, SafeCard DEF ReviewRows
<1> QED
  BY <1>1, <1>7, <1>8, <1>9, Ordinarily DEF ReviewRows

\* A reviewer is seated.
LEMMA SeatStep ==
  ASSUME ReviewRows, NEW p \in Closers, SeatReviewer(p)
  PROVE  StepKind
<1>1. p \in Procs /\ UNCHANGED <<card, round, scenario>>
  BY Processes DEF SeatReviewer
<1>2. LocalsMove
  BY <1>1, LocalsRest, Stays DEF SeatReviewer
<1> QED
  BY <1>1, <1>2, Stays, Ordinarily DEF ReviewRows

-----------------------------------------------------------------------------
(* The slots. *)

\* A reviewer takes its slot, is called, fails or is heard.
LEMMA SlotSteps ==
  ASSUME ReviewRows, NEW r \in Reviewers, TakeSlot(r) \/ RequeueSlot(r) \/ AnswerSlot(r)
  PROVE  StepKind
<1>1. r \in Procs /\ UNCHANGED <<card, round, scenario>>
  BY Processes DEF TakeSlot, RequeueSlot, AnswerSlot
<1>2. ASSUME NEW rec, Goto(r, rec), Sound(rec), rec.pc # "decide" PROVE StepKind
  BY <1>1, <1>2, LocalsGo, Stays, Ordinarily DEF ReviewRows
<1>3. CASE UNCHANGED at
  BY <1>1, <1>3, Stays, Ordinarily DEF ReviewRows
<1>4. CASE Rest(r)
  BY <1>1, <1>4, LocalsRest, Stays, Ordinarily DEF ReviewRows
<1>5. CASE TakeSlot(r)
  <2>1. \/ UNCHANGED at
        \/ \E k \in Ids : Goto(r, [pc |-> "call", k |-> k])
    BY <1>5 DEF TakeSlot
  <2>2. ASSUME NEW k \in Ids, Goto(r, [pc |-> "call", k |-> k]) PROVE StepKind
    <3> DEFINE rec == [pc |-> "call", k |-> k]
    <3>1. Goto(r, rec) /\ Sound(rec) /\ rec.pc # "decide"
      BY <2>2 DEF Sound
    <3> QED
      BY <1>2, <3>1
  <2> QED
    BY <1>3, <2>1, <2>2
<1>6. ASSUME In(r, "call") PROVE at[r].k \in Ids
  BY <1>1, <1>6 DEF In, ReviewRows, Sound
<1>7. CASE RequeueSlot(r)
  <2>1. \/ Rest(r)
        \/ Goto(r, [pc |-> "try", k |-> at[r].k])
    BY <1>7 DEF RequeueSlot
  <2>2. CASE Goto(r, [pc |-> "try", k |-> at[r].k])
    <3> DEFINE rec == [pc |-> "try", k |-> at[r].k]
    <3>1. Goto(r, rec) /\ Sound(rec) /\ rec.pc # "decide"
      BY <1>6, <1>7, <2>2 DEF Sound, RequeueSlot
    <3> QED
      BY <1>2, <3>1
  <2> QED
    BY <1>4, <2>1, <2>2
<1>8. CASE AnswerSlot(r)
  <2>1. ASSUME NEW a, Goto(r, [pc |-> "write", k |-> at[r].k, answer |-> a,
                               verdicts |-> round[at[r].k].verdicts, checks |-> round[at[r].k].checks])
        PROVE  StepKind
    <3> DEFINE rec == [pc |-> "write", k |-> at[r].k, answer |-> a,
                       verdicts |-> round[at[r].k].verdicts, checks |-> round[at[r].k].checks]
    <3>1. Goto(r, rec) /\ Sound(rec) /\ rec.pc # "decide"
      BY <1>6, <1>8, <2>1 DEF Sound, AnswerSlot
    <3> QED
      BY <1>2, <3>1
  <2> QED
    BY <1>4, <1>8, <2>1 DEF AnswerSlot
<1> QED
  BY <1>5, <1>7, <1>8

\* An answer is written into its round, which stays as open as it was.
LEMMA SubmitStep ==
  ASSUME ReviewRows, NEW r \in Reviewers, SubmitSlot(r)
  PROVE  StepKind
<1>1. r \in Procs /\ UNCHANGED <<card, scenario>>
  BY Processes DEF SubmitSlot
<1>2. PICK k \in Ids : k = at[r].k
  BY <1>1 DEF SubmitSlot, In, ReviewRows, Sound
<1>3. LocalsMove
  <2> DEFINE rec == [pc |-> "try", k |-> at[r].k]
  <2>1. Goto(r, rec) /\ Sound(rec) /\ rec.pc # "decide"
    BY <1>2 DEF SubmitSlot, Sound
  <2> QED
    BY <1>1, <2>1, LocalsGo
<1>4. RoundsStay
  <2>1. ASSUME NEW row, Shaped(row), row.status = round[k].status,
               row.decision = round[k].decision, round' = [round EXCEPT ![k] = row]
        PROVE  RoundsStay
    BY <2>1, RoundUpdate DEF RoundsStay
  <2>2. \/ UNCHANGED round
        \/ \E v : round' = [round EXCEPT ![k].verdicts = v]
        \/ \E v : round' = [round EXCEPT ![k].checks = v]
    BY <1>2 DEF SubmitSlot, Submitted
  <2>3. ASSUME NEW v, round' = [round EXCEPT ![k].verdicts = v] PROVE RoundsStay
    <3> DEFINE row == [round[k] EXCEPT !.verdicts = v]
    <3>1. Shaped(row) /\ row.status = round[k].status /\ row.decision = round[k].decision
      BY DEF ReviewRows, Shaped
    <3>2. round' = [round EXCEPT ![k] = row]
      BY <2>3
    <3> QED
      BY <2>1, <3>1, <3>2
  <2>4. ASSUME NEW v, round' = [round EXCEPT ![k].checks = v] PROVE RoundsStay
    <3> DEFINE row == [round[k] EXCEPT !.checks = v]
    <3>1. Shaped(row) /\ row.status = round[k].status /\ row.decision = round[k].decision
      BY DEF ReviewRows, Shaped
    <3>2. round' = [round EXCEPT ![k] = row]
      BY <2>4
    <3> QED
      BY <2>1, <3>1, <3>2
  <2> QED
    BY <2>2, <2>3, <2>4, Stays
<1> QED
  BY <1>1, <1>3, <1>4, Stays, Ordinarily DEF ReviewRows

\* The time of a round is up.
LEMMA ExpireStep ==
  ASSUME ReviewRows, NEW k \in Ids, Expire(k)
  PROVE  StepKind
<1> DEFINE row == [round[k] EXCEPT !.expired = TRUE]
<1>1. Shaped(row) /\ row.status = round[k].status /\ row.decision = round[k].decision
  BY DEF ReviewRows, Shaped
<1>2. round' = [round EXCEPT ![k] = row]
  BY DEF Expire
<1> HIDE DEF row
<1>3. RoundsStay
  BY <1>1, <1>2, RoundUpdate DEF RoundsStay
<1> QED
  BY <1>3, Stays, Ordinarily DEF Expire, ReviewRows

-----------------------------------------------------------------------------
(* The end of a round. *)

\* What a closer goes on with.
LEMMA ClosingIsSound ==
  ASSUME NEW k \in Ids
  PROVE  Sound(ClosingStep(k)) /\ ClosingStep(k).pc # "decide"
BY DEF ClosingStep, Sound, Idle

\* A reviewer who has answered, and the sweep, look whether a round is complete.
LEMMA LookSteps ==
  ASSUME ReviewRows, \/ SweepRound
                     \/ \E r \in Reviewers : TryClose(r)
  PROVE  StepKind
<1>1. CASE SweepRound
  <2>1. PICK k \in Ids : Goto("sweep", IF card.status # "in_review" THEN [pc |-> "cancel", k |-> k]
                                       ELSE ClosingStep(k))
    BY <1>1 DEF SweepRound, Open
  <2> DEFINE rec == IF card.status # "in_review" THEN [pc |-> "cancel", k |-> k] ELSE ClosingStep(k)
  <2>2. Sound(rec) /\ rec.pc # "decide"
    <3>1. LET o == [pc |-> "cancel", k |-> k] IN Sound(o) /\ o.pc # "decide"
      BY DEF Sound
    <3> QED
      BY <3>1, ClosingIsSound
  <2>3. Goto("sweep", rec)
    BY <2>1
  <2> HIDE DEF rec
  <2>4. LocalsMove
    BY <2>2, <2>3, Processes, LocalsGo
  <2> QED
    BY <1>1, <2>4, Stays, Ordinarily DEF SweepRound, ReviewRows
<1>2. ASSUME NEW r \in Reviewers, TryClose(r) PROVE StepKind
  <2>1. PICK k \in Ids : k = at[r].k
    BY <1>2, Processes DEF TryClose, In, ReviewRows, Sound
  <2>2. Goto(r, ClosingStep(k))
    BY <1>2, <2>1 DEF TryClose
  <2>3. LocalsMove
    BY <2>2, ClosingIsSound, Processes, LocalsGo
  <2> QED
    BY <1>2, <2>3, Stays, Ordinarily DEF TryClose, ReviewRows
<1> QED
  BY <1>1, <1>2

\* One closer gets the round; the others find it closed.
LEMMA ClaimRoundStep ==
  ASSUME ReviewRows, NEW p \in Closers, ClaimRound(p)
  PROVE  StepKind
<1>1. p \in Procs /\ UNCHANGED <<card, finding, scenario>> /\ at[p].pc = "claim"
  BY Processes DEF ClaimRound, In
<1>2. PICK k \in Ids : k = at[p].k
  BY <1>1 DEF ReviewRows, Sound
<1>3. CASE Rest(p) /\ UNCHANGED round
  BY <1>1, <1>3, LocalsRest, Stays, Ordinarily DEF ReviewRows
<1>4. CASE round[k].status = "open"
  <2> DEFINE taken == [round[k] EXCEPT !.seats = at[p].seats]
             rec == [pc |-> "decide", k |-> k, answered |-> at[p].answered,
                     lost |-> at[p].lost, verdicts |-> round[k].verdicts,
                     checks |-> round[k].checks]
  <2>1. round' = [round EXCEPT ![k] = Closed(taken)] /\ Goto(p, rec)
    BY <1>2, <1>4 DEF ClaimRound
  <2>2. Shaped(taken) /\ taken.decision = round[k].decision
    BY RowColumns DEF ReviewRows
  <2> HIDE DEF taken
  <2>3. /\ Shaped(Closed(taken)) /\ Closed(taken).status = "closed"
        /\ Closed(taken).decision = round[k].decision
    BY <2>2, RowColumns
  <2>4. /\ round' = [j \in Ids |-> round'[j]] /\ \A j \in Ids : Shaped(round'[j])
        /\ round'[k] = Closed(taken) /\ \A j \in Ids \ {k} : round'[j] = round[j]
    BY <2>1, <2>3, RoundUpdate
  <2>5. RoundMoves(k, "open", [status |-> "closed", decision |-> round[k].decision])
    BY <1>4, <2>3, <2>4 DEF RoundMoves
  <2>6. Sound(rec) /\ rec.pc = "decide" /\ rec.k = k
    BY DEF Sound
  <2> HIDE DEF rec
  <2>7. /\ at' = [q \in Procs |-> at'[q]] /\ \A q \in Procs : Sound(at'[q])
        /\ at'[p] = rec /\ \A q \in Procs \ {p} : at'[q] = at[q]
    BY <1>1, <2>1, <2>6, GotoMoves
  <2>8. Claimed(p)
    BY <1>1, <1>2, <2>5, <2>6, <2>7 DEF Claimed
  <2>9. CardMoves
    BY <1>1, Stays
  <2> QED
    BY <1>1, <2>7, <2>8, <2>9 DEF StepKind, CardMoves, ReviewRows
<1> QED
  BY <1>2, <1>3, <1>4 DEF ClaimRound

\* The closer of a round decides it and goes on to move the card.
LEMMA DecideSteps ==
  ASSUME ReviewRows, Deciders, NEW p \in Closers, ClosePanel(p) \/ CloseVerify(p)
  PROVE  StepKind
<1>1. /\ p \in Procs /\ UNCHANGED <<card, scenario>> /\ at[p].pc = "decide"
  BY Processes DEF ClosePanel, CloseVerify, In
<1>2. PICK k \in Ids : k = at[p].k
  BY <1>1 DEF Deciders
<1>3. PICK d : round' = [round EXCEPT ![k].decision = d] /\ Apply(p, k, d)
  BY <1>2 DEF ClosePanel, CloseVerify
<1> DEFINE row == [round[k] EXCEPT !.decision = d]
           rec == IF card.status # "in_review" THEN Idle
                  ELSE [pc |-> "move", k |-> k, decision |-> d, view |-> View(card)]
<1>4. Shaped(row) /\ row.status = round[k].status /\ row.decision = d
  BY RowColumns DEF ReviewRows
<1>5. round' = [round EXCEPT ![k] = row] /\ Goto(p, rec)
  BY <1>3 DEF Apply
<1>6. Sound(rec) /\ rec.pc # "decide"
  <2>1. View(card).level \in Nat /\ View(card).revisions \in Nat
    BY ViewIsSound DEF ReviewRows
  <2>2. LET o == [pc |-> "move", k |-> k, decision |-> d, view |-> View(card)]
        IN  Sound(o) /\ o.pc # "decide"
    BY <2>1 DEF Sound
  <2> QED
    BY <2>2, IdleIsSound
<1> HIDE DEF row, rec
<1>7. /\ round' = [j \in Ids |-> round'[j]] /\ \A j \in Ids : Shaped(round'[j])
      /\ round'[k] = row /\ \A j \in Ids \ {k} : round'[j] = round[j]
  BY <1>4, <1>5, RoundUpdate
<1>8. RoundMoves(k, round[k].status, [status |-> round[k].status, decision |-> d])
  BY <1>4, <1>7 DEF RoundMoves
<1>9. /\ at' = [q \in Procs |-> at'[q]] /\ \A q \in Procs : Sound(at'[q])
      /\ at'[p] = rec /\ \A q \in Procs \ {p} : at'[q] = at[q]
  BY <1>1, <1>5, <1>6, GotoMoves
<1>10. Decided(p)
  BY <1>1, <1>2, <1>6, <1>8, <1>9 DEF Decided
<1>11. CardMoves
  BY <1>1, Stays
<1> QED
  BY <1>1, <1>9, <1>10, <1>11 DEF StepKind, CardMoves, ReviewRows

\* The sweep cancels the round of a card that left review.
LEMMA CancelRoundStep ==
  ASSUME ReviewRows, CancelRound
  PROVE  StepKind
<1>1. "sweep" \in Procs /\ UNCHANGED <<card, scenario>> /\ Rest("sweep")
  BY Processes DEF CancelRound
<1>2. LocalsMove
  BY <1>1, LocalsRest
<1>3. RoundsStay \/ Cancelled
  <2> DEFINE k == at["sweep"].k
  <2>1. CASE UNCHANGED round
    BY <2>1, Stays
  <2>2. CASE k \notin Ids /\ round' = [round EXCEPT ![k] = [Closed(@) EXCEPT !.decision = "cancelled"]]
    <3>1. round' = round
      BY <2>2 DEF ReviewRows
    <3> QED
      BY <3>1, Stays
  <2>3. CASE /\ k \in Ids /\ round[k].status = "open"
             /\ round' = [round EXCEPT ![k] = [Closed(@) EXCEPT !.decision = "cancelled"]]
    <3>1. PICK j \in Ids : j = k
      BY <2>3
    <3> DEFINE row == [Closed(round[j]) EXCEPT !.decision = "cancelled"]
    <3>2. round' = [round EXCEPT ![j] = row] /\ round[j].status = "open"
      BY <2>3, <3>1
    <3>3. Shaped(row) /\ row.status = "closed" /\ row.decision = "cancelled"
      <4>1. Shaped(Closed(round[j])) /\ Closed(round[j]).status = "closed"
        BY RowColumns DEF ReviewRows
      <4> QED
        BY <4>1, RowColumns
    <3> HIDE DEF row
    <3>4. /\ round' = [i \in Ids |-> round'[i]] /\ \A i \in Ids : Shaped(round'[i])
          /\ round'[j] = row /\ \A i \in Ids \ {j} : round'[i] = round[i]
      BY <3>2, <3>3, RoundUpdate
    <3>5. RoundMoves(j, "open", [status |-> "closed", decision |-> "cancelled"])
      BY <3>2, <3>3, <3>4 DEF RoundMoves
    <3> QED
      BY <3>5 DEF Cancelled
  <2> QED
    BY <2>1, <2>2, <2>3 DEF CancelRound
<1> QED
  BY <1>1, <1>2, <1>3, Stays, Ordinarily DEF ReviewRows

\* A decision that is applied: only an approval of a card without a gate finishes
\* it, and a revision is spent only where one is left.
LEMMA MoveDecidedStep ==
  ASSUME ReviewRows, NEW p \in Closers, MoveDecided(p)
  PROVE  StepKind
<1>1. p \in Procs /\ UNCHANGED <<round, scenario>> /\ at[p].pc = "move"
  BY Processes DEF MoveDecided, In
<1>2. PICK view : view = at[p].view
  OBVIOUS
<1>3. view.level \in Nat /\ view.revisions \in Nat
  BY <1>1, <1>2 DEF ReviewRows, Sound
<1>4. LocalsMove
  BY <1>1, LocalsRest DEF MoveDecided
<1>5. ASSUME CardMoves PROVE StepKind
  BY <1>1, <1>4, <1>5, Stays, Ordinarily DEF ReviewRows
<1>6. CASE card' \in {RouteUnavailable(card), TakenOver(view)}
  BY <1>3, <1>5, <1>6, CardWritten
<1>7. CASE card' \in ApproveCard(view) \cup WaitForChildren(card)
  <2>1. CASE card' \in {card, Gated(card)}
    BY <1>5, <2>1, CardQueued
  <2>2. ASSUME NEW s \in {"done", "waiting_on_external"}, ~card.gate,
               card' = [card EXCEPT !.status = s]
        PROVE  CardMoves
    <3>1. card' \in CardRow /\ card'.revisions = card.revisions
      BY <2>2 DEF ReviewRows, CardRow
    <3> QED
      BY <2>2, <3>1 DEF CardMoves, RevisionBudget
  <2>3. ASSUME card' = [card EXCEPT !.status = "in_progress", !.gate = FALSE]
        PROVE  CardMoves
    <3>1. /\ card' \in CardRow /\ card'.revisions = card.revisions
          /\ card'.status = "in_progress"
      BY <2>3 DEF ReviewRows, CardRow
    <3> QED
      BY <3>1, SafeCard DEF ReviewRows
  <2>4. CASE card' \in WaitForChildren(card)
    BY <1>5, <2>3, <2>4 DEF WaitForChildren
  <2>5. CASE card' \in ApproveCard(view)
    <3>1. Parked \ {"in_progress"} \subseteq {"waiting_on_external"}
      BY ReviewAssumption
    <3> QED
      BY <1>5, <2>1, <2>2, <2>5, <3>1 DEF ApproveCard, StillCurrent
  <2> QED
    BY <1>7, <2>4, <2>5
<1>8. CASE card' = Rejected(view) /\ ~TakeoverTriggered(view, at[p].k)
  <2>1. view.revisions + 1 \in Nat /\ FALSE \in BOOLEAN
    BY <1>3
  <2>2. /\ card' \in CardRow /\ card'.status = "todo"
        /\ card'.revisions = view.revisions + 1
    BY <1>8, <2>1 DEF Rejected, ReviewRows, CardRow
  <2>3. MaxRevisions > 0 => view.revisions + 1 <= MaxRevisions
    BY <1>3, <1>8, Bounds DEF TakeoverTriggered
  <2>4. CardMoves
    BY <2>2, <2>3 DEF CardMoves, RevisionBudget
  <2> QED
    BY <1>5, <2>4
<1> QED
  BY <1>2, <1>6, <1>7, <1>8 DEF MoveDecided

-----------------------------------------------------------------------------
(* The single review, people and restarts. *)

\* The cron tick enqueues a review, and an operator forces a round.
LEMMA StartSteps ==
  ASSUME ReviewRows, ScanReview \/ ForceRound
  PROVE  StepKind
<1>1. UNCHANGED <<card, round>> /\ scenario' \in ScenarioOf
  BY DEF ScanReview, ForceRound, Command, ReviewRows, ScenarioOf
<1>2. LocalsMove
  <2>1. CASE ScanReview
    <3> DEFINE rec == [pc |-> "enqueue"]
    <3>1. Goto("sweep", rec) /\ Sound(rec) /\ rec.pc # "decide"
      BY <2>1 DEF ScanReview, Sound
    <3> QED
      BY <3>1, Processes, LocalsGo
  <2>2. CASE ForceRound
    <3> DEFINE rec == [pc |-> "open", kind |-> "panel"]
    <3>1. Goto("operator", rec) /\ Sound(rec) /\ rec.pc # "decide"
      BY <2>2 DEF ForceRound, Sound
    <3> QED
      BY <3>1, Processes, LocalsGo
  <2> QED
    BY <2>1, <2>2
<1> QED
  BY <1>1, <1>2, Stays, Ordinarily

\* The single review starts.
LEMMA StartSingleStep ==
  ASSUME ReviewRows, StartSingle
  PROVE  StepKind
<1>1. UNCHANGED <<round, scenario>>
  BY DEF StartSingle
<1>2. CardMoves
  <2>1. /\ card' \in CardRow /\ card'.status = card.status /\ card'.revisions = card.revisions
    BY DEF StartSingle, ReviewRows, CardRow
  <2> QED
    BY <2>1, SafeCard DEF ReviewRows
<1>3. LocalsMove
  <2> DEFINE rec == [pc |-> "judge", view |-> View(card)]
  <2>1. Sound(rec) /\ rec.pc # "decide"
    BY DEF Sound
  <2>2. UNCHANGED at \/ Goto("single", rec)
    BY DEF StartSingle
  <2> HIDE DEF rec
  <2> QED
    BY <2>1, <2>2, Processes, LocalsGo, Stays
<1> QED
  BY <1>1, <1>2, <1>3, Stays, Ordinarily DEF ReviewRows

\* The verdict of the single review is written while its card is as it was and
\* no gate came up.
LEMMA JudgeStep ==
  ASSUME ReviewRows, JudgeSingle
  PROVE  StepKind
<1>1. UNCHANGED <<round, scenario>>
  BY DEF JudgeSingle
<1>2. LocalsMove
  BY Processes, LocalsRest DEF JudgeSingle
<1>3. CardMoves
  <2> DEFINE view == at["single"].view
  <2>1. CASE card' = SingleEnded(card)
    BY <2>1, CardQueued
  <2>2. CASE StillCurrent(view) /\ card' \in Judged(view)
    <3> DEFINE ended == [card EXCEPT !.single = "none", !.failures = 0]
    <3>1. ended \in CardRow /\ ended.revisions = card.revisions
      BY DEF ReviewRows, CardRow
    <3> HIDE DEF ended
    <3>2. ASSUME NEW s \in {"todo", "blocked", "in_progress", "waiting_on_external", "done"},
                 card' = [ended EXCEPT !.status = s]
          PROVE  card' \in CardRow /\ card'.revisions = card.revisions
      BY <3>1, <3>2 DEF CardRow
    <3>3. ASSUME card' = [ended EXCEPT !.status = "needs_review", !.single = "queued"]
          PROVE  card' \in CardRow /\ card'.revisions = card.revisions
      BY <3>1, <3>3 DEF CardRow
    <3>4. ASSUME card' = [ended EXCEPT !.status = "in_review", !.gate = TRUE]
          PROVE  card' \in CardRow /\ card'.revisions = card.revisions
      BY <3>1, <3>4 DEF CardRow
    <3>5. Parked \subseteq {"in_progress", "waiting_on_external"}
      BY ReviewAssumption
    <3>6. \/ card' = SingleEnded(card)
          \/ \E s \in {"todo", "blocked", "in_progress", "waiting_on_external", "done"} :
               card' = [ended EXCEPT !.status = s]
          \/ card' = [ended EXCEPT !.status = "needs_review", !.single = "queued"]
          \/ card' = [ended EXCEPT !.status = "in_review", !.gate = TRUE]
      BY <2>2, <3>5 DEF Judged, ended
    <3>7. ~card.gate
      BY <2>2 DEF StillCurrent
    <3>8. CASE card' # SingleEnded(card)
      <4>1. card' \in CardRow /\ card'.revisions = card.revisions
        BY <3>2, <3>3, <3>4, <3>6, <3>8
      <4> QED
        BY <3>7, <4>1 DEF CardMoves, RevisionBudget
    <3> QED
      BY <2>1, <3>8
  <2> QED
    BY <2>1, <2>2 DEF JudgeSingle, Judged
<1> QED
  BY <1>1, <1>2, <1>3, Stays, Ordinarily DEF ReviewRows

\* A call of the single review fails.
LEMMA FailStep ==
  ASSUME ReviewRows, FailSingle
  PROVE  StepKind
<1>1. UNCHANGED <<round, scenario>>
  BY DEF FailSingle
<1>2. LocalsMove
  BY Processes, LocalsRest DEF FailSingle
<1>3. CardMoves
  <2>1. CASE card' = SingleEnded(card)
    BY <2>1, CardQueued
  <2>2. ASSUME NEW s \in {"blocked", card.status},
               card' = [card EXCEPT !.single = "none", !.failures = @ + 1, !.status = s]
        PROVE  CardMoves
    <3>1. card.failures + 1 \in Nat /\ s \in {"blocked", card.status}
      BY DEF ReviewRows, CardRow
    <3>2. card' \in CardRow /\ card'.status = s /\ card'.revisions = card.revisions
      BY <2>2, <3>1 DEF ReviewRows, CardRow
    <3> QED
      BY <3>2, SafeCard DEF ReviewRows
  <2> QED
    BY <2>1, <2>2 DEF FailSingle
<1> QED
  BY <1>1, <1>2, <1>3, Stays, Ordinarily DEF ReviewRows

\* People cancel the card, open an approval and decide it.
LEMMA PeopleSteps ==
  ASSUME ReviewRows, CancelCard \/ OpenApproval \/ DecideApproval
  PROVE  StepKind
<1>1. UNCHANGED round /\ scenario' \in ScenarioOf
  BY DEF CancelCard, OpenApproval, DecideApproval, Command, ReviewRows, ScenarioOf
<1>2. CASE CancelCard
  <2>1. /\ card' \in CardRow /\ card'.status = "cancelled" /\ card'.revisions = card.revisions
    BY <1>2 DEF CancelCard, ReviewRows, CardRow
  <2>2. CardMoves
    BY <2>1, SafeCard DEF ReviewRows
  <2> QED
    BY <1>1, <1>2, <2>2, Stays, Ordinarily DEF CancelCard
<1>3. CASE OpenApproval
  <2> DEFINE rec == [pc |-> "decide", view |-> View(card)]
  <2>1. Goto("human", rec) /\ Sound(rec)
    BY <1>3 DEF OpenApproval, Sound
  <2> HIDE DEF rec
  <2>2. LocalsMove
    BY <2>1, Processes, LocalsGo
  <2> QED
    BY <1>1, <1>3, <2>2, Stays, Ordinarily DEF OpenApproval
<1>4. CASE DecideApproval
  <2>1. LocalsMove /\ at'["human"] = Idle
    BY <1>4, Processes, LocalsRest DEF DecideApproval
  <2>2. PICK s \in {"done", "todo", card.status} : card' = [card EXCEPT !.gate = FALSE, !.status = s]
    BY <1>4 DEF DecideApproval
  <2>3. card' \in CardRow /\ card'.revisions = card.revisions
    BY <2>2 DEF ReviewRows, CardRow
  <2> QED
    BY <1>1, <1>4, <2>1, <2>3, Stays
    DEF StepKind, LocalsMove, DecideApproval, RevisionBudget
<1> QED
  BY <1>2, <1>3, <1>4

\* A restart loses what the processes hold.
LEMMA RestartStep ==
  ASSUME ReviewRows, Restart
  PROVE  StepKind
<1>1. LocalsMove
  <2>1. at' = [p \in Procs |-> Idle]
    BY DEF Restart
  <2>2. \A p \in Procs : at'[p] = Idle
    BY <2>1
  <2>3. at' = [p \in Procs |-> at'[p]]
    BY <2>1
  <2> QED
    BY <2>2, <2>3, IdleIsSound DEF LocalsMove, Closers
<1>2. scenario' \in ScenarioOf
  BY DEF Restart, ReviewRows, ScenarioOf
<1> QED
  BY <1>1, <1>2, Stays, Ordinarily DEF Restart

-----------------------------------------------------------------------------
(* Every step. *)

\* The kind of a step.
LEMMA StepKinds ==
  ASSUME ReviewInv, [ReviewNext]_reviewVars
  PROVE  StepKind
<1>1. ReviewRows /\ Undecided /\ Deciders
  BY DEF ReviewInv
<1>2. ASSUME NEW p \in Closers, Opening(p) PROVE StepKind
  BY <1>1, <1>2, CheckOpenStep, InsertRoundStep, SeatStep DEF Opening
<1>3. ASSUME NEW p \in Closers, Closing(p) PROVE StepKind
  BY <1>1, <1>3, ClaimRoundStep, DecideSteps, MoveDecidedStep DEF Closing
<1>4. CASE Author
  BY <1>1, <1>2, <1>4, Processes, AuthorCompletesStep, AuthorSteps DEF Author
<1>5. CASE Sweep
  BY <1>1, <1>3, <1>5, Processes, LookSteps, CancelRoundStep, StartSteps, AuthorSteps DEF Sweep
<1>6. CASE Single
  BY <1>1, <1>6, StartSingleStep, JudgeStep, FailStep DEF Single
<1>7. CASE Human
  BY <1>1, <1>7, PeopleSteps DEF Human
<1>8. CASE Operator
  BY <1>1, <1>2, <1>8, Processes, StartSteps, PeopleSteps DEF Operator
<1>9. ASSUME NEW r \in Reviewers, Reviewer(r) PROVE StepKind
  BY <1>1, <1>3, <1>9, Processes, SlotSteps, SubmitStep, LookSteps DEF Reviewer
<1>10. CASE UNCHANGED reviewVars
  BY <1>1, <1>10, Stays, Ordinarily DEF reviewVars, ReviewRows
<1> QED
  BY <1>1, <1>4, <1>5, <1>6, <1>7, <1>8, <1>9, <1>10, RestartStep, ExpireStep DEF ReviewNext

\* What the kind of a step leaves of a round, and who decides afterwards.
LEMMA RoundsAfter ==
  ASSUME ReviewInv, StepKind
  PROVE  /\ round' = [k \in Ids |-> round'[k]] /\ \A k \in Ids : Shaped(round'[k])
         /\ \A k \in Ids :
              /\ round[k].status = "closed" => round'[k].status = "closed"
              /\ round[k].decision # None => round'[k].decision = round[k].decision
         /\ Undecided' /\ Deciders'
<1>1. ReviewRows /\ Undecided /\ Deciders
  BY DEF ReviewInv
<1> DEFINE goal == /\ round' = [k \in Ids |-> round'[k]] /\ \A k \in Ids : Shaped(round'[k])
                   /\ \A k \in Ids :
                        /\ round[k].status = "closed" => round'[k].status = "closed"
                        /\ round[k].decision # None => round'[k].decision = round[k].decision
                   /\ Undecided' /\ Deciders'
<1>2. ASSUME LocalsMove, RoundsStay PROVE goal
  BY <1>1, <1>2 DEF LocalsMove, RoundsStay, Undecided, Deciders
<1>3. ASSUME LocalsMove, NEW k \in Ids, NEW to, to.status = "closed" \/ to.decision = None,
             RoundMoves(k, "absent", to) \/ RoundMoves(k, "open", to)
      PROVE  goal
  <2>1. round[k].status # "closed" /\ round[k].decision = None
    BY <1>1, <1>3 DEF RoundMoves, Undecided
  <2>2. /\ round' = [j \in Ids |-> round'[j]] /\ \A j \in Ids : Shaped(round'[j])
        /\ round'[k].status = to.status /\ round'[k].decision = to.decision
        /\ \A j \in Ids \ {k} : round'[j] = round[j]
    BY <1>3 DEF RoundMoves
  <2>3. Undecided'
    BY <1>1, <1>3, <2>2 DEF Undecided
  <2>4. Deciders'
    <3>1. \A p \in Closers : at[p].pc = "decide" => at[p].k # k
      BY <1>1, <2>1 DEF Deciders
    <3> QED
      BY <1>1, <1>3, <2>2, <3>1 DEF LocalsMove, Deciders
  <2> QED
    BY <2>1, <2>2, <2>3, <2>4
<1>4. ASSUME NEW p \in Procs, Claimed(p) PROVE goal
  <2>1. PICK k \in Ids : k = at[p].k
    BY <1>4 DEF Claimed, RoundMoves
  <2>2. /\ p \in Closers /\ round[k].status = "open" /\ round[k].decision = None
        /\ round' = [j \in Ids |-> round'[j]] /\ \A j \in Ids : Shaped(round'[j])
        /\ round'[k].status = "closed" /\ round'[k].decision = None
        /\ \A j \in Ids \ {k} : round'[j] = round[j]
        /\ at'[p].pc = "decide" /\ at'[p].k = k
        /\ \A q \in Procs \ {p} : at'[q] = at[q]
    BY <1>1, <1>4, <2>1 DEF Claimed, RoundMoves, Undecided
  <2>3. \A q \in Closers \ {p} : at'[q] = at[q] /\ (at[q].pc = "decide" => at[q].k # k)
    BY <1>1, <2>2 DEF Deciders, Closers
  <2>4. Undecided'
    BY <1>1, <2>2 DEF Undecided
  <2>5. Deciders'
    <3> SUFFICES ASSUME NEW q \in Closers, at'[q].pc = "decide"
                 PROVE  /\ at'[q].k \in Ids /\ round'[at'[q].k].status = "closed"
                        /\ round'[at'[q].k].decision = None
                        /\ \A o \in Closers \ {q} : at'[o].pc = "decide" => at'[o].k # at'[q].k
      BY DEF Deciders
    <3>1. CASE q = p
      BY <2>2, <2>3, <3>1
    <3>2. CASE q # p
      <4>1. at'[q] = at[q] /\ at[q].k # k
        BY <2>3, <3>2
      <4>2. /\ at[q].k \in Ids /\ round[at[q].k].status = "closed" /\ round[at[q].k].decision = None
            /\ \A o \in Closers \ {q} : at[o].pc = "decide" => at[o].k # at[q].k
        BY <1>1, <4>1 DEF Deciders
      <4>3. round'[at[q].k] = round[at[q].k]
        BY <2>2, <4>1, <4>2
      <4>4. \A o \in Closers \ {q} : at'[o].pc = "decide" => at'[o].k # at[q].k
        BY <2>2, <2>3, <4>1, <4>2
      <4> QED
        BY <4>1, <4>2, <4>3, <4>4
    <3> QED
      BY <3>1, <3>2
  <2> QED
    BY <2>2, <2>4, <2>5
<1>5. ASSUME NEW p \in Procs, Decided(p) PROVE goal
  <2>1. PICK k \in Ids : k = at[p].k
    BY <1>5 DEF Decided, RoundMoves
  <2>2. /\ round[k].status = "closed" /\ round[k].decision = None /\ p \in Closers
        /\ \A q \in Closers \ {p} : at[q].pc = "decide" => at[q].k # k
    BY <1>1, <1>5, <2>1 DEF Decided, Deciders
  <2>3. /\ round' = [j \in Ids |-> round'[j]] /\ \A j \in Ids : Shaped(round'[j])
        /\ round'[k].status = "closed"
        /\ \A j \in Ids \ {k} : round'[j] = round[j]
        /\ at'[p].pc # "decide"
        /\ \A q \in Closers \ {p} : at'[q] = at[q]
    BY <1>5, <2>1, <2>2 DEF Decided, RoundMoves, Closers
  <2>4. Undecided'
    BY <1>1, <2>3 DEF Undecided
  <2>5. Deciders'
    BY <1>1, <2>2, <2>3 DEF Deciders
  <2> QED
    BY <2>2, <2>3, <2>4, <2>5
<1> HIDE DEF goal
<1>6. ASSUME LocalsMove, Opened PROVE goal
  <2>1. PICK k \in Ids : RoundMoves(k, "absent", [status |-> "open", decision |-> None])
    BY <1>6 DEF Opened
  <2> DEFINE to == [status |-> "open", decision |-> None]
  <2>2. to.decision = None /\ RoundMoves(k, "absent", to)
    BY <2>1
  <2> QED
    BY <1>3, <1>6, <2>2
<1>7. ASSUME LocalsMove, Cancelled PROVE goal
  <2>1. PICK k \in Ids : RoundMoves(k, "open", [status |-> "closed", decision |-> "cancelled"])
    BY <1>7 DEF Cancelled
  <2> DEFINE to == [status |-> "closed", decision |-> "cancelled"]
  <2>2. to.status = "closed" /\ RoundMoves(k, "open", to)
    BY <2>1
  <2> QED
    BY <1>3, <1>7, <2>2
<1>8. goal
  BY <1>2, <1>4, <1>5, <1>6, <1>7 DEF StepKind
<1> QED
  BY <1>8 DEF goal

\* Initially no round is open and nobody decides.
LEMMA ReviewInitially == ReviewInit => ReviewInv
<1> SUFFICES ASSUME ReviewInit PROVE ReviewInv
  OBVIOUS
<1>1. card \in CardRow /\ card.revisions = 0
  BY DEF ReviewInit, CardRow
<1>2. \A p \in Procs : at[p] = Idle
  BY DEF ReviewInit
<1>3. \A k \in Ids : round[k] = NoRound
  BY DEF ReviewInit
<1>4. round = [k \in Ids |-> round[k]] /\ at = [p \in Procs |-> at[p]]
  BY DEF ReviewInit
<1>5. ReviewRows
  BY <1>1, <1>2, <1>3, <1>4, IdleIsSound, RowColumns, ReviewAssumption DEF ReviewRows, ReviewInit
<1>6. Undecided
  BY <1>3, RowColumns DEF Undecided
<1>7. Deciders
  BY <1>2, IdleIsSound DEF Deciders, Closers
<1> QED
  BY <1>1, <1>5, <1>6, <1>7, Bounds DEF ReviewInv, RevisionBudget

\* Every step keeps the invariant.
LEMMA ReviewInvStep ==
  ASSUME ReviewInv, [ReviewNext]_reviewVars
  PROVE  ReviewInv'
<1>1. StepKind
  BY StepKinds
<1>2. /\ round' = [k \in Ids |-> round'[k]] /\ \A k \in Ids : Shaped(round'[k])
      /\ Undecided' /\ Deciders'
  BY <1>1, RoundsAfter
<1>3. ReviewRows' /\ RevisionBudget'
  BY <1>1, <1>2 DEF StepKind, ReviewRows, ReviewInv
<1> QED
  BY <1>2, <1>3 DEF ReviewInv

-----------------------------------------------------------------------------
(* Theorems. *)

\* The review rounds keep their inductive invariant.
THEOREM ReviewInvariant == ReviewSpec => []ReviewInv
BY ReviewInitially, ReviewInvStep, PTL DEF ReviewSpec

\* Whoever closes a round decides it, once (tryCloseRound, cancelRound).
THEOREM RoundsAreDecidedOnce == ReviewSpec => OneDecision
<1> DEFINE Once == \A k \in Ids :
             /\ round[k].status = "closed" => round'[k].status = "closed"
             /\ round[k].decision # None => round'[k].decision = round[k].decision
<1>1. ReviewInv /\ [ReviewNext]_reviewVars => [Once]_reviewVars
  BY StepKinds, RoundsAfter
<1>2. ReviewSpec => [][Once]_reviewVars
  BY <1>1, ReviewInvariant, PTL DEF ReviewSpec
<1> QED
  BY <1>2 DEF OneDecision

\* While a human gate is pending only its decision finishes the card
\* (completionCondition, PUT /api/approvals/:id).
THEOREM GatesHold == ReviewSpec => GateHolds
<1> DEFINE Held == card.gate /\ card.status # "done" /\ card'.status = "done" =>
                     In("human", "decide") /\ at'["human"] = Idle
<1>1. ReviewInv /\ [ReviewNext]_reviewVars => [Held]_reviewVars
  BY StepKinds DEF StepKind
<1>2. ReviewSpec => [][Held]_reviewVars
  BY <1>1, ReviewInvariant, PTL DEF ReviewSpec
<1> QED
  BY <1>2 DEF GateHolds

\* A fix level never spends more revisions than it has (rejectAfterRound,
\* takeoverTrigger).
THEOREM RevisionsAreBounded == ReviewSpec => []RevisionBudget
<1>1. ReviewInv => RevisionBudget
  BY DEF ReviewInv
<1> QED
  BY <1>1, ReviewInvariant, PTL
=============================================================================
