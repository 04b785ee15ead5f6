-------------------------- MODULE MergeGateProofs --------------------------
(***************************************************************************)
(* Theorems about MergeGate for every number of server processes, heads    *)
(* and waits and for every bound: the rows keep their types, at most one   *)
(* merge wait is open, nobody touches a card while its merge may be under  *)
(* way, one request is on its way for a wait, a card is done only when the *)
(* approved head is merged, and what is settled or resolved stays so.      *)
(*                                                                         *)
(* Every step of MergeNext belongs to one of six kinds (StepKinds): it is  *)
(* Calm and leaves alone what a merge rests on, it is Gated and meets the  *)
(* fence, it revises the state of an intent that was sent, it opens a      *)
(* merge wait, applies a verdict or claims an attempt.  The invariants are *)
(* proved against these kinds and not against the thirty actions.          *)
(***************************************************************************)
EXTENDS MergeGate, TLAPS, FiniteSetTheorems, WellFoundedInduction

-----------------------------------------------------------------------------
(* The rows and what a process holds. *)

CardStates == {"in_progress", "in_review", "waiting_on_external", "blocked", "done", "cancelled"}
Resolved == {"success", "failure", "timeout", "superseded"}
WaitStates == {"none", "waiting"} \cup Resolved
SettledStates == {"verified", "drift", "closed", "superseded"}
IntentStates == {"none"} \cup Active \cup Unsent \cup SettledStates

CardRow == [status : CardStates, gated : BOOLEAN, identity : Heads \cup {None}, reviewing : BOOLEAN]
WaitRow == [state : WaitStates, head : Heads \cup {None}, gitea : BOOLEAN, timed : BOOLEAN,
            polls : 0 .. MaxPolls]
IntentRow == [state : IntentStates, current : BOOLEAN, attempts : 0 .. MaxAttempts,
              authorized : BOOLEAN, asks : 0 .. MaxAsks, asked : BOOLEAN]
PullRow == [state : {"open", "closed", "merged"}, head : Heads]
RequestRow == [wait : Waits, head : Heads \cup {None}, attempt : 0 .. MaxAttempts]
OpRow == [pc : {"idle", "approved", "moved", "check", "read", "handle", "decide", "execute",
                "claim", "post"},
          wait : Waits \cup {None}, seen : PullRow \cup IntentStates \cup {None},
          next : {"end", "decide"}, attempt : 0 .. MaxAttempts,
          answer : {None, "accepted", "retryable"}]

\* What a process has read by the time it is at a statement.
Sound(o) ==
  /\ o.pc \in {"check", "read", "handle", "decide", "execute", "claim", "post"} => o.wait \in Waits
  /\ o.pc \in {"approved", "moved", "handle", "decide", "execute"} => o.seen \in PullRow
  /\ o.pc = "claim" => /\ o.seen \in Unsent \cup {"uncertain", "in_flight"}
                       /\ o.attempt < MaxAttempts
Ops == {o \in OpRow : Sound(o)}

MergeTypes ==
  /\ card \in CardRow
  /\ waits \in [Waits -> WaitRow]
  /\ intents \in [Waits -> IntentRow]
  /\ pr \in PullRow
  /\ requests \subseteq RequestRow
  /\ hooks \subseteq PullRow
  /\ op \in [Servers -> Ops]
  /\ managed \in BOOLEAN
  /\ accepted \subseteq Heads \cup {None}
  /\ budget \in MergeBudget

-----------------------------------------------------------------------------
(* Numbers. *)

\* The bounds are positive numbers.
LEMMA Bounds ==
  /\ MaxWaits \in Nat \ {0} /\ MaxPolls \in Nat \ {0}
  /\ MaxAttempts \in Nat \ {0} /\ MaxAsks \in Nat \ {0}
  /\ Waits \subseteq Nat
BY MergeAssumption DEF Waits

LessThan == {p \in Nat \X Nat : p[1] < p[2]}

\* The order of the numbers is well founded.
LEMMA LessThanWellFounded == IsWellFoundedOn(LessThan, Nat)
<1>1. OpToRel(<, Nat) = LessThan
  BY DEF OpToRel, LessThan
<1> QED
  BY <1>1, NatLessThanWellFounded

\* A set of numbers that is not empty has a least element.
LEMMA LeastIsMember ==
  ASSUME NEW S \in SUBSET Nat, S # {}
  PROVE  Least(S) \in S
<1>1. PICK x \in S : \A y \in S : ~(<<y, x>> \in LessThan)
  BY LessThanWellFounded, WFMin
<1>2. ASSUME NEW y \in S, ~(x <= y) PROVE FALSE
  <2>1. y \in Nat /\ x \in Nat /\ y < x
    BY <1>2
  <2>2. <<y, x>> \in Nat \X Nat /\ <<y, x>>[1] < <<y, x>>[2]
    BY <2>1
  <2>3. <<y, x>> \in LessThan
    BY <2>2, Zenon DEF LessThan
  <2> QED
    BY <1>1, <2>3
<1> QED
  BY <1>2 DEF Least

\* Of the waits that are open, one is the newest.
LEMMA NewestIsMember ==
  ASSUME NEW S \in SUBSET Waits, S # {}
  PROVE  Newest(S) \in S
<1> DEFINE distance == {MaxWaits - w : w \in S}
<1>1. S \subseteq Nat /\ \A w \in S : w <= MaxWaits
  BY Bounds DEF Waits
<1>2. distance \in SUBSET Nat /\ distance # {}
  <2>1. \A w \in S : MaxWaits - w \in Nat
    BY <1>1, Bounds
  <2> QED
    BY <2>1
<1>3. PICK d \in distance : \A e \in distance : ~(<<e, d>> \in LessThan)
  BY <1>2, LessThanWellFounded, WFMin
<1>4. PICK x \in S : d = MaxWaits - x
  BY <1>3
<1>5. ASSUME NEW y \in S, ~(y <= x) PROVE FALSE
  <2> DEFINE e == MaxWaits - y
  <2>1. e \in distance /\ e \in Nat /\ d \in Nat /\ e < d
    BY <1>1, <1>2, <1>4, <1>5, Bounds
  <2> HIDE DEF e, distance
  <2>2. <<e, d>> \in Nat \X Nat /\ <<e, d>>[1] < <<e, d>>[2]
    BY <2>1
  <2>3. <<e, d>> \in LessThan
    BY <2>2, Zenon DEF LessThan
  <2> QED
    BY <1>3, <2>1, <2>3
<1> QED
  BY <1>5 DEF Newest

\* The row a new wait takes is free.
LEMMA LeastIsFree ==
  ASSUME Free # {}
  PROVE  Least(Free) \in Waits /\ waits[Least(Free)].state = "none"
<1>1. Free \in SUBSET Nat
  BY Bounds DEF Free
<1>2. Least(Free) \in Free
  BY <1>1, LeastIsMember
<1> QED
  BY <1>2 DEF Free

-----------------------------------------------------------------------------
(* What an update of a row keeps. *)

\* Rest, Move and every other way to leave a statement.
LEMMA OpUpdate ==
  ASSUME op \in [Servers -> Ops], NEW s \in Servers, NEW rec \in Ops, Goto(s, rec)
  PROVE  /\ op' \in [Servers -> Ops]
         /\ op'[s] = rec
         /\ \A t \in Servers \ {s} : op'[t] = op[t]
BY DEF Goto

\* A process that holds nothing.
LEMMA IdleIsSound == Idle \in Ops /\ Idle.pc = "idle"
BY Bounds DEF Idle, Ops, OpRow, Sound

\* Invalidated withdraws the authority of every intent and nothing else.
LEMMA InvalidatedRows ==
  ASSUME NEW is \in [Waits -> IntentRow]
  PROVE  /\ Invalidated(is) \in [Waits -> IntentRow]
         /\ \A w \in Waits : /\ Invalidated(is)[w].state = is[w].state
                             /\ Invalidated(is)[w].attempts = is[w].attempts
<1>1. ASSUME NEW w \in Waits
      PROVE  /\ Invalidated(is)[w] \in IntentRow
             /\ Invalidated(is)[w].state = is[w].state
             /\ Invalidated(is)[w].attempts = is[w].attempts
  BY DEF Invalidated, IntentRow
<1>2. Invalidated(is) = [w \in Waits |-> Invalidated(is)[w]]
  BY DEF Invalidated
<1> QED
  BY <1>1, <1>2

\* One row of the intents is replaced.
LEMMA IntentUpdate ==
  ASSUME NEW is \in [Waits -> IntentRow], NEW w, NEW row, w \in Waits => row \in IntentRow
  PROVE  /\ [is EXCEPT ![w] = row] \in [Waits -> IntentRow]
         /\ w \in Waits => [is EXCEPT ![w] = row][w] = row
         /\ \A v \in Waits \ {w} : [is EXCEPT ![w] = row][v] = is[v]
OBVIOUS

\* One row of the waits is replaced.
LEMMA WaitUpdate ==
  ASSUME NEW ws \in [Waits -> WaitRow], NEW w, NEW row, w \in Waits => row \in WaitRow
  PROVE  /\ [ws EXCEPT ![w] = row] \in [Waits -> WaitRow]
         /\ w \in Waits => [ws EXCEPT ![w] = row][w] = row
         /\ \A v \in Waits \ {w} : [ws EXCEPT ![w] = row][v] = ws[v]
OBVIOUS

\* A question is put: state, attempts and authority stay.
LEMMA AskedRows ==
  ASSUME NEW is \in [Waits -> IntentRow], NEW w \in Waits
  PROVE  /\ Asked(is, w) \in [Waits -> IntentRow]
         /\ \A v \in Waits : /\ Asked(is, w)[v].state = is[v].state
                             /\ Asked(is, w)[v].attempts = is[v].attempts
                             /\ Asked(is, w)[v].current = is[v].current
<1>1. CASE is[w].asked \/ is[w].asks >= MaxAsks \/ ~Reviewed(w)
  BY <1>1 DEF Asked
<1>2. CASE ~(is[w].asked \/ is[w].asks >= MaxAsks \/ ~Reviewed(w))
  <2> DEFINE row == [is[w] EXCEPT !.asked = TRUE, !.asks = @ + 1]
  <2>1. is[w].asks \in 0 .. MaxAsks /\ is[w].asks + 1 \in 0 .. MaxAsks
    BY <1>2, Bounds DEF IntentRow
  <2>2. /\ row \in IntentRow /\ row.state = is[w].state
        /\ row.attempts = is[w].attempts /\ row.current = is[w].current
    BY <2>1 DEF IntentRow
  <2>3. Asked(is, w) = [is EXCEPT ![w] = row]
    BY <1>2 DEF Asked
  <2> HIDE DEF row
  <2> QED
    BY <2>2, <2>3, IntentUpdate
<1> QED
  BY <1>1, <1>2

\* The state of one intent is written.
LEMMA StateUpdate ==
  ASSUME NEW is \in [Waits -> IntentRow], NEW w \in Waits, NEW state \in IntentStates
  PROVE  LET new == [is EXCEPT ![w].state = state] IN
         /\ new \in [Waits -> IntentRow]
         /\ new[w].state = state
         /\ new[w].attempts = is[w].attempts /\ new[w].current = is[w].current
         /\ \A v \in Waits \ {w} : new[v] = is[v]
<1> DEFINE row == [is[w] EXCEPT !.state = state]
<1>1. /\ row \in IntentRow /\ row.state = state
      /\ row.attempts = is[w].attempts /\ row.current = is[w].current
  BY DEF IntentRow
<1>2. [is EXCEPT ![w].state = state] = [is EXCEPT ![w] = row]
  OBVIOUS
<1> HIDE DEF row
<1> QED
  BY <1>1, <1>2, IntentUpdate

\* What settleMergeIntent writes: only an intent that is not settled moves.
LEMMA SettledRows ==
  ASSUME intents \in [Waits -> IntentRow], NEW w \in Waits, NEW result \in SettledStates
  PROVE  /\ Settled(w, result) \in [Waits -> IntentRow]
         /\ Settled(w, result)[w].state =
              IF intents[w].state \in Active \cup Unsent THEN result ELSE intents[w].state
         /\ \A v \in Waits : /\ Settled(w, result)[v].attempts = intents[v].attempts
                             /\ v # w => Settled(w, result)[v] = intents[v]
<1> DEFINE state == IF intents[w].state \in Active \cup Unsent THEN result ELSE intents[w].state
<1>1. state \in IntentStates
  BY DEF IntentRow, IntentStates
<1>2. Settled(w, result) = [intents EXCEPT ![w].state = state]
  BY DEF Settled
<1> HIDE DEF state
<1>3. /\ Settled(w, result) \in [Waits -> IntentRow]
      /\ Settled(w, result)[w].state = state
      /\ \A v \in Waits : /\ Settled(w, result)[v].attempts = intents[v].attempts
                          /\ v # w => Settled(w, result)[v] = intents[v]
  BY <1>1, <1>2, StateUpdate
<1> QED
  BY <1>3 DEF state

\* What reopenUncertainMerge writes: an unsettled request becomes retryable.
LEMMA ReopenedRows ==
  ASSUME intents \in [Waits -> IntentRow], NEW w \in Waits, NEW p
  PROVE  /\ Reopened(w, p) \in [Waits -> IntentRow]
         /\ \A v \in Waits : /\ Reopened(w, p)[v].attempts = intents[v].attempts
                             /\ Reopened(w, p)[v].current = intents[v].current
                             /\ v # w => Reopened(w, p)[v] = intents[v]
         /\ \/ Reopened(w, p)[w].state = intents[w].state
            \/ /\ intents[w].state \in {"uncertain", "in_flight"}
               /\ Reopened(w, p)[w].state = "retryable"
               /\ RequestOver(w)
<1> DEFINE row == [intents[w] EXCEPT !.state = "retryable", !.authorized = FALSE,
                                     !.asks = 0, !.asked = FALSE]
           open == /\ intents[w].state \in {"uncertain", "in_flight"} /\ intents[w].current
                   /\ intents[w].attempts < MaxAttempts /\ RequestOver(w)
                   /\ p.head = waits[w].head
<1>1. /\ row \in IntentRow /\ row.state = "retryable"
      /\ row.attempts = intents[w].attempts /\ row.current = intents[w].current
  <2>1. /\ intents[w] \in IntentRow /\ 0 \in 0 .. MaxAsks /\ "retryable" \in IntentStates
        /\ FALSE \in BOOLEAN
    BY Bounds DEF IntentStates, Unsent
  <2>2. row \in IntentRow
    BY <2>1 DEF IntentRow
  <2> QED
    BY <2>1 DEF IntentRow
<1>2. Reopened(w, p) = IF open THEN [intents EXCEPT ![w] = row] ELSE intents
  BY DEF Reopened
<1> HIDE DEF row
<1>3. /\ [intents EXCEPT ![w] = row] \in [Waits -> IntentRow]
      /\ [intents EXCEPT ![w] = row][w] = row
      /\ \A v \in Waits \ {w} : [intents EXCEPT ![w] = row][v] = intents[v]
  BY <1>1, IntentUpdate
<1>4. CASE open
  BY <1>1, <1>2, <1>3, <1>4
<1>5. CASE ~open
  <2> HIDE DEF open
  <2> QED
    BY <1>2, <1>5
<1> QED
  BY <1>4, <1>5

-----------------------------------------------------------------------------
(* What a step may do. *)

\* A process takes its evidence from the provider or from a webhook, an approval
\* it carries was given, and it goes to the claim from an attempt that is over.
Seeing == {"approved", "moved", "handle", "decide", "execute"}
OpMoves(s, o) ==
  /\ o.pc = "claim" =>
       \/ o = op[s]
       \/ RequestOver(o.wait) /\ o.attempt = intents[o.wait].attempts
  /\ o.pc \in Seeing =>
       \/ o.seen = pr \/ o.seen \in hooks
       \/ op[s].pc \in Seeing /\ o.seen = op[s].seen
  /\ o.pc \in {"approved", "moved"} =>
       \/ o.seen.head \in accepted'
       \/ op[s].pc \in {"approved", "moved"} /\ o.seen = op[s].seen
OpsMove == \A s \in Servers : OpMoves(s, op'[s])

\* What was merged stays merged, and who tells of a pull request tells the truth.
PullMoves ==
  /\ pr' = pr \/ pr.state # "merged"
  /\ hooks' \subseteq hooks \cup {pr'}
  /\ accepted \subseteq accepted'

SameWait(w) ==
  waits'[w].state = waits[w].state /\ waits'[w].head = waits[w].head /\ waits'[w].gitea = waits[w].gitea

\* A step that leaves alone what a merge rests on.
Calm ==
  /\ card'.status = card.status /\ card'.gated = card.gated
  /\ \A w \in Waits :
       /\ SameWait(w)
       /\ intents'[w].state = intents[w].state /\ intents'[w].attempts = intents[w].attempts
       /\ intents'[w].current = intents[w].current

\* A step that meets the fence: it resolves open waits or opens one that no
\* provider resolves.
GatedWait(w) ==
  \/ SameWait(w)
  \/ /\ waits[w].state = "none" /\ waits'[w].state = "waiting"
     /\ waits'[w].head = None /\ ~waits'[w].gitea
  \/ /\ waits[w].state = "waiting" /\ waits'[w].state \in {"waiting"} \cup Resolved
     /\ waits'[w].head = waits[w].head /\ (waits'[w].gitea => waits[w].gitea)
Gated ==
  /\ ~Fenced(intents)
  /\ card'.status = "done" => card.status = "done"
  /\ \A w \in Waits :
       /\ GatedWait(w)
       /\ intents'[w].state = intents[w].state /\ intents'[w].attempts = intents[w].attempts

\* Most steps are calm or gated.
Ordinary == MergeTypes' /\ OpsMove /\ PullMoves /\ requests' \subseteq requests /\ (Calm \/ Gated)

\* The state of an intent that was sent is revised.
Revised ==
  /\ UNCHANGED <<card, waits>>
  /\ \A w \in Waits :
       /\ intents'[w].attempts = intents[w].attempts /\ intents'[w].current = intents[w].current
       /\ \/ intents'[w].state = intents[w].state
          \/ /\ intents[w].state \in Active
             /\ intents'[w].state \in {"uncertain", "accepted", "retryable"}

\* A merge wait is opened for the head a process carries, in a free row; the
\* others are superseded, and so are intents from which nothing was sent.
Opened(s) ==
  /\ op[s].pc \in {"approved", "moved"} /\ card'.status # "done"
  /\ ~Fenced(intents')
  /\ \E n \in Waits :
       /\ waits[n].state = "none" /\ waits'[n].state = "waiting"
       /\ waits'[n].head = op[s].seen.head
       /\ intents'[n].state \in {"prepared", intents[n].state}
       /\ intents'[n].attempts \in {0, intents[n].attempts}
       /\ \A w \in Waits \ {n} :
            /\ waits'[w].head = waits[w].head /\ waits'[w].gitea = waits[w].gitea
            /\ waits'[w].state = IF MergeWait(w) THEN "superseded" ELSE waits[w].state
            /\ intents'[w].attempts = intents[w].attempts
            /\ \/ intents'[w].state = intents[w].state
               \/ intents[w].state \in Unsent /\ intents'[w].state = "superseded"

\* The provider's verdict on an open wait moves the card.
Applied(s) ==
  /\ op[s].pc = "handle" /\ op[s].wait \in Waits /\ Open(op[s].wait)
  /\ ~Fenced(intents')
  /\ card'.status = "done" => /\ op[s].seen.state = "merged"
                              /\ op[s].seen.head = waits[op[s].wait].head
  /\ \A w \in Waits :
       /\ waits'[w].head = waits[w].head /\ waits'[w].gitea = waits[w].gitea
       /\ IF w = op[s].wait THEN waits'[w].state \in Resolved
                            ELSE waits'[w].state = waits[w].state
       /\ intents'[w].attempts = intents[w].attempts
       /\ \/ intents'[w].state = intents[w].state
          \/ intents[w].state \in Active \cup Unsent /\ intents'[w].state \in SettledStates

\* An attempt is claimed and its request sent.
Claimed(s) ==
  LET w == op[s].wait IN
  /\ op[s].pc = "claim" /\ w \in Waits
  /\ Parked /\ intents[w].current /\ MergeWait(w)
  /\ intents[w].state \in Unsent \cup Active /\ SameAttempt(s)
  /\ UNCHANGED <<card, waits>>
  /\ requests' = requests \cup {[wait |-> w, head |-> waits[w].head, attempt |-> intents'[w].attempts]}
  /\ intents'[w].state = "in_flight" /\ intents'[w].current
  /\ intents'[w].attempts = intents[w].attempts + 1
  /\ \A v \in Waits \ {w} : intents'[v] = intents[v]
  /\ op'[s].pc = "post" /\ \A t \in Servers \ {s} : op'[t] = op[t]

\* A process that stays where it is.
LEMMA OpHolds == \A s \in Servers : OpMoves(s, op[s])
<1>1. ASSUME NEW s \in Servers PROVE OpMoves(s, op[s])
  <2> DEFINE o == op[s]
  <2>1. o = op[s] /\ o.pc = op[s].pc /\ o.seen = op[s].seen
    OBVIOUS
  <2> HIDE DEF o
  <2>2. OpMoves(s, o)
    BY <2>1 DEF OpMoves
  <2> QED
    BY <2>2 DEF o
<1> QED
  BY <1>1

\* A process goes to another statement.
LEMMA GotoMoves ==
  ASSUME op \in [Servers -> Ops], NEW s \in Servers, NEW rec \in Ops, Goto(s, rec), OpMoves(s, rec)
  PROVE  op' \in [Servers -> Ops] /\ OpsMove
<1>1. /\ op' \in [Servers -> Ops] /\ op'[s] = rec
      /\ \A t \in Servers \ {s} : op'[t] = op[t]
  BY OpUpdate
<1>2. \A t \in Servers \ {s} : OpMoves(t, op'[t])
  BY <1>1, OpHolds
<1> QED
  BY <1>1, <1>2 DEF OpsMove

\* A process ends its operation.
LEMMA RestMoves ==
  ASSUME op \in [Servers -> Ops], NEW s \in Servers, Rest(s)
  PROVE  op' \in [Servers -> Ops] /\ OpsMove
<1>1. OpMoves(s, Idle)
  BY DEF OpMoves, Idle, Seeing
<1> QED
  BY <1>1, IdleIsSound, GotoMoves DEF Rest

\* No process moves.
LEMMA StayMoves ==
  ASSUME op \in [Servers -> Ops], UNCHANGED op
  PROVE  op' \in [Servers -> Ops] /\ OpsMove
BY OpHolds DEF OpsMove

\* Nothing but what processes hold changes.
LEMMA RestingStep ==
  ASSUME MergeTypes, op' \in [Servers -> Ops], OpsMove,
         UNCHANGED <<card, waits, intents, pr, requests, hooks, managed, accepted>>,
         budget' \in MergeBudget
  PROVE  Ordinary
<1>1. MergeTypes'
  BY DEF MergeTypes
<1>2. Calm
  BY DEF Calm, SameWait
<1>3. PullMoves
  BY DEF PullMoves
<1> QED
  BY <1>1, <1>2, <1>3 DEF Ordinary

\* A write under the fence withdraws what was authorized.
LEMMA GateWriteRows ==
  ASSUME MergeTypes, GateWrite
  PROVE  /\ intents' \in [Waits -> IntentRow] /\ ~Fenced(intents)
         /\ \A w \in Waits : /\ intents'[w].state = intents[w].state
                             /\ intents'[w].attempts = intents[w].attempts
BY InvalidatedRows DEF GateWrite, MergeTypes

\* A write to the card under the fence while the waits follow the rules.
LEMMA GatedStep ==
  ASSUME MergeTypes, GateWrite, card' \in CardRow, card'.status = "done" => card.status = "done",
         waits' \in [Waits -> WaitRow], \A w \in Waits : GatedWait(w),
         UNCHANGED <<pr, requests, hooks, managed>>, accepted \subseteq accepted',
         accepted' \subseteq Heads \cup {None},
         budget' \in MergeBudget, op' \in [Servers -> Ops], OpsMove
  PROVE  Ordinary
<1>1. /\ intents' \in [Waits -> IntentRow] /\ ~Fenced(intents)
      /\ \A w \in Waits : /\ intents'[w].state = intents[w].state
                          /\ intents'[w].attempts = intents[w].attempts
  BY GateWriteRows
<1>2. MergeTypes'
  BY <1>1 DEF MergeTypes
<1>3. Gated
  BY <1>1 DEF Gated
<1>4. PullMoves
  BY DEF PullMoves
<1> QED
  BY <1>2, <1>3, <1>4 DEF Ordinary

\* A command is paid for.
LEMMA BudgetSpent ==
  ASSUME budget \in MergeBudget
  PROVE  /\ budget.commands > 0 => [budget EXCEPT !.commands = @ - 1] \in MergeBudget
         /\ budget.changes > 0 => [budget EXCEPT !.changes = @ - 1] \in MergeBudget
         /\ budget.crashes > 0 => [budget EXCEPT !.crashes = @ - 1] \in MergeBudget
BY DEF MergeBudget

-----------------------------------------------------------------------------
(* The steps of Review and of the card's other writers. *)

\* Deliver and BeginReview move the card under the fence.
LEMMA WorkSteps ==
  ASSUME MergeTypes, Deliver \/ BeginReview
  PROVE  Ordinary
<1>1. op' \in [Servers -> Ops] /\ OpsMove
  BY StayMoves DEF MergeTypes, Deliver, BeginReview
<1>2. waits' \in [Waits -> WaitRow] /\ \A w \in Waits : GatedWait(w)
  BY DEF MergeTypes, Deliver, BeginReview, GatedWait, SameWait
<1>3. card' \in CardRow /\ (card'.status = "done" => card.status = "done")
  <2>1. CASE Deliver
    BY <2>1 DEF MergeTypes, Deliver, CardRow, CardStates
  <2>2. CASE BeginReview
    BY <2>2 DEF MergeTypes, BeginReview, CardRow, CardStates, PullRow
  <2> QED
    BY <2>1, <2>2
<1> QED
  BY <1>1, <1>2, <1>3, GatedStep DEF MergeTypes, Deliver, BeginReview

\* The review ends in an approval: the process carries it, or the card moves.
LEMMA ApproveStep ==
  ASSUME MergeTypes, NEW s \in Servers, Approve(s)
  PROVE  Ordinary
<1> DEFINE rec == [Idle EXCEPT !.pc = "approved", !.seen = pr]
<1>1. /\ accepted' = accepted \cup {card.identity}
      /\ accepted' \subseteq Heads \cup {None} /\ accepted \subseteq accepted'
  BY DEF Approve, MergeTypes, CardRow
<1>2. UNCHANGED <<waits, pr, requests, hooks, managed, budget>>
  BY DEF Approve
<1>3. waits' \in [Waits -> WaitRow] /\ \A w \in Waits : SameWait(w) /\ GatedWait(w)
  BY <1>2 DEF MergeTypes, GatedWait, SameWait
<1>4. CASE pr.state # "closed" /\ EvidenceMatches
  <2>1. /\ Goto(s, rec) /\ card' = [card EXCEPT !.reviewing = FALSE] /\ UNCHANGED intents
    BY <1>4 DEF Approve
  <2>2. rec \in Ops /\ rec.seen = pr /\ rec.pc = "approved"
    <3>1. pr \in PullRow
      BY DEF MergeTypes
    <3>2. Idle \in OpRow
      BY IdleIsSound DEF Ops
    <3>3. rec \in OpRow /\ rec.seen = pr /\ rec.pc = "approved"
      BY <3>1, <3>2 DEF OpRow
    <3> QED
      BY <3>1, <3>3 DEF Ops, Sound
  <2>3. pr.head \in accepted'
    BY <1>1, <1>4 DEF EvidenceMatches
  <2> HIDE DEF rec
  <2>4. OpMoves(s, rec)
    BY <2>2, <2>3 DEF OpMoves
  <2>5. op' \in [Servers -> Ops] /\ OpsMove
    BY <2>1, <2>2, <2>4, GotoMoves DEF MergeTypes
  <2>6. card' \in CardRow /\ card'.status = card.status /\ card'.gated = card.gated
    BY <2>1 DEF MergeTypes, CardRow
  <2>7. MergeTypes'
    BY <1>1, <1>2, <2>1, <2>5, <2>6 DEF MergeTypes
  <2>8. Calm
    BY <1>3, <2>1, <2>6 DEF Calm
  <2>9. PullMoves
    BY <1>1, <1>2 DEF PullMoves
  <2> QED
    BY <1>2, <2>5, <2>7, <2>8, <2>9 DEF Ordinary
<1>5. CASE ~(pr.state # "closed" /\ EvidenceMatches)
  <2>1. /\ GateWrite /\ UNCHANGED op
        /\ card' = [card EXCEPT !.reviewing = FALSE,
                      !.status = IF pr.state = "closed" THEN "blocked" ELSE @]
    BY <1>5 DEF Approve
  <2>2. card' \in CardRow /\ (card'.status = "done" => card.status = "done")
    BY <2>1 DEF MergeTypes, CardRow, CardStates
  <2>3. op' \in [Servers -> Ops] /\ OpsMove
    BY <2>1, StayMoves DEF MergeTypes
  <2> QED
    BY <1>1, <1>2, <1>3, <2>1, <2>2, <2>3, GatedStep DEF MergeTypes
<1> QED
  BY <1>4, <1>5

\* The card is parked before the wait is opened.
LEMMA MoveFirstStep ==
  ASSUME MergeTypes, NEW s \in Servers, MoveFirst(s)
  PROVE  Ordinary
<1>1. UNCHANGED <<waits, pr, requests, hooks, managed, accepted, budget>>
  BY DEF MoveFirst
<1>2. waits' \in [Waits -> WaitRow] /\ \A w \in Waits : GatedWait(w)
  BY <1>1 DEF MergeTypes, GatedWait, SameWait
<1>3. CASE Unchanged("in_review") /\ ~Fenced(intents)
  <2> DEFINE rec == [op[s] EXCEPT !.pc = "moved"]
  <2>1. GateWrite /\ card' = [card EXCEPT !.status = "waiting_on_external"] /\ Goto(s, rec)
    BY <1>3 DEF MoveFirst, GateWrite, Move
  <2>2. op[s] \in Ops /\ op[s].pc = "approved"
    BY DEF MergeTypes, MoveFirst
  <2>3. rec \in OpRow /\ rec.pc = "moved" /\ rec.seen = op[s].seen
    BY <2>2 DEF Ops, OpRow
  <2>4. rec \in Ops
    BY <2>2, <2>3 DEF Ops, Sound
  <2>5. OpMoves(s, rec)
    BY <2>2, <2>3 DEF OpMoves, Seeing
  <2> HIDE DEF rec
  <2>6. op' \in [Servers -> Ops] /\ OpsMove
    BY <2>1, <2>4, <2>5, GotoMoves DEF MergeTypes
  <2>7. card' \in CardRow /\ (card'.status = "done" => card.status = "done")
    BY <2>1 DEF MergeTypes, CardRow, CardStates
  <2> QED
    BY <1>1, <1>2, <2>1, <2>6, <2>7, GatedStep DEF MergeTypes
<1>4. CASE ~(Unchanged("in_review") /\ ~Fenced(intents))
  <2>1. Rest(s) /\ UNCHANGED <<card, intents>>
    BY <1>4 DEF MoveFirst
  <2> QED
    BY <1>1, <2>1, RestMoves, RestingStep DEF MergeTypes
<1> QED
  BY <1>3, <1>4

\* An operator moves the card under the fence.
LEMMA MoveCardStep ==
  ASSUME MergeTypes, NEW c, NEW status \in CardStates \ {"done"}, MoveCard(c, status)
  PROVE  Ordinary
<1>1. op' \in [Servers -> Ops] /\ OpsMove
  BY StayMoves DEF MergeTypes, MoveCard
<1>2. waits' \in [Waits -> WaitRow] /\ \A w \in Waits : GatedWait(w)
  BY DEF MergeTypes, MoveCard, GatedWait, SameWait
<1>3. card' \in CardRow /\ card'.status # "done"
  BY DEF MergeTypes, MoveCard, Moved, CardRow
<1>4. budget' \in MergeBudget
  BY BudgetSpent DEF MergeTypes, MoveCard, Commanded, Spent
<1> QED
  BY <1>1, <1>2, <1>3, <1>4, GatedStep DEF MergeTypes, MoveCard

\* An event resolves the plain waits that are open.
LEMMA GenericEventStep ==
  ASSUME MergeTypes, GenericEvent
  PROVE  Ordinary
<1>1. op' \in [Servers -> Ops] /\ OpsMove
  BY StayMoves DEF MergeTypes, GenericEvent
<1> DEFINE plain == {w \in Waits : Open(w) /\ waits[w].head = None}
<1>2. PICK status \in {"in_review", "in_progress"} :
        /\ card' = IF card.status = status THEN card ELSE Moved(status)
        /\ waits' = [w \in Waits |->
                       IF w \in plain
                       THEN [waits[w] EXCEPT !.state = IF status = "in_review" THEN "success" ELSE "failure"]
                       ELSE waits[w]]
  BY DEF GenericEvent
<1>3. card' \in CardRow /\ (card'.status = "done" => card.status = "done")
  BY <1>2 DEF MergeTypes, Moved, CardRow, CardStates
<1>4. ASSUME NEW w \in Waits PROVE waits'[w] \in WaitRow /\ GatedWait(w)
  <2>1. waits[w] \in WaitRow
    BY DEF MergeTypes
  <2>2. CASE w \in plain
    <3> DEFINE row == [waits[w] EXCEPT !.state = IF status = "in_review" THEN "success" ELSE "failure"]
    <3>1. waits'[w] = row /\ waits[w].state = "waiting"
      BY <1>2, <2>2 DEF Open
    <3>2. /\ row \in WaitRow /\ row.state \in Resolved
          /\ row.head = waits[w].head /\ row.gitea = waits[w].gitea
      BY <2>1 DEF WaitRow, WaitStates, Resolved
    <3> QED
      BY <3>1, <3>2 DEF GatedWait
  <2>3. CASE w \notin plain
    BY <1>2, <2>1, <2>3 DEF GatedWait, SameWait
  <2> QED
    BY <2>2, <2>3
<1>5. waits' \in [Waits -> WaitRow]
  <2>1. waits' = [w \in Waits |-> waits'[w]]
    BY <1>2
  <2> QED
    BY <1>4, <2>1
<1>6. budget' \in MergeBudget
  BY BudgetSpent DEF MergeTypes, GenericEvent, Commanded, Spent
<1> QED
  BY <1>1, <1>3, <1>4, <1>5, <1>6, GatedStep DEF MergeTypes, GenericEvent

\* A new plain wait takes a free row.
LEMMA NewPlainWait ==
  ASSUME MergeTypes, Free # {}, NEW row \in WaitRow, row.state = "waiting", row.head = None,
         ~row.gitea, waits' = [waits EXCEPT ![Least(Free)] = row]
  PROVE  waits' \in [Waits -> WaitRow] /\ \A w \in Waits : GatedWait(w)
<1> DEFINE n == Least(Free)
<1>1. n \in Waits /\ waits[n].state = "none"
  BY LeastIsFree
<1> HIDE DEF n
<1>2. waits' = [waits EXCEPT ![n] = row]
  BY DEF n
<1>3. /\ waits' \in [Waits -> WaitRow] /\ waits'[n] = row
      /\ \A v \in Waits \ {n} : waits'[v] = waits[v]
  BY <1>1, <1>2, WaitUpdate DEF MergeTypes
<1> QED
  BY <1>1, <1>3 DEF GatedWait, SameWait

\* The rows that are opened for plain waits.
LEMMA PlainRows ==
  LET row == [NoWait EXCEPT !.state = "waiting"]
      timed == [NoWait EXCEPT !.state = "waiting", !.timed = TRUE] IN
  /\ row \in WaitRow /\ row.state = "waiting" /\ row.head = None /\ ~row.gitea
  /\ timed \in WaitRow /\ timed.state = "waiting" /\ timed.head = None /\ ~timed.gitea
<1>1. NoWait \in WaitRow /\ TRUE \in BOOLEAN /\ "waiting" \in WaitStates
  BY Bounds DEF NoWait, WaitRow, WaitStates
<1>2. NoWait.head = None /\ ~NoWait.gitea
  BY DEF NoWait
<1> QED
  BY <1>1, <1>2 DEF WaitRow

\* A wait is opened by an operator, or reported by the agent.
LEMMA WaitSteps ==
  ASSUME MergeTypes, PlainWait \/ ReportWaiting
  PROVE  Ordinary
<1>1. op' \in [Servers -> Ops] /\ OpsMove
  BY StayMoves DEF MergeTypes, PlainWait, ReportWaiting
<1>2. card' \in CardRow /\ card'.status # "done"
  BY DEF MergeTypes, PlainWait, ReportWaiting, Moved, CardRow, CardStates
<1>3. budget' \in MergeBudget
  BY BudgetSpent DEF MergeTypes, PlainWait, ReportWaiting, Commanded, Spent
<1>4. waits' \in [Waits -> WaitRow] /\ \A w \in Waits : GatedWait(w)
  <2>1. CASE PlainWait
    BY <2>1, PlainRows, NewPlainWait DEF PlainWait
  <2>2. CASE ReportWaiting
    <3> DEFINE open == {w \in Waits : Open(w)}
    <3>1. CASE open = {} /\ Free # {} /\ waits' = [waits EXCEPT ![Least(Free)] = [NoWait EXCEPT !.state = "waiting"]]
      BY <3>1, PlainRows, NewPlainWait
    <3>2. ASSUME NEW n, n \in Waits => Open(n), waits' = [waits EXCEPT ![n].gitea = FALSE]
          PROVE  waits' \in [Waits -> WaitRow] /\ \A w \in Waits : GatedWait(w)
      <4> DEFINE row == [waits[n] EXCEPT !.gitea = FALSE]
      <4>1. n \in Waits => waits[n] \in WaitRow /\ waits[n].state = "waiting"
        BY <3>2 DEF MergeTypes, Open
      <4>2. n \in Waits => /\ row \in WaitRow /\ row.state = "waiting"
                           /\ row.head = waits[n].head /\ ~row.gitea
        BY <4>1 DEF WaitRow
      <4>3. waits' = [waits EXCEPT ![n] = row]
        BY <3>2
      <4> HIDE DEF row
      <4>4. /\ waits' \in [Waits -> WaitRow]
            /\ n \in Waits => waits'[n] = row
            /\ \A v \in Waits \ {n} : waits'[v] = waits[v]
        BY <4>2, <4>3, WaitUpdate DEF MergeTypes
      <4> QED
        BY <4>1, <4>2, <4>4 DEF GatedWait, SameWait
    <3>3. CASE open # {} /\ waits' = [waits EXCEPT ![Newest(open)].gitea = FALSE]
      <4>1. Newest(open) \in open
        BY <3>3, NewestIsMember
      <4> QED
        BY <3>2, <3>3, <4>1
    <3> QED
      BY <2>2, <3>1, <3>3 DEF ReportWaiting
  <2> QED
    BY <2>1, <2>2
<1> QED
  BY <1>1, <1>2, <1>3, <1>4, GatedStep DEF MergeTypes, PlainWait, ReportWaiting

\* A human gate is opened, decided or withdrawn.
LEMMA HumanGateStep ==
  ASSUME MergeTypes, HumanGate
  PROVE  Ordinary
<1>1. op' \in [Servers -> Ops] /\ OpsMove
  BY StayMoves DEF MergeTypes, HumanGate
<1>2. card' \in CardRow /\ card'.status = card.status
  BY DEF MergeTypes, HumanGate, CardRow
<1>3. budget' \in MergeBudget
  BY BudgetSpent DEF MergeTypes, HumanGate, Commanded, Spent
<1>4. /\ intents' \in [Waits -> IntentRow]
      /\ \A w \in Waits : /\ intents'[w].state = intents[w].state
                          /\ intents'[w].attempts = intents[w].attempts
  <2>1. CASE card.gated
    BY <2>1 DEF HumanGate, MergeTypes
  <2>2. CASE ~card.gated
    BY <2>2, InvalidatedRows DEF HumanGate, MergeTypes
  <2> QED
    BY <2>1, <2>2
<1>5. MergeTypes'
  BY <1>1, <1>2, <1>3, <1>4 DEF MergeTypes, HumanGate
<1>6. Gated
  BY <1>2, <1>4 DEF Gated, HumanGate, GatedWait, SameWait
<1>7. PullMoves
  BY DEF PullMoves, HumanGate
<1> QED
  BY <1>1, <1>5, <1>6, <1>7 DEF Ordinary, HumanGate

\* A wait runs out of time.
LEMMA TimeOutStep ==
  ASSUME MergeTypes, NEW w \in Waits, TimeOut(w)
  PROVE  Ordinary
<1> DEFINE row == [waits[w] EXCEPT !.state = "timeout"]
<1>1. op' \in [Servers -> Ops] /\ OpsMove
  BY StayMoves DEF MergeTypes, TimeOut
<1>2. card' \in CardRow /\ card'.status # "done"
  BY DEF MergeTypes, TimeOut, CardRow, CardStates
<1>3. /\ row \in WaitRow /\ row.state = "timeout"
      /\ row.head = waits[w].head /\ row.gitea = waits[w].gitea
  BY DEF MergeTypes, WaitRow, WaitStates, Resolved
<1>4. waits' = [waits EXCEPT ![w] = row] /\ waits[w].state = "waiting"
  BY DEF TimeOut, Open
<1> HIDE DEF row
<1>5. /\ waits' \in [Waits -> WaitRow] /\ waits'[w] = row
      /\ \A v \in Waits \ {w} : waits'[v] = waits[v]
  BY <1>3, <1>4, WaitUpdate DEF MergeTypes
<1>6. \A v \in Waits : GatedWait(v)
  BY <1>3, <1>4, <1>5 DEF GatedWait, SameWait, Resolved
<1> QED
  BY <1>1, <1>2, <1>5, <1>6, GatedStep DEF MergeTypes, TimeOut

-----------------------------------------------------------------------------
(* The provider. *)

\* The waiting process gets the answer of its request or does not.
LEMMA AnsweredMoves ==
  ASSUME MergeTypes, NEW r, NEW answer \in {"accepted", "retryable"}, Answered(r, answer)
  PROVE  op' \in [Servers -> Ops] /\ OpsMove
<1>1. CASE UNCHANGED op
  BY <1>1, StayMoves DEF MergeTypes
<1>2. CASE op' = [s \in Servers |->
                    IF op[s].pc = "post" /\ op[s].wait = r.wait /\ op[s].attempt = r.attempt
                    THEN [op[s] EXCEPT !.answer = answer] ELSE op[s]]
  <2>1. ASSUME NEW s \in Servers PROVE op'[s] \in Ops /\ OpMoves(s, op'[s])
    <3> DEFINE rec == [op[s] EXCEPT !.answer = answer]
               told == op[s].pc = "post" /\ op[s].wait = r.wait /\ op[s].attempt = r.attempt
    <3>1. op[s] \in Ops /\ op'[s] = IF told THEN rec ELSE op[s]
      BY <1>2 DEF MergeTypes
    <3>2. CASE told
      <4>1. /\ rec \in OpRow /\ rec.pc = "post" /\ rec.wait = op[s].wait
        BY <3>1, <3>2 DEF Ops, OpRow
      <4>2. rec \in Ops
        BY <3>1, <3>2, <4>1 DEF Ops, Sound
      <4> HIDE DEF rec
      <4>3. OpMoves(s, rec)
        BY <4>1 DEF OpMoves, Seeing
      <4> QED
        BY <3>1, <3>2, <4>2, <4>3
    <3>3. CASE ~told
      BY <3>1, <3>3, OpHolds
    <3> QED
      BY <3>2, <3>3
  <2>2. op' = [s \in Servers |-> op'[s]]
    BY <1>2
  <2> QED
    BY <2>1, <2>2 DEF OpsMove
<1> QED
  BY <1>1, <1>2 DEF Answered

\* Only the pull request and what is under way to and from it change.
LEMMA ProviderStep ==
  ASSUME MergeTypes, External, pr' \in PullRow, pr' = pr \/ pr.state # "merged",
         hooks' \subseteq hooks \cup {pr'}, requests' \subseteq requests,
         budget' \in MergeBudget, op' \in [Servers -> Ops], OpsMove
  PROVE  Ordinary
<1>1. MergeTypes'
  BY DEF MergeTypes, External
<1>2. Calm
  BY DEF Calm, SameWait, External
<1>3. PullMoves
  BY DEF PullMoves, External
<1> QED
  BY <1>1, <1>2, <1>3 DEF Ordinary

\* The provider merges or refuses, and people change the pull request.
LEMMA ProviderSteps ==
  ASSUME MergeTypes, \/ Change
                     \/ \E r \in requests : ProviderMerges(r) \/ ProviderRefuses(r)
  PROVE  Ordinary
<1>1. ASSUME NEW r \in requests, ProviderMerges(r) PROVE Ordinary
  <2>1. op' \in [Servers -> Ops] /\ OpsMove
    BY <1>1, AnsweredMoves DEF ProviderMerges
  <2>2. /\ pr' \in PullRow /\ pr.state # "merged"
        /\ hooks' \subseteq hooks \cup {pr'} /\ requests' \subseteq requests
    BY <1>1 DEF MergeTypes, ProviderMerges, Told, PullRow
  <2> QED
    BY <1>1, <2>1, <2>2, ProviderStep DEF ProviderMerges, MergeTypes
<1>2. ASSUME NEW r \in requests, ProviderRefuses(r) PROVE Ordinary
  <2>1. op' \in [Servers -> Ops] /\ OpsMove
    BY <1>2, AnsweredMoves DEF ProviderRefuses
  <2> QED
    BY <1>2, <2>1, ProviderStep DEF ProviderRefuses, MergeTypes
<1>3. CASE Change
  <2>1. op' \in [Servers -> Ops] /\ OpsMove
    BY <1>3, StayMoves DEF MergeTypes, Change
  <2>2. pr' \in PullRow /\ pr.state # "merged" /\ hooks' \subseteq hooks \cup {pr'}
    BY <1>3 DEF Change, Told, PullRow
  <2>3. budget' \in MergeBudget
    BY <1>3, BudgetSpent DEF MergeTypes, Change
  <2> QED
    BY <1>3, <2>1, <2>2, <2>3, ProviderStep DEF Change
<1> QED
  BY <1>1, <1>2, <1>3

-----------------------------------------------------------------------------
(* The manager and the checks of a wait. *)

\* Questions, authorizations and polls do not move an intent or resolve a wait.
LEMMA CalmStep ==
  ASSUME MergeTypes,
         intents' \in [Waits -> IntentRow], waits' \in [Waits -> WaitRow],
         \A w \in Waits : /\ SameWait(w)
                          /\ intents'[w].state = intents[w].state
                          /\ intents'[w].attempts = intents[w].attempts
                          /\ intents'[w].current = intents[w].current,
         UNCHANGED <<card, pr, requests, hooks, managed, accepted>>,
         budget' \in MergeBudget, op' \in [Servers -> Ops], OpsMove
  PROVE  Ordinary
<1>1. MergeTypes'
  BY DEF MergeTypes
<1>2. Calm
  BY DEF Calm
<1>3. PullMoves
  BY DEF PullMoves
<1> QED
  BY <1>1, <1>2, <1>3 DEF Ordinary

\* A process starts with a wait at hand and nothing else.
LEMMA StartMoves ==
  ASSUME MergeTypes, NEW s \in Servers, NEW rec, Goto(s, rec),
         rec \in OpRow /\ rec.pc \in {"check", "read"} /\ rec.wait \in Waits
  PROVE  op' \in [Servers -> Ops] /\ OpsMove
<1>1. rec \in Ops /\ OpMoves(s, rec)
  BY DEF Ops, Sound, OpMoves, Seeing
<1> QED
  BY <1>1, GotoMoves DEF MergeTypes

\* What a process holds when it starts.
LEMMA StartRecords ==
  ASSUME NEW w \in Waits
  PROVE  LET check == [Idle EXCEPT !.pc = "check", !.wait = w]
             read == [Idle EXCEPT !.pc = "read", !.wait = w]
             poll == [Idle EXCEPT !.pc = "read", !.wait = w, !.next = "decide"] IN
         /\ check \in OpRow /\ check.pc = "check" /\ check.wait = w
         /\ read \in OpRow /\ read.pc = "read" /\ read.wait = w
         /\ poll \in OpRow /\ poll.pc = "read" /\ poll.wait = w
<1>1. Idle \in OpRow
  BY IdleIsSound DEF Ops
<1> QED
  BY <1>1 DEF OpRow

\* The manager answers, or authorizes in a chat.
LEMMA ManagerSteps ==
  ASSUME MergeTypes, NEW w \in Waits, \/ Answer(w)
                                      \/ \E s \in Servers : ChatMerge(s, w)
  PROVE  Ordinary
<1>1. intents[w] \in IntentRow /\ \A v \in Waits : waits'[v] = waits[v]
  BY DEF MergeTypes, Answer, ChatMerge
<1>2. ASSUME NEW row \in IntentRow, row.state = intents[w].state,
             row.attempts = intents[w].attempts, row.current = intents[w].current,
             intents' = [intents EXCEPT ![w] = row]
      PROVE  /\ intents' \in [Waits -> IntentRow]
             /\ \A v \in Waits : /\ SameWait(v)
                                 /\ intents'[v].state = intents[v].state
                                 /\ intents'[v].attempts = intents[v].attempts
                                 /\ intents'[v].current = intents[v].current
  BY <1>1, <1>2, IntentUpdate DEF SameWait, MergeTypes
<1>3. CASE Answer(w)
  <2>1. PICK grant \in BOOLEAN :
          intents' = [intents EXCEPT ![w].asked = FALSE, ![w].authorized = @ \/ grant]
    <3>1. MayAuthorize(w) \in BOOLEAN
      BY DEF MayAuthorize, Parked, Unchanged, MergeWait, Reviewed, MergeTypes, IntentRow, CardRow, WaitRow
    <3> QED
      BY <1>3, <3>1 DEF Answer
  <2> DEFINE row == [intents[w] EXCEPT !.asked = FALSE, !.authorized = intents[w].authorized \/ grant]
  <2>2. (intents[w].authorized \/ grant) \in BOOLEAN
    OBVIOUS
  <2>3. row \in IntentRow
    BY <1>1, <2>2 DEF IntentRow
  <2>4. /\ row.state = intents[w].state /\ row.attempts = intents[w].attempts
        /\ row.current = intents[w].current
    BY <1>1 DEF IntentRow
  <2>5. intents' = [intents EXCEPT ![w] = row]
    BY <2>1
  <2> HIDE DEF row
  <2>6. op' \in [Servers -> Ops] /\ OpsMove
    BY <1>3, StayMoves DEF MergeTypes, Answer
  <2> QED
    BY <1>2, <1>3, <2>3, <2>4, <2>5, <2>6, CalmStep DEF MergeTypes, Answer
<1>4. ASSUME NEW s \in Servers, ChatMerge(s, w) PROVE Ordinary
  <2> DEFINE row == [intents[w] EXCEPT !.authorized = TRUE]
  <2>1. /\ row \in IntentRow /\ row.state = intents[w].state
        /\ row.attempts = intents[w].attempts /\ row.current = intents[w].current
    BY <1>1 DEF IntentRow
  <2>2. intents' = [intents EXCEPT ![w] = row]
    BY <1>4 DEF ChatMerge
  <2> HIDE DEF row
  <2>3. op' \in [Servers -> Ops] /\ OpsMove
    <3>1. Goto(s, [Idle EXCEPT !.pc = "check", !.wait = w])
      BY <1>4 DEF ChatMerge
    <3> QED
      BY <3>1, StartRecords, StartMoves
  <2>4. budget' \in MergeBudget
    BY <1>4, BudgetSpent DEF MergeTypes, ChatMerge
  <2> QED
    BY <1>2, <1>4, <2>1, <2>2, <2>3, <2>4, CalmStep DEF MergeTypes, ChatMerge
<1> QED
  BY <1>3, <1>4

\* A check asks for what is missing, or claims one poll and reads the provider.
LEMMA ReconcileStep ==
  ASSUME MergeTypes, NEW s \in Servers, NEW w \in Waits, Reconcile(s, w),
         UNCHANGED <<card, pr, requests, hooks, managed, accepted, budget>>
  PROVE  Ordinary
<1>1. waits[w] \in WaitRow /\ budget' \in MergeBudget
  BY DEF MergeTypes
<1>2. CASE Rest(s) /\ UNCHANGED <<waits, intents>>
  BY <1>1, <1>2, RestMoves, RestingStep DEF MergeTypes
<1>3. CASE intents' = Asked(intents, w) /\ Rest(s) /\ UNCHANGED waits
  BY <1>1, <1>3, RestMoves, AskedRows, CalmStep DEF MergeTypes, SameWait
<1>4. CASE /\ PollsLeft(w)
           /\ waits' = [waits EXCEPT ![w].polls = @ + 1]
           /\ Goto(s, [Idle EXCEPT !.pc = "read", !.wait = w, !.next = "decide"])
           /\ UNCHANGED intents
  <2> DEFINE row == [waits[w] EXCEPT !.polls = @ + 1]
  <2>1. waits[w].polls \in 0 .. MaxPolls /\ waits[w].polls + 1 \in 0 .. MaxPolls
    BY <1>1, <1>4, Bounds DEF WaitRow, PollsLeft
  <2>2. /\ row \in WaitRow /\ row.state = waits[w].state
        /\ row.head = waits[w].head /\ row.gitea = waits[w].gitea
    BY <1>1, <2>1 DEF WaitRow
  <2>3. waits' = [waits EXCEPT ![w] = row]
    BY <1>4
  <2> HIDE DEF row
  <2>4. /\ waits' \in [Waits -> WaitRow] /\ waits'[w] = row
        /\ \A v \in Waits \ {w} : waits'[v] = waits[v]
    BY <2>2, <2>3, WaitUpdate DEF MergeTypes
  <2>5. \A v \in Waits : SameWait(v)
    BY <2>2, <2>4 DEF SameWait
  <2>6. op' \in [Servers -> Ops] /\ OpsMove
    BY <1>4, StartRecords, StartMoves
  <2> QED
    BY <1>1, <1>4, <2>4, <2>5, <2>6, CalmStep DEF MergeTypes
<1> QED
  BY <1>2, <1>3, <1>4 DEF Reconcile

\* A process turns to another statement and keeps what it holds.
LEMMA MoveMoves ==
  ASSUME MergeTypes, NEW s \in Servers, op[s].pc \in {"handle", "decide"},
         NEW pc \in {"decide", "execute"}, Move(s, pc)
  PROVE  op' \in [Servers -> Ops] /\ OpsMove
<1> DEFINE rec == [op[s] EXCEPT !.pc = pc]
<1>1. op[s] \in Ops
  BY DEF MergeTypes
<1>2. rec \in OpRow /\ rec.pc = pc /\ rec.seen = op[s].seen /\ rec.wait = op[s].wait
  BY <1>1 DEF Ops, OpRow
<1>3. rec \in Ops
  BY <1>1, <1>2 DEF Ops, Sound
<1>4. Goto(s, rec)
  BY DEF Move
<1> HIDE DEF rec
<1>5. OpMoves(s, rec)
  BY <1>2 DEF OpMoves, Seeing
<1> QED
  BY <1>3, <1>4, <1>5, GotoMoves DEF MergeTypes

\* The steps of a process that write nothing to the database.
LEMMA RestingSteps ==
  ASSUME MergeTypes, NEW s \in Servers,
         \/ KeepWait(s) \/ ParkRefused(s) \/ ReadPull(s) \/ Ignore(s) \/ Execute(s) \/ Crash(s)
         \/ \E w \in Waits : \E p \in hooks : Webhook(s, w, p)
  PROVE  Ordinary
<1>1. ASSUME Rest(s), UNCHANGED <<card, waits, intents, pr, requests, hooks, managed, accepted>>,
             budget' \in MergeBudget
      PROVE  Ordinary
  BY <1>1, RestMoves, RestingStep DEF MergeTypes
<1>2. ASSUME NEW rec \in Ops, OpMoves(s, rec), Goto(s, rec), AtRest PROVE Ordinary
  BY <1>2, GotoMoves, RestingStep DEF MergeTypes, AtRest
<1>3. op[s] \in Ops /\ op[s] \in OpRow /\ pr \in PullRow
  BY DEF MergeTypes, Ops
<1>4. CASE KeepWait(s) \/ ParkRefused(s)
  BY <1>1, <1>4 DEF KeepWait, ParkRefused, AtRest, MergeTypes
<1>5. CASE ReadPull(s)
  <2> DEFINE rec == [op[s] EXCEPT !.pc = "handle", !.seen = pr]
  <2>1. rec \in OpRow /\ rec.pc = "handle" /\ rec.seen = pr /\ rec.wait = op[s].wait
    BY <1>3 DEF OpRow
  <2>2. op[s].wait \in Waits
    BY <1>3, <1>5 DEF Ops, Sound, ReadPull
  <2>3. CASE Goto(s, rec) /\ AtRest
    <3> HIDE DEF rec
    <3>1. rec \in Ops /\ OpMoves(s, rec)
      BY <1>3, <2>1, <2>2 DEF Ops, Sound, OpMoves
    <3> QED
      BY <1>2, <2>3, <3>1
  <2>4. CASE Rest(s) /\ AtRest
    BY <1>1, <2>4 DEF AtRest, MergeTypes
  <2> QED
    BY <1>5, <2>3, <2>4 DEF ReadPull
<1>6. CASE Ignore(s)
  <2>1. CASE Move(s, "decide")
    BY <1>6, <2>1, MoveMoves, RestingStep DEF Ignore, AtRest, MergeTypes
  <2>2. CASE Rest(s)
    BY <1>1, <1>6, <2>2 DEF Ignore, AtRest, MergeTypes
  <2> QED
    BY <1>6, <2>1, <2>2 DEF Ignore
<1>7. CASE Execute(s)
  <2> DEFINE w == op[s].wait
             rec == [op[s] EXCEPT !.pc = "claim", !.seen = intents[w].state,
                                  !.attempt = intents[w].attempts]
  <2>1. op[s].wait \in Waits
    BY <1>3, <1>7 DEF Ops, Sound, Execute
  <2>2. intents[w] \in IntentRow
    BY <2>1 DEF MergeTypes
  <2>3. /\ rec \in OpRow /\ rec.pc = "claim" /\ rec.seen = intents[w].state
        /\ rec.attempt = intents[w].attempts /\ rec.wait = w
    <3>1. /\ intents[w].state \in PullRow \cup IntentStates \cup {None}
          /\ intents[w].attempts \in 0 .. MaxAttempts
      BY <2>2 DEF IntentRow
    <3>2. rec \in OpRow
      BY <1>3, <3>1 DEF OpRow
    <3>3. ASSUME NEW x, NEW y
          PROVE  LET o == [op[s] EXCEPT !.pc = "claim", !.seen = x, !.attempt = y] IN
                 o.pc = "claim" /\ o.seen = x /\ o.attempt = y /\ o.wait = op[s].wait
      BY <1>3 DEF OpRow
    <3> QED
      BY <3>2, <3>3
  <2>4. CASE Preflight(w) /\ Goto(s, rec) /\ AtRest
    <3> HIDE DEF rec
    <3>1. rec \in Ops
      BY <2>1, <2>3, <2>4 DEF Ops, Sound, Preflight
    <3>2. OpMoves(s, rec)
      BY <2>3, <2>4 DEF OpMoves, Seeing, Preflight
    <3> QED
      BY <1>2, <2>4, <3>1, <3>2
  <2>5. CASE Rest(s) /\ AtRest
    BY <1>1, <2>5 DEF AtRest, MergeTypes
  <2> QED
    BY <1>7, <2>4, <2>5 DEF Execute
<1>8. CASE Crash(s)
  <2>1. budget' \in MergeBudget
    BY <1>8, BudgetSpent DEF MergeTypes, Crash
  <2> QED
    BY <1>1, <1>8, <2>1 DEF Crash
<1>9. ASSUME NEW w \in Waits, NEW p \in hooks, Webhook(s, w, p) PROVE Ordinary
  <2> DEFINE rec == [Idle EXCEPT !.wait = w, !.pc = IF managed THEN "read" ELSE "handle",
                                 !.seen = IF managed THEN None ELSE p]
  <2>1. Idle \in OpRow /\ p \in PullRow /\ managed \in BOOLEAN
    BY IdleIsSound DEF MergeTypes, Ops
  <2>2. /\ rec \in OpRow /\ rec.wait = w
        /\ managed => rec.pc = "read"
        /\ ~managed => rec.pc = "handle" /\ rec.seen = p
    BY <2>1 DEF OpRow
  <2>3. Goto(s, rec) /\ AtRest
    BY <1>9 DEF Webhook
  <2> HIDE DEF rec
  <2>4. rec \in Ops /\ OpMoves(s, rec)
    <3>1. CASE managed
      BY <2>2, <3>1 DEF Ops, Sound, OpMoves, Seeing
    <3>2. CASE ~managed
      BY <2>1, <2>2, <3>2 DEF Ops, Sound, OpMoves
    <3> QED
      BY <3>1, <3>2
  <2> QED
    BY <1>2, <2>3, <2>4
<1> QED
  BY <1>4, <1>5, <1>6, <1>7, <1>8, <1>9

-----------------------------------------------------------------------------
(* The steps that move an intent. *)

\* A check or a poll at hand is reconciled.
LEMMA CheckSteps ==
  ASSUME MergeTypes, NEW s \in Servers, \/ CheckParked(s)
                                        \/ \E w \in Waits : SweepPoll(s, w)
  PROVE  Ordinary
<1>1. CASE CheckParked(s)
  <2>1. op[s].wait \in Waits
    BY <1>1 DEF CheckParked, MergeTypes, Ops, Sound
  <2>2. PICK w \in Waits : w = op[s].wait
    BY <2>1
  <2> QED
    BY <1>1, <2>2, ReconcileStep DEF CheckParked
<1>2. ASSUME NEW w \in Waits, SweepPoll(s, w) PROVE Ordinary
  BY <1>2, ReconcileStep DEF SweepPoll
<1> QED
  BY <1>1, <1>2

\* The wait of the approved head is opened.
LEMMA OpenWaitStep ==
  ASSUME MergeTypes, NEW s \in Servers, OpenWait(s)
  PROVE  MergeTypes' /\ OpsMove /\ PullMoves /\ requests' \subseteq requests /\ Opened(s)
<1>1. /\ op[s] \in Ops /\ op[s].pc \in {"approved", "moved"} /\ op[s].seen \in PullRow
      /\ op[s].seen.head \in Heads
  BY DEF MergeTypes, OpenWait, MayPark, Ops, Sound, PullRow
<1>2. PICK n \in Waits : n = Least(Free) /\ waits[n].state = "none"
  BY LeastIsFree DEF OpenWait
<1>3. UNCHANGED <<pr, requests, hooks, managed, accepted, budget>>
  BY DEF OpenWait
<1>4. card' \in CardRow /\ card'.status # "done"
  BY DEF OpenWait, MergeTypes, CardRow, CardStates
<1>5. op' \in [Servers -> Ops] /\ OpsMove
  <2>1. Goto(s, [Idle EXCEPT !.pc = "check", !.wait = n])
    BY <1>2 DEF OpenWait
  <2> QED
    BY <2>1, StartRecords, StartMoves
<1>6. /\ Superseded \in [Waits -> WaitRow]
      /\ \A w \in Waits : /\ Superseded[w].head = waits[w].head
                          /\ Superseded[w].gitea = waits[w].gitea
                          /\ Superseded[w].state = IF MergeWait(w) THEN "superseded" ELSE waits[w].state
  <2>1. ASSUME NEW w \in Waits
        PROVE  /\ Superseded[w] \in WaitRow
               /\ Superseded[w].head = waits[w].head /\ Superseded[w].gitea = waits[w].gitea
               /\ Superseded[w].state = IF MergeWait(w) THEN "superseded" ELSE waits[w].state
    <3>1. waits[w] \in WaitRow /\ "superseded" \in WaitStates
      BY DEF MergeTypes, WaitStates, Resolved
    <3>2. CASE MergeWait(w)
      BY <3>1, <3>2 DEF Superseded, WaitRow
    <3>3. CASE ~MergeWait(w)
      BY <3>1, <3>3 DEF Superseded
    <3> QED
      BY <3>2, <3>3
  <2>2. Superseded = [w \in Waits |-> Superseded[w]]
    BY DEF Superseded
  <2> QED
    BY <2>1, <2>2
<1>7. /\ waits' \in [Waits -> WaitRow]
      /\ waits'[n].state = "waiting" /\ waits'[n].head = op[s].seen.head
      /\ \A w \in Waits \ {n} :
           /\ waits'[w].head = waits[w].head /\ waits'[w].gitea = waits[w].gitea
           /\ waits'[w].state = IF MergeWait(w) THEN "superseded" ELSE waits[w].state
  <2> DEFINE row == [NoWait EXCEPT !.state = "waiting", !.head = op[s].seen.head, !.gitea = TRUE]
  <2>1. NoWait \in WaitRow /\ "waiting" \in WaitStates /\ TRUE \in BOOLEAN
    BY Bounds DEF NoWait, WaitRow, WaitStates
  <2>2. row \in WaitRow /\ row.state = "waiting" /\ row.head = op[s].seen.head
    BY <1>1, <2>1 DEF WaitRow
  <2>3. waits' = [Superseded EXCEPT ![n] = row]
    BY <1>2 DEF OpenWait
  <2> HIDE DEF row
  <2>4. /\ waits' \in [Waits -> WaitRow] /\ waits'[n] = row
        /\ \A v \in Waits \ {n} : waits'[v] = Superseded[v]
    BY <1>6, <2>2, <2>3, WaitUpdate
  <2> QED
    BY <1>6, <2>2, <2>4
<1>8. /\ Replaced(s) \in [Waits -> IntentRow]
      /\ \A w \in Waits : /\ Replaced(s)[w].attempts = intents[w].attempts
                          /\ \/ Replaced(s)[w].state = intents[w].state
                             \/ /\ intents[w].state \in Unsent
                                /\ Replaced(s)[w].state = "superseded"
  <2>1. ASSUME NEW w \in Waits
        PROVE  /\ Replaced(s)[w] \in IntentRow
               /\ Replaced(s)[w].attempts = intents[w].attempts
               /\ \/ Replaced(s)[w].state = intents[w].state
                  \/ intents[w].state \in Unsent /\ Replaced(s)[w].state = "superseded"
    <3>1. intents[w] \in IntentRow /\ "superseded" \in IntentStates
      BY DEF MergeTypes, IntentStates, SettledStates
    <3>2. CASE w \in SameWaits(s) /\ managed
      <4>1. intents[w].state \in Unsent
        BY <3>2 DEF OpenWait
      <4>2. Replaced(s)[w] = [intents[w] EXCEPT !.state = "superseded"]
        BY <3>2 DEF Replaced
      <4> QED
        BY <3>1, <4>1, <4>2 DEF IntentRow
    <3>3. CASE ~(w \in SameWaits(s) /\ managed)
      BY <3>1, <3>3 DEF Replaced
    <3> QED
      BY <3>2, <3>3
  <2>2. Replaced(s) = [w \in Waits |-> Replaced(s)[w]]
    BY DEF Replaced
  <2> QED
    BY <2>1, <2>2
<1>9. /\ intents' \in [Waits -> IntentRow]
      /\ intents'[n].state \in {"prepared", Replaced(s)[n].state}
      /\ intents'[n].attempts \in {0, intents[n].attempts}
      /\ \A w \in Waits \ {n} : /\ intents'[w].attempts = intents[w].attempts
                                /\ intents'[w].state = Replaced(s)[w].state
  <2> DEFINE is == Invalidated(Replaced(s))
             new == [NoIntent EXCEPT !.state = "prepared", !.current = TRUE]
             row == IF managed THEN new ELSE is[n]
  <2>1. /\ is \in [Waits -> IntentRow]
        /\ \A w \in Waits : /\ is[w].state = Replaced(s)[w].state
                            /\ is[w].attempts = intents[w].attempts
    BY <1>8, InvalidatedRows
  <2>2. NoIntent \in IntentRow /\ "prepared" \in IntentStates /\ TRUE \in BOOLEAN
    BY Bounds DEF NoIntent, IntentRow, IntentStates, Unsent
  <2>3. new \in IntentRow /\ new.state = "prepared" /\ new.attempts = 0
    BY <2>2 DEF IntentRow, NoIntent
  <2>4. intents' = [is EXCEPT ![n] = row]
    BY <1>2 DEF OpenWait
  <2> HIDE DEF is, new
  <2>5. row \in IntentRow /\ (row = new \/ row = is[n])
    BY <2>1, <2>3
  <2> HIDE DEF row
  <2>6. /\ intents' \in [Waits -> IntentRow] /\ intents'[n] = row
        /\ \A v \in Waits \ {n} : intents'[v] = is[v]
    BY <2>1, <2>4, <2>5, IntentUpdate
  <2> QED
    BY <2>1, <2>3, <2>5, <2>6
<1>10. MergeTypes'
  BY <1>3, <1>4, <1>5, <1>7, <1>9 DEF MergeTypes
<1>11. n \notin SameWaits(s)
  BY <1>2 DEF SameWaits, MergeWait, Open
<1>12. intents'[n].state \in {"prepared", intents[n].state}
  BY <1>9, <1>11 DEF Replaced
<1>13. ~Fenced(intents')
  BY <1>9 DEF OpenWait, Fenced, Active
<1>14. PullMoves
  BY <1>3 DEF PullMoves
<1>15. Opened(s)
  <2>1. \A w \in Waits \ {n} :
          /\ intents'[w].attempts = intents[w].attempts
          /\ \/ intents'[w].state = intents[w].state
             \/ intents[w].state \in Unsent /\ intents'[w].state = "superseded"
    BY <1>8, <1>9
  <2> QED
    BY <1>1, <1>2, <1>4, <1>7, <1>9, <1>12, <1>13, <2>1 DEF Opened
<1> QED
  BY <1>3, <1>5, <1>10, <1>14, <1>15

\* What a verdict says and what is made of it.
LEMMA Verdicts ==
  ASSUME NEW w \in Waits, NEW p \in PullRow
  PROVE  LET v == MergeVerdict(w, p) IN
         /\ v \in {"success", "failure", "ignore", "drift"}
         /\ v = "success" => p.state = "merged" /\ p.head = waits[w].head
BY DEF MergeVerdict, PullRow

\* The columns a verdict is written to.
LEMMA VerdictColumns ==
  ASSUME NEW v \in {"success", "failure", "drift"}
  PROVE  /\ StatusFor[v] \in CardStates /\ (StatusFor[v] = "done" => v = "success")
         /\ IntentFor[v] \in SettledStates /\ WaitFor[v] \in Resolved
BY DEF StatusFor, IntentFor, WaitFor, CardStates, SettledStates, Resolved

\* A verdict is applied, or comes too late.
LEMMA HandleStep ==
  ASSUME MergeTypes, NEW s \in Servers, Handle(s)
  PROVE  \/ Ordinary
         \/ MergeTypes' /\ OpsMove /\ PullMoves /\ requests' \subseteq requests /\ Applied(s)
<1>1. /\ op[s] \in Ops /\ op[s].pc = "handle" /\ op[s].wait \in Waits
      /\ op[s].seen \in PullRow
  BY DEF MergeTypes, Handle, Ops, Sound
<1>2. PICK w \in Waits : w = op[s].wait
  BY <1>1
<1>3. PICK v \in {"success", "failure", "drift"} : v = MergeVerdict(w, op[s].seen)
  BY <1>1, <1>2, Verdicts DEF Handle
<1>4. PICK settled : settled = Settled(w, IntentFor[v])
  OBVIOUS
<1>5. op' \in [Servers -> Ops] /\ OpsMove
  BY RestMoves DEF Handle, MergeTypes
<1>6. UNCHANGED <<pr, requests, hooks, managed, accepted, budget>>
  BY DEF Handle
<1>7. CASE UNCHANGED <<card, waits, intents>>
  BY <1>5, <1>6, <1>7, RestingStep DEF MergeTypes
<1>8. CASE /\ Parked /\ Claims(w) /\ ~Fenced(settled)
           /\ card' = [card EXCEPT !.status = StatusFor[v]]
           /\ waits' = [waits EXCEPT ![w].state = WaitFor[v]]
           /\ intents' = Invalidated(settled)
  <2>1. /\ StatusFor[v] \in CardStates /\ (StatusFor[v] = "done" => v = "success")
        /\ IntentFor[v] \in SettledStates /\ WaitFor[v] \in Resolved
    BY VerdictColumns
  <2>2. /\ card' \in CardRow
        /\ card'.status = "done" => /\ op[s].seen.state = "merged"
                                    /\ op[s].seen.head = waits[w].head
    <3>1. card' \in CardRow /\ card'.status = StatusFor[v]
      BY <1>8, <2>1 DEF MergeTypes, CardRow
    <3> QED
      BY <1>1, <1>3, <2>1, <3>1, Verdicts
  <2>3. /\ waits' \in [Waits -> WaitRow]
        /\ waits'[w].state \in Resolved
        /\ \A x \in Waits : /\ waits'[x].head = waits[x].head /\ waits'[x].gitea = waits[x].gitea
                            /\ x # w => waits'[x].state = waits[x].state
    <3> DEFINE row == [waits[w] EXCEPT !.state = WaitFor[v]]
    <3>1. waits[w] \in WaitRow /\ WaitFor[v] \in WaitStates
      BY <2>1 DEF MergeTypes, WaitStates
    <3>2. /\ row \in WaitRow /\ row.state = WaitFor[v]
          /\ row.head = waits[w].head /\ row.gitea = waits[w].gitea
      BY <3>1 DEF WaitRow
    <3>3. waits' = [waits EXCEPT ![w] = row]
      BY <1>8
    <3> HIDE DEF row
    <3>4. /\ waits' \in [Waits -> WaitRow] /\ waits'[w] = row
          /\ \A x \in Waits \ {w} : waits'[x] = waits[x]
      BY <3>2, <3>3, WaitUpdate DEF MergeTypes
    <3> QED
      BY <2>1, <3>2, <3>4
  <2>4. /\ settled \in [Waits -> IntentRow]
        /\ settled[w].state = IF intents[w].state \in Active \cup Unsent
                              THEN IntentFor[v] ELSE intents[w].state
        /\ \A x \in Waits : /\ settled[x].attempts = intents[x].attempts
                            /\ x # w => settled[x] = intents[x]
    BY <1>4, <2>1, SettledRows DEF MergeTypes
  <2>5. /\ intents' \in [Waits -> IntentRow]
        /\ \A x \in Waits : /\ intents'[x].state = settled[x].state
                            /\ intents'[x].attempts = settled[x].attempts
    BY <1>8, <2>4, InvalidatedRows
  <2>6. ~Fenced(intents')
    BY <1>8, <2>5 DEF Fenced
  <2>7. \A x \in Waits : \/ intents'[x].state = intents[x].state
                         \/ /\ intents[x].state \in Active \cup Unsent
                            /\ intents'[x].state \in SettledStates
    BY <2>1, <2>4, <2>5
  <2>8. MergeTypes'
    BY <1>5, <1>6, <2>2, <2>3, <2>5 DEF MergeTypes
  <2>9. Open(w) /\ PullMoves
    BY <1>6, <1>8 DEF Claims, PullMoves
  <2>10. Applied(s)
    BY <1>1, <1>2, <2>2, <2>3, <2>4, <2>5, <2>6, <2>7, <2>9 DEF Applied
  <2> QED
    BY <1>5, <1>6, <2>8, <2>9, <2>10
<1> QED
  BY <1>2, <1>3, <1>4, <1>7, <1>8 DEF Handle

\* A process decides what becomes of a candidate it has seen open.
LEMMA DecideStep ==
  ASSUME MergeTypes, NEW s \in Servers, Decide(s)
  PROVE  MergeTypes' /\ OpsMove /\ PullMoves /\ requests' \subseteq requests /\ Revised
<1>1. op[s].wait \in Waits /\ op[s].pc = "decide"
  BY DEF MergeTypes, Decide, Ops, Sound
<1>2. PICK w \in Waits : w = op[s].wait
  BY <1>1
<1>3. PICK is : is = Reopened(w, op[s].seen)
  OBVIOUS
<1>4. UNCHANGED <<card, waits, pr, requests, hooks, managed, accepted, budget>>
  BY DEF Decide
<1>5. /\ is \in [Waits -> IntentRow]
      /\ \A v \in Waits : /\ is[v].attempts = intents[v].attempts
                          /\ is[v].current = intents[v].current
                          /\ v # w => is[v] = intents[v]
      /\ \/ is[w].state = intents[w].state
         \/ /\ intents[w].state \in {"uncertain", "in_flight"}
            /\ is[w].state = "retryable"
  BY <1>3, ReopenedRows DEF MergeTypes
<1>6. /\ intents' \in [Waits -> IntentRow]
      /\ \A v \in Waits : /\ intents'[v].state = is[v].state
                          /\ intents'[v].attempts = is[v].attempts
                          /\ intents'[v].current = is[v].current
      /\ op' \in [Servers -> Ops] /\ OpsMove
  <2>1. CASE intents' = Asked(is, w) /\ Rest(s)
    BY <1>5, <2>1, AskedRows, RestMoves DEF MergeTypes
  <2>2. CASE intents' = is /\ Move(s, "execute")
    BY <1>1, <1>5, <2>2, MoveMoves
  <2> QED
    BY <1>2, <1>3, <2>1, <2>2 DEF Decide
<1>7. MergeTypes'
  BY <1>4, <1>6 DEF MergeTypes
<1>8. Revised
  BY <1>4, <1>5, <1>6 DEF Revised, Active
<1>9. PullMoves
  BY <1>4 DEF PullMoves
<1> QED
  BY <1>4, <1>6, <1>7, <1>8, <1>9

\* The answer of a request is written back.
LEMMA WriteBackStep ==
  ASSUME MergeTypes, NEW s \in Servers, WriteBack(s)
  PROVE  MergeTypes' /\ OpsMove /\ PullMoves /\ requests' \subseteq requests /\ Revised
<1>1. op[s].wait \in Waits /\ op[s] \in OpRow
  BY DEF MergeTypes, WriteBack, Ops, Sound
<1>2. PICK w \in Waits : w = op[s].wait
  BY <1>1
<1>3. PICK state \in {"uncertain", "accepted", "retryable"} :
        state = IF op[s].answer = None THEN "uncertain" ELSE op[s].answer
  BY <1>1 DEF OpRow
<1>4. UNCHANGED <<card, waits, pr, requests, hooks, managed, accepted, budget>>
  BY DEF WriteBack
<1>5. op' \in [Servers -> Ops] /\ OpsMove
  <2>1. Goto(s, [Idle EXCEPT !.pc = "read", !.wait = w])
    BY <1>2 DEF WriteBack
  <2> QED
    BY <2>1, StartRecords, StartMoves
<1>6. /\ intents' \in [Waits -> IntentRow]
      /\ \A v \in Waits : /\ intents'[v].attempts = intents[v].attempts
                          /\ intents'[v].current = intents[v].current
                          /\ \/ intents'[v].state = intents[v].state
                             \/ /\ intents[v].state \in Active
                                /\ intents'[v].state \in {"uncertain", "accepted", "retryable"}
  <2>1. CASE intents[w].state = "in_flight" /\ intents' = [intents EXCEPT ![w].state = state]
    <3>1. state \in IntentStates
      BY DEF IntentStates, Active, Unsent
    <3>2. /\ intents' \in [Waits -> IntentRow] /\ intents'[w].state = state
          /\ intents'[w].attempts = intents[w].attempts /\ intents'[w].current = intents[w].current
          /\ \A v \in Waits \ {w} : intents'[v] = intents[v]
      BY <2>1, <3>1, StateUpdate DEF MergeTypes
    <3> QED
      BY <2>1, <3>2 DEF Active
  <2>2. CASE intents' = intents
    BY <2>2 DEF MergeTypes
  <2> QED
    BY <1>2, <1>3, <2>1, <2>2 DEF WriteBack, StillInFlight
<1>7. MergeTypes'
  BY <1>4, <1>5, <1>6 DEF MergeTypes
<1>8. Revised
  BY <1>4, <1>6 DEF Revised
<1>9. PullMoves
  BY <1>4 DEF PullMoves
<1> QED
  BY <1>4, <1>5, <1>7, <1>8, <1>9

\* An attempt is claimed, or what was read no longer holds.
LEMMA ClaimStep ==
  ASSUME MergeTypes, NEW s \in Servers, Claim(s)
  PROVE  \/ Ordinary
         \/ MergeTypes' /\ OpsMove /\ PullMoves /\ Claimed(s)
<1>1. /\ op[s] \in Ops /\ op[s] \in OpRow /\ op[s].wait \in Waits /\ op[s].pc = "claim"
      /\ op[s].seen \in Unsent \cup {"uncertain", "in_flight"} /\ op[s].attempt < MaxAttempts
  BY DEF MergeTypes, Claim, Ops, Sound
<1>2. PICK w \in Waits : w = op[s].wait
  BY <1>1
<1>3. UNCHANGED <<card, waits, pr, hooks, managed, accepted, budget>>
  BY DEF Claim
<1>4. PICK n : n = intents[w].attempts + 1
  OBVIOUS
<1>5. CASE Rest(s) /\ UNCHANGED <<intents, requests>>
  BY <1>3, <1>5, RestMoves, RestingStep DEF MergeTypes
<1>6. CASE /\ Parked /\ intents[w].current /\ MergeWait(w) /\ SameAttempt(s)
           /\ intents' = [intents EXCEPT ![w].state = "in_flight", ![w].attempts = n]
           /\ requests' = requests \cup {[wait |-> w, head |-> waits[w].head, attempt |-> n]}
           /\ Goto(s, [op[s] EXCEPT !.pc = "post", !.seen = None, !.attempt = n])
  <2>1. intents[w] \in IntentRow /\ waits[w].head \in Heads \cup {None}
    BY DEF MergeTypes, WaitRow
  <2>2. intents[w].state = op[s].seen /\ n \in 0 .. MaxAttempts
    BY <1>1, <1>2, <1>4, <1>6, <2>1, Bounds DEF SameAttempt, IntentRow
  <2> DEFINE row == [intents[w] EXCEPT !.state = "in_flight", !.attempts = n]
             rec == [op[s] EXCEPT !.pc = "post", !.seen = None, !.attempt = n]
  <2>3. "in_flight" \in IntentStates
    BY DEF IntentStates, Active
  <2>4. /\ row \in IntentRow /\ row.state = "in_flight" /\ row.attempts = n
        /\ row.current = intents[w].current
    BY <2>1, <2>2, <2>3 DEF IntentRow
  <2>5. intents' = [intents EXCEPT ![w] = row]
    BY <1>6
  <2> HIDE DEF row
  <2>6. /\ intents' \in [Waits -> IntentRow] /\ intents'[w] = row
        /\ \A v \in Waits \ {w} : intents'[v] = intents[v]
    BY <2>4, <2>5, IntentUpdate DEF MergeTypes
  <2>7. rec \in OpRow /\ rec.pc = "post" /\ rec.wait = w
    BY <1>1, <1>2, <2>2 DEF OpRow
  <2>8. Goto(s, rec)
    BY <1>6
  <2> HIDE DEF rec
  <2>9. rec \in Ops /\ OpMoves(s, rec)
    BY <2>7 DEF Ops, Sound, OpMoves, Seeing
  <2>10. /\ op' \in [Servers -> Ops] /\ OpsMove /\ op'[s] = rec
         /\ \A t \in Servers \ {s} : op'[t] = op[t]
    BY <2>8, <2>9, GotoMoves, OpUpdate DEF MergeTypes
  <2>11. requests' \subseteq RequestRow
    BY <1>6, <2>1, <2>2 DEF MergeTypes, RequestRow
  <2>12. MergeTypes'
    BY <1>3, <2>6, <2>10, <2>11 DEF MergeTypes
  <2>13. PullMoves
    BY <1>3 DEF PullMoves
  <2>14. Claimed(s)
    <3>1. intents[w].state \in Unsent \cup Active
      BY <1>1, <2>2 DEF Active
    <3>2. /\ intents'[w].state = "in_flight" /\ intents'[w].attempts = n
          /\ intents'[w].current = intents[w].current
      BY <2>4, <2>6
    <3> QED
      BY <1>1, <1>2, <1>3, <1>4, <1>6, <2>6, <2>7, <2>10, <3>1, <3>2 DEF Claimed
  <2> QED
    BY <2>10, <2>12, <2>13, <2>14
<1> QED
  BY <1>2, <1>4, <1>5, <1>6 DEF Claim

-----------------------------------------------------------------------------
(* Every step. *)

\* A step that changes nothing.
LEMMA StutteringStep ==
  ASSUME MergeTypes, UNCHANGED mergeVars
  PROVE  Ordinary
BY StayMoves, RestingStep DEF MergeTypes, mergeVars

\* The actions that are calm or gated.
LEMMA OrdinarySteps ==
  ASSUME MergeTypes,
         \/ Deliver \/ BeginReview \/ Operator \/ Change
         \/ \E r \in requests : ProviderMerges(r) \/ ProviderRefuses(r)
         \/ \E w \in Waits : Answer(w) \/ TimeOut(w)
         \/ \E s \in Servers :
              \/ Approve(s) \/ MoveFirst(s) \/ KeepWait(s) \/ ParkRefused(s)
              \/ CheckParked(s) \/ ReadPull(s) \/ Ignore(s) \/ Execute(s) \/ Crash(s)
              \/ \E w \in Waits : \/ ChatMerge(s, w) \/ SweepPoll(s, w)
                                  \/ \E p \in hooks : Webhook(s, w, p)
  PROVE  Ordinary
<1>1. CASE Operator
  <2>1. CASE Rework
    BY <2>1, MoveCardStep DEF Rework, CardStates
  <2>2. CASE Cancel
    BY <2>2, MoveCardStep DEF Cancel, CardStates
  <2> QED
    BY <1>1, <2>1, <2>2, GenericEventStep, WaitSteps, HumanGateStep DEF Operator
<1>2. ASSUME NEW s \in Servers, NEW w \in Waits,
             ChatMerge(s, w) \/ SweepPoll(s, w) \/ \E p \in hooks : Webhook(s, w, p)
      PROVE  Ordinary
  BY <1>2, ManagerSteps, CheckSteps, RestingSteps
<1>3. ASSUME NEW s \in Servers,
             \/ Approve(s) \/ MoveFirst(s) \/ KeepWait(s) \/ ParkRefused(s)
             \/ CheckParked(s) \/ ReadPull(s) \/ Ignore(s) \/ Execute(s) \/ Crash(s)
      PROVE  Ordinary
  BY <1>3, ApproveStep, MoveFirstStep, CheckSteps, RestingSteps
<1>4. ASSUME NEW w \in Waits, Answer(w) \/ TimeOut(w) PROVE Ordinary
  BY <1>4, ManagerSteps, TimeOutStep
<1> QED
  BY <1>1, <1>2, <1>3, <1>4, WorkSteps, ProviderSteps

\* Every step keeps the types and is of one of the six kinds.
StepKind ==
  /\ MergeTypes' /\ OpsMove /\ PullMoves
  /\ \/ requests' \subseteq requests /\ (Calm \/ Gated \/ Revised)
     \/ requests' \subseteq requests /\ \E s \in Servers : Opened(s) \/ Applied(s)
     \/ \E s \in Servers : Claimed(s)

\* The kinds of steps.
LEMMA StepKinds ==
  ASSUME MergeTypes, [MergeNext]_mergeVars
  PROVE  StepKind
<1>1. Ordinary => StepKind
  BY DEF Ordinary, StepKind
<1>2. ASSUME NEW s \in Servers, OpenWait(s) \/ Handle(s) PROVE StepKind
  BY <1>1, <1>2, OpenWaitStep, HandleStep DEF StepKind
<1>3. ASSUME NEW s \in Servers, Decide(s) \/ WriteBack(s) PROVE StepKind
  BY <1>3, DecideStep, WriteBackStep DEF StepKind
<1>4. ASSUME NEW s \in Servers, Claim(s) PROVE StepKind
  BY <1>1, <1>4, ClaimStep DEF StepKind
<1>5. CASE UNCHANGED mergeVars
  BY <1>1, <1>5, StutteringStep
<1>6. CASE MergeNext
  BY <1>1, <1>2, <1>3, <1>4, <1>6, OrdinarySteps DEF MergeNext, Review, Step, Merge
<1> QED
  BY <1>5, <1>6

-----------------------------------------------------------------------------
(* The inductive invariant. *)

\* A row that no wait uses has neither an intent nor a request.
FreeRows ==
  \A w \in Waits : waits[w].state = "none" =>
    intents[w].state = "none" /\ intents[w].attempts = 0 /\ RequestOver(w)

\* Two merge waits that are open are one.
OneOpen == \A v, w \in Waits : MergeWait(v) /\ MergeWait(w) => v = w

\* A process that is about to claim has seen every earlier request of its wait
\* over, unless an attempt was claimed since.
ClaimsAreNext ==
  \A s \in Servers : op[s].pc = "claim" =>
    /\ op[s].attempt <= intents[op[s].wait].attempts
    /\ intents[op[s].wait].attempts = op[s].attempt => RequestOver(op[s].wait)

\* Whoever was told of a merge was told what the provider shows.
MergesAreShown ==
  /\ \A p \in hooks : p.state = "merged" => p = pr
  /\ \A s \in Servers : op[s].pc \in Seeing /\ op[s].seen.state = "merged" => op[s].seen = pr

\* Waits are opened for heads whose review ended in an approval.
HeadsAreApproved ==
  /\ \A s \in Servers : op[s].pc \in {"approved", "moved"} => op[s].seen.head \in accepted
  /\ \A w \in Waits : waits[w].head # None => waits[w].head \in accepted

MergeInv ==
  /\ MergeTypes /\ FreeRows /\ OneOpen /\ MergeIsFenced /\ ClaimsAreNext /\ OneRequest
  /\ MergesAreShown /\ HeadsAreApproved /\ DoneIsMerged

\* Initially nothing was opened, sent, read or approved.
LEMMA MergeInitially == MergeInit => MergeInv
<1> SUFFICES ASSUME MergeInit PROVE MergeInv
  OBVIOUS
<1>1. NoWait \in WaitRow /\ NoWait.state = "none" /\ NoWait.head = None
  BY Bounds DEF NoWait, WaitRow, WaitStates
<1>2. NoIntent \in IntentRow /\ NoIntent.state = "none" /\ NoIntent.attempts = 0
  BY Bounds DEF NoIntent, IntentRow, IntentStates
<1>3. /\ \A w \in Waits : waits[w] = NoWait /\ intents[w] = NoIntent
      /\ \A s \in Servers : op[s] = Idle
      /\ requests = {} /\ hooks = {} /\ accepted = {}
  BY DEF MergeInit
<1>4. MergeTypes
  <2>1. waits \in [Waits -> WaitRow] /\ intents \in [Waits -> IntentRow]
    BY <1>1, <1>2 DEF MergeInit
  <2>2. op \in [Servers -> Ops]
    BY IdleIsSound DEF MergeInit
  <2>3. card \in CardRow /\ card.status # "done"
    BY DEF MergeInit, CardRow, CardStates
  <2>4. pr \in PullRow /\ managed \in BOOLEAN /\ budget \in MergeBudget
    BY MergeAssumption DEF MergeInit, PullRow
  <2> QED
    BY <1>3, <2>1, <2>2, <2>3, <2>4 DEF MergeTypes
<1>5. FreeRows /\ OneOpen
  BY <1>1, <1>2, <1>3 DEF FreeRows, OneOpen, MergeWait, Open, RequestOver
<1>6. MergeIsFenced
  BY <1>2, <1>3 DEF MergeIsFenced, Active
<1>7. ClaimsAreNext /\ OneRequest /\ MergesAreShown /\ HeadsAreApproved
  BY <1>1, <1>3, IdleIsSound DEF ClaimsAreNext, OneRequest, MergesAreShown, HeadsAreApproved, Seeing
<1>8. DoneIsMerged
  BY DEF MergeInit, DoneIsMerged
<1> QED
  BY <1>4, <1>5, <1>6, <1>7, <1>8 DEF MergeInv

\* A request that is over stays over until an attempt of its wait is claimed.
LEMMA RequestsEnd ==
  ASSUME requests' \subseteq requests, NEW w, RequestOver(w)
  PROVE  RequestOver(w)'
BY DEF RequestOver

\* Rows are taken with their intent and their first request.
LEMMA FreeRowsStep ==
  ASSUME MergeTypes, StepKind, FreeRows
  PROVE  FreeRows'
<1> SUFFICES ASSUME NEW w \in Waits, waits'[w].state = "none"
             PROVE  intents'[w].state = "none" /\ intents'[w].attempts = 0 /\ RequestOver(w)'
  BY DEF FreeRows
<1>1. ASSUME waits[w].state = "none", intents'[w].state = intents[w].state,
             intents'[w].attempts = intents[w].attempts, requests' \subseteq requests
      PROVE  intents'[w].state = "none" /\ intents'[w].attempts = 0 /\ RequestOver(w)'
  BY <1>1, RequestsEnd DEF FreeRows
<1>2. waits[w].state = "none" =>
        intents[w].state = "none" /\ intents[w].attempts = 0 /\ RequestOver(w)
  BY DEF FreeRows
<1>3. CASE requests' \subseteq requests /\ Calm
  BY <1>1, <1>3 DEF Calm, SameWait
<1>4. CASE requests' \subseteq requests /\ Gated
  BY <1>1, <1>4 DEF Gated, GatedWait, SameWait, Resolved
<1>5. CASE requests' \subseteq requests /\ Revised
  BY <1>1, <1>2, <1>5 DEF Revised, Active
<1>6. ASSUME requests' \subseteq requests, NEW s \in Servers, Opened(s)
      PROVE  waits[w].state = "none" /\ intents'[w].state = intents[w].state
             /\ intents'[w].attempts = intents[w].attempts
  BY <1>2, <1>6 DEF Opened, Unsent
<1>7. ASSUME requests' \subseteq requests, NEW s \in Servers, Applied(s)
      PROVE  waits[w].state = "none" /\ intents'[w].state = intents[w].state
             /\ intents'[w].attempts = intents[w].attempts
  BY <1>2, <1>7 DEF Applied, Unsent, Active, Resolved
<1>8. ASSUME NEW s \in Servers, Claimed(s)
      PROVE  intents'[w].state = "none" /\ intents'[w].attempts = 0 /\ RequestOver(w)'
  <2>1. /\ waits[w].state = "none" /\ w # op[s].wait /\ intents'[w] = intents[w]
    BY <1>8 DEF Claimed, MergeWait, Open
  <2>2. \A r \in requests' : r \in requests \/ r.wait = op[s].wait
    BY <1>8 DEF Claimed
  <2> QED
    BY <1>2, <2>1, <2>2 DEF RequestOver
<1> QED
  BY <1>1, <1>3, <1>4, <1>5, <1>6, <1>7, <1>8 DEF StepKind

\* A merge wait is opened only where the others are superseded.
LEMMA OneOpenStep ==
  ASSUME StepKind, OneOpen
  PROVE  OneOpen'
<1>1. (\A w \in Waits : MergeWait(w)' => MergeWait(w)) => OneOpen'
  BY DEF OneOpen
<1>2. CASE Calm
  BY <1>1, <1>2 DEF Calm, SameWait, MergeWait, Open
<1>3. CASE Gated
  BY <1>1, <1>3 DEF Gated, GatedWait, SameWait, MergeWait, Open, Resolved
<1>4. CASE Revised
  BY <1>1, <1>4 DEF Revised, MergeWait, Open
<1>5. ASSUME NEW s \in Servers, Opened(s) PROVE OneOpen'
  <2>1. PICK n \in Waits : \A w \in Waits \ {n} :
          /\ waits'[w].gitea = waits[w].gitea
          /\ waits'[w].state = IF MergeWait(w) THEN "superseded" ELSE waits[w].state
    BY <1>5 DEF Opened
  <2>2. \A w \in Waits \ {n} : ~MergeWait(w)'
    BY <2>1 DEF MergeWait, Open
  <2> QED
    BY <2>2 DEF OneOpen
<1>6. ASSUME NEW s \in Servers, Applied(s) PROVE OneOpen'
  BY <1>1, <1>6 DEF Applied, MergeWait, Open, Resolved
<1>7. ASSUME NEW s \in Servers, Claimed(s) PROVE OneOpen'
  BY <1>1, <1>7 DEF Claimed, MergeWait, Open
<1> QED
  BY <1>2, <1>3, <1>4, <1>5, <1>6, <1>7 DEF StepKind

\* Nobody moves a card with an active intent, and an intent becomes active only
\* on the one open merge wait.
LEMMA FencedStep ==
  ASSUME StepKind, OneOpen, MergeIsFenced
  PROVE  MergeIsFenced'
<1> DEFINE active(w) == intents[w].state \in Active
           held(w) == Parked /\ MergeWait(w) /\ intents[w].current
<1>1. \A w \in Waits : active(w) => held(w) /\ \A v \in Waits \ {w} : ~active(v)
  BY DEF MergeIsFenced
<1>2. ASSUME \A w \in Waits : active(w)' => active(w) /\ (held(w) => held(w)')
      PROVE  MergeIsFenced'
  BY <1>1, <1>2 DEF MergeIsFenced
<1>3. ASSUME ~Fenced(intents') PROVE MergeIsFenced'
  BY <1>3 DEF Fenced, MergeIsFenced
<1>4. CASE Calm
  BY <1>2, <1>4 DEF Calm, SameWait, Parked, Unchanged, MergeWait, Open
<1>5. CASE Gated
  BY <1>3, <1>5 DEF Gated, Fenced
<1>6. CASE Revised
  BY <1>2, <1>6 DEF Revised, Parked, Unchanged, MergeWait, Open
<1>7. ASSUME NEW s \in Servers, Opened(s) \/ Applied(s) PROVE MergeIsFenced'
  BY <1>3, <1>7 DEF Opened, Applied
<1>8. ASSUME NEW s \in Servers, Claimed(s) PROVE MergeIsFenced'
  <2>1. PICK w \in Waits : w = op[s].wait
    BY <1>8 DEF Claimed
  <2>2. /\ Parked /\ MergeWait(w) /\ intents'[w].current /\ UNCHANGED <<card, waits>>
        /\ \A v \in Waits \ {w} : intents'[v] = intents[v]
    BY <1>8, <2>1 DEF Claimed
  <2>3. \A v \in Waits \ {w} : ~active(v)
    BY <1>1, <2>2 DEF OneOpen
  <2>4. Parked' /\ MergeWait(w)'
    BY <2>2 DEF Parked, Unchanged, MergeWait, Open
  <2> QED
    BY <2>2, <2>3, <2>4 DEF MergeIsFenced
<1> QED
  BY <1>4, <1>5, <1>6, <1>7, <1>8 DEF StepKind

\* An attempt of a wait never counts down.
LEMMA AttemptsGrow ==
  ASSUME MergeTypes, StepKind, FreeRows, NEW w \in Waits
  PROVE  /\ intents'[w].attempts \in Nat /\ intents[w].attempts \in Nat
         /\ \/ intents'[w].attempts = intents[w].attempts /\ (RequestOver(w) => RequestOver(w)')
            \/ intents'[w].attempts = intents[w].attempts + 1
<1>1. intents'[w].attempts \in Nat /\ intents[w].attempts \in Nat
  BY Bounds DEF StepKind, MergeTypes, IntentRow
<1>2. CASE requests' \subseteq requests /\ (Calm \/ Gated \/ Revised)
  BY <1>1, <1>2, RequestsEnd DEF Calm, Gated, Revised
<1>3. ASSUME requests' \subseteq requests, NEW s \in Servers, Opened(s)
      PROVE  intents'[w].attempts = intents[w].attempts
  BY <1>3 DEF Opened, FreeRows
<1>4. ASSUME requests' \subseteq requests, NEW s \in Servers, Applied(s)
      PROVE  intents'[w].attempts = intents[w].attempts
  BY <1>4 DEF Applied
<1>5. ASSUME NEW s \in Servers, Claimed(s)
      PROVE  \/ intents'[w].attempts = intents[w].attempts /\ (RequestOver(w) => RequestOver(w)')
             \/ intents'[w].attempts = intents[w].attempts + 1
  <2>1. CASE w = op[s].wait
    BY <1>5, <2>1 DEF Claimed
  <2>2. CASE w # op[s].wait
    <3>1. intents'[w] = intents[w] /\ \A r \in requests' : r \in requests \/ r.wait = op[s].wait
      BY <1>5, <2>2 DEF Claimed
    <3> QED
      BY <2>2, <3>1 DEF RequestOver
  <2> QED
    BY <2>1, <2>2
<1> QED
  BY <1>1, <1>2, <1>3, <1>4, <1>5, RequestsEnd DEF StepKind

\* A claim that another process overtook no longer fits its attempt.
LEMMA ClaimsStep ==
  ASSUME MergeTypes, StepKind, FreeRows, ClaimsAreNext
  PROVE  ClaimsAreNext'
<1> SUFFICES ASSUME NEW s \in Servers, op'[s].pc = "claim"
             PROVE  /\ op'[s].attempt <= intents'[op'[s].wait].attempts
                    /\ intents'[op'[s].wait].attempts = op'[s].attempt =>
                         \A r \in requests' : r.wait # op'[s].wait
  BY DEF ClaimsAreNext, RequestOver
<1>1. op'[s] \in Ops
  BY DEF StepKind, MergeTypes
<1>2. PICK w \in Waits : w = op'[s].wait
  BY <1>1 DEF Ops, Sound
<1>3. PICK n \in Nat : n = op'[s].attempt
  BY <1>1, Bounds DEF Ops, OpRow
<1>4. n <= intents[w].attempts /\ (intents[w].attempts = n => RequestOver(w))
  <2>1. \/ op'[s] = op[s]
        \/ RequestOver(w) /\ n = intents[w].attempts
    BY <1>2, <1>3 DEF StepKind, OpsMove, OpMoves
  <2>2. CASE op'[s] = op[s]
    BY <1>2, <1>3, <2>2 DEF ClaimsAreNext
  <2>3. CASE RequestOver(w) /\ n = intents[w].attempts
    BY <2>3
  <2> QED
    BY <2>1, <2>2, <2>3
<1>5. n <= intents'[w].attempts /\ (intents'[w].attempts = n => RequestOver(w)')
  BY <1>4, AttemptsGrow
<1> QED
  BY <1>2, <1>3, <1>5 DEF RequestOver

\* A request is sent only where none of its wait is on its way.
LEMMA OneRequestStep ==
  ASSUME StepKind, ClaimsAreNext, OneRequest
  PROVE  OneRequest'
<1>1. CASE requests' \subseteq requests
  BY <1>1 DEF OneRequest
<1>2. ASSUME NEW s \in Servers, Claimed(s) PROVE OneRequest'
  <2>1. PICK w \in Waits : w = op[s].wait
    BY <1>2 DEF Claimed
  <2>2. RequestOver(w)
    BY <1>2, <2>1 DEF Claimed, SameAttempt, ClaimsAreNext
  <2>3. PICK sent : sent.wait = w /\ requests' = requests \cup {sent}
    BY <1>2, <2>1 DEF Claimed
  <2> QED
    BY <2>2, <2>3 DEF OneRequest, RequestOver
<1> QED
  BY <1>1, <1>2 DEF StepKind

\* What is told of a merge stays what the provider shows.
LEMMA ShownStep ==
  ASSUME StepKind, MergesAreShown
  PROVE  MergesAreShown'
<1>1. PullMoves /\ OpsMove
  BY DEF StepKind
<1>2. pr.state = "merged" => pr' = pr
  BY <1>1 DEF PullMoves
<1>3. \A p \in hooks' : p.state = "merged" => p = pr'
  BY <1>1, <1>2 DEF PullMoves, MergesAreShown
<1>4. ASSUME NEW s \in Servers, op'[s].pc \in Seeing, op'[s].seen.state = "merged"
      PROVE  op'[s].seen = pr'
  <2>1. \/ op'[s].seen = pr \/ op'[s].seen \in hooks
        \/ op[s].pc \in Seeing /\ op'[s].seen = op[s].seen
    BY <1>1, <1>4 DEF OpsMove, OpMoves
  <2>2. op'[s].seen = pr
    BY <1>4, <2>1 DEF MergesAreShown
  <2> QED
    BY <1>2, <1>4, <2>2
<1> QED
  BY <1>3, <1>4 DEF MergesAreShown

\* A head gets a wait by way of an approval.
LEMMA ApprovedStep ==
  ASSUME StepKind, HeadsAreApproved
  PROVE  HeadsAreApproved'
<1>1. accepted \subseteq accepted'
  BY DEF StepKind, PullMoves
<1>2. ASSUME NEW s \in Servers, op'[s].pc \in {"approved", "moved"}
      PROVE  op'[s].seen.head \in accepted'
  <2>1. \/ op'[s].seen.head \in accepted'
        \/ op[s].pc \in {"approved", "moved"} /\ op'[s].seen = op[s].seen
    BY <1>2 DEF StepKind, OpsMove, OpMoves
  <2> QED
    BY <1>1, <2>1 DEF HeadsAreApproved
<1>3. ASSUME NEW w \in Waits, waits'[w].head # None
      PROVE  waits'[w].head \in accepted
  <2>1. waits'[w].head = waits[w].head => waits'[w].head \in accepted
    BY <1>3 DEF HeadsAreApproved
  <2>2. CASE Calm \/ Gated \/ Revised
    BY <1>3, <2>1, <2>2 DEF Calm, Gated, GatedWait, SameWait, Revised
  <2>3. ASSUME NEW s \in Servers, Opened(s) PROVE waits'[w].head \in accepted
    BY <2>1, <2>3 DEF Opened, HeadsAreApproved
  <2>4. ASSUME NEW s \in Servers, Applied(s) \/ Claimed(s) PROVE waits'[w].head \in accepted
    BY <2>1, <2>4 DEF Applied, Claimed
  <2> QED
    BY <2>2, <2>3, <2>4 DEF StepKind
<1> QED
  BY <1>1, <1>2, <1>3 DEF HeadsAreApproved

\* A card becomes done by a verdict on what the provider shows merged.
LEMMA DoneStep ==
  ASSUME MergeTypes, StepKind, MergesAreShown, HeadsAreApproved, DoneIsMerged
  PROVE  DoneIsMerged'
<1> SUFFICES ASSUME card'.status = "done"
             PROVE  pr'.state = "merged" /\ pr'.head \in accepted'
  BY DEF DoneIsMerged
<1>1. accepted \subseteq accepted' /\ (pr.state = "merged" => pr' = pr)
  BY DEF StepKind, PullMoves
<1>2. ASSUME card.status = "done" PROVE pr'.state = "merged" /\ pr'.head \in accepted'
  BY <1>1, <1>2 DEF DoneIsMerged
<1>3. CASE Calm \/ Gated \/ Revised
  BY <1>2, <1>3 DEF Calm, Gated, Revised
<1>4. ASSUME NEW s \in Servers, Opened(s) \/ Claimed(s)
      PROVE  pr'.state = "merged" /\ pr'.head \in accepted'
  BY <1>2, <1>4 DEF Opened, Claimed
<1>5. ASSUME NEW s \in Servers, Applied(s)
      PROVE  pr'.state = "merged" /\ pr'.head \in accepted'
  <2>1. /\ op[s].pc = "handle" /\ op[s].seen.state = "merged"
        /\ op[s].wait \in Waits /\ op[s].seen.head = waits[op[s].wait].head
    BY <1>5 DEF Applied
  <2>2. op[s].seen \in PullRow
    BY <2>1 DEF MergeTypes, Ops, Sound
  <2>3. op[s].seen = pr
    BY <2>1 DEF MergesAreShown, Seeing
  <2>4. op[s].seen.head # None
    BY <2>2, MergeAssumption DEF PullRow
  <2>5. op[s].seen.head \in accepted
    BY <2>1, <2>4 DEF HeadsAreApproved
  <2> QED
    BY <1>1, <2>1, <2>3, <2>5
<1> QED
  BY <1>3, <1>4, <1>5 DEF StepKind

\* Every step keeps the invariant.
LEMMA MergeInvStep ==
  ASSUME MergeInv, [MergeNext]_mergeVars
  PROVE  StepKind /\ MergeInv'
<1>1. StepKind
  BY StepKinds DEF MergeInv
<1>2. MergeTypes'
  BY <1>1 DEF StepKind
<1> QED
  BY <1>1, <1>2, FreeRowsStep, OneOpenStep, FencedStep, ClaimsStep, OneRequestStep, ShownStep,
     ApprovedStep, DoneStep DEF MergeInv

-----------------------------------------------------------------------------
(* Theorems. *)

\* The merge gate keeps its inductive invariant.
THEOREM MergeInvariant == MergeSpec => []MergeInv
<1>1. MergeInv /\ [MergeNext]_mergeVars => MergeInv'
  BY MergeInvStep
<1> QED
  BY <1>1, MergeInitially, PTL DEF MergeSpec

\* Columns hold what the schema allows, and neither polls nor attempts nor
\* questions exceed their limits, however many processes sweep
\* (reconcileMergeWait, executeAuthorizedMerge, ensureMergeDecision).
THEOREM MergeTypesAreKept == MergeSpec => []MergeTypeOK
<1>1. MergeInv => MergeTypeOK
  <2> SUFFICES ASSUME MergeTypes PROVE MergeTypeOK
    BY DEF MergeInv
  <2>1. /\ card.status \in {"in_progress", "in_review", "waiting_on_external", "blocked",
                            "done", "cancelled"}
        /\ card.identity \in Heads \cup {None}
        /\ card.gated \in BOOLEAN /\ card.reviewing \in BOOLEAN
    BY DEF MergeTypes, CardRow, CardStates
  <2>2. ASSUME NEW w \in Waits
        PROVE  /\ waits[w].head \in Heads \cup {None} /\ waits[w].polls \in 0 .. MaxPolls
               /\ intents[w].attempts \in 0 .. MaxAttempts /\ intents[w].asks \in 0 .. MaxAsks
    BY DEF MergeTypes, WaitRow, IntentRow
  <2>3. pr \in [state : {"open", "closed", "merged"}, head : Heads]
    BY DEF MergeTypes, PullRow
  <2> QED
    BY <2>1, <2>2, <2>3 DEF MergeTypeOK
<1> QED
  BY <1>1, MergeInvariant, PTL

\* However many reviews approve and processes park, at most one merge wait can
\* complete the card (parkForMerge).
THEOREM MergeWaitsAreExclusive == MergeSpec => []OneMergeWait
<1>1. MergeInv => OneMergeWait
  <2> SUFFICES ASSUME OneOpen PROVE OneMergeWait
    BY DEF MergeInv
  <2> DEFINE S == {w \in Waits : MergeWait(w)}
  <2>1. CASE S = {}
    <3>1. Cardinality(S) = 0
      BY <2>1, FS_EmptySet
    <3> QED
      BY <3>1 DEF OneMergeWait
  <2>2. CASE S # {}
    <3>1. PICK w \in S : TRUE
      BY <2>2
    <3>2. S = {w}
      BY <3>1 DEF OneOpen
    <3>3. Cardinality(S) = 1
      BY <3>2, FS_Singleton
    <3> QED
      BY <3>3 DEF OneMergeWait
  <2> QED
    BY <2>1, <2>2
<1> QED
  BY <1>1, MergeInvariant, PTL

\* From the claim of a merge until its verdict is known the card stays parked on
\* the wait of that head, and no second merge is under way
\* (mc_merge_gate_fence, claimMerge).
THEOREM MergesAreFenced == MergeSpec => []MergeIsFenced
<1>1. MergeInv => MergeIsFenced
  BY DEF MergeInv
<1> QED
  BY <1>1, MergeInvariant, PTL

\* No wait ever has two merge requests on their way (executeAuthorizedMerge).
THEOREM RequestsAreSingle == MergeSpec => []OneRequest
<1>1. MergeInv => OneRequest
  BY DEF MergeInv
<1> QED
  BY <1>1, MergeInvariant, PTL

\* A card is done only when the head a review approved is merged
\* (applyExternalEvent, mergeAuthorizedMessage).
THEOREM DoneMeansMerged == MergeSpec => []DoneIsMerged
<1>1. MergeInv => DoneIsMerged
  BY DEF MergeInv
<1> QED
  BY <1>1, MergeInvariant, PTL

\* A settled intent is never brought back (settleMergeIntent, writeBack).
THEOREM SettledIntentsStay == MergeSpec => IntentsStaySettled
<1> DEFINE Stay == \A w \in Waits :
             intents[w].state \in {"verified", "drift", "closed", "superseded"}
               => intents'[w].state = intents[w].state
<1>1. MergeInv /\ [MergeNext]_mergeVars => [Stay]_mergeVars
  <2> SUFFICES ASSUME MergeInv, [MergeNext]_mergeVars, NEW w \in Waits,
                      intents[w].state \in {"verified", "drift", "closed", "superseded"}
               PROVE  intents'[w].state = intents[w].state
    OBVIOUS
  <2>1. StepKind
    BY MergeInvStep
  <2>2. intents[w].state \notin Active \cup Unsent /\ waits[w].state # "none"
    BY DEF Active, Unsent, MergeInv, FreeRows
  <2>3. CASE Calm \/ Gated \/ Revised
    BY <2>2, <2>3 DEF Calm, Gated, Revised
  <2>4. ASSUME NEW s \in Servers, Opened(s) \/ Applied(s) \/ Claimed(s)
        PROVE  intents'[w].state = intents[w].state
    BY <2>2, <2>4 DEF Opened, Applied, Claimed
  <2> QED
    BY <2>1, <2>3, <2>4 DEF StepKind
<1>2. MergeSpec => [][Stay]_mergeVars
  BY <1>1, MergeInvariant, PTL DEF MergeSpec
<1> QED
  BY <1>2 DEF IntentsStaySettled

\* A wait is resolved once (claimExternalWait).
THEOREM WaitsAreResolvedOnce == MergeSpec => WaitsResolveOnce
<1> DEFINE Once == \A w \in Waits :
             waits[w].state \in {"success", "failure", "timeout", "superseded"}
               => waits'[w].state = waits[w].state
<1>1. MergeInv /\ [MergeNext]_mergeVars => [Once]_mergeVars
  <2> SUFFICES ASSUME MergeInv, [MergeNext]_mergeVars, NEW w \in Waits,
                      waits[w].state \in {"success", "failure", "timeout", "superseded"}
               PROVE  waits'[w].state = waits[w].state
    OBVIOUS
  <2>1. StepKind
    BY MergeInvStep
  <2>2. ~Open(w) /\ ~MergeWait(w) /\ waits[w].state # "none"
    BY DEF Open, MergeWait
  <2>3. CASE Calm \/ Gated \/ Revised
    BY <2>3 DEF Calm, Gated, GatedWait, SameWait, Revised
  <2>4. ASSUME NEW s \in Servers, Opened(s) \/ Applied(s) \/ Claimed(s)
        PROVE  waits'[w].state = waits[w].state
    BY <2>2, <2>4 DEF Opened, Applied, Claimed
  <2> QED
    BY <2>1, <2>3, <2>4 DEF StepKind
<1>2. MergeSpec => [][Once]_mergeVars
  BY <1>1, MergeInvariant, PTL DEF MergeSpec
<1> QED
  BY <1>2 DEF WaitsResolveOnce
=============================================================================
