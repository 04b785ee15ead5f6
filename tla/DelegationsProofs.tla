-------------------------- MODULE DelegationsProofs --------------------------
(***************************************************************************)
(* Custody and delivery of delegated work, proved for any number of        *)
(* workers, requests, reports and rounds, any depth, any failures, and any *)
(* death of a call, as long as no request times out.                       *)
(*                                                                         *)
(* A request is at any time with one party: its run, the handler that      *)
(* queues it, the reviewer of its report, or its own parts.  BoardInv says *)
(* so; four of its parts make it inductive:                                *)
(*   OneAtWork     the handlers of one agent follow each other, because    *)
(*                 an agent has one slot and its calls outlast what the    *)
(*                 earlier handler had left to do;                         *)
(*   Standings     the status of a request is the one its run left behind; *)
(*   UnderReview   a report that awaits its review is the only one of its  *)
(*                 request, and the request waits for it;                  *)
(*   Integrated    once a request is reported nothing moves in its parts.  *)
(***************************************************************************)
EXTENDS Delegations, WellFoundedInduction, SequenceTheorems, TLAPS

-----------------------------------------------------------------------------
(* What a handler has left to do. *)

End == <<"succeed">>
Queue == <<"queue">>
\* Of a request's run: a report, a part for somebody else, progress, a question.
Report1 == <<"report", "insertReport", "submit", "succeed", "queueNew">>
Report2 == <<"insertReport", "submit", "succeed", "queueNew">>
Report3 == <<"submit", "succeed", "queueNew">>
Report4 == <<"succeed", "queueNew">>
Report5 == <<"queueNew">>
Split1 == <<"insertRequest", "queueNew", "wait", "succeed">>
Split2 == <<"queueNew", "wait", "succeed">>
Split3 == <<"wait", "succeed">>
Progress1 == <<"wait", "settle", "queue">>
Progress2 == <<"settle", "queue">>
Question1 == <<"wait", "ask", "settle">>
Question2 == <<"ask", "settle">>
Question3 == <<"settle">>
\* Of any run that failed.
Retry1 == <<"fail", "again", "queue">>
Retry2 == <<"again", "queue">>
\* Of a review: approval, revision, escalation.
Approve1 == <<"approve", "accept", "resume", "succeed">>
Approve2 == <<"accept", "resume", "succeed">>
Approve3 == <<"resume", "succeed">>
Tell == <<"wakeOwner", "succeed">>
Wake1 == <<"wakeParent", "queueParent", "succeed">>
Wake2 == <<"queueParent", "succeed">>
Revise1 == <<"reject", "requeue", "queueRequest", "succeed">>
Revise2 == <<"requeue", "queueRequest", "succeed">>
Revise3 == <<"queueRequest", "succeed">>
Escalate1 == <<"escalate", "queue", "succeed">>
Escalate2 == <<"queue", "succeed">>
\* Of the owner's turn: delegation, a round, the end.
Owner1 == <<"insertRequest", "queueNew", "insertRequest", "queueNew", "toProgress", "ownerDone">>
Owner2 == <<"queueNew", "insertRequest", "queueNew", "toProgress", "ownerDone">>
Owner3 == <<"insertRequest", "queueNew", "toProgress", "ownerDone">>
Owner4 == <<"queueNew", "toProgress", "ownerDone">>
Owner5 == <<"toProgress", "ownerDone">>
Owner6 == <<"ownerDone">>
Round1 == <<"park", "openQuestions", "toRound">>
Round2 == <<"openQuestions", "toRound">>
Round3 == <<"toRound">>
Check1 == <<"check", "finish">>
Check2 == <<"finish">>
\* Of the tick's round.
Sweep1 == <<"cancelQuestions", "toProgress", "wakeOwner">>
Sweep2 == <<"toProgress", "wakeOwner">>
Sweep3 == <<"wakeOwner">>

RequestWork == {Report1, Report2, Report3, Report4, Report5, Split1, Split2, Split3, End,
  Progress1, Progress2, Queue, Question1, Question2, Question3, Retry1, Retry2}
ReviewWork == {Approve1, Approve2, Approve3, Tell, Wake1, Wake2, End, Revise1, Revise2, Revise3,
  Escalate1, Escalate2, Retry1, Retry2, Queue}
OwnerWork == {Owner1, Owner2, Owner3, Owner4, Owner5, Owner6, Round1, Round2, Round3, Check1, Check2}
RoundWork == {Sweep1, Sweep2, Sweep3}
Lists == RequestWork \cup ReviewWork \cup OwnerWork \cup RoundWork \cup {<<>>}

\* A name for each list, and for none.
NameOf(t) ==
  IF t = End THEN "end" ELSE IF t = Queue THEN "queue" ELSE IF t = Report1 THEN "report1" ELSE
  IF t = Report2 THEN "report2" ELSE IF t = Report3 THEN "report3" ELSE
  IF t = Report4 THEN "report4" ELSE IF t = Report5 THEN "report5" ELSE
  IF t = Split1 THEN "split1" ELSE IF t = Split2 THEN "split2" ELSE
  IF t = Split3 THEN "split3" ELSE IF t = Progress1 THEN "progress1" ELSE
  IF t = Progress2 THEN "progress2" ELSE IF t = Question1 THEN "question1" ELSE
  IF t = Question2 THEN "question2" ELSE IF t = Question3 THEN "question3" ELSE
  IF t = Retry1 THEN "retry1" ELSE IF t = Retry2 THEN "retry2" ELSE
  IF t = Approve1 THEN "approve1" ELSE IF t = Approve2 THEN "approve2" ELSE
  IF t = Approve3 THEN "approve3" ELSE IF t = Tell THEN "tell" ELSE IF t = Wake1 THEN "wake1" ELSE
  IF t = Wake2 THEN "wake2" ELSE IF t = Revise1 THEN "revise1" ELSE
  IF t = Revise2 THEN "revise2" ELSE IF t = Revise3 THEN "revise3" ELSE
  IF t = Escalate1 THEN "escalate1" ELSE IF t = Escalate2 THEN "escalate2" ELSE
  IF t = Owner1 THEN "owner1" ELSE IF t = Owner2 THEN "owner2" ELSE
  IF t = Owner3 THEN "owner3" ELSE IF t = Owner4 THEN "owner4" ELSE
  IF t = Owner5 THEN "owner5" ELSE IF t = Owner6 THEN "owner6" ELSE
  IF t = Round1 THEN "round1" ELSE IF t = Round2 THEN "round2" ELSE
  IF t = Round3 THEN "round3" ELSE IF t = Check1 THEN "check1" ELSE
  IF t = Check2 THEN "check2" ELSE IF t = Sweep1 THEN "sweep1" ELSE
  IF t = Sweep2 THEN "sweep2" ELSE IF t = Sweep3 THEN "sweep3" ELSE "idle"

\* No two of the lists that a handler (dispatch.ts:2773-3060) works through are the same.
LEMMA Names ==
  /\ NameOf(End) = "end" /\ NameOf(Queue) = "queue" /\ NameOf(Report1) = "report1"
  /\ NameOf(Report2) = "report2" /\ NameOf(Report3) = "report3" /\ NameOf(Report4) = "report4"
  /\ NameOf(Report5) = "report5" /\ NameOf(Split1) = "split1" /\ NameOf(Split2) = "split2"
  /\ NameOf(Split3) = "split3" /\ NameOf(Progress1) = "progress1"
  /\ NameOf(Progress2) = "progress2" /\ NameOf(Question1) = "question1"
  /\ NameOf(Question2) = "question2" /\ NameOf(Question3) = "question3"
  /\ NameOf(Retry1) = "retry1" /\ NameOf(Retry2) = "retry2" /\ NameOf(Approve1) = "approve1"
  /\ NameOf(Approve2) = "approve2" /\ NameOf(Approve3) = "approve3" /\ NameOf(Tell) = "tell"
  /\ NameOf(Wake1) = "wake1" /\ NameOf(Wake2) = "wake2" /\ NameOf(Revise1) = "revise1"
  /\ NameOf(Revise2) = "revise2" /\ NameOf(Revise3) = "revise3" /\ NameOf(Escalate1) = "escalate1"
  /\ NameOf(Escalate2) = "escalate2" /\ NameOf(Owner1) = "owner1" /\ NameOf(Owner2) = "owner2"
  /\ NameOf(Owner3) = "owner3" /\ NameOf(Owner4) = "owner4" /\ NameOf(Owner5) = "owner5"
  /\ NameOf(Owner6) = "owner6" /\ NameOf(Round1) = "round1" /\ NameOf(Round2) = "round2"
  /\ NameOf(Round3) = "round3" /\ NameOf(Check1) = "check1" /\ NameOf(Check2) = "check2"
  /\ NameOf(Sweep1) = "sweep1" /\ NameOf(Sweep2) = "sweep2" /\ NameOf(Sweep3) = "sweep3"
  /\ NameOf(<<>>) = "idle"
BY DEF NameOf,
  End, Queue, Report1, Report2, Report3, Report4, Report5, Split1, Split2, Split3, Progress1,
  Progress2, Question1, Question2, Question3, Retry1, Retry2, Approve1, Approve2, Approve3, Tell,
  Wake1, Wake2, Revise1, Revise2, Revise3, Escalate1, Escalate2, Owner1, Owner2, Owner3, Owner4,
  Owner5, Owner6, Round1, Round2, Round3, Check1, Check2, Sweep1, Sweep2, Sweep3

\* The statement a handler is at, and those it has left after it.
First(t) == Head(t)
Rest(t) == Tail(t)

\* What each list does first.
LEMMA Firsts ==
  /\ First(End) = "succeed" /\ First(Queue) = "queue" /\ First(Report1) = "report"
  /\ First(Report2) = "insertReport" /\ First(Report3) = "submit" /\ First(Report4) = "succeed"
  /\ First(Report5) = "queueNew" /\ First(Split1) = "insertRequest" /\ First(Split2) = "queueNew"
  /\ First(Split3) = "wait" /\ First(Progress1) = "wait" /\ First(Progress2) = "settle"
  /\ First(Question1) = "wait" /\ First(Question2) = "ask" /\ First(Question3) = "settle"
  /\ First(Retry1) = "fail" /\ First(Retry2) = "again" /\ First(Approve1) = "approve"
  /\ First(Approve2) = "accept" /\ First(Approve3) = "resume" /\ First(Tell) = "wakeOwner"
  /\ First(Wake1) = "wakeParent" /\ First(Wake2) = "queueParent" /\ First(Revise1) = "reject"
  /\ First(Revise2) = "requeue" /\ First(Revise3) = "queueRequest" /\ First(Escalate1) = "escalate"
  /\ First(Escalate2) = "queue" /\ First(Owner1) = "insertRequest" /\ First(Owner2) = "queueNew"
  /\ First(Owner3) = "insertRequest" /\ First(Owner4) = "queueNew" /\ First(Owner5) = "toProgress"
  /\ First(Owner6) = "ownerDone" /\ First(Round1) = "park" /\ First(Round2) = "openQuestions"
  /\ First(Round3) = "toRound" /\ First(Check1) = "check" /\ First(Check2) = "finish"
  /\ First(Sweep1) = "cancelQuestions" /\ First(Sweep2) = "toProgress"
  /\ First(Sweep3) = "wakeOwner"
BY DEF First,
  End, Queue, Report1, Report2, Report3, Report4, Report5, Split1, Split2, Split3, Progress1,
  Progress2, Question1, Question2, Question3, Retry1, Retry2, Approve1, Approve2, Approve3, Tell,
  Wake1, Wake2, Revise1, Revise2, Revise3, Escalate1, Escalate2, Owner1, Owner2, Owner3, Owner4,
  Owner5, Owner6, Round1, Round2, Round3, Check1, Check2, Sweep1, Sweep2, Sweep3

\* What each list leaves when its first statement is done.
LEMMA Rests ==
  /\ Rest(End) = <<>> /\ Rest(Queue) = <<>> /\ Rest(Report1) = Report2 /\ Rest(Report2) = Report3
  /\ Rest(Report3) = Report4 /\ Rest(Report4) = Report5 /\ Rest(Report5) = <<>>
  /\ Rest(Split1) = Split2 /\ Rest(Split2) = Split3 /\ Rest(Split3) = End
  /\ Rest(Progress1) = Progress2 /\ Rest(Progress2) = Queue /\ Rest(Question1) = Question2
  /\ Rest(Question2) = Question3 /\ Rest(Question3) = <<>> /\ Rest(Retry1) = Retry2
  /\ Rest(Retry2) = Queue /\ Rest(Approve1) = Approve2 /\ Rest(Approve2) = Approve3
  /\ Rest(Approve3) = End /\ Rest(Tell) = End /\ Rest(Wake1) = Wake2 /\ Rest(Wake2) = End
  /\ Rest(Revise1) = Revise2 /\ Rest(Revise2) = Revise3 /\ Rest(Revise3) = End
  /\ Rest(Escalate1) = Escalate2 /\ Rest(Escalate2) = End /\ Rest(Owner1) = Owner2
  /\ Rest(Owner2) = Owner3 /\ Rest(Owner3) = Owner4 /\ Rest(Owner4) = Owner5
  /\ Rest(Owner5) = Owner6 /\ Rest(Owner6) = <<>> /\ Rest(Round1) = Round2 /\ Rest(Round2) = Round3
  /\ Rest(Round3) = <<>> /\ Rest(Check1) = Check2 /\ Rest(Check2) = <<>> /\ Rest(Sweep1) = Sweep2
  /\ Rest(Sweep2) = Sweep3 /\ Rest(Sweep3) = <<>>
BY DEF Rest,
  End, Queue, Report1, Report2, Report3, Report4, Report5, Split1, Split2, Split3, Progress1,
  Progress2, Question1, Question2, Question3, Retry1, Retry2, Approve1, Approve2, Approve3, Tell,
  Wake1, Wake2, Revise1, Revise2, Revise3, Escalate1, Escalate2, Owner1, Owner2, Owner3, Owner4,
  Owner5, Owner6, Round1, Round2, Round3, Check1, Check2, Sweep1, Sweep2, Sweep3

\* A request's run (dispatch.ts:2773-2990): where it is when it has come to a statement.
LEMMA RequestHeads ==
  ASSUME NEW t \in RequestWork
  PROVE  /\ First(t) = "report" => t \in {Report1}
         /\ First(t) = "insertReport" => t \in {Report2}
         /\ First(t) = "submit" => t \in {Report3}
         /\ First(t) = "succeed" => t \in {Report4, End}
         /\ First(t) = "queueNew" => t \in {Report5, Split2}
         /\ First(t) = "insertRequest" => t \in {Split1}
         /\ First(t) = "wait" => t \in {Split3, Progress1, Question1}
         /\ First(t) = "settle" => t \in {Progress2, Question3}
         /\ First(t) = "queue" => t \in {Queue}
         /\ First(t) = "ask" => t \in {Question2}
         /\ First(t) = "fail" => t \in {Retry1}
         /\ First(t) = "again" => t \in {Retry2}
         /\ First(t) \in {"report", "insertReport", "submit", "succeed", "queueNew",
              "insertRequest", "wait", "settle", "queue", "ask", "fail", "again"}
BY Firsts DEF RequestWork

\* A review (dispatch.ts:2992-3060): where it is when it has come to a statement.
LEMMA ReviewHeads ==
  ASSUME NEW t \in ReviewWork
  PROVE  /\ First(t) = "approve" => t \in {Approve1}
         /\ First(t) = "accept" => t \in {Approve2}
         /\ First(t) = "resume" => t \in {Approve3}
         /\ First(t) = "wakeOwner" => t \in {Tell}
         /\ First(t) = "wakeParent" => t \in {Wake1}
         /\ First(t) = "queueParent" => t \in {Wake2}
         /\ First(t) = "succeed" => t \in {End}
         /\ First(t) = "reject" => t \in {Revise1}
         /\ First(t) = "requeue" => t \in {Revise2}
         /\ First(t) = "queueRequest" => t \in {Revise3}
         /\ First(t) = "escalate" => t \in {Escalate1}
         /\ First(t) = "queue" => t \in {Escalate2, Queue}
         /\ First(t) = "fail" => t \in {Retry1}
         /\ First(t) = "again" => t \in {Retry2}
         /\ First(t) \in {"approve", "accept", "resume", "wakeOwner", "wakeParent", "queueParent",
              "succeed", "reject", "requeue", "queueRequest", "escalate", "queue", "fail", "again"}
BY Firsts DEF ReviewWork

\* The owner's turn: where it is when it has come to a statement.
LEMMA OwnerHeads ==
  ASSUME NEW t \in OwnerWork
  PROVE  /\ First(t) = "insertRequest" => t \in {Owner1, Owner3}
         /\ First(t) = "queueNew" => t \in {Owner2, Owner4}
         /\ First(t) = "toProgress" => t \in {Owner5}
         /\ First(t) = "ownerDone" => t \in {Owner6}
         /\ First(t) = "park" => t \in {Round1}
         /\ First(t) = "openQuestions" => t \in {Round2}
         /\ First(t) = "toRound" => t \in {Round3}
         /\ First(t) = "check" => t \in {Check1}
         /\ First(t) = "finish" => t \in {Check2}
         /\ First(t) \in {"insertRequest", "queueNew", "toProgress", "ownerDone", "park",
              "openQuestions", "toRound", "check", "finish"}
BY Firsts DEF OwnerWork

\* The tick's sweep: where it is when it has come to a statement.
LEMMA RoundHeads ==
  ASSUME NEW t \in RoundWork
  PROVE  /\ First(t) = "cancelQuestions" => t \in {Sweep1}
         /\ First(t) = "toProgress" => t \in {Sweep2}
         /\ First(t) = "wakeOwner" => t \in {Sweep3}
         /\ First(t) \in {"cancelQuestions", "toProgress", "wakeOwner"}
BY Firsts DEF RoundWork

-----------------------------------------------------------------------------
(* The board, one fact at a time.                                            *)

\* The columns of a row, and the fields of a process.
St(c) == msg[c].status
Of(c) == msg[c].of
Run(c) == msg[c].run
Up(c) == msg[c].up
Acc(c) == msg[c].accepted
On(p) == at[p].on
New(p) == at[p].new
\* Where a process is: idle, start, call, or the list it is at work on.
Phase(p) == IF at[p].pc = "work" THEN NameOf(at[p].todo) ELSE at[p].pc
\* The call of q began when p was at work, and ends after it.
Outlasts(q, p) == p \in at[q].behind

\* Whether a process has something to do, is past its call, and whether a row is there.
Busy(p) == Phase(p) # "idle"
Works(p) == Phase(p) \notin {"idle", "start", "call"}
Present(c) == St(c) # "absent"
\* After these the run of the process has ended.
Ended == {"report5", "queue", "retry2"}
\* A report is inserted and not yet queued.
HandsIn == {"report3", "report4", "report5"}
\* A request is inserted and not yet queued.
HandsOut == {"split2", "owner2", "owner4"}

\* What the tables and the processes hold.
CardRow == [status : {"todo", "in_progress", "waiting_on_brainstorm", "blocked", "done"},
            owner : {"none", "queued", "running"}, waiting : BOOLEAN, round : Nat,
            message : Nat, message_review : Nat]
Row == [status : {"absent", "queued", "running", "waiting", "submitted", "approved", "rejected", "failed"},
        of : Requests \cup {Owner}, run : {"none", "queued", "lost"} \cup Workers,
        question : BOOLEAN, up : BOOLEAN, accepted : BOOLEAN]
Proc == [pc : {"idle", "start", "call", "work"}, on : Comments \cup {Owner}, todo : Lists,
         new : Comments \cup {Owner}, settled : BOOLEAN, behind : SUBSET Procs]
Tables ==
  /\ card \in CardRow /\ msg \in [Comments -> Row] /\ at \in [Procs -> Proc]
  /\ budget \in BudgetOf

\* Which handler a process is in.
WorkersAt == \A w \in Workers :
  /\ at[w].pc # "idle" => On(w) \in Comments /\ Present(On(w))
  /\ at[w].pc = "work" /\ On(w) \in Requests => at[w].todo \in RequestWork
  /\ at[w].pc = "work" /\ On(w) \in Reports => at[w].todo \in ReviewWork
OwnerAt ==
  /\ On("owner") = Owner /\ at["owner"].pc # "start"
  /\ at["owner"].pc = "work" => at["owner"].todo \in OwnerWork
  /\ Busy("owner") => ~Terminal
TickAt ==
  /\ at["tick"].pc \in {"idle", "work"}
  /\ at["tick"].pc = "work" => \/ On("tick") \in Requests /\ at["tick"].todo = Queue
                               \/ On("tick") = Owner /\ at["tick"].todo \in RoundWork
\* Rows refer to rows.
Parents ==
  /\ \A i \in Requests : Present(i) /\ Of(i) # Owner => Present(Of(i))
  /\ \A j \in Reports : Present(j) => Of(j) \in Requests /\ Present(Of(j))
  /\ \A c \in Comments : ~Present(c) => Run(c) = "none" /\ ~Up(c) /\ ~Acc(c)

\* A run is the one of the worker that works on it, until it ends.
Runs ==
  /\ \A w \in Workers : Busy(w) /\ Phase(w) \notin Ended => Run(On(w)) = w
  /\ \A w \in Workers : Phase(w) \in Ended => Run(On(w)) = "none"
  /\ \A c \in Comments : Run(c) \in Workers => Busy(Run(c)) /\ On(Run(c)) = c

\* The agent a worker acts for.
Role(w) == IF On(w) \in Requests THEN On(w) ELSE Of(Of(On(w)))
\* The handlers of an agent follow each other.
OneAtWork == \A v, w \in Workers :
  v # w /\ Busy(v) /\ Busy(w) /\ Role(v) = Role(w) =>
    /\ Works(v) => ~Works(w)
    /\ Works(v) /\ Phase(w) = "call" => Outlasts(w, v)
    /\ Works(v) \/ Works(w)

-----------------------------------------------------------------------------
(* The life of a request. *)

\* No run, no worker and no answer is about request i.
Untouched(i) ==
  /\ Run(i) = "none"
  /\ \A w \in Workers : Busy(w) => On(w) # i
TickOn(i) == Phase("tick") = "queue" /\ On("tick") = i

\* The status a run of a request finds and leaves.
Standing(w) ==
  LET s == St(On(w)) IN
  /\ Phase(w) = "start" => s \in {"queued", "waiting", "failed"}
  /\ Phase(w) \in {"call", "report1", "report2", "report3", "split1", "split2", "split3",
                   "progress1", "question1", "retry1", "retry2"} => s \in {"queued", "running"}
  /\ Phase(w) \in {"end", "progress2", "question2", "question3"} => s = "waiting"
  /\ Phase(w) \in {"report4", "report5"} => s = "submitted"
  /\ Phase(w) = "queue" => s \in {"queued", "waiting"}
Standings ==
  /\ \A w \in Workers : On(w) \in Requests => Standing(w)
  /\ \A i \in Requests : Run(i) = "queued" => St(i) \in {"queued", "waiting", "failed"}
  /\ \A i \in Requests : St(i) # "rejected"

\* The tick requeues a request whose question was answered: no handler of the
\* request is at work, and a run that begins now outlasts the tick.
Answering == \A i \in Requests : TickOn(i) =>
  /\ St(i) \in {"queued", "running"}
  /\ \A w \in Workers : Busy(w) /\ On(w) = i =>
       ~Works(w) /\ (Phase(w) = "call" => Outlasts(w, "tick"))

\* A new row is with the process that inserted it until it is queued.
HandingOut == \A p \in Procs : Phase(p) \in HandsOut =>
  LET i == New(p) IN
  /\ i \in Requests /\ Of(i) = On(p)
  /\ St(i) = "queued" /\ Untouched(i) /\ ~TickOn(i)
  /\ \A c \in Comments : Present(c) => Of(c) # i
HandingIn == \A w \in Workers : Phase(w) \in HandsIn =>
  LET j == New(w) IN
  /\ j \in Reports /\ Of(j) = On(w)
  /\ St(j) = "submitted" /\ ~Up(j) /\ Untouched(j)

\* A submitted report is being handed in, or its request waits for the review.
Inserting(j) == \E w \in Workers : Phase(w) \in HandsIn /\ New(w) = j
UnderReview ==
  /\ \A j \in Reports : St(j) = "submitted" =>
       Inserting(j) \/ (St(Of(j)) = "submitted" /\ Untouched(Of(j)))
  /\ \A j, k \in Reports :
       St(j) = "submitted" /\ St(k) = "submitted" /\ Of(j) = Of(k) => j = k
\* What a reviewer works on.
Review(w) ==
  LET j == On(w)
      i == Of(j) IN
  /\ Phase(w) \in {"start", "call", "approve1", "revise1", "escalate1", "retry1", "retry2", "queue"} =>
       St(j) = "submitted" /\ ~Up(j)
  /\ Phase(w) = "escalate2" => St(j) = "submitted" /\ Up(j)
  /\ Phase(w) \in {"approve2", "approve3", "tell", "wake1", "wake2"} => St(j) = "approved"
  /\ Phase(w) = "end" => St(j) # "submitted" \/ Up(j)
  /\ Phase(w) = "revise2" => St(i) = "submitted"
  /\ Phase(w) = "revise3" => St(i) = "queued" /\ ~TickOn(i)
  /\ Phase(w) \in {"revise2", "revise3"} =>
       Untouched(i) /\ \A k \in Reports : Of(k) = i => St(k) # "submitted"
  /\ Phase(w) \in {"wake1", "wake2"} => Of(i) # Owner
Reviewing ==
  /\ \A j \in Reports : Run(j) = "queued" => St(j) = "submitted" /\ ~Up(j)
  /\ \A w \in Workers : Busy(w) /\ On(w) \in Reports => Review(w)

\* The parts of a request are approved and their reviews are over.
Still(i) == \A k \in Requests : Present(k) /\ Of(k) = i =>
  /\ St(k) = "approved"
  /\ \A w \in Workers : Busy(w) /\ On(w) \in Reports => Of(On(w)) # k
Reported(i) ==
  \/ St(i) \in {"submitted", "approved"}
  \/ \E w \in Workers : On(w) = i /\ Phase(w) \in {"report2", "report3"}
  \/ \E w \in Workers : On(w) \in Reports /\ Phase(w) = "revise3" /\ Of(On(w)) = i
Integrated == \A i \in Requests : Reported(i) => Still(i)

-----------------------------------------------------------------------------
(* Custody and delivery. *)

\* Who is about to queue request i.
Keeps(p, i) ==
  \/ On(p) = i /\ Phase(p) \in {"retry2", "queue"}
  \/ New(p) = i /\ Phase(p) \in HandsOut
  \/ On(p) \in Reports /\ Phase(p) = "revise3" /\ Of(On(p)) = i
  \/ On(p) \in Reports /\ Phase(p) = "wake2" /\ Of(Of(On(p))) = i
Kept ==
  /\ \A i \in Requests : St(i) = "queued" => Run(i) # "none" \/ \E p \in Procs : Keeps(p, i)
  /\ \A i \in Requests : St(i) = "running" =>
       \/ Run(i) \in Workers \cup {"lost"}
       \/ \E w \in Workers : On(w) = i /\ Phase(w) = "retry2"
  /\ \A j \in Reports : St(j) = "submitted" /\ ~Up(j) =>
       \/ Run(j) # "none" \/ Inserting(j)
       \/ \E w \in Workers : On(w) = j /\ Phase(w) \in {"retry2", "queue"}

\* Delivery, of the requests of every level.
DoneDelivered == Terminal => \A i \in Requests : Present(i) => Delivered(i)

\* The inductive invariant, on a board whose requests do not expire.
BoardInv ==
  /\ Tables /\ WorkersAt /\ OwnerAt /\ TickAt
  /\ Parents /\ Runs /\ OneAtWork /\ Standings /\ Answering /\ HandingOut /\ HandingIn
  /\ UnderReview /\ Reviewing /\ Integrated /\ Kept /\ DoneDelivered

-----------------------------------------------------------------------------
(* How processes move. *)

\* The others are where they were.
Others(p) == \A q \in Procs \ {p} : Phase(q)' = Phase(q) /\ On(q)' = On(q) /\ New(q)' = New(q)
\* Process p is at x now; a later call may have one handler less to wait for.
Moves(p, x) ==
  /\ Phase(p)' = x /\ Others(p)
  /\ x # "idle" => On(p)' = On(p)
  /\ \A q \in Procs, r \in Procs :
       q # p /\ Outlasts(q, r) => Outlasts(q, r)' \/ (r = p /\ x = "idle")
\* No row but those of S has changed.
RowsKept(S) == \A c \in Comments \ S :
  St(c)' = St(c) /\ Of(c)' = Of(c) /\ Run(c)' = Run(c) /\ Up(c)' = Up(c) /\ Acc(c)' = Acc(c)
\* No row is deleted or moved elsewhere.
Lasting == \A c \in Comments : Present(c) => Present(c)' /\ Of(c)' = Of(c)

\* A handler that goes on with t, seen from outside.
LEMMA MovesOn ==
  ASSUME at \in [Procs -> Proc], at' \in [Procs -> Proc], NEW p \in Procs, NEW t,
         at'[p].pc = "work", at'[p].on = at[p].on, at'[p].todo = t, at'[p].behind = at[p].behind,
         \A q \in Procs \ {p} : at'[q] = at[q]
  PROVE  Moves(p, NameOf(t))
<1>1. \A q \in Procs : at'[q].behind = at[q].behind
  OBVIOUS
<1> QED
  BY <1>1 DEF Moves, Others, Phase, On, New, Outlasts

\* Then, of any handler: it goes on with the rest, or it is done.
LEMMA Going ==
  ASSUME at \in [Procs -> Proc], NEW p \in Procs, at[p].pc \in {"work", "call"},
         NEW t \in Lists, Goes(p, t)
  PROVE  /\ at' \in [Procs -> Proc] /\ Moves(p, NameOf(t))
         /\ \A q \in Procs \ {p} : at'[q].pc = at[q].pc /\ at'[q].todo = at[q].todo
         /\ t # <<>> => at'[p].pc = "work" /\ at'[p].todo = t /\ New(p)' = New(p)
         /\ t = <<>> => at'[p].pc = "idle" /\ On(p)' = Owner
<1>1. CASE t = <<>>
  <2>1. at' = Ends(p) /\ Idle \in Proc /\ NameOf(t) = "idle"
    BY <1>1, Names DEF Goes, Idle, Proc, Owner, Lists
  <2>2. /\ at' \in [Procs -> Proc] /\ at'[p] = Idle
        /\ \A q \in Procs \ {p} : at'[q] \in Proc /\ at'[q] = [at[q] EXCEPT !.behind = @ \ {p}]
    BY <2>1 DEF Ends, Proc
  <2>3. \A q \in Procs \ {p} : /\ at'[q].pc = at[q].pc /\ at'[q].on = at[q].on
                               /\ at'[q].todo = at[q].todo /\ at'[q].new = at[q].new
                               /\ at'[q].behind = at[q].behind \ {p}
    BY <2>2 DEF Proc
  <2>4. at'[p].pc = "idle" /\ at'[p].on = Owner
    BY <2>2 DEF Idle, Owner
  <2> QED
    BY <1>1, <2>1, <2>2, <2>3, <2>4 DEF Moves, Others, Phase, On, New, Outlasts
<1>2. CASE t # <<>>
  <2>1. at' = [at EXCEPT ![p].pc = "work", ![p].todo = t]
    BY <1>2 DEF Goes
  <2>2. at[p] \in Proc /\ at' = [at EXCEPT ![p] = [at[p] EXCEPT !.pc = "work", !.todo = t]]
    BY <2>1
  <2>3. [at[p] EXCEPT !.pc = "work", !.todo = t] \in Proc
    BY <2>2 DEF Proc
  <2>4. at' \in [Procs -> Proc]
    BY <2>2, <2>3
  <2>5. /\ \A q \in Procs \ {p} : at'[q] = at[q]
        /\ at'[p].pc = "work" /\ at'[p].on = at[p].on /\ at'[p].todo = t
        /\ at'[p].new = at[p].new /\ at'[p].behind = at[p].behind
    BY <2>2 DEF Proc
  <2>6. Moves(p, NameOf(t))
    BY <2>4, <2>5, MovesOn
  <2> QED
    BY <1>2, <2>4, <2>5, <2>6 DEF New
<1> QED
  BY <1>1, <1>2

\* A process that has a name for what it does does it, and the others have none.
LEMMA PhaseOf ==
  ASSUME BoardInv
  PROVE  /\ \A w \in Workers : On(w) \in Requests => Phase(w) \in {"idle", "start", "call", "report1",
              "report2", "report3", "report4", "report5", "split1", "split2", "split3", "end",
              "progress1", "progress2", "queue", "question1", "question2", "question3",
              "retry1", "retry2"}
         /\ \A w \in Workers : On(w) \in Reports => Phase(w) \in {"idle", "start", "call", "approve1",
              "approve2", "approve3", "tell", "wake1", "wake2", "end", "revise1", "revise2",
              "revise3", "escalate1", "escalate2", "retry1", "retry2", "queue"}
         /\ Phase("owner") \in {"idle", "call", "owner1", "owner2", "owner3", "owner4", "owner5",
              "owner6", "round1", "round2", "round3", "check1", "check2"}
         /\ Phase("tick") \in {"idle", "queue", "sweep1", "sweep2", "sweep3"}
         /\ Phase("tick") = "queue" => On("tick") \in Requests
         /\ \A p \in Procs : at[p].pc = "work" <=> Works(p)
<1>1. at \in [Procs -> Proc] /\ WorkersAt /\ OwnerAt /\ TickAt
  BY DEF BoardInv, Tables
<1>2. \A w \in Workers : On(w) \in Requests => Phase(w) \in {"idle", "start", "call", "report1",
              "report2", "report3", "report4", "report5", "split1", "split2", "split3", "end",
              "progress1", "progress2", "queue", "question1", "question2", "question3",
              "retry1", "retry2"}
  BY <1>1, Names DEF WorkersAt, RequestWork, Phase, Procs, Proc
<1>3. \A w \in Workers : On(w) \in Reports => Phase(w) \in {"idle", "start", "call", "approve1",
              "approve2", "approve3", "tell", "wake1", "wake2", "end", "revise1", "revise2",
              "revise3", "escalate1", "escalate2", "retry1", "retry2", "queue"}
  BY <1>1, Names DEF WorkersAt, ReviewWork, Phase, Procs, Proc
<1>4. Phase("owner") \in {"idle", "call", "owner1", "owner2", "owner3", "owner4", "owner5",
              "owner6", "round1", "round2", "round3", "check1", "check2"}
  BY <1>1, Names DEF OwnerAt, OwnerWork, Phase, Procs, Proc
<1>5. Phase("tick") \in {"idle", "queue", "sweep1", "sweep2", "sweep3"}
  BY <1>1, Names DEF TickAt, RoundWork, Phase, Procs, Proc
<1>6. Phase("tick") = "queue" => On("tick") \in Requests
  BY <1>1, Names DEF TickAt, RoundWork, Phase, Procs, Proc
<1>7. \A w \in Workers : at[w].pc = "work" => NameOf(at[w].todo) \notin {"idle", "start", "call"}
  BY <1>1, Names DEF WorkersAt, RequestWork, ReviewWork, Comments
<1>8. at["owner"].pc = "work" => NameOf(at["owner"].todo) \notin {"idle", "start", "call"}
  BY <1>1, Names DEF OwnerAt, OwnerWork
<1>9. at["tick"].pc = "work" => NameOf(at["tick"].todo) \notin {"idle", "start", "call"}
  BY <1>1, Names DEF TickAt, RoundWork
<1>10. \A p \in Procs : at[p].pc \in {"idle", "start", "call", "work"}
  BY <1>1 DEF Proc
<1>11. \A p \in Procs : at[p].pc = "work" <=> Works(p)
  BY <1>7, <1>8, <1>9, <1>10 DEF Works, Phase, Procs
<1> QED
  BY <1>2, <1>3, <1>4, <1>5, <1>6, <1>11

\* The rows of the board, and who is not a worker.
LEMMA Kinds ==
  /\ \A c \in Requests : c \in Comments /\ c \notin Reports /\ c # Owner
  /\ \A c \in Reports : c \in Comments /\ c \notin Requests /\ c # Owner
  /\ \A c \in Comments : c \in Requests \/ c \in Reports
  /\ Owner \notin Requests /\ Owner \notin Reports
  /\ \A w \in Workers : w \in Procs /\ w \notin {"owner", "tick", "none", "queued", "lost"}
  /\ \A p \in Procs : p \in Workers \/ p = "owner" \/ p = "tick"
  /\ "owner" \in Procs /\ "tick" \in Procs
BY BoardAssumption DEF Requests, Reports, Comments, Procs, Owner

\* What rows hold.
LEMMA Cells ==
  ASSUME BoardInv
  PROVE  \A c \in Comments :
           /\ St(c) \in {"absent", "queued", "running", "waiting", "submitted", "approved",
                         "rejected", "failed"}
           /\ Of(c) \in Requests \cup {Owner} /\ Up(c) \in BOOLEAN /\ Acc(c) \in BOOLEAN
           /\ Run(c) \in {"none", "queued", "lost"} \cup Workers
BY DEF BoardInv, Tables, Row, St, Of, Up, Acc, Run

\* What is left of a list is a list of the same handler.
LEMMA Tails ==
  /\ \A t \in RequestWork : t # <<>> /\ Rest(t) \in RequestWork \cup {<<>>}
  /\ \A t \in ReviewWork : t # <<>> /\ Rest(t) \in ReviewWork \cup {<<>>}
  /\ \A t \in OwnerWork : t # <<>> /\ Rest(t) \in OwnerWork \cup {<<>>}
  /\ \A t \in RoundWork : t # <<>> /\ Rest(t) \in RoundWork \cup {<<>>}
<1>1. \A t \in RequestWork : t # <<>> /\ Rest(t) \in RequestWork \cup {<<>>}
  <2>1. \A t \in RequestWork : NameOf(t) # "idle"
    BY Names DEF RequestWork
  <2>2. \A t \in RequestWork : Rest(t) \in RequestWork \cup {<<>>}
    <3>1. SUFFICES ASSUME NEW t \in RequestWork PROVE Rest(t) \in RequestWork \cup {<<>>}
      OBVIOUS
    <3>2. CASE t \in {Report1, Report2, Report3, Report4, Report5, Split1, Split2, Split3, End}
      BY <3>2, Rests DEF RequestWork
    <3>3. CASE t \notin {Report1, Report2, Report3, Report4, Report5, Split1, Split2, Split3, End}
      BY <3>1, <3>3, Rests DEF RequestWork
    <3> QED
      BY <3>2, <3>3
  <2> QED
    BY <2>1, <2>2, Names
<1>2. \A t \in ReviewWork : t # <<>> /\ Rest(t) \in ReviewWork \cup {<<>>}
  <2>1. \A t \in ReviewWork : NameOf(t) # "idle"
    BY Names DEF ReviewWork
  <2>2. \A t \in ReviewWork : Rest(t) \in ReviewWork \cup {<<>>}
    BY Rests DEF ReviewWork
  <2> QED
    BY <2>1, <2>2, Names
<1>3. \A t \in OwnerWork : t # <<>> /\ Rest(t) \in OwnerWork \cup {<<>>}
  <2>1. \A t \in OwnerWork : NameOf(t) # "idle"
    BY Names DEF OwnerWork
  <2>2. \A t \in OwnerWork : Rest(t) \in OwnerWork \cup {<<>>}
    BY Rests DEF OwnerWork
  <2> QED
    BY <2>1, <2>2, Names
<1>4. \A t \in RoundWork : t # <<>> /\ Rest(t) \in RoundWork \cup {<<>>}
  <2>1. \A t \in RoundWork : NameOf(t) # "idle"
    BY Names DEF RoundWork
  <2>2. \A t \in RoundWork : Rest(t) \in RoundWork \cup {<<>>}
    BY Rests DEF RoundWork
  <2> QED
    BY <2>1, <2>2, Names
<1> QED
  BY <1>1, <1>2, <1>3, <1>4

\* A handler that a worker goes on with, or ends, leaves every process in a handler
\* of its own.
LEMMA WorkerGoes ==
  ASSUME BoardInv, NEW w \in Workers, at[w].pc \in {"work", "call"}, NEW t, Goes(w, t),
         t \in IF On(w) \in Requests THEN RequestWork \cup {<<>>} ELSE ReviewWork \cup {<<>>},
         Lasting, Terminal' => Terminal
  PROVE  /\ at' \in [Procs -> Proc] /\ Moves(w, NameOf(t))
         /\ NameOf(t) # "idle" => New(w)' = New(w)
         /\ WorkersAt' /\ OwnerAt' /\ TickAt'
<1>1. w \in Procs /\ at \in [Procs -> Proc] /\ t \in Lists
  BY Kinds DEF BoardInv, Tables, Lists
<1>2. /\ at' \in [Procs -> Proc] /\ Moves(w, NameOf(t))
      /\ \A q \in Procs \ {w} : at'[q].pc = at[q].pc /\ at'[q].todo = at[q].todo
      /\ t # <<>> => at'[w].pc = "work" /\ at'[w].todo = t /\ New(w)' = New(w)
      /\ t = <<>> => at'[w].pc = "idle" /\ On(w)' = Owner
  BY <1>1, Going
<1>3. \A q \in Procs \ {w} : On(q)' = On(q) /\ Phase(q)' = Phase(q)
  BY <1>2 DEF Moves, Others
<1>4. t # <<>> => /\ On(w)' = On(w) /\ On(w) \in Comments /\ Present(On(w))
                  /\ NameOf(t) # "idle"
  BY <1>2, Names DEF Moves, BoardInv, WorkersAt, RequestWork, ReviewWork
<1>5. WorkersAt'
  <2>1. SUFFICES ASSUME NEW v \in Workers
                 PROVE  /\ at'[v].pc # "idle" => On(v)' \in Comments /\ Present(On(v))'
                        /\ at'[v].pc = "work" /\ On(v)' \in Requests => at'[v].todo \in RequestWork
                        /\ at'[v].pc = "work" /\ On(v)' \in Reports => at'[v].todo \in ReviewWork
    BY DEF WorkersAt
  <2>2. CASE v = w
    BY <2>2, <1>2, <1>4, Kinds DEF Lasting
  <2>3. CASE v # w
    <3>1. at'[v].pc = at[v].pc /\ at'[v].todo = at[v].todo /\ On(v)' = On(v)
      BY <2>3, <1>2, <1>3, Kinds
    <3>2. at[v].pc # "idle" => On(v) \in Comments /\ Present(On(v))
      BY DEF BoardInv, WorkersAt
    <3> QED
      BY <3>1, <3>2 DEF BoardInv, WorkersAt, Lasting
  <2> QED
    BY <2>2, <2>3
<1>6. OwnerAt' /\ TickAt'
  BY <1>2, <1>3, Kinds DEF BoardInv, OwnerAt, TickAt, Busy
<1> QED
  BY <1>2, <1>5, <1>6, Names

\* At a statement of a run or of a review.
LEMMA AtWork ==
  ASSUME BoardInv, NEW w \in Workers, NEW s, At(w, s)
  PROVE  /\ w \in Procs /\ at[w].pc = "work" /\ Works(w) /\ Busy(w) /\ Phase(w) = NameOf(at[w].todo)
         /\ On(w) \in Comments /\ Present(On(w)) /\ First(at[w].todo) = s
         /\ at[w].todo \in IF On(w) \in Requests THEN RequestWork ELSE ReviewWork
         /\ Rest(at[w].todo) \in
              IF On(w) \in Requests THEN RequestWork \cup {<<>>} ELSE ReviewWork \cup {<<>>}
BY PhaseOf, Kinds, Tails DEF At, First, BoardInv, WorkersAt, Phase, Busy, Works

\* The handlers of an agent stay in order while one of them goes on.
LEMMA InOrder ==
  ASSUME BoardInv, NEW p \in Procs, Works(p),
         NEW x, Moves(p, x), x \notin {"start", "call"}, Lasting
  PROVE  OneAtWork'
<1>1. \A v \in Workers : Busy(v)' => /\ Busy(v) /\ (Works(v) <=> Works(v)') /\ Role(v)' = Role(v)
                                     /\ Phase(v)' = "call" => Phase(v) = "call"
  <2>1. SUFFICES ASSUME NEW v \in Workers, Busy(v)'
                 PROVE  /\ Busy(v) /\ (Works(v) <=> Works(v)') /\ Role(v)' = Role(v)
                        /\ Phase(v)' = "call" => Phase(v) = "call"
    OBVIOUS
  <2>2. On(v)' = On(v) /\ Busy(v) /\ (Works(v) <=> Works(v)') /\ (Phase(v)' = "call" => Phase(v) = "call")
    BY <2>1, Kinds DEF Moves, Others, Busy, Works
  <2>3. On(v) \in Comments /\ Present(On(v))
    BY <2>2 DEF BoardInv, WorkersAt, Busy, Phase
  <2>4. On(v) \in Reports => Of(On(v)) \in Requests /\ Present(Of(On(v)))
    BY <2>3 DEF BoardInv, Parents
  <2>5. Role(v)' = Role(v)
    BY <2>2, <2>3, <2>4, Kinds DEF Role, Lasting
  <2> QED
    BY <2>2, <2>5
<1>2. \A v, w \in Workers : v # w /\ Works(v)' /\ Phase(w)' = "call" /\ Outlasts(w, v) => Outlasts(w, v)'
  BY Kinds DEF Moves, Others, Works
<1>3. OneAtWork
  BY DEF BoardInv
<1> QED
  BY <1>1, <1>2, <1>3 DEF OneAtWork

\* No two workers have the same row in hand.
LEMMA Alone ==
  ASSUME BoardInv, NEW v \in Workers, NEW w \in Workers, Busy(v), Busy(w), On(v) = On(w)
  PROVE  v = w
<1>1. SUFFICES ASSUME v # w PROVE FALSE
  OBVIOUS
<1>2. Role(v) = Role(w)
  BY DEF Role
<1>3. Runs /\ OneAtWork
  BY DEF BoardInv
<1>4. Phase(v) \in Ended /\ Phase(w) \in Ended
  BY <1>1, <1>3, Kinds DEF Runs
<1> QED
  BY <1>1, <1>2, <1>3, <1>4 DEF OneAtWork, Ended, Works

\* A statement of a request's run (dispatch.ts:2773-2990): what the handler is at, and what comes next.
LEMMA RequestPhases ==
  ASSUME BoardInv, NEW w \in Workers, On(w) \in Requests, NEW s, At(w, s)
  PROVE  /\ s = "report" => Phase(w) = "report1" /\ NameOf(Rest(at[w].todo)) = "report2"
         /\ s = "insertReport" => Phase(w) = "report2" /\ NameOf(Rest(at[w].todo)) = "report3"
         /\ s = "submit" => Phase(w) = "report3" /\ NameOf(Rest(at[w].todo)) = "report4"
         /\ s = "succeed" =>
              \/ Phase(w) = "report4" /\ NameOf(Rest(at[w].todo)) = "report5"
              \/ Phase(w) = "end" /\ NameOf(Rest(at[w].todo)) = "idle"
         /\ s = "queueNew" =>
              \/ Phase(w) = "report5" /\ NameOf(Rest(at[w].todo)) = "idle"
              \/ Phase(w) = "split2" /\ NameOf(Rest(at[w].todo)) = "split3"
         /\ s = "insertRequest" => Phase(w) = "split1" /\ NameOf(Rest(at[w].todo)) = "split2"
         /\ s = "wait" =>
              \/ Phase(w) = "split3" /\ NameOf(Rest(at[w].todo)) = "end"
              \/ Phase(w) = "progress1" /\ NameOf(Rest(at[w].todo)) = "progress2"
              \/ Phase(w) = "question1" /\ NameOf(Rest(at[w].todo)) = "question2"
         /\ s = "settle" =>
              \/ Phase(w) = "progress2" /\ NameOf(Rest(at[w].todo)) = "queue"
              \/ Phase(w) = "question3" /\ NameOf(Rest(at[w].todo)) = "idle"
         /\ s = "queue" => Phase(w) = "queue" /\ NameOf(Rest(at[w].todo)) = "idle"
         /\ s = "ask" => Phase(w) = "question2" /\ NameOf(Rest(at[w].todo)) = "question3"
         /\ s = "fail" => Phase(w) = "retry1" /\ NameOf(Rest(at[w].todo)) = "retry2"
         /\ s = "again" => Phase(w) = "retry2" /\ NameOf(Rest(at[w].todo)) = "queue"
         /\ s \in {"report", "insertReport", "submit", "succeed", "queueNew", "insertRequest",
              "wait", "settle", "queue", "ask", "fail", "again"}
<1>1. at[w].todo \in RequestWork /\ First(at[w].todo) = s /\ Phase(w) = NameOf(at[w].todo)
  BY AtWork
<1> QED
  BY <1>1, RequestHeads, Rests, Names

\* A statement of a review (dispatch.ts:2992-3060): what the handler is at, and what comes next.
LEMMA ReviewPhases ==
  ASSUME BoardInv, NEW w \in Workers, On(w) \in Reports, NEW s, At(w, s)
  PROVE  /\ s = "approve" => Phase(w) = "approve1" /\ NameOf(Rest(at[w].todo)) = "approve2"
         /\ s = "accept" => Phase(w) = "approve2" /\ NameOf(Rest(at[w].todo)) = "approve3"
         /\ s = "resume" => Phase(w) = "approve3" /\ NameOf(Rest(at[w].todo)) = "end"
         /\ s = "wakeOwner" => Phase(w) = "tell" /\ NameOf(Rest(at[w].todo)) = "end"
         /\ s = "wakeParent" => Phase(w) = "wake1" /\ NameOf(Rest(at[w].todo)) = "wake2"
         /\ s = "queueParent" => Phase(w) = "wake2" /\ NameOf(Rest(at[w].todo)) = "end"
         /\ s = "succeed" => Phase(w) = "end" /\ NameOf(Rest(at[w].todo)) = "idle"
         /\ s = "reject" => Phase(w) = "revise1" /\ NameOf(Rest(at[w].todo)) = "revise2"
         /\ s = "requeue" => Phase(w) = "revise2" /\ NameOf(Rest(at[w].todo)) = "revise3"
         /\ s = "queueRequest" => Phase(w) = "revise3" /\ NameOf(Rest(at[w].todo)) = "end"
         /\ s = "escalate" => Phase(w) = "escalate1" /\ NameOf(Rest(at[w].todo)) = "escalate2"
         /\ s = "queue" =>
              \/ Phase(w) = "escalate2" /\ NameOf(Rest(at[w].todo)) = "end"
              \/ Phase(w) = "queue" /\ NameOf(Rest(at[w].todo)) = "idle"
         /\ s = "fail" => Phase(w) = "retry1" /\ NameOf(Rest(at[w].todo)) = "retry2"
         /\ s = "again" => Phase(w) = "retry2" /\ NameOf(Rest(at[w].todo)) = "queue"
         /\ s \in {"approve", "accept", "resume", "wakeOwner", "wakeParent", "queueParent",
              "succeed", "reject", "requeue", "queueRequest", "escalate", "queue", "fail", "again"}
<1>1. at[w].todo \in ReviewWork /\ First(at[w].todo) = s /\ Phase(w) = NameOf(at[w].todo)
  BY AtWork, Kinds
<1> QED
  BY <1>1, ReviewHeads, Rests, Names

-----------------------------------------------------------------------------
(* What statements do to rows. *)

\* One row has this status now; everything else is what it was.
StatusSet(c, s) ==
  /\ msg' \in [Comments -> Row] /\ RowsKept({c}) /\ Lasting
  /\ St(c)' = s /\ Of(c)' = Of(c) /\ Run(c)' = Run(c) /\ Up(c)' = Up(c) /\ Acc(c)' = Acc(c)

\* An update of delegation_status by id.
LEMMA Marking ==
  ASSUME msg \in [Comments -> Row], NEW c \in Comments, NEW s, msg' = Marked(msg, c, s),
         s \in {"queued", "running", "waiting", "submitted", "approved", "rejected", "failed"}
  PROVE  StatusSet(c, s)
<1>1. msg[c] \in Row /\ msg' = [msg EXCEPT ![c] = [msg[c] EXCEPT !.status = s]]
  BY DEF Marked
<1>2. [msg[c] EXCEPT !.status = s] \in Row
  BY <1>1 DEF Row
<1>3. msg' \in [Comments -> Row] /\ \A d \in Comments \ {c} : msg'[d] = msg[d]
  BY <1>1, <1>2
<1>4. /\ msg'[c].status = s /\ msg'[c].of = msg[c].of /\ msg'[c].run = msg[c].run
      /\ msg'[c].up = msg[c].up /\ msg'[c].accepted = msg[c].accepted
  BY <1>1 DEF Row
<1>5. RowsKept({c})
  BY <1>3 DEF RowsKept, St, Of, Run, Up, Acc
<1>6. St(c)' = s /\ Of(c)' = Of(c) /\ Run(c)' = Run(c) /\ Up(c)' = Up(c) /\ Acc(c)' = Acc(c)
  BY <1>4 DEF St, Of, Run, Up, Acc
<1> QED
  BY <1>3, <1>5, <1>6 DEF StatusSet, Lasting, RowsKept, Present

\* A process in a handler has a row in hand.
LEMMA InHand ==
  ASSUME BoardInv
  PROVE  \A v \in Workers : Busy(v) => On(v) \in Comments /\ Present(On(v))
BY DEF BoardInv, WorkersAt, Busy, Phase

\* Who is about to queue a request still is after a step of somebody else.
LEMMA KeepsOn ==
  ASSUME BoardInv, NEW p \in Procs, NEW q \in Procs, q # p, Others(p), Lasting, NEW i \in Requests,
         Keeps(q, i)
  PROVE  Keeps(q, i)'
<1>1. Phase(q)' = Phase(q) /\ On(q)' = On(q) /\ New(q)' = New(q)
  BY DEF Others
<1>2. CASE Phase(q) \in {"revise3", "wake2"} /\ On(q) \in Reports
  <2>1. Present(On(q)) /\ On(q) \in Comments
    <3>1. q \in Workers
      BY <1>2, PhaseOf, Kinds
    <3> QED
      BY <3>1, <1>2, InHand DEF Busy
  <2>2. Of(On(q)) \in Requests /\ Present(Of(On(q))) /\ Of(On(q)) \in Comments
    BY <2>1, <1>2, Kinds DEF BoardInv, Parents
  <2>3. Of(On(q))' = Of(On(q)) /\ Of(Of(On(q)))' = Of(Of(On(q)))
    BY <2>1, <2>2, <1>1 DEF Lasting
  <2> QED
    BY <2>3, <1>1 DEF Keeps
<1>3. CASE ~(Phase(q) \in {"revise3", "wake2"} /\ On(q) \in Reports)
  BY <1>1, <1>3 DEF Keeps
<1> QED
  BY <1>2, <1>3

\* While a request is not approved the card is not done.
LEMMA NotDone ==
  ASSUME BoardInv, NEW i \in Requests, Present(i), St(i) # "approved"
  PROVE  ~Terminal
<1>1. SUFFICES ASSUME Terminal PROVE FALSE
  OBVIOUS
<1>2. Delivered(i)
  BY <1>1 DEF BoardInv, DoneDelivered
<1>3. PICK j \in Reports : msg[j].of = i /\ Delivers(j)
  BY <1>2 DEF Delivered
<1> QED
  BY <1>3 DEF Delivers, St

\* Only the run of a row has changed.
RunSet(c, r) ==
  /\ msg' \in [Comments -> Row] /\ RowsKept({c}) /\ Lasting
  /\ St(c)' = St(c) /\ Of(c)' = Of(c) /\ Run(c)' = r /\ Up(c)' = Up(c) /\ Acc(c)' = Acc(c)

\* An update of the run of a row, as enqueueTaskRun and completeTaskRun make it.
LEMMA SettingRun ==
  ASSUME msg \in [Comments -> Row], NEW c \in Comments, NEW r \in {"none", "queued", "lost"} \cup Workers,
         msg' = [msg EXCEPT ![c].run = r]
  PROVE  RunSet(c, r)
<1>1. msg[c] \in Row /\ msg' = [msg EXCEPT ![c] = [msg[c] EXCEPT !.run = r]]
  OBVIOUS
<1>2. [msg[c] EXCEPT !.run = r] \in Row
  BY <1>1 DEF Row
<1>3. msg' \in [Comments -> Row] /\ \A d \in Comments \ {c} : msg'[d] = msg[d]
  BY <1>1, <1>2
<1>4. /\ msg'[c].status = msg[c].status /\ msg'[c].of = msg[c].of /\ msg'[c].run = r
      /\ msg'[c].up = msg[c].up /\ msg'[c].accepted = msg[c].accepted
  BY <1>1 DEF Row
<1>5. RowsKept({c})
  BY <1>3 DEF RowsKept, St, Of, Run, Up, Acc
<1>6. St(c)' = St(c) /\ Of(c)' = Of(c) /\ Run(c)' = r /\ Up(c)' = Up(c) /\ Acc(c)' = Acc(c)
  BY <1>4 DEF St, Of, Run, Up, Acc
<1> QED
  BY <1>3, <1>5, <1>6 DEF RunSet, Lasting, RowsKept, Present

\* completeTaskRun: the run is the worker's.
LEMMA Completing ==
  ASSUME msg \in [Comments -> Row], NEW w \in Workers, NEW c \in Comments, On(w) = c, Run(c) = w,
         msg' = Completed(msg, w)
  PROVE  RunSet(c, "none")
<1>1. msg' = [msg EXCEPT ![c].run = "none"]
  BY DEF Completed, On, Run
<1> QED
  BY <1>1, SettingRun

\* enqueueMessageTaskRun of a comment that may still be worked on.
LEMMA Queueing ==
  ASSUME msg \in [Comments -> Row], NEW c \in Comments, msg' = Queued(msg, c),
         ~Terminal \/ (c \in Reports /\ St(c) = "submitted")
  PROVE  RunSet(c, IF Run(c) = "none" THEN "queued" ELSE Run(c))
<1>1. msg' = [msg EXCEPT ![c].run = IF @ = "none" THEN "queued" ELSE @]
  BY DEF Queued, St
<1>2. msg' = [msg EXCEPT ![c].run = IF Run(c) = "none" THEN "queued" ELSE Run(c)]
  BY <1>1 DEF Run
<1>3. (IF Run(c) = "none" THEN "queued" ELSE Run(c)) \in {"none", "queued", "lost"} \cup Workers
  BY DEF Run, Row
<1> QED
  BY <1>2, <1>3, SettingRun

\* routeDelegatedQuestion: the question is a row of its own, open until it is answered.
LEMMA Asking ==
  ASSUME msg \in [Comments -> Row], NEW w \in Workers, NEW c \in Comments, On(w) = c, Ask(w)
  PROVE  StatusSet(c, "waiting")
<1>1. /\ msg[c] \in Row
      /\ msg' = [msg EXCEPT ![c] = [msg[c] EXCEPT !.question = TRUE, !.status = "waiting"]]
  BY DEF Ask, On
<1>2. [msg[c] EXCEPT !.question = TRUE, !.status = "waiting"] \in Row
  BY <1>1 DEF Row
<1>3. msg' \in [Comments -> Row] /\ \A d \in Comments \ {c} : msg'[d] = msg[d]
  BY <1>1, <1>2
<1>4. /\ msg'[c].status = "waiting" /\ msg'[c].of = msg[c].of /\ msg'[c].run = msg[c].run
      /\ msg'[c].up = msg[c].up /\ msg'[c].accepted = msg[c].accepted
  BY <1>1 DEF Row
<1>5. RowsKept({c})
  BY <1>3 DEF RowsKept, St, Of, Run, Up, Acc
<1>6. St(c)' = "waiting" /\ Of(c)' = Of(c) /\ Run(c)' = Run(c) /\ Up(c)' = Up(c) /\ Acc(c)' = Acc(c)
  BY <1>4 DEF St, Of, Run, Up, Acc
<1> QED
  BY <1>3, <1>5, <1>6 DEF StatusSet, Lasting, RowsKept, Present

\* A failure (completeRetryableRun) may block the card; it does not finish it.
LEMMA Failing ==
  ASSUME card \in CardRow, NEW p
  PROVE  Failed(p) \in CardRow /\ (Failed(p).status = "done" => Terminal)
<1> DEFINE n == card[Streak(p)] + 1
           s == IF n >= FailureLimit /\ ~Terminal THEN "blocked" ELSE card.status
<1>1. s \in {"todo", "in_progress", "waiting_on_brainstorm", "blocked", "done"} /\ (s = "done" => Terminal)
  BY DEF CardRow, Terminal
<1>2. n \in Nat /\ Streak(p) \in {"message", "message_review"}
  BY DEF CardRow, Streak
<1>3. Failed(p) = [card EXCEPT ![Streak(p)] = n, !.status = s]
  BY DEF Failed
<1> HIDE DEF n, s
<1>4. CASE Streak(p) = "message"
  <2>1. Failed(p) = [card EXCEPT !.message = n, !.status = s]
    BY <1>3, <1>4
  <2> QED
    BY <2>1, <1>1, <1>2 DEF CardRow
<1>5. CASE Streak(p) = "message_review"
  <2>1. Failed(p) = [card EXCEPT !.message_review = n, !.status = s]
    BY <1>3, <1>5
  <2> QED
    BY <2>1, <1>1, <1>2 DEF CardRow
<1> QED
  BY <1>2, <1>4, <1>5

-----------------------------------------------------------------------------
(* New rows. *)

\* < on the ids, as a relation.
LessThan == {p \in Nat \X Nat : p[1] < p[2]}

\* The order of the ids is well founded.
LEMMA LessThanWellFounded == IsWellFoundedOn(LessThan, Nat)
<1>1. OpToRel(<, Nat) = LessThan
  BY DEF OpToRel, LessThan
<1> QED
  BY <1>1, NatLessThanWellFounded

\* While there is a row left, the next id is one of those.
LEMMA LeastIsMember ==
  ASSUME NEW S \in SUBSET Nat, S # {}
  PROVE  Least(S) \in S
<1>1. PICK x \in S : \A y \in S : ~(<<y, x>> \in LessThan)
  BY LessThanWellFounded, WFMin
<1>2. ASSUME NEW y \in S, ~(x <= y) PROVE FALSE
  <2>1. y \in Nat /\ x \in Nat /\ y < x
    BY <1>2
  <2>2. <<y, x>> \in Nat \X Nat /\ <<y, x>>[1] < <<y, x>>[2]
    BY <2>1
  <2>3. <<y, x>> \in LessThan
    BY <2>2, Zenon DEF LessThan
  <2> QED
    BY <1>1, <2>3
<1> QED
  BY <1>2 DEF Least

\* Row c is inserted with this status, as a part of or a report on o.
NewRow(c, s, o) ==
  /\ msg' \in [Comments -> Row] /\ RowsKept({c}) /\ Lasting
  /\ ~Present(c) /\ St(c)' = s /\ Of(c)' = o
  /\ Run(c)' = Run(c) /\ Up(c)' = Up(c) /\ Acc(c)' = Acc(c)

\* createMessageDelegations, and the insertion of a report.
LEMMA InsertingRow ==
  ASSUME msg \in [Comments -> Row], NEW c \in Comments, msg[c].status = "absent",
         NEW s \in {"queued", "submitted"}, NEW o \in Requests \cup {Owner},
         msg' = [msg EXCEPT ![c].status = s, ![c].of = o]
  PROVE  NewRow(c, s, o)
<1>1. msg[c] \in Row /\ msg' = [msg EXCEPT ![c] = [msg[c] EXCEPT !.status = s, !.of = o]]
  OBVIOUS
<1>2. [msg[c] EXCEPT !.status = s, !.of = o] \in Row
  BY <1>1 DEF Row
<1>3. msg' \in [Comments -> Row] /\ \A d \in Comments \ {c} : msg'[d] = msg[d]
  BY <1>1, <1>2
<1>4. /\ msg'[c].status = s /\ msg'[c].of = o /\ msg'[c].run = msg[c].run
      /\ msg'[c].up = msg[c].up /\ msg'[c].accepted = msg[c].accepted
  BY <1>1 DEF Row
<1>5. RowsKept({c})
  BY <1>3 DEF RowsKept, St, Of, Run, Up, Acc
<1>6. St(c)' = s /\ Of(c)' = o /\ Run(c)' = Run(c) /\ Up(c)' = Up(c) /\ Acc(c)' = Acc(c)
  BY <1>4 DEF St, Of, Run, Up, Acc
<1>7. ~Present(c)
  BY DEF Present, St
<1> QED
  BY <1>3, <1>5, <1>6, <1>7 DEF NewRow, Lasting, RowsKept, Present

\* A process goes on with the row it has inserted.
GoesWith(p, c) == at' = [at EXCEPT ![p].todo = Tail(@), ![p].new = c]

\* A worker that has inserted a row is in the same handler, and the others stay.
LEMMA WorkerInserts ==
  ASSUME BoardInv, NEW w \in Workers, NEW s, At(w, s), NEW t, t = Rest(at[w].todo), t # <<>>,
         NEW c \in Comments, GoesWith(w, c),
         Lasting, Terminal' => Terminal
  PROVE  /\ at' \in [Procs -> Proc] /\ Moves(w, NameOf(t))
         /\ On(w)' = On(w) /\ New(w)' = c
         /\ WorkersAt' /\ OwnerAt' /\ TickAt'
<1>1. /\ w \in Procs /\ at \in [Procs -> Proc] /\ at[w].pc = "work"
      /\ On(w) \in Comments /\ Present(On(w))
      /\ t \in IF On(w) \in Requests THEN RequestWork ELSE ReviewWork
  BY AtWork DEF BoardInv, Tables
<1>2. t \in Lists
  BY <1>1 DEF Lists
<1>3. at[w] \in Proc /\ at' = [at EXCEPT ![w] = [at[w] EXCEPT !.todo = t, !.new = c]]
  BY <1>1 DEF Rest, GoesWith
<1>4. [at[w] EXCEPT !.todo = t, !.new = c] \in Proc
  BY <1>2, <1>3 DEF Proc
<1>5. at' \in [Procs -> Proc]
  BY <1>1, <1>3, <1>4
<1>6. /\ \A q \in Procs \ {w} : at'[q] = at[q]
      /\ at'[w].pc = "work" /\ at'[w].on = at[w].on /\ at'[w].todo = t
      /\ at'[w].new = c /\ at'[w].behind = at[w].behind
  <2>1. (\A q \in Procs \ {w} : at'[q] = at[q]) /\ at'[w] = [at[w] EXCEPT !.todo = t, !.new = c]
    BY <1>1, <1>3
  <2> QED
    BY <2>1, <1>1, <1>3 DEF Proc
<1>7. Moves(w, NameOf(t))
  BY <1>1, <1>5, <1>6, MovesOn
<1>8. Moves(w, NameOf(t)) /\ On(w)' = On(w) /\ New(w)' = c
  BY <1>6, <1>7 DEF On, New
<1>9. WorkersAt'
  <2>1. SUFFICES ASSUME NEW v \in Workers
                 PROVE  /\ at'[v].pc # "idle" => On(v)' \in Comments /\ Present(On(v))'
                        /\ at'[v].pc = "work" /\ On(v)' \in Requests => at'[v].todo \in RequestWork
                        /\ at'[v].pc = "work" /\ On(v)' \in Reports => at'[v].todo \in ReviewWork
    BY DEF WorkersAt
  <2>2. CASE v = w
    BY <2>2, <1>1, <1>6, <1>8, Kinds DEF Lasting
  <2>3. CASE v # w
    <3>1. at'[v] = at[v] /\ On(v)' = On(v)
      BY <2>3, <1>6, Kinds DEF On
    <3>2. at[v].pc # "idle" => On(v) \in Comments /\ Present(On(v))
      BY DEF BoardInv, WorkersAt
    <3> QED
      BY <3>1, <3>2 DEF BoardInv, WorkersAt, Lasting
  <2> QED
    BY <2>2, <2>3
<1>10. OwnerAt' /\ TickAt'
  BY <1>6, Kinds DEF BoardInv, OwnerAt, TickAt, Busy, Phase, On
<1> QED
  BY <1>5, <1>8, <1>9, <1>10

\* Rows that are not there yet are with nobody.
LEMMA Absent ==
  ASSUME BoardInv, NEW c \in Comments, ~Present(c)
  PROVE  /\ Run(c) = "none" /\ ~Up(c) /\ ~Acc(c) /\ Untouched(c) /\ ~TickOn(c)
         /\ \A d \in Comments : Present(d) => Of(d) # c
<1>1. Run(c) = "none" /\ ~Up(c) /\ ~Acc(c) /\ \A d \in Comments : Present(d) => Of(d) # c
  BY Kinds, Cells DEF BoardInv, Parents
<1>2. Untouched(c)
  BY <1>1, InHand DEF Untouched
<1>3. ~TickOn(c)
  BY PhaseOf DEF BoardInv, Answering, TickOn, Present
<1> QED
  BY <1>1, <1>2, <1>3

-----------------------------------------------------------------------------
(* Reviews. *)

\* A reviewer has the report to itself, and while the report awaits its review the
\* request waits too.
LEMMA InReview ==
  ASSUME BoardInv, NEW w \in Workers, Busy(w), NEW j \in Reports, On(w) = j, NEW i, Of(j) = i
  PROVE  /\ j \in Comments /\ Present(j) /\ i \in Requests /\ i \in Comments /\ Present(i) /\ Review(w)
         /\ \A v \in Workers \ {w} : Busy(v) => On(v) # j
         /\ Phase(w) \notin Ended => Run(j) = w
         /\ Phase(w) \in Ended => Run(j) = "none"
         /\ St(j) = "submitted" => /\ St(i) = "submitted" /\ Untouched(i) /\ ~TickOn(i) /\ ~Terminal
                                   /\ \A k \in Reports : St(k) = "submitted" /\ Of(k) = i => k = j
<1>1. /\ j \in Comments /\ Present(j) /\ Review(w)
      /\ \A v \in Workers \ {w} : Busy(v) => On(v) # j
  BY InHand, Alone, Kinds DEF BoardInv, Reviewing
<1>2. i \in Requests /\ i \in Comments /\ Present(i)
  BY <1>1, Kinds DEF BoardInv, Parents
<1>3. ASSUME St(j) = "submitted"
      PROVE  /\ St(i) = "submitted" /\ Untouched(i) /\ ~TickOn(i) /\ ~Terminal
             /\ \A k \in Reports : St(k) = "submitted" /\ Of(k) = i => k = j
  <2>1. ~Inserting(j)
    BY DEF BoardInv, HandingIn, Inserting, Untouched
  <2>2. St(i) = "submitted" /\ Untouched(i)
    BY <1>3, <2>1 DEF BoardInv, UnderReview
  <2>3. ~TickOn(i)
    BY <1>2, <2>2 DEF BoardInv, Answering
  <2>4. \A k \in Reports : St(k) = "submitted" /\ Of(k) = i => k = j
    BY <1>3 DEF BoardInv, UnderReview
  <2> QED
    BY <1>2, <2>2, <2>3, <2>4, NotDone
<1>4. /\ Phase(w) \notin Ended => Run(j) = w
      /\ Phase(w) \in Ended => Run(j) = "none"
  BY DEF BoardInv, Runs
<1> QED
  BY <1>1, <1>2, <1>3, <1>4

\* Deliveries last while approved rows do.
LEMMA Delivering ==
  ASSUME BoardInv, Terminal,
         \A c \in Requests : Present(c)' => Present(c),
         \A c \in Comments : St(c) = "approved" => St(c)' = "approved",
         \A c \in Reports : Present(c) => Of(c)' = Of(c) /\ Up(c)' = Up(c) /\ (Acc(c) => Acc(c)')
  PROVE  DoneDelivered'
<1>1. SUFFICES ASSUME NEW i \in Requests, Present(i)' PROVE Delivered(i)'
  BY DEF DoneDelivered
<1>2. Delivered(i)
  BY <1>1 DEF BoardInv, DoneDelivered
<1>3. PICK j \in Reports : Of(j) = i /\ Acc(j) /\ St(j) = "approved" /\ ~Up(j) /\ St(Of(j)) = "approved"
  BY <1>2 DEF Delivered, Delivers, Of, Acc, St, Up
<1>4. Of(j)' = i /\ Acc(j)' /\ St(j)' = "approved" /\ ~Up(j)' /\ St(i)' = "approved"
  BY <1>3, Kinds DEF Present
<1>5. (St(Of(j)))' = "approved"
  BY <1>4
<1> QED
  BY <1>4, <1>5 DEF Delivered, Delivers, Of, Acc, St, Up

\* The delegate that is told of an approval (dispatch.ts:2826) is not about to report,
\* and has no report under review: this part of its request was not settled.
LEMMA InWake ==
  ASSUME BoardInv, NEW w \in Workers, Phase(w) \in {"wake1", "wake2"}, NEW j \in Reports, On(w) = j,
         NEW i, Of(j) = i, NEW h, Of(i) = h
  PROVE  /\ h \in Requests /\ h \in Comments /\ Present(h) /\ ~Reported(h)
         /\ St(h) \in {"queued", "running", "waiting", "failed"} /\ ~Terminal
         /\ \A v \in Workers : Busy(v) /\ On(v) = h => ~Works(v)
         /\ \A r \in Reports : Of(r) = h => St(r) # "submitted"
         /\ \A v \in Workers : On(v) \in Reports /\ Of(On(v)) = h => Phase(v) \notin {"revise2", "revise3"}
         /\ Run(h) = "none" => Untouched(h) /\ St(h) # "running"
<1>1. Busy(w) /\ Works(w)
  BY DEF Busy, Works
<1>2. i \in Requests /\ Present(i) /\ Review(w)
  BY <1>1, InReview
<1>3. h \in Requests /\ h \in Comments /\ Present(h)
  BY <1>2, Cells, Kinds DEF Review, BoardInv, Parents
<1>4. ~Reported(h)
  BY <1>1, <1>2, <1>3 DEF BoardInv, Integrated, Still
<1>5. St(h) \in {"queued", "running", "waiting", "failed"}
  BY <1>3, <1>4, Cells DEF BoardInv, Reported, Standings, Present
<1>6. ASSUME NEW v \in Workers, Busy(v), On(v) = h PROVE ~Works(v)
  <2>1. v # w /\ Role(v) = h /\ Role(w) = h
    BY <1>3, <1>6, Kinds DEF Role
  <2> QED
    BY <1>1, <1>6, <2>1 DEF BoardInv, OneAtWork
<1>7. ASSUME NEW r \in Reports, Of(r) = h, St(r) = "submitted" PROVE FALSE
  <2>1. PICK v \in Workers : Phase(v) \in HandsIn /\ New(v) = r
    BY <1>5, <1>7 DEF BoardInv, UnderReview, Inserting
  <2>2. On(v) = h /\ Busy(v) /\ Works(v)
    BY <1>7, <2>1 DEF BoardInv, HandingIn, HandsIn, Busy, Works
  <2> QED
    BY <1>6, <2>2
<1>8. \A v \in Workers : On(v) \in Reports /\ Of(On(v)) = h => Phase(v) \notin {"revise2", "revise3"}
  BY <1>4, <1>5 DEF Reported, BoardInv, Reviewing, Review, Busy
<1>9. ASSUME Run(h) = "none" PROVE Untouched(h) /\ St(h) # "running"
  <2>1. \A v \in Workers : Busy(v) => On(v) # h
    BY <1>6, <1>9, Kinds DEF BoardInv, Runs, Ended, Works
  <2>2. St(h) # "running"
    BY <1>3, <1>9, <2>1, Kinds DEF BoardInv, Kept, Busy
  <2> QED
    BY <1>9, <2>1, <2>2 DEF Untouched
<1> QED
  BY <1>3, <1>4, <1>5, <1>6, <1>7, <1>8, <1>9, NotDone

\* Approved: the report and its request, in one transaction.
LEMMA Approving ==
  ASSUME msg \in [Comments -> Row], NEW j \in Comments, NEW i \in Comments, Of(j) = i, i # j,
         msg' = Approved(j)
  PROVE  /\ msg' \in [Comments -> Row] /\ RowsKept({i, j}) /\ Lasting
         /\ St(j)' = "approved" /\ St(i)' = "approved"
         /\ \A c \in {i, j} : Of(c)' = Of(c) /\ Run(c)' = Run(c) /\ Up(c)' = Up(c) /\ Acc(c)' = Acc(c)
<1>1. /\ msg[i] \in Row /\ msg[j] \in Row
      /\ msg' = [msg EXCEPT ![j] = [msg[j] EXCEPT !.status = "approved"],
                            ![i] = [msg[i] EXCEPT !.status = "approved"]]
  BY DEF Approved, Of
<1>2. [msg[j] EXCEPT !.status = "approved"] \in Row /\ [msg[i] EXCEPT !.status = "approved"] \in Row
  BY <1>1 DEF Row
<1>3. /\ msg' \in [Comments -> Row] /\ \A d \in Comments \ {i, j} : msg'[d] = msg[d]
      /\ msg'[j] = [msg[j] EXCEPT !.status = "approved"]
      /\ msg'[i] = [msg[i] EXCEPT !.status = "approved"]
  BY <1>1, <1>2
<1>4. \A c \in {i, j} : /\ msg'[c].status = "approved" /\ msg'[c].of = msg[c].of
                         /\ msg'[c].run = msg[c].run /\ msg'[c].up = msg[c].up
                         /\ msg'[c].accepted = msg[c].accepted
  BY <1>1, <1>3 DEF Row
<1>5. RowsKept({i, j})
  BY <1>3 DEF RowsKept, St, Of, Run, Up, Acc
<1>6. \A c \in {i, j} : /\ St(c)' = "approved" /\ Of(c)' = Of(c) /\ Run(c)' = Run(c)
                         /\ Up(c)' = Up(c) /\ Acc(c)' = Acc(c)
  BY <1>4 DEF St, Of, Run, Up, Acc
<1> QED
  BY <1>3, <1>5, <1>6 DEF Lasting, RowsKept, Present

\* acceptDelegatedDelivery: a delivery is accepted, and stays accepted.
LEMMA Accepting ==
  ASSUME msg \in [Comments -> Row], NEW w \in Workers, NEW j \in Comments, On(w) = j, Accept(w)
  PROVE  /\ msg' \in [Comments -> Row] /\ RowsKept({j}) /\ Lasting
         /\ St(j)' = St(j) /\ Of(j)' = Of(j) /\ Run(j)' = Run(j) /\ Up(j)' = Up(j) /\ (Acc(j) => Acc(j)')
<1>1. /\ msg[j] \in Row
      /\ msg' = [msg EXCEPT ![j] = [msg[j] EXCEPT !.accepted = msg[j].accepted \/ Delivers(j)]]
  BY DEF Accept, On
<1>2. PICK b \in BOOLEAN : b = (msg[j].accepted \/ Delivers(j))
  OBVIOUS
<1>3. [msg[j] EXCEPT !.accepted = b] \in Row /\ msg' = [msg EXCEPT ![j] = [msg[j] EXCEPT !.accepted = b]]
  BY <1>1, <1>2 DEF Row
<1>4. msg' \in [Comments -> Row] /\ \A d \in Comments \ {j} : msg'[d] = msg[d]
  BY <1>3
<1>5. /\ msg'[j].status = msg[j].status /\ msg'[j].of = msg[j].of /\ msg'[j].run = msg[j].run
      /\ msg'[j].up = msg[j].up /\ msg'[j].accepted = b
  BY <1>1, <1>3 DEF Row
<1>6. RowsKept({j})
  BY <1>4 DEF RowsKept, St, Of, Run, Up, Acc
<1>7. St(j)' = St(j) /\ Of(j)' = Of(j) /\ Run(j)' = Run(j) /\ Up(j)' = Up(j) /\ (Acc(j) => Acc(j)')
  BY <1>2, <1>5 DEF St, Of, Run, Up, Acc
<1> QED
  BY <1>4, <1>6, <1>7 DEF Lasting, RowsKept, Present

\* The report is addressed to the reviewer's manager.
LEMMA Escalating ==
  ASSUME msg \in [Comments -> Row], NEW w \in Workers, NEW j \in Comments, On(w) = j, Escalate(w)
  PROVE  /\ msg' \in [Comments -> Row] /\ RowsKept({j}) /\ Lasting
         /\ St(j)' = "submitted" /\ Of(j)' = Of(j) /\ Run(j)' = Run(j) /\ Up(j)' = TRUE /\ Acc(j)' = Acc(j)
<1>1. /\ msg[j] \in Row
      /\ msg' = [msg EXCEPT ![j] = [msg[j] EXCEPT !.up = TRUE, !.status = "submitted"]]
  BY DEF Escalate, On
<1>2. [msg[j] EXCEPT !.up = TRUE, !.status = "submitted"] \in Row
  BY <1>1 DEF Row
<1>3. msg' \in [Comments -> Row] /\ \A d \in Comments \ {j} : msg'[d] = msg[d]
  BY <1>1, <1>2
<1>4. /\ msg'[j].status = "submitted" /\ msg'[j].of = msg[j].of /\ msg'[j].run = msg[j].run
      /\ msg'[j].up = TRUE /\ msg'[j].accepted = msg[j].accepted
  BY <1>1 DEF Row
<1>5. RowsKept({j})
  BY <1>3 DEF RowsKept, St, Of, Run, Up, Acc
<1>6. St(j)' = "submitted" /\ Of(j)' = Of(j) /\ Run(j)' = Run(j) /\ Up(j)' = TRUE /\ Acc(j)' = Acc(j)
  BY <1>4 DEF St, Of, Run, Up, Acc
<1> QED
  BY <1>3, <1>5, <1>6 DEF Lasting, RowsKept, Present
-----------------------------------------------------------------------------
(* Lists put together. *)

\* What two lists one after the other are.
LEMMA Join ==
  ASSUME NEW S, NEW s \in Seq(S), NEW t \in Seq(S), NEW u \in Seq(S), Len(u) = Len(s) + Len(t),
         \A k \in 1 .. Len(s) : u[k] = s[k],
         \A k \in 1 .. Len(u) : k > Len(s) => u[k] = t[k - Len(s)]
  PROVE  s \o t = u
<1>1. s \o t \in Seq(S) /\ Len(s \o t) = Len(u)
  BY ConcatProperties
<1>2. ASSUME NEW k \in 1 .. Len(u) PROVE (s \o t)[k] = u[k]
  <2>1. (s \o t)[k] = IF k <= Len(s) THEN s[k] ELSE t[k - Len(s)]
    BY ConcatProperties
  <2>2. Len(s) \in Nat /\ k \in Nat
    OBVIOUS
  <2> QED
    BY <2>1, <2>2
<1> QED
  BY <1>1, <1>2, SeqEqual

\* A list of one and one of one.
LEMMA Join11 ==
  ASSUME NEW a, NEW b
  PROVE  <<a>> \o <<b>> = <<a, b>>
<1> DEFINE S == {a, b}
           s == <<a>>
           t == <<b>>
           u == <<a, b>>
<1>1. s \in Seq(S) /\ t \in Seq(S) /\ u \in Seq(S)
  OBVIOUS
<1>2. Len(s) = 1 /\ Len(t) = 1 /\ Len(u) = 2
  OBVIOUS
<1>3. \A k \in 1 .. 1 : u[k] = s[k]
  OBVIOUS
<1>4. \A k \in 1 .. 2 : k > 1 => u[k] = t[k - 1]
  OBVIOUS
<1>5. s \o t = u
  <2> HIDE DEF S, s, t, u
  <2>1. Len(u) = Len(s) + Len(t)
    BY <1>2
  <2>2. \A k \in 1 .. Len(s) : u[k] = s[k]
    BY <1>2, <1>3
  <2>3. \A k \in 1 .. Len(u) : k > Len(s) => u[k] = t[k - Len(s)]
    BY <1>2, <1>4
  <2> QED
    BY <1>1, <2>1, <2>2, <2>3, Join
<1> QED
  BY <1>5

\* A list of two and one of one.
LEMMA Join21 ==
  ASSUME NEW a, NEW b, NEW c
  PROVE  <<a, b>> \o <<c>> = <<a, b, c>>
<1> DEFINE S == {a, b, c}
           s == <<a, b>>
           t == <<c>>
           u == <<a, b, c>>
<1>1. s \in Seq(S) /\ t \in Seq(S) /\ u \in Seq(S)
  OBVIOUS
<1>2. Len(s) = 2 /\ Len(t) = 1 /\ Len(u) = 3
  OBVIOUS
<1>3. \A k \in 1 .. 2 : u[k] = s[k]
  OBVIOUS
<1>4. \A k \in 1 .. 3 : k > 2 => u[k] = t[k - 2]
  OBVIOUS
<1>5. s \o t = u
  <2> HIDE DEF S, s, t, u
  <2>1. Len(u) = Len(s) + Len(t)
    BY <1>2
  <2>2. \A k \in 1 .. Len(s) : u[k] = s[k]
    BY <1>2, <1>3
  <2>3. \A k \in 1 .. Len(u) : k > Len(s) => u[k] = t[k - Len(s)]
    BY <1>2, <1>4
  <2> QED
    BY <1>1, <2>1, <2>2, <2>3, Join
<1> QED
  BY <1>5

\* A list of two and one of two.
LEMMA Join22 ==
  ASSUME NEW a, NEW b, NEW c, NEW d
  PROVE  <<a, b>> \o <<c, d>> = <<a, b, c, d>>
<1> DEFINE S == {a, b, c, d}
           s == <<a, b>>
           t == <<c, d>>
           u == <<a, b, c, d>>
<1>1. s \in Seq(S) /\ t \in Seq(S) /\ u \in Seq(S)
  OBVIOUS
<1>2. Len(s) = 2 /\ Len(t) = 2 /\ Len(u) = 4
  OBVIOUS
<1>3. \A k \in 1 .. 2 : u[k] = s[k]
  OBVIOUS
<1>4. \A k \in 1 .. 4 : k > 2 => u[k] = t[k - 2]
  OBVIOUS
<1>5. s \o t = u
  <2> HIDE DEF S, s, t, u
  <2>1. Len(u) = Len(s) + Len(t)
    BY <1>2
  <2>2. \A k \in 1 .. Len(s) : u[k] = s[k]
    BY <1>2, <1>3
  <2>3. \A k \in 1 .. Len(u) : k > Len(s) => u[k] = t[k - Len(s)]
    BY <1>2, <1>4
  <2> QED
    BY <1>1, <2>1, <2>2, <2>3, Join
<1> QED
  BY <1>5

\* A list of four and one of two.
LEMMA Join42 ==
  ASSUME NEW a, NEW b, NEW c, NEW d, NEW e, NEW f
  PROVE  <<a, b, c, d>> \o <<e, f>> = <<a, b, c, d, e, f>>
<1> DEFINE S == {a, b, c, d, e, f}
           s == <<a, b, c, d>>
           t == <<e, f>>
           u == <<a, b, c, d, e, f>>
<1>1. s \in Seq(S) /\ t \in Seq(S) /\ u \in Seq(S)
  OBVIOUS
<1>2. Len(s) = 4 /\ Len(t) = 2 /\ Len(u) = 6
  OBVIOUS
<1>3. \A k \in 1 .. 4 : u[k] = s[k]
  OBVIOUS
<1>4. \A k \in 1 .. 6 : k > 4 => u[k] = t[k - 4]
  OBVIOUS
<1>5. s \o t = u
  <2> HIDE DEF S, s, t, u
  <2>1. Len(u) = Len(s) + Len(t)
    BY <1>2
  <2>2. \A k \in 1 .. Len(s) : u[k] = s[k]
    BY <1>2, <1>3
  <2>3. \A k \in 1 .. Len(u) : k > Len(s) => u[k] = t[k - Len(s)]
    BY <1>2, <1>4
  <2> QED
    BY <1>1, <2>1, <2>2, <2>3, Join
<1> QED
  BY <1>5

\* The lists continueAfterMessageReportApproval (dispatch.ts:2826) goes on with.
LEMMA TellLists ==
  /\ <<"wakeOwner">> \o End = Tell
  /\ <<"wakeParent", "queueParent">> \o End = Wake1
<1>1. <<"wakeOwner">> \o <<"succeed">> = <<"wakeOwner", "succeed">>
  BY Join11
<1>2. <<"wakeParent", "queueParent">> \o <<"succeed">> = <<"wakeParent", "queueParent", "succeed">>
  BY Join21
<1> QED
  BY <1>1, <1>2 DEF End, Tell, Wake1

\* The lists a delegation (dispatch.ts:2718) goes on with.
LEMMA DelegationLists ==
  /\ Delegation \o <<"wait", "succeed">> = Split1
  /\ Delegation \o <<"toProgress", "ownerDone">> = Owner3
  /\ (Delegation \o Delegation) \o <<"toProgress", "ownerDone">> = Owner1
<1>1. <<"insertRequest", "queueNew">> \o <<"wait", "succeed">>
        = <<"insertRequest", "queueNew", "wait", "succeed">>
  BY Join22
<1>2. <<"insertRequest", "queueNew">> \o <<"toProgress", "ownerDone">>
        = <<"insertRequest", "queueNew", "toProgress", "ownerDone">>
  BY Join22
<1>3. <<"insertRequest", "queueNew">> \o <<"insertRequest", "queueNew">>
        = <<"insertRequest", "queueNew", "insertRequest", "queueNew">>
  BY Join22
<1>4. <<"insertRequest", "queueNew", "insertRequest", "queueNew">> \o <<"toProgress", "ownerDone">>
        = <<"insertRequest", "queueNew", "insertRequest", "queueNew", "toProgress", "ownerDone">>
  BY Join42
<1> QED
  BY <1>1, <1>2, <1>3, <1>4 DEF Delegation, Split1, Owner1, Owner3

\* A request waits: for its parts, for its owner, or for an answer.
LEMMA WaitStep ==
  ASSUME BoardInv, NEW w \in Workers, Mark(w, "wait"), NEW i \in Requests, On(w) = i
  PROVE  BoardInv'
<1> USE DEF RowsKept, Others, Busy
<1>1. At(w, "wait") /\ Goes(w, Rest(at[w].todo)) /\ budget' = budget
  BY DEF Mark, Then, Rest
<1>2. \/ Phase(w) = "split3" /\ NameOf(Rest(at[w].todo)) = "end"
      \/ Phase(w) = "progress1" /\ NameOf(Rest(at[w].todo)) = "progress2"
      \/ Phase(w) = "question1" /\ NameOf(Rest(at[w].todo)) = "question2"
  BY <1>1, RequestPhases
<1>3. /\ Present(i) /\ i \in Comments /\ St(i) \in {"queued", "running"} /\ Run(i) = w
      /\ \A v \in Workers \ {w} : Busy(v) => On(v) # i
  BY <1>1, <1>2, AtWork, Alone, Kinds DEF BoardInv, Standings, Standing, Runs, Ended
<1>4. ~Terminal
  BY <1>3, NotDone
<1>5. StatusSet(i, "waiting")
  BY <1>3, Marking DEF Mark, StatusAfter, BoardInv, Tables, On
<1>6. card' = card /\ ~Terminal'
  BY <1>4 DEF Mark, Terminal
<1>7. /\ at' \in [Procs -> Proc] /\ Moves(w, NameOf(Rest(at[w].todo)))
      /\ NameOf(Rest(at[w].todo)) # "idle" => New(w)' = New(w)
      /\ WorkersAt' /\ OwnerAt' /\ TickAt'
  BY <1>1, <1>5, <1>6, AtWork, WorkerGoes DEF StatusSet
<1>8. /\ Others(w) /\ Phase(w)' = NameOf(Rest(at[w].todo))
      /\ Phase(w)' # "idle" => On(w)' = i /\ New(w)' = New(w)
  BY <1>7 DEF Moves
<1>9. /\ RowsKept({i}) /\ St(i)' = "waiting" /\ Of(i)' = Of(i) /\ Run(i)' = Run(i)
      /\ Up(i)' = Up(i) /\ Acc(i)' = Acc(i)
  BY <1>5 DEF StatusSet
<1>10. \A p \in Procs, c \in Requests : Keeps(p, c) /\ c # i => Keeps(p, c)'
  <2>1. \A c \in Requests : Keeps(w, c) => c = i
    BY <1>2, Kinds DEF Keeps, HandsOut
  <2> QED
    BY <2>1, <1>8, <1>5, KeepsOn, Kinds DEF StatusSet
<1>11. Tables' /\ OneAtWork' /\ DoneDelivered'
  BY <1>1, <1>2, <1>5, <1>6, <1>7, AtWork, InOrder DEF StatusSet, BoardInv, Tables, DoneDelivered
<1>12. Parents'
  BY <1>2, <1>3, <1>8, <1>9, InHand, Kinds, Cells DEF BoardInv, Parents, Present
<1>13. Runs'
  BY <1>2, <1>3, <1>8, <1>9, InHand, Kinds, Cells DEF BoardInv, Runs, Ended
<1>14. Standings'
  BY <1>2, <1>3, <1>8, <1>9, InHand, Kinds, Cells DEF BoardInv, Standings, Standing
<1>15. Answering'
  BY <1>2, <1>3, <1>8, <1>9, <1>7, InHand, Kinds, Cells DEF BoardInv, Answering, TickOn, Works,
    Moves
<1>16. HandingOut'
  BY <1>2, <1>3, <1>8, <1>9, InHand, Kinds, Cells DEF BoardInv, HandingOut, HandsOut, TickOn,
    Untouched, Present
<1>17. HandingIn'
  BY <1>2, <1>3, <1>8, <1>9, InHand, Kinds, Cells DEF BoardInv, HandingIn, HandsIn, Untouched,
    Present
<1>18. UnderReview'
  BY <1>2, <1>3, <1>8, <1>9, InHand, Kinds, Cells DEF BoardInv, UnderReview, Inserting, HandsIn,
    Untouched, Present, Parents
<1>19. Reviewing'
  BY <1>2, <1>3, <1>8, <1>9, InHand, Kinds, Cells DEF BoardInv, Reviewing, Review, Untouched,
    Present, Parents, TickOn
<1>20. Integrated'
  BY <1>2, <1>3, <1>8, <1>9, InHand, Kinds, Cells DEF BoardInv, Integrated, Reported, Still,
    Present, Parents
<1>21. Kept'
  BY <1>2, <1>3, <1>8, <1>9, <1>10, InHand, Kinds, Cells DEF BoardInv, Kept, Inserting, HandsIn
<1> QED
  BY <1>7, <1>11, <1>12, <1>13, <1>14, <1>15, <1>16, <1>17, <1>18, <1>19, <1>20, <1>21 DEF BoardInv

\* A request has its report and waits for the review.
LEMMA SubmitStep ==
  ASSUME BoardInv, NEW w \in Workers, Mark(w, "submit"), NEW i \in Requests, On(w) = i
  PROVE  BoardInv'
<1> USE DEF RowsKept, Others, Busy
<1>1. At(w, "submit") /\ Goes(w, Rest(at[w].todo)) /\ budget' = budget
  BY DEF Mark, Then, Rest
<1>2. Phase(w) = "report3" /\ NameOf(Rest(at[w].todo)) = "report4"
  BY <1>1, RequestPhases
<1>3. /\ Present(i) /\ i \in Comments /\ St(i) \in {"queued", "running"} /\ Run(i) = w
      /\ \A v \in Workers \ {w} : Busy(v) => On(v) # i
  BY <1>1, <1>2, AtWork, Alone, Kinds DEF BoardInv, Standings, Standing, Runs, Ended
<1>4. ~Terminal
  BY <1>3, NotDone
<1>5. StatusSet(i, "submitted")
  BY <1>3, Marking DEF Mark, StatusAfter, BoardInv, Tables, On
<1>6. card' = card /\ ~Terminal'
  BY <1>4 DEF Mark, Terminal
<1>7. /\ at' \in [Procs -> Proc] /\ Moves(w, NameOf(Rest(at[w].todo)))
      /\ NameOf(Rest(at[w].todo)) # "idle" => New(w)' = New(w)
      /\ WorkersAt' /\ OwnerAt' /\ TickAt'
  BY <1>1, <1>5, <1>6, AtWork, WorkerGoes DEF StatusSet
<1>8. /\ Others(w) /\ Phase(w)' = NameOf(Rest(at[w].todo))
      /\ Phase(w)' # "idle" => On(w)' = i /\ New(w)' = New(w)
  BY <1>7 DEF Moves
<1>9. /\ RowsKept({i}) /\ St(i)' = "submitted" /\ Of(i)' = Of(i) /\ Run(i)' = Run(i)
      /\ Up(i)' = Up(i) /\ Acc(i)' = Acc(i)
  BY <1>5 DEF StatusSet
<1>10. \A p \in Procs, c \in Requests : Keeps(p, c) /\ c # i => Keeps(p, c)'
  <2>1. \A c \in Requests : Keeps(w, c) => c = i
    BY <1>2, Kinds DEF Keeps, HandsOut
  <2> QED
    BY <2>1, <1>8, <1>5, KeepsOn, Kinds DEF StatusSet
<1>11. Tables' /\ OneAtWork' /\ DoneDelivered'
  BY <1>1, <1>2, <1>5, <1>6, <1>7, AtWork, InOrder DEF StatusSet, BoardInv, Tables, DoneDelivered
<1>12. Parents'
  BY <1>2, <1>3, <1>8, <1>9, InHand, Kinds, Cells DEF BoardInv, Parents, Present
<1>13. Runs'
  BY <1>2, <1>3, <1>8, <1>9, InHand, Kinds, Cells DEF BoardInv, Runs, Ended
<1>14. Standings'
  BY <1>2, <1>3, <1>8, <1>9, InHand, Kinds, Cells DEF BoardInv, Standings, Standing
<1>15. Answering'
  BY <1>2, <1>3, <1>8, <1>9, <1>7, InHand, Kinds, Cells DEF BoardInv, Answering, TickOn, Works,
    Moves
<1>16. HandingOut'
  BY <1>2, <1>3, <1>8, <1>9, InHand, Kinds, Cells DEF BoardInv, HandingOut, HandsOut, TickOn,
    Untouched, Present
<1>17. HandingIn'
  BY <1>2, <1>3, <1>8, <1>9, InHand, Kinds, Cells DEF BoardInv, HandingIn, HandsIn, Untouched,
    Present
<1>18. UnderReview'
  BY <1>2, <1>3, <1>8, <1>9, InHand, Kinds, Cells DEF BoardInv, UnderReview, Inserting, HandsIn,
    Untouched, Present, Parents
<1>19. Reviewing'
  BY <1>2, <1>3, <1>8, <1>9, InHand, Kinds, Cells DEF BoardInv, Reviewing, Review, Untouched,
    Present, Parents, TickOn
<1>20. Integrated'
  BY <1>2, <1>3, <1>8, <1>9, InHand, Kinds, Cells DEF BoardInv, Integrated, Reported, Still,
    Present, Parents
<1>21. Kept'
  BY <1>2, <1>3, <1>8, <1>9, <1>10, InHand, Kinds, Cells DEF BoardInv, Kept, Inserting, HandsIn
<1> QED
  BY <1>7, <1>11, <1>12, <1>13, <1>14, <1>15, <1>16, <1>17, <1>18, <1>19, <1>20, <1>21 DEF BoardInv

\* routeDelegatedQuestion: the request waits for the answer.
LEMMA AskStep ==
  ASSUME BoardInv, NEW w \in Workers, Ask(w), NEW i \in Requests, On(w) = i
  PROVE  BoardInv'
<1> USE DEF RowsKept, Others, Busy
<1>1. At(w, "ask") /\ Goes(w, Rest(at[w].todo)) /\ budget' = budget
  BY DEF Ask, Then, Rest
<1>2. Phase(w) = "question2" /\ NameOf(Rest(at[w].todo)) = "question3"
  BY <1>1, RequestPhases
<1>3. /\ Present(i) /\ i \in Comments /\ St(i) = "waiting" /\ Run(i) = w
      /\ \A v \in Workers \ {w} : Busy(v) => On(v) # i
  BY <1>1, <1>2, AtWork, Alone, Kinds DEF BoardInv, Standings, Standing, Runs, Ended
<1>4. ~Terminal
  BY <1>3, NotDone
<1>5. StatusSet(i, "waiting")
  BY <1>3, Asking DEF BoardInv, Tables
<1>6. card' = card /\ ~Terminal'
  BY <1>4 DEF Ask, Terminal
<1>7. /\ at' \in [Procs -> Proc] /\ Moves(w, NameOf(Rest(at[w].todo)))
      /\ NameOf(Rest(at[w].todo)) # "idle" => New(w)' = New(w)
      /\ WorkersAt' /\ OwnerAt' /\ TickAt'
  BY <1>1, <1>5, <1>6, AtWork, WorkerGoes DEF StatusSet
<1>8. /\ Others(w) /\ Phase(w)' = NameOf(Rest(at[w].todo))
      /\ Phase(w)' # "idle" => On(w)' = i /\ New(w)' = New(w)
  BY <1>7 DEF Moves
<1>9. /\ RowsKept({i}) /\ St(i)' = "waiting" /\ Of(i)' = Of(i) /\ Run(i)' = Run(i)
      /\ Up(i)' = Up(i) /\ Acc(i)' = Acc(i)
  BY <1>5 DEF StatusSet
<1>10. \A p \in Procs, c \in Requests : Keeps(p, c) /\ c # i => Keeps(p, c)'
  <2>1. \A c \in Requests : Keeps(w, c) => c = i
    BY <1>2, Kinds DEF Keeps, HandsOut
  <2> QED
    BY <2>1, <1>8, <1>5, KeepsOn, Kinds DEF StatusSet
<1>11. Tables' /\ OneAtWork' /\ DoneDelivered'
  BY <1>1, <1>2, <1>5, <1>6, <1>7, AtWork, InOrder DEF StatusSet, BoardInv, Tables, DoneDelivered
<1>12. Parents'
  BY <1>2, <1>3, <1>8, <1>9, InHand, Kinds, Cells DEF BoardInv, Parents, Present
<1>13. Runs'
  BY <1>2, <1>3, <1>8, <1>9, InHand, Kinds, Cells DEF BoardInv, Runs, Ended
<1>14. Standings'
  BY <1>2, <1>3, <1>8, <1>9, InHand, Kinds, Cells DEF BoardInv, Standings, Standing
<1>15. Answering'
  BY <1>2, <1>3, <1>8, <1>9, <1>7, InHand, Kinds, Cells DEF BoardInv, Answering, TickOn, Works,
    Moves
<1>16. HandingOut'
  BY <1>2, <1>3, <1>8, <1>9, InHand, Kinds, Cells DEF BoardInv, HandingOut, HandsOut, TickOn,
    Untouched, Present
<1>17. HandingIn'
  BY <1>2, <1>3, <1>8, <1>9, InHand, Kinds, Cells DEF BoardInv, HandingIn, HandsIn, Untouched,
    Present
<1>18. UnderReview'
  BY <1>2, <1>3, <1>8, <1>9, InHand, Kinds, Cells DEF BoardInv, UnderReview, Inserting, HandsIn,
    Untouched, Present, Parents
<1>19. Reviewing'
  BY <1>2, <1>3, <1>8, <1>9, InHand, Kinds, Cells DEF BoardInv, Reviewing, Review, Untouched,
    Present, Parents, TickOn
<1>20. Integrated'
  BY <1>2, <1>3, <1>8, <1>9, InHand, Kinds, Cells DEF BoardInv, Integrated, Reported, Still,
    Present, Parents
<1>21. Kept'
  BY <1>2, <1>3, <1>8, <1>9, <1>10, InHand, Kinds, Cells DEF BoardInv, Kept, Inserting, HandsIn
<1> QED
  BY <1>7, <1>11, <1>12, <1>13, <1>14, <1>15, <1>16, <1>17, <1>18, <1>19, <1>20, <1>21 DEF BoardInv

\* completeRetryableRun of a request: its run has ended well.
LEMMA SucceedStep ==
  ASSUME BoardInv, NEW w \in Workers, Succeed(w), NEW i \in Requests, On(w) = i
  PROVE  BoardInv'
<1> USE DEF RowsKept, Others, Busy
<1>1. At(w, "succeed") /\ Goes(w, Rest(at[w].todo)) /\ budget' = budget
  BY DEF Succeed, Then, Rest
<1>2. \/ Phase(w) = "report4" /\ NameOf(Rest(at[w].todo)) = "report5"
      \/ Phase(w) = "end" /\ NameOf(Rest(at[w].todo)) = "idle"
  BY <1>1, RequestPhases
<1>3. /\ Present(i) /\ i \in Comments /\ St(i) \in {"submitted", "waiting"} /\ Run(i) = w
      /\ \A v \in Workers \ {w} : Busy(v) => On(v) # i
  BY <1>1, <1>2, AtWork, Alone, Kinds DEF BoardInv, Standings, Standing, Runs, Ended
<1>4. ~Terminal
  BY <1>3, NotDone
<1>5. RunSet(i, "none")
  BY <1>3, Completing DEF Succeed, BoardInv, Tables
<1>6. card' \in CardRow /\ ~Terminal'
  BY <1>4 DEF Succeed, Succeeded, Streak, Terminal, CardRow, BoardInv, Tables
<1>7. /\ at' \in [Procs -> Proc] /\ Moves(w, NameOf(Rest(at[w].todo)))
      /\ NameOf(Rest(at[w].todo)) # "idle" => New(w)' = New(w)
      /\ WorkersAt' /\ OwnerAt' /\ TickAt'
  BY <1>1, <1>5, <1>6, AtWork, WorkerGoes DEF RunSet
<1>8. /\ Others(w) /\ Phase(w)' = NameOf(Rest(at[w].todo))
      /\ Phase(w)' # "idle" => On(w)' = i /\ New(w)' = New(w)
  BY <1>7 DEF Moves
<1>9. /\ RowsKept({i}) /\ St(i)' = St(i) /\ Of(i)' = Of(i) /\ Run(i)' = "none"
      /\ Up(i)' = Up(i) /\ Acc(i)' = Acc(i)
  BY <1>5 DEF RunSet
<1>10. \A p \in Procs, c \in Requests : Keeps(p, c) /\ c # i => Keeps(p, c)'
  <2>1. \A c \in Requests : Keeps(w, c) => c = i
    BY <1>2, Kinds DEF Keeps, HandsOut
  <2> QED
    BY <2>1, <1>8, <1>5, KeepsOn, Kinds DEF RunSet
<1>11. Tables' /\ OneAtWork' /\ DoneDelivered'
  BY <1>1, <1>2, <1>5, <1>6, <1>7, AtWork, InOrder DEF RunSet, BoardInv, Tables, DoneDelivered
<1>12. Parents'
  BY <1>2, <1>3, <1>8, <1>9, InHand, Kinds, Cells DEF BoardInv, Parents, Present
<1>13. Runs'
  BY <1>2, <1>3, <1>8, <1>9, InHand, Kinds, Cells DEF BoardInv, Runs, Ended
<1>14. Standings'
  BY <1>2, <1>3, <1>8, <1>9, InHand, Kinds, Cells DEF BoardInv, Standings, Standing
<1>15. Answering'
  BY <1>2, <1>3, <1>8, <1>9, <1>7, InHand, Kinds, Cells DEF BoardInv, Answering, TickOn, Works,
    Moves
<1>16. HandingOut'
  BY <1>2, <1>3, <1>8, <1>9, InHand, Kinds, Cells DEF BoardInv, HandingOut, HandsOut, TickOn,
    Untouched, Present
<1>17. HandingIn'
  BY <1>2, <1>3, <1>8, <1>9, InHand, Kinds, Cells DEF BoardInv, HandingIn, HandsIn, Untouched,
    Present
<1>18. UnderReview'
  BY <1>2, <1>3, <1>8, <1>9, InHand, Kinds, Cells DEF BoardInv, UnderReview, Inserting, HandsIn,
    Untouched, Present, Parents
<1>19. Reviewing'
  BY <1>2, <1>3, <1>8, <1>9, InHand, Kinds, Cells DEF BoardInv, Reviewing, Review, Untouched,
    Present, Parents, TickOn
<1>20. Integrated'
  BY <1>2, <1>3, <1>8, <1>9, InHand, Kinds, Cells DEF BoardInv, Integrated, Reported, Still,
    Present, Parents
<1>21. Kept'
  BY <1>2, <1>3, <1>8, <1>9, <1>10, InHand, Kinds, Cells DEF BoardInv, Kept, Inserting, HandsIn
<1> QED
  BY <1>7, <1>11, <1>12, <1>13, <1>14, <1>15, <1>16, <1>17, <1>18, <1>19, <1>20, <1>21 DEF BoardInv

\* completeTaskRun of a request that goes on later.
LEMMA SettleStep ==
  ASSUME BoardInv, NEW w \in Workers, Settle(w), NEW i \in Requests, On(w) = i
  PROVE  BoardInv'
<1> USE DEF RowsKept, Others, Busy
<1>1. At(w, "settle") /\ Goes(w, Rest(at[w].todo)) /\ budget' = budget
  BY DEF Settle, Then, Rest
<1>2. \/ Phase(w) = "progress2" /\ NameOf(Rest(at[w].todo)) = "queue"
      \/ Phase(w) = "question3" /\ NameOf(Rest(at[w].todo)) = "idle"
  BY <1>1, RequestPhases
<1>3. /\ Present(i) /\ i \in Comments /\ St(i) = "waiting" /\ Run(i) = w
      /\ \A v \in Workers \ {w} : Busy(v) => On(v) # i
  BY <1>1, <1>2, AtWork, Alone, Kinds DEF BoardInv, Standings, Standing, Runs, Ended
<1>4. ~Terminal
  BY <1>3, NotDone
<1>5. RunSet(i, "none")
  BY <1>3, Completing DEF Settle, BoardInv, Tables
<1>6. card' = card /\ ~Terminal'
  BY <1>4 DEF Settle, Terminal
<1>7. /\ at' \in [Procs -> Proc] /\ Moves(w, NameOf(Rest(at[w].todo)))
      /\ NameOf(Rest(at[w].todo)) # "idle" => New(w)' = New(w)
      /\ WorkersAt' /\ OwnerAt' /\ TickAt'
  BY <1>1, <1>5, <1>6, AtWork, WorkerGoes DEF RunSet
<1>8. /\ Others(w) /\ Phase(w)' = NameOf(Rest(at[w].todo))
      /\ Phase(w)' # "idle" => On(w)' = i /\ New(w)' = New(w)
  BY <1>7 DEF Moves
<1>9. /\ RowsKept({i}) /\ St(i)' = St(i) /\ Of(i)' = Of(i) /\ Run(i)' = "none"
      /\ Up(i)' = Up(i) /\ Acc(i)' = Acc(i)
  BY <1>5 DEF RunSet
<1>10. \A p \in Procs, c \in Requests : Keeps(p, c) /\ c # i => Keeps(p, c)'
  <2>1. \A c \in Requests : Keeps(w, c) => c = i
    BY <1>2, Kinds DEF Keeps, HandsOut
  <2> QED
    BY <2>1, <1>8, <1>5, KeepsOn, Kinds DEF RunSet
<1>11. Tables' /\ OneAtWork' /\ DoneDelivered'
  BY <1>1, <1>2, <1>5, <1>6, <1>7, AtWork, InOrder DEF RunSet, BoardInv, Tables, DoneDelivered
<1>12. Parents'
  BY <1>2, <1>3, <1>8, <1>9, InHand, Kinds, Cells DEF BoardInv, Parents, Present
<1>13. Runs'
  BY <1>2, <1>3, <1>8, <1>9, InHand, Kinds, Cells DEF BoardInv, Runs, Ended
<1>14. Standings'
  BY <1>2, <1>3, <1>8, <1>9, InHand, Kinds, Cells DEF BoardInv, Standings, Standing
<1>15. Answering'
  BY <1>2, <1>3, <1>8, <1>9, <1>7, InHand, Kinds, Cells DEF BoardInv, Answering, TickOn, Works,
    Moves
<1>16. HandingOut'
  BY <1>2, <1>3, <1>8, <1>9, InHand, Kinds, Cells DEF BoardInv, HandingOut, HandsOut, TickOn,
    Untouched, Present
<1>17. HandingIn'
  BY <1>2, <1>3, <1>8, <1>9, InHand, Kinds, Cells DEF BoardInv, HandingIn, HandsIn, Untouched,
    Present
<1>18. UnderReview'
  BY <1>2, <1>3, <1>8, <1>9, InHand, Kinds, Cells DEF BoardInv, UnderReview, Inserting, HandsIn,
    Untouched, Present, Parents
<1>19. Reviewing'
  BY <1>2, <1>3, <1>8, <1>9, InHand, Kinds, Cells DEF BoardInv, Reviewing, Review, Untouched,
    Present, Parents, TickOn
<1>20. Integrated'
  BY <1>2, <1>3, <1>8, <1>9, InHand, Kinds, Cells DEF BoardInv, Integrated, Reported, Still,
    Present, Parents
<1>21. Kept'
  BY <1>2, <1>3, <1>8, <1>9, <1>10, InHand, Kinds, Cells DEF BoardInv, Kept, Inserting, HandsIn
<1> QED
  BY <1>7, <1>11, <1>12, <1>13, <1>14, <1>15, <1>16, <1>17, <1>18, <1>19, <1>20, <1>21 DEF BoardInv

\* completeRetryableRun of a request: its run has failed.
LEMMA FailStep ==
  ASSUME BoardInv, NEW w \in Workers, Fail(w), NEW i \in Requests, On(w) = i
  PROVE  BoardInv'
<1> USE DEF RowsKept, Others, Busy
<1>1. At(w, "fail") /\ Goes(w, Rest(at[w].todo)) /\ budget' = budget
  BY DEF Fail, Then, Rest
<1>2. Phase(w) = "retry1" /\ NameOf(Rest(at[w].todo)) = "retry2"
  BY <1>1, RequestPhases
<1>3. /\ Present(i) /\ i \in Comments /\ St(i) \in {"queued", "running"} /\ Run(i) = w
      /\ \A v \in Workers \ {w} : Busy(v) => On(v) # i
  BY <1>1, <1>2, AtWork, Alone, Kinds DEF BoardInv, Standings, Standing, Runs, Ended
<1>4. ~Terminal
  BY <1>3, NotDone
<1>5. RunSet(i, "none")
  BY <1>3, Completing DEF Fail, BoardInv, Tables
<1>6. card' \in CardRow /\ ~Terminal'
  BY <1>4, Failing DEF Fail, Terminal, BoardInv, Tables
<1>7. /\ at' \in [Procs -> Proc] /\ Moves(w, NameOf(Rest(at[w].todo)))
      /\ NameOf(Rest(at[w].todo)) # "idle" => New(w)' = New(w)
      /\ WorkersAt' /\ OwnerAt' /\ TickAt'
  BY <1>1, <1>5, <1>6, AtWork, WorkerGoes DEF RunSet
<1>8. /\ Others(w) /\ Phase(w)' = NameOf(Rest(at[w].todo))
      /\ Phase(w)' # "idle" => On(w)' = i /\ New(w)' = New(w)
  BY <1>7 DEF Moves
<1>9. /\ RowsKept({i}) /\ St(i)' = St(i) /\ Of(i)' = Of(i) /\ Run(i)' = "none"
      /\ Up(i)' = Up(i) /\ Acc(i)' = Acc(i)
  BY <1>5 DEF RunSet
<1>10. \A p \in Procs, c \in Requests : Keeps(p, c) /\ c # i => Keeps(p, c)'
  <2>1. \A c \in Requests : Keeps(w, c) => c = i
    BY <1>2, Kinds DEF Keeps, HandsOut
  <2> QED
    BY <2>1, <1>8, <1>5, KeepsOn, Kinds DEF RunSet
<1>11. Keeps(w, i)'
  BY <1>2, <1>8 DEF Keeps
<1>12. Tables' /\ OneAtWork' /\ DoneDelivered'
  BY <1>1, <1>2, <1>5, <1>6, <1>7, AtWork, InOrder DEF RunSet, BoardInv, Tables, DoneDelivered
<1>13. Parents'
  BY <1>2, <1>3, <1>8, <1>9, InHand, Kinds, Cells DEF BoardInv, Parents, Present
<1>14. Runs'
  BY <1>2, <1>3, <1>8, <1>9, InHand, Kinds, Cells DEF BoardInv, Runs, Ended
<1>15. Standings'
  BY <1>2, <1>3, <1>8, <1>9, InHand, Kinds, Cells DEF BoardInv, Standings, Standing
<1>16. Answering'
  BY <1>2, <1>3, <1>8, <1>9, <1>7, InHand, Kinds, Cells DEF BoardInv, Answering, TickOn, Works,
    Moves
<1>17. HandingOut'
  BY <1>2, <1>3, <1>8, <1>9, InHand, Kinds, Cells DEF BoardInv, HandingOut, HandsOut, TickOn,
    Untouched, Present
<1>18. HandingIn'
  BY <1>2, <1>3, <1>8, <1>9, InHand, Kinds, Cells DEF BoardInv, HandingIn, HandsIn, Untouched,
    Present
<1>19. UnderReview'
  BY <1>2, <1>3, <1>8, <1>9, InHand, Kinds, Cells DEF BoardInv, UnderReview, Inserting, HandsIn,
    Untouched, Present, Parents
<1>20. Reviewing'
  BY <1>2, <1>3, <1>8, <1>9, InHand, Kinds, Cells DEF BoardInv, Reviewing, Review, Untouched,
    Present, Parents, TickOn
<1>21. Integrated'
  BY <1>2, <1>3, <1>8, <1>9, InHand, Kinds, Cells DEF BoardInv, Integrated, Reported, Still,
    Present, Parents
<1>22. Kept'
  BY <1>2, <1>3, <1>8, <1>9, <1>10, <1>11, InHand, Kinds, Cells DEF BoardInv, Kept, Inserting,
    HandsIn
<1> QED
  BY <1>7, <1>12, <1>13, <1>14, <1>15, <1>16, <1>17, <1>18, <1>19, <1>20, <1>21, <1>22 DEF BoardInv

\* requeueMessageTaskAfterFailure: the request is queued again.
LEMMA AgainStep ==
  ASSUME BoardInv, NEW w \in Workers, Again(w), NEW i \in Requests, On(w) = i
  PROVE  BoardInv'
<1> USE DEF RowsKept, Others, Busy
<1>1. At(w, "again") /\ Goes(w, Rest(at[w].todo)) /\ budget' = budget
  BY DEF Again, Then, Rest
<1>2. Phase(w) = "retry2" /\ NameOf(Rest(at[w].todo)) = "queue"
  BY <1>1, RequestPhases
<1>3. /\ Present(i) /\ i \in Comments /\ St(i) \in {"queued", "running"} /\ Run(i) = "none"
      /\ \A v \in Workers \ {w} : Busy(v) => On(v) # i
  BY <1>1, <1>2, AtWork, Alone, Kinds DEF BoardInv, Standings, Standing, Runs, Ended
<1>4. ~Terminal
  BY <1>3, NotDone
<1>5. StatusSet(i, "queued")
  BY <1>3, Kinds, Marking DEF Again, BoardInv, Tables, On
<1>6. card' = card /\ ~Terminal'
  BY <1>4 DEF Again, Terminal
<1>7. /\ at' \in [Procs -> Proc] /\ Moves(w, NameOf(Rest(at[w].todo)))
      /\ NameOf(Rest(at[w].todo)) # "idle" => New(w)' = New(w)
      /\ WorkersAt' /\ OwnerAt' /\ TickAt'
  BY <1>1, <1>5, <1>6, AtWork, WorkerGoes DEF StatusSet
<1>8. /\ Others(w) /\ Phase(w)' = NameOf(Rest(at[w].todo))
      /\ Phase(w)' # "idle" => On(w)' = i /\ New(w)' = New(w)
  BY <1>7 DEF Moves
<1>9. /\ RowsKept({i}) /\ St(i)' = "queued" /\ Of(i)' = Of(i) /\ Run(i)' = Run(i)
      /\ Up(i)' = Up(i) /\ Acc(i)' = Acc(i)
  BY <1>5 DEF StatusSet
<1>10. \A p \in Procs, c \in Requests : Keeps(p, c) /\ c # i => Keeps(p, c)'
  <2>1. \A c \in Requests : Keeps(w, c) => c = i
    BY <1>2, Kinds DEF Keeps, HandsOut
  <2> QED
    BY <2>1, <1>8, <1>5, KeepsOn, Kinds DEF StatusSet
<1>11. Keeps(w, i)'
  BY <1>2, <1>8 DEF Keeps
<1>12. Tables' /\ OneAtWork' /\ DoneDelivered'
  BY <1>1, <1>2, <1>5, <1>6, <1>7, AtWork, InOrder DEF StatusSet, BoardInv, Tables, DoneDelivered
<1>13. Parents'
  BY <1>2, <1>3, <1>8, <1>9, InHand, Kinds, Cells DEF BoardInv, Parents, Present
<1>14. Runs'
  BY <1>2, <1>3, <1>8, <1>9, InHand, Kinds, Cells DEF BoardInv, Runs, Ended
<1>15. Standings'
  BY <1>2, <1>3, <1>8, <1>9, InHand, Kinds, Cells DEF BoardInv, Standings, Standing
<1>16. Answering'
  BY <1>2, <1>3, <1>8, <1>9, <1>7, InHand, Kinds, Cells DEF BoardInv, Answering, TickOn, Works,
    Moves
<1>17. HandingOut'
  BY <1>2, <1>3, <1>8, <1>9, InHand, Kinds, Cells DEF BoardInv, HandingOut, HandsOut, TickOn,
    Untouched, Present
<1>18. HandingIn'
  BY <1>2, <1>3, <1>8, <1>9, InHand, Kinds, Cells DEF BoardInv, HandingIn, HandsIn, Untouched,
    Present
<1>19. UnderReview'
  BY <1>2, <1>3, <1>8, <1>9, InHand, Kinds, Cells DEF BoardInv, UnderReview, Inserting, HandsIn,
    Untouched, Present, Parents
<1>20. Reviewing'
  BY <1>2, <1>3, <1>8, <1>9, InHand, Kinds, Cells DEF BoardInv, Reviewing, Review, Untouched,
    Present, Parents, TickOn
<1>21. Integrated'
  BY <1>2, <1>3, <1>8, <1>9, InHand, Kinds, Cells DEF BoardInv, Integrated, Reported, Still,
    Present, Parents
<1>22. Kept'
  BY <1>2, <1>3, <1>8, <1>9, <1>10, <1>11, InHand, Kinds, Cells DEF BoardInv, Kept, Inserting,
    HandsIn
<1> QED
  BY <1>7, <1>12, <1>13, <1>14, <1>15, <1>16, <1>17, <1>18, <1>19, <1>20, <1>21, <1>22 DEF BoardInv

\* The request gets its next run.
LEMMA QueueStep ==
  ASSUME BoardInv, NEW w \in Workers, QueueSame(w), NEW i \in Requests, On(w) = i
  PROVE  BoardInv'
<1> USE DEF RowsKept, Others, Busy
<1>1. At(w, "queue") /\ Goes(w, Rest(at[w].todo)) /\ budget' = budget
  BY DEF QueueSame, Then, Rest
<1>2. Phase(w) = "queue" /\ NameOf(Rest(at[w].todo)) = "idle"
  BY <1>1, RequestPhases
<1>3. /\ Present(i) /\ i \in Comments /\ St(i) \in {"queued", "waiting"} /\ Run(i) = "none"
      /\ \A v \in Workers \ {w} : Busy(v) => On(v) # i
  BY <1>1, <1>2, AtWork, Alone, Kinds DEF BoardInv, Standings, Standing, Runs, Ended
<1>4. ~Terminal
  BY <1>3, NotDone
<1>5. RunSet(i, "queued")
  BY <1>3, <1>4, Queueing DEF QueueSame, BoardInv, Tables, On
<1>6. card' = card /\ ~Terminal'
  BY <1>4 DEF QueueSame, Terminal
<1>7. /\ at' \in [Procs -> Proc] /\ Moves(w, NameOf(Rest(at[w].todo)))
      /\ NameOf(Rest(at[w].todo)) # "idle" => New(w)' = New(w)
      /\ WorkersAt' /\ OwnerAt' /\ TickAt'
  BY <1>1, <1>5, <1>6, AtWork, WorkerGoes DEF RunSet
<1>8. /\ Others(w) /\ Phase(w)' = NameOf(Rest(at[w].todo))
      /\ Phase(w)' # "idle" => On(w)' = i /\ New(w)' = New(w)
  BY <1>7 DEF Moves
<1>9. /\ RowsKept({i}) /\ St(i)' = St(i) /\ Of(i)' = Of(i) /\ Run(i)' = "queued"
      /\ Up(i)' = Up(i) /\ Acc(i)' = Acc(i)
  BY <1>5 DEF RunSet
<1>10. \A p \in Procs, c \in Requests : Keeps(p, c) /\ c # i => Keeps(p, c)'
  <2>1. \A c \in Requests : Keeps(w, c) => c = i
    BY <1>2, Kinds DEF Keeps, HandsOut
  <2> QED
    BY <2>1, <1>8, <1>5, KeepsOn, Kinds DEF RunSet
<1>11. Tables' /\ OneAtWork' /\ DoneDelivered'
  BY <1>1, <1>2, <1>5, <1>6, <1>7, AtWork, InOrder DEF RunSet, BoardInv, Tables, DoneDelivered
<1>12. Parents'
  BY <1>2, <1>3, <1>8, <1>9, InHand, Kinds, Cells DEF BoardInv, Parents, Present
<1>13. Runs'
  BY <1>2, <1>3, <1>8, <1>9, InHand, Kinds, Cells DEF BoardInv, Runs, Ended
<1>14. Standings'
  BY <1>2, <1>3, <1>8, <1>9, InHand, Kinds, Cells DEF BoardInv, Standings, Standing
<1>15. Answering'
  BY <1>2, <1>3, <1>8, <1>9, <1>7, InHand, Kinds, Cells DEF BoardInv, Answering, TickOn, Works,
    Moves
<1>16. HandingOut'
  BY <1>2, <1>3, <1>8, <1>9, InHand, Kinds, Cells DEF BoardInv, HandingOut, HandsOut, TickOn,
    Untouched, Present
<1>17. HandingIn'
  BY <1>2, <1>3, <1>8, <1>9, InHand, Kinds, Cells DEF BoardInv, HandingIn, HandsIn, Untouched,
    Present
<1>18. UnderReview'
  BY <1>2, <1>3, <1>8, <1>9, InHand, Kinds, Cells DEF BoardInv, UnderReview, Inserting, HandsIn,
    Untouched, Present, Parents
<1>19. Reviewing'
  BY <1>2, <1>3, <1>8, <1>9, InHand, Kinds, Cells DEF BoardInv, Reviewing, Review, Untouched,
    Present, Parents, TickOn
<1>20. Integrated'
  BY <1>2, <1>3, <1>8, <1>9, InHand, Kinds, Cells DEF BoardInv, Integrated, Reported, Still,
    Present, Parents
<1>21. Kept'
  BY <1>2, <1>3, <1>8, <1>9, <1>10, InHand, Kinds, Cells DEF BoardInv, Kept, Inserting, HandsIn
<1> QED
  BY <1>7, <1>11, <1>12, <1>13, <1>14, <1>15, <1>16, <1>17, <1>18, <1>19, <1>20, <1>21 DEF BoardInv

\* A report is no report while parts of the request are pending (dispatch.ts:2823).
LEMMA ReportStep ==
  ASSUME BoardInv, NEW w \in Workers, Report(w), NEW i \in Requests, On(w) = i
  PROVE  BoardInv'
<1> USE DEF RowsKept, Others, Busy
<1>1. At(w, "report") /\ msg' = msg /\ card' = card /\ budget' = budget
  BY DEF Report
<1>2. Phase(w) = "report1" /\ NameOf(Rest(at[w].todo)) = "report2"
  BY <1>1, RequestPhases
<1>3. /\ Present(i) /\ i \in Comments /\ St(i) \in {"queued", "running"} /\ Run(i) = w
      /\ \A v \in Workers \ {w} : Busy(v) => On(v) # i
  BY <1>1, <1>2, AtWork, Alone, Kinds DEF BoardInv, Standings, Standing, Runs, Ended
<1>4. ~Terminal /\ ~Terminal'
  BY <1>1, <1>3, NotDone DEF Terminal
<1>5. RowsKept({}) /\ Lasting
  BY <1>1 DEF St, Of, Run, Up, Acc, Lasting, Present
<1>6. PICK t \in Lists :
        /\ Goes(w, t) /\ t \in RequestWork /\ NameOf(t) \in {"report2", "split3"}
        /\ NameOf(t) = "report2" => ~ChildrenPending(i)
  <2>1. CASE ChildrenPending(i)
    <3>1. Goes(w, Split3) /\ Split3 \in RequestWork /\ Split3 \in Lists /\ NameOf(Split3) = "split3"
      BY <2>1, Names DEF Report, Split3, RequestWork, Lists, On
    <3> QED
      BY <3>1
  <2>2. CASE ~ChildrenPending(i)
    <3>1. Goes(w, Rest(at[w].todo))
      BY <2>2 DEF Report, Then, Rest, On
    <3>2. Rest(at[w].todo) \in RequestWork /\ Rest(at[w].todo) \in Lists
      BY <1>1, <1>2, AtWork, Names DEF Lists
    <3> QED
      BY <3>1, <3>2, <2>2, <1>2
  <2> QED
    BY <2>1, <2>2
<1>7. /\ at' \in [Procs -> Proc] /\ Moves(w, NameOf(t)) /\ New(w)' = New(w)
      /\ WorkersAt' /\ OwnerAt' /\ TickAt'
  BY <1>1, <1>4, <1>5, <1>6, AtWork, WorkerGoes
<1>8. Others(w) /\ Phase(w)' \in {"report2", "split3"} /\ On(w)' = i /\ New(w)' = New(w)
  BY <1>6, <1>7 DEF Moves
<1>9. \A p \in Procs, c \in Requests : Keeps(p, c) => Keeps(p, c)'
  <2>1. \A c \in Requests : ~Keeps(w, c)
    BY <1>2, <1>3, Kinds DEF Keeps, HandsOut
  <2> QED
    BY <2>1, <1>8, <1>5, KeepsOn, Kinds
<1>10. Phase(w)' = "report2" => Still(i)
  <2>1. SUFFICES ASSUME Phase(w)' = "report2", NEW k \in Requests, Present(k), Of(k) = i
                 PROVE  /\ St(k) = "approved"
                        /\ \A v \in Workers : Busy(v) /\ On(v) \in Reports => Of(On(v)) # k
    BY DEF Still
  <2>2. St(k) = "approved"
    <3>1. ~ChildrenPending(i) /\ k \in Children(i)
      BY <2>1, <1>6, <1>7 DEF Moves, Children, Present, St, Of
    <3>2. msg[k].status \in {"approved", "cancelled"}
      BY <3>1 DEF ChildrenPending
    <3>3. msg[k] \in Row
      BY Kinds DEF BoardInv, Tables
    <3> QED
      BY <3>2, <3>3 DEF St, Row
  <2>3. ASSUME NEW v \in Workers, Busy(v), On(v) \in Reports, Of(On(v)) = k PROVE FALSE
    <3>1. Role(v) = i /\ Role(w) = i /\ v # w
      BY <2>1, <2>3, Kinds DEF Role
    <3>2. ~Works(v)
      BY <1>2, <3>1, <2>3 DEF BoardInv, OneAtWork, Works
    <3>3. St(On(v)) = "submitted"
      BY <3>2, <2>3 DEF BoardInv, Reviewing, Review, Works
    <3>4. PICK u \in Workers : Phase(u) \in HandsIn /\ New(u) = On(v)
      BY <3>3, <2>2, <2>3 DEF BoardInv, UnderReview, Inserting
    <3>5. On(u) = k
      BY <3>4, <2>3 DEF BoardInv, HandingIn
    <3> QED
      BY <3>4, <3>5, <2>2 DEF BoardInv, Standings, Standing, HandsIn
  <2> QED
    BY <2>2, <2>3
<1>11. Tables' /\ OneAtWork' /\ DoneDelivered'
  BY <1>1, <1>2, <1>4, <1>5, <1>7, <1>8, AtWork, InOrder DEF BoardInv, Tables, DoneDelivered, Moves
<1>12. Parents'
  BY <1>2, <1>3, <1>8, <1>5, InHand, Kinds, Cells DEF BoardInv, Parents, Present
<1>13. Runs'
  BY <1>2, <1>3, <1>8, <1>5, InHand, Kinds, Cells DEF BoardInv, Runs, Ended
<1>14. Standings'
  BY <1>2, <1>3, <1>8, <1>5, InHand, Kinds, Cells DEF BoardInv, Standings, Standing
<1>15. Answering'
  BY <1>2, <1>3, <1>8, <1>5, <1>7, InHand, Kinds, Cells DEF BoardInv, Answering, TickOn, Works,
    Moves
<1>16. HandingOut'
  BY <1>2, <1>3, <1>8, <1>5, InHand, Kinds, Cells DEF BoardInv, HandingOut, HandsOut, TickOn,
    Untouched, Present
<1>17. HandingIn'
  BY <1>2, <1>3, <1>8, <1>5, InHand, Kinds, Cells DEF BoardInv, HandingIn, HandsIn, Untouched,
    Present
<1>18. UnderReview'
  BY <1>2, <1>3, <1>8, <1>5, InHand, Kinds, Cells DEF BoardInv, UnderReview, Inserting, HandsIn,
    Untouched, Present, Parents
<1>19. Reviewing'
  BY <1>2, <1>3, <1>8, <1>5, InHand, Kinds, Cells DEF BoardInv, Reviewing, Review, Untouched,
    Present, Parents, TickOn
<1>20. Integrated'
  BY <1>2, <1>3, <1>8, <1>5, <1>10, InHand, Kinds, Cells DEF BoardInv, Integrated, Reported,
    Still, Present, Parents
<1>21. Kept'
  BY <1>2, <1>3, <1>8, <1>5, <1>9, InHand, Kinds, Cells DEF BoardInv, Kept, Inserting, HandsIn
<1> QED
  BY <1>7, <1>11, <1>12, <1>13, <1>14, <1>15, <1>16, <1>17, <1>18, <1>19, <1>20, <1>21 DEF BoardInv

\* A report is inserted, submitted, and not yet queued for its reviewer.
LEMMA InsertReportStep ==
  ASSUME BoardInv, NEW w \in Workers, InsertReport(w), NEW i \in Requests, On(w) = i
  PROVE  BoardInv'
<1> USE DEF RowsKept, Others, Busy
<1>1. At(w, "insertReport") /\ card' = card /\ budget' = budget
  BY DEF InsertReport
<1>2. Phase(w) = "report2" /\ NameOf(Rest(at[w].todo)) = "report3"
  BY <1>1, RequestPhases
<1>3. /\ Present(i) /\ i \in Comments /\ St(i) \in {"queued", "running"} /\ Run(i) = w
      /\ \A v \in Workers \ {w} : Busy(v) => On(v) # i
  BY <1>1, <1>2, AtWork, Alone, Kinds DEF BoardInv, Standings, Standing, Runs, Ended
<1>4. ~Terminal /\ ~Terminal'
  BY <1>1, <1>3, NotDone DEF Terminal
<1>5. PICK j \in Reports : j = Least(Free(Reports)) /\ NewRow(j, "submitted", i)
  <2>1. Free(Reports) \in SUBSET Nat /\ Free(Reports) # {}
    BY BoardAssumption DEF InsertReport, Free, Reports
  <2>2. Least(Free(Reports)) \in Reports /\ msg[Least(Free(Reports))].status = "absent"
    <3>1. Least(Free(Reports)) \in Free(Reports)
      BY <2>1, LeastIsMember
    <3> QED
      BY <3>1 DEF Free
  <2>3. PICK c \in Reports : c = Least(Free(Reports)) /\ msg[c].status = "absent"
    BY <2>2
  <2>4. msg' = [msg EXCEPT ![c].status = "submitted", ![c].of = i]
    BY <2>3 DEF InsertReport, On
  <2>5. c \in Comments /\ msg \in [Comments -> Row]
    BY Kinds DEF BoardInv, Tables
  <2>6. NewRow(c, "submitted", i)
    BY <2>3, <2>4, <2>5, InsertingRow
  <2> QED
    BY <2>3, <2>6
<1>6. /\ RowsKept({j}) /\ Lasting /\ St(j)' = "submitted" /\ Of(j)' = i /\ Run(j)' = "none"
      /\ Up(j)' = FALSE /\ Acc(j)' = FALSE /\ ~Present(j) /\ j \in Comments /\ j # i
      /\ Untouched(j) /\ ~TickOn(j) /\ \A d \in Comments : Present(d) => Of(d) # j
  BY <1>3, <1>5, Absent, Cells, Kinds DEF NewRow
<1>7. /\ at' \in [Procs -> Proc] /\ Moves(w, "report3") /\ On(w)' = i /\ New(w)' = j
      /\ WorkersAt' /\ OwnerAt' /\ TickAt'
  <2>1. GoesWith(w, j)
    BY <1>5 DEF InsertReport, GoesWith
  <2>2. PICK t : t = Rest(at[w].todo)
    OBVIOUS
  <2>3. t # <<>> /\ NameOf(t) = "report3"
    BY <2>2, <1>2, Names
  <2>4. /\ at' \in [Procs -> Proc] /\ Moves(w, NameOf(t)) /\ On(w)' = On(w) /\ New(w)' = j
        /\ WorkersAt' /\ OwnerAt' /\ TickAt'
    BY <2>1, <2>2, <2>3, <1>1, <1>4, <1>6, WorkerInserts
  <2> QED
    BY <2>3, <2>4
<1>8. Others(w) /\ Phase(w)' = "report3" /\ On(w)' = i /\ New(w)' = j
  BY <1>7 DEF Moves
<1>9. \A r \in Reports : St(r) = "submitted" => Of(r) # i
  <2>1. SUFFICES ASSUME NEW r \in Reports, St(r) = "submitted", Of(r) = i PROVE FALSE
    OBVIOUS
  <2>2. PICK u \in Workers : Phase(u) \in HandsIn /\ New(u) = r
    BY <2>1, <1>3 DEF BoardInv, UnderReview, Inserting
  <2>3. On(u) = i /\ u # w
    BY <2>1, <2>2, <1>2 DEF BoardInv, HandingIn, HandsIn
  <2> QED
    BY <2>2, <2>3, <1>3 DEF HandsIn
<1>10. \A p \in Procs, d \in Requests : Keeps(p, d) => Keeps(p, d)'
  <2>1. \A d \in Requests : ~Keeps(w, d)
    BY <1>2, <1>3, Kinds DEF Keeps, HandsOut
  <2> QED
    BY <2>1, <1>8, <1>6, KeepsOn, Kinds
<1>11. Tables' /\ OneAtWork' /\ DoneDelivered'
  BY <1>1, <1>2, <1>4, <1>5, <1>6, <1>7, <1>8, AtWork, InOrder DEF NewRow, BoardInv, Tables,
    DoneDelivered, Moves
<1>12. Parents'
  BY <1>2, <1>3, <1>8, <1>6, InHand, Kinds, Cells DEF BoardInv, Parents, Present
<1>13. Runs'
  BY <1>2, <1>3, <1>8, <1>6, InHand, Kinds, Cells DEF BoardInv, Runs, Ended
<1>14. Standings'
  BY <1>2, <1>3, <1>8, <1>6, InHand, Kinds, Cells DEF BoardInv, Standings, Standing
<1>15. Answering'
  BY <1>2, <1>3, <1>8, <1>6, <1>7, InHand, Kinds, Cells DEF BoardInv, Answering, TickOn, Works,
    Moves
<1>16. HandingOut'
  BY <1>2, <1>3, <1>8, <1>6, InHand, Kinds, Cells DEF BoardInv, HandingOut, HandsOut, TickOn,
    Untouched, Present
<1>17. HandingIn'
  BY <1>2, <1>3, <1>8, <1>6, InHand, Kinds, Cells DEF BoardInv, HandingIn, HandsIn, Untouched,
    Present
<1>18. UnderReview'
  BY <1>2, <1>3, <1>8, <1>6, <1>9, InHand, Kinds, Cells DEF BoardInv, UnderReview, Inserting,
    HandsIn, Untouched, Present, Parents
<1>19. Reviewing'
  BY <1>2, <1>3, <1>8, <1>6, InHand, Kinds, Cells DEF BoardInv, Reviewing, Review, Untouched,
    Present, Parents, TickOn
<1>20. Integrated'
  BY <1>2, <1>3, <1>8, <1>6, InHand, Kinds, Cells DEF BoardInv, Integrated, Reported, Still,
    Present, Parents
<1>21. Kept'
  BY <1>2, <1>3, <1>8, <1>6, <1>10, InHand, Kinds, Cells DEF BoardInv, Kept, Inserting, HandsIn
<1> QED
  BY <1>7, <1>11, <1>12, <1>13, <1>14, <1>15, <1>16, <1>17, <1>18, <1>19, <1>20, <1>21 DEF BoardInv

\* createMessageDelegations by a delegate: a part of its request, not yet queued.
LEMMA InsertRequestStep ==
  ASSUME BoardInv, NEW w \in Workers, InsertRequest(w), NEW i \in Requests, On(w) = i
  PROVE  BoardInv'
<1> USE DEF RowsKept, Others, Busy
<1>1. At(w, "insertRequest") /\ card' = card /\ budget' = budget
  BY DEF InsertRequest
<1>2. Phase(w) = "split1" /\ NameOf(Rest(at[w].todo)) = "split2"
  BY <1>1, RequestPhases
<1>3. /\ Present(i) /\ i \in Comments /\ St(i) \in {"queued", "running"} /\ Run(i) = w
      /\ \A v \in Workers \ {w} : Busy(v) => On(v) # i
  BY <1>1, <1>2, AtWork, Alone, Kinds DEF BoardInv, Standings, Standing, Runs, Ended
<1>4. ~Terminal /\ ~Terminal'
  BY <1>1, <1>3, NotDone DEF Terminal
<1>5. PICK k \in Requests : k = Least(Free(Requests)) /\ NewRow(k, "queued", i)
  <2>1. Free(Requests) \in SUBSET Nat /\ Free(Requests) # {}
    BY BoardAssumption DEF InsertRequest, Free, Requests
  <2>2. Least(Free(Requests)) \in Requests /\ msg[Least(Free(Requests))].status = "absent"
    <3>1. Least(Free(Requests)) \in Free(Requests)
      BY <2>1, LeastIsMember
    <3> QED
      BY <3>1 DEF Free
  <2>3. PICK c \in Requests : c = Least(Free(Requests)) /\ msg[c].status = "absent"
    BY <2>2
  <2>4. msg' = [msg EXCEPT ![c].status = "queued", ![c].of = i]
    BY <2>3 DEF InsertRequest, On
  <2>5. c \in Comments /\ msg \in [Comments -> Row]
    BY Kinds DEF BoardInv, Tables
  <2>6. NewRow(c, "queued", i)
    BY <2>3, <2>4, <2>5, InsertingRow
  <2> QED
    BY <2>3, <2>6
<1>6. /\ RowsKept({k}) /\ Lasting /\ St(k)' = "queued" /\ Of(k)' = i /\ Run(k)' = "none"
      /\ Up(k)' = FALSE /\ Acc(k)' = FALSE /\ ~Present(k) /\ k \in Comments /\ k # i
      /\ Untouched(k) /\ ~TickOn(k) /\ \A d \in Comments : Present(d) => Of(d) # k
  BY <1>3, <1>5, Absent, Cells, Kinds DEF NewRow
<1>7. /\ at' \in [Procs -> Proc] /\ Moves(w, "split2") /\ On(w)' = i /\ New(w)' = k
      /\ WorkersAt' /\ OwnerAt' /\ TickAt'
  <2>1. GoesWith(w, k)
    BY <1>5 DEF InsertRequest, GoesWith
  <2>2. PICK t : t = Rest(at[w].todo)
    OBVIOUS
  <2>3. t # <<>> /\ NameOf(t) = "split2"
    BY <2>2, <1>2, Names
  <2>4. /\ at' \in [Procs -> Proc] /\ Moves(w, NameOf(t)) /\ On(w)' = On(w) /\ New(w)' = k
        /\ WorkersAt' /\ OwnerAt' /\ TickAt'
    BY <2>1, <2>2, <2>3, <1>1, <1>4, <1>6, WorkerInserts
  <2> QED
    BY <2>3, <2>4
<1>8. Others(w) /\ Phase(w)' = "split2" /\ On(w)' = i /\ New(w)' = k
  BY <1>7 DEF Moves
<1>9. \A x \in Requests : Reported(x)' => Reported(x) /\ x # i
  <2>1. SUFFICES ASSUME NEW x \in Requests, Reported(x)' PROVE Reported(x) /\ x # i
    OBVIOUS
  <2>2. x # i
    BY <2>1, <1>2, <1>3, <1>6, <1>8, InHand, Kinds DEF Reported, BoardInv, Parents, Reviewing,
      Review, Untouched
  <2>3. Reported(x)
    BY <2>1, <2>2, <1>2, <1>3, <1>6, <1>8, InHand, Kinds DEF Reported
  <2> QED
    BY <2>2, <2>3
<1>10. \A p \in Procs, d \in Requests : Keeps(p, d) => Keeps(p, d)'
  <2>1. \A d \in Requests : ~Keeps(w, d)
    BY <1>2, <1>3, Kinds DEF Keeps, HandsOut
  <2> QED
    BY <2>1, <1>8, <1>6, KeepsOn, Kinds
<1>11. Tables' /\ OneAtWork' /\ DoneDelivered'
  BY <1>1, <1>2, <1>4, <1>5, <1>6, <1>7, <1>8, AtWork, InOrder DEF NewRow, BoardInv, Tables,
    DoneDelivered, Moves
<1>12. Parents'
  BY <1>2, <1>3, <1>8, <1>6, InHand, Kinds, Cells DEF BoardInv, Parents, Present
<1>13. Runs'
  BY <1>2, <1>3, <1>8, <1>6, InHand, Kinds, Cells DEF BoardInv, Runs, Ended
<1>14. Standings'
  BY <1>2, <1>3, <1>8, <1>6, InHand, Kinds, Cells DEF BoardInv, Standings, Standing
<1>15. Answering'
  BY <1>2, <1>3, <1>8, <1>6, <1>7, InHand, Kinds, Cells DEF BoardInv, Answering, TickOn, Works,
    Moves
<1>16. HandingOut'
  BY <1>2, <1>3, <1>8, <1>6, InHand, Kinds, Cells DEF BoardInv, HandingOut, HandsOut, TickOn,
    Untouched, Present
<1>17. HandingIn'
  BY <1>2, <1>3, <1>8, <1>6, InHand, Kinds, Cells DEF BoardInv, HandingIn, HandsIn, Untouched,
    Present
<1>18. UnderReview'
  BY <1>2, <1>3, <1>8, <1>6, InHand, Kinds, Cells DEF BoardInv, UnderReview, Inserting, HandsIn,
    Untouched, Present, Parents
<1>19. Reviewing'
  BY <1>2, <1>3, <1>8, <1>6, InHand, Kinds, Cells DEF BoardInv, Reviewing, Review, Untouched,
    Present, Parents, TickOn
<1>20. Integrated'
  BY <1>2, <1>3, <1>8, <1>6, <1>9, InHand, Kinds, Cells DEF BoardInv, Integrated, Reported, Still,
    Present, Parents
<1>21. Kept'
  BY <1>2, <1>3, <1>8, <1>6, <1>10, InHand, Kinds, Cells DEF BoardInv, Kept, Inserting, HandsIn,
    Keeps, HandsOut
<1> QED
  BY <1>7, <1>11, <1>12, <1>13, <1>14, <1>15, <1>16, <1>17, <1>18, <1>19, <1>20, <1>21 DEF BoardInv

\* The report gets its review.
LEMMA QueueReportStep ==
  ASSUME BoardInv, NEW w \in Workers, QueueNew(w),
         NEW i \in Requests, On(w) = i, Phase(w) = "report5", NEW j \in Comments, New(w) = j
  PROVE  BoardInv'
<1> USE DEF RowsKept, Others, Busy
<1>1. At(w, "queueNew") /\ Goes(w, Rest(at[w].todo)) /\ card' = card /\ budget' = budget
  BY DEF QueueNew, Then, Rest
<1>2. NameOf(Rest(at[w].todo)) = "idle" /\ Phase(w) = "report5"
  BY <1>1, RequestPhases
<1>3. /\ j \in Reports /\ Of(j) = i /\ St(j) = "submitted" /\ ~Up(j) /\ Run(j) = "none"
      /\ \A v \in Workers : Busy(v) => On(v) # j
      /\ Present(i) /\ i \in Comments /\ St(i) = "submitted" /\ Run(i) = "none"
      /\ \A v \in Workers \ {w} : Busy(v) => On(v) # i
  <2>1. Phase(w) = "report5" /\ Phase(w) \in Ended /\ Phase(w) \in HandsIn
    BY <1>2 DEF Ended, HandsIn
  <2>2. /\ j \in Reports /\ Of(j) = i /\ St(j) = "submitted" /\ ~Up(j) /\ Run(j) = "none"
        /\ \A v \in Workers : Busy(v) => On(v) # j
    BY <2>1 DEF BoardInv, HandingIn, Untouched
  <2>3. St(i) = "submitted" /\ Run(i) = "none"
    BY <2>1 DEF BoardInv, Standings, Standing, Runs
  <2> QED
    BY <2>2, <2>3, <1>1, <1>2, AtWork, Alone
<1>4. ~Terminal /\ ~Terminal'
  BY <1>1, <1>3, NotDone DEF Terminal
<1>5. RunSet(j, "queued")
  BY <1>3, <1>4, Queueing DEF QueueNew, New, BoardInv, Tables
<1>6. /\ RowsKept({j}) /\ Lasting /\ St(j)' = St(j) /\ Of(j)' = i /\ Run(j)' = "queued"
      /\ Up(j)' = Up(j) /\ Acc(j)' = Acc(j)
  BY <1>3, <1>5 DEF RunSet
<1>7. /\ at' \in [Procs -> Proc] /\ Moves(w, "idle") /\ ("idle" # "idle" => New(w)' = j)
      /\ WorkersAt' /\ OwnerAt' /\ TickAt'
  BY <1>1, <1>2, <1>4, <1>6, AtWork, WorkerGoes
<1>8. Others(w) /\ Phase(w)' = "idle"
  BY <1>7 DEF Moves
<1>9. \A p \in Procs, d \in Requests : Keeps(p, d) /\ d # j => Keeps(p, d)'
  <2>1. \A d \in Requests : Keeps(w, d) => d = j
    BY <1>2, <1>3, Kinds DEF Keeps, HandsOut
  <2> QED
    BY <2>1, <1>8, <1>6, KeepsOn, Kinds
<1>10. Tables' /\ OneAtWork' /\ DoneDelivered'
  BY <1>1, <1>2, <1>4, <1>5, <1>6, <1>7, <1>8, AtWork, InOrder DEF RunSet, BoardInv, Tables,
    DoneDelivered, Moves
<1>11. Parents'
  BY <1>2, <1>3, <1>8, <1>6, InHand, Kinds, Cells DEF BoardInv, Parents, Present
<1>12. Runs'
  BY <1>2, <1>3, <1>8, <1>6, InHand, Kinds, Cells DEF BoardInv, Runs, Ended
<1>13. Standings'
  BY <1>2, <1>3, <1>8, <1>6, InHand, Kinds, Cells DEF BoardInv, Standings, Standing
<1>14. Answering'
  BY <1>2, <1>3, <1>8, <1>6, <1>7, InHand, Kinds, Cells DEF BoardInv, Answering, TickOn, Works,
    Moves
<1>15. HandingOut'
  BY <1>2, <1>3, <1>8, <1>6, InHand, Kinds, Cells DEF BoardInv, HandingOut, HandsOut, TickOn,
    Untouched, Present
<1>16. HandingIn'
  BY <1>2, <1>3, <1>8, <1>6, InHand, Kinds, Cells DEF BoardInv, HandingIn, HandsIn, Untouched,
    Present
<1>17. UnderReview'
  BY <1>2, <1>3, <1>8, <1>6, InHand, Kinds, Cells DEF BoardInv, UnderReview, Inserting, HandsIn,
    Untouched, Present, Parents
<1>18. Reviewing'
  BY <1>2, <1>3, <1>8, <1>6, InHand, Kinds, Cells DEF BoardInv, Reviewing, Review, Untouched,
    Present, Parents, TickOn
<1>19. Integrated'
  BY <1>2, <1>3, <1>8, <1>6, InHand, Kinds, Cells DEF BoardInv, Integrated, Reported, Still,
    Present, Parents
<1>20. Kept'
  BY <1>2, <1>3, <1>8, <1>6, <1>9, InHand, Kinds, Cells DEF BoardInv, Kept, Inserting, HandsIn
<1> QED
  BY <1>7, <1>10, <1>11, <1>12, <1>13, <1>14, <1>15, <1>16, <1>17, <1>18, <1>19, <1>20 DEF BoardInv

\* A part of a request gets its first run.
LEMMA QueuePartStep ==
  ASSUME BoardInv, NEW w \in Workers, QueueNew(w),
         NEW i \in Requests, On(w) = i, Phase(w) = "split2", NEW k \in Comments, New(w) = k
  PROVE  BoardInv'
<1> USE DEF RowsKept, Others, Busy
<1>1. At(w, "queueNew") /\ Goes(w, Rest(at[w].todo)) /\ card' = card /\ budget' = budget
  BY DEF QueueNew, Then, Rest
<1>2. NameOf(Rest(at[w].todo)) = "split3" /\ Phase(w) = "split2"
  BY <1>1, RequestPhases
<1>3. /\ k \in Requests /\ Of(k) = i /\ St(k) = "queued" /\ Run(k) = "none" /\ Present(k) /\ ~TickOn(k)
      /\ \A v \in Workers : Busy(v) => On(v) # k
      /\ \A c \in Comments : Present(c) => Of(c) # k
      /\ Present(i) /\ i \in Comments /\ St(i) \in {"queued", "running"}
      /\ \A v \in Workers \ {w} : Busy(v) => On(v) # i
  <2>1. Phase(w) = "split2" /\ Phase(w) \in HandsOut /\ w \in Procs
    BY <1>2, Kinds DEF HandsOut
  <2>2. /\ k \in Requests /\ Of(k) = i /\ St(k) = "queued" /\ Run(k) = "none" /\ ~TickOn(k)
        /\ \A v \in Workers : Busy(v) => On(v) # k
        /\ \A c \in Comments : Present(c) => Of(c) # k
    BY <2>1 DEF BoardInv, HandingOut, Untouched
  <2>3. St(i) \in {"queued", "running"}
    BY <2>1 DEF BoardInv, Standings, Standing
  <2> QED
    BY <2>2, <2>3, <1>1, <1>2, AtWork, Alone DEF Present
<1>4. \A p \in Procs : Phase(p) \in HandsOut /\ New(p) = k => p = w
  <2>1. SUFFICES ASSUME NEW p \in Procs, Phase(p) \in HandsOut, New(p) = k, p # w PROVE FALSE
    OBVIOUS
  <2>2. On(p) = i
    BY <2>1, <1>3 DEF BoardInv, HandingOut
  <2>3. p \in Workers
    BY <2>1, <2>2, PhaseOf, Kinds DEF HandsOut, BoardInv, OwnerAt
  <2> QED
    BY <2>1, <2>2, <2>3, <1>3 DEF HandsOut
<1>5. ~Terminal /\ ~Terminal'
  BY <1>1, <1>3, NotDone DEF Terminal
<1>6. RunSet(k, "queued")
  BY <1>3, <1>5, Queueing DEF QueueNew, New, BoardInv, Tables
<1>7. /\ RowsKept({k}) /\ Lasting /\ St(k)' = St(k) /\ Of(k)' = i /\ Run(k)' = "queued"
      /\ Up(k)' = Up(k) /\ Acc(k)' = Acc(k)
  BY <1>3, <1>6 DEF RunSet
<1>8. /\ at' \in [Procs -> Proc] /\ Moves(w, "split3") /\ ("split3" # "idle" => New(w)' = k)
      /\ WorkersAt' /\ OwnerAt' /\ TickAt'
  BY <1>1, <1>2, <1>5, <1>7, AtWork, WorkerGoes
<1>9. Others(w) /\ Phase(w)' = "split3" /\ On(w)' = i /\ New(w)' = k
  BY <1>8 DEF Moves
<1>10. \A p \in Procs, d \in Requests : Keeps(p, d) /\ d # k => Keeps(p, d)'
  <2>1. \A d \in Requests : Keeps(w, d) => d = k
    BY <1>2, <1>3, Kinds DEF Keeps, HandsOut
  <2> QED
    BY <2>1, <1>9, <1>7, KeepsOn, Kinds
<1>11. Tables' /\ OneAtWork' /\ DoneDelivered'
  BY <1>1, <1>2, <1>5, <1>6, <1>7, <1>8, <1>9, AtWork, InOrder DEF RunSet, BoardInv, Tables,
    DoneDelivered, Moves
<1>12. Parents'
  BY <1>2, <1>3, <1>9, <1>7, InHand, Kinds, Cells DEF BoardInv, Parents, Present
<1>13. Runs'
  BY <1>2, <1>3, <1>9, <1>7, InHand, Kinds, Cells DEF BoardInv, Runs, Ended
<1>14. Standings'
  BY <1>2, <1>3, <1>9, <1>7, InHand, Kinds, Cells DEF BoardInv, Standings, Standing
<1>15. Answering'
  BY <1>2, <1>3, <1>9, <1>7, <1>8, InHand, Kinds, Cells DEF BoardInv, Answering, TickOn, Works,
    Moves
<1>16. HandingOut'
  BY <1>2, <1>3, <1>9, <1>7, <1>4, InHand, Kinds, Cells DEF BoardInv, HandingOut, HandsOut,
    TickOn, Untouched, Present
<1>17. HandingIn'
  BY <1>2, <1>3, <1>9, <1>7, InHand, Kinds, Cells DEF BoardInv, HandingIn, HandsIn, Untouched,
    Present
<1>18. UnderReview'
  BY <1>2, <1>3, <1>9, <1>7, InHand, Kinds, Cells DEF BoardInv, UnderReview, Inserting, HandsIn,
    Untouched, Present, Parents
<1>19. Reviewing'
  BY <1>2, <1>3, <1>9, <1>7, InHand, Kinds, Cells DEF BoardInv, Reviewing, Review, Untouched,
    Present, Parents, TickOn
<1>20. Integrated'
  BY <1>2, <1>3, <1>9, <1>7, InHand, Kinds, Cells DEF BoardInv, Integrated, Reported, Still,
    Present, Parents
<1>21. Kept'
  BY <1>2, <1>3, <1>9, <1>7, <1>10, InHand, Kinds, Cells DEF BoardInv, Kept, Inserting, HandsIn
<1> QED
  BY <1>8, <1>11, <1>12, <1>13, <1>14, <1>15, <1>16, <1>17, <1>18, <1>19, <1>20, <1>21 DEF BoardInv

\* A revision: the report is rejected first.
LEMMA RejectStep ==
  ASSUME BoardInv, NEW w \in Workers, Reject(w), NEW j \in Reports, On(w) = j, NEW i, Of(j) = i
  PROVE  BoardInv'
<1> USE DEF RowsKept, Others, Busy
<1>1. At(w, "reject") /\ Goes(w, Rest(at[w].todo)) /\ budget' = budget
  BY DEF Reject, Then, Rest
<1>2. Phase(w) = "revise1" /\ NameOf(Rest(at[w].todo)) = "revise2"
  BY <1>1, ReviewPhases
<1>3. /\ j \in Comments /\ Present(j) /\ i \in Requests /\ i \in Comments /\ Present(i) /\ Of(j) = i
      /\ \A v \in Workers \ {w} : Busy(v) => On(v) # j
      /\ St(j) = "submitted" /\ ~Up(j) /\ St(i) = "submitted" /\ Untouched(i) /\ ~TickOn(i)
      /\ \A k \in Reports : St(k) = "submitted" /\ Of(k) = i => k = j
      /\ Run(j) = w
  BY <1>1, <1>2, AtWork, InReview DEF Ended, Review
<1>4. ~Terminal /\ ~Terminal'
  BY <1>3, <1>1, NotDone DEF Reject, Terminal
<1>5. StatusSet(j, "rejected")
  BY <1>3, Marking DEF Reject, BoardInv, Tables, On
<1>6. /\ msg' \in [Comments -> Row] /\ RowsKept({j}) /\ Lasting
      /\ St(j)' = "rejected" /\ Of(j)' = Of(j) /\ Run(j)' = Run(j) /\ Up(j)' = Up(j) /\ Acc(j)' = Acc(j)
  BY <1>3, <1>5 DEF StatusSet
<1>7. /\ at' \in [Procs -> Proc] /\ Moves(w, "revise2") /\ New(w)' = New(w)
      /\ WorkersAt' /\ OwnerAt' /\ TickAt'
  BY <1>1, <1>2, <1>4, <1>6, AtWork, WorkerGoes
<1>8. Others(w) /\ Phase(w)' = "revise2" /\ On(w)' = j /\ New(w)' = New(w)
  BY <1>7 DEF Moves
<1>9. \A p \in Procs, c \in Requests : Keeps(p, c) => Keeps(p, c)'
  <2>1. \A c \in Requests : Keeps(w, c) => FALSE
    BY <1>2, <1>3, Kinds DEF Keeps, HandsOut
  <2> QED
    BY <2>1, <1>8, <1>6, KeepsOn, Kinds
<1>10. Tables' /\ OneAtWork' /\ DoneDelivered'
  BY <1>1, <1>2, <1>4, <1>6, <1>7, AtWork, InOrder DEF Reject, BoardInv, Tables, DoneDelivered
<1>11. Parents'
  BY <1>2, <1>3, <1>8, <1>6, InHand, Kinds, Cells DEF BoardInv, Parents, Present
<1>12. Runs'
  BY <1>2, <1>3, <1>8, <1>6, InHand, Kinds, Cells DEF BoardInv, Runs, Ended
<1>13. Standings'
  BY <1>2, <1>3, <1>8, <1>6, InHand, Kinds, Cells DEF BoardInv, Standings, Standing
<1>14. Answering'
  BY <1>2, <1>3, <1>8, <1>6, <1>7, InHand, Kinds, Cells DEF BoardInv, Answering, TickOn, Works,
    Moves
<1>15. HandingOut'
  BY <1>2, <1>3, <1>8, <1>6, InHand, Kinds, Cells DEF BoardInv, HandingOut, HandsOut, TickOn,
    Untouched, Present
<1>16. HandingIn'
  BY <1>2, <1>3, <1>8, <1>6, InHand, Kinds, Cells DEF BoardInv, HandingIn, HandsIn, Untouched,
    Present
<1>17. UnderReview'
  BY <1>2, <1>3, <1>8, <1>6, InHand, Kinds, Cells DEF BoardInv, UnderReview, Inserting, HandsIn,
    Untouched, Present, Parents
<1>18. Reviewing'
  BY <1>2, <1>3, <1>8, <1>6, InHand, Kinds, Cells DEF BoardInv, Reviewing, Review, Untouched,
    Present, Parents, TickOn
<1>19. Integrated'
  BY <1>2, <1>3, <1>8, <1>6, InHand, Kinds, Cells DEF BoardInv, Integrated, Reported, Still,
    Present, Parents
<1>20. Kept'
  BY <1>2, <1>3, <1>8, <1>6, <1>9, InHand, Kinds, Cells DEF BoardInv, Kept, Inserting, HandsIn
<1> QED
  BY <1>7, <1>10, <1>11, <1>12, <1>13, <1>14, <1>15, <1>16, <1>17, <1>18, <1>19, <1>20 DEF BoardInv

\* requeueMessageTaskAfterFailure: the report awaits its review again.
LEMMA AgainReviewStep ==
  ASSUME BoardInv, NEW w \in Workers, Again(w), NEW j \in Reports, On(w) = j, NEW i, Of(j) = i
  PROVE  BoardInv'
<1> USE DEF RowsKept, Others, Busy
<1>1. At(w, "again") /\ Goes(w, Rest(at[w].todo)) /\ budget' = budget
  BY DEF Again, Then, Rest
<1>2. Phase(w) = "retry2" /\ NameOf(Rest(at[w].todo)) = "queue"
  BY <1>1, ReviewPhases
<1>3. /\ j \in Comments /\ Present(j) /\ i \in Requests /\ i \in Comments /\ Present(i) /\ Of(j) = i
      /\ \A v \in Workers \ {w} : Busy(v) => On(v) # j
      /\ St(j) = "submitted" /\ ~Up(j) /\ St(i) = "submitted" /\ Untouched(i) /\ ~TickOn(i)
      /\ \A k \in Reports : St(k) = "submitted" /\ Of(k) = i => k = j
      /\ Run(j) = "none"
  BY <1>1, <1>2, AtWork, InReview DEF Ended, Review
<1>4. ~Terminal /\ ~Terminal'
  BY <1>3, <1>1, NotDone DEF Again, Terminal
<1>5. StatusSet(j, "submitted")
  BY <1>3, Marking DEF Again, BoardInv, Tables, On
<1>6. /\ msg' \in [Comments -> Row] /\ RowsKept({j}) /\ Lasting
      /\ St(j)' = "submitted" /\ Of(j)' = Of(j) /\ Run(j)' = Run(j) /\ Up(j)' = Up(j) /\ Acc(j)' = Acc(j)
  BY <1>3, <1>5 DEF StatusSet
<1>7. /\ at' \in [Procs -> Proc] /\ Moves(w, "queue") /\ New(w)' = New(w)
      /\ WorkersAt' /\ OwnerAt' /\ TickAt'
  BY <1>1, <1>2, <1>4, <1>6, AtWork, WorkerGoes
<1>8. Others(w) /\ Phase(w)' = "queue" /\ On(w)' = j /\ New(w)' = New(w)
  BY <1>7 DEF Moves
<1>9. \A p \in Procs, c \in Requests : Keeps(p, c) => Keeps(p, c)'
  <2>1. \A c \in Requests : Keeps(w, c) => FALSE
    BY <1>2, <1>3, Kinds DEF Keeps, HandsOut
  <2> QED
    BY <2>1, <1>8, <1>6, KeepsOn, Kinds
<1>10. Tables' /\ OneAtWork' /\ DoneDelivered'
  BY <1>1, <1>2, <1>4, <1>6, <1>7, AtWork, InOrder DEF Again, BoardInv, Tables, DoneDelivered
<1>11. Parents'
  BY <1>2, <1>3, <1>8, <1>6, InHand, Kinds, Cells DEF BoardInv, Parents, Present
<1>12. Runs'
  BY <1>2, <1>3, <1>8, <1>6, InHand, Kinds, Cells DEF BoardInv, Runs, Ended
<1>13. Standings'
  BY <1>2, <1>3, <1>8, <1>6, InHand, Kinds, Cells DEF BoardInv, Standings, Standing
<1>14. Answering'
  BY <1>2, <1>3, <1>8, <1>6, <1>7, InHand, Kinds, Cells DEF BoardInv, Answering, TickOn, Works,
    Moves
<1>15. HandingOut'
  BY <1>2, <1>3, <1>8, <1>6, InHand, Kinds, Cells DEF BoardInv, HandingOut, HandsOut, TickOn,
    Untouched, Present
<1>16. HandingIn'
  BY <1>2, <1>3, <1>8, <1>6, InHand, Kinds, Cells DEF BoardInv, HandingIn, HandsIn, Untouched,
    Present
<1>17. UnderReview'
  BY <1>2, <1>3, <1>8, <1>6, InHand, Kinds, Cells DEF BoardInv, UnderReview, Inserting, HandsIn,
    Untouched, Present, Parents
<1>18. Reviewing'
  BY <1>2, <1>3, <1>8, <1>6, InHand, Kinds, Cells DEF BoardInv, Reviewing, Review, Untouched,
    Present, Parents, TickOn
<1>19. Integrated'
  BY <1>2, <1>3, <1>8, <1>6, InHand, Kinds, Cells DEF BoardInv, Integrated, Reported, Still,
    Present, Parents
<1>20. Kept'
  BY <1>2, <1>3, <1>8, <1>6, <1>9, InHand, Kinds, Cells DEF BoardInv, Kept, Inserting, HandsIn
<1> QED
  BY <1>7, <1>10, <1>11, <1>12, <1>13, <1>14, <1>15, <1>16, <1>17, <1>18, <1>19, <1>20 DEF BoardInv

\* The report gets its next review.
LEMMA QueueReviewStep ==
  ASSUME BoardInv, NEW w \in Workers, QueueSame(w), NEW j \in Reports, On(w) = j,
         NEW i, Of(j) = i, Phase(w) = "queue"
  PROVE  BoardInv'
<1> USE DEF RowsKept, Others, Busy
<1>1. At(w, "queue") /\ Goes(w, Rest(at[w].todo)) /\ budget' = budget
  BY DEF QueueSame, Then, Rest
<1>2. Phase(w) = "queue" /\ NameOf(Rest(at[w].todo)) = "idle"
  BY <1>1, ReviewPhases
<1>3. /\ j \in Comments /\ Present(j) /\ i \in Requests /\ i \in Comments /\ Present(i) /\ Of(j) = i
      /\ \A v \in Workers \ {w} : Busy(v) => On(v) # j
      /\ St(j) = "submitted" /\ ~Up(j) /\ St(i) = "submitted" /\ Untouched(i) /\ ~TickOn(i)
      /\ \A k \in Reports : St(k) = "submitted" /\ Of(k) = i => k = j
      /\ Run(j) = "none"
  BY <1>1, <1>2, AtWork, InReview DEF Ended, Review
<1>4. ~Terminal /\ ~Terminal'
  BY <1>3, <1>1, NotDone DEF QueueSame, Terminal
<1>5. RunSet(j, "queued")
  BY <1>3, <1>4, Queueing DEF QueueSame, BoardInv, Tables, On
<1>6. /\ msg' \in [Comments -> Row] /\ RowsKept({j}) /\ Lasting
      /\ St(j)' = St(j) /\ Of(j)' = Of(j) /\ Run(j)' = "queued" /\ Up(j)' = Up(j) /\ Acc(j)' = Acc(j)
  BY <1>3, <1>5 DEF RunSet
<1>7. /\ at' \in [Procs -> Proc] /\ Moves(w, "idle")
      /\ WorkersAt' /\ OwnerAt' /\ TickAt'
  BY <1>1, <1>2, <1>4, <1>6, AtWork, WorkerGoes
<1>8. Others(w) /\ Phase(w)' = "idle"
  BY <1>7 DEF Moves
<1>9. \A p \in Procs, c \in Requests : Keeps(p, c) => Keeps(p, c)'
  <2>1. \A c \in Requests : Keeps(w, c) => FALSE
    BY <1>2, <1>3, Kinds DEF Keeps, HandsOut
  <2> QED
    BY <2>1, <1>8, <1>6, KeepsOn, Kinds
<1>10. Tables' /\ OneAtWork' /\ DoneDelivered'
  BY <1>1, <1>2, <1>4, <1>6, <1>7, AtWork, InOrder DEF QueueSame, BoardInv, Tables, DoneDelivered
<1>11. Parents'
  BY <1>2, <1>3, <1>8, <1>6, InHand, Kinds, Cells DEF BoardInv, Parents, Present
<1>12. Runs'
  BY <1>2, <1>3, <1>8, <1>6, InHand, Kinds, Cells DEF BoardInv, Runs, Ended
<1>13. Standings'
  BY <1>2, <1>3, <1>8, <1>6, InHand, Kinds, Cells DEF BoardInv, Standings, Standing
<1>14. Answering'
  BY <1>2, <1>3, <1>8, <1>6, <1>7, InHand, Kinds, Cells DEF BoardInv, Answering, TickOn, Works,
    Moves
<1>15. HandingOut'
  BY <1>2, <1>3, <1>8, <1>6, InHand, Kinds, Cells DEF BoardInv, HandingOut, HandsOut, TickOn,
    Untouched, Present
<1>16. HandingIn'
  BY <1>2, <1>3, <1>8, <1>6, InHand, Kinds, Cells DEF BoardInv, HandingIn, HandsIn, Untouched,
    Present
<1>17. UnderReview'
  BY <1>2, <1>3, <1>8, <1>6, InHand, Kinds, Cells DEF BoardInv, UnderReview, Inserting, HandsIn,
    Untouched, Present, Parents
<1>18. Reviewing'
  BY <1>2, <1>3, <1>8, <1>6, InHand, Kinds, Cells DEF BoardInv, Reviewing, Review, Untouched,
    Present, Parents, TickOn
<1>19. Integrated'
  BY <1>2, <1>3, <1>8, <1>6, InHand, Kinds, Cells DEF BoardInv, Integrated, Reported, Still,
    Present, Parents
<1>20. Kept'
  BY <1>2, <1>3, <1>8, <1>6, <1>9, InHand, Kinds, Cells DEF BoardInv, Kept, Inserting, HandsIn
<1> QED
  BY <1>7, <1>10, <1>11, <1>12, <1>13, <1>14, <1>15, <1>16, <1>17, <1>18, <1>19, <1>20 DEF BoardInv

\* completeRetryableRun of a review: its run has failed.
LEMMA FailReviewStep ==
  ASSUME BoardInv, NEW w \in Workers, Fail(w), NEW j \in Reports, On(w) = j, NEW i, Of(j) = i
  PROVE  BoardInv'
<1> USE DEF RowsKept, Others, Busy
<1>1. At(w, "fail") /\ Goes(w, Rest(at[w].todo)) /\ budget' = budget
  BY DEF Fail, Then, Rest
<1>2. Phase(w) = "retry1" /\ NameOf(Rest(at[w].todo)) = "retry2"
  BY <1>1, ReviewPhases
<1>3. /\ j \in Comments /\ Present(j) /\ i \in Requests /\ i \in Comments /\ Present(i) /\ Of(j) = i
      /\ \A v \in Workers \ {w} : Busy(v) => On(v) # j
      /\ St(j) = "submitted" /\ ~Up(j) /\ St(i) = "submitted" /\ Untouched(i) /\ ~TickOn(i)
      /\ \A k \in Reports : St(k) = "submitted" /\ Of(k) = i => k = j
      /\ Run(j) = w
  BY <1>1, <1>2, AtWork, InReview DEF Ended, Review
<1>4. ~Terminal /\ ~Terminal'
  BY <1>3, <1>1, NotDone, Failing DEF Fail, BoardInv, Tables, Terminal
<1>5. RunSet(j, "none")
  BY <1>3, Completing DEF Fail, BoardInv, Tables
<1>6. /\ msg' \in [Comments -> Row] /\ RowsKept({j}) /\ Lasting
      /\ St(j)' = St(j) /\ Of(j)' = Of(j) /\ Run(j)' = "none" /\ Up(j)' = Up(j) /\ Acc(j)' = Acc(j)
  BY <1>3, <1>5 DEF RunSet
<1>7. /\ at' \in [Procs -> Proc] /\ Moves(w, "retry2") /\ New(w)' = New(w)
      /\ WorkersAt' /\ OwnerAt' /\ TickAt'
  BY <1>1, <1>2, <1>4, <1>6, AtWork, WorkerGoes
<1>8. Others(w) /\ Phase(w)' = "retry2" /\ On(w)' = j /\ New(w)' = New(w)
  BY <1>7 DEF Moves
<1>9. \A p \in Procs, c \in Requests : Keeps(p, c) => Keeps(p, c)'
  <2>1. \A c \in Requests : Keeps(w, c) => FALSE
    BY <1>2, <1>3, Kinds DEF Keeps, HandsOut
  <2> QED
    BY <2>1, <1>8, <1>6, KeepsOn, Kinds
<1>10. Tables' /\ OneAtWork' /\ DoneDelivered'
  BY <1>1, <1>2, <1>4, <1>6, <1>7, AtWork, InOrder, Failing DEF Fail, BoardInv, Tables,
    DoneDelivered
<1>11. Parents'
  BY <1>2, <1>3, <1>8, <1>6, InHand, Kinds, Cells DEF BoardInv, Parents, Present
<1>12. Runs'
  BY <1>2, <1>3, <1>8, <1>6, InHand, Kinds, Cells DEF BoardInv, Runs, Ended
<1>13. Standings'
  BY <1>2, <1>3, <1>8, <1>6, InHand, Kinds, Cells DEF BoardInv, Standings, Standing
<1>14. Answering'
  BY <1>2, <1>3, <1>8, <1>6, <1>7, InHand, Kinds, Cells DEF BoardInv, Answering, TickOn, Works,
    Moves
<1>15. HandingOut'
  BY <1>2, <1>3, <1>8, <1>6, InHand, Kinds, Cells DEF BoardInv, HandingOut, HandsOut, TickOn,
    Untouched, Present
<1>16. HandingIn'
  BY <1>2, <1>3, <1>8, <1>6, InHand, Kinds, Cells DEF BoardInv, HandingIn, HandsIn, Untouched,
    Present
<1>17. UnderReview'
  BY <1>2, <1>3, <1>8, <1>6, InHand, Kinds, Cells DEF BoardInv, UnderReview, Inserting, HandsIn,
    Untouched, Present, Parents
<1>18. Reviewing'
  BY <1>2, <1>3, <1>8, <1>6, InHand, Kinds, Cells DEF BoardInv, Reviewing, Review, Untouched,
    Present, Parents, TickOn
<1>19. Integrated'
  BY <1>2, <1>3, <1>8, <1>6, InHand, Kinds, Cells DEF BoardInv, Integrated, Reported, Still,
    Present, Parents
<1>20. Kept'
  BY <1>2, <1>3, <1>8, <1>6, <1>9, InHand, Kinds, Cells DEF BoardInv, Kept, Inserting, HandsIn
<1> QED
  BY <1>7, <1>10, <1>11, <1>12, <1>13, <1>14, <1>15, <1>16, <1>17, <1>18, <1>19, <1>20 DEF BoardInv

\* completeRetryableRun of a review: its run has ended well.
LEMMA SucceedReviewStep ==
  ASSUME BoardInv, NEW w \in Workers, Succeed(w), NEW j \in Reports, On(w) = j, NEW i, Of(j) = i
  PROVE  BoardInv'
<1> USE DEF RowsKept, Others, Busy
<1>1. At(w, "succeed") /\ Goes(w, Rest(at[w].todo)) /\ budget' = budget
  BY DEF Succeed, Then, Rest
<1>2. Phase(w) = "end" /\ NameOf(Rest(at[w].todo)) = "idle"
  BY <1>1, ReviewPhases
<1>3. /\ j \in Comments /\ Present(j) /\ i \in Requests /\ i \in Comments /\ Present(i) /\ Of(j) = i
      /\ \A v \in Workers \ {w} : Busy(v) => On(v) # j
      /\ Run(j) = w /\ (St(j) # "submitted" \/ Up(j))
  BY <1>1, <1>2, AtWork, InReview DEF Ended, Review
<1>4. Terminal' => Terminal
  BY DEF Succeed, Succeeded, Streak, Terminal
<1>5. RunSet(j, "none")
  BY <1>3, Completing DEF Succeed, BoardInv, Tables
<1>6. /\ msg' \in [Comments -> Row] /\ RowsKept({j}) /\ Lasting
      /\ St(j)' = St(j) /\ Of(j)' = Of(j) /\ Run(j)' = "none" /\ Up(j)' = Up(j) /\ Acc(j)' = Acc(j)
  BY <1>3, <1>5 DEF RunSet
<1>7. /\ at' \in [Procs -> Proc] /\ Moves(w, "idle")
      /\ WorkersAt' /\ OwnerAt' /\ TickAt'
  BY <1>1, <1>2, <1>4, <1>6, AtWork, WorkerGoes
<1>8. Others(w) /\ Phase(w)' = "idle"
  BY <1>7 DEF Moves
<1>9. \A p \in Procs, c \in Requests : Keeps(p, c) => Keeps(p, c)'
  <2>1. \A c \in Requests : Keeps(w, c) => FALSE
    BY <1>2, <1>3, Kinds DEF Keeps, HandsOut
  <2> QED
    BY <2>1, <1>8, <1>6, KeepsOn, Kinds
<1>10. Tables' /\ OneAtWork' /\ DoneDelivered'
  <2>1. Tables' /\ OneAtWork'
    BY <1>1, <1>2, <1>6, <1>7, AtWork, InOrder DEF Succeed, BoardInv, Tables, CardRow, Succeeded,
      Streak
  <2>2. DoneDelivered'
    <3>1. \A c \in Requests : Present(c)' => Present(c)
      BY <1>6, Kinds DEF Present
    <3>2. \A c \in Comments : St(c) = "approved" => St(c)' = "approved"
      BY <1>3, <1>6
    <3>3. \A c \in Reports : Present(c) => Of(c)' = Of(c) /\ Up(c)' = Up(c) /\ (Acc(c) => Acc(c)')
      BY <1>6, Kinds
    <3> QED
      BY <1>4, <3>1, <3>2, <3>3, Delivering DEF DoneDelivered
  <2> QED
    BY <2>1, <2>2
<1>11. Parents'
  BY <1>2, <1>3, <1>8, <1>6, InHand, Kinds, Cells DEF BoardInv, Parents, Present
<1>12. Runs'
  BY <1>2, <1>3, <1>8, <1>6, InHand, Kinds, Cells DEF BoardInv, Runs, Ended
<1>13. Standings'
  BY <1>2, <1>3, <1>8, <1>6, InHand, Kinds, Cells DEF BoardInv, Standings, Standing
<1>14. Answering'
  BY <1>2, <1>3, <1>8, <1>6, <1>7, InHand, Kinds, Cells DEF BoardInv, Answering, TickOn, Works,
    Moves
<1>15. HandingOut'
  BY <1>2, <1>3, <1>8, <1>6, InHand, Kinds, Cells DEF BoardInv, HandingOut, HandsOut, TickOn,
    Untouched, Present
<1>16. HandingIn'
  BY <1>2, <1>3, <1>8, <1>6, InHand, Kinds, Cells DEF BoardInv, HandingIn, HandsIn, Untouched,
    Present
<1>17. UnderReview'
  BY <1>2, <1>3, <1>8, <1>6, InHand, Kinds, Cells DEF BoardInv, UnderReview, Inserting, HandsIn,
    Untouched, Present, Parents
<1>18. Reviewing'
  BY <1>2, <1>3, <1>8, <1>6, InHand, Kinds, Cells DEF BoardInv, Reviewing, Review, Untouched,
    Present, Parents, TickOn
<1>19. Integrated'
  BY <1>2, <1>3, <1>8, <1>6, InHand, Kinds, Cells DEF BoardInv, Integrated, Reported, Still,
    Present, Parents
<1>20. Kept'
  BY <1>2, <1>3, <1>8, <1>6, <1>9, InHand, Kinds, Cells DEF BoardInv, Kept, Inserting, HandsIn
<1> QED
  BY <1>7, <1>10, <1>11, <1>12, <1>13, <1>14, <1>15, <1>16, <1>17, <1>18, <1>19, <1>20 DEF BoardInv

\* The owner gets a turn (continueAfterMessageReportApproval).
LEMMA TellStep ==
  ASSUME BoardInv, NEW w \in Workers, WakeOwner(w), NEW j \in Reports, On(w) = j, NEW i, Of(j) = i
  PROVE  BoardInv'
<1> USE DEF RowsKept, Others, Busy
<1>1. At(w, "wakeOwner") /\ Goes(w, Rest(at[w].todo)) /\ budget' = budget
  BY DEF WakeOwner, Then, Rest
<1>2. Phase(w) = "tell" /\ NameOf(Rest(at[w].todo)) = "end"
  BY <1>1, ReviewPhases
<1>3. /\ j \in Comments /\ Present(j) /\ i \in Requests /\ i \in Comments /\ Present(i) /\ Of(j) = i
      /\ \A v \in Workers \ {w} : Busy(v) => On(v) # j
      /\ Run(j) = w /\ St(j) = "approved"
  BY <1>1, <1>2, AtWork, InReview DEF Ended, Review
<1>4. Terminal' => Terminal
  BY DEF WakeOwner, OwnerQueued, Terminal
<1>5. msg' = msg
  BY DEF WakeOwner
<1>6. RowsKept({}) /\ Lasting /\ msg' \in [Comments -> Row]
  BY <1>3, <1>5 DEF RowsKept, Lasting, St, Of, Run, Up, Acc, Present, BoardInv, Tables
<1>7. /\ at' \in [Procs -> Proc] /\ Moves(w, "end") /\ New(w)' = New(w)
      /\ WorkersAt' /\ OwnerAt' /\ TickAt'
  BY <1>1, <1>2, <1>4, <1>6, AtWork, WorkerGoes
<1>8. Others(w) /\ Phase(w)' = "end" /\ On(w)' = j /\ New(w)' = New(w)
  BY <1>7 DEF Moves
<1>9. \A p \in Procs, c \in Requests : Keeps(p, c) => Keeps(p, c)'
  <2>1. \A c \in Requests : Keeps(w, c) => FALSE
    BY <1>2, <1>3, Kinds DEF Keeps, HandsOut
  <2> QED
    BY <2>1, <1>8, <1>6, KeepsOn, Kinds
<1>10. Tables' /\ OneAtWork' /\ DoneDelivered'
  <2>1. Tables' /\ OneAtWork'
    BY <1>1, <1>2, <1>6, <1>7, AtWork, InOrder DEF WakeOwner, BoardInv, Tables, CardRow, OwnerQueued
  <2>2. DoneDelivered'
    <3>1. \A c \in Requests : Present(c)' => Present(c)
      BY <1>6, Kinds DEF Present
    <3>2. \A c \in Comments : St(c) = "approved" => St(c)' = "approved"
      BY <1>3, <1>6
    <3>3. \A c \in Reports : Present(c) => Of(c)' = Of(c) /\ Up(c)' = Up(c) /\ (Acc(c) => Acc(c)')
      BY <1>6, Kinds
    <3> QED
      BY <1>4, <3>1, <3>2, <3>3, Delivering DEF DoneDelivered
  <2> QED
    BY <2>1, <2>2
<1>11. Parents'
  BY <1>2, <1>3, <1>8, <1>6, InHand, Kinds, Cells DEF BoardInv, Parents, Present
<1>12. Runs'
  BY <1>2, <1>3, <1>8, <1>6, InHand, Kinds, Cells DEF BoardInv, Runs, Ended
<1>13. Standings'
  BY <1>2, <1>3, <1>8, <1>6, InHand, Kinds, Cells DEF BoardInv, Standings, Standing
<1>14. Answering'
  BY <1>2, <1>3, <1>8, <1>6, <1>7, InHand, Kinds, Cells DEF BoardInv, Answering, TickOn, Works,
    Moves
<1>15. HandingOut'
  BY <1>2, <1>3, <1>8, <1>6, InHand, Kinds, Cells DEF BoardInv, HandingOut, HandsOut, TickOn,
    Untouched, Present
<1>16. HandingIn'
  BY <1>2, <1>3, <1>8, <1>6, InHand, Kinds, Cells DEF BoardInv, HandingIn, HandsIn, Untouched,
    Present
<1>17. UnderReview'
  BY <1>2, <1>3, <1>8, <1>6, InHand, Kinds, Cells DEF BoardInv, UnderReview, Inserting, HandsIn,
    Untouched, Present, Parents
<1>18. Reviewing'
  BY <1>2, <1>3, <1>8, <1>6, InHand, Kinds, Cells DEF BoardInv, Reviewing, Review, Untouched,
    Present, Parents, TickOn
<1>19. Integrated'
  BY <1>2, <1>3, <1>8, <1>6, InHand, Kinds, Cells DEF BoardInv, Integrated, Reported, Still,
    Present, Parents
<1>20. Kept'
  BY <1>2, <1>3, <1>8, <1>6, <1>9, InHand, Kinds, Cells DEF BoardInv, Kept, Inserting, HandsIn
<1> QED
  BY <1>7, <1>10, <1>11, <1>12, <1>13, <1>14, <1>15, <1>16, <1>17, <1>18, <1>19, <1>20 DEF BoardInv

\* An approval: the report and its request in one transaction.
LEMMA ApproveStep ==
  ASSUME BoardInv, NEW w \in Workers, Approve(w), NEW j \in Reports, On(w) = j, NEW i, Of(j) = i
  PROVE  BoardInv'
<1> USE DEF RowsKept, Others, Busy
<1>1. At(w, "approve") /\ Goes(w, Rest(at[w].todo)) /\ budget' = budget
  BY DEF Approve, Then, Rest
<1>2. Phase(w) = "approve1" /\ NameOf(Rest(at[w].todo)) = "approve2"
  BY <1>1, ReviewPhases
<1>3. /\ j \in Comments /\ Present(j) /\ i \in Requests /\ i \in Comments /\ Present(i) /\ Of(j) = i
      /\ \A v \in Workers \ {w} : Busy(v) => On(v) # j
      /\ St(j) = "submitted" /\ ~Up(j) /\ St(i) = "submitted" /\ Untouched(i) /\ ~TickOn(i)
      /\ \A k \in Reports : St(k) = "submitted" /\ Of(k) = i => k = j
      /\ Run(j) = w
  BY <1>1, <1>2, AtWork, InReview DEF Ended, Review
<1>4. ~Terminal /\ ~Terminal'
  BY <1>3, <1>1, NotDone DEF Approve, Terminal
<1>5. msg' = Approved(j)
  BY DEF Approve, On
<1>6. /\ msg' \in [Comments -> Row] /\ RowsKept({i, j}) /\ Lasting
      /\ St(j)' = "approved" /\ St(i)' = "approved"
      /\ Of(j)' = i /\ Run(j)' = Run(j) /\ Up(j)' = Up(j) /\ Acc(j)' = Acc(j)
      /\ Of(i)' = Of(i) /\ Run(i)' = Run(i) /\ Up(i)' = Up(i) /\ Acc(i)' = Acc(i)
  BY <1>3, <1>5, Kinds, Approving DEF BoardInv, Tables
<1>7. /\ at' \in [Procs -> Proc] /\ Moves(w, "approve2") /\ New(w)' = New(w)
      /\ WorkersAt' /\ OwnerAt' /\ TickAt'
  BY <1>1, <1>2, <1>4, <1>6, AtWork, WorkerGoes
<1>8. Others(w) /\ Phase(w)' = "approve2" /\ On(w)' = j /\ New(w)' = New(w)
  BY <1>7 DEF Moves
<1>9. \A p \in Procs, c \in Requests : Keeps(p, c) => Keeps(p, c)'
  <2>1. \A c \in Requests : Keeps(w, c) => FALSE
    BY <1>2, <1>3, Kinds DEF Keeps, HandsOut
  <2> QED
    BY <2>1, <1>8, <1>6, KeepsOn, Kinds
<1>10. Tables' /\ OneAtWork' /\ DoneDelivered'
  BY <1>1, <1>2, <1>4, <1>6, <1>7, AtWork, InOrder DEF Approve, BoardInv, Tables, DoneDelivered
<1>11. Parents'
  BY <1>2, <1>3, <1>8, <1>6, InHand, Kinds, Cells DEF BoardInv, Parents, Present
<1>12. Runs'
  BY <1>2, <1>3, <1>8, <1>6, InHand, Kinds, Cells DEF BoardInv, Runs, Ended
<1>13. Standings'
  BY <1>2, <1>3, <1>8, <1>6, InHand, Kinds, Cells DEF BoardInv, Standings, Standing, Untouched
<1>14. Answering'
  BY <1>2, <1>3, <1>8, <1>6, <1>7, InHand, Kinds, Cells DEF BoardInv, Answering, TickOn, Works,
    Moves
<1>15. HandingOut'
  BY <1>2, <1>3, <1>8, <1>6, InHand, Kinds, Cells DEF BoardInv, HandingOut, HandsOut, TickOn,
    Untouched, Present
<1>16. HandingIn'
  BY <1>2, <1>3, <1>8, <1>6, InHand, Kinds, Cells DEF BoardInv, HandingIn, HandsIn, Untouched,
    Present
<1>17. UnderReview'
  BY <1>2, <1>3, <1>8, <1>6, InHand, Kinds, Cells DEF BoardInv, UnderReview, Inserting, HandsIn,
    Untouched, Present, Parents
<1>18. Reviewing'
  BY <1>2, <1>3, <1>8, <1>6, InHand, Kinds, Cells DEF BoardInv, Reviewing, Review, Untouched,
    Present, Parents, TickOn
<1>19. Integrated'
  BY <1>2, <1>3, <1>8, <1>6, InHand, Kinds, Cells DEF BoardInv, Integrated, Reported, Still,
    Present, Parents
<1>20. Kept'
  BY <1>2, <1>3, <1>8, <1>6, <1>9, InHand, Kinds, Cells DEF BoardInv, Kept, Inserting, HandsIn
<1> QED
  BY <1>7, <1>10, <1>11, <1>12, <1>13, <1>14, <1>15, <1>16, <1>17, <1>18, <1>19, <1>20 DEF BoardInv

\* acceptDelegatedDelivery, after the approval.
LEMMA AcceptStep ==
  ASSUME BoardInv, NEW w \in Workers, Accept(w), NEW j \in Reports, On(w) = j, NEW i, Of(j) = i
  PROVE  BoardInv'
<1> USE DEF RowsKept, Others, Busy
<1>1. At(w, "accept") /\ Goes(w, Rest(at[w].todo)) /\ budget' = budget
  BY DEF Accept, Then, Rest
<1>2. Phase(w) = "approve2" /\ NameOf(Rest(at[w].todo)) = "approve3"
  BY <1>1, ReviewPhases
<1>3. /\ j \in Comments /\ Present(j) /\ i \in Requests /\ i \in Comments /\ Present(i) /\ Of(j) = i
      /\ \A v \in Workers \ {w} : Busy(v) => On(v) # j
      /\ Run(j) = w /\ St(j) = "approved"
  BY <1>1, <1>2, AtWork, InReview DEF Ended, Review
<1>4. Terminal' => Terminal
  BY DEF Accept, Terminal
<1>5. Accept(w)
  OBVIOUS
<1>6. /\ msg' \in [Comments -> Row] /\ RowsKept({j}) /\ Lasting
      /\ St(j)' = St(j) /\ Of(j)' = Of(j) /\ Run(j)' = Run(j) /\ Up(j)' = Up(j) /\ (Acc(j) => Acc(j)')
  BY <1>3, <1>5, Accepting DEF BoardInv, Tables
<1>7. /\ at' \in [Procs -> Proc] /\ Moves(w, "approve3") /\ New(w)' = New(w)
      /\ WorkersAt' /\ OwnerAt' /\ TickAt'
  BY <1>1, <1>2, <1>4, <1>6, AtWork, WorkerGoes
<1>8. Others(w) /\ Phase(w)' = "approve3" /\ On(w)' = j /\ New(w)' = New(w)
  BY <1>7 DEF Moves
<1>9. \A p \in Procs, c \in Requests : Keeps(p, c) => Keeps(p, c)'
  <2>1. \A c \in Requests : Keeps(w, c) => FALSE
    BY <1>2, <1>3, Kinds DEF Keeps, HandsOut
  <2> QED
    BY <2>1, <1>8, <1>6, KeepsOn, Kinds
<1>10. Tables' /\ OneAtWork' /\ DoneDelivered'
  <2>1. Tables' /\ OneAtWork'
    BY <1>1, <1>2, <1>6, <1>7, AtWork, InOrder DEF Accept, BoardInv, Tables
  <2>2. DoneDelivered'
    <3>1. \A c \in Requests : Present(c)' => Present(c)
      BY <1>6, Kinds DEF Present
    <3>2. \A c \in Comments : St(c) = "approved" => St(c)' = "approved"
      BY <1>3, <1>6
    <3>3. \A c \in Reports : Present(c) => Of(c)' = Of(c) /\ Up(c)' = Up(c) /\ (Acc(c) => Acc(c)')
      BY <1>6, Kinds
    <3> QED
      BY <1>4, <3>1, <3>2, <3>3, Delivering DEF DoneDelivered
  <2> QED
    BY <2>1, <2>2
<1>11. Parents'
  BY <1>2, <1>3, <1>8, <1>6, InHand, Kinds, Cells DEF BoardInv, Parents, Present
<1>12. Runs'
  BY <1>2, <1>3, <1>8, <1>6, InHand, Kinds, Cells DEF BoardInv, Runs, Ended
<1>13. Standings'
  <2>1. \A c \in Requests : St(c)' = St(c) /\ Run(c)' = Run(c)
    BY <1>6, Kinds
  <2>2. \A v \in Workers : On(v)' \in Requests => On(v)' = On(v) /\ Phase(v)' = Phase(v)
    BY <1>3, <1>8, Kinds
  <2> QED
    BY <2>1, <2>2 DEF BoardInv, Standings, Standing
<1>14. Answering'
  BY <1>2, <1>3, <1>8, <1>6, <1>7, InHand, Kinds, Cells DEF BoardInv, Answering, TickOn, Works,
    Moves
<1>15. HandingOut'
  BY <1>2, <1>3, <1>8, <1>6, InHand, Kinds, Cells DEF BoardInv, HandingOut, HandsOut, TickOn,
    Untouched, Present
<1>16. HandingIn'
  BY <1>2, <1>3, <1>8, <1>6, InHand, Kinds, Cells DEF BoardInv, HandingIn, HandsIn, Untouched,
    Present
<1>17. UnderReview'
  BY <1>2, <1>3, <1>8, <1>6, InHand, Kinds, Cells DEF BoardInv, UnderReview, Inserting, HandsIn,
    Untouched, Present, Parents
<1>18. Reviewing'
  BY <1>2, <1>3, <1>8, <1>6, InHand, Kinds, Cells DEF BoardInv, Reviewing, Review, Untouched,
    Present, Parents, TickOn
<1>19. Integrated'
  BY <1>2, <1>3, <1>8, <1>6, InHand, Kinds, Cells DEF BoardInv, Integrated, Reported, Still,
    Present, Parents
<1>20. Kept'
  BY <1>2, <1>3, <1>8, <1>6, <1>9, InHand, Kinds, Cells DEF BoardInv, Kept, Inserting, HandsIn
<1> QED
  BY <1>7, <1>10, <1>11, <1>12, <1>13, <1>14, <1>15, <1>16, <1>17, <1>18, <1>19, <1>20 DEF BoardInv

\* The request of a rejected report is queued again.
LEMMA RequeueStep ==
  ASSUME BoardInv, NEW w \in Workers, Requeue(w), NEW j \in Reports, On(w) = j, NEW i, Of(j) = i
  PROVE  BoardInv'
<1> USE DEF RowsKept, Others, Busy
<1>1. At(w, "requeue") /\ Goes(w, Rest(at[w].todo)) /\ budget' = budget
  BY DEF Requeue, Then, Rest
<1>2. Phase(w) = "revise2" /\ NameOf(Rest(at[w].todo)) = "revise3"
  BY <1>1, ReviewPhases
<1>3. /\ j \in Comments /\ Present(j) /\ i \in Requests /\ i \in Comments /\ Present(i) /\ Of(j) = i
      /\ \A v \in Workers \ {w} : Busy(v) => On(v) # j
      /\ St(i) = "submitted" /\ Untouched(i) /\ ~TickOn(i) /\ Run(j) = w
      /\ \A k \in Reports : Of(k) = i => St(k) # "submitted"
  BY <1>1, <1>2, AtWork, InReview DEF Ended, Review, BoardInv, Answering
<1>4. ~Terminal /\ ~Terminal'
  BY <1>3, <1>1, NotDone DEF Requeue, Terminal
<1>5. StatusSet(i, "queued")
  BY <1>3, Marking, Kinds DEF Requeue, About, BoardInv, Tables, On, Of
<1>6. /\ msg' \in [Comments -> Row] /\ RowsKept({i}) /\ Lasting
      /\ St(i)' = "queued" /\ Of(i)' = Of(i) /\ Run(i)' = Run(i) /\ Up(i)' = Up(i) /\ Acc(i)' = Acc(i)
  BY <1>3, <1>5 DEF StatusSet
<1>7. /\ at' \in [Procs -> Proc] /\ Moves(w, "revise3") /\ New(w)' = New(w)
      /\ WorkersAt' /\ OwnerAt' /\ TickAt'
  BY <1>1, <1>2, <1>4, <1>6, AtWork, WorkerGoes
<1>8. Others(w) /\ Phase(w)' = "revise3" /\ On(w)' = j /\ New(w)' = New(w)
  BY <1>7 DEF Moves
<1>9. \A p \in Procs, c \in Requests : Keeps(p, c) => Keeps(p, c)'
  <2>1. \A c \in Requests : Keeps(w, c) => FALSE
    BY <1>2, <1>3, Kinds DEF Keeps, HandsOut
  <2> QED
    BY <2>1, <1>8, <1>6, KeepsOn, Kinds
<1>10. \A v \in Workers \ {w} : Busy(v) /\ On(v) \in Reports /\ Of(On(v)) = i => ~Works(v)
  <2>1. SUFFICES ASSUME NEW v \in Workers \ {w}, Busy(v), On(v) \in Reports, Of(On(v)) = i PROVE ~Works(v)
    OBVIOUS
  <2>2. Role(v) = Role(w) /\ Busy(w) /\ Works(w)
    BY <1>2, <2>1, Kinds DEF Role, Works
  <2> QED
    BY <2>1, <2>2 DEF BoardInv, OneAtWork
<1>11. Keeps(w, i)'
  BY <1>2, <1>3, <1>6, <1>8 DEF Keeps
<1>12. Tables' /\ OneAtWork' /\ DoneDelivered'
  BY <1>1, <1>2, <1>4, <1>6, <1>7, AtWork, InOrder DEF Requeue, BoardInv, Tables, DoneDelivered
<1>13. Parents'
  BY <1>2, <1>3, <1>8, <1>6, InHand, Kinds, Cells DEF BoardInv, Parents, Present
<1>14. Runs'
  BY <1>2, <1>3, <1>8, <1>6, InHand, Kinds, Cells DEF BoardInv, Runs, Ended
<1>15. Standings'
  BY <1>2, <1>3, <1>8, <1>6, InHand, Kinds, Cells DEF BoardInv, Standings, Standing, Untouched
<1>16. Answering'
  BY <1>2, <1>3, <1>8, <1>6, <1>7, InHand, Kinds, Cells DEF BoardInv, Answering, TickOn, Works,
    Moves
<1>17. HandingOut'
  BY <1>2, <1>3, <1>8, <1>6, InHand, Kinds, Cells DEF BoardInv, HandingOut, HandsOut, TickOn,
    Untouched, Present
<1>18. HandingIn'
  BY <1>2, <1>3, <1>8, <1>6, InHand, Kinds, Cells DEF BoardInv, HandingIn, HandsIn, Untouched,
    Present
<1>19. UnderReview'
  BY <1>2, <1>3, <1>8, <1>6, InHand, Kinds, Cells DEF BoardInv, UnderReview, Inserting, HandsIn,
    Untouched, Present, Parents
<1>20. Reviewing'
  BY <1>2, <1>3, <1>8, <1>6, <1>10, InHand, Kinds, Cells DEF BoardInv, Reviewing, Review,
    Untouched, Present, Parents, TickOn, Works
<1>21. Integrated'
  BY <1>2, <1>3, <1>8, <1>6, InHand, Kinds, Cells DEF BoardInv, Integrated, Reported, Still,
    Present, Parents
<1>22. Kept'
  BY <1>2, <1>3, <1>8, <1>6, <1>9, <1>11, InHand, Kinds, Cells DEF BoardInv, Kept, Inserting,
    HandsIn
<1> QED
  BY <1>7, <1>12, <1>13, <1>14, <1>15, <1>16, <1>17, <1>18, <1>19, <1>20, <1>21, <1>22 DEF BoardInv

\* The request of a rejected report gets its next run.
LEMMA QueueRequestStep ==
  ASSUME BoardInv, NEW w \in Workers, QueueRequest(w), NEW j \in Reports, On(w) = j,
         NEW i, Of(j) = i
  PROVE  BoardInv'
<1> USE DEF RowsKept, Others, Busy
<1>1. At(w, "queueRequest") /\ Goes(w, Rest(at[w].todo)) /\ budget' = budget
  BY DEF QueueRequest, Then, Rest
<1>2. Phase(w) = "revise3" /\ NameOf(Rest(at[w].todo)) = "end"
  BY <1>1, ReviewPhases
<1>3. /\ j \in Comments /\ Present(j) /\ i \in Requests /\ i \in Comments /\ Present(i) /\ Of(j) = i
      /\ \A v \in Workers \ {w} : Busy(v) => On(v) # j
      /\ St(i) = "queued" /\ Untouched(i) /\ ~TickOn(i) /\ Run(j) = w
      /\ \A k \in Reports : Of(k) = i => St(k) # "submitted"
  BY <1>1, <1>2, AtWork, InReview DEF Ended, Review
<1>4. ~Terminal /\ ~Terminal'
  BY <1>3, <1>1, NotDone DEF QueueRequest, Terminal
<1>5. RunSet(i, "queued")
  <2>1. About(w) = i /\ Run(i) = "none"
    BY <1>3 DEF About, On, Of, Untouched
  <2>2. msg' = Queued(msg, i)
    BY <2>1 DEF QueueRequest
  <2> QED
    BY <1>3, <1>4, <2>1, <2>2, Queueing DEF BoardInv, Tables
<1>6. /\ msg' \in [Comments -> Row] /\ RowsKept({i}) /\ Lasting
      /\ St(i)' = St(i) /\ Of(i)' = Of(i) /\ Run(i)' = "queued" /\ Up(i)' = Up(i) /\ Acc(i)' = Acc(i)
  BY <1>3, <1>5 DEF RunSet
<1>7. /\ at' \in [Procs -> Proc] /\ Moves(w, "end") /\ New(w)' = New(w)
      /\ WorkersAt' /\ OwnerAt' /\ TickAt'
  BY <1>1, <1>2, <1>4, <1>6, AtWork, WorkerGoes
<1>8. Others(w) /\ Phase(w)' = "end" /\ On(w)' = j /\ New(w)' = New(w)
  BY <1>7 DEF Moves
<1>9. \A p \in Procs, c \in Requests : Keeps(p, c) /\ c # i => Keeps(p, c)'
  <2>1. \A c \in Requests : Keeps(w, c) => c = i
    BY <1>2, <1>3, Kinds DEF Keeps, HandsOut
  <2> QED
    BY <2>1, <1>8, <1>6, KeepsOn, Kinds
<1>10. \A v \in Workers \ {w} : Busy(v) /\ On(v) \in Reports /\ Of(On(v)) = i => ~Works(v)
  <2>1. SUFFICES ASSUME NEW v \in Workers \ {w}, Busy(v), On(v) \in Reports, Of(On(v)) = i PROVE ~Works(v)
    OBVIOUS
  <2>2. Role(v) = Role(w) /\ Busy(w) /\ Works(w)
    BY <1>2, <2>1, Kinds DEF Role, Works
  <2> QED
    BY <2>1, <2>2 DEF BoardInv, OneAtWork
<1>11. Tables' /\ OneAtWork' /\ DoneDelivered'
  BY <1>1, <1>2, <1>4, <1>6, <1>7, AtWork, InOrder DEF QueueRequest, BoardInv, Tables, DoneDelivered
<1>12. Parents'
  BY <1>2, <1>3, <1>8, <1>6, InHand, Kinds, Cells DEF BoardInv, Parents, Present
<1>13. Runs'
  BY <1>2, <1>3, <1>8, <1>6, InHand, Kinds, Cells DEF BoardInv, Runs, Ended, Untouched
<1>14. Standings'
  BY <1>2, <1>3, <1>8, <1>6, InHand, Kinds, Cells DEF BoardInv, Standings, Standing, Untouched
<1>15. Answering'
  BY <1>2, <1>3, <1>8, <1>6, <1>7, InHand, Kinds, Cells DEF BoardInv, Answering, TickOn, Works,
    Moves
<1>16. HandingOut'
  BY <1>2, <1>3, <1>8, <1>6, InHand, Kinds, Cells DEF BoardInv, HandingOut, HandsOut, TickOn,
    Untouched, Present
<1>17. HandingIn'
  BY <1>2, <1>3, <1>8, <1>6, InHand, Kinds, Cells DEF BoardInv, HandingIn, HandsIn, Untouched,
    Present
<1>18. UnderReview'
  BY <1>2, <1>3, <1>8, <1>6, InHand, Kinds, Cells DEF BoardInv, UnderReview, Inserting, HandsIn,
    Untouched, Present, Parents
<1>19. Reviewing'
  BY <1>2, <1>3, <1>8, <1>6, <1>10, InHand, Kinds, Cells DEF BoardInv, Reviewing, Review,
    Untouched, Present, Parents, TickOn, Works
<1>20. Integrated'
  BY <1>2, <1>3, <1>8, <1>6, InHand, Kinds, Cells DEF BoardInv, Integrated, Reported, Still,
    Present, Parents
<1>21. Kept'
  BY <1>2, <1>3, <1>8, <1>6, <1>9, InHand, Kinds, Cells DEF BoardInv, Kept, Inserting, HandsIn
<1> QED
  BY <1>7, <1>11, <1>12, <1>13, <1>14, <1>15, <1>16, <1>17, <1>18, <1>19, <1>20, <1>21 DEF BoardInv

\* A report is addressed to the manager of its reviewer.
LEMMA EscalateStep ==
  ASSUME BoardInv, NEW w \in Workers, Escalate(w), NEW j \in Reports, On(w) = j, NEW i, Of(j) = i
  PROVE  BoardInv'
<1> USE DEF RowsKept, Others, Busy
<1>1. At(w, "escalate") /\ Goes(w, Rest(at[w].todo)) /\ budget' = budget
  BY DEF Escalate, Then, Rest
<1>2. Phase(w) = "escalate1" /\ NameOf(Rest(at[w].todo)) = "escalate2"
  BY <1>1, ReviewPhases
<1>3. /\ j \in Comments /\ Present(j) /\ i \in Requests /\ i \in Comments /\ Present(i) /\ Of(j) = i
      /\ \A v \in Workers \ {w} : Busy(v) => On(v) # j
      /\ St(j) = "submitted" /\ ~Up(j) /\ St(i) = "submitted" /\ Untouched(i) /\ ~TickOn(i)
      /\ \A k \in Reports : St(k) = "submitted" /\ Of(k) = i => k = j
      /\ Run(j) = w
  BY <1>1, <1>2, AtWork, InReview DEF Ended, Review
<1>4. ~Terminal /\ ~Terminal'
  BY <1>3, <1>1, NotDone DEF Escalate, Terminal
<1>5. Escalate(w)
  OBVIOUS
<1>6. /\ msg' \in [Comments -> Row] /\ RowsKept({j}) /\ Lasting
      /\ St(j)' = "submitted" /\ Of(j)' = Of(j) /\ Run(j)' = Run(j) /\ Up(j)' = TRUE /\ Acc(j)' = Acc(j)
  BY <1>3, <1>5, Escalating DEF BoardInv, Tables
<1>7. /\ at' \in [Procs -> Proc] /\ Moves(w, "escalate2") /\ New(w)' = New(w)
      /\ WorkersAt' /\ OwnerAt' /\ TickAt'
  BY <1>1, <1>2, <1>4, <1>6, AtWork, WorkerGoes
<1>8. Others(w) /\ Phase(w)' = "escalate2" /\ On(w)' = j /\ New(w)' = New(w)
  BY <1>7 DEF Moves
<1>9. \A p \in Procs, c \in Requests : Keeps(p, c) => Keeps(p, c)'
  <2>1. \A c \in Requests : Keeps(w, c) => FALSE
    BY <1>2, <1>3, Kinds DEF Keeps, HandsOut
  <2> QED
    BY <2>1, <1>8, <1>6, KeepsOn, Kinds
<1>10. Tables' /\ OneAtWork' /\ DoneDelivered'
  BY <1>1, <1>2, <1>4, <1>6, <1>7, AtWork, InOrder DEF Escalate, BoardInv, Tables, DoneDelivered
<1>11. Parents'
  BY <1>2, <1>3, <1>8, <1>6, InHand, Kinds, Cells DEF BoardInv, Parents, Present
<1>12. Runs'
  BY <1>2, <1>3, <1>8, <1>6, InHand, Kinds, Cells DEF BoardInv, Runs, Ended
<1>13. Standings'
  BY <1>2, <1>3, <1>8, <1>6, InHand, Kinds, Cells DEF BoardInv, Standings, Standing
<1>14. Answering'
  BY <1>2, <1>3, <1>8, <1>6, <1>7, InHand, Kinds, Cells DEF BoardInv, Answering, TickOn, Works,
    Moves
<1>15. HandingOut'
  BY <1>2, <1>3, <1>8, <1>6, InHand, Kinds, Cells DEF BoardInv, HandingOut, HandsOut, TickOn,
    Untouched, Present
<1>16. HandingIn'
  BY <1>2, <1>3, <1>8, <1>6, InHand, Kinds, Cells DEF BoardInv, HandingIn, HandsIn, Untouched,
    Present
<1>17. UnderReview'
  BY <1>2, <1>3, <1>8, <1>6, InHand, Kinds, Cells DEF BoardInv, UnderReview, Inserting, HandsIn,
    Untouched, Present, Parents
<1>18. Reviewing'
  BY <1>2, <1>3, <1>8, <1>6, InHand, Kinds, Cells DEF BoardInv, Reviewing, Review, Untouched,
    Present, Parents, TickOn
<1>19. Integrated'
  BY <1>2, <1>3, <1>8, <1>6, InHand, Kinds, Cells DEF BoardInv, Integrated, Reported, Still,
    Present, Parents
<1>20. Kept'
  BY <1>2, <1>3, <1>8, <1>6, <1>9, InHand, Kinds, Cells DEF BoardInv, Kept, Inserting, HandsIn
<1> QED
  BY <1>7, <1>10, <1>11, <1>12, <1>13, <1>14, <1>15, <1>16, <1>17, <1>18, <1>19, <1>20 DEF BoardInv

\* An escalated report still has the run of its reviewer (dispatch.ts:3031).
LEMMA QueueEscalatedStep ==
  ASSUME BoardInv, NEW w \in Workers, QueueSame(w), NEW j \in Reports, On(w) = j,
         NEW i, Of(j) = i, Phase(w) = "escalate2"
  PROVE  BoardInv'
<1> USE DEF RowsKept, Others, Busy
<1>1. At(w, "queue") /\ Goes(w, Rest(at[w].todo)) /\ budget' = budget
  BY DEF QueueSame, Then, Rest
<1>2. Phase(w) = "escalate2" /\ NameOf(Rest(at[w].todo)) = "end"
  BY <1>1, ReviewPhases
<1>3. /\ j \in Comments /\ Present(j) /\ i \in Requests /\ i \in Comments /\ Present(i) /\ Of(j) = i
      /\ \A v \in Workers \ {w} : Busy(v) => On(v) # j
      /\ St(j) = "submitted" /\ Up(j) /\ St(i) = "submitted" /\ Untouched(i) /\ ~TickOn(i)
      /\ \A k \in Reports : St(k) = "submitted" /\ Of(k) = i => k = j
      /\ Run(j) = w
  BY <1>1, <1>2, AtWork, InReview DEF Ended, Review
<1>4. ~Terminal /\ ~Terminal'
  BY <1>3, <1>1, NotDone DEF QueueSame, Terminal
<1>5. RunSet(j, w)
  BY <1>3, <1>4, Queueing, Kinds DEF QueueSame, BoardInv, Tables, On
<1>6. /\ msg' \in [Comments -> Row] /\ RowsKept({j}) /\ Lasting
      /\ St(j)' = St(j) /\ Of(j)' = Of(j) /\ Run(j)' = w /\ Up(j)' = Up(j) /\ Acc(j)' = Acc(j)
  BY <1>3, <1>5 DEF RunSet
<1>7. /\ at' \in [Procs -> Proc] /\ Moves(w, "end") /\ New(w)' = New(w)
      /\ WorkersAt' /\ OwnerAt' /\ TickAt'
  BY <1>1, <1>2, <1>4, <1>6, AtWork, WorkerGoes
<1>8. Others(w) /\ Phase(w)' = "end" /\ On(w)' = j /\ New(w)' = New(w)
  BY <1>7 DEF Moves
<1>9. \A p \in Procs, c \in Requests : Keeps(p, c) => Keeps(p, c)'
  <2>1. \A c \in Requests : Keeps(w, c) => FALSE
    BY <1>2, <1>3, Kinds DEF Keeps, HandsOut
  <2> QED
    BY <2>1, <1>8, <1>6, KeepsOn, Kinds
<1>10. Tables' /\ OneAtWork' /\ DoneDelivered'
  BY <1>1, <1>2, <1>4, <1>6, <1>7, AtWork, InOrder DEF QueueSame, BoardInv, Tables, DoneDelivered
<1>11. Parents'
  BY <1>2, <1>3, <1>8, <1>6, InHand, Kinds, Cells DEF BoardInv, Parents, Present
<1>12. Runs'
  BY <1>2, <1>3, <1>8, <1>6, InHand, Kinds, Cells DEF BoardInv, Runs, Ended
<1>13. Standings'
  BY <1>2, <1>3, <1>8, <1>6, InHand, Kinds, Cells DEF BoardInv, Standings, Standing
<1>14. Answering'
  BY <1>2, <1>3, <1>8, <1>6, <1>7, InHand, Kinds, Cells DEF BoardInv, Answering, TickOn, Works,
    Moves
<1>15. HandingOut'
  BY <1>2, <1>3, <1>8, <1>6, InHand, Kinds, Cells DEF BoardInv, HandingOut, HandsOut, TickOn,
    Untouched, Present
<1>16. HandingIn'
  BY <1>2, <1>3, <1>8, <1>6, InHand, Kinds, Cells DEF BoardInv, HandingIn, HandsIn, Untouched,
    Present
<1>17. UnderReview'
  BY <1>2, <1>3, <1>8, <1>6, InHand, Kinds, Cells DEF BoardInv, UnderReview, Inserting, HandsIn,
    Untouched, Present, Parents
<1>18. Reviewing'
  <2>1. \A k \in Reports : Run(k)' = "queued" => St(k)' = "submitted" /\ ~Up(k)'
    BY <1>3, <1>6, Kinds DEF BoardInv, Reviewing
  <2>2. ASSUME NEW v \in Workers, Busy(v)', On(v)' \in Reports PROVE Review(v)'
    <3>1. CASE v = w
      BY <3>1, <1>3, <1>6, <1>8 DEF Review
    <3>2. CASE v # w
      <4>1. Busy(v) /\ On(v) \in Reports /\ Review(v)
        BY <2>2, <3>2, <1>8, Kinds DEF BoardInv, Reviewing
      <4>2. Of(On(v)) \in Requests /\ On(v) # j
        BY <4>1, <3>2, <1>3, InHand DEF BoardInv, Parents
      <4> QED
        BY <3>2, <4>1, <4>2, <1>2, <1>3, <1>6, <1>8, Kinds DEF Review, Untouched, TickOn
    <3> QED
      BY <3>1, <3>2
  <2> QED
    BY <2>1, <2>2 DEF Reviewing
<1>19. Integrated'
  BY <1>2, <1>3, <1>8, <1>6, InHand, Kinds, Cells DEF BoardInv, Integrated, Reported, Still,
    Present, Parents
<1>20. Kept'
  BY <1>2, <1>3, <1>8, <1>6, <1>9, InHand, Kinds, Cells DEF BoardInv, Kept, Inserting, HandsIn
<1> QED
  BY <1>7, <1>10, <1>11, <1>12, <1>13, <1>14, <1>15, <1>16, <1>17, <1>18, <1>19, <1>20 DEF BoardInv

-----------------------------------------------------------------------------
(* Whoever asked is told. *)

\* continueAfterMessageReportApproval: the owner, or a delegate whose parts are all settled.
LEMMA ResumeStep ==
  ASSUME BoardInv, NEW w \in Workers, Resume(w), NEW j \in Reports, On(w) = j, NEW i, Of(j) = i
  PROVE  BoardInv'
<1> USE DEF RowsKept, Others, Busy
<1>1. At(w, "resume") /\ msg' = msg /\ card' = card /\ budget' = budget
  BY DEF Resume
<1>2. Phase(w) = "approve3" /\ at[w].todo = Approve3
  BY <1>1, AtWork, ReviewPhases, ReviewHeads, Kinds
<1>3. /\ j \in Comments /\ Present(j) /\ i \in Requests /\ i \in Comments /\ Present(i)
      /\ \A v \in Workers \ {w} : Busy(v) => On(v) # j
      /\ St(j) = "approved" /\ Run(j) = w
  BY <1>1, <1>2, AtWork, InReview DEF Ended, Review
<1>4. Terminal' => Terminal
  BY <1>1 DEF Terminal
<1>5. RowsKept({}) /\ Lasting
  BY <1>1 DEF St, Of, Run, Up, Acc, Lasting, Present
<1>6. PICK t \in ReviewWork :
        /\ Goes(w, t) /\ NameOf(t) \in {"tell", "wake1", "end"}
        /\ NameOf(t) = "wake1" => Of(i) # Owner
  <2>1. About(w) = i
    BY Kinds DEF About, On, Of
  <2>2. Tail(at[w].todo) = End
    BY <1>2, Rests DEF Rest
  <2>3. Goes(w, Told(w, i))
    BY <2>1 DEF Resume
  <2>4. Told(w, i) \in {End, Tell, Wake1} /\ (Told(w, i) = Wake1 => Of(i) # Owner)
    <3>1. End # Wake1 /\ Tell # Wake1
      BY Names
    <3>2. CASE Of(i) = Owner
      BY <2>2, <3>1, <3>2, TellLists DEF Told, Of
    <3>3. CASE Of(i) # Owner
      BY <2>2, <3>3, TellLists DEF Told, Of
    <3> QED
      BY <3>2, <3>3
  <2> QED
    BY <2>3, <2>4, Names DEF ReviewWork
<1>7. /\ at' \in [Procs -> Proc] /\ Moves(w, NameOf(t)) /\ New(w)' = New(w)
      /\ WorkersAt' /\ OwnerAt' /\ TickAt'
  BY <1>1, <1>4, <1>5, <1>6, AtWork, WorkerGoes, Kinds
<1>8. /\ Others(w) /\ Phase(w)' \in {"tell", "wake1", "end"} /\ On(w)' = j /\ New(w)' = New(w)
      /\ Phase(w)' = "wake1" => Of(i) # Owner
  BY <1>6, <1>7 DEF Moves
<1>9. \A p \in Procs, c \in Requests : Keeps(p, c) => Keeps(p, c)'
  <2>1. \A c \in Requests : ~Keeps(w, c)
    BY <1>2, <1>3, Kinds DEF Keeps, HandsOut
  <2> QED
    BY <2>1, <1>8, <1>5, KeepsOn, Kinds
<1>10. Tables' /\ OneAtWork' /\ DoneDelivered'
  <2>1. Tables' /\ OneAtWork'
    BY <1>1, <1>2, <1>5, <1>6, <1>7, AtWork, InOrder DEF BoardInv, Tables
  <2>2. DoneDelivered'
    BY <1>1, <1>4 DEF BoardInv, DoneDelivered, Delivered, Delivers, Present, St
  <2> QED
    BY <2>1, <2>2
<1>11. Parents'
  BY <1>2, <1>3, <1>8, <1>5, InHand, Kinds, Cells DEF BoardInv, Parents, Present
<1>12. Runs'
  BY <1>2, <1>3, <1>8, <1>5, InHand, Kinds, Cells DEF BoardInv, Runs, Ended
<1>13. Standings'
  BY <1>2, <1>3, <1>8, <1>5, InHand, Kinds, Cells DEF BoardInv, Standings, Standing
<1>14. Answering'
  BY <1>2, <1>3, <1>8, <1>5, <1>7, InHand, Kinds, Cells DEF BoardInv, Answering, TickOn, Works,
    Moves
<1>15. HandingOut'
  BY <1>2, <1>3, <1>8, <1>5, InHand, Kinds, Cells DEF BoardInv, HandingOut, HandsOut, TickOn,
    Untouched, Present
<1>16. HandingIn'
  BY <1>2, <1>3, <1>8, <1>5, InHand, Kinds, Cells DEF BoardInv, HandingIn, HandsIn, Untouched,
    Present
<1>17. UnderReview'
  BY <1>2, <1>3, <1>8, <1>5, InHand, Kinds, Cells DEF BoardInv, UnderReview, Inserting, HandsIn,
    Untouched, Present, Parents
<1>18. Reviewing'
  BY <1>2, <1>3, <1>8, <1>5, InHand, Kinds, Cells DEF BoardInv, Reviewing, Review, Untouched,
    Present, Parents, TickOn
<1>19. Integrated'
  BY <1>2, <1>3, <1>8, <1>5, InHand, Kinds, Cells DEF BoardInv, Integrated, Reported, Still,
    Present, Parents
<1>20. Kept'
  BY <1>2, <1>3, <1>8, <1>5, <1>9, InHand, Kinds, Cells DEF BoardInv, Kept, Inserting, HandsIn
<1> QED
  BY <1>7, <1>10, <1>11, <1>12, <1>13, <1>14, <1>15, <1>16, <1>17, <1>18, <1>19, <1>20 DEF BoardInv

\* The delegate whose part was approved is queued again.
LEMMA WakeParentStep ==
  ASSUME BoardInv, NEW w \in Workers, WakeParent(w), NEW j \in Reports, On(w) = j,
         NEW i, Of(j) = i, NEW h, Of(i) = h
  PROVE  BoardInv'
<1> USE DEF RowsKept, Others, Busy
<1>1. At(w, "wakeParent") /\ Goes(w, Rest(at[w].todo)) /\ card' = card /\ budget' = budget
  BY DEF WakeParent, Then, Rest
<1>2. Phase(w) = "wake1" /\ NameOf(Rest(at[w].todo)) = "wake2"
  BY <1>1, ReviewPhases
<1>3. /\ j \in Comments /\ Present(j) /\ i \in Requests /\ i \in Comments /\ Present(i)
      /\ \A v \in Workers \ {w} : Busy(v) => On(v) # j
      /\ St(j) = "approved" /\ Run(j) = w
      /\ h \in Requests /\ h \in Comments /\ Present(h) /\ ~Reported(h)
      /\ St(h) \in {"queued", "running", "waiting", "failed"}
      /\ \A v \in Workers : Busy(v) /\ On(v) = h => Phase(v) \in {"start", "call"}
      /\ \A r \in Reports : Of(r) = h => St(r) # "submitted"
      /\ \A v \in Workers : On(v) \in Reports /\ Of(On(v)) = h => Phase(v) \notin {"revise2", "revise3"}
      /\ Run(h) = "none" => Untouched(h) /\ St(h) # "running"
  BY <1>1, <1>2, AtWork, InReview, InWake DEF Ended, Review, Works
<1>4. ~Terminal /\ ~Terminal'
  BY <1>1, <1>2, InWake DEF Terminal
<1>5. StatusSet(h, "queued")
  <2>1. About(w) = i /\ msg[About(w)].of = h
    BY Kinds DEF About, On, Of
  <2> QED
    BY <2>1, <1>3, <1>4, Marking DEF WakeParent, BoardInv, Tables
<1>6. /\ msg' \in [Comments -> Row] /\ RowsKept({h}) /\ Lasting
      /\ St(h)' = "queued" /\ Of(h)' = Of(h) /\ Run(h)' = Run(h) /\ Up(h)' = Up(h) /\ Acc(h)' = Acc(h)
  BY <1>3, <1>5 DEF RunSet, StatusSet
<1>7. /\ at' \in [Procs -> Proc] /\ Moves(w, "wake2") /\ New(w)' = New(w)
      /\ WorkersAt' /\ OwnerAt' /\ TickAt'
  BY <1>1, <1>2, <1>4, <1>6, AtWork, WorkerGoes
<1>8. Others(w) /\ Phase(w)' = "wake2" /\ On(w)' = j /\ New(w)' = New(w)
  BY <1>7 DEF Moves
<1>9. \A p \in Procs, c \in Requests : Keeps(p, c) /\ c # h => Keeps(p, c)'
  <2>1. \A c \in Requests : Keeps(w, c) => c = h
    BY <1>2, <1>3, Kinds DEF Keeps, HandsOut
  <2> QED
    BY <2>1, <1>8, <1>6, KeepsOn, Kinds
<1>10. Keeps(w, h)'
  BY <1>2, <1>3, <1>6, <1>8 DEF Keeps
<1>11. Tables' /\ OneAtWork' /\ DoneDelivered'
  BY <1>1, <1>2, <1>4, <1>6, <1>7, AtWork, InOrder DEF BoardInv, Tables, DoneDelivered
<1>12. Parents'
  BY <1>2, <1>3, <1>8, <1>6, InHand, Kinds, Cells DEF BoardInv, Parents, Present
<1>13. Runs'
  BY <1>2, <1>3, <1>8, <1>6, InHand, Kinds, Cells DEF BoardInv, Runs, Ended
<1>14. Standings'
  BY <1>2, <1>3, <1>8, <1>6, InHand, Kinds, Cells DEF BoardInv, Standings, Standing, Untouched
<1>15. Answering'
  BY <1>2, <1>3, <1>8, <1>6, <1>7, InHand, Kinds, Cells DEF BoardInv, Answering, TickOn, Works,
    Moves
<1>16. HandingOut'
  BY <1>2, <1>3, <1>8, <1>6, InHand, Kinds, Cells DEF BoardInv, HandingOut, HandsOut, TickOn,
    Untouched, Present
<1>17. HandingIn'
  BY <1>2, <1>3, <1>8, <1>6, InHand, Kinds, Cells DEF BoardInv, HandingIn, HandsIn, Untouched,
    Present
<1>18. UnderReview'
  BY <1>2, <1>3, <1>8, <1>6, InHand, Kinds, Cells DEF BoardInv, UnderReview, Inserting, HandsIn,
    Untouched, Present, Parents
<1>19. Reviewing'
  BY <1>2, <1>3, <1>8, <1>6, InHand, Kinds, Cells DEF BoardInv, Reviewing, Review, Untouched,
    Present, Parents, TickOn
<1>20. Integrated'
  BY <1>2, <1>3, <1>8, <1>6, InHand, Kinds, Cells DEF BoardInv, Integrated, Reported, Still,
    Present, Parents, Works
<1>21. Kept'
  BY <1>2, <1>3, <1>8, <1>6, <1>9, <1>10, InHand, Kinds, Cells DEF BoardInv, Kept, Inserting,
    HandsIn
<1> QED
  BY <1>7, <1>11, <1>12, <1>13, <1>14, <1>15, <1>16, <1>17, <1>18, <1>19, <1>20, <1>21 DEF BoardInv

\* The delegate whose part was approved gets its next run.
LEMMA QueueParentStep ==
  ASSUME BoardInv, NEW w \in Workers, QueueParent(w), NEW j \in Reports, On(w) = j,
         NEW i, Of(j) = i, NEW h, Of(i) = h
  PROVE  BoardInv'
<1> USE DEF RowsKept, Others, Busy
<1>1. At(w, "queueParent") /\ Goes(w, Rest(at[w].todo)) /\ card' = card /\ budget' = budget
  BY DEF QueueParent, Then, Rest
<1>2. Phase(w) = "wake2" /\ NameOf(Rest(at[w].todo)) = "end"
  BY <1>1, ReviewPhases
<1>3. /\ j \in Comments /\ Present(j) /\ i \in Requests /\ i \in Comments /\ Present(i)
      /\ \A v \in Workers \ {w} : Busy(v) => On(v) # j
      /\ St(j) = "approved" /\ Run(j) = w
      /\ h \in Requests /\ h \in Comments /\ Present(h) /\ ~Reported(h)
      /\ St(h) \in {"queued", "running", "waiting", "failed"}
      /\ \A v \in Workers : Busy(v) /\ On(v) = h => Phase(v) \in {"start", "call"}
      /\ \A r \in Reports : Of(r) = h => St(r) # "submitted"
      /\ \A v \in Workers : On(v) \in Reports /\ Of(On(v)) = h => Phase(v) \notin {"revise2", "revise3"}
      /\ Run(h) = "none" => Untouched(h) /\ St(h) # "running"
  BY <1>1, <1>2, AtWork, InReview, InWake DEF Ended, Review, Works
<1>4. ~Terminal /\ ~Terminal'
  BY <1>1, <1>2, InWake DEF Terminal
<1>5. RunSet(h, IF Run(h) = "none" THEN "queued" ELSE Run(h))
  <2>1. About(w) = i /\ msg[About(w)].of = h
    BY Kinds DEF About, On, Of
  <2> QED
    BY <2>1, <1>3, <1>4, Queueing DEF QueueParent, BoardInv, Tables
<1>6. /\ msg' \in [Comments -> Row] /\ RowsKept({h}) /\ Lasting
      /\ St(h)' = St(h) /\ Of(h)' = Of(h)
           /\ Run(h)' = (IF Run(h) = "none" THEN "queued" ELSE Run(h)) /\ Up(h)' = Up(h) /\ Acc(h)' = Acc(h)
  BY <1>3, <1>5 DEF RunSet, StatusSet
<1>7. /\ at' \in [Procs -> Proc] /\ Moves(w, "end") /\ New(w)' = New(w)
      /\ WorkersAt' /\ OwnerAt' /\ TickAt'
  BY <1>1, <1>2, <1>4, <1>6, AtWork, WorkerGoes
<1>8. Others(w) /\ Phase(w)' = "end" /\ On(w)' = j /\ New(w)' = New(w)
  BY <1>7 DEF Moves
<1>9. \A p \in Procs, c \in Requests : Keeps(p, c) /\ c # h => Keeps(p, c)'
  <2>1. \A c \in Requests : Keeps(w, c) => c = h
    BY <1>2, <1>3, Kinds DEF Keeps, HandsOut
  <2> QED
    BY <2>1, <1>8, <1>6, KeepsOn, Kinds
<1>10. Tables' /\ OneAtWork' /\ DoneDelivered'
  BY <1>1, <1>2, <1>4, <1>6, <1>7, AtWork, InOrder DEF BoardInv, Tables, DoneDelivered
<1>11. Parents'
  BY <1>2, <1>3, <1>8, <1>6, InHand, Kinds, Cells DEF BoardInv, Parents, Present
<1>12. Runs'
  BY <1>2, <1>3, <1>8, <1>6, InHand, Kinds, Cells DEF BoardInv, Runs, Ended, Untouched
<1>13. Standings'
  BY <1>2, <1>3, <1>8, <1>6, InHand, Kinds, Cells DEF BoardInv, Standings, Standing, Untouched
<1>14. Answering'
  BY <1>2, <1>3, <1>8, <1>6, <1>7, InHand, Kinds, Cells DEF BoardInv, Answering, TickOn, Works,
    Moves
<1>15. HandingOut'
  BY <1>2, <1>3, <1>8, <1>6, InHand, Kinds, Cells DEF BoardInv, HandingOut, HandsOut, TickOn,
    Untouched, Present
<1>16. HandingIn'
  BY <1>2, <1>3, <1>8, <1>6, InHand, Kinds, Cells DEF BoardInv, HandingIn, HandsIn, Untouched,
    Present
<1>17. UnderReview'
  BY <1>2, <1>3, <1>8, <1>6, InHand, Kinds, Cells DEF BoardInv, UnderReview, Inserting, HandsIn,
    Untouched, Present, Parents
<1>18. Reviewing'
  BY <1>2, <1>3, <1>8, <1>6, InHand, Kinds, Cells DEF BoardInv, Reviewing, Review, Untouched,
    Present, Parents, TickOn
<1>19. Integrated'
  BY <1>2, <1>3, <1>8, <1>6, InHand, Kinds, Cells DEF BoardInv, Integrated, Reported, Still,
    Present, Parents
<1>20. Kept'
  BY <1>2, <1>3, <1>8, <1>6, <1>9, InHand, Kinds, Cells DEF BoardInv, Kept, Inserting, HandsIn
<1> QED
  BY <1>7, <1>10, <1>11, <1>12, <1>13, <1>14, <1>15, <1>16, <1>17, <1>18, <1>19, <1>20 DEF BoardInv

-----------------------------------------------------------------------------
(* A run from its claim to the answer of the agent. *)

\* The bounds are spent, one at a time; whether requests may expire stays as it is.
LEMMA Spending ==
  ASSUME budget \in BudgetOf
  PROVE  /\ \A what \in {"fail", "revise", "escalate", "progress", "ask", "crash"} :
              Spend(what) => budget' \in BudgetOf /\ budget'.expire = budget.expire
         /\ Spend("round") => budget' \in BudgetOf /\ budget'.expire = budget.expire
<1>1. ASSUME NEW what \in {"fail", "revise", "escalate", "progress", "ask", "crash"}, Spend(what)
      PROVE  budget' \in BudgetOf /\ budget'.expire = budget.expire
  <2>1. budget[what] \in Nat /\ budget[what] > 0 /\ budget' = [budget EXCEPT ![what] = budget[what] - 1]
    BY <1>1 DEF Spend, BudgetOf
  <2>2. budget[what] - 1 \in Nat
    BY <2>1
  <2> QED
    BY <1>1, <2>1, <2>2 DEF BudgetOf
<1>2. ASSUME Spend("round") PROVE budget' \in BudgetOf /\ budget'.expire = budget.expire
  <2>1. /\ budget.round \in 0 .. MaxRounds /\ budget.round > 0
        /\ budget' = [budget EXCEPT !.round = budget.round - 1]
    BY <1>2 DEF Spend, BudgetOf
  <2>2. budget.round - 1 \in 0 .. MaxRounds
    BY <2>1, BoardAssumption
  <2> QED
    BY <2>1, <2>2 DEF BudgetOf
<1> QED
  BY <1>1, <1>2

\* A worker has taken row c in hand, or called its agent.
LEMMA Taking ==
  ASSUME BoardInv, NEW w \in Workers, NEW c \in Comments, Present(c), NEW r \in Proc,
         at' = [at EXCEPT ![w] = r], r.pc \in {"start", "call"}, r.on = c,
         Lasting, Terminal' => Terminal
  PROVE  /\ at' \in [Procs -> Proc] /\ Others(w) /\ Phase(w)' = r.pc /\ On(w)' = c
         /\ \A q \in Procs, p \in Procs : q # w /\ Outlasts(q, p) => Outlasts(q, p)'
         /\ \A p \in r.behind : Outlasts(w, p)'
         /\ WorkersAt' /\ OwnerAt' /\ TickAt'
<1>1. w \in Procs /\ at \in [Procs -> Proc]
  BY Kinds DEF BoardInv, Tables
<1>2. /\ at' \in [Procs -> Proc] /\ at'[w].pc = r.pc /\ at'[w].on = c /\ at'[w].behind = r.behind
      /\ \A q \in Procs \ {w} : at'[q] = at[q]
  BY <1>1
<1>3. WorkersAt'
  <2>1. SUFFICES ASSUME NEW v \in Workers
                 PROVE  /\ at'[v].pc # "idle" => On(v)' \in Comments /\ Present(On(v))'
                        /\ at'[v].pc = "work" /\ On(v)' \in Requests => at'[v].todo \in RequestWork
                        /\ at'[v].pc = "work" /\ On(v)' \in Reports => at'[v].todo \in ReviewWork
    BY DEF WorkersAt
  <2>2. CASE v = w
    BY <2>2, <1>2 DEF Lasting, On
  <2>3. CASE v # w
    <3>1. at'[v] = at[v] /\ On(v)' = On(v)
      BY <2>3, <1>2, Kinds DEF On
    <3>2. at[v].pc # "idle" => On(v) \in Comments /\ Present(On(v))
      BY DEF BoardInv, WorkersAt
    <3> QED
      BY <3>1, <3>2 DEF BoardInv, WorkersAt, Lasting
  <2> QED
    BY <2>2, <2>3
<1>4. OwnerAt' /\ TickAt'
  BY <1>2, Kinds DEF BoardInv, OwnerAt, TickAt, Busy, Phase, On
<1> QED
  BY <1>2, <1>3, <1>4 DEF Others, Phase, On, New, Outlasts

\* A worker takes a run of an agent that is not busy (claimNextTaskRun).
LEMMA ClaimStep ==
  ASSUME BoardInv, NEW w \in Workers, NEW c \in Comments, Claim(w, c)
  PROVE  BoardInv'
<1> USE DEF RowsKept, Others, Busy
<1>1. /\ Phase(w) = "idle" /\ Run(c) = "queued" /\ Agent(c) \notin BusyAgents
      /\ card' = card /\ budget' = budget
  BY DEF Claim, Phase, Run
<1>2. /\ c \in Requests => St(c) \in {"queued", "waiting", "failed"}
      /\ c \in Reports => St(c) = "submitted" /\ ~Up(c)
  BY <1>1 DEF BoardInv, Standings, Reviewing
<1>3. /\ Present(c) /\ (\A v \in Workers : Busy(v) => On(v) # c)
      /\ (c \in Reports => Of(c) \in Requests /\ St(Of(c)) = "submitted" /\ Untouched(Of(c)))
  <2>1. Present(c)
    BY <1>2, Kinds DEF Present
  <2>2. \A v \in Workers : Busy(v) => On(v) # c
    BY <1>1, Kinds DEF BoardInv, Runs
  <2>3. c \in Reports => ~Inserting(c)
    BY <1>1 DEF BoardInv, HandingIn, Inserting, Untouched
  <2> QED
    BY <1>2, <2>1, <2>2, <2>3 DEF BoardInv, UnderReview, Parents
<1>4. ~(Terminal /\ ~(c \in Reports /\ msg[c].status = "submitted")) /\ (Terminal' => Terminal)
  <2>1. c \in Requests => ~Terminal
    BY <1>2, <1>3, NotDone
  <2> QED
    BY <1>1, <1>2, <2>1, Kinds DEF St, Terminal
<1>5. RunSet(c, w)
  <2>1. msg' = [msg EXCEPT ![c].run = w]
    BY <1>4 DEF Claim
  <2> QED
    BY <2>1, SettingRun DEF BoardInv, Tables
<1>6. /\ msg' \in [Comments -> Row] /\ RowsKept({c}) /\ Lasting
      /\ St(c)' = St(c) /\ Of(c)' = Of(c) /\ Run(c)' = w /\ Up(c)' = Up(c) /\ Acc(c)' = Acc(c)
  BY <1>5 DEF RunSet
<1>7. /\ at' \in [Procs -> Proc] /\ Others(w) /\ Phase(w)' = "start" /\ On(w)' = c
      /\ \A q \in Procs, p \in Procs : q # w /\ Outlasts(q, p) => Outlasts(q, p)'
      /\ WorkersAt' /\ OwnerAt' /\ TickAt'
  <2>1. PICK r : r = [Idle EXCEPT !.pc = "start", !.on = c]
    OBVIOUS
  <2>2. r \in Proc /\ r.pc = "start" /\ r.on = c
    BY <2>1, Kinds DEF Idle, Proc, Lists, Owner
  <2>3. at' = [at EXCEPT ![w] = r]
    BY <2>1, <1>4 DEF Claim
  <2> QED
    BY <2>2, <2>3, <1>3, <1>4, <1>6, Taking
<1>8. \A v \in Workers : Busy(v) => Busy(v)' /\ Role(v)' = Role(v)
  <2>1. SUFFICES ASSUME NEW v \in Workers, Busy(v) PROVE Busy(v)' /\ Role(v)' = Role(v)
    OBVIOUS
  <2>2. v # w /\ On(v) \in Comments /\ Present(On(v))
    BY <1>1, <2>1, InHand
  <2>3. On(v) \in Reports => Of(On(v)) \in Requests /\ Present(Of(On(v)))
    BY <2>2 DEF BoardInv, Parents
  <2> QED
    BY <2>1, <2>2, <2>3, <1>6, <1>7, Kinds DEF Role, Lasting
<1>9. OneAtWork'
  <2>1. Role(w)' = Agent(c)
    BY <1>2, <1>3, <1>6, <1>7, Kinds DEF Role, Agent, Of, Up, Lasting
  <2>2. ASSUME NEW v \in Workers, Busy(v), Role(v) = Role(w)' PROVE Works(v)
    <3>1. SUFFICES ASSUME ~Works(v) PROVE FALSE
      OBVIOUS
    <3>2. at[v].pc \in {"start", "call"} /\ Phase(v) \in {"start", "call"}
      BY <2>2, <3>1, PhaseOf, Kinds DEF Works, Phase
    <3>3. On(v) \in Comments /\ (On(v) \in Reports => ~Up(On(v)))
      BY <2>2, <3>2, InHand DEF BoardInv, Reviewing, Review
    <3>4. Agent(On(v)) = Role(v)
      BY <3>3, Kinds DEF Agent, Role, Of, Up
    <3>5. Agent(On(v)) \in BusyAgents
      BY <3>2 DEF BusyAgents, On
    <3> QED
      BY <1>1, <2>1, <2>2, <3>4, <3>5
  <2>3. \A v \in Workers : v # w => Phase(v)' = Phase(v) /\ Works(v)' = Works(v) /\ Busy(v)' = Busy(v)
    BY <1>7, Kinds DEF Works
  <2>4. \A v \in Workers, u \in Workers : v # w /\ Outlasts(v, u) => Outlasts(v, u)'
    BY <1>7, Kinds
  <2>5. ~Works(w)' /\ Phase(w)' = "start"
    BY <1>7 DEF Works
  <2>6. OneAtWork
    BY DEF BoardInv
  <2>7. SUFFICES ASSUME NEW v \in Workers, NEW u \in Workers,
                        v # u /\ Busy(v)' /\ Busy(u)' /\ Role(v)' = Role(u)'
                 PROVE  /\ Works(v)' => ~Works(u)'
                        /\ Works(v)' /\ Phase(u)' = "call" => Outlasts(u, v)'
                        /\ Works(v)' \/ Works(u)'
    BY DEF OneAtWork
  <2>8. CASE v = w
    BY <2>8, <2>7, <2>2, <2>3, <2>5, <1>8
  <2>9. CASE u = w
    BY <2>9, <2>7, <2>2, <2>3, <2>5, <1>8
  <2>10. CASE v # w /\ u # w
    BY <2>10, <2>7, <2>3, <2>4, <2>6, <1>8 DEF OneAtWork
  <2> QED
    BY <2>8, <2>9, <2>10
<1>10. \A p \in Procs, d \in Requests : Keeps(p, d) => Keeps(p, d)'
  <2>1. \A d \in Requests : ~Keeps(w, d)
    BY <1>1 DEF Keeps, HandsOut
  <2> QED
    BY <2>1, <1>7, <1>6, KeepsOn, Kinds
<1>11. Tables' /\ OneAtWork' /\ DoneDelivered'
  <2>1. Tables'
    BY <1>1, <1>6, <1>7 DEF BoardInv, Tables
  <2>2. DoneDelivered'
    <3>1. \A d \in Requests : Present(d)' => Present(d)
      BY <1>6, Kinds DEF Present
    <3>2. \A d \in Comments : St(d) = "approved" => St(d)' = "approved"
      BY <1>6
    <3>3. \A d \in Reports : Present(d) => Of(d)' = Of(d) /\ Up(d)' = Up(d) /\ (Acc(d) => Acc(d)')
      BY <1>6, Kinds
    <3> QED
      BY <1>4, <3>1, <3>2, <3>3, Delivering DEF DoneDelivered
  <2> QED
    BY <2>1, <2>2, <1>9
<1>12. Parents'
  BY <1>1, <1>2, <1>3, <1>6, <1>7, InHand, Kinds, Cells DEF BoardInv, Parents, Present
<1>13. Runs'
  BY <1>1, <1>2, <1>3, <1>6, <1>7, InHand, Kinds, Cells DEF BoardInv, Runs, Ended
<1>14. Standings'
  BY <1>1, <1>2, <1>3, <1>6, <1>7, InHand, Kinds, Cells DEF BoardInv, Standings, Standing
<1>15. Answering'
  BY <1>1, <1>2, <1>3, <1>6, <1>7, InHand, Kinds, Cells DEF BoardInv, Answering, TickOn, Works,
    Moves
<1>16. HandingOut'
  BY <1>1, <1>2, <1>3, <1>6, <1>7, InHand, Kinds, Cells DEF BoardInv, HandingOut, HandsOut,
    TickOn, Untouched, Present
<1>17. HandingIn'
  BY <1>1, <1>2, <1>3, <1>6, <1>7, InHand, Kinds, Cells DEF BoardInv, HandingIn, HandsIn,
    Untouched, Present
<1>18. UnderReview'
  BY <1>1, <1>2, <1>3, <1>6, <1>7, InHand, Kinds, Cells DEF BoardInv, UnderReview, Inserting,
    HandsIn, Untouched, Present, Parents
<1>19. Reviewing'
  BY <1>1, <1>2, <1>3, <1>6, <1>7, InHand, Kinds, Cells DEF BoardInv, Reviewing, Review,
    Untouched, Present, Parents, TickOn
<1>20. Integrated'
  BY <1>1, <1>2, <1>3, <1>6, <1>7, InHand, Kinds, Cells DEF BoardInv, Integrated, Reported, Still,
    Present, Parents
<1>21. Kept'
  BY <1>1, <1>2, <1>3, <1>6, <1>7, <1>10, InHand, Kinds, Cells DEF BoardInv, Kept, Inserting,
    HandsIn
<1> QED
  BY <1>7, <1>11, <1>12, <1>13, <1>14, <1>15, <1>16, <1>17, <1>18, <1>19, <1>20, <1>21 DEF BoardInv

\* The agent of a request is called; the request is running.
LEMMA StartRequestStep ==
  ASSUME BoardInv, NEW w \in Workers, Start(w), NEW c \in Requests, On(w) = c
  PROVE  BoardInv'
<1> USE DEF RowsKept, Others, Busy
<1>1. Phase(w) = "start"
  BY DEF Start, Phase
<1>2. /\ c \in Comments /\ Present(c) /\ Run(c) = w /\ St(c) \in {"queued", "waiting", "failed"}
      /\ \A v \in Workers \ {w} : Busy(v) => On(v) # c
  BY <1>1, InHand, Alone, Kinds DEF BoardInv, Standings, Standing, Runs, Ended
<1>3. ~Terminal /\ ~Terminal'
  <2>1. ~Terminal
    BY <1>2, NotDone
  <2> QED
    BY <2>1 DEF Start, Terminal
<1>4. Phase(w) = "start" /\ card' = card /\ budget' = budget
  BY <1>1, <1>3 DEF Start
<1>5. msg' = Marked(msg, c, "running") /\ StatusSet(c, "running")
  <2>1. msg' = Marked(msg, c, "running")
    BY <1>3 DEF Start, On
  <2> QED
    BY <2>1, <1>2, Marking DEF BoardInv, Tables
<1>6. /\ msg' \in [Comments -> Row] /\ RowsKept({c}) /\ Lasting
      /\ St(c)' = "running" /\ Of(c)' = Of(c) /\ Run(c)' = Run(c) /\ Up(c)' = Up(c) /\ Acc(c)' = Acc(c)
  BY <1>5 DEF StatusSet
<1>7. /\ at' \in [Procs -> Proc] /\ Others(w) /\ Phase(w)' = "call" /\ On(w)' = c
      /\ \A q \in Procs, p \in Procs : q # w /\ Outlasts(q, p) => Outlasts(q, p)'
      /\ \A p \in Procs : Works(p) => Outlasts(w, p)'
      /\ WorkersAt' /\ OwnerAt' /\ TickAt'
  <2>1. PICK r : r = [Idle EXCEPT !.pc = "call", !.on = c, !.settled = Terminal,
                                  !.behind = {q \in Procs \ {w} : at[q].pc = "work"}]
    OBVIOUS
  <2>2. r \in Proc /\ r.pc = "call" /\ r.on = c /\ r.behind = {q \in Procs \ {w} : at[q].pc = "work"}
    BY <2>1, Kinds DEF Idle, Proc, Lists, Owner, Terminal
  <2>3. at' = [at EXCEPT ![w] = r]
    BY <2>1, <1>3 DEF Start, Calls, On
  <2>4. \A p \in Procs : Works(p) => p \in r.behind
    BY <2>2, <1>4, PhaseOf DEF Works
  <2> QED
    BY <2>2, <2>3, <2>4, <1>2, <1>3, <1>6, Taking
<1>8. \A v \in Workers : Busy(v) => Busy(v)' /\ Role(v)' = Role(v)
  <2>1. SUFFICES ASSUME NEW v \in Workers, Busy(v) PROVE Busy(v)' /\ Role(v)' = Role(v)
    OBVIOUS
  <2>2. On(v) \in Comments /\ Present(On(v))
    BY <2>1, InHand
  <2>3. On(v) \in Reports => Of(On(v)) \in Requests /\ Present(Of(On(v)))
    BY <2>2 DEF BoardInv, Parents
  <2> QED
    BY <2>1, <2>2, <2>3, <1>6, <1>7, Kinds DEF Role, Lasting
<1>9. OneAtWork'
  <2>1. OneAtWork /\ Busy(w) /\ ~Works(w) /\ ~Works(w)'
    BY <1>4, <1>7 DEF BoardInv, Works
  <2>2. \A v \in Workers : v # w => Phase(v)' = Phase(v) /\ Works(v)' = Works(v) /\ Busy(v)' = Busy(v)
    BY <1>7, Kinds DEF Works
  <2>3. \A v \in Workers, u \in Workers : v # w /\ Outlasts(v, u) => Outlasts(v, u)'
    BY <1>7, Kinds
  <2>4. \A v \in Workers : Works(v) => Outlasts(w, v)'
    BY <1>7, Kinds
  <2> QED
    BY <2>1, <2>2, <2>3, <2>4, <1>7, <1>8 DEF OneAtWork
<1>10. \A p \in Procs, d \in Requests : Keeps(p, d) => Keeps(p, d)'
  <2>1. \A d \in Requests : ~Keeps(w, d)
    BY <1>4, Kinds DEF Keeps, HandsOut
  <2> QED
    BY <2>1, <1>7, <1>6, KeepsOn, Kinds
<1>11. Tables' /\ OneAtWork' /\ DoneDelivered'
  <2>1. Tables'
    BY <1>4, <1>5, <1>6, <1>7 DEF BoardInv, Tables
  <2>2. DoneDelivered'
    BY <1>4, <1>3, <1>5 DEF BoardInv, DoneDelivered, Delivered, Delivers, Present, St, Terminal
  <2> QED
    BY <2>1, <2>2, <1>9
<1>12. Parents'
  BY <1>4, <1>2, <1>6, <1>7, InHand, Kinds, Cells DEF BoardInv, Parents, Present
<1>13. Runs'
  BY <1>4, <1>2, <1>6, <1>7, InHand, Kinds, Cells DEF BoardInv, Runs, Ended
<1>14. Standings'
  BY <1>4, <1>2, <1>6, <1>7, InHand, Kinds, Cells DEF BoardInv, Standings, Standing
<1>15. Answering'
  BY <1>4, <1>2, <1>6, <1>7, InHand, Kinds, Cells DEF BoardInv, Answering, TickOn, Works, Moves,
    Outlasts
<1>16. HandingOut'
  BY <1>4, <1>2, <1>6, <1>7, InHand, Kinds, Cells DEF BoardInv, HandingOut, HandsOut, TickOn,
    Untouched, Present
<1>17. HandingIn'
  BY <1>4, <1>2, <1>6, <1>7, InHand, Kinds, Cells DEF BoardInv, HandingIn, HandsIn, Untouched,
    Present
<1>18. UnderReview'
  BY <1>4, <1>2, <1>6, <1>7, InHand, Kinds, Cells DEF BoardInv, UnderReview, Inserting, HandsIn,
    Untouched, Present, Parents
<1>19. Reviewing'
  BY <1>4, <1>2, <1>6, <1>7, InHand, Kinds, Cells DEF BoardInv, Reviewing, Review, Untouched,
    Present, Parents, TickOn
<1>20. Integrated'
  BY <1>4, <1>2, <1>6, <1>7, InHand, Kinds, Cells DEF BoardInv, Integrated, Reported, Still,
    Present, Parents
<1>21. Kept'
  BY <1>4, <1>2, <1>6, <1>7, <1>10, InHand, Kinds, Cells DEF BoardInv, Kept, Inserting, HandsIn
<1> QED
  BY <1>7, <1>11, <1>12, <1>13, <1>14, <1>15, <1>16, <1>17, <1>18, <1>19, <1>20, <1>21 DEF BoardInv

\* The agent of a reviewer is called.
LEMMA StartReviewStep ==
  ASSUME BoardInv, NEW w \in Workers, Start(w), NEW c \in Reports, On(w) = c
  PROVE  BoardInv'
<1> USE DEF RowsKept, Others, Busy
<1>1. Phase(w) = "start" /\ card' = card /\ budget' = budget
  BY Kinds DEF Start, Phase, On
<1>2. /\ c \in Comments /\ Present(c) /\ Run(c) = w /\ St(c) = "submitted" /\ ~Up(c)
      /\ \A v \in Workers \ {w} : Busy(v) => On(v) # c
  BY <1>1, InHand, Alone, Kinds DEF BoardInv, Reviewing, Review, Runs, Ended
<1>3. ~(Terminal /\ c \in Requests) /\ (Terminal' => Terminal)
  BY <1>1, Kinds DEF Terminal
<1>4. msg' = msg
  BY <1>3, Kinds DEF Start, On
<1>5. RowsKept({}) /\ Lasting
  BY <1>4 DEF St, Of, Run, Up, Acc, Lasting, Present
<1>6. /\ at' \in [Procs -> Proc] /\ Others(w) /\ Phase(w)' = "call" /\ On(w)' = c
      /\ \A q \in Procs, p \in Procs : q # w /\ Outlasts(q, p) => Outlasts(q, p)'
      /\ \A p \in Procs : Works(p) => Outlasts(w, p)'
      /\ WorkersAt' /\ OwnerAt' /\ TickAt'
  <2>1. PICK r : r = [Idle EXCEPT !.pc = "call", !.on = c, !.settled = Terminal,
                                  !.behind = {q \in Procs \ {w} : at[q].pc = "work"}]
    OBVIOUS
  <2>2. r \in Proc /\ r.pc = "call" /\ r.on = c /\ r.behind = {q \in Procs \ {w} : at[q].pc = "work"}
    BY <2>1, Kinds DEF Idle, Proc, Lists, Owner, Terminal
  <2>3. at' = [at EXCEPT ![w] = r]
    BY <2>1, <1>3 DEF Start, Calls, On
  <2>4. \A p \in Procs : Works(p) => p \in r.behind
    BY <2>2, <1>1, PhaseOf DEF Works
  <2> QED
    BY <2>2, <2>3, <2>4, <1>2, <1>3, <1>5, Taking
<1>7. \A v \in Workers : Busy(v) => Busy(v)' /\ Role(v)' = Role(v)
  <2>1. SUFFICES ASSUME NEW v \in Workers, Busy(v) PROVE Busy(v)' /\ Role(v)' = Role(v)
    OBVIOUS
  <2>2. On(v) \in Comments /\ Present(On(v))
    BY <2>1, InHand
  <2>3. On(v) \in Reports => Of(On(v)) \in Requests /\ Present(Of(On(v)))
    BY <2>2 DEF BoardInv, Parents
  <2> QED
    BY <2>1, <2>2, <2>3, <1>5, <1>6, Kinds DEF Role, Lasting
<1>8. OneAtWork'
  <2>1. OneAtWork /\ Busy(w) /\ ~Works(w) /\ ~Works(w)'
    BY <1>1, <1>6 DEF BoardInv, Works
  <2>2. \A v \in Workers : v # w => Phase(v)' = Phase(v) /\ Works(v)' = Works(v) /\ Busy(v)' = Busy(v)
    BY <1>6, Kinds DEF Works
  <2>3. \A v \in Workers, u \in Workers : v # w /\ Outlasts(v, u) => Outlasts(v, u)'
    BY <1>6, Kinds
  <2>4. \A v \in Workers : Works(v) => Outlasts(w, v)'
    BY <1>6, Kinds
  <2> QED
    BY <2>1, <2>2, <2>3, <2>4, <1>6, <1>7 DEF OneAtWork
<1>9. \A p \in Procs, d \in Requests : Keeps(p, d) => Keeps(p, d)'
  <2>1. \A d \in Requests : ~Keeps(w, d)
    BY <1>1, Kinds DEF Keeps, HandsOut
  <2> QED
    BY <2>1, <1>6, <1>5, KeepsOn, Kinds
<1>10. Tables' /\ OneAtWork' /\ DoneDelivered'
  <2>1. Tables'
    BY <1>1, <1>4, <1>5, <1>6 DEF BoardInv, Tables
  <2>2. DoneDelivered'
    BY <1>1, <1>3, <1>4 DEF BoardInv, DoneDelivered, Delivered, Delivers, Present, St, Terminal
  <2> QED
    BY <2>1, <2>2, <1>8
<1>11. Parents'
  BY <1>1, <1>2, <1>5, <1>6, InHand, Kinds, Cells DEF BoardInv, Parents, Present
<1>12. Runs'
  BY <1>1, <1>2, <1>5, <1>6, InHand, Kinds, Cells DEF BoardInv, Runs, Ended
<1>13. Standings'
  BY <1>1, <1>2, <1>5, <1>6, InHand, Kinds, Cells DEF BoardInv, Standings, Standing
<1>14. Answering'
  BY <1>1, <1>2, <1>5, <1>6, InHand, Kinds, Cells DEF BoardInv, Answering, TickOn, Works, Moves,
    Outlasts
<1>15. HandingOut'
  BY <1>1, <1>2, <1>5, <1>6, InHand, Kinds, Cells DEF BoardInv, HandingOut, HandsOut, TickOn,
    Untouched, Present
<1>16. HandingIn'
  BY <1>1, <1>2, <1>5, <1>6, InHand, Kinds, Cells DEF BoardInv, HandingIn, HandsIn, Untouched,
    Present
<1>17. UnderReview'
  BY <1>1, <1>2, <1>5, <1>6, InHand, Kinds, Cells DEF BoardInv, UnderReview, Inserting, HandsIn,
    Untouched, Present, Parents
<1>18. Reviewing'
  BY <1>1, <1>2, <1>5, <1>6, InHand, Kinds, Cells DEF BoardInv, Reviewing, Review, Untouched,
    Present, Parents, TickOn
<1>19. Integrated'
  BY <1>1, <1>2, <1>5, <1>6, InHand, Kinds, Cells DEF BoardInv, Integrated, Reported, Still,
    Present, Parents
<1>20. Kept'
  BY <1>1, <1>2, <1>5, <1>6, <1>9, InHand, Kinds, Cells DEF BoardInv, Kept, Inserting, HandsIn
<1> QED
  BY <1>6, <1>10, <1>11, <1>12, <1>13, <1>14, <1>15, <1>16, <1>17, <1>18, <1>19, <1>20 DEF BoardInv

\* The agent of a request has answered: a report, a part for somebody else, progress, a question or a failure.
LEMMA RequestReturnsStep ==
  ASSUME BoardInv, NEW w \in Workers, RequestReturns(w), NEW i \in Requests, On(w) = i
  PROVE  BoardInv'
<1> USE DEF RowsKept, Others, Busy
<1>1. /\ Phase(w) = "call" /\ at[w].pc = "call" /\ at[w].behind = {}
      /\ msg' = msg /\ card' = card /\ budget' \in BudgetOf
  BY Spending DEF RequestReturns, Returns, Phase, BoardInv, Tables
<1>2. w \in Procs /\ Busy(w) /\ ~Works(w)
  BY <1>1, Kinds DEF Works
<1>3. /\ i \in Comments /\ Present(i) /\ Run(i) = w /\ St(i) \in {"queued", "running"}
      /\ \A v \in Workers \ {w} : Busy(v) => On(v) # i
  BY <1>1, <1>2, InHand, Alone, Kinds DEF BoardInv, Standings, Standing, Runs, Ended
<1>4. Terminal' => Terminal
  BY <1>1 DEF Terminal
<1>5. RowsKept({}) /\ Lasting
  BY <1>1 DEF St, Of, Run, Up, Acc, Lasting, Present
<1>6. \A v \in Workers : v # w /\ Busy(v) => Role(v) # Role(w)
  BY <1>1, <1>2, Kinds DEF BoardInv, OneAtWork, Works, Outlasts
<1>7. PICK t \in RequestWork :
        Goes(w, t) /\ NameOf(t) \in {"report1", "split1", "progress1", "question1", "retry1"}
  <2>1. ~Dropped(w)
    BY <1>3 DEF Dropped, Run, On
  <2>2. \E t \in {Report1, Split1, Progress1, Question1, Retry1} : Goes(w, t)
    BY <2>1, DelegationLists DEF RequestReturns, Report1, Progress1, Question1, Retry1, Retry
  <2> QED
    BY <2>2, Names DEF RequestWork
<1>8. /\ at' \in [Procs -> Proc] /\ Moves(w, NameOf(t)) /\ New(w)' = New(w)
      /\ WorkersAt' /\ OwnerAt' /\ TickAt'
  BY <1>1, <1>4, <1>5, <1>7, WorkerGoes, Kinds
<1>9. Others(w) /\ Phase(w)' \in {"report1", "split1", "progress1", "question1", "retry1"}
        /\ On(w)' = i /\ New(w)' = New(w)
  BY <1>7, <1>8 DEF Moves
<1>10. OneAtWork'
  <2>1. \A v \in Workers : Busy(v) => Busy(v)' /\ Role(v)' = Role(v)
    <3>1. SUFFICES ASSUME NEW v \in Workers, Busy(v) PROVE Busy(v)' /\ Role(v)' = Role(v)
      OBVIOUS
    <3>2. On(v) \in Comments /\ Present(On(v))
      BY <3>1, InHand
    <3>3. On(v) \in Reports => Of(On(v)) \in Requests /\ Present(Of(On(v)))
      BY <3>2 DEF BoardInv, Parents
    <3> QED
      BY <3>1, <3>2, <3>3, <1>5, <1>9, Kinds DEF Role, Lasting
  <2>2. \A v \in Workers : v # w => Phase(v)' = Phase(v) /\ Works(v)' = Works(v) /\ Busy(v)' = Busy(v)
    BY <1>9, Kinds DEF Works
  <2>3. \A v \in Workers, u \in Workers : v # w /\ u # w /\ Outlasts(v, u) => Outlasts(v, u)'
    BY <1>8, Kinds DEF Moves
  <2>4. OneAtWork /\ Busy(w)
    BY <1>1 DEF BoardInv
  <2> QED
    BY <2>1, <2>2, <2>3, <2>4, <1>6 DEF OneAtWork
<1>11. \A p \in Procs, c \in Requests : Keeps(p, c) => Keeps(p, c)'
  <2>1. \A c \in Requests : ~Keeps(w, c)
    BY <1>1, Kinds DEF Keeps, HandsOut
  <2> QED
    BY <2>1, <1>9, <1>5, KeepsOn, Kinds
<1>12. Tables' /\ OneAtWork' /\ DoneDelivered'
  <2>1. Tables'
    BY <1>1, <1>5, <1>8 DEF BoardInv, Tables
  <2>2. DoneDelivered'
    BY <1>1, <1>4 DEF BoardInv, DoneDelivered, Delivered, Delivers, Present, St, Terminal
  <2> QED
    BY <2>1, <2>2, <1>10
<1>13. Parents'
  BY <1>1, <1>2, <1>3, <1>9, <1>5, InHand, Kinds, Cells DEF BoardInv, Parents, Present
<1>14. Runs'
  BY <1>1, <1>2, <1>3, <1>9, <1>5, InHand, Kinds, Cells DEF BoardInv, Runs, Ended
<1>15. Standings'
  BY <1>1, <1>2, <1>3, <1>9, <1>5, InHand, Kinds, Cells DEF BoardInv, Standings, Standing
<1>16. Answering'
  BY <1>1, <1>2, <1>3, <1>9, <1>5, <1>8, InHand, Kinds, Cells DEF BoardInv, Answering, TickOn,
    Works, Moves, Outlasts
<1>17. HandingOut'
  BY <1>1, <1>2, <1>3, <1>9, <1>5, InHand, Kinds, Cells DEF BoardInv, HandingOut, HandsOut,
    TickOn, Untouched, Present
<1>18. HandingIn'
  BY <1>1, <1>2, <1>3, <1>9, <1>5, InHand, Kinds, Cells DEF BoardInv, HandingIn, HandsIn,
    Untouched, Present
<1>19. UnderReview'
  BY <1>1, <1>2, <1>3, <1>9, <1>5, InHand, Kinds, Cells DEF BoardInv, UnderReview, Inserting,
    HandsIn, Untouched, Present, Parents
<1>20. Reviewing'
  BY <1>1, <1>2, <1>3, <1>9, <1>5, InHand, Kinds, Cells DEF BoardInv, Reviewing, Review,
    Untouched, Present, Parents, TickOn
<1>21. Integrated'
  BY <1>1, <1>2, <1>3, <1>9, <1>5, InHand, Kinds, Cells DEF BoardInv, Integrated, Reported, Still,
    Present, Parents
<1>22. Kept'
  BY <1>1, <1>2, <1>3, <1>9, <1>5, <1>11, InHand, Kinds, Cells DEF BoardInv, Kept, Inserting,
    HandsIn
<1> QED
  BY <1>8, <1>12, <1>13, <1>14, <1>15, <1>16, <1>17, <1>18, <1>19, <1>20, <1>21, <1>22 DEF BoardInv

\* A reviewer has answered: an approval, a revision, an escalation or a failure.
LEMMA ReviewReturnsStep ==
  ASSUME BoardInv, NEW w \in Workers, ReviewReturns(w), NEW i \in Reports, On(w) = i
  PROVE  BoardInv'
<1> USE DEF RowsKept, Others, Busy
<1>1. /\ Phase(w) = "call" /\ at[w].pc = "call" /\ at[w].behind = {}
      /\ msg' = msg /\ card' = card /\ budget' \in BudgetOf
  BY Spending DEF ReviewReturns, Returns, Phase, BoardInv, Tables
<1>2. w \in Procs /\ Busy(w) /\ ~Works(w)
  BY <1>1, Kinds DEF Works
<1>3. /\ i \in Comments /\ Present(i) /\ Run(i) = w /\ St(i) = "submitted" /\ ~Up(i)
      /\ \A v \in Workers \ {w} : Busy(v) => On(v) # i
  BY <1>1, <1>2, InHand, Alone, Kinds DEF BoardInv, Reviewing, Review, Runs, Ended
<1>4. Terminal' => Terminal
  BY <1>1 DEF Terminal
<1>5. RowsKept({}) /\ Lasting
  BY <1>1 DEF St, Of, Run, Up, Acc, Lasting, Present
<1>6. \A v \in Workers : v # w /\ Busy(v) => Role(v) # Role(w)
  BY <1>1, <1>2, Kinds DEF BoardInv, OneAtWork, Works, Outlasts
<1>7. PICK t \in ReviewWork :
        Goes(w, t) /\ NameOf(t) \in {"approve1", "revise1", "escalate1", "retry1"}
  <2>1. \E t \in {Approve1, Revise1, Escalate1, Retry1} : Goes(w, t)
    BY DEF ReviewReturns, Approve1, Approval, Revise1, Escalate1, Retry1, Retry
  <2> QED
    BY <2>1, Names DEF ReviewWork
<1>8. /\ at' \in [Procs -> Proc] /\ Moves(w, NameOf(t)) /\ New(w)' = New(w)
      /\ WorkersAt' /\ OwnerAt' /\ TickAt'
  BY <1>1, <1>4, <1>5, <1>7, WorkerGoes, Kinds
<1>9. Others(w) /\ Phase(w)' \in {"approve1", "revise1", "escalate1", "retry1"} /\ On(w)' = i
        /\ New(w)' = New(w)
  BY <1>7, <1>8 DEF Moves
<1>10. OneAtWork'
  <2>1. \A v \in Workers : Busy(v) => Busy(v)' /\ Role(v)' = Role(v)
    <3>1. SUFFICES ASSUME NEW v \in Workers, Busy(v) PROVE Busy(v)' /\ Role(v)' = Role(v)
      OBVIOUS
    <3>2. On(v) \in Comments /\ Present(On(v))
      BY <3>1, InHand
    <3>3. On(v) \in Reports => Of(On(v)) \in Requests /\ Present(Of(On(v)))
      BY <3>2 DEF BoardInv, Parents
    <3> QED
      BY <3>1, <3>2, <3>3, <1>5, <1>9, Kinds DEF Role, Lasting
  <2>2. \A v \in Workers : v # w => Phase(v)' = Phase(v) /\ Works(v)' = Works(v) /\ Busy(v)' = Busy(v)
    BY <1>9, Kinds DEF Works
  <2>3. \A v \in Workers, u \in Workers : v # w /\ u # w /\ Outlasts(v, u) => Outlasts(v, u)'
    BY <1>8, Kinds DEF Moves
  <2>4. OneAtWork /\ Busy(w)
    BY <1>1 DEF BoardInv
  <2> QED
    BY <2>1, <2>2, <2>3, <2>4, <1>6 DEF OneAtWork
<1>11. \A p \in Procs, c \in Requests : Keeps(p, c) => Keeps(p, c)'
  <2>1. \A c \in Requests : ~Keeps(w, c)
    BY <1>1, Kinds DEF Keeps, HandsOut
  <2> QED
    BY <2>1, <1>9, <1>5, KeepsOn, Kinds
<1>12. Tables' /\ OneAtWork' /\ DoneDelivered'
  <2>1. Tables'
    BY <1>1, <1>5, <1>8 DEF BoardInv, Tables
  <2>2. DoneDelivered'
    BY <1>1, <1>4 DEF BoardInv, DoneDelivered, Delivered, Delivers, Present, St, Terminal
  <2> QED
    BY <2>1, <2>2, <1>10
<1>13. Parents'
  BY <1>1, <1>2, <1>3, <1>9, <1>5, InHand, Kinds, Cells DEF BoardInv, Parents, Present
<1>14. Runs'
  BY <1>1, <1>2, <1>3, <1>9, <1>5, InHand, Kinds, Cells DEF BoardInv, Runs, Ended
<1>15. Standings'
  BY <1>1, <1>2, <1>3, <1>9, <1>5, InHand, Kinds, Cells DEF BoardInv, Standings, Standing
<1>16. Answering'
  BY <1>1, <1>2, <1>3, <1>9, <1>5, <1>8, InHand, Kinds, Cells DEF BoardInv, Answering, TickOn,
    Works, Moves, Outlasts
<1>17. HandingOut'
  BY <1>1, <1>2, <1>3, <1>9, <1>5, InHand, Kinds, Cells DEF BoardInv, HandingOut, HandsOut,
    TickOn, Untouched, Present
<1>18. HandingIn'
  BY <1>1, <1>2, <1>3, <1>9, <1>5, InHand, Kinds, Cells DEF BoardInv, HandingIn, HandsIn,
    Untouched, Present
<1>19. UnderReview'
  BY <1>1, <1>2, <1>3, <1>9, <1>5, InHand, Kinds, Cells DEF BoardInv, UnderReview, Inserting,
    HandsIn, Untouched, Present, Parents
<1>20. Reviewing'
  BY <1>1, <1>2, <1>3, <1>9, <1>5, InHand, Kinds, Cells DEF BoardInv, Reviewing, Review,
    Untouched, Present, Parents, TickOn
<1>21. Integrated'
  BY <1>1, <1>2, <1>3, <1>9, <1>5, InHand, Kinds, Cells DEF BoardInv, Integrated, Reported, Still,
    Present, Parents
<1>22. Kept'
  BY <1>1, <1>2, <1>3, <1>9, <1>5, <1>11, InHand, Kinds, Cells DEF BoardInv, Kept, Inserting,
    HandsIn
<1> QED
  BY <1>8, <1>12, <1>13, <1>14, <1>15, <1>16, <1>17, <1>18, <1>19, <1>20, <1>21, <1>22 DEF BoardInv

\* The server dies during the call of a delegate: nobody takes its run again.
LEMMA CrashStep ==
  ASSUME BoardInv, NEW w \in Workers, Crash(w), NEW i \in Requests, On(w) = i
  PROVE  BoardInv'
<1> USE DEF RowsKept, Others, Busy
<1>1. /\ Phase(w) = "call" /\ at[w].pc = "call" /\ card' = card /\ budget' \in BudgetOf
  BY Spending DEF Crash, Phase, BoardInv, Tables
<1>2. w \in Procs /\ Busy(w) /\ ~Works(w)
  BY <1>1, Kinds DEF Works
<1>3. /\ i \in Comments /\ Present(i) /\ Run(i) = w /\ St(i) \in {"queued", "running"}
      /\ \A v \in Workers \ {w} : Busy(v) => On(v) # i
  BY <1>1, <1>2, InHand, Alone, Kinds DEF BoardInv, Standings, Standing, Runs, Ended
<1>4. ~Terminal /\ ~Terminal'
  BY <1>1, <1>3, NotDone DEF Terminal
<1>5. RunSet(i, "lost")
  <2>1. msg' = [msg EXCEPT ![i].run = "lost"]
    BY <1>3 DEF Crash, On, Run
  <2> QED
    BY <2>1, <1>3, SettingRun DEF BoardInv, Tables
<1>6. /\ msg' \in [Comments -> Row] /\ RowsKept({i}) /\ Lasting
      /\ St(i)' = St(i) /\ Of(i)' = Of(i) /\ Run(i)' = "lost" /\ Up(i)' = Up(i) /\ Acc(i)' = Acc(i)
  BY <1>5 DEF RunSet
<1>7. /\ at' \in [Procs -> Proc] /\ Moves(w, "idle")
      /\ WorkersAt' /\ OwnerAt' /\ TickAt'
  <2>1. Goes(w, <<>>)
    BY DEF Crash, Goes
  <2> QED
    BY <2>1, <1>1, <1>4, <1>6, WorkerGoes, Names
<1>8. Others(w) /\ Phase(w)' = "idle"
  BY <1>7 DEF Moves
<1>9. \A p \in Procs, c \in Requests : Keeps(p, c) => Keeps(p, c)'
  <2>1. \A c \in Requests : ~Keeps(w, c)
    BY <1>1, Kinds DEF Keeps, HandsOut
  <2> QED
    BY <2>1, <1>8, <1>6, KeepsOn, Kinds
<1>10. OneAtWork'
  <2>1. \A v \in Workers : v # w /\ Busy(v) => Busy(v)' /\ Role(v)' = Role(v)
    <3>1. SUFFICES ASSUME NEW v \in Workers, v # w, Busy(v) PROVE Busy(v)' /\ Role(v)' = Role(v)
      OBVIOUS
    <3>2. On(v) \in Comments /\ Present(On(v))
      BY <3>1, InHand
    <3>3. On(v) \in Reports => Of(On(v)) \in Requests /\ Present(Of(On(v)))
      BY <3>2 DEF BoardInv, Parents
    <3> QED
      BY <3>1, <3>2, <3>3, <1>6, <1>8, Kinds DEF Role, Lasting
  <2>2. \A v \in Workers : v # w => Phase(v)' = Phase(v) /\ Works(v)' = Works(v) /\ Busy(v)' = Busy(v)
    BY <1>8, Kinds DEF Works
  <2>3. \A v \in Workers, u \in Workers : v # w /\ u # w /\ Outlasts(v, u) => Outlasts(v, u)'
    BY <1>7, Kinds DEF Moves
  <2>4. OneAtWork /\ ~Busy(w)'
    BY <1>8 DEF BoardInv
  <2> QED
    BY <2>1, <2>2, <2>3, <2>4 DEF OneAtWork
<1>11. Tables' /\ OneAtWork' /\ DoneDelivered'
  BY <1>1, <1>4, <1>6, <1>7, <1>10 DEF BoardInv, Tables, DoneDelivered
<1>12. Parents'
  BY <1>1, <1>2, <1>3, <1>8, <1>6, InHand, Kinds, Cells DEF BoardInv, Parents, Present
<1>13. Runs'
  BY <1>1, <1>2, <1>3, <1>8, <1>6, InHand, Kinds, Cells DEF BoardInv, Runs, Ended
<1>14. Standings'
  BY <1>1, <1>2, <1>3, <1>8, <1>6, InHand, Kinds, Cells DEF BoardInv, Standings, Standing
<1>15. Answering'
  BY <1>1, <1>2, <1>3, <1>8, <1>6, <1>7, InHand, Kinds, Cells DEF BoardInv, Answering, TickOn,
    Works, Moves
<1>16. HandingOut'
  BY <1>1, <1>2, <1>3, <1>8, <1>6, InHand, Kinds, Cells DEF BoardInv, HandingOut, HandsOut,
    TickOn, Untouched, Present
<1>17. HandingIn'
  BY <1>1, <1>2, <1>3, <1>8, <1>6, InHand, Kinds, Cells DEF BoardInv, HandingIn, HandsIn,
    Untouched, Present
<1>18. UnderReview'
  BY <1>1, <1>2, <1>3, <1>8, <1>6, InHand, Kinds, Cells DEF BoardInv, UnderReview, Inserting,
    HandsIn, Untouched, Present, Parents
<1>19. Reviewing'
  BY <1>1, <1>2, <1>3, <1>8, <1>6, InHand, Kinds, Cells DEF BoardInv, Reviewing, Review,
    Untouched, Present, Parents, TickOn
<1>20. Integrated'
  BY <1>1, <1>2, <1>3, <1>8, <1>6, InHand, Kinds, Cells DEF BoardInv, Integrated, Reported, Still,
    Present, Parents
<1>21. Kept'
  BY <1>1, <1>2, <1>3, <1>8, <1>6, <1>9, InHand, Kinds, Cells DEF BoardInv, Kept, Inserting, HandsIn
<1> QED
  BY <1>7, <1>11, <1>12, <1>13, <1>14, <1>15, <1>16, <1>17, <1>18, <1>19, <1>20, <1>21 DEF BoardInv

-----------------------------------------------------------------------------
(* The owner's turn. *)

\* Nothing but the card, the rounds or the bounds have changed.
LEMMA QuietStep ==
  ASSUME BoardInv,
         msg' = msg, at' = at, card' \in CardRow, budget' \in BudgetOf, Terminal' <=> Terminal
  PROVE  BoardInv'
<1> USE DEF St, Of, Run, Up, Acc, On, New, Phase, Outlasts, Busy, Works, Present
<1>1. Tables'
  BY DEF BoardInv, Tables
<1>2. WorkersAt' /\ OwnerAt' /\ TickAt'
  BY DEF BoardInv, WorkersAt, OwnerAt, TickAt
<1>3. Parents' /\ Runs'
  BY DEF BoardInv, Parents, Runs
<1>4. OneAtWork'
  BY DEF BoardInv, OneAtWork, Role
<1>5. Standings' /\ Answering'
  BY DEF BoardInv, Standings, Standing, Answering, TickOn
<1>6. HandingOut' /\ HandingIn'
  BY DEF BoardInv, HandingOut, HandingIn, Untouched, TickOn
<1>7. UnderReview'
  BY DEF BoardInv, UnderReview, Inserting, Untouched
<1>8. Reviewing'
  BY DEF BoardInv, Reviewing, Review, Untouched, TickOn
<1>9. Integrated'
  BY DEF BoardInv, Integrated, Reported, Still
<1>10. Kept'
  BY DEF BoardInv, Kept, Keeps, Inserting
<1>11. DoneDelivered'
  BY DEF BoardInv, DoneDelivered, Delivered, Delivers
<1> QED
  BY <1>1, <1>2, <1>3, <1>4, <1>5, <1>6, <1>7, <1>8, <1>9, <1>10, <1>11 DEF BoardInv

\* Where the owner's turn and the tick have no row to queue.
Unloaded == {"idle", "call", "owner1", "owner3", "owner5", "owner6", "round1", "round2", "round3",
  "check1", "check2", "sweep1", "sweep2", "sweep3"}

\* The owner's turn or the tick is somewhere else; no row has changed, and it neither
\* has nor had one to queue.
LEMMA QuietMove ==
  ASSUME BoardInv, NEW p \in {"owner", "tick"}, Others(p), msg' = msg,
         Phase(p) \in Unloaded, Phase(p)' \in Unloaded,
         \A q \in Workers, r \in Procs \ {p} : Outlasts(q, r) => Outlasts(q, r)',
         at' \in [Procs -> Proc], card' \in CardRow, budget' \in BudgetOf,
         WorkersAt', OwnerAt', TickAt', DoneDelivered'
  PROVE  BoardInv'
<1> USE DEF RowsKept, Others, Busy
<1>1. RowsKept({}) /\ Lasting /\ Tables'
  BY DEF St, Of, Run, Up, Acc, Lasting, Present, BoardInv, Tables
<1>2. p \in Procs /\ p \notin Workers /\ (p # "tick" => Phase("tick")' = Phase("tick")
        /\ On("tick")' = On("tick"))
  BY Kinds
<1>3. \A v \in Workers : Phase(v)' = Phase(v) /\ On(v)' = On(v) /\ New(v)' = New(v)
  BY <1>2, Kinds
<1>4. /\ \A c \in Comments : /\ St(c)' = St(c) /\ Of(c)' = Of(c) /\ Run(c)' = Run(c)
                            /\ Up(c)' = Up(c) /\ Acc(c)' = Acc(c)
      /\ p = "tick" => Phase("tick")' # "queue"
  BY <1>1 DEF Unloaded
<1>5. \A q \in Procs : Phase(q)' \in HandsOut =>
        Phase(q) \in HandsOut /\ Phase(q)' = Phase(q) /\ On(q)' = On(q) /\ New(q)' = New(q)
  BY <1>2 DEF Unloaded, HandsOut
<1>6. \A q \in Procs, c \in Requests : Keeps(q, c) => Keeps(q, c)'
  <2>1. \A c \in Requests : ~Keeps(p, c)
    BY DEF Keeps, HandsOut, Unloaded
  <2> QED
    BY <1>1, <1>2, <2>1, KeepsOn
<1>7. OneAtWork'
  <2>1. \A v \in Workers : Busy(v) => On(v)' = On(v) /\ Role(v)' = Role(v)
    <3>1. SUFFICES ASSUME NEW v \in Workers, Busy(v) PROVE On(v)' = On(v) /\ Role(v)' = Role(v)
      OBVIOUS
    <3>2. On(v) \in Comments /\ Present(On(v))
      BY <3>1, InHand
    <3>3. On(v) \in Reports => Of(On(v)) \in Requests /\ Present(Of(On(v)))
      BY <3>2 DEF BoardInv, Parents
    <3> QED
      BY <3>1, <3>2, <3>3, <1>1, <1>3, Kinds DEF Role, Lasting
  <2>2. \A v \in Workers : Phase(v)' = Phase(v) /\ Works(v)' = Works(v) /\ Busy(v)' = Busy(v)
    BY <1>3 DEF Works
  <2>3. \A v \in Workers, u \in Workers : Outlasts(v, u) => Outlasts(v, u)'
    BY <1>2, Kinds
  <2>4. OneAtWork
    BY DEF BoardInv
  <2> QED
    BY <2>1, <2>2, <2>3, <2>4 DEF OneAtWork
<1>8. Parents'
  BY <1>2, <1>3, <1>4, <1>5, InHand, Kinds, Cells DEF BoardInv, Parents, Present
<1>9. Runs'
  BY <1>2, <1>3, <1>4, <1>5, InHand, Kinds, Cells DEF BoardInv, Runs, Ended
<1>10. Standings'
  BY <1>2, <1>3, <1>4, <1>5, InHand, Kinds, Cells DEF BoardInv, Standings, Standing
<1>11. Answering'
  BY <1>2, <1>3, <1>4, <1>5, InHand, Kinds, Cells DEF BoardInv, Answering, TickOn, Works, Moves
<1>12. HandingOut'
  BY <1>2, <1>3, <1>4, <1>5, InHand, Kinds, Cells DEF BoardInv, HandingOut, HandsOut, TickOn,
    Untouched, Present
<1>13. HandingIn'
  BY <1>2, <1>3, <1>4, <1>5, InHand, Kinds, Cells DEF BoardInv, HandingIn, HandsIn, Untouched,
    Present
<1>14. UnderReview'
  BY <1>2, <1>3, <1>4, <1>5, InHand, Kinds, Cells DEF BoardInv, UnderReview, Inserting, HandsIn,
    Untouched, Present, Parents
<1>15. Reviewing'
  BY <1>2, <1>3, <1>4, <1>5, InHand, Kinds, Cells DEF BoardInv, Reviewing, Review, Untouched,
    Present, Parents, TickOn
<1>16. Integrated'
  BY <1>2, <1>3, <1>4, <1>5, InHand, Kinds, Cells DEF BoardInv, Integrated, Reported, Still,
    Present, Parents
<1>17. Kept'
  BY <1>2, <1>3, <1>4, <1>5, <1>6, InHand, Kinds, Cells DEF BoardInv, Kept, Inserting, HandsIn
<1> QED
  BY <1>1, <1>7, <1>8, <1>9, <1>10, <1>11, <1>12, <1>13, <1>14, <1>15, <1>16, <1>17 DEF BoardInv

\* A statement of the owner's turn: what it is at, and what comes next.
LEMMA OwnerPhases ==
  ASSUME BoardInv, NEW s, At("owner", s)
  PROVE  /\ s = "insertRequest" =>
              \/ Phase("owner") = "owner1" /\ NameOf(Rest(at["owner"].todo)) = "owner2"
              \/ Phase("owner") = "owner3" /\ NameOf(Rest(at["owner"].todo)) = "owner4"
         /\ s = "queueNew" =>
              \/ Phase("owner") = "owner2" /\ NameOf(Rest(at["owner"].todo)) = "owner3"
              \/ Phase("owner") = "owner4" /\ NameOf(Rest(at["owner"].todo)) = "owner5"
         /\ s = "toProgress" => Phase("owner") = "owner5" /\ NameOf(Rest(at["owner"].todo)) = "owner6"
         /\ s = "ownerDone" => Phase("owner") = "owner6" /\ NameOf(Rest(at["owner"].todo)) = "idle"
         /\ s = "park" => Phase("owner") = "round1" /\ NameOf(Rest(at["owner"].todo)) = "round2"
         /\ s = "openQuestions" => Phase("owner") = "round2" /\ NameOf(Rest(at["owner"].todo)) = "round3"
         /\ s = "toRound" => Phase("owner") = "round3" /\ NameOf(Rest(at["owner"].todo)) = "idle"
         /\ s = "check" => Phase("owner") = "check1" /\ NameOf(Rest(at["owner"].todo)) = "check2"
         /\ s = "finish" => Phase("owner") = "check2" /\ NameOf(Rest(at["owner"].todo)) = "idle"
         /\ s \in {"insertRequest", "queueNew", "toProgress", "ownerDone", "park",
              "openQuestions", "toRound", "check", "finish"}
<1>1. at["owner"].todo \in OwnerWork /\ First(at["owner"].todo) = s /\ Phase("owner") = NameOf(at["owner"].todo)
  BY DEF BoardInv, OwnerAt, At, First, Phase
<1> QED
  BY <1>1, OwnerHeads, Rests, Names

\* A statement of a sweep: what it is at, and what comes next.
LEMMA SweepPhases ==
  ASSUME BoardInv, NEW s, At("tick", s), On("tick") = Owner
  PROVE  /\ s = "cancelQuestions" => Phase("tick") = "sweep1" /\ NameOf(Rest(at["tick"].todo)) = "sweep2"
         /\ s = "toProgress" => Phase("tick") = "sweep2" /\ NameOf(Rest(at["tick"].todo)) = "sweep3"
         /\ s = "wakeOwner" => Phase("tick") = "sweep3" /\ NameOf(Rest(at["tick"].todo)) = "idle"
         /\ s \in {"cancelQuestions", "toProgress", "wakeOwner"}
<1>1. at["tick"].todo \in RoundWork /\ First(at["tick"].todo) = s /\ Phase("tick") = NameOf(at["tick"].todo)
  BY Kinds DEF BoardInv, TickAt, At, First, Phase
<1> QED
  BY <1>1, RoundHeads, Rests, Names

\* What the owner's turn goes on with, or its end.
LEMMA OwnerGoes ==
  ASSUME BoardInv, at["owner"].pc \in {"work", "call"},
         NEW t \in OwnerWork \cup {<<>>}, Goes("owner", t),
         Lasting, t = <<>> \/ ~Terminal'
  PROVE  /\ at' \in [Procs -> Proc] /\ Moves("owner", NameOf(t)) /\ On("owner")' = Owner
         /\ NameOf(t) # "idle" => New("owner")' = New("owner")
         /\ WorkersAt' /\ OwnerAt' /\ TickAt'
<1>1. "owner" \in Procs /\ at \in [Procs -> Proc] /\ t \in Lists /\ On("owner") = Owner
  BY Kinds DEF BoardInv, Tables, Lists, OwnerAt
<1>2. /\ at' \in [Procs -> Proc] /\ Moves("owner", NameOf(t))
      /\ \A q \in Procs \ {"owner"} : at'[q].pc = at[q].pc /\ at'[q].todo = at[q].todo
      /\ t # <<>> => at'["owner"].pc = "work" /\ at'["owner"].todo = t /\ New("owner")' = New("owner")
      /\ t = <<>> => at'["owner"].pc = "idle" /\ On("owner")' = Owner
  BY <1>1, Going
<1>3. (t # <<>> => NameOf(t) # "idle") /\ On("owner")' = Owner
  <2>1. \A u \in OwnerWork : NameOf(u) # "idle"
    BY Names DEF OwnerWork
  <2> QED
    BY <1>1, <1>2, <2>1 DEF Moves
<1>4. \A q \in Procs \ {"owner"} : On(q)' = On(q) /\ Phase(q)' = Phase(q)
  BY <1>2 DEF Moves, Others
<1>5. WorkersAt'
  <2>1. SUFFICES ASSUME NEW v \in Workers
                 PROVE  /\ at'[v].pc # "idle" => On(v)' \in Comments /\ Present(On(v))'
                        /\ at'[v].pc = "work" /\ On(v)' \in Requests => at'[v].todo \in RequestWork
                        /\ at'[v].pc = "work" /\ On(v)' \in Reports => at'[v].todo \in ReviewWork
    BY DEF WorkersAt
  <2>2. at'[v].pc = at[v].pc /\ at'[v].todo = at[v].todo /\ On(v)' = On(v)
    BY <1>2, <1>4, Kinds
  <2>3. at[v].pc # "idle" => On(v) \in Comments /\ Present(On(v))
    BY DEF BoardInv, WorkersAt
  <2> QED
    BY <2>2, <2>3 DEF BoardInv, WorkersAt, Lasting
<1>6. OwnerAt'
  BY <1>2, <1>3, Names DEF OwnerAt, Busy, Phase
<1>7. TickAt'
  BY <1>2, <1>4, Kinds DEF BoardInv, TickAt
<1> QED
  BY <1>2, <1>3, <1>5, <1>6, <1>7, Names

\* The card is in progress while the requests are worked on.
LEMMA ToProgressStep ==
  ASSUME BoardInv, ToProgress("owner")
  PROVE  BoardInv'
<1>1. At("owner", "toProgress") /\ Goes("owner", Rest(at["owner"].todo)) /\ msg' = msg /\ budget' = budget
  BY DEF ToProgress, Then, Rest
<1>2. Phase("owner") = "owner5" /\ NameOf(Rest(at["owner"].todo)) = "owner6"
  BY <1>1, OwnerPhases
<1>3. ~Terminal /\ card' \in CardRow /\ ~Terminal'
  BY <1>1, <1>2 DEF ToProgress, BoardInv, OwnerAt, Busy, Terminal, Tables, CardRow
<1>4. Rest(at["owner"].todo) \in OwnerWork \cup {<<>>} /\ at["owner"].pc = "work"
  BY <1>1, Tails DEF At, BoardInv, OwnerAt
<1>5. Lasting
  BY <1>1 DEF Lasting, Present, St, Of
<1>6. /\ at' \in [Procs -> Proc] /\ Moves("owner", "owner6") /\ WorkersAt' /\ OwnerAt' /\ TickAt'
  BY <1>1, <1>2, <1>3, <1>4, <1>5, OwnerGoes
<1> QED
  BY <1>1, <1>2, <1>3, <1>6, QuietMove, Kinds DEF Moves, DoneDelivered, BoardInv, Tables, Unloaded

\* The owner's run has ended.
LEMMA OwnerDoneStep ==
  ASSUME BoardInv, OwnerDone
  PROVE  BoardInv'
<1>1. At("owner", "ownerDone") /\ Goes("owner", Rest(at["owner"].todo)) /\ msg' = msg /\ budget' = budget
  BY DEF OwnerDone, Then, Rest
<1>2. Phase("owner") = "owner6" /\ NameOf(Rest(at["owner"].todo)) = "idle"
  BY <1>1, OwnerPhases
<1>3. ~Terminal /\ card' \in CardRow /\ ~Terminal'
  BY <1>1, <1>2 DEF OwnerDone, BoardInv, OwnerAt, Busy, Terminal, Tables, CardRow
<1>4. Rest(at["owner"].todo) \in OwnerWork \cup {<<>>} /\ at["owner"].pc = "work"
  BY <1>1, Tails DEF At, BoardInv, OwnerAt
<1>5. Lasting
  BY <1>1 DEF Lasting, Present, St, Of
<1>6. /\ at' \in [Procs -> Proc] /\ Moves("owner", "idle") /\ WorkersAt' /\ OwnerAt' /\ TickAt'
  BY <1>1, <1>2, <1>3, <1>4, <1>5, OwnerGoes
<1> QED
  BY <1>1, <1>2, <1>3, <1>6, QuietMove, Kinds DEF Moves, DoneDelivered, BoardInv, Tables, Unloaded

\* The card is parked for a round.
LEMMA ParkStep ==
  ASSUME BoardInv, Park
  PROVE  BoardInv'
<1>1. At("owner", "park") /\ Goes("owner", Rest(at["owner"].todo)) /\ msg' = msg /\ budget' = budget
  BY DEF Park, Then, Rest
<1>2. Phase("owner") = "round1" /\ NameOf(Rest(at["owner"].todo)) = "round2"
  BY <1>1, OwnerPhases
<1>3. ~Terminal /\ card' \in CardRow /\ ~Terminal'
  BY <1>1, <1>2 DEF Park, BoardInv, OwnerAt, Busy, Terminal, Tables, CardRow
<1>4. Rest(at["owner"].todo) \in OwnerWork \cup {<<>>} /\ at["owner"].pc = "work"
  BY <1>1, Tails DEF At, BoardInv, OwnerAt
<1>5. Lasting
  BY <1>1 DEF Lasting, Present, St, Of
<1>6. /\ at' \in [Procs -> Proc] /\ Moves("owner", "round2") /\ WorkersAt' /\ OwnerAt' /\ TickAt'
  BY <1>1, <1>2, <1>3, <1>4, <1>5, OwnerGoes
<1> QED
  BY <1>1, <1>2, <1>3, <1>6, QuietMove, Kinds DEF Moves, DoneDelivered, BoardInv, Tables, Unloaded

\* openBrainstormRound.
LEMMA OpenQuestionsStep ==
  ASSUME BoardInv, OpenQuestions
  PROVE  BoardInv'
<1>1. At("owner", "openQuestions") /\ Goes("owner", Rest(at["owner"].todo)) /\ msg' = msg /\ budget' = budget
  BY DEF OpenQuestions, Then, Rest
<1>2. Phase("owner") = "round2" /\ NameOf(Rest(at["owner"].todo)) = "round3"
  BY <1>1, OwnerPhases
<1>3. ~Terminal /\ card' \in CardRow /\ ~Terminal'
  BY <1>1, <1>2 DEF OpenQuestions, BoardInv, OwnerAt, Busy, Terminal, Tables, CardRow
<1>4. Rest(at["owner"].todo) \in OwnerWork \cup {<<>>} /\ at["owner"].pc = "work"
  BY <1>1, Tails DEF At, BoardInv, OwnerAt
<1>5. Lasting
  BY <1>1 DEF Lasting, Present, St, Of
<1>6. /\ at' \in [Procs -> Proc] /\ Moves("owner", "round3") /\ WorkersAt' /\ OwnerAt' /\ TickAt'
  BY <1>1, <1>2, <1>3, <1>4, <1>5, OwnerGoes
<1> QED
  BY <1>1, <1>2, <1>3, <1>6, QuietMove, Kinds DEF Moves, DoneDelivered, BoardInv, Tables, Unloaded

\* The round is counted.
LEMMA ToRoundStep ==
  ASSUME BoardInv, ToRound
  PROVE  BoardInv'
<1>1. At("owner", "toRound") /\ Goes("owner", Rest(at["owner"].todo)) /\ msg' = msg /\ budget' = budget
  BY DEF ToRound, Then, Rest
<1>2. Phase("owner") = "round3" /\ NameOf(Rest(at["owner"].todo)) = "idle"
  BY <1>1, OwnerPhases
<1>3. ~Terminal /\ card' \in CardRow /\ ~Terminal'
  <2>1. card.round + 1 \in Nat /\ card \in CardRow
    BY DEF BoardInv, Tables, CardRow
  <2>2. card' = [card EXCEPT !.status = "waiting_on_brainstorm", !.round = card.round + 1]
    BY DEF ToRound
  <2>3. card' \in CardRow /\ card'.status = "waiting_on_brainstorm"
    BY <2>1, <2>2 DEF CardRow
  <2> QED
    BY <2>3, <1>2 DEF BoardInv, OwnerAt, Busy, Terminal
<1>4. Rest(at["owner"].todo) \in OwnerWork \cup {<<>>} /\ at["owner"].pc = "work"
  BY <1>1, Tails DEF At, BoardInv, OwnerAt
<1>5. Lasting
  BY <1>1 DEF Lasting, Present, St, Of
<1>6. /\ at' \in [Procs -> Proc] /\ Moves("owner", "idle") /\ WorkersAt' /\ OwnerAt' /\ TickAt'
  BY <1>1, <1>2, <1>3, <1>4, <1>5, OwnerGoes
<1> QED
  BY <1>1, <1>2, <1>3, <1>6, QuietMove, Kinds DEF Moves, DoneDelivered, BoardInv, Tables, Unloaded

\* The owner's turn begins, unless the card is done (parentWaitingOnChildren).
LEMMA OwnerClaimsStep ==
  ASSUME BoardInv, OwnerClaims
  PROVE  BoardInv'
<1>1. Phase("owner") = "idle" /\ msg' = msg /\ budget' = budget
  BY DEF OwnerClaims, Phase
<1>2. CASE Terminal
  <2>1. at' = at /\ card' = [card EXCEPT !.owner = "none"]
    BY <1>2 DEF OwnerClaims
  <2>2. card' \in CardRow /\ Terminal'
    BY <1>2, <2>1 DEF BoardInv, Tables, CardRow, Terminal
  <2> QED
    BY <1>1, <1>2, <2>1, <2>2, QuietStep DEF BoardInv, Tables
<1>3. CASE ~Terminal
  <2>1. Calls("owner", 0) /\ card' = [card EXCEPT !.owner = "running", !.status = "in_progress"]
    BY <1>3 DEF OwnerClaims
  <2>2. card' \in CardRow /\ ~Terminal'
    BY <1>3, <2>1 DEF BoardInv, Tables, CardRow, Terminal
  <2>3. PICK r : r = [Idle EXCEPT !.pc = "call", !.on = 0, !.settled = Terminal,
                                  !.behind = {q \in Procs \ {"owner"} : at[q].pc = "work"}]
    OBVIOUS
  <2>4. r \in Proc /\ r.pc = "call" /\ r.on = Owner
    BY <2>3 DEF Idle, Proc, Lists, Owner, Terminal
  <2>5. at' = [at EXCEPT !["owner"] = r] /\ at \in [Procs -> Proc] /\ "owner" \in Procs
    BY <2>1, <2>3, Kinds DEF Calls, BoardInv, Tables
  <2>6. /\ at' \in [Procs -> Proc] /\ at'["owner"] = r
        /\ \A q \in Procs \ {"owner"} : at'[q] = at[q]
    BY <2>4, <2>5
  <2>7. Others("owner") /\ Phase("owner")' = "call" /\ On("owner")' = Owner
    BY <2>4, <2>6 DEF Others, Phase, On, New
  <2>8. WorkersAt'
    BY <1>1, <2>6, Kinds DEF BoardInv, WorkersAt, On, Present, St
  <2>9. OwnerAt' /\ TickAt'
    BY <2>2, <2>4, <2>6, <2>7, Kinds DEF BoardInv, OwnerAt, TickAt, On
  <2>10. \A q \in Workers, p \in Procs \ {"owner"} : Outlasts(q, p) => Outlasts(q, p)'
    BY <2>6, Kinds DEF Outlasts
  <2> QED
    BY <1>1, <2>2, <2>6, <2>7, <2>8, <2>9, <2>10, QuietMove DEF DoneDelivered, BoardInv, Tables,
      Unloaded
<1> QED
  BY <1>2, <1>3

\* The owner has answered: it delegates, opens a round or says that the card is done.
LEMMA OwnerReturnsStep ==
  ASSUME BoardInv, OwnerReturns
  PROVE  BoardInv'
<1>1. /\ Phase("owner") = "call" /\ at["owner"].pc = "call" /\ msg' = msg /\ card' = card
      /\ budget' \in BudgetOf
  BY Spending DEF OwnerReturns, Returns, OwnerDelegates, OwnerBroadcasts, Phase, BoardInv, Tables
<1>2. ~Terminal /\ ~Terminal' /\ Lasting
  BY <1>1 DEF BoardInv, OwnerAt, Busy, Terminal, Lasting, Present, St, Of
<1>3. PICK t \in OwnerWork :
        Goes("owner", t) /\ NameOf(t) \in {"owner1", "owner3", "round1", "check1"}
  <2>1. \E t \in {Owner1, Owner3, Round1, Check1} : Goes("owner", t)
    BY DelegationLists DEF OwnerReturns, OwnerDelegates, OwnerBroadcasts, Round1, Check1
  <2> QED
    BY <2>1, Names DEF OwnerWork
<1>4. /\ at' \in [Procs -> Proc] /\ Moves("owner", NameOf(t)) /\ WorkersAt' /\ OwnerAt' /\ TickAt'
  BY <1>1, <1>2, <1>3, OwnerGoes
<1> QED
  BY <1>1, <1>2, <1>3, <1>4, QuietMove, Kinds DEF Moves, DoneDelivered, BoardInv, Tables, Unloaded

\* completionBlockedByChildren is evaluated.
LEMMA CheckStep ==
  ASSUME BoardInv, Check
  PROVE  BoardInv'
<1>1. At("owner", "check") /\ msg' = msg /\ card' = card /\ budget' = budget
  BY DEF Check
<1>2. Phase("owner") = "check1" /\ NameOf(Rest(at["owner"].todo)) = "check2"
  BY <1>1, OwnerPhases
<1>3. PICK t \in OwnerWork : t = Rest(at["owner"].todo)
  BY <1>1, <1>2, Tails, Names DEF At, BoardInv, OwnerAt
<1>4. PICK b \in BOOLEAN : b = EvidenceReady
  BY DEF EvidenceReady
<1>5. /\ at \in [Procs -> Proc] /\ "owner" \in Procs /\ at["owner"] \in Proc /\ at["owner"].pc = "work"
      /\ at' = [at EXCEPT !["owner"] = [at["owner"] EXCEPT !.settled = b, !.todo = t]]
  BY <1>1, <1>3, <1>4, Kinds DEF Check, At, Rest, BoardInv, Tables
<1>6. [at["owner"] EXCEPT !.settled = b, !.todo = t] \in Proc
  BY <1>3, <1>5 DEF Proc, Lists
<1>7. /\ at' \in [Procs -> Proc] /\ \A q \in Procs \ {"owner"} : at'[q] = at[q]
      /\ at'["owner"] = [at["owner"] EXCEPT !.settled = b, !.todo = t]
  BY <1>5, <1>6
<1>8. /\ at'["owner"].pc = "work" /\ at'["owner"].on = at["owner"].on
      /\ at'["owner"].todo = t /\ at'["owner"].behind = at["owner"].behind
  BY <1>5, <1>7 DEF Proc
<1>9. Moves("owner", "check2")
  BY <1>2, <1>3, <1>5, <1>7, <1>8, MovesOn
<1>10. WorkersAt'
  BY <1>1, <1>7, Kinds DEF BoardInv, WorkersAt, On, Present, St
<1>11. ~Terminal /\ ~Terminal'
  BY <1>1, <1>2 DEF BoardInv, OwnerAt, Busy, Terminal
<1>12. OwnerAt' /\ TickAt'
  BY <1>7, <1>8, <1>11, Kinds DEF BoardInv, OwnerAt, TickAt, On
<1> QED
  BY <1>1, <1>2, <1>7, <1>9, <1>10, <1>11, <1>12, QuietMove, Kinds
     DEF Moves, DoneDelivered, BoardInv, Tables, Unloaded

\* The card is done when all evidence is there (completionEvidenceReady), else it waits.
LEMMA FinishStep ==
  ASSUME BoardInv, Finish
  PROVE  BoardInv'
<1>1. At("owner", "finish") /\ Goes("owner", Rest(at["owner"].todo)) /\ msg' = msg /\ budget' = budget
  BY DEF Finish, Then, Rest
<1>2. Phase("owner") = "check2" /\ NameOf(Rest(at["owner"].todo)) = "idle"
  BY <1>1, OwnerPhases
<1>3. ~Terminal /\ card' \in CardRow /\ (Terminal' => EvidenceReady)
  BY <1>1, <1>2 DEF Finish, BoardInv, OwnerAt, Busy, Terminal, Tables, CardRow
<1>4. Rest(at["owner"].todo) = <<>> /\ at["owner"].pc = "work"
  <2>1. \A u \in OwnerWork : NameOf(u) # "idle"
    BY Names DEF OwnerWork
  <2> QED
    BY <1>1, <1>2, <2>1, Tails DEF At, BoardInv, OwnerAt
<1>5. Lasting
  BY <1>1 DEF Lasting, Present, St, Of
<1>6. /\ at' \in [Procs -> Proc] /\ Moves("owner", "idle") /\ WorkersAt' /\ OwnerAt' /\ TickAt'
  BY <1>1, <1>2, <1>4, <1>5, OwnerGoes
<1>7. DoneDelivered'
  <2>1. SUFFICES ASSUME EvidenceReady, NEW i \in Requests, Present(i)' PROVE Delivered(i)'
    BY <1>3 DEF DoneDelivered
  <2>2. St(i) \notin {"absent", "cancelled"}
    BY <1>1, <2>1, Cells, Kinds DEF Present, St
  <2>3. Delivered(i)
    BY <2>1, <2>2 DEF EvidenceReady, St
  <2> QED
    BY <1>1, <2>3 DEF Delivered, Delivers
<1> QED
  BY <1>1, <1>2, <1>3, <1>6, <1>7, QuietMove, Kinds DEF Moves, BoardInv, Tables, Unloaded

\* createMessageDelegations by the owner: a request, not yet queued.
LEMMA OwnerInsertsStep ==
  ASSUME BoardInv, InsertRequest("owner")
  PROVE  BoardInv'
<1> USE DEF RowsKept, Others, Busy
<1>1. At("owner", "insertRequest") /\ card' = card /\ budget' = budget
  BY DEF InsertRequest
<1>2. /\ \/ Phase("owner") = "owner1" /\ NameOf(Rest(at["owner"].todo)) = "owner2"
         \/ Phase("owner") = "owner3" /\ NameOf(Rest(at["owner"].todo)) = "owner4"
      /\ On("owner") = Owner
  BY <1>1, OwnerPhases DEF BoardInv, OwnerAt
<1>3. ~Terminal /\ ~Terminal'
  BY <1>1, <1>2 DEF BoardInv, OwnerAt, Busy, Terminal
<1>4. PICK k \in Requests : k = Least(Free(Requests)) /\ NewRow(k, "queued", Owner)
  <2>1. Free(Requests) \in SUBSET Nat /\ Free(Requests) # {}
    BY BoardAssumption DEF InsertRequest, Free, Requests
  <2>2. Least(Free(Requests)) \in Requests /\ msg[Least(Free(Requests))].status = "absent"
    <3>1. Least(Free(Requests)) \in Free(Requests)
      BY <2>1, LeastIsMember
    <3> QED
      BY <3>1 DEF Free
  <2>3. PICK c \in Requests : c = Least(Free(Requests)) /\ msg[c].status = "absent"
    BY <2>2
  <2>4. msg' = [msg EXCEPT ![c].status = "queued", ![c].of = Owner]
    BY <1>2, <2>3 DEF InsertRequest, On
  <2>5. c \in Comments /\ msg \in [Comments -> Row]
    BY Kinds DEF BoardInv, Tables
  <2>6. NewRow(c, "queued", Owner)
    BY <2>3, <2>4, <2>5, InsertingRow
  <2> QED
    BY <2>3, <2>6
<1>5. /\ RowsKept({k}) /\ Lasting /\ St(k)' = "queued" /\ Of(k)' = Owner /\ Run(k)' = "none"
      /\ Up(k)' = FALSE /\ Acc(k)' = FALSE /\ ~Present(k) /\ k \in Comments /\ k # Owner
      /\ Untouched(k) /\ ~TickOn(k) /\ \A d \in Comments : Present(d) => Of(d) # k
  BY <1>4, Absent, Cells, Kinds DEF NewRow
<1>6. /\ at' \in [Procs -> Proc] /\ Moves("owner", NameOf(Rest(at["owner"].todo)))
      /\ On("owner")' = Owner /\ New("owner")' = k
      /\ WorkersAt' /\ OwnerAt' /\ TickAt'
  <2>1. PICK t \in OwnerWork : t = Rest(at["owner"].todo)
    BY <1>1, <1>2, Tails, Names DEF At, BoardInv, OwnerAt
  <2>2. /\ at \in [Procs -> Proc] /\ "owner" \in Procs /\ at["owner"] \in Proc /\ at["owner"].pc = "work"
        /\ at' = [at EXCEPT !["owner"] = [at["owner"] EXCEPT !.todo = t, !.new = k]]
    BY <1>1, <1>4, <2>1, Kinds DEF InsertRequest, At, Rest, BoardInv, Tables
  <2>3. [at["owner"] EXCEPT !.todo = t, !.new = k] \in Proc
    BY <1>5, <2>1, <2>2 DEF Proc, Lists
  <2>4. /\ at' \in [Procs -> Proc] /\ \A q \in Procs \ {"owner"} : at'[q] = at[q]
        /\ at'["owner"] = [at["owner"] EXCEPT !.todo = t, !.new = k]
    BY <2>2, <2>3
  <2>5. /\ at'["owner"].pc = "work" /\ at'["owner"].on = at["owner"].on /\ at'["owner"].new = k
        /\ at'["owner"].todo = t /\ at'["owner"].behind = at["owner"].behind
    BY <2>2, <2>4 DEF Proc
  <2>6. Moves("owner", NameOf(t))
    BY <2>2, <2>4, <2>5, MovesOn
  <2>7. WorkersAt'
    <3>1. SUFFICES ASSUME NEW v \in Workers
                   PROVE  /\ at'[v].pc # "idle" => On(v)' \in Comments /\ Present(On(v))'
                          /\ at'[v].pc = "work" /\ On(v)' \in Requests => at'[v].todo \in RequestWork
                          /\ at'[v].pc = "work" /\ On(v)' \in Reports => at'[v].todo \in ReviewWork
      BY DEF WorkersAt
    <3>2. at'[v] = at[v] /\ On(v)' = On(v)
      BY <2>4, Kinds DEF On
    <3>3. at[v].pc # "idle" => On(v) \in Comments /\ Present(On(v))
      BY DEF BoardInv, WorkersAt
    <3> QED
      BY <3>2, <3>3, <1>5 DEF BoardInv, WorkersAt, Lasting
  <2>8. OwnerAt' /\ TickAt'
    BY <1>2, <1>3, <2>4, <2>5, Kinds DEF BoardInv, OwnerAt, TickAt, On
  <2>9. On("owner")' = Owner /\ New("owner")' = k
    BY <1>2, <2>5 DEF On, New
  <2> QED
    BY <2>1, <2>4, <2>6, <2>7, <2>8, <2>9
<1>7. /\ Others("owner") /\ Phase("owner")' \in {"owner2", "owner4"}
      /\ On("owner")' = Owner /\ New("owner")' = k
  BY <1>2, <1>6 DEF Moves
<1>8. \A p \in Procs, d \in Requests : Keeps(p, d) => Keeps(p, d)'
  <2>1. \A d \in Requests : ~Keeps("owner", d)
    BY <1>2, Kinds DEF Keeps, HandsOut
  <2> QED
    BY <2>1, <1>7, <1>5, KeepsOn, Kinds
<1>9. \A v \in Workers : Phase(v)' = Phase(v) /\ On(v)' = On(v) /\ New(v)' = New(v)
  BY <1>7, Kinds
<1>10. Tables' /\ OneAtWork' /\ DoneDelivered'
  BY <1>1, <1>2, <1>3, <1>4, <1>5, <1>6, <1>7, InOrder, Kinds DEF NewRow, BoardInv, Tables,
    DoneDelivered, Moves, Works
<1>11. Parents'
  BY <1>2, <1>9, <1>7, <1>5, InHand, Kinds, Cells DEF BoardInv, Parents, Present
<1>12. Runs'
  BY <1>2, <1>9, <1>7, <1>5, InHand, Kinds, Cells DEF BoardInv, Runs, Ended
<1>13. Standings'
  BY <1>2, <1>9, <1>7, <1>5, InHand, Kinds, Cells DEF BoardInv, Standings, Standing
<1>14. Answering'
  BY <1>2, <1>9, <1>7, <1>5, <1>6, InHand, Kinds, Cells DEF BoardInv, Answering, TickOn, Works,
    Moves
<1>15. HandingOut'
  BY <1>2, <1>9, <1>7, <1>5, InHand, Kinds, Cells DEF BoardInv, HandingOut, HandsOut, TickOn,
    Untouched, Present
<1>16. HandingIn'
  BY <1>2, <1>9, <1>7, <1>5, InHand, Kinds, Cells DEF BoardInv, HandingIn, HandsIn, Untouched,
    Present
<1>17. UnderReview'
  BY <1>2, <1>9, <1>7, <1>5, InHand, Kinds, Cells DEF BoardInv, UnderReview, Inserting, HandsIn,
    Untouched, Present, Parents
<1>18. Reviewing'
  BY <1>2, <1>9, <1>7, <1>5, InHand, Kinds, Cells DEF BoardInv, Reviewing, Review, Untouched,
    Present, Parents, TickOn
<1>19. Integrated'
  BY <1>2, <1>9, <1>7, <1>5, InHand, Kinds, Cells DEF BoardInv, Integrated, Reported, Still,
    Present, Parents
<1>20. Kept'
  BY <1>2, <1>9, <1>7, <1>5, <1>8, InHand, Kinds, Cells DEF BoardInv, Kept, Inserting, HandsIn,
    Keeps, HandsOut
<1> QED
  BY <1>6, <1>10, <1>11, <1>12, <1>13, <1>14, <1>15, <1>16, <1>17, <1>18, <1>19, <1>20 DEF BoardInv

\* A request of the owner gets its first run.
LEMMA OwnerQueuesStep ==
  ASSUME BoardInv, QueueNew("owner"), NEW k \in Comments, New("owner") = k
  PROVE  BoardInv'
<1> USE DEF RowsKept, Others, Busy
<1>1. At("owner", "queueNew") /\ Goes("owner", Rest(at["owner"].todo)) /\ card' = card /\ budget' = budget
  BY DEF QueueNew, Then, Rest
<1>2. /\ \/ Phase("owner") = "owner2" /\ NameOf(Rest(at["owner"].todo)) = "owner3"
         \/ Phase("owner") = "owner4" /\ NameOf(Rest(at["owner"].todo)) = "owner5"
      /\ On("owner") = Owner /\ "owner" \in Procs
  BY <1>1, OwnerPhases, Kinds DEF BoardInv, OwnerAt
<1>3. /\ k \in Requests /\ Of(k) = Owner /\ St(k) = "queued" /\ Run(k) = "none" /\ Present(k) /\ ~TickOn(k)
      /\ \A v \in Workers : Busy(v) => On(v) # k
      /\ \A c \in Comments : Present(c) => Of(c) # k
      /\ \A p \in Procs : Phase(p) \in HandsOut /\ New(p) = k => p = "owner"
  <2>1. /\ k \in Requests /\ Of(k) = Owner /\ St(k) = "queued" /\ Run(k) = "none" /\ ~TickOn(k)
        /\ \A v \in Workers : Busy(v) => On(v) # k
        /\ \A c \in Comments : Present(c) => Of(c) # k
    BY <1>2 DEF BoardInv, HandingOut, Untouched, HandsOut
  <2>2. ASSUME NEW p \in Procs, Phase(p) \in HandsOut, New(p) = k PROVE p = "owner"
    <3>1. On(p) = Owner
      BY <2>1, <2>2 DEF BoardInv, HandingOut
    <3>2. p \notin Workers
      BY <2>2, <3>1, InHand, Kinds DEF HandsOut
    <3> QED
      BY <2>2, <3>2, Kinds, PhaseOf DEF HandsOut
  <2> QED
    BY <2>1, <2>2 DEF Present
<1>4. ~Terminal /\ ~Terminal'
  BY <1>1, <1>2 DEF BoardInv, OwnerAt, Busy, Terminal
<1>5. RunSet(k, "queued")
  BY <1>3, <1>4, Queueing DEF QueueNew, New, BoardInv, Tables
<1>6. /\ RowsKept({k}) /\ Lasting /\ St(k)' = St(k) /\ Of(k)' = Owner /\ Run(k)' = "queued"
      /\ Up(k)' = Up(k) /\ Acc(k)' = Acc(k)
  BY <1>3, <1>5 DEF RunSet
<1>7. /\ at' \in [Procs -> Proc] /\ Moves("owner", NameOf(Rest(at["owner"].todo)))
      /\ WorkersAt' /\ OwnerAt' /\ TickAt'
  BY <1>1, <1>4, <1>6, OwnerGoes, Tails DEF At, BoardInv, OwnerAt
<1>8. /\ Others("owner") /\ Phase("owner")' \in {"owner3", "owner5"}
      /\ \A v \in Workers : Phase(v)' = Phase(v) /\ On(v)' = On(v) /\ New(v)' = New(v)
  BY <1>2, <1>7, Kinds DEF Moves
<1>9. \A p \in Procs, d \in Requests : Keeps(p, d) /\ d # k => Keeps(p, d)'
  <2>1. \A d \in Requests : Keeps("owner", d) => d = k
    BY <1>2, <1>3, Kinds DEF Keeps, HandsOut
  <2> QED
    BY <2>1, <1>8, <1>6, KeepsOn, Kinds
<1>10. Tables' /\ OneAtWork' /\ DoneDelivered'
  BY <1>1, <1>2, <1>4, <1>5, <1>6, <1>7, <1>8, InOrder DEF RunSet, BoardInv, Tables,
    DoneDelivered, Moves, Works
<1>11. Parents'
  BY <1>2, <1>3, <1>8, <1>6, InHand, Kinds, Cells DEF BoardInv, Parents, Present
<1>12. Runs'
  BY <1>2, <1>3, <1>8, <1>6, InHand, Kinds, Cells DEF BoardInv, Runs, Ended
<1>13. Standings'
  BY <1>2, <1>3, <1>8, <1>6, InHand, Kinds, Cells DEF BoardInv, Standings, Standing
<1>14. Answering'
  BY <1>2, <1>3, <1>8, <1>6, <1>7, InHand, Kinds, Cells DEF BoardInv, Answering, TickOn, Works,
    Moves
<1>15. HandingOut'
  BY <1>2, <1>3, <1>8, <1>6, InHand, Kinds, Cells DEF BoardInv, HandingOut, HandsOut, TickOn,
    Untouched, Present
<1>16. HandingIn'
  BY <1>2, <1>3, <1>8, <1>6, InHand, Kinds, Cells DEF BoardInv, HandingIn, HandsIn, Untouched,
    Present
<1>17. UnderReview'
  BY <1>2, <1>3, <1>8, <1>6, InHand, Kinds, Cells DEF BoardInv, UnderReview, Inserting, HandsIn,
    Untouched, Present, Parents
<1>18. Reviewing'
  BY <1>2, <1>3, <1>8, <1>6, InHand, Kinds, Cells DEF BoardInv, Reviewing, Review, Untouched,
    Present, Parents, TickOn
<1>19. Integrated'
  BY <1>2, <1>3, <1>8, <1>6, InHand, Kinds, Cells DEF BoardInv, Integrated, Reported, Still,
    Present, Parents
<1>20. Kept'
  BY <1>2, <1>3, <1>8, <1>6, <1>9, InHand, Kinds, Cells DEF BoardInv, Kept, Inserting, HandsIn
<1> QED
  BY <1>7, <1>10, <1>11, <1>12, <1>13, <1>14, <1>15, <1>16, <1>17, <1>18, <1>19, <1>20 DEF BoardInv

-----------------------------------------------------------------------------
(* The tick. *)

\* Where the tick is when it has begun a sweep: no row and no other process is touched.
LEMMA TickBegins ==
  ASSUME BoardInv, NEW i \in Requests \cup {Owner},
         NEW t \in Lists, at["tick"].pc = "idle", TickGoes(i, t),
         (i \in Requests /\ t = Queue) \/ (i = Owner /\ t \in RoundWork),
         Lasting, Terminal' <=> Terminal
  PROVE  /\ at' \in [Procs -> Proc] /\ Others("tick") /\ Phase("tick")' = NameOf(t) /\ On("tick")' = i
         /\ \A q \in Workers, p \in Procs : Outlasts(q, p) => Outlasts(q, p)'
         /\ WorkersAt' /\ OwnerAt' /\ TickAt'
<1>1. PICK r : r = [Idle EXCEPT !.pc = "work", !.on = i, !.todo = t, !.settled = Terminal]
  OBVIOUS
<1>2. /\ r \in Proc /\ r.pc = "work" /\ r.on = i /\ r.todo = t
      /\ at \in [Procs -> Proc] /\ "tick" \in Procs /\ at' = [at EXCEPT !["tick"] = r]
  BY <1>1, Kinds DEF Idle, Proc, Owner, Terminal, Comments, TickGoes, BoardInv, Tables
<1>3. /\ at' \in [Procs -> Proc] /\ at'["tick"] = r
      /\ \A q \in Procs \ {"tick"} : at'[q] = at[q]
  BY <1>2
<1>4. Others("tick") /\ Phase("tick")' = NameOf(t) /\ On("tick")' = i
  BY <1>2, <1>3 DEF Others, Phase, On, New
<1>5. WorkersAt'
  <2>1. SUFFICES ASSUME NEW v \in Workers
                 PROVE  /\ at'[v].pc # "idle" => On(v)' \in Comments /\ Present(On(v))'
                        /\ at'[v].pc = "work" /\ On(v)' \in Requests => at'[v].todo \in RequestWork
                        /\ at'[v].pc = "work" /\ On(v)' \in Reports => at'[v].todo \in ReviewWork
    BY DEF WorkersAt
  <2>2. at'[v] = at[v] /\ On(v)' = On(v)
    BY <1>3, Kinds DEF On
  <2>3. at[v].pc # "idle" => On(v) \in Comments /\ Present(On(v))
    BY DEF BoardInv, WorkersAt
  <2> QED
    BY <2>2, <2>3 DEF BoardInv, WorkersAt, Lasting
<1>6. OwnerAt' /\ TickAt'
  BY <1>2, <1>3, <1>4, Kinds DEF BoardInv, OwnerAt, TickAt, Busy, Phase, On
<1>7. \A q \in Workers, p \in Procs : Outlasts(q, p) => Outlasts(q, p)'
  BY <1>3, Kinds DEF Outlasts
<1> QED
  BY <1>3, <1>4, <1>5, <1>6, <1>7

\* What the tick goes on with, or its end.
LEMMA TickMoves ==
  ASSUME BoardInv,
         NEW s, At("tick", s), Goes("tick", Rest(at["tick"].todo)), Lasting, Terminal' => Terminal
  PROVE  /\ at' \in [Procs -> Proc] /\ Moves("tick", NameOf(Rest(at["tick"].todo)))
         /\ WorkersAt' /\ OwnerAt' /\ TickAt'
<1>1. /\ "tick" \in Procs /\ at \in [Procs -> Proc] /\ at["tick"].pc = "work"
      /\ \/ On("tick") \in Requests /\ at["tick"].todo = Queue
         \/ On("tick") = Owner /\ at["tick"].todo \in RoundWork
  BY Kinds DEF BoardInv, Tables, TickAt, At
<1>2. PICK t \in Lists : /\ t = Rest(at["tick"].todo) /\ t \in RoundWork \cup {<<>>}
                         /\ On("tick") \in Requests => t = <<>>
  BY <1>1, Tails, Rests, Kinds DEF Lists
<1>3. /\ at' \in [Procs -> Proc] /\ Moves("tick", NameOf(t))
      /\ \A q \in Procs \ {"tick"} : at'[q].pc = at[q].pc /\ at'[q].todo = at[q].todo
      /\ t # <<>> => at'["tick"].pc = "work" /\ at'["tick"].todo = t
      /\ t = <<>> => at'["tick"].pc = "idle" /\ On("tick")' = Owner
  BY <1>1, <1>2, Going
<1>4. \A q \in Procs \ {"tick"} : On(q)' = On(q) /\ Phase(q)' = Phase(q)
  BY <1>3 DEF Moves, Others
<1>5. WorkersAt'
  <2>1. SUFFICES ASSUME NEW v \in Workers
                 PROVE  /\ at'[v].pc # "idle" => On(v)' \in Comments /\ Present(On(v))'
                        /\ at'[v].pc = "work" /\ On(v)' \in Requests => at'[v].todo \in RequestWork
                        /\ at'[v].pc = "work" /\ On(v)' \in Reports => at'[v].todo \in ReviewWork
    BY DEF WorkersAt
  <2>2. at'[v].pc = at[v].pc /\ at'[v].todo = at[v].todo /\ On(v)' = On(v)
    BY <1>3, <1>4, Kinds
  <2>3. at[v].pc # "idle" => On(v) \in Comments /\ Present(On(v))
    BY DEF BoardInv, WorkersAt
  <2> QED
    BY <2>2, <2>3 DEF BoardInv, WorkersAt, Lasting
<1>6. OwnerAt'
  BY <1>3, <1>4, Kinds DEF BoardInv, OwnerAt, Busy
<1>7. t # <<>> => On("tick")' = On("tick") /\ On("tick") = Owner
  <2>1. \A u \in RoundWork : NameOf(u) # "idle"
    BY Names DEF RoundWork
  <2> QED
    BY <1>1, <1>2, <1>3, <2>1 DEF Moves
<1>8. TickAt'
  BY <1>2, <1>3, <1>7 DEF TickAt
<1> QED
  BY <1>2, <1>3, <1>5, <1>6, <1>8

\* sweepBrainstormRounds: a round that is over is closed.
LEMMA SweepRoundStep ==
  ASSUME BoardInv, SweepRound
  PROVE  BoardInv'
<1>1. /\ Phase("tick") = "idle" /\ at["tick"].pc = "idle" /\ msg' = msg /\ card' = card /\ budget' = budget
      /\ TickGoes(Owner, Sweep1)
  BY DEF SweepRound, Phase, Owner, Sweep1
<1>2. Lasting /\ (Terminal' <=> Terminal)
  BY <1>1 DEF Lasting, Present, St, Of, Terminal
<1>3. Sweep1 \in Lists /\ Sweep1 \in RoundWork /\ NameOf(Sweep1) = "sweep1"
  BY Names DEF Lists, RoundWork
<1>4. /\ at' \in [Procs -> Proc] /\ Others("tick") /\ Phase("tick")' = "sweep1" /\ On("tick")' = Owner
      /\ \A q \in Workers, p \in Procs : Outlasts(q, p) => Outlasts(q, p)'
      /\ WorkersAt' /\ OwnerAt' /\ TickAt'
  BY <1>1, <1>2, <1>3, TickBegins
<1>5. DoneDelivered'
  BY <1>1, <1>2 DEF BoardInv, DoneDelivered, Delivered, Delivers, Present, St
<1> QED
  BY <1>1, <1>4, <1>5, QuietMove DEF BoardInv, Tables, Unloaded

\* What nobody has answered in the round is cancelled.
LEMMA CancelQuestionsStep ==
  ASSUME BoardInv, CancelQuestions
  PROVE  BoardInv'
<1>1. At("tick", "cancelQuestions") /\ Goes("tick", Rest(at["tick"].todo)) /\ msg' = msg /\ budget' = budget
  BY DEF CancelQuestions, Then, Rest
<1>2. Phase("tick") = "sweep1" /\ NameOf(Rest(at["tick"].todo)) = "sweep2" /\ On("tick") = Owner
  <2>1. On("tick") = Owner
    BY <1>1, Firsts DEF BoardInv, TickAt, At, First
  <2> QED
    BY <1>1, <2>1, SweepPhases
<1>3. card' \in CardRow /\ (Terminal' => Terminal)
  BY <1>1 DEF CancelQuestions, OwnerQueued, BoardInv, Terminal, Tables, CardRow
<1>4. Lasting
  BY <1>1 DEF Lasting, Present, St, Of
<1>5. /\ at' \in [Procs -> Proc] /\ Moves("tick", "sweep2") /\ WorkersAt' /\ OwnerAt' /\ TickAt'
  BY <1>1, <1>2, <1>3, <1>4, TickMoves
<1>6. DoneDelivered'
  BY <1>1, <1>3 DEF BoardInv, DoneDelivered, Delivered, Delivers, Present, St
<1> QED
  BY <1>1, <1>2, <1>3, <1>5, <1>6, QuietMove, Kinds DEF Moves, BoardInv, Tables, Unloaded

\* The card goes on after a round; a card that is done does not come back here.
LEMMA SweepProgressStep ==
  ASSUME BoardInv, ToProgress("tick")
  PROVE  BoardInv'
<1>1. At("tick", "toProgress") /\ Goes("tick", Rest(at["tick"].todo)) /\ msg' = msg /\ budget' = budget
  BY DEF ToProgress, Then, Rest
<1>2. Phase("tick") = "sweep2" /\ NameOf(Rest(at["tick"].todo)) = "sweep3" /\ On("tick") = Owner
  <2>1. On("tick") = Owner
    BY <1>1, Firsts DEF BoardInv, TickAt, At, First
  <2> QED
    BY <1>1, <2>1, SweepPhases
<1>3. card' \in CardRow /\ (Terminal' => Terminal)
  BY <1>1 DEF ToProgress, OwnerQueued, BoardInv, Terminal, Tables, CardRow
<1>4. Lasting
  BY <1>1 DEF Lasting, Present, St, Of
<1>5. /\ at' \in [Procs -> Proc] /\ Moves("tick", "sweep3") /\ WorkersAt' /\ OwnerAt' /\ TickAt'
  BY <1>1, <1>2, <1>3, <1>4, TickMoves
<1>6. DoneDelivered'
  BY <1>1, <1>3 DEF BoardInv, DoneDelivered, Delivered, Delivers, Present, St
<1> QED
  BY <1>1, <1>2, <1>3, <1>5, <1>6, QuietMove, Kinds DEF Moves, BoardInv, Tables, Unloaded

\* The owner gets a turn after a round.
LEMMA SweepWakesStep ==
  ASSUME BoardInv, WakeOwner("tick")
  PROVE  BoardInv'
<1>1. At("tick", "wakeOwner") /\ Goes("tick", Rest(at["tick"].todo)) /\ msg' = msg /\ budget' = budget
  BY DEF WakeOwner, Then, Rest
<1>2. Phase("tick") = "sweep3" /\ NameOf(Rest(at["tick"].todo)) = "idle" /\ On("tick") = Owner
  <2>1. On("tick") = Owner
    BY <1>1, Firsts DEF BoardInv, TickAt, At, First
  <2> QED
    BY <1>1, <2>1, SweepPhases
<1>3. card' \in CardRow /\ (Terminal' => Terminal)
  BY <1>1 DEF WakeOwner, OwnerQueued, BoardInv, Terminal, Tables, CardRow
<1>4. Lasting
  BY <1>1 DEF Lasting, Present, St, Of
<1>5. /\ at' \in [Procs -> Proc] /\ Moves("tick", "idle") /\ WorkersAt' /\ OwnerAt' /\ TickAt'
  BY <1>1, <1>2, <1>3, <1>4, TickMoves
<1>6. DoneDelivered'
  BY <1>1, <1>3 DEF BoardInv, DoneDelivered, Delivered, Delivers, Present, St
<1> QED
  BY <1>1, <1>2, <1>3, <1>5, <1>6, QuietMove, Kinds DEF Moves, BoardInv, Tables, Unloaded

\* resumeDelegatedQuestion: the request whose question was answered gets its next run.
LEMMA TickQueuesStep ==
  ASSUME BoardInv, QueueSame("tick"), NEW i, On("tick") = i
  PROVE  BoardInv'
<1> USE DEF RowsKept, Others, Busy
<1>1. At("tick", "queue") /\ Goes("tick", Rest(at["tick"].todo)) /\ card' = card /\ budget' = budget
  BY DEF QueueSame, Then, Rest
<1>2. /\ Phase("tick") = "queue" /\ NameOf(Rest(at["tick"].todo)) = "idle" /\ "tick" \in Procs
      /\ i \in Requests
  <2>1. at["tick"].todo = Queue /\ On("tick") \in Requests
    BY <1>1, RoundHeads DEF BoardInv, TickAt, At, First
  <2> QED
    BY <1>1, <2>1, Names, Rests, Kinds DEF Phase, At
<1>3. /\ i \in Comments /\ Present(i) /\ St(i) \in {"queued", "running"}
      /\ \A w \in Workers : Busy(w) /\ On(w) = i => ~Works(w)
      /\ Run(i) = "none" => Untouched(i) /\ St(i) = "queued"
      /\ \A p \in Procs : Phase(p) \in HandsOut => New(p) # i
  <2>1. /\ St(i) \in {"queued", "running"} /\ Present(i) /\ i \in Comments
        /\ \A w \in Workers : Busy(w) /\ On(w) = i => ~Works(w)
    BY <1>2, Kinds DEF BoardInv, Answering, TickOn, Present
  <2>2. Run(i) = "none" => \A w \in Workers : Busy(w) => On(w) # i
    BY <2>1, Kinds DEF BoardInv, Runs, Ended, Works
  <2>3. Run(i) = "none" => St(i) = "queued"
    BY <1>2, <2>1, <2>2, Kinds DEF BoardInv, Kept
  <2>4. \A p \in Procs : Phase(p) \in HandsOut => New(p) # i
    BY <1>2 DEF BoardInv, HandingOut, TickOn
  <2> QED
    BY <2>1, <2>2, <2>3, <2>4 DEF Untouched
<1>4. ~Terminal /\ ~Terminal'
  BY <1>1, <1>2, <1>3, NotDone DEF Terminal
<1>5. RunSet(i, IF Run(i) = "none" THEN "queued" ELSE Run(i))
  BY <1>3, <1>4, Queueing DEF QueueSame, On, BoardInv, Tables
<1>6. /\ msg' \in [Comments -> Row] /\ RowsKept({i}) /\ Lasting
      /\ St(i)' = St(i) /\ Of(i)' = Of(i)
           /\ Run(i)' = (IF Run(i) = "none" THEN "queued" ELSE Run(i)) /\ Up(i)' = Up(i) /\ Acc(i)' = Acc(i)
  BY <1>5 DEF RunSet
<1>7. /\ at' \in [Procs -> Proc] /\ Moves("tick", "idle") /\ WorkersAt' /\ OwnerAt' /\ TickAt'
  BY <1>1, <1>2, <1>4, <1>6, TickMoves
<1>8. /\ Others("tick") /\ Phase("tick")' = "idle"
      /\ \A v \in Workers : Phase(v)' = Phase(v) /\ On(v)' = On(v) /\ New(v)' = New(v)
  BY <1>7, Kinds DEF Moves
<1>9. \A p \in Procs, d \in Requests : Keeps(p, d) /\ d # i => Keeps(p, d)'
  <2>1. \A d \in Requests : Keeps("tick", d) => d = i
    BY <1>2, Kinds DEF Keeps, HandsOut
  <2> QED
    BY <2>1, <1>2, <1>8, <1>6, KeepsOn, Kinds
<1>10. Tables' /\ OneAtWork' /\ DoneDelivered'
  BY <1>1, <1>2, <1>4, <1>6, <1>7, <1>8, InOrder DEF BoardInv, Tables, DoneDelivered, Works
<1>11. Parents'
  BY <1>2, <1>3, <1>8, <1>6, InHand, Kinds, Cells DEF BoardInv, Parents, Present
<1>12. Runs'
  BY <1>2, <1>3, <1>8, <1>6, InHand, Kinds, Cells DEF BoardInv, Runs, Ended, Untouched
<1>13. Standings'
  BY <1>2, <1>3, <1>8, <1>6, InHand, Kinds, Cells DEF BoardInv, Standings, Standing, Untouched
<1>14. Answering'
  BY <1>2, <1>3, <1>8, <1>6, InHand, Kinds, Cells DEF BoardInv, Answering, TickOn, Works, Moves
<1>15. HandingOut'
  BY <1>2, <1>3, <1>8, <1>6, InHand, Kinds, Cells DEF BoardInv, HandingOut, HandsOut, TickOn,
    Untouched, Present
<1>16. HandingIn'
  BY <1>2, <1>3, <1>8, <1>6, InHand, Kinds, Cells DEF BoardInv, HandingIn, HandsIn, Untouched,
    Present
<1>17. UnderReview'
  BY <1>2, <1>3, <1>8, <1>6, InHand, Kinds, Cells DEF BoardInv, UnderReview, Inserting, HandsIn,
    Untouched, Present, Parents
<1>18. Reviewing'
  BY <1>2, <1>3, <1>8, <1>6, InHand, Kinds, Cells DEF BoardInv, Reviewing, Review, Untouched,
    Present, Parents, TickOn
<1>19. Integrated'
  BY <1>2, <1>3, <1>8, <1>6, InHand, Kinds, Cells DEF BoardInv, Integrated, Reported, Still,
    Present, Parents
<1>20. Kept'
  BY <1>2, <1>3, <1>8, <1>6, <1>9, InHand, Kinds, Cells DEF BoardInv, Kept, Inserting, HandsIn
<1> QED
  BY <1>7, <1>10, <1>11, <1>12, <1>13, <1>14, <1>15, <1>16, <1>17, <1>18, <1>19, <1>20 DEF BoardInv

\* The answer of a question settles it and changes what the request waits for.
LEMMA Answers ==
  ASSUME msg \in [Comments -> Row], NEW i \in Comments, NEW s \in {"queued", "failed"},
         msg' = [msg EXCEPT ![i].question = FALSE, ![i].status = s]
  PROVE  StatusSet(i, s)
<1>1. msg[i] \in Row /\ msg' = [msg EXCEPT ![i] = [msg[i] EXCEPT !.question = FALSE, !.status = s]]
  OBVIOUS
<1>2. [msg[i] EXCEPT !.question = FALSE, !.status = s] \in Row
  BY <1>1 DEF Row
<1>3. msg' \in [Comments -> Row] /\ \A d \in Comments \ {i} : msg'[d] = msg[d]
  BY <1>1, <1>2
<1>4. /\ msg'[i].status = s /\ msg'[i].of = msg[i].of /\ msg'[i].run = msg[i].run
      /\ msg'[i].up = msg[i].up /\ msg'[i].accepted = msg[i].accepted
  BY <1>1 DEF Row
<1>5. RowsKept({i})
  BY <1>3 DEF RowsKept, St, Of, Run, Up, Acc
<1>6. St(i)' = s /\ Of(i)' = Of(i) /\ Run(i)' = Run(i) /\ Up(i)' = Up(i) /\ Acc(i)' = Acc(i)
  BY <1>4 DEF St, Of, Run, Up, Acc
<1> QED
  BY <1>3, <1>5, <1>6 DEF StatusSet, Lasting, RowsKept, Present

\* answerPeerQuestion: the answer is there, and the request is about to go on.
LEMMA AnswerStep ==
  ASSUME BoardInv, NEW i \in Requests, AnswerQuestion(i),
         msg' = [msg EXCEPT ![i].question = FALSE, ![i].status = "queued"], TickGoes(i, <<"queue">>)
  PROVE  BoardInv'
<1> USE DEF RowsKept, Others, Busy
<1>1. /\ Phase("tick") = "idle" /\ at["tick"].pc = "idle" /\ "tick" \in Procs /\ St(i) = "waiting"
      /\ \A w \in Workers : at[w].pc = "work" => On(w) # i
  BY Kinds DEF AnswerQuestion, Phase, St, On
<1>2. /\ i \in Comments /\ Present(i)
      /\ \A w \in Workers : Busy(w) /\ On(w) = i => Phase(w) = "start"
      /\ \A p \in Procs : Phase(p) \in HandsOut => New(p) # i
      /\ \A j \in Reports : Of(j) = i => St(j) # "submitted"
      /\ ~Reported(i)
  <2>1. i \in Comments /\ Present(i)
    BY <1>1, Kinds DEF Present
  <2>2. ASSUME NEW w \in Workers, Busy(w), On(w) = i PROVE Phase(w) = "start"
    <3>1. ~Works(w)
      BY <1>1, <2>2, PhaseOf, Kinds
    <3>2. Phase(w) \in {"start", "call"}
      BY <2>2, <3>1 DEF Works
    <3> QED
      BY <1>1, <2>2, <3>2 DEF BoardInv, Standings, Standing
  <2>3. \A p \in Procs : Phase(p) \in HandsOut => New(p) # i
    BY <1>1 DEF BoardInv, HandingOut
  <2>4. ASSUME NEW j \in Reports, Of(j) = i, St(j) = "submitted" PROVE FALSE
    <3>1. PICK v \in Workers : Phase(v) \in HandsIn /\ New(v) = j
      BY <1>1, <2>4 DEF BoardInv, UnderReview, Inserting
    <3>2. On(v) = i
      BY <2>4, <3>1 DEF BoardInv, HandingIn
    <3> QED
      BY <3>1, <3>2, <2>2 DEF HandsIn
  <2>5. ~Reported(i)
    BY <1>1, <2>2 DEF Reported, BoardInv, Reviewing, Review
  <2> QED
    BY <2>1, <2>2, <2>3, <2>4, <2>5
<1>3. /\ ~Terminal /\ ~Terminal' /\ card' \in CardRow /\ budget' \in BudgetOf
  <2>1. ~Terminal
    BY <1>1, <1>2, NotDone
  <2> QED
    BY <2>1, Spending DEF AnswerQuestion, BoardInv, Tables, Terminal, CardRow
<1>4. /\ msg' \in [Comments -> Row] /\ RowsKept({i}) /\ Lasting
      /\ St(i)' = "queued" /\ Of(i)' = Of(i) /\ Run(i)' = Run(i) /\ Up(i)' = Up(i) /\ Acc(i)' = Acc(i)
  BY <1>2, Answers DEF StatusSet, BoardInv, Tables
<1>5. /\ at' \in [Procs -> Proc] /\ Others("tick") /\ Phase("tick")' = "queue" /\ On("tick")' = i
      /\ \A v \in Workers : Phase(v)' = Phase(v) /\ On(v)' = On(v) /\ New(v)' = New(v)
      /\ \A q \in Workers, p \in Procs : Outlasts(q, p) => Outlasts(q, p)'
      /\ WorkersAt' /\ OwnerAt' /\ TickAt'
  <2>1. Queue \in Lists /\ NameOf(Queue) = "queue" /\ TickGoes(i, Queue)
    BY Names DEF Lists, RequestWork, Queue
  <2> QED
    BY <2>1, <1>1, <1>3, <1>4, TickBegins, Kinds DEF Others
<1>6. \A p \in Procs, d \in Requests : Keeps(p, d) => Keeps(p, d)'
  <2>1. \A d \in Requests : ~Keeps("tick", d)
    BY <1>1, Kinds DEF Keeps, HandsOut
  <2> QED
    BY <2>1, <1>1, <1>5, <1>4, KeepsOn, Kinds
<1>7. Keeps("tick", i)'
  BY <1>5 DEF Keeps
<1>8. Tables' /\ OneAtWork' /\ DoneDelivered'
  <2>1. Tables' /\ DoneDelivered'
    BY <1>3, <1>4, <1>5 DEF BoardInv, Tables, DoneDelivered
  <2>2. \A v \in Workers : Busy(v) => Role(v)' = Role(v)
    <3>1. SUFFICES ASSUME NEW v \in Workers, Busy(v) PROVE Role(v)' = Role(v)
      OBVIOUS
    <3>2. On(v) \in Comments /\ Present(On(v))
      BY <3>1, InHand
    <3>3. On(v) \in Reports => Of(On(v)) \in Requests /\ Present(Of(On(v)))
      BY <3>2 DEF BoardInv, Parents
    <3> QED
      BY <3>1, <3>2, <3>3, <1>4, <1>5, Kinds DEF Role, Lasting
  <2>3. OneAtWork
    BY DEF BoardInv
  <2>4. OneAtWork'
    BY <2>2, <2>3, <1>5, Kinds DEF OneAtWork, Works
  <2> QED
    BY <2>1, <2>4
<1>9. Parents'
  BY <1>1, <1>2, <1>5, <1>4, InHand, Kinds, Cells DEF BoardInv, Parents, Present
<1>10. Runs'
  BY <1>1, <1>2, <1>5, <1>4, InHand, Kinds, Cells DEF BoardInv, Runs, Ended
<1>11. Standings'
  BY <1>1, <1>2, <1>5, <1>4, InHand, Kinds, Cells DEF BoardInv, Standings, Standing
<1>12. Answering'
  BY <1>1, <1>2, <1>5, <1>4, InHand, Kinds, Cells DEF BoardInv, Answering, TickOn, Works, Moves,
    Outlasts
<1>13. HandingOut'
  BY <1>1, <1>2, <1>5, <1>4, InHand, Kinds, Cells DEF BoardInv, HandingOut, HandsOut, TickOn,
    Untouched, Present
<1>14. HandingIn'
  BY <1>1, <1>2, <1>5, <1>4, InHand, Kinds, Cells DEF BoardInv, HandingIn, HandsIn, Untouched,
    Present
<1>15. UnderReview'
  BY <1>1, <1>2, <1>5, <1>4, InHand, Kinds, Cells DEF BoardInv, UnderReview, Inserting, HandsIn,
    Untouched, Present, Parents
<1>16. Reviewing'
  BY <1>1, <1>2, <1>5, <1>4, InHand, Kinds, Cells DEF BoardInv, Reviewing, Review, Untouched,
    Present, Parents, TickOn
<1>17. Integrated'
  BY <1>1, <1>2, <1>5, <1>4, InHand, Kinds, Cells DEF BoardInv, Integrated, Reported, Still,
    Present, Parents
<1>18. Kept'
  BY <1>1, <1>2, <1>5, <1>4, <1>6, <1>7, InHand, Kinds, Cells DEF BoardInv, Kept, Inserting, HandsIn
<1> QED
  BY <1>5, <1>8, <1>9, <1>10, <1>11, <1>12, <1>13, <1>14, <1>15, <1>16, <1>17, <1>18 DEF BoardInv

\* answerPeerQuestion: the call failed, and the card goes to its recovery.
LEMMA AnswerFailsStep ==
  ASSUME BoardInv, NEW i \in Requests, AnswerQuestion(i),
         msg' = [msg EXCEPT ![i].question = FALSE, ![i].status = "failed"], at' = at
  PROVE  BoardInv'
<1> USE DEF RowsKept, Others, Busy
<1>1. /\ Phase("tick") = "idle" /\ at["tick"].pc = "idle" /\ "tick" \in Procs /\ St(i) = "waiting"
      /\ \A w \in Workers : at[w].pc = "work" => On(w) # i
  BY Kinds DEF AnswerQuestion, Phase, St, On
<1>2. /\ i \in Comments /\ Present(i)
      /\ \A w \in Workers : Busy(w) /\ On(w) = i => Phase(w) = "start"
      /\ \A p \in Procs : Phase(p) \in HandsOut => New(p) # i
      /\ \A j \in Reports : Of(j) = i => St(j) # "submitted"
      /\ ~Reported(i)
  <2>1. i \in Comments /\ Present(i)
    BY <1>1, Kinds DEF Present
  <2>2. ASSUME NEW w \in Workers, Busy(w), On(w) = i PROVE Phase(w) = "start"
    <3>1. ~Works(w)
      BY <1>1, <2>2, PhaseOf, Kinds
    <3>2. Phase(w) \in {"start", "call"}
      BY <2>2, <3>1 DEF Works
    <3> QED
      BY <1>1, <2>2, <3>2 DEF BoardInv, Standings, Standing
  <2>3. \A p \in Procs : Phase(p) \in HandsOut => New(p) # i
    BY <1>1 DEF BoardInv, HandingOut
  <2>4. ASSUME NEW j \in Reports, Of(j) = i, St(j) = "submitted" PROVE FALSE
    <3>1. PICK v \in Workers : Phase(v) \in HandsIn /\ New(v) = j
      BY <1>1, <2>4 DEF BoardInv, UnderReview, Inserting
    <3>2. On(v) = i
      BY <2>4, <3>1 DEF BoardInv, HandingIn
    <3> QED
      BY <3>1, <3>2, <2>2 DEF HandsIn
  <2>5. ~Reported(i)
    BY <1>1, <2>2 DEF Reported, BoardInv, Reviewing, Review
  <2> QED
    BY <2>1, <2>2, <2>3, <2>4, <2>5
<1>3. /\ ~Terminal /\ ~Terminal' /\ card' \in CardRow /\ budget' \in BudgetOf
  <2>1. ~Terminal
    BY <1>1, <1>2, NotDone
  <2> QED
    BY <2>1, Spending DEF AnswerQuestion, BoardInv, Tables, Terminal, CardRow
<1>4. /\ msg' \in [Comments -> Row] /\ RowsKept({i}) /\ Lasting
      /\ St(i)' = "failed" /\ Of(i)' = Of(i) /\ Run(i)' = Run(i) /\ Up(i)' = Up(i) /\ Acc(i)' = Acc(i)
  BY <1>2, Answers DEF StatusSet, BoardInv, Tables
<1>5. /\ Others("tick") /\ Phase("tick")' = "idle" /\ On("tick")' = On("tick") /\ at' \in [Procs -> Proc]
      /\ \A v \in Workers : Phase(v)' = Phase(v) /\ On(v)' = On(v) /\ New(v)' = New(v)
      /\ \A q \in Workers, p \in Procs : Outlasts(q, p) => Outlasts(q, p)'
      /\ WorkersAt' /\ OwnerAt' /\ TickAt'
  <2>1. /\ at' = at /\ at \in [Procs -> Proc]
    BY DEF BoardInv, Tables
  <2>2. /\ Others("tick") /\ Phase("tick")' = "idle" /\ On("tick")' = On("tick")
        /\ \A v \in Workers : Phase(v)' = Phase(v) /\ On(v)' = On(v) /\ New(v)' = New(v)
        /\ \A q \in Workers, p \in Procs : Outlasts(q, p) => Outlasts(q, p)'
    BY <2>1, <1>1 DEF Others, Phase, On, New, Outlasts
  <2>3. WorkersAt'
    BY <2>1, <2>2, <1>4 DEF BoardInv, WorkersAt, Lasting
  <2>4. OwnerAt' /\ TickAt'
    BY <2>1, <1>3 DEF BoardInv, OwnerAt, TickAt, Phase, On
  <2> QED
    BY <2>1, <2>2, <2>3, <2>4
<1>6. \A p \in Procs, d \in Requests : Keeps(p, d) => Keeps(p, d)'
  <2>1. \A d \in Requests : ~Keeps("tick", d)
    BY <1>1, Kinds DEF Keeps, HandsOut
  <2> QED
    BY <2>1, <1>1, <1>5, <1>4, KeepsOn, Kinds
<1>7. Tables' /\ OneAtWork' /\ DoneDelivered'
  <2>1. Tables' /\ DoneDelivered'
    BY <1>3, <1>4, <1>5 DEF BoardInv, Tables, DoneDelivered
  <2>2. \A v \in Workers : Busy(v) => Role(v)' = Role(v)
    <3>1. SUFFICES ASSUME NEW v \in Workers, Busy(v) PROVE Role(v)' = Role(v)
      OBVIOUS
    <3>2. On(v) \in Comments /\ Present(On(v))
      BY <3>1, InHand
    <3>3. On(v) \in Reports => Of(On(v)) \in Requests /\ Present(Of(On(v)))
      BY <3>2 DEF BoardInv, Parents
    <3> QED
      BY <3>1, <3>2, <3>3, <1>4, <1>5, Kinds DEF Role, Lasting
  <2>3. OneAtWork
    BY DEF BoardInv
  <2>4. OneAtWork'
    BY <2>2, <2>3, <1>5, Kinds DEF OneAtWork, Works
  <2> QED
    BY <2>1, <2>4
<1>8. Parents'
  BY <1>1, <1>2, <1>5, <1>4, InHand, Kinds, Cells DEF BoardInv, Parents, Present
<1>9. Runs'
  BY <1>1, <1>2, <1>5, <1>4, InHand, Kinds, Cells DEF BoardInv, Runs, Ended
<1>10. Standings'
  BY <1>1, <1>2, <1>5, <1>4, InHand, Kinds, Cells DEF BoardInv, Standings, Standing
<1>11. Answering'
  BY <1>1, <1>2, <1>5, <1>4, InHand, Kinds, Cells DEF BoardInv, Answering, TickOn, Works, Moves
<1>12. HandingOut'
  BY <1>1, <1>2, <1>5, <1>4, InHand, Kinds, Cells DEF BoardInv, HandingOut, HandsOut, TickOn,
    Untouched, Present
<1>13. HandingIn'
  BY <1>1, <1>2, <1>5, <1>4, InHand, Kinds, Cells DEF BoardInv, HandingIn, HandsIn, Untouched,
    Present
<1>14. UnderReview'
  BY <1>1, <1>2, <1>5, <1>4, InHand, Kinds, Cells DEF BoardInv, UnderReview, Inserting, HandsIn,
    Untouched, Present, Parents
<1>15. Reviewing'
  BY <1>1, <1>2, <1>5, <1>4, InHand, Kinds, Cells DEF BoardInv, Reviewing, Review, Untouched,
    Present, Parents, TickOn
<1>16. Integrated'
  BY <1>1, <1>2, <1>5, <1>4, InHand, Kinds, Cells DEF BoardInv, Integrated, Reported, Still,
    Present, Parents
<1>17. Kept'
  BY <1>1, <1>2, <1>5, <1>4, <1>6, InHand, Kinds, Cells DEF BoardInv, Kept, Inserting, HandsIn
<1> QED
  BY <1>5, <1>7, <1>8, <1>9, <1>10, <1>11, <1>12, <1>13, <1>14, <1>15, <1>16, <1>17 DEF BoardInv

-----------------------------------------------------------------------------
(* Every step. *)

\* What a handler does to a row it has made or has in hand is one of the above: a run of
\* a request (dispatch.ts:2773-2990).
LEMMA RequestStatement ==
  ASSUME BoardInv, NEW w \in Workers, Statement(w), On(w) \in Requests
  PROVE  BoardInv'
<1>1. PICK i \in Requests : On(w) = i
  OBVIOUS
<1>2. CASE Report(w) \/ InsertRequest(w) \/ InsertReport(w)
  BY <1>1, <1>2, ReportStep, InsertRequestStep, InsertReportStep
<1>3. CASE QueueNew(w)
  <2>1. /\ Phase(w) = "report5" \/ Phase(w) = "split2"
        /\ w \in Procs
    BY <1>3, RequestPhases, Kinds DEF QueueNew
  <2>2. PICK c \in Comments : New(w) = c
    BY <2>1, Kinds DEF BoardInv, HandingIn, HandingOut, HandsIn, HandsOut
  <2> QED
    BY <1>1, <1>3, <2>1, <2>2, QueueReportStep, QueuePartStep
<1>4. CASE Mark(w, "submit") \/ Mark(w, "wait") \/ Ask(w) \/ Succeed(w) \/ Settle(w)
  BY <1>1, <1>4, SubmitStep, WaitStep, AskStep, SucceedStep, SettleStep
<1>5. CASE Fail(w) \/ Again(w) \/ QueueSame(w)
  BY <1>1, <1>5, FailStep, AgainStep, QueueStep
<1>6. CASE Approve(w) \/ Accept(w) \/ Resume(w) \/ WakeParent(w) \/ QueueParent(w)
  <2>1. PICK s : At(w, s) /\ s \in {"approve", "accept", "resume", "wakeParent", "queueParent"}
    BY <1>6 DEF Approve, Accept, Resume, WakeParent, QueueParent
  <2> QED
    BY <2>1, RequestPhases
<1>7. CASE WakeOwner(w) \/ Reject(w) \/ Requeue(w) \/ QueueRequest(w) \/ Escalate(w)
  <2>1. PICK s : At(w, s) /\ s \in {"wakeOwner", "reject", "requeue", "queueRequest", "escalate"}
    BY <1>7 DEF WakeOwner, Reject, Requeue, QueueRequest, Escalate
  <2> QED
    BY <2>1, RequestPhases
<1> QED
  BY <1>2, <1>3, <1>4, <1>5, <1>6, <1>7 DEF Statement

\* A review (dispatch.ts:2992-3060).
LEMMA ReviewStatement ==
  ASSUME BoardInv, NEW w \in Workers, Statement(w), On(w) \in Reports
  PROVE  BoardInv'
<1>1. PICK j \in Reports : On(w) = j
  OBVIOUS
<1>2. PICK i : Of(j) = i
  OBVIOUS
<1>3. PICK h : Of(i) = h
  OBVIOUS
<1>4. CASE Report(w) \/ InsertRequest(w) \/ InsertReport(w) \/ QueueNew(w) \/ Ask(w) \/ Settle(w)
  <2>1. PICK s : At(w, s) /\ s \in {"report", "insertRequest", "insertReport", "queueNew", "ask", "settle"}
    BY <1>4 DEF Report, InsertRequest, InsertReport, QueueNew, Ask, Settle
  <2> QED
    BY <2>1, ReviewPhases
<1>5. CASE Mark(w, "submit") \/ Mark(w, "wait")
  <2>1. PICK s : At(w, s) /\ s \in {"submit", "wait"}
    BY <1>5 DEF Mark
  <2> QED
    BY <2>1, ReviewPhases
<1>6. CASE Succeed(w) \/ Fail(w) \/ Again(w)
  BY <1>1, <1>2, <1>6, SucceedReviewStep, FailReviewStep, AgainReviewStep
<1>7. CASE QueueSame(w)
  <2>1. Phase(w) = "escalate2" \/ Phase(w) = "queue"
    BY <1>7, ReviewPhases DEF QueueSame
  <2> QED
    BY <1>1, <1>2, <1>7, <2>1, QueueReviewStep, QueueEscalatedStep
<1>8. CASE Approve(w) \/ Accept(w) \/ Resume(w) \/ WakeOwner(w)
  BY <1>1, <1>2, <1>8, ApproveStep, AcceptStep, ResumeStep, TellStep
<1>9. CASE WakeParent(w) \/ QueueParent(w)
  BY <1>1, <1>2, <1>3, <1>9, WakeParentStep, QueueParentStep
<1>10. CASE Reject(w) \/ Requeue(w) \/ QueueRequest(w) \/ Escalate(w)
  BY <1>1, <1>2, <1>10, RejectStep, RequeueStep, QueueRequestStep, EscalateStep
<1> QED
  BY <1>4, <1>5, <1>6, <1>7, <1>8, <1>9, <1>10 DEF Statement

\* A worker's step.
LEMMA WorkerStep ==
  ASSUME BoardInv, NEW w \in Workers, Worker(w) \/ Crash(w)
  PROVE  BoardInv'
<1>1. CASE \E c \in Comments : Claim(w, c)
  BY <1>1, ClaimStep
<1>2. CASE Start(w)
  <2>1. On(w) \in Comments
    BY <1>2 DEF Start, BoardInv, WorkersAt
  <2>2. PICK c \in Comments : On(w) = c
    BY <2>1
  <2> QED
    BY <1>2, <2>2, StartRequestStep, StartReviewStep, Kinds
<1>3. CASE RequestReturns(w)
  <2>1. PICK i \in Requests : On(w) = i
    BY <1>3 DEF RequestReturns, On
  <2> QED
    BY <1>3, <2>1, RequestReturnsStep
<1>4. CASE ReviewReturns(w)
  <2>1. PICK j \in Reports : On(w) = j
    BY <1>4 DEF ReviewReturns, On
  <2> QED
    BY <1>4, <2>1, ReviewReturnsStep
<1>5. CASE Statement(w)
  <2>1. PICK s : At(w, s)
    BY <1>5 DEF Statement, Report, InsertRequest, InsertReport, QueueNew, Mark, Ask, Succeed,
      Settle,
       Fail, Again, QueueSame, Approve, Accept, Resume, WakeParent, QueueParent, WakeOwner, Reject,
       Requeue, QueueRequest, Escalate
  <2>2. On(w) \in Requests \/ On(w) \in Reports
    BY <2>1, AtWork, Kinds
  <2> QED
    BY <1>5, <2>2, RequestStatement, ReviewStatement
<1>6. CASE Crash(w)
  <2>1. PICK i \in Requests : On(w) = i
    BY <1>6 DEF Crash, On
  <2> QED
    BY <1>6, <2>1, CrashStep
<1> QED
  BY <1>1, <1>2, <1>3, <1>4, <1>5, <1>6 DEF Worker

\* A step of the owner's turn.
LEMMA OwnerStep ==
  ASSUME BoardInv, OwnerTurn
  PROVE  BoardInv'
<1>1. CASE QueueNew("owner")
  <2>1. Phase("owner") \in HandsOut /\ "owner" \in Procs
    BY <1>1, OwnerPhases, Kinds DEF QueueNew, HandsOut
  <2>2. PICK k \in Comments : New("owner") = k
    BY <2>1, Kinds DEF BoardInv, HandingOut
  <2> QED
    BY <1>1, <2>2, OwnerQueuesStep
<1>2. CASE ~QueueNew("owner")
  BY <1>2, OwnerClaimsStep, OwnerReturnsStep, OwnerInsertsStep, ToProgressStep, OwnerDoneStep,
     ParkStep, OpenQuestionsStep, ToRoundStep, CheckStep, FinishStep DEF OwnerTurn
<1> QED
  BY <1>1, <1>2

\* A step of the tick: without timeouts it cancels no request and resumes nobody.
LEMMA TickStep ==
  ASSUME BoardInv, TickWorks
  PROVE  BoardInv'
<1>1. ASSUME NEW s, At("tick", s) PROVE s \in {"queue", "cancelQuestions", "toProgress", "wakeOwner"}
  BY <1>1, RoundHeads, Firsts DEF At, First, BoardInv, TickAt
<1>2. CASE Cancel \/ CancelRun \/ Resume("tick") \/ WakeParent("tick") \/ QueueParent("tick")
  <2>1. PICK s : At("tick", s) /\ s \in {"cancel", "cancelRun", "resume", "wakeParent", "queueParent"}
    BY <1>2 DEF Cancel, CancelRun, Resume, WakeParent, QueueParent
  <2> QED
    BY <1>1, <2>1
<1>3. CASE QueueSame("tick") \/ CancelQuestions \/ ToProgress("tick") \/ WakeOwner("tick")
  BY <1>3, TickQueuesStep, CancelQuestionsStep, SweepProgressStep, SweepWakesStep
<1> QED
  BY <1>2, <1>3 DEF TickWorks

\* An answer to a question of a request (answerPeerQuestion).
LEMMA QuestionStep ==
  ASSUME BoardInv, NEW i \in Requests, AnswerQuestion(i)
  PROVE  BoardInv'
<1>1. CASE msg' = [msg EXCEPT ![i].question = FALSE, ![i].status = "queued"] /\ TickGoes(i, <<"queue">>)
  BY <1>1, AnswerStep
<1>2. CASE msg' = [msg EXCEPT ![i].question = FALSE, ![i].status = "failed"] /\ at' = at
  BY <1>2, AnswerFailsStep
<1> QED
  BY <1>1, <1>2 DEF AnswerQuestion

\* While no request times out, every step of the board keeps the invariant.
LEMMA BoardStep ==
  ASSUME BoardInv, InTime, [BoardNext]_boardVars
  PROVE  BoardInv'
<1>1. CASE \E w \in Workers : Worker(w) \/ Crash(w)
  BY <1>1, WorkerStep
<1>2. CASE OwnerTurn \/ TickWorks
  BY <1>2, OwnerStep, TickStep
<1>3. CASE \E i \in Requests : Expire(i) \/ AnswerQuestion(i)
  BY <1>3, QuestionStep DEF Expire, InTime
<1>4. CASE \E k \in 1 .. MaxRounds, h \in Heads : AnswerProposal(k, h)
  BY <1>4, QuietStep DEF AnswerProposal, BoardInv, Tables, Terminal
<1>5. CASE SweepRound
  BY <1>5, SweepRoundStep
<1>6. CASE UNCHANGED boardVars
  BY <1>6, QuietStep DEF boardVars, BoardInv, Tables, Terminal
<1> QED
  BY <1>1, <1>2, <1>3, <1>4, <1>5, <1>6 DEF BoardNext

\* Whether requests may expire is fixed when the board is made.
LEMMA BudgetStep ==
  ASSUME budget \in BudgetOf, [BoardNext]_boardVars
  PROVE  budget' \in BudgetOf /\ budget'.expire = budget.expire
<1>1. \A p : Statement(p) => budget' = budget
  BY DEF Statement, Report, InsertRequest, InsertReport, QueueNew, Mark, Ask, Succeed, Settle,
     Fail, Again, QueueSame, Approve, Accept, Resume, WakeParent, QueueParent, WakeOwner, Reject,
     Requeue, QueueRequest, Escalate
<1>2. CASE \E w \in Workers : Worker(w) \/ Crash(w)
  <2>1. PICK w \in Workers : Worker(w) \/ Crash(w)
    BY <1>2
  <2>2. CASE \E c \in Comments : Claim(w, c)
    BY <2>2 DEF Claim
  <2>3. CASE Start(w)
    BY <2>3 DEF Start
  <2>4. CASE RequestReturns(w)
    BY <2>4, Spending DEF RequestReturns
  <2>5. CASE ReviewReturns(w)
    BY <2>5, Spending DEF ReviewReturns
  <2>6. CASE Crash(w)
    BY <2>6, Spending DEF Crash
  <2> QED
    BY <1>1, <2>1, <2>2, <2>3, <2>4, <2>5, <2>6 DEF Worker
<1>3. CASE OwnerTurn
  BY <1>3, Spending DEF OwnerTurn, OwnerClaims, OwnerReturns, OwnerDelegates, OwnerBroadcasts,
     InsertRequest, QueueNew, ToProgress, OwnerDone, Park, OpenQuestions, ToRound, Check, Finish
<1>4. CASE TickWorks
  BY <1>4 DEF TickWorks, Cancel, CancelRun, Resume, WakeParent, QueueParent, QueueSame,
     CancelQuestions, ToProgress, WakeOwner
<1>5. CASE \E i \in Requests : Expire(i) \/ AnswerQuestion(i)
  BY <1>5, Spending DEF Expire, AnswerQuestion
<1>6. CASE \E k \in 1 .. MaxRounds, h \in Heads : AnswerProposal(k, h)
  BY <1>6 DEF AnswerProposal
<1>7. CASE SweepRound \/ UNCHANGED boardVars
  BY <1>7 DEF SweepRound, boardVars
<1> QED
  BY <1>2, <1>3, <1>4, <1>5, <1>6, <1>7 DEF BoardNext

\* A board nobody has worked on.
LEMMA BoardStart ==
  ASSUME BoardInit
  PROVE  BoardInv /\ budget \in BudgetOf
<1>1. budget \in BudgetOf
  BY BoardAssumption DEF BoardInit
<1>2. \A p \in Procs : /\ at[p].pc = "idle" /\ at[p].todo = <<>> /\ at[p].on = Owner /\ at[p].new = Owner
                       /\ at[p] \in Proc
  BY DEF BoardInit, Idle, Proc, Owner, Lists
<1>3. \A c \in Comments : /\ St(c) = "absent" /\ Of(c) = Owner /\ Run(c) = "none"
                          /\ Up(c) = FALSE /\ Acc(c) = FALSE /\ msg[c] \in Row
  BY DEF BoardInit, Row, Owner, St, Of, Run, Up, Acc
<1>4. card \in CardRow /\ ~Terminal
  BY DEF BoardInit, CardRow, Terminal
<1>5. Tables
  <2>1. msg \in [Comments -> Row]
    BY <1>3 DEF BoardInit
  <2>2. at \in [Procs -> Proc]
    BY <1>2 DEF BoardInit
  <2> QED
    BY <1>1, <1>4, <2>1, <2>2 DEF Tables
<1>6. \A p \in Procs : Phase(p) = "idle" /\ ~Busy(p) /\ On(p) = Owner /\ New(p) = Owner
  BY <1>2 DEF Phase, Busy, On, New
<1>7. WorkersAt /\ OwnerAt /\ TickAt
  BY <1>2, <1>6, Kinds DEF WorkersAt, OwnerAt, TickAt
<1>8. Parents /\ Runs /\ OneAtWork
  BY <1>3, <1>6, Kinds DEF Parents, Runs, OneAtWork, Present, Ended
<1>9. Standings /\ Answering /\ HandingOut /\ HandingIn
  BY <1>3, <1>6, Kinds DEF Standings, Standing, Answering, HandingOut, HandingIn, TickOn,
    HandsOut, HandsIn
<1>10. UnderReview /\ Reviewing /\ Integrated
  BY <1>3, <1>6, Kinds DEF UnderReview, Reviewing, Integrated, Reported
<1>11. Kept /\ DoneDelivered
  BY <1>3, <1>4, Kinds DEF Kept, DoneDelivered
<1> QED
  BY <1>1, <1>5, <1>7, <1>8, <1>9, <1>10, <1>11 DEF BoardInv

-----------------------------------------------------------------------------
(* What follows. *)

\* Where a row is kept, the list says that it will be queued.
LEMMA PromisesOf ==
  ASSUME NEW t \in Lists,
         NameOf(t) \in {"retry2", "queue", "split2", "owner2", "owner4", "revise3", "wake2"} \cup HandsIn
  PROVE  \E n \in DOMAIN t : t[n] \in Promises
<1>1. t \in {Retry2, Queue, Split2, Owner2, Owner4, Revise3, Wake2, Report3, Report4, Report5}
  BY Names DEF Lists, RequestWork, ReviewWork, OwnerWork, RoundWork, HandsIn
<1>2. CASE t \in {Queue, Split2, Owner2, Owner4, Revise3, Wake2, Report5}
  <2>1. 1 \in DOMAIN t /\ t[1] \in Promises
    BY <1>2 DEF Promises, Queue, Split2, Owner2, Owner4, Revise3, Wake2, Report5
  <2> QED
    BY <2>1
<1>3. CASE t \in {Retry2, Report4}
  <2>1. 2 \in DOMAIN t /\ t[2] \in Promises
    BY <1>3 DEF Promises, Retry2, Report4
  <2> QED
    BY <2>1
<1>4. CASE t = Report3
  <2>1. 3 \in DOMAIN t /\ t[3] \in Promises
    BY <1>4 DEF Promises, Report3
  <2> QED
    BY <2>1
<1> QED
  BY <1>1, <1>2, <1>3, <1>4

\* Whoever keeps a request, or hands in a report, will queue it.
LEMMA KeepersQueue ==
  ASSUME BoardInv, NEW p \in Procs, NEW c \in Comments,
         \/ c \in Requests /\ Keeps(p, c)
         \/ p \in Workers /\ Phase(p) \in HandsIn /\ New(p) = c
         \/ p \in Workers /\ On(p) = c /\ Phase(p) \in {"retry2", "queue"}
  PROVE  WillQueue(c)
<1>1. Phase(p) \in {"retry2", "queue", "split2", "owner2", "owner4", "revise3", "wake2"} \cup HandsIn
  BY DEF Keeps, HandsOut
<1>2. at[p].pc = "work" /\ Phase(p) = NameOf(at[p].todo) /\ at[p].todo \in Lists
  BY <1>1, PhaseOf DEF Works, HandsIn, Phase, BoardInv, Tables, Proc
<1>3. \E n \in DOMAIN at[p].todo : at[p].todo[n] \in Promises
  BY <1>1, <1>2, PromisesOf
<1>4. \/ c \in {at[p].on, at[p].new}
      \/ at[p].on # 0 /\ (c = About(p) \/ c = msg[About(p)].of)
  <2>1. CASE On(p) \in Reports /\ Phase(p) \in {"revise3", "wake2"}
    <3>1. at[p].on # 0 /\ About(p) = Of(On(p))
      BY <2>1, Kinds DEF About, On, Of, Owner
    <3> QED
      BY <2>1, <3>1, <1>1 DEF Keeps, On, New, Of, HandsOut, HandsIn
  <2>2. CASE ~(On(p) \in Reports /\ Phase(p) \in {"revise3", "wake2"})
    BY <2>2 DEF Keeps, On, New
  <2> QED
    BY <2>1, <2>2
<1> QED
  BY <1>2, <1>3, <1>4 DEF WillQueue

\* The board is in order: each of its runs, handlers and rows is where the others
\* expect it to be, from the first request to the end, however agents answer, fail or
\* die, unless requests expire.
THEOREM BoardInvariant == BoardSpec => [](InTime => BoardInv)
<1> DEFINE Inv == budget \in BudgetOf /\ (InTime => BoardInv)
<1>1. BoardInit => Inv
  BY BoardStart
<1>2. Inv /\ [BoardNext]_boardVars => Inv'
  <2>1. SUFFICES ASSUME Inv, [BoardNext]_boardVars PROVE Inv'
    OBVIOUS
  <2>2. budget' \in BudgetOf /\ (InTime' => InTime)
    BY <2>1, BudgetStep DEF InTime
  <2> QED
    BY <2>1, <2>2, BoardStep
<1>3. Inv => (InTime => BoardInv)
  OBVIOUS
<1> QED
  BY <1>1, <1>2, <1>3, PTL DEF BoardSpec

\* Custody (enqueueMessageTaskRun and everything that calls it): what is queued or under
\* review has a run, or a process that is about to queue one.
THEOREM MessagesAreInCustody == BoardSpec => []MessageInCustody
<1>1. (InTime => BoardInv) => MessageInCustody
  <2>1. SUFFICES ASSUME BoardInv, NEW c \in Comments, Pending(c), msg[c].run = "none"
                 PROVE  WillQueue(c)
    BY DEF MessageInCustody
  <2>2. Run(c) = "none"
    BY <2>1 DEF Run
  <2>3. CASE c \in Requests
    <3>1. St(c) \in {"queued", "running"}
      BY <2>1, <2>3 DEF Pending, St
    <3>2. \/ \E p \in Procs : Keeps(p, c)
          \/ \E w \in Workers : On(w) = c /\ Phase(w) = "retry2"
      BY <2>1, <2>2, <2>3, <3>1, Kinds DEF BoardInv, Kept
    <3> QED
      BY <2>1, <2>3, <3>2, KeepersQueue, Kinds
  <2>4. CASE c \in Reports
    <3>1. St(c) = "submitted" /\ ~Up(c)
      BY <2>1, <2>4, Kinds DEF Pending, St, Up
    <3>2. \E w \in Workers : \/ Phase(w) \in HandsIn /\ New(w) = c
                             \/ On(w) = c /\ Phase(w) \in {"retry2", "queue"}
      BY <2>1, <2>2, <2>4, <3>1 DEF BoardInv, Kept, Inserting
    <3> QED
      BY <2>1, <3>2, KeepersQueue, Kinds
  <2> QED
    BY <2>1, <2>3, <2>4, Kinds
<1> QED
  BY <1>1, BoardInvariant, PTL

\* Delivery (completionEvidenceReady against what runs after it): a finished card stays
\* covered by evidence, every request of every level approved and its report accepted.
THEOREM DoneMeansDelivered == BoardSpec => []DoneIsDelivered
<1>1. (InTime => BoardInv) => DoneIsDelivered
  BY DEF DoneIsDelivered, BoardInv, DoneDelivered, Present, St
<1> QED
  BY <1>1, BoardInvariant, PTL
====
