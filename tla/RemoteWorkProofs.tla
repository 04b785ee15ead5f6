------------------------- MODULE RemoteWorkProofs --------------------------
(***************************************************************************)
(* The safety properties of the remote work of an agent, proved for any    *)
(* number of messages, runs, consumers and sweepers and for any failures.  *)
(*                                                                         *)
(* The argument has four parts, each inductive over the types:             *)
(*   Submissions  a message leaves once, and what the journal says of a    *)
(*                task is what the gateway did with it;                    *)
(*   OnePending   one journal at a time holds the agent;                   *)
(*   Accounting   a run has its usage entry before its journal, and one    *)
(*                consumer until then;                                     *)
(*   Replies      one consumer at a time holds the row of a chat job, and  *)
(*                its reply is saved before its actions are applied.       *)
(***************************************************************************)
EXTENDS RemoteWork, FiniteSetTheorems, TLAPS

JobRow ==
  [status : {"none", "queued", "running", "done"}, holder : Consumers \cup {None},
   lease : BOOLEAN, reply : {None, "agent", "system"}, applied : Nat, revoked : BOOLEAN]
JournalRow ==
  [phase : {"absent", "preparing", "sending", "polling", "terminal", "reconciliation_required"},
   active : BOOLEAN, baseline : BOOLEAN, task : BOOLEAN, late : BOOLEAN,
   outcome : Outcomes \cup {None}, token : Sweepers \cup {None}]
RemoteRow ==
  [sends : Nat, wire : {None, "sent", "lost"}, task : Outcomes \cup {None, "working"}]
ConsumerState ==
  [pc : {"idle", "prior", "admit", "begin", "poll", "settle", "project", "apply", "finish"},
   w : Works \cup {None}, owns : BOOLEAN, prior : BOOLEAN,
   result : {None, "answer", "failure"}]
Verdict ==
  [w : Works, state : {"never_submitted", "resolved", "unresolved"},
   outcome : Outcomes \cup {None}, task : BOOLEAN]

\* Type correctness of the tables, the gateway and the memory of the processes.
RemoteTypeOK ==
  /\ job \in [Works -> JobRow]
  /\ entry \in [Works -> {"none", "admitted", "settled"}]
  /\ journal \in [Works -> JournalRow]
  /\ remote \in [Works -> RemoteRow]
  /\ at \in [Consumers -> ConsumerState]
  /\ \A c \in Consumers : at[c].pc # "idle" => at[c].w \in Works
  /\ sw \in [Sweepers -> Verdict \cup {None}]
  /\ busy \in BOOLEAN
  /\ budget \in BudgetOf

\* A message leaves once, a journal that is still open is active, an outcome in the
\* journal is the one of the gateway's task, and what may be running is pending.
Recorded(w) ==
  /\ journal[w].phase = "absent" => ~journal[w].active
  /\ journal[w].phase \in {"absent", "preparing"} => remote[w].sends = 0
  /\ remote[w].sends <= 1
  /\ remote[w].sends = 0 => remote[w].wire = None /\ remote[w].task = None
  /\ remote[w].task # None => remote[w].wire = None
  /\ journal[w].phase \in {"preparing", "sending", "polling"} => journal[w].active
  /\ journal[w].outcome # None => remote[w].task = journal[w].outcome
  /\ journal[w].phase = "terminal" => journal[w].outcome # None
  /\ MayBeRunning(w) => Pending(journal, w)
\* A sweeper that has proof has the outcome of the task.
Proven(s) ==
  sw[s] # None /\ sw[s].state = "resolved" =>
    sw[s].outcome \in Naturally /\ remote[sw[s].w].task = sw[s].outcome
Submissions == (\A w \in Works : Recorded(w)) /\ (\A s \in Sweepers : Proven(s))

\* One journal at a time holds the agent.
OnePending ==
  \A v, w \in Works : Pending(journal, v) /\ Pending(journal, w) => v = w

\* What a consumer knows of the usage entry of its work.
Accounted(c) ==
  /\ at[c].pc = "begin" => entry[at[c].w] # "none"
  /\ at[c].prior => at[c].pc = "admit" /\ entry[at[c].w] # "none"
  /\ at[c].pc \in {"prior", "apply", "finish"} => at[c].w \in Chats
  /\ at[c].pc # "idle" => job[at[c].w].status # "none"
  /\ at[c].pc = "project" /\ at[c].w \in Runs /\ Known(at[c].w) => entry[at[c].w] = "settled"
\* Two consumers of a run, and the run has no journal yet.
Racing(c, d) ==
  /\ at[c].pc # "idle" /\ at[d].pc # "idle"
  /\ at[c].w = at[d].w /\ at[c].w \in Runs /\ ~Known(at[c].w)
Accounting ==
  /\ \A w \in Works : Known(w) => entry[w] # "none"
  /\ \A c \in Consumers : Accounted(c)
  /\ \A c, d \in Consumers : Racing(c, d) => c = d
  /\ ReleasedIsSettled

\* A consumer that holds the row of a job locked has a saved reply, not yet applied
\* when it is about to apply it.
Holding(c) == at[c].pc \in {"apply", "finish"}
Replying(c) ==
  /\ Holding(c) => job[at[c].w].status = "running" /\ job[at[c].w].reply # None
  /\ at[c].pc = "apply" => job[at[c].w].applied = 0
\* What was applied once is saved or over.
AppliedOnce(w) ==
  /\ job[w].applied <= 1
  /\ job[w].applied > 0 => job[w].status = "done" \/ job[w].reply # None
Replies ==
  /\ \A c \in Consumers : Replying(c)
  /\ \A c, d \in Consumers : Holding(c) /\ Holding(d) /\ at[c].w = at[d].w => c = d
  /\ \A w \in Works : AppliedOnce(w)

RemoteInv == RemoteTypeOK /\ Submissions /\ OnePending /\ Accounting /\ Replies
-----------------------------------------------------------------------------
(* Updates of a table, seen row by row. *)

JobSet(w, row) ==
  row \in JobRow /\ job'[w] = row /\ \A v \in Works \ {w} : job'[v] = job[v]
JournalSet(w, row) ==
  row \in JournalRow /\ journal'[w] = row /\ \A v \in Works \ {w} : journal'[v] = journal[v]
ConsumerSet(c, rec) ==
  /\ rec \in ConsumerState /\ (rec.pc # "idle" => rec.w \in Works)
  /\ at'[c] = rec /\ \A d \in Consumers \ {c} : at'[d] = at[d]

\* Writing a well-formed row into a table of jobs.
LEMMA JobUpdate ==
  ASSUME RemoteTypeOK, NEW w \in Works, NEW row \in JobRow, job' = [job EXCEPT ![w] = row]
  PROVE  job' \in [Works -> JobRow] /\ JobSet(w, row)
BY DEF RemoteTypeOK, JobSet

\* Writing a well-formed row into the journals.
LEMMA JournalUpdate ==
  ASSUME RemoteTypeOK, NEW w \in Works, NEW row \in JournalRow,
         journal' = [journal EXCEPT ![w] = row]
  PROVE  journal' \in [Works -> JournalRow] /\ JournalSet(w, row)
BY DEF RemoteTypeOK, JournalSet

\* A consumer moves to a well-formed state.
LEMMA ConsumerUpdate ==
  ASSUME RemoteTypeOK, NEW c \in Consumers, NEW rec \in ConsumerState,
         rec.pc # "idle" => rec.w \in Works, at' = [at EXCEPT ![c] = rec]
  PROVE  /\ at' \in [Consumers -> ConsumerState]
         /\ \A d \in Consumers : at'[d].pc # "idle" => at'[d].w \in Works
         /\ ConsumerSet(c, rec)
BY DEF RemoteTypeOK, ConsumerSet

\* A consumer that works is at a row of the tables.
LEMMA AtWork ==
  ASSUME RemoteTypeOK, NEW c \in Consumers
  PROVE  /\ at[c] \in ConsumerState
         /\ at[c].pc # "idle" => at[c].w \in Works /\ job[at[c].w] \in JobRow
                                  /\ journal[at[c].w] \in JournalRow
BY DEF RemoteTypeOK

\* The state of an idle consumer, and a job that is only created or done.
LEMMA RestingRows ==
  ASSUME RemoteAssumption
  PROVE  /\ Idle \in ConsumerState
         /\ NoJob \in JobRow
BY DEF Idle, NoJob, ConsumerState, JobRow

\* EnqueueChat, row by row.
LEMMA EnqueueChatEffect ==
  ASSUME RemoteAssumption, RemoteTypeOK, NEW w \in Works, EnqueueChat(w)
  PROVE  /\ RemoteTypeOK'
         /\ JobSet(w, [job[w] EXCEPT !.status = "queued"])
<1> DEFINE row == [job[w] EXCEPT !.status = "queued"]
<1>1. job' \in [Works -> JobRow] /\ JobSet(w, row)
  <2>1. job[w] \in JobRow
    BY DEF RemoteTypeOK
  <2>2. row \in JobRow
    BY <2>1, RestingRows, RemoteAssumption DEF JobRow, Works
  <2>3. job' = [job EXCEPT ![w] = row]
    BY DEF EnqueueChat
  <2>4. QED
    BY <2>1, <2>2, <2>3, JobUpdate
<1>2. QED
  BY <1>1 DEF EnqueueChat, RemoteTypeOK

\* StartRun, row by row.
LEMMA StartRunEffect ==
  ASSUME RemoteAssumption, RemoteTypeOK, NEW c \in Consumers, NEW w \in Works, StartRun(c, w)
  PROVE  /\ RemoteTypeOK'
         /\ JobSet(w, [job[w] EXCEPT !.status = "running", !.holder = c, !.lease = TRUE])
         /\ ConsumerSet(c, [Idle EXCEPT !.pc = "admit", !.w = w])
<1> DEFINE row == [job[w] EXCEPT !.status = "running", !.holder = c, !.lease = TRUE]
<1> DEFINE rec == [Idle EXCEPT !.pc = "admit", !.w = w]
<1>1. job' \in [Works -> JobRow] /\ JobSet(w, row)
  <2>1. job[w] \in JobRow
    BY DEF RemoteTypeOK
  <2>2. row \in JobRow
    BY <2>1, RestingRows, RemoteAssumption DEF JobRow, Works
  <2>3. job' = [job EXCEPT ![w] = row]
    BY DEF StartRun
  <2>4. QED
    BY <2>1, <2>2, <2>3, JobUpdate
<1>2. /\ at' \in [Consumers -> ConsumerState]
      /\ \A d \in Consumers : at'[d].pc # "idle" => at'[d].w \in Works
      /\ ConsumerSet(c, rec)
  <2>2. rec \in ConsumerState /\ rec.w \in Works
    BY RestingRows, RemoteAssumption DEF ConsumerState, Idle, Works
  <2>3. at' = [at EXCEPT ![c] = rec]
    BY DEF StartRun, Goto
  <2>4. QED
    BY <2>2, <2>3, ConsumerUpdate
<1>3. QED
  BY <1>1, <1>2 DEF StartRun, RemoteTypeOK

\* ClaimChat, row by row.
LEMMA ClaimChatEffect ==
  ASSUME RemoteAssumption, RemoteTypeOK, NEW c \in Consumers, NEW w \in Works, ClaimChat(c, w)
  PROVE  /\ RemoteTypeOK'
         /\ JobSet(w, [job[w] EXCEPT !.status = "running", !.holder = c, !.lease = TRUE])
         /\ ConsumerSet(c, [Idle EXCEPT !.w = w,
                  !.pc = IF job[w].reply # None THEN AfterSavedReply
                         ELSE IF job[w].revoked THEN "project" ELSE "prior",
                  !.result = IF job[w].revoked THEN "failure" ELSE None])
<1> DEFINE row == [job[w] EXCEPT !.status = "running", !.holder = c, !.lease = TRUE]
<1> DEFINE rec == [Idle EXCEPT !.w = w,
                  !.pc = IF job[w].reply # None THEN AfterSavedReply
                         ELSE IF job[w].revoked THEN "project" ELSE "prior",
                  !.result = IF job[w].revoked THEN "failure" ELSE None]
<1>1. job' \in [Works -> JobRow] /\ JobSet(w, row)
  <2>1. job[w] \in JobRow
    BY DEF RemoteTypeOK
  <2>2. row \in JobRow
    BY <2>1, RestingRows, RemoteAssumption DEF JobRow, Works, AfterSavedReply
  <2>3. job' = [job EXCEPT ![w] = row]
    BY DEF ClaimChat
  <2>4. QED
    BY <2>1, <2>2, <2>3, JobUpdate
<1>2. /\ at' \in [Consumers -> ConsumerState]
      /\ \A d \in Consumers : at'[d].pc # "idle" => at'[d].w \in Works
      /\ ConsumerSet(c, rec)
  <2>2. rec \in ConsumerState /\ rec.w \in Works
    BY RestingRows, RemoteAssumption DEF ConsumerState, Idle, Works, AfterSavedReply
  <2>3. at' = [at EXCEPT ![c] = rec]
    BY DEF ClaimChat, Goto, AfterSavedReply
  <2>4. QED
    BY <2>2, <2>3, ConsumerUpdate
<1>3. QED
  BY <1>1, <1>2 DEF ClaimChat, RemoteTypeOK

\* RecoverRun, row by row.
LEMMA RecoverRunEffect ==
  ASSUME RemoteAssumption, RemoteTypeOK, NEW c \in Consumers, NEW w \in Works, RecoverRun(c, w)
  PROVE  /\ RemoteTypeOK'
         /\ JobSet(w, [job[w] EXCEPT !.holder = c, !.lease = TRUE])
         /\ ConsumerSet(c, [Idle EXCEPT !.pc = "admit", !.w = w])
<1> DEFINE row == [job[w] EXCEPT !.holder = c, !.lease = TRUE]
<1> DEFINE rec == [Idle EXCEPT !.pc = "admit", !.w = w]
<1>1. job' \in [Works -> JobRow] /\ JobSet(w, row)
  <2>1. job[w] \in JobRow
    BY DEF RemoteTypeOK
  <2>2. row \in JobRow
    BY <2>1, RestingRows, RemoteAssumption DEF JobRow, Works
  <2>3. job' = [job EXCEPT ![w] = row]
    BY DEF RecoverRun
  <2>4. QED
    BY <2>1, <2>2, <2>3, JobUpdate
<1>2. /\ at' \in [Consumers -> ConsumerState]
      /\ \A d \in Consumers : at'[d].pc # "idle" => at'[d].w \in Works
      /\ ConsumerSet(c, rec)
  <2>2. rec \in ConsumerState /\ rec.w \in Works
    BY RestingRows, RemoteAssumption DEF ConsumerState, Idle, Works
  <2>3. at' = [at EXCEPT ![c] = rec]
    BY DEF RecoverRun, Goto
  <2>4. QED
    BY <2>2, <2>3, ConsumerUpdate
<1>3. QED
  BY <1>1, <1>2 DEF RecoverRun, RemoteTypeOK

\* FailStaleRun, row by row.
LEMMA FailStaleRunEffect ==
  ASSUME RemoteAssumption, RemoteTypeOK, NEW w \in Works, FailStaleRun(w)
  PROVE  /\ RemoteTypeOK'
         /\ JobSet(w, [NoJob EXCEPT !.status = "done", !.applied = job[w].applied])
<1> DEFINE row == [NoJob EXCEPT !.status = "done", !.applied = job[w].applied]
<1>1. job' \in [Works -> JobRow] /\ JobSet(w, row)
  <2>1. job[w] \in JobRow
    BY DEF RemoteTypeOK
  <2>2. row \in JobRow
    BY <2>1, RestingRows, RemoteAssumption DEF JobRow, NoJob, Works
  <2>3. job' = [job EXCEPT ![w] = row]
    BY DEF FailStaleRun, Finished
  <2>4. QED
    BY <2>1, <2>2, <2>3, JobUpdate
<1>2. QED
  BY <1>1 DEF FailStaleRun, RemoteTypeOK

\* LoseLease, row by row.
LEMMA LoseLeaseEffect ==
  ASSUME RemoteAssumption, RemoteTypeOK, NEW c \in Consumers, LoseLease(c)
  PROVE  /\ RemoteTypeOK'
         /\ ConsumerSet(c, Idle)
<1> DEFINE rec == Idle
<1>0. at[c] \in ConsumerState /\ at[c].w \in Works
         /\ job[at[c].w] \in JobRow /\ journal[at[c].w] \in JournalRow
  BY AtWork DEF LoseLease
<1>1. /\ at' \in [Consumers -> ConsumerState]
      /\ \A d \in Consumers : at'[d].pc # "idle" => at'[d].w \in Works
      /\ ConsumerSet(c, rec)
  <2>2. rec \in ConsumerState
    BY <1>0, RestingRows, RemoteAssumption DEF ConsumerState, Idle
  <2>3. at' = [at EXCEPT ![c] = rec]
    BY DEF LoseLease, Goto, Rest
  <2>4. QED
    BY <2>2, <2>3, ConsumerUpdate DEF Idle
<1>2. QED
  BY <1>0, <1>1 DEF LoseLease, RemoteTypeOK

\* ReadPrior, row by row.
LEMMA ReadPriorEffect ==
  ASSUME RemoteAssumption, RemoteTypeOK, NEW c \in Consumers, ReadPrior(c)
  PROVE  /\ RemoteTypeOK'
         /\ ConsumerSet(c, [at[c] EXCEPT !.pc = "admit", !.prior = entry[at[c].w] # "none"])
<1> DEFINE rec == [at[c] EXCEPT !.pc = "admit", !.prior = entry[at[c].w] # "none"]
<1>0. at[c] \in ConsumerState /\ at[c].w \in Works
         /\ job[at[c].w] \in JobRow /\ journal[at[c].w] \in JournalRow
  BY AtWork DEF ReadPrior
<1>1. /\ at' \in [Consumers -> ConsumerState]
      /\ \A d \in Consumers : at'[d].pc # "idle" => at'[d].w \in Works
      /\ ConsumerSet(c, rec)
  <2>2. rec \in ConsumerState /\ rec.w \in Works
    BY <1>0, RestingRows, RemoteAssumption DEF ConsumerState
  <2>3. at' = [at EXCEPT ![c] = rec]
    BY DEF ReadPrior, Goto
  <2>4. QED
    BY <2>2, <2>3, ConsumerUpdate
<1>2. QED
  BY <1>0, <1>1 DEF ReadPrior, RemoteTypeOK

\* Submit, row by row.
LEMMA SubmitEffect ==
  ASSUME RemoteAssumption, RemoteTypeOK, NEW c \in Consumers, Submit(c)
  PROVE  /\ RemoteTypeOK'
         /\ JournalSet(at[c].w, [journal[at[c].w] EXCEPT !.phase = "sending", !.baseline = TRUE])
         /\ ConsumerSet(c, [at[c] EXCEPT !.owns = FALSE])
<1> DEFINE jrow == [journal[at[c].w] EXCEPT !.phase = "sending", !.baseline = TRUE]
<1> DEFINE rec == [at[c] EXCEPT !.owns = FALSE]
<1>0. at[c] \in ConsumerState /\ at[c].w \in Works
         /\ job[at[c].w] \in JobRow /\ journal[at[c].w] \in JournalRow
  BY AtWork DEF Submit
<1>1. journal' \in [Works -> JournalRow] /\ JournalSet(at[c].w, jrow)
  <2>2. jrow \in JournalRow
    BY <1>0, RestingRows, RemoteAssumption DEF JournalRow
  <2>3. journal' = [journal EXCEPT ![at[c].w] = jrow]
    BY DEF Submit
  <2>4. QED
    BY <1>0, <2>2, <2>3, JournalUpdate
<1>2. /\ at' \in [Consumers -> ConsumerState]
      /\ \A d \in Consumers : at'[d].pc # "idle" => at'[d].w \in Works
      /\ ConsumerSet(c, rec)
  <2>2. rec \in ConsumerState /\ rec.w \in Works
    BY <1>0, RestingRows, RemoteAssumption DEF ConsumerState
  <2>3. at' = [at EXCEPT ![c] = rec]
    BY DEF Submit, Goto
  <2>4. QED
    BY <2>2, <2>3, ConsumerUpdate
<1>3. remote' \in [Works -> RemoteRow]
  <2> DEFINE r == remote[at[c].w]
             counted == [r EXCEPT !.sends = r.sends + 1]
             row == [counted EXCEPT !.wire = "sent"]
  <2>1. remote \in [Works -> RemoteRow] /\ r \in RemoteRow
    BY <1>0 DEF RemoteTypeOK
  <2>2. r.sends + 1 \in Nat
    BY <2>1 DEF RemoteRow
  <2>3. counted \in RemoteRow
    <3> HIDE DEF r
    <3>1. \A n \in Nat : [r EXCEPT !.sends = n] \in RemoteRow
      BY <2>1 DEF RemoteRow
    <3>2. QED
      BY <2>2, <3>1
  <2>4. row \in RemoteRow
    <3> HIDE DEF counted
    <3>1. QED
      BY <2>3 DEF RemoteRow
  <2>5. remote' = [remote EXCEPT ![at[c].w] = row]
    BY <1>0, <2>1 DEF Submit
  <2>6. QED
    BY <2>1, <2>4, <2>5
<1>4. QED
  BY <1>0, <1>1, <1>2, <1>3 DEF Submit, RemoteTypeOK

\* Discover, row by row.
LEMMA DiscoverEffect ==
  ASSUME RemoteAssumption, RemoteTypeOK, NEW c \in Consumers, Discover(c)
  PROVE  /\ RemoteTypeOK'
         /\ JournalSet(at[c].w, [journal[at[c].w] EXCEPT !.task = TRUE, !.phase = "polling"])
<1> DEFINE jrow == [journal[at[c].w] EXCEPT !.task = TRUE, !.phase = "polling"]
<1>0. at[c] \in ConsumerState /\ at[c].w \in Works
         /\ job[at[c].w] \in JobRow /\ journal[at[c].w] \in JournalRow
  BY AtWork DEF Discover
<1>1. journal' \in [Works -> JournalRow] /\ JournalSet(at[c].w, jrow)
  <2>2. jrow \in JournalRow
    BY <1>0, RestingRows, RemoteAssumption DEF JournalRow
  <2>3. journal' = [journal EXCEPT ![at[c].w] = jrow]
    BY DEF Discover
  <2>4. QED
    BY <1>0, <2>2, <2>3, JournalUpdate
<1>2. QED
  BY <1>0, <1>1 DEF Discover, RemoteTypeOK

\* CacheOutcome, row by row.
LEMMA CacheOutcomeEffect ==
  ASSUME RemoteAssumption, RemoteTypeOK, NEW c \in Consumers, CacheOutcome(c)
  PROVE  /\ RemoteTypeOK'
         /\ JournalSet(at[c].w, [journal[at[c].w] EXCEPT !.phase = "terminal", !.outcome = remote[at[c].w].task])
<1> DEFINE jrow == [journal[at[c].w] EXCEPT !.phase = "terminal", !.outcome = remote[at[c].w].task]
<1>0. at[c] \in ConsumerState /\ at[c].w \in Works
         /\ job[at[c].w] \in JobRow /\ journal[at[c].w] \in JournalRow
  BY AtWork DEF CacheOutcome
<1>1. journal' \in [Works -> JournalRow] /\ JournalSet(at[c].w, jrow)
  <2>2. jrow \in JournalRow
    BY <1>0, RestingRows, RemoteAssumption DEF JournalRow, CacheOutcome
  <2>3. journal' = [journal EXCEPT ![at[c].w] = jrow]
    BY DEF CacheOutcome
  <2>4. QED
    BY <1>0, <2>2, <2>3, JournalUpdate
<1>2. QED
  BY <1>0, <1>1 DEF CacheOutcome, RemoteTypeOK

\* Expire, row by row.
LEMMA ExpireEffect ==
  ASSUME RemoteAssumption, RemoteTypeOK, NEW c \in Consumers, Expire(c)
  PROVE  /\ RemoteTypeOK'
         /\ JournalSet(at[c].w, [journal[at[c].w] EXCEPT !.phase = "reconciliation_required"])
         /\ ConsumerSet(c, [at[c] EXCEPT !.pc = "settle", !.result = "failure"])
<1> DEFINE jrow == [journal[at[c].w] EXCEPT !.phase = "reconciliation_required"]
<1> DEFINE rec == [at[c] EXCEPT !.pc = "settle", !.result = "failure"]
<1>0. at[c] \in ConsumerState /\ at[c].w \in Works
         /\ job[at[c].w] \in JobRow /\ journal[at[c].w] \in JournalRow
  BY AtWork DEF Expire
<1>1. journal' \in [Works -> JournalRow] /\ JournalSet(at[c].w, jrow)
  <2>2. jrow \in JournalRow
    BY <1>0, RestingRows, RemoteAssumption DEF JournalRow
  <2>3. journal' = [journal EXCEPT ![at[c].w] = jrow]
    BY DEF Expire
  <2>4. QED
    BY <1>0, <2>2, <2>3, JournalUpdate
<1>2. /\ at' \in [Consumers -> ConsumerState]
      /\ \A d \in Consumers : at'[d].pc # "idle" => at'[d].w \in Works
      /\ ConsumerSet(c, rec)
  <2>2. rec \in ConsumerState /\ rec.w \in Works
    BY <1>0, RestingRows, RemoteAssumption DEF ConsumerState
  <2>3. at' = [at EXCEPT ![c] = rec]
    BY DEF Expire, Goto, Fails
  <2>4. QED
    BY <2>2, <2>3, ConsumerUpdate
<1>3. QED
  BY <1>0, <1>1, <1>2 DEF Expire, RemoteTypeOK

\* EndPoll, row by row.
LEMMA EndPollEffect ==
  ASSUME RemoteAssumption, RemoteTypeOK, NEW c \in Consumers, EndPoll(c)
  PROVE  /\ RemoteTypeOK'
         /\ ConsumerSet(c, [at[c] EXCEPT !.pc = "settle",
                  !.result = IF /\ journal[at[c].w].phase = "terminal"
                                /\ journal[at[c].w].outcome = "completed"
                             THEN "answer" ELSE "failure"])
<1> DEFINE rec == [at[c] EXCEPT !.pc = "settle",
                  !.result = IF /\ journal[at[c].w].phase = "terminal"
                                /\ journal[at[c].w].outcome = "completed"
                             THEN "answer" ELSE "failure"]
<1>0. at[c] \in ConsumerState /\ at[c].w \in Works
         /\ job[at[c].w] \in JobRow /\ journal[at[c].w] \in JournalRow
  BY AtWork DEF EndPoll
<1>1. /\ at' \in [Consumers -> ConsumerState]
      /\ \A d \in Consumers : at'[d].pc # "idle" => at'[d].w \in Works
      /\ ConsumerSet(c, rec)
  <2>2. rec \in ConsumerState /\ rec.w \in Works
    BY <1>0, RestingRows, RemoteAssumption DEF ConsumerState
  <2>3. at' = [at EXCEPT ![c] = rec]
    BY DEF EndPoll, Goto
  <2>4. QED
    BY <2>2, <2>3, ConsumerUpdate
<1>2. QED
  BY <1>0, <1>1 DEF EndPoll, RemoteTypeOK

\* Settle, row by row.
LEMMA SettleEffect ==
  ASSUME RemoteAssumption, RemoteTypeOK, NEW c \in Consumers, Settle(c)
  PROVE  /\ RemoteTypeOK'
         /\ ConsumerSet(c, [at[c] EXCEPT !.pc = "project"])
<1> DEFINE rec == [at[c] EXCEPT !.pc = "project"]
<1>0. at[c] \in ConsumerState /\ at[c].w \in Works
         /\ job[at[c].w] \in JobRow /\ journal[at[c].w] \in JournalRow
  BY AtWork DEF Settle
<1>1. /\ at' \in [Consumers -> ConsumerState]
      /\ \A d \in Consumers : at'[d].pc # "idle" => at'[d].w \in Works
      /\ ConsumerSet(c, rec)
  <2>2. rec \in ConsumerState /\ rec.w \in Works
    BY <1>0, RestingRows, RemoteAssumption DEF ConsumerState
  <2>3. at' = [at EXCEPT ![c] = rec]
    BY DEF Settle, Goto, Move
  <2>4. QED
    BY <2>2, <2>3, ConsumerUpdate
<1>2. QED
  BY <1>0, <1>1 DEF Settle, RemoteTypeOK

\* ApplyActions, row by row.
LEMMA ApplyActionsEffect ==
  ASSUME RemoteAssumption, RemoteTypeOK, NEW c \in Consumers, ApplyActions(c)
  PROVE  /\ RemoteTypeOK'
         /\ JobSet(at[c].w, [job[at[c].w] EXCEPT !.applied = @ + 1])
         /\ ConsumerSet(c, [at[c] EXCEPT !.pc = "finish"])
<1> DEFINE row == [job[at[c].w] EXCEPT !.applied = @ + 1]
<1> DEFINE rec == [at[c] EXCEPT !.pc = "finish"]
<1>0. at[c] \in ConsumerState /\ at[c].w \in Works
         /\ job[at[c].w] \in JobRow /\ journal[at[c].w] \in JournalRow
  BY AtWork DEF ApplyActions
<1>1. job' \in [Works -> JobRow] /\ JobSet(at[c].w, row)
  <2>2. row \in JobRow
    BY <1>0, RestingRows, RemoteAssumption DEF JobRow
  <2>3. job' = [job EXCEPT ![at[c].w] = row]
    BY DEF ApplyActions
  <2>4. QED
    BY <1>0, <2>2, <2>3, JobUpdate
<1>2. /\ at' \in [Consumers -> ConsumerState]
      /\ \A d \in Consumers : at'[d].pc # "idle" => at'[d].w \in Works
      /\ ConsumerSet(c, rec)
  <2>2. rec \in ConsumerState /\ rec.w \in Works
    BY <1>0, RestingRows, RemoteAssumption DEF ConsumerState
  <2>3. at' = [at EXCEPT ![c] = rec]
    BY DEF ApplyActions, Goto, Move
  <2>4. QED
    BY <2>2, <2>3, ConsumerUpdate
<1>3. QED
  BY <1>0, <1>1, <1>2 DEF ApplyActions, RemoteTypeOK

\* FinishChat, row by row.
LEMMA FinishChatEffect ==
  ASSUME RemoteAssumption, RemoteTypeOK, NEW c \in Consumers, FinishChat(c)
  PROVE  /\ RemoteTypeOK'
         /\ JobSet(at[c].w, [NoJob EXCEPT !.status = "done", !.applied = job[at[c].w].applied])
         /\ JournalSet(at[c].w, [journal[at[c].w] EXCEPT !.active =
                  @ /\ ~(journal[at[c].w].phase = "terminal" /\ journal[at[c].w].outcome # "canceled")])
         /\ ConsumerSet(c, Idle)
<1> DEFINE row == [NoJob EXCEPT !.status = "done", !.applied = job[at[c].w].applied]
<1> DEFINE jrow == [journal[at[c].w] EXCEPT !.active =
                  @ /\ ~(journal[at[c].w].phase = "terminal" /\ journal[at[c].w].outcome # "canceled")]
<1> DEFINE rec == Idle
<1>0. at[c] \in ConsumerState /\ at[c].w \in Works
         /\ job[at[c].w] \in JobRow /\ journal[at[c].w] \in JournalRow
  BY AtWork DEF FinishChat
<1>1. job' \in [Works -> JobRow] /\ JobSet(at[c].w, row)
  <2>2. row \in JobRow
    BY <1>0, RestingRows, RemoteAssumption DEF JobRow, NoJob
  <2>3. job' = [job EXCEPT ![at[c].w] = row]
    BY DEF FinishChat, Finished
  <2>4. QED
    BY <1>0, <2>2, <2>3, JobUpdate
<1>2. journal' \in [Works -> JournalRow] /\ JournalSet(at[c].w, jrow)
  <2>2. jrow \in JournalRow
    BY <1>0, RestingRows, RemoteAssumption DEF JournalRow
  <2>3. journal' = [journal EXCEPT ![at[c].w] = jrow]
    BY DEF FinishChat, Acknowledged
  <2>4. QED
    BY <1>0, <2>2, <2>3, JournalUpdate
<1>3. /\ at' \in [Consumers -> ConsumerState]
      /\ \A d \in Consumers : at'[d].pc # "idle" => at'[d].w \in Works
      /\ ConsumerSet(c, rec)
  <2>2. rec \in ConsumerState
    BY <1>0, RestingRows, RemoteAssumption DEF ConsumerState, Idle
  <2>3. at' = [at EXCEPT ![c] = rec]
    BY DEF FinishChat, Goto, Rest
  <2>4. QED
    BY <2>2, <2>3, ConsumerUpdate DEF Idle
<1>4. busy' \in BOOLEAN
  BY DEF FinishChat, BusyAfter
<1>5. QED
  BY <1>0, <1>1, <1>2, <1>3, <1>4 DEF FinishChat, RemoteTypeOK

\* CancelRun, row by row.
LEMMA CancelRunEffect ==
  ASSUME RemoteAssumption, RemoteTypeOK, NEW w \in Works, CancelRun(w)
  PROVE  /\ RemoteTypeOK'
         /\ JobSet(w, [NoJob EXCEPT !.status = "done", !.applied = job[w].applied])
<1> DEFINE row == [NoJob EXCEPT !.status = "done", !.applied = job[w].applied]
<1>1. job' \in [Works -> JobRow] /\ JobSet(w, row)
  <2>1. job[w] \in JobRow
    BY DEF RemoteTypeOK
  <2>2. row \in JobRow
    BY <2>1, RestingRows, RemoteAssumption DEF JobRow, NoJob, Works
  <2>3. job' = [job EXCEPT ![w] = row]
    BY DEF CancelRun, Finished
  <2>4. QED
    BY <2>1, <2>2, <2>3, JobUpdate
<1>2. busy' \in BOOLEAN
  BY DEF CancelRun, BusyAfter
<1>3. entry' \in [Works -> {"none", "admitted", "settled"}]
  BY DEF CancelRun, RemoteTypeOK
<1>4. QED
  BY <1>1, <1>2, <1>3 DEF CancelRun, RemoteTypeOK

\* Revoke, row by row.
LEMMA RevokeEffect ==
  ASSUME RemoteAssumption, RemoteTypeOK, NEW w \in Works, Revoke(w)
  PROVE  /\ RemoteTypeOK'
         /\ JobSet(w, [job[w] EXCEPT !.revoked = TRUE])
<1> DEFINE row == [job[w] EXCEPT !.revoked = TRUE]
<1>1. job' \in [Works -> JobRow] /\ JobSet(w, row)
  <2>1. job[w] \in JobRow
    BY DEF RemoteTypeOK
  <2>2. row \in JobRow
    BY <2>1, RestingRows, RemoteAssumption DEF JobRow, Works
  <2>3. job' = [job EXCEPT ![w] = row]
    BY DEF Revoke
  <2>4. QED
    BY <2>1, <2>2, <2>3, JobUpdate
<1>2. budget' \in BudgetOf
  BY DEF Revoke, RemoteTypeOK, BudgetOf
<1>3. QED
  BY <1>1, <1>2 DEF Revoke, RemoteTypeOK

\* Deadline, row by row.
LEMMA DeadlineEffect ==
  ASSUME RemoteAssumption, RemoteTypeOK, NEW w \in Works, Deadline(w)
  PROVE  /\ RemoteTypeOK'
         /\ JournalSet(w, [journal[w] EXCEPT !.late = TRUE])
<1> DEFINE jrow == [journal[w] EXCEPT !.late = TRUE]
<1>1. journal' \in [Works -> JournalRow] /\ JournalSet(w, jrow)
  <2>1. journal[w] \in JournalRow
    BY DEF RemoteTypeOK
  <2>2. jrow \in JournalRow
    BY <2>1, RestingRows, RemoteAssumption DEF JournalRow, Works
  <2>3. journal' = [journal EXCEPT ![w] = jrow]
    BY DEF Deadline
  <2>4. QED
    BY <2>1, <2>2, <2>3, JournalUpdate
<1>2. QED
  BY <1>1 DEF Deadline, RemoteTypeOK

\* LeaseLapses, row by row.
LEMMA LeaseLapsesEffect ==
  ASSUME RemoteAssumption, RemoteTypeOK, NEW w \in Works, LeaseLapses(w)
  PROVE  /\ RemoteTypeOK'
         /\ JobSet(w, [job[w] EXCEPT !.lease = FALSE])
<1> DEFINE row == [job[w] EXCEPT !.lease = FALSE]
<1>1. job' \in [Works -> JobRow] /\ JobSet(w, row)
  <2>1. job[w] \in JobRow
    BY DEF RemoteTypeOK
  <2>2. row \in JobRow
    BY <2>1, RestingRows, RemoteAssumption DEF JobRow, Works
  <2>3. job' = [job EXCEPT ![w] = row]
    BY DEF LeaseLapses
  <2>4. QED
    BY <2>1, <2>2, <2>3, JobUpdate
<1>2. budget' \in BudgetOf
  BY DEF LeaseLapses, Spend, RemoteTypeOK, BudgetOf
<1>3. QED
  BY <1>1, <1>2 DEF LeaseLapses, RemoteTypeOK

\* TokenLapses, row by row.
LEMMA TokenLapsesEffect ==
  ASSUME RemoteAssumption, RemoteTypeOK, NEW w \in Works, TokenLapses(w)
  PROVE  /\ RemoteTypeOK'
         /\ JournalSet(w, [journal[w] EXCEPT !.token = None])
<1> DEFINE jrow == [journal[w] EXCEPT !.token = None]
<1>1. journal' \in [Works -> JournalRow] /\ JournalSet(w, jrow)
  <2>1. journal[w] \in JournalRow
    BY DEF RemoteTypeOK
  <2>2. jrow \in JournalRow
    BY <2>1, RestingRows, RemoteAssumption DEF JournalRow, Works
  <2>3. journal' = [journal EXCEPT ![w] = jrow]
    BY DEF TokenLapses
  <2>4. QED
    BY <2>1, <2>2, <2>3, JournalUpdate
<1>2. budget' \in BudgetOf
  BY DEF TokenLapses, Spend, RemoteTypeOK, BudgetOf
<1>3. QED
  BY <1>1, <1>2 DEF TokenLapses, RemoteTypeOK

\* Admit, row by row.
LEMMA AdmitEffect ==
  ASSUME RemoteAssumption, RemoteTypeOK, NEW c \in Consumers, Admit(c)
  PROVE  /\ RemoteTypeOK'
         /\ \/ /\ ConsumerSet(c, [at[c] EXCEPT !.pc = "begin", !.prior = FALSE])
               /\ \/ at[c].prior \/ (at[c].w \in Runs /\ Known(at[c].w))
                  \/ entry'[at[c].w] = "admitted"
            \/ /\ ConsumerSet(c, [at[c] EXCEPT !.pc = "project", !.result = "failure"])
               /\ at[c].prior = FALSE /\ (at[c].w \in Runs => ~Known(at[c].w))
<1> DEFINE begins == [at[c] EXCEPT !.pc = "begin", !.prior = FALSE]
           fails == [at[c] EXCEPT !.pc = "project", !.result = "failure"]
<1>0. at[c] \in ConsumerState /\ at[c].w \in Works
  BY AtWork DEF Admit
<1>1. /\ begins \in ConsumerState /\ begins.w \in Works
      /\ fails \in ConsumerState /\ fails.w \in Works
  BY <1>0 DEF ConsumerState
<1>2. entry' \in [Works -> {"none", "admitted", "settled"}]
  BY <1>0 DEF Admit, RemoteTypeOK
<1>3. CASE /\ at' = [at EXCEPT ![c] = begins]
           /\ \/ at[c].prior \/ (at[c].w \in Runs /\ Known(at[c].w))
              \/ entry' = [entry EXCEPT ![at[c].w] = "admitted"]
  <2>1. /\ at' \in [Consumers -> ConsumerState]
        /\ \A d \in Consumers : at'[d].pc # "idle" => at'[d].w \in Works
        /\ ConsumerSet(c, begins)
    BY <1>1, <1>3, ConsumerUpdate
  <2>2. \/ at[c].prior \/ (at[c].w \in Runs /\ Known(at[c].w))
        \/ entry'[at[c].w] = "admitted"
    BY <1>0, <1>3 DEF RemoteTypeOK
  <2>3. QED
    BY <1>2, <2>1, <2>2 DEF Admit, RemoteTypeOK
<1>4. CASE /\ at' = [at EXCEPT ![c] = fails]
           /\ ~(at[c].prior \/ (at[c].w \in Runs /\ Known(at[c].w)))
  <2>1. /\ at' \in [Consumers -> ConsumerState]
        /\ \A d \in Consumers : at'[d].pc # "idle" => at'[d].w \in Works
        /\ ConsumerSet(c, fails)
    BY <1>1, <1>4, ConsumerUpdate
  <2>2. at[c].prior \in BOOLEAN
    BY <1>0 DEF ConsumerState
  <2>3. QED
    BY <1>2, <1>4, <2>1, <2>2 DEF Admit, RemoteTypeOK
<1>5. QED
  BY <1>3, <1>4 DEF Admit, Goto, Fails

\* Begin, row by row.
LEMMA BeginEffect ==
  ASSUME RemoteAssumption, RemoteTypeOK, NEW c \in Consumers, Begin(c)
  PROVE  /\ RemoteTypeOK'
         /\ \/ /\ ~Known(at[c].w) /\ ~RemotePending
               /\ JournalSet(at[c].w, [journal[at[c].w] EXCEPT !.phase = "preparing", !.active = TRUE])
               /\ ConsumerSet(c, [at[c] EXCEPT !.pc = "poll", !.owns = TRUE])
            \/ UNCHANGED journal /\ ConsumerSet(c, [at[c] EXCEPT !.pc = "poll", !.owns = FALSE])
            \/ UNCHANGED journal /\ ConsumerSet(c, [at[c] EXCEPT !.pc = "settle", !.result = "failure"])
<1> DEFINE w == at[c].w
           jrow == [journal[w] EXCEPT !.phase = "preparing", !.active = TRUE]
           creates == ~Known(w) /\ Authorized(w) /\ ~RemotePending
           owner == [at[c] EXCEPT !.pc = "poll", !.owns = TRUE]
           guest == [at[c] EXCEPT !.pc = "poll", !.owns = FALSE]
           fails == [at[c] EXCEPT !.pc = "settle", !.result = "failure"]
<1>0. at[c] \in ConsumerState /\ w \in Works /\ journal[w] \in JournalRow
  BY AtWork DEF Begin
<1>1. /\ owner \in ConsumerState /\ owner.w \in Works
      /\ guest \in ConsumerState /\ guest.w \in Works
      /\ fails \in ConsumerState /\ fails.w \in Works
  BY <1>0 DEF ConsumerState
<1>2. jrow \in JournalRow
  BY <1>0 DEF JournalRow
<1>3. CASE creates
  <2>1. journal' = [journal EXCEPT ![w] = jrow]
    BY <1>3 DEF Begin
  <2>2. at' = [at EXCEPT ![c] = owner]
    BY <1>3 DEF Begin, Goto
  <2>3. journal' \in [Works -> JournalRow] /\ JournalSet(w, jrow)
    BY <1>0, <1>2, <2>1, JournalUpdate
  <2>4. /\ at' \in [Consumers -> ConsumerState]
        /\ \A d \in Consumers : at'[d].pc # "idle" => at'[d].w \in Works
        /\ ConsumerSet(c, owner)
    BY <1>1, <2>2, ConsumerUpdate
  <2>5. QED
    BY <1>3, <2>3, <2>4 DEF Begin, RemoteTypeOK
<1>4. CASE ~creates
  <2>1. at' = [at EXCEPT ![c] = guest] \/ at' = [at EXCEPT ![c] = fails]
    BY <1>4 DEF Begin, Goto, Fails
  <2>2. /\ at' \in [Consumers -> ConsumerState]
        /\ \A d \in Consumers : at'[d].pc # "idle" => at'[d].w \in Works
        /\ ConsumerSet(c, guest) \/ ConsumerSet(c, fails)
    BY <1>1, <2>1, ConsumerUpdate
  <2>3. UNCHANGED journal
    BY <1>4 DEF Begin
  <2>4. QED
    BY <2>2, <2>3 DEF Begin, RemoteTypeOK
<1>5. QED
  BY <1>3, <1>4

\* SaveReply, row by row.
LEMMA SaveReplyEffect ==
  ASSUME RemoteAssumption, RemoteTypeOK, NEW c \in Consumers, SaveReply(c)
  PROVE  /\ RemoteTypeOK'
         /\ \/ UNCHANGED job /\ ConsumerSet(c, Idle)
            \/ /\ job[at[c].w].status = "running" /\ job[at[c].w].reply = None
               /\ ~RowLocked(at[c].w)
               /\ \E r \in {"agent", "system"}, pc \in {"apply", "finish"} :
                    /\ JobSet(at[c].w, [job[at[c].w] EXCEPT !.reply = r])
                    /\ ConsumerSet(c, [at[c] EXCEPT !.pc = pc])
<1> DEFINE w == at[c].w
           holds == job[w].status = "running" /\ job[w].holder = c
           saves == holds /\ ~RowLocked(w) /\ job[w].reply = None
           r == IF at[c].result = "answer" THEN "agent" ELSE "system"
           pc == IF at[c].result = "answer" THEN "apply" ELSE "finish"
           row == [job[w] EXCEPT !.reply = r]
           rec == [at[c] EXCEPT !.pc = pc]
<1>0. at[c] \in ConsumerState /\ w \in Works /\ job[w] \in JobRow
  BY AtWork DEF SaveReply
<1>1. CASE saves
  <2>1. job' = [job EXCEPT ![w] = row]
    BY <1>1 DEF SaveReply
  <2>2. at' = [at EXCEPT ![c] = rec]
    BY <1>1 DEF SaveReply, Goto, Move
  <2>3. row \in JobRow
    BY <1>0 DEF JobRow
  <2>4. rec \in ConsumerState /\ rec.w \in Works
    BY <1>0 DEF ConsumerState
  <2>5. job' \in [Works -> JobRow] /\ JobSet(w, row)
    BY <1>0, <2>1, <2>3, JobUpdate
  <2>6. /\ at' \in [Consumers -> ConsumerState]
        /\ \A d \in Consumers : at'[d].pc # "idle" => at'[d].w \in Works
        /\ ConsumerSet(c, rec)
    BY <2>2, <2>4, ConsumerUpdate
  <2>7. r \in {"agent", "system"} /\ pc \in {"apply", "finish"}
    OBVIOUS
  <2>8. RemoteTypeOK'
    BY <2>5, <2>6 DEF SaveReply, RemoteTypeOK
  <2>9. QED
    BY <1>1, <2>5, <2>6, <2>7, <2>8
<1>2. CASE ~saves
  <2>1. UNCHANGED job /\ at' = [at EXCEPT ![c] = Idle]
    BY <1>2 DEF SaveReply, Rest, Goto
  <2>2. /\ at' \in [Consumers -> ConsumerState]
        /\ \A d \in Consumers : at'[d].pc # "idle" => at'[d].w \in Works
        /\ ConsumerSet(c, Idle)
    BY <2>1, RestingRows, ConsumerUpdate DEF Idle
  <2>3. QED
    BY <2>1, <2>2 DEF SaveReply, RemoteTypeOK
<1>3. QED
  BY <1>1, <1>2

\* FinishRun, row by row.
LEMMA FinishRunEffect ==
  ASSUME RemoteAssumption, RemoteTypeOK, NEW c \in Consumers, FinishRun(c)
  PROVE  /\ RemoteTypeOK'
         /\ ConsumerSet(c, Idle)
         /\ \/ UNCHANGED <<job, journal>>
            \/ /\ JobSet(at[c].w, [NoJob EXCEPT !.status = "done", !.applied = job[at[c].w].applied])
               /\ JournalSet(at[c].w, [journal[at[c].w] EXCEPT !.active =
                    @ /\ ~(journal[at[c].w].phase = "terminal" /\ journal[at[c].w].outcome # "canceled")])
<1> DEFINE row == [NoJob EXCEPT !.status = "done", !.applied = job[at[c].w].applied]
           jrow == [journal[at[c].w] EXCEPT !.active =
                      @ /\ ~(journal[at[c].w].phase = "terminal" /\ journal[at[c].w].outcome # "canceled")]
<1>0. at[c].w \in Works /\ job[at[c].w] \in JobRow /\ journal[at[c].w] \in JournalRow
  BY AtWork DEF FinishRun
<1>1. /\ at' \in [Consumers -> ConsumerState]
      /\ \A d \in Consumers : at'[d].pc # "idle" => at'[d].w \in Works
      /\ ConsumerSet(c, Idle)
  BY RestingRows, ConsumerUpdate DEF FinishRun, Rest, Goto, Idle
<1>2. CASE job[at[c].w].status = "running"
  <2>1. job' = [job EXCEPT ![at[c].w] = row] /\ journal' = [journal EXCEPT ![at[c].w] = jrow]
    BY <1>2 DEF FinishRun, Finished, Acknowledged
  <2>2. row \in JobRow
    BY <1>0, RestingRows DEF JobRow, NoJob
  <2>3. jrow \in JournalRow
    BY <1>0 DEF JournalRow
  <2>4. job' \in [Works -> JobRow] /\ JobSet(at[c].w, row)
    BY <1>0, <2>1, <2>2, JobUpdate
  <2>5. journal' \in [Works -> JournalRow] /\ JournalSet(at[c].w, jrow)
    BY <1>0, <2>1, <2>3, JournalUpdate
  <2>6. busy' \in BOOLEAN
    BY <1>2 DEF FinishRun, BusyAfter
  <2>7. QED
    BY <1>1, <2>4, <2>5, <2>6 DEF FinishRun, RemoteTypeOK
<1>3. CASE job[at[c].w].status # "running"
  BY <1>1, <1>3 DEF FinishRun, RemoteTypeOK
<1>4. QED
  BY <1>2, <1>3

\* SweepClaim, row by row: the verdict is of the claimed journal, and a resolved one
\* names how the task ended.
LEMMA SweepClaimEffect ==
  ASSUME RemoteAssumption, RemoteTypeOK, NEW s \in Sweepers, NEW w \in Works, SweepClaim(s, w)
  PROVE  /\ RemoteTypeOK'
         /\ JournalSet(w, [journal[w] EXCEPT !.token = s])
         /\ sw' = [sw EXCEPT ![s] = Inspection(w)]
         /\ Inspection(w) \in Verdict /\ Inspection(w).w = w
         /\ Inspection(w).state = "resolved" =>
              /\ Inspection(w).outcome \in Naturally
              /\ Inspection(w).outcome \in {journal[w].outcome, remote[w].task}
<1> DEFINE jrow == [journal[w] EXCEPT !.token = s]
<1>0. journal[w] \in JournalRow /\ remote[w] \in RemoteRow
  BY DEF RemoteTypeOK
<1>1. journal' \in [Works -> JournalRow] /\ JournalSet(w, jrow)
  <2>1. jrow \in JournalRow
    BY <1>0 DEF JournalRow
  <2>2. QED
    BY <2>1, JournalUpdate DEF SweepClaim
<1>2. /\ journal[w].outcome \in Outcomes \cup {None}
      /\ remote[w].task \in Outcomes \cup {None, "working"}
  BY <1>0 DEF JournalRow, RemoteRow
<1>3. /\ Inspection(w) \in Verdict /\ Inspection(w).w = w
      /\ Inspection(w).state = "resolved" =>
           /\ Inspection(w).outcome \in Naturally
           /\ Inspection(w).outcome \in {journal[w].outcome, remote[w].task}
  <2> DEFINE verdict(state, outcome) == [w |-> w, state |-> state, outcome |-> outcome, task |-> Found(w)]
  <2>0. Found(w) \in BOOLEAN
    BY <1>0 DEF Found, JournalRow
  <2>1. CASE Inspection(w) = verdict("never_submitted", None)
    BY <2>0, <2>1 DEF Verdict
  <2>2. CASE /\ Inspection(w) = verdict("resolved", journal[w].outcome)
             /\ journal[w].outcome \in Naturally
    BY <1>2, <2>0, <2>2, RemoteAssumption DEF Verdict, Naturally
  <2>3. CASE /\ Inspection(w) = verdict("resolved", remote[w].task)
             /\ remote[w].task \in Naturally
    BY <1>2, <2>0, <2>3, RemoteAssumption DEF Verdict, Naturally
  <2>4. CASE Inspection(w) = verdict("unresolved", None)
    BY <2>0, <2>4 DEF Verdict
  <2>5. QED
    BY <2>1, <2>2, <2>3, <2>4 DEF Inspection
<1>4. sw' \in [Sweepers -> Verdict \cup {None}] /\ sw' = [sw EXCEPT ![s] = Inspection(w)]
  BY <1>3 DEF SweepClaim, RemoteTypeOK
<1>5. QED
  BY <1>1, <1>3, <1>4 DEF SweepClaim, RemoteTypeOK

\* SweepFinish, row by row: nothing is written under another claim, a proof releases the
\* journal with its accounting, anything else only gives the claim back.
LEMMA SweepFinishEffect ==
  ASSUME RemoteAssumption, RemoteTypeOK, NEW s \in Sweepers, SweepFinish(s)
  PROVE  /\ RemoteTypeOK'
         /\ sw' = [sw EXCEPT ![s] = None]
         /\ sw[s] \in Verdict
         /\ \/ UNCHANGED <<entry, journal>>
            \/ /\ entry' = [entry EXCEPT ![sw[s].w] = "settled"]
               /\ \E j \in JournalRow :
                    /\ JournalSet(sw[s].w, j) /\ ~j.active
                    /\ j.phase = IF journal[sw[s].w].phase = "terminal" THEN "terminal"
                                 ELSE "reconciliation_required"
                    /\ \/ /\ j.outcome = journal[sw[s].w].outcome
                          /\ journal[sw[s].w].phase = "preparing"
                       \/ sw[s].state = "resolved" /\ j.outcome = sw[s].outcome
            \/ /\ UNCHANGED entry
               /\ \E j \in JournalRow :
                    /\ JournalSet(sw[s].w, j)
                    /\ j.active = journal[sw[s].w].active
                    /\ j.phase = journal[sw[s].w].phase
                    /\ j.outcome = journal[sw[s].w].outcome
<1> DEFINE i == sw[s]
           w == i.w
           j == journal[w]
           never == i.state = "never_submitted" /\ j.phase = "preparing" /\ ~j.task /\ Ended(w)
           resolved == i.state = "resolved" \/ never
           found == [j EXCEPT !.token = None, !.task = @ \/ i.task]
           released == [found EXCEPT !.active = FALSE,
                          !.outcome = IF never THEN @ ELSE i.outcome,
                          !.phase = IF @ = "terminal" THEN @ ELSE "reconciliation_required"]
<1>0. i \in Verdict /\ w \in Works /\ j \in JournalRow
  BY DEF SweepFinish, RemoteTypeOK, Verdict
<1>1. /\ found \in JournalRow
      /\ found.active = j.active /\ found.phase = j.phase /\ found.outcome = j.outcome
  <2>1. (j.task \/ i.task) \in BOOLEAN
    OBVIOUS
  <2>2. QED
    BY <1>0, <2>1 DEF JournalRow
<1>2. /\ released \in JournalRow /\ ~released.active
      /\ released.phase = IF j.phase = "terminal" THEN "terminal" ELSE "reconciliation_required"
      /\ released.outcome = IF never THEN j.outcome ELSE i.outcome
  <2> DEFINE o == IF never THEN found.outcome ELSE i.outcome
             p == IF found.phase = "terminal" THEN found.phase ELSE "reconciliation_required"
  <2>1. o \in Outcomes \cup {None}
    BY <1>0, <1>1 DEF Verdict, JournalRow
  <2>2. p \in {"terminal", "reconciliation_required"}
    OBVIOUS
  <2>3. released = [found EXCEPT !.active = FALSE, !.outcome = o, !.phase = p]
    OBVIOUS
  <2> HIDE DEF found, released, o, p
  <2>4. /\ released \in JournalRow /\ ~released.active
        /\ released.phase = p /\ released.outcome = o
    BY <1>1, <2>1, <2>2, <2>3 DEF JournalRow
  <2>5. QED
    BY <1>1, <2>4 DEF o, p
<1>3. sw' = [sw EXCEPT ![s] = None] /\ sw' \in [Sweepers -> Verdict \cup {None}]
  BY DEF SweepFinish, RemoteTypeOK
<1>4. CASE j.token # s
  <2>1. UNCHANGED <<entry, journal, busy>>
    BY <1>4 DEF SweepFinish
  <2>2. QED
    BY <1>0, <1>3, <2>1 DEF SweepFinish, RemoteTypeOK
<1>5. CASE j.token = s /\ resolved
  <2>1. /\ entry' = [entry EXCEPT ![w] = "settled"]
        /\ journal' = [journal EXCEPT ![w] = released]
        /\ busy' = BusyAfter(job, journal')
    BY <1>5 DEF SweepFinish, SettledBy
  <2>2. journal' \in [Works -> JournalRow] /\ JournalSet(w, released)
    BY <1>0, <1>2, <2>1, JournalUpdate
  <2>3. entry' \in [Works -> {"none", "admitted", "settled"}] /\ busy' \in BOOLEAN
    BY <2>1 DEF RemoteTypeOK, BusyAfter
  <2>4. RemoteTypeOK'
    BY <1>3, <2>2, <2>3 DEF SweepFinish, RemoteTypeOK
  <2>5. \/ released.outcome = j.outcome /\ j.phase = "preparing"
        \/ i.state = "resolved" /\ released.outcome = i.outcome
    BY <1>2, <1>5
  <2>6. QED
    BY <1>0, <1>2, <1>3, <2>1, <2>2, <2>4, <2>5
<1>6. CASE j.token = s /\ ~resolved
  <2>1. /\ journal' = [journal EXCEPT ![w] = found]
        /\ busy' = BusyAfter(job, journal') /\ UNCHANGED entry
    BY <1>6 DEF SweepFinish
  <2>2. journal' \in [Works -> JournalRow] /\ JournalSet(w, found)
    BY <1>0, <1>1, <2>1, JournalUpdate
  <2>3. RemoteTypeOK'
    BY <1>3, <2>1, <2>2 DEF SweepFinish, RemoteTypeOK, BusyAfter
  <2>4. QED
    BY <1>0, <1>1, <1>3, <2>1, <2>2, <2>3
<1>7. QED
  BY <1>4, <1>5, <1>6

\* The gateway accepts, loses or ends what is under way.
LEMMA GatewayEffect ==
  ASSUME RemoteAssumption, RemoteTypeOK, NEW w \in Works, Gateway(w)
  PROVE  /\ RemoteTypeOK'
         /\ UNCHANGED <<job, entry, journal, at, sw>>
         /\ \A v \in Works \ {w} : remote'[v] = remote[v]
         /\ remote'[w].sends = remote[w].sends
         /\ \/ remote[w].wire = "sent" /\ remote'[w].wire = None /\ remote'[w].task = "working"
            \/ remote[w].wire = "sent" /\ remote'[w].wire = "lost" /\ remote'[w].task = remote[w].task
            \/ /\ remote[w].task = "working" /\ remote'[w].task \in Outcomes
               /\ remote'[w].wire = remote[w].wire
<1>0. remote \in [Works -> RemoteRow] /\ remote[w] \in RemoteRow
  BY DEF RemoteTypeOK
<1>1. CASE Accept(w)
  BY <1>0, <1>1 DEF Accept, OnlyRemote, RemoteTypeOK, RemoteRow
<1>2. CASE Lose(w)
  BY <1>0, <1>2 DEF Lose, OnlyRemote, RemoteTypeOK, RemoteRow
<1>3. CASE EndTask(w)
  BY <1>0, <1>3 DEF EndTask, OnlyRemote, RemoteTypeOK, RemoteRow
<1>4. QED
  BY <1>1, <1>2, <1>3 DEF Gateway

\* A consumer or a sweeper dies.
LEMMA CrashEffect ==
  ASSUME RemoteAssumption, RemoteTypeOK
  PROVE  /\ \A c \in Consumers : Crash(c) =>
              /\ RemoteTypeOK' /\ ConsumerSet(c, Idle)
              /\ UNCHANGED <<job, entry, journal, remote, sw>>
         /\ \A s \in Sweepers : CrashSweep(s) =>
              /\ RemoteTypeOK' /\ sw' = [sw EXCEPT ![s] = None]
              /\ UNCHANGED <<job, entry, journal, remote, at>>
<1>1. ASSUME NEW c \in Consumers, Crash(c)
      PROVE  RemoteTypeOK' /\ ConsumerSet(c, Idle) /\ UNCHANGED <<job, entry, journal, remote, sw>>
  <2>1. /\ at' \in [Consumers -> ConsumerState]
        /\ \A d \in Consumers : at'[d].pc # "idle" => at'[d].w \in Works
        /\ ConsumerSet(c, Idle)
    BY <1>1, RestingRows, ConsumerUpdate DEF Crash, Rest, Goto, Idle
  <2>2. budget' \in BudgetOf
    BY <1>1 DEF Crash, Spend, RemoteTypeOK, BudgetOf
  <2>3. QED
    BY <1>1, <2>1, <2>2 DEF Crash, RemoteTypeOK
<1>2. ASSUME NEW s \in Sweepers, CrashSweep(s)
      PROVE  /\ RemoteTypeOK' /\ sw' = [sw EXCEPT ![s] = None]
             /\ UNCHANGED <<job, entry, journal, remote, at>>
  <2>1. budget' \in BudgetOf
    BY <1>2 DEF CrashSweep, Spend, RemoteTypeOK, BudgetOf
  <2>2. QED
    BY <1>2, <2>1 DEF CrashSweep, RemoteTypeOK
<1>3. QED
  BY <1>1, <1>2

-----------------------------------------------------------------------------
(* The invariant, part by part. *)

\* What the submissions are about: the journals as far as they tell the state of a task,
\* the gateway, and the proofs of the sweepers.
SameRecord(w) ==
  /\ remote'[w] = remote[w]
  /\ journal'[w].phase = journal[w].phase
  /\ journal'[w].active = journal[w].active
  /\ journal'[w].outcome = journal[w].outcome

\* A row whose record is the same stays recorded.
LEMMA RecordKept ==
  ASSUME NEW w \in Works, Recorded(w), SameRecord(w)
  PROVE  Recorded(w)'
BY DEF Recorded, SameRecord, MayBeRunning, Pending

\* A proof stays one as long as the task of the gateway is the same.
LEMMA ProofsKept ==
  ASSUME RemoteTypeOK, Submissions, UNCHANGED sw, \A w \in Works : remote'[w].task = remote[w].task
  PROVE  \A s \in Sweepers : Proven(s)'
<1> SUFFICES ASSUME NEW s \in Sweepers, sw[s] # None PROVE Proven(s)'
  BY DEF Proven
<1>1. sw[s].w \in Works
  BY DEF RemoteTypeOK, Verdict
<1>2. QED
  BY <1>1 DEF Submissions, Proven

\* Only these actions write a journal or reach the gateway.
LEMMA WhoRecords ==
  ASSUME RemoteNext
  PROVE  \/ UNCHANGED <<journal, remote, sw>>
         \/ \E w \in Works : Gateway(w) \/ Deadline(w) \/ TokenLapses(w)
         \/ \E c \in Consumers : \/ Begin(c) \/ Submit(c) \/ Discover(c) \/ CacheOutcome(c)
                                 \/ Expire(c) \/ FinishChat(c) \/ FinishRun(c)
         \/ \E s \in Sweepers : \/ \E w \in Works : SweepClaim(s, w)
                                \/ SweepFinish(s) \/ CrashSweep(s)
<1> DEFINE quiet == UNCHANGED <<journal, remote, sw>>
<1>1. ASSUME NEW w \in Works,
             EnqueueChat(w) \/ CancelRun(w) \/ Revoke(w) \/ LeaseLapses(w) \/ FailStaleRun(w)
      PROVE  quiet
  BY <1>1 DEF EnqueueChat, CancelRun, Revoke, LeaseLapses, FailStaleRun
<1>2. ASSUME NEW c \in Consumers, NEW w \in Works, StartRun(c, w) \/ Take(c, w)
      PROVE  quiet
  BY <1>2 DEF Take, StartRun, ClaimChat, RecoverRun
<1>3. ASSUME NEW c \in Consumers,
             \/ LoseLease(c) \/ ReadPrior(c) \/ Admit(c) \/ EndPoll(c) \/ Settle(c)
             \/ SaveReply(c) \/ ApplyActions(c) \/ Crash(c)
      PROVE  quiet
  BY <1>3 DEF LoseLease, ReadPrior, Admit, EndPoll, Settle, SaveReply, ApplyActions, Crash
<1> HIDE DEF quiet
<1>4. quiet \/ ~quiet
  OBVIOUS
<1>5. QED
  BY <1>1, <1>2, <1>3, <1>4 DEF RemoteNext, Step, Operator, Clock, quiet

\* A step that acknowledges a journal releases it only when its task has ended naturally.
LEMMA AcknowledgedRecord ==
  ASSUME RemoteAssumption, RemoteTypeOK, NEW w \in Works, Recorded(w), UNCHANGED remote,
         JournalSet(w, [journal[w] EXCEPT !.active =
           @ /\ ~(journal[w].phase = "terminal" /\ journal[w].outcome # "canceled")])
  PROVE  Recorded(w)'
<1>1. /\ journal[w] \in JournalRow /\ remote[w] \in RemoteRow
      /\ remote[w].task \in Outcomes \cup {None, "working"} /\ journal[w].outcome \in Outcomes \cup {None}
  BY DEF RemoteTypeOK, RemoteRow, JournalRow
<1>2. /\ journal'[w].phase = journal[w].phase /\ journal'[w].outcome = journal[w].outcome
      /\ journal'[w].active = (journal[w].active /\ ~(journal[w].phase = "terminal" /\ journal[w].outcome # "canceled"))
  BY <1>1 DEF JournalSet, JournalRow
<1>3. CASE journal[w].phase = "terminal" /\ journal[w].outcome # "canceled"
  <2>1. remote[w].task = journal[w].outcome /\ remote[w].task \in Naturally /\ remote[w].wire = None
    BY <1>1, <1>3, RemoteAssumption DEF Recorded, Naturally
  <2>2. ~MayBeRunning(w)'
    BY <2>1, RemoteAssumption DEF MayBeRunning, Naturally
  <2>3. QED
    BY <1>2, <1>3, <2>2 DEF Recorded
<1>4. CASE ~(journal[w].phase = "terminal" /\ journal[w].outcome # "canceled")
  <2>1. SameRecord(w)
    BY <1>1, <1>2, <1>4 DEF SameRecord, JournalRow
  <2>2. QED
    BY <2>1, RecordKept
<1>5. QED
  BY <1>3, <1>4

\* Every step keeps the journals true to the gateway.
LEMMA SubmissionsStep ==
  ASSUME RemoteAssumption, RemoteTypeOK, Submissions, [RemoteNext]_remoteVars
  PROVE  Submissions'
<1> USE RemoteAssumption
<1>0. \A w \in Works : Recorded(w) /\ journal[w] \in JournalRow /\ remote[w] \in RemoteRow
  BY DEF Submissions, RemoteTypeOK
<1>1. CASE UNCHANGED <<journal, remote, sw>>
  BY <1>0, <1>1, RecordKept, ProofsKept DEF SameRecord, Submissions
<1>2. ASSUME NEW w \in Works, Gateway(w) PROVE Submissions'
  <2>1. /\ UNCHANGED <<journal, sw>>
        /\ \A v \in Works \ {w} : remote'[v] = remote[v]
        /\ remote'[w].sends = remote[w].sends
        /\ \/ remote[w].wire = "sent" /\ remote'[w].wire = None /\ remote'[w].task = "working"
           \/ remote[w].wire = "sent" /\ remote'[w].wire = "lost" /\ remote'[w].task = remote[w].task
           \/ /\ remote[w].task = "working" /\ remote'[w].task \in Outcomes
              /\ remote'[w].wire = remote[w].wire
    BY <1>2, GatewayEffect
  <2>2. \A v \in Works \ {w} : Recorded(v)'
    BY <1>0, <2>1, RecordKept DEF SameRecord
  <2>3. journal[w].outcome = None /\ remote[w].sends # 0
    BY <1>0, <2>1 DEF Recorded, Naturally, RemoteRow, JournalRow
  <2>4. Recorded(w)'
    BY <1>0, <2>1, <2>3 DEF Recorded, MayBeRunning, Pending
  <2>5. ASSUME NEW s \in Sweepers PROVE Proven(s)'
    <3>1. CASE sw[s] # None /\ sw[s].state = "resolved"
      <4>1. sw[s].w \in Works /\ sw[s].outcome \in Naturally /\ remote[sw[s].w].task = sw[s].outcome
        BY <3>1 DEF RemoteTypeOK, Verdict, Submissions, Proven
      <4>2. remote[sw[s].w].wire = None
        BY <1>0, <4>1 DEF Recorded, Naturally
      <4>3. sw[s].w # w
        BY <2>1, <4>1, <4>2 DEF Naturally
      <4>4. QED
        BY <2>1, <4>1, <4>3 DEF Proven
    <3>2. CASE ~(sw[s] # None /\ sw[s].state = "resolved")
      BY <2>1, <3>2 DEF Proven
    <3>3. QED
      BY <3>1, <3>2
  <2>6. QED
    BY <2>2, <2>4, <2>5 DEF Submissions
<1>3. ASSUME NEW w \in Works, Deadline(w) \/ TokenLapses(w) PROVE Submissions'
  <2>1. \/ JournalSet(w, [journal[w] EXCEPT !.late = TRUE])
        \/ JournalSet(w, [journal[w] EXCEPT !.token = None])
    BY <1>3, DeadlineEffect, TokenLapsesEffect
  <2>2. UNCHANGED <<remote, sw>>
    BY <1>3 DEF Deadline, TokenLapses
  <2>3. \A v \in Works : SameRecord(v)
    BY <1>0, <2>1, <2>2 DEF SameRecord, JournalSet, JournalRow
  <2>4. QED
    BY <1>0, <2>2, <2>3, RecordKept, ProofsKept DEF Submissions
<1>4. ASSUME NEW c \in Consumers, Begin(c) PROVE Submissions'
  <2>0. PICK w \in Works : w = at[c].w
    BY <1>4, AtWork DEF Begin
  <2>1. UNCHANGED <<remote, sw>>
    BY <1>4, <2>0 DEF Begin
  <2>2. CASE UNCHANGED journal
    BY <1>0, <2>1, <2>2, RecordKept, ProofsKept DEF SameRecord, Submissions
  <2>3. CASE /\ ~Known(w)
             /\ JournalSet(w, [journal[w] EXCEPT !.phase = "preparing", !.active = TRUE])
    <3>1. \A v \in Works \ {w} : Recorded(v)'
      BY <1>0, <2>1, <2>3, RecordKept DEF SameRecord, JournalSet
    <3>2. /\ journal'[w].phase = "preparing" /\ journal'[w].active
          /\ journal'[w].outcome = journal[w].outcome
      BY <1>0, <2>1, <2>3 DEF JournalSet, JournalRow
    <3>3. Recorded(w)'
      BY <1>0, <2>1, <2>3, <3>2 DEF Recorded, Known, MayBeRunning, Pending
    <3>4. QED
      BY <2>1, <3>1, <3>3, ProofsKept DEF Submissions
  <2>4. QED
    BY <1>4, <2>0, <2>2, <2>3, BeginEffect
<1>5. ASSUME NEW c \in Consumers, Submit(c) PROVE Submissions'
  <2>0. PICK w \in Works : w = at[c].w
    BY <1>5, AtWork DEF Submit
  <2>1. /\ UNCHANGED sw /\ journal[w].phase = "preparing"
        /\ JournalSet(w, [journal[w] EXCEPT !.phase = "sending", !.baseline = TRUE])
        /\ remote' = [remote EXCEPT ![w].sends = @ + 1, ![w].wire = "sent"]
    BY <1>5, <2>0, SubmitEffect DEF Submit, MaySubmit
  <2>2. /\ remote'[w].sends = 1 /\ remote'[w].wire = "sent" /\ remote'[w].task = None
        /\ \A v \in Works \ {w} : remote'[v] = remote[v]
        /\ remote[w].task = None
    BY <1>0, <2>1 DEF Recorded, RemoteTypeOK, RemoteRow
  <2>3. /\ journal'[w].phase = "sending" /\ journal'[w].active = journal[w].active
        /\ journal'[w].outcome = journal[w].outcome
    BY <1>0, <2>1 DEF JournalSet, JournalRow
  <2>4. \A v \in Works \ {w} : Recorded(v)'
    BY <1>0, <2>1, <2>2, RecordKept DEF SameRecord, JournalSet
  <2>5. Recorded(w)'
    BY <1>0, <2>1, <2>2, <2>3 DEF Recorded, MayBeRunning, Pending
  <2>6. \A v \in Works : remote'[v].task = remote[v].task
    BY <2>2
  <2>7. QED
    BY <2>1, <2>4, <2>5, <2>6, ProofsKept DEF Submissions
<1>6. ASSUME NEW c \in Consumers, Discover(c) \/ Expire(c) PROVE Submissions'
  <2>0. PICK w \in Works : w = at[c].w
    BY <1>6, AtWork DEF Discover, Expire
  <2>1. /\ UNCHANGED <<remote, sw>>
        /\ \/ /\ journal[w].phase = "sending"
              /\ JournalSet(w, [journal[w] EXCEPT !.task = TRUE, !.phase = "polling"])
           \/ JournalSet(w, [journal[w] EXCEPT !.phase = "reconciliation_required"])
    BY <1>6, <2>0, DiscoverEffect, ExpireEffect DEF Discover, Expire
  <2>2. /\ \/ journal'[w].phase = "reconciliation_required"
           \/ journal'[w].phase = "polling" /\ journal[w].phase = "sending"
        /\ journal'[w].active = journal[w].active /\ journal'[w].outcome = journal[w].outcome
    <3>1. ASSUME JournalSet(w, [journal[w] EXCEPT !.task = TRUE, !.phase = "polling"])
          PROVE  /\ journal'[w].phase = "polling" /\ journal'[w].active = journal[w].active
                 /\ journal'[w].outcome = journal[w].outcome
      BY <1>0, <3>1 DEF JournalSet, JournalRow
    <3>2. ASSUME JournalSet(w, [journal[w] EXCEPT !.phase = "reconciliation_required"])
          PROVE  /\ journal'[w].phase = "reconciliation_required"
                 /\ journal'[w].active = journal[w].active
                 /\ journal'[w].outcome = journal[w].outcome
      BY <1>0, <3>2 DEF JournalSet, JournalRow
    <3>3. QED
      BY <2>1, <3>1, <3>2
  <2>3. \A v \in Works \ {w} : Recorded(v)'
    BY <1>0, <2>1, RecordKept DEF SameRecord, JournalSet
  <2>4. Recorded(w)'
    BY <1>0, <2>1, <2>2 DEF Recorded, MayBeRunning, Pending
  <2>5. QED
    BY <2>1, <2>3, <2>4, ProofsKept DEF Submissions
<1>7. ASSUME NEW c \in Consumers, CacheOutcome(c) PROVE Submissions'
  <2>0. PICK w \in Works : w = at[c].w
    BY <1>7, AtWork DEF CacheOutcome
  <2>1. /\ UNCHANGED <<remote, sw>>
        /\ JournalSet(w, [journal[w] EXCEPT !.phase = "terminal", !.outcome = remote[w].task])
        /\ journal[w].phase \in {"sending", "polling"} /\ remote[w].task \in Outcomes
    BY <1>7, <2>0, CacheOutcomeEffect DEF CacheOutcome
  <2>2. /\ journal'[w].phase = "terminal" /\ journal'[w].active = journal[w].active
        /\ journal'[w].outcome = remote[w].task
    BY <1>0, <2>1 DEF JournalSet, JournalRow
  <2>3. \A v \in Works \ {w} : Recorded(v)'
    BY <1>0, <2>1, RecordKept DEF SameRecord, JournalSet
  <2>4. remote[w].task # None
    BY <2>1 DEF Naturally
  <2>5. Recorded(w)'
    BY <1>0, <2>1, <2>2, <2>4 DEF Recorded, MayBeRunning, Pending
  <2>6. QED
    BY <2>1, <2>3, <2>5, ProofsKept DEF Submissions
<1>8. ASSUME NEW c \in Consumers, FinishChat(c) \/ FinishRun(c) PROVE Submissions'
  <2>0. PICK w \in Works : w = at[c].w
    BY <1>8, AtWork DEF FinishChat, FinishRun
  <2>1. /\ UNCHANGED <<remote, sw>>
        /\ \/ UNCHANGED journal
           \/ JournalSet(w, [journal[w] EXCEPT !.active =
                @ /\ ~(journal[w].phase = "terminal" /\ journal[w].outcome # "canceled")])
    BY <1>8, <2>0, FinishChatEffect, FinishRunEffect DEF FinishChat, FinishRun
  <2>2. \A v \in Works : Recorded(v)'
    BY <1>0, <2>1, RecordKept, AcknowledgedRecord DEF SameRecord, JournalSet
  <2>3. QED
    BY <2>1, <2>2, ProofsKept DEF Submissions
<1>9. ASSUME NEW s \in Sweepers, NEW w \in Works, SweepClaim(s, w) PROVE Submissions'
  <2>1. /\ JournalSet(w, [journal[w] EXCEPT !.token = s])
        /\ sw' = [sw EXCEPT ![s] = Inspection(w)]
        /\ Inspection(w).w = w
        /\ Inspection(w).state = "resolved" =>
             /\ Inspection(w).outcome \in Naturally
             /\ Inspection(w).outcome \in {journal[w].outcome, remote[w].task}
        /\ UNCHANGED remote
    BY <1>9, SweepClaimEffect DEF SweepClaim
  <2>2. \A v \in Works : SameRecord(v)
    BY <1>0, <2>1 DEF SameRecord, JournalSet, JournalRow
  <2>3. sw'[s] = Inspection(w) /\ \A r \in Sweepers \ {s} : sw'[r] = sw[r]
    BY <2>1 DEF RemoteTypeOK
  <2>4. Inspection(w).state = "resolved" => remote[w].task = Inspection(w).outcome
    BY <1>0, <2>1 DEF Recorded, Naturally
  <2>5. Proven(s)'
    BY <2>1, <2>3, <2>4 DEF Proven
  <2>6. \A r \in Sweepers \ {s} : Proven(r)'
    BY <2>1, <2>3 DEF Proven, Submissions
  <2>7. QED
    BY <1>0, <2>2, <2>5, <2>6, RecordKept DEF Submissions
<1>10. ASSUME NEW s \in Sweepers, SweepFinish(s) PROVE Submissions'
  <2>0. PICK w \in Works : w = sw[s].w
    BY <1>10, SweepFinishEffect DEF Verdict
  <2>1. /\ sw' = [sw EXCEPT ![s] = None] /\ UNCHANGED remote
        /\ \/ UNCHANGED journal
           \/ \E j \in JournalRow :
                /\ JournalSet(w, j) /\ ~j.active
                /\ j.phase = IF journal[w].phase = "terminal" THEN "terminal"
                             ELSE "reconciliation_required"
                /\ \/ j.outcome = journal[w].outcome /\ journal[w].phase = "preparing"
                   \/ sw[s].state = "resolved" /\ j.outcome = sw[s].outcome
           \/ \E j \in JournalRow :
                /\ JournalSet(w, j) /\ j.active = journal[w].active
                /\ j.phase = journal[w].phase /\ j.outcome = journal[w].outcome
    BY <1>10, <2>0, SweepFinishEffect DEF SweepFinish
  <2>2. \A r \in Sweepers : sw'[r] = IF r = s THEN None ELSE sw[r]
    BY <2>1 DEF RemoteTypeOK
  <2>3. \A r \in Sweepers : Proven(r)'
    BY <2>1, <2>2 DEF Proven, Submissions
  <2>4. \A v \in Works \ {w} : Recorded(v)'
    BY <1>0, <2>1, RecordKept DEF SameRecord, JournalSet
  <2>5. CASE SameRecord(w)
    BY <1>0, <2>1, <2>3, <2>4, <2>5, RecordKept DEF Submissions
  <2>6. ASSUME NEW j \in JournalRow, JournalSet(w, j), ~j.active,
               j.phase = IF journal[w].phase = "terminal" THEN "terminal"
                         ELSE "reconciliation_required",
               \/ j.outcome = journal[w].outcome /\ journal[w].phase = "preparing"
               \/ sw[s].state = "resolved" /\ j.outcome = sw[s].outcome
        PROVE  Recorded(w)'
    <3>1. journal'[w] = j
      BY <2>6 DEF JournalSet
    <3>2. CASE j.outcome = journal[w].outcome /\ journal[w].phase = "preparing"
      BY <1>0, <2>1, <2>6, <3>1, <3>2 DEF Recorded, MayBeRunning, Pending
    <3>3. CASE sw[s].state = "resolved" /\ j.outcome = sw[s].outcome
      <4>1. sw[s] # None
        BY <1>10 DEF SweepFinish
      <4>2. j.outcome \in Naturally /\ remote[w].task = j.outcome
        BY <2>0, <3>3, <4>1 DEF Submissions, Proven
      <4>3. remote[w].wire = None /\ j.outcome # None
        BY <1>0, <2>1, <4>2 DEF Recorded, Naturally
      <4>4. ~MayBeRunning(w)'
        BY <2>1, <4>2, <4>3 DEF MayBeRunning, Naturally
      <4>5. QED
        BY <1>0, <2>1, <2>6, <3>1, <4>2, <4>3, <4>4 DEF Recorded
    <3>4. QED
      BY <2>6, <3>2, <3>3
  <2>7. QED
    BY <2>1, <2>3, <2>4, <2>5, <2>6 DEF Submissions, SameRecord, JournalSet
<1>11. ASSUME NEW s \in Sweepers, CrashSweep(s) PROVE Submissions'
  <2>1. sw' = [sw EXCEPT ![s] = None] /\ UNCHANGED <<journal, remote>>
    BY <1>11, CrashEffect
  <2>2. \A r \in Sweepers : sw'[r] = IF r = s THEN None ELSE sw[r]
    BY <2>1 DEF RemoteTypeOK
  <2>3. QED
    BY <1>0, <2>1, <2>2, RecordKept DEF Proven, SameRecord, Submissions
<1>12. QED
  BY <1>1, <1>2, <1>3, <1>4, <1>5, <1>6, <1>7, <1>8, <1>9, <1>10, <1>11, WhoRecords DEF remoteVars

\* Only an outcome that a claimant proves or a new journal changes what is pending, and a
\* new journal is begun only when nothing is.
LEMMA OnePendingStep ==
  ASSUME RemoteAssumption, RemoteTypeOK, Submissions, OnePending, [RemoteNext]_remoteVars
  PROVE  OnePending'
<1> USE RemoteAssumption
<1>0. \A w \in Works : Recorded(w) /\ journal[w] \in JournalRow
  BY DEF Submissions, RemoteTypeOK
<1>1. CASE UNCHANGED journal
  BY <1>1 DEF OnePending, Pending
<1>2. CASE \A w \in Works : Pending(journal, w)' => Pending(journal, w)
  BY <1>2 DEF OnePending
<1>3. ASSUME NEW c \in Consumers, NEW w \in Works, w = at[c].w, Begin(c) PROVE OnePending'
  <2>1. CASE UNCHANGED journal
    BY <2>1 DEF OnePending, Pending
  <2>2. CASE /\ ~RemotePending
             /\ JournalSet(w, [journal[w] EXCEPT !.phase = "preparing", !.active = TRUE])
    <3>1. \A v \in Works \ {w} : ~Pending(journal, v)'
      BY <2>2 DEF RemotePending, Pending, JournalSet
    <3>2. QED
      BY <3>1 DEF OnePending
  <2>3. QED
    BY <1>3, <2>1, <2>2, BeginEffect
<1>4. ASSUME NEW w \in Works,
             \/ JournalSet(w, [journal[w] EXCEPT !.late = TRUE])
             \/ JournalSet(w, [journal[w] EXCEPT !.token = None])
             \/ \E s \in Sweepers : JournalSet(w, [journal[w] EXCEPT !.token = s])
             \/ JournalSet(w, [journal[w] EXCEPT !.phase = "sending", !.baseline = TRUE])
             \/ JournalSet(w, [journal[w] EXCEPT !.task = TRUE, !.phase = "polling"])
             \/ JournalSet(w, [journal[w] EXCEPT !.phase = "reconciliation_required"])
             \/ JournalSet(w, [journal[w] EXCEPT !.active =
                  @ /\ ~(journal[w].phase = "terminal" /\ journal[w].outcome # "canceled")])
      PROVE  OnePending'
  <2>1. /\ journal'[w].active => journal[w].active
        /\ journal'[w].outcome = journal[w].outcome
    BY <1>0, <1>4 DEF JournalSet, JournalRow
  <2>2. \A v \in Works \ {w} : journal'[v] = journal[v]
    BY <1>4 DEF JournalSet
  <2>3. QED
    BY <1>2, <2>1, <2>2 DEF Pending
<1>5. ASSUME NEW c \in Consumers, NEW w \in Works, w = at[c].w, CacheOutcome(c) PROVE OnePending'
  <2>1. /\ JournalSet(w, [journal[w] EXCEPT !.phase = "terminal", !.outcome = remote[w].task])
        /\ journal[w].phase \in {"sending", "polling"}
    BY <1>5, CacheOutcomeEffect DEF CacheOutcome
  <2>2. journal[w].active
    BY <1>0, <2>1 DEF Recorded
  <2>3. QED
    BY <1>2, <2>1, <2>2 DEF Pending, JournalSet
<1>6. ASSUME NEW s \in Sweepers, SweepFinish(s) PROVE OnePending'
  <2>0. PICK w \in Works : w = sw[s].w
    BY <1>6, SweepFinishEffect DEF Verdict
  <2>1. /\ \/ UNCHANGED journal
           \/ \E j \in JournalRow :
                /\ JournalSet(w, j) /\ ~j.active
                /\ j.outcome = journal[w].outcome \/ (sw[s].state = "resolved" /\ j.outcome = sw[s].outcome)
           \/ \E j \in JournalRow :
                /\ JournalSet(w, j) /\ j.active = journal[w].active
                /\ j.outcome = journal[w].outcome
    BY <1>6, <2>0, SweepFinishEffect
  <2>2. sw[s].state = "resolved" => sw[s].outcome # "canceled"
    BY <1>6 DEF SweepFinish, Submissions, Proven, Naturally
  <2>3. QED
    BY <1>1, <1>2, <2>1, <2>2 DEF Pending, JournalSet
<1>7. \A c \in Consumers : at[c].pc # "idle" => at[c].w \in Works
  BY DEF RemoteTypeOK
<1>8. ASSUME NEW c \in Consumers,
             \/ Begin(c) \/ Submit(c) \/ Discover(c) \/ CacheOutcome(c)
             \/ Expire(c) \/ FinishChat(c) \/ FinishRun(c)
      PROVE  OnePending'
  <2>1. at[c].w \in Works
    BY <1>7, <1>8 DEF Begin, Submit, Discover, CacheOutcome, Expire, FinishChat, FinishRun
  <2>2. CASE Begin(c) \/ CacheOutcome(c)
    BY <1>3, <1>5, <2>1, <2>2
  <2>3. CASE Submit(c) \/ Discover(c) \/ Expire(c)
    BY <1>4, <2>1, <2>3, SubmitEffect, DiscoverEffect, ExpireEffect
  <2>4. CASE FinishChat(c) \/ FinishRun(c)
    BY <1>1, <1>4, <2>1, <2>4, FinishChatEffect, FinishRunEffect
  <2>5. QED
    BY <1>8, <2>2, <2>3, <2>4
<1>9. ASSUME NEW w \in Works, Gateway(w) \/ Deadline(w) \/ TokenLapses(w) PROVE OnePending'
  BY <1>1, <1>4, <1>9, GatewayEffect, DeadlineEffect, TokenLapsesEffect
<1>10. ASSUME NEW s \in Sweepers, NEW w \in Works, SweepClaim(s, w) PROVE OnePending'
  BY <1>4, <1>10, SweepClaimEffect
<1>11. ASSUME NEW s \in Sweepers, CrashSweep(s) PROVE OnePending'
  BY <1>1, <1>11, CrashEffect
<1>12. QED
  BY <1>1, <1>6, <1>8, <1>9, <1>10, <1>11, WhoRecords DEF remoteVars

-----------------------------------------------------------------------------
\* Entries are admitted once and settled for good.
LEMMA EntriesGrow ==
  ASSUME RemoteAssumption, RemoteTypeOK, RemoteNext
  PROVE  \A w \in Works : /\ entry[w] # "none" => entry'[w] # "none"
                          /\ entry[w] = "settled" => entry'[w] = "settled"
<1>1. ASSUME NEW c \in Consumers, Admit(c) \/ Settle(c)
      PROVE  \A w \in Works : /\ entry[w] # "none" => entry'[w] # "none"
                              /\ entry[w] = "settled" => entry'[w] = "settled"
  BY <1>1 DEF Admit, Settle, RemoteTypeOK
<1>2. ASSUME NEW v \in Works, CancelRun(v)
      PROVE  \A w \in Works : /\ entry[w] # "none" => entry'[w] # "none"
                              /\ entry[w] = "settled" => entry'[w] = "settled"
  BY <1>2 DEF CancelRun, RemoteTypeOK
<1>3. ASSUME NEW s \in Sweepers, SweepFinish(s)
      PROVE  \A w \in Works : /\ entry[w] # "none" => entry'[w] # "none"
                              /\ entry[w] = "settled" => entry'[w] = "settled"
  BY <1>3, SweepFinishEffect DEF RemoteTypeOK
<1>4. CASE UNCHANGED entry
  BY <1>4
<1>5. ASSUME NEW w \in Works,
             \/ Gateway(w) \/ EnqueueChat(w) \/ Revoke(w) \/ Clock(w) \/ FailStaleRun(w)
             \/ \E c \in Consumers : StartRun(c, w) \/ Take(c, w)
             \/ \E s \in Sweepers : SweepClaim(s, w)
      PROVE  UNCHANGED entry
  BY <1>5 DEF Gateway, Accept, Lose, EndTask, OnlyRemote, EnqueueChat, Revoke, Clock, Deadline,
              LeaseLapses, TokenLapses, FailStaleRun, StartRun, Take, ClaimChat, RecoverRun, SweepClaim
<1>6. ASSUME NEW c \in Consumers,
             \/ LoseLease(c) \/ ReadPrior(c) \/ Begin(c) \/ Submit(c) \/ Discover(c)
             \/ CacheOutcome(c) \/ Expire(c) \/ EndPoll(c) \/ SaveReply(c) \/ ApplyActions(c)
             \/ FinishChat(c) \/ FinishRun(c) \/ Crash(c)
      PROVE  UNCHANGED entry
  BY <1>6 DEF LoseLease, ReadPrior, Begin, Submit, Discover, CacheOutcome, Expire, EndPoll,
              SaveReply, ApplyActions, FinishChat, FinishRun, Crash
<1>7. ASSUME NEW s \in Sweepers, CrashSweep(s) PROVE UNCHANGED entry
  BY <1>7 DEF CrashSweep
<1>8. QED
  BY <1>1, <1>2, <1>3, <1>4, <1>5, <1>6, <1>7 DEF RemoteNext, Step, Operator

\* A job that exists goes on existing, and these are all the steps that write one.
LEMMA JobsGrow ==
  ASSUME RemoteAssumption, RemoteTypeOK, RemoteNext
  PROVE  \A w \in Works : job[w].status # "none" => job'[w].status # "none"
<1> DEFINE goal == \A w \in Works : job[w].status # "none" => job'[w].status # "none"
<1>0. \A w \in Works : job[w] \in JobRow
  BY DEF RemoteTypeOK
<1>1. ASSUME NEW w \in Works, NEW row, JobSet(w, row), row.status # "none" \/ row.status = job[w].status
      PROVE  goal
  BY <1>1 DEF JobSet
<1>2. ASSUME UNCHANGED job PROVE goal
  BY <1>2
<1> HIDE DEF goal
<1>4. ASSUME NEW w \in Works,
             EnqueueChat(w) \/ FailStaleRun(w) \/ CancelRun(w) \/ Revoke(w) \/ LeaseLapses(w)
      PROVE  goal
  <2>1. CASE EnqueueChat(w)
    <3>1. [job[w] EXCEPT !.status = "queued"].status = "queued"
      BY <1>0 DEF JobRow
    <3>2. QED
      BY <1>1, <2>1, <3>1, EnqueueChatEffect
  <2>2. CASE FailStaleRun(w) \/ CancelRun(w)
    <3>1. [NoJob EXCEPT !.status = "done", !.applied = job[w].applied].status = "done"
      BY DEF NoJob
    <3>2. QED
      BY <1>1, <2>2, <3>1, FailStaleRunEffect, CancelRunEffect
  <2>3. CASE Revoke(w)
    <3>1. [job[w] EXCEPT !.revoked = TRUE].status = job[w].status
      BY <1>0 DEF JobRow
    <3>2. QED
      BY <1>1, <2>3, <3>1, RevokeEffect
  <2>4. CASE LeaseLapses(w)
    <3>1. [job[w] EXCEPT !.lease = FALSE].status = job[w].status
      BY <1>0 DEF JobRow
    <3>2. QED
      BY <1>1, <2>4, <3>1, LeaseLapsesEffect
  <2>5. QED
    BY <1>4, <2>1, <2>2, <2>3, <2>4
<1>5. ASSUME NEW c \in Consumers, NEW w \in Works, StartRun(c, w) \/ ClaimChat(c, w) \/ RecoverRun(c, w)
      PROVE  goal
  <2>1. /\ [job[w] EXCEPT !.status = "running", !.holder = c, !.lease = TRUE].status = "running"
        /\ [job[w] EXCEPT !.holder = c, !.lease = TRUE].status = job[w].status
    BY <1>0 DEF JobRow
  <2>2. QED
    BY <1>1, <1>5, <2>1, StartRunEffect, ClaimChatEffect, RecoverRunEffect
<1>6. ASSUME NEW c \in Consumers,
             SaveReply(c) \/ ApplyActions(c) \/ FinishChat(c) \/ FinishRun(c)
      PROVE  goal
  <2>0. PICK w \in Works : w = at[c].w
    BY <1>6, AtWork DEF SaveReply, ApplyActions, FinishChat, FinishRun
  <2>1. /\ \A r : [job[w] EXCEPT !.reply = r].status = job[w].status
        /\ [job[w] EXCEPT !.applied = @ + 1].status = job[w].status
        /\ [NoJob EXCEPT !.status = "done", !.applied = job[w].applied].status = "done"
    BY <1>0 DEF JobRow, NoJob
  <2>2. CASE SaveReply(c)
    <3>1. ASSUME UNCHANGED job PROVE goal
      BY <1>2, <3>1
    <3>2. ASSUME NEW r, JobSet(w, [job[w] EXCEPT !.reply = r]) PROVE goal
      BY <1>1, <2>1, <3>2
    <3>3. QED
      BY <2>0, <2>2, <3>1, <3>2, SaveReplyEffect
  <2>3. CASE ApplyActions(c)
    BY <1>1, <2>0, <2>1, <2>3, ApplyActionsEffect
  <2>4. CASE FinishChat(c) \/ FinishRun(c)
    <3>1. \/ UNCHANGED job
          \/ JobSet(w, [NoJob EXCEPT !.status = "done", !.applied = job[w].applied])
      BY <2>0, <2>4, FinishChatEffect, FinishRunEffect
    <3>2. QED
      BY <1>1, <1>2, <2>1, <3>1
  <2>5. QED
    BY <1>6, <2>2, <2>3, <2>4
<1>7. ASSUME NEW w \in Works,
             \/ Gateway(w) \/ Deadline(w) \/ TokenLapses(w) \/ \E s \in Sweepers : SweepClaim(s, w)
      PROVE  goal
  BY <1>2, <1>7 DEF Gateway, Accept, Lose, EndTask, OnlyRemote, Deadline, TokenLapses, SweepClaim
<1>8. ASSUME NEW c \in Consumers,
             \/ LoseLease(c) \/ ReadPrior(c) \/ Admit(c) \/ Begin(c) \/ Submit(c) \/ Discover(c)
             \/ CacheOutcome(c) \/ Expire(c) \/ EndPoll(c) \/ Settle(c) \/ Crash(c)
      PROVE  goal
  BY <1>2, <1>8 DEF LoseLease, ReadPrior, Admit, Begin, Submit, Discover, CacheOutcome, Expire, EndPoll,
              Settle, Crash
<1>9. ASSUME NEW s \in Sweepers, SweepFinish(s) \/ CrashSweep(s) PROVE goal
  BY <1>2, <1>9 DEF SweepFinish, CrashSweep
<1>10. goal
  BY <1>2, <1>4, <1>5, <1>6, <1>7, <1>8, <1>9 DEF RemoteNext, Step, Operator, Clock, Take
<1>11. QED
  BY <1>10 DEF goal

\* How far a journal has come, and how it may go on.
Released(w) == Known(w) /\ ~journal[w].active
Forward(w) ==
  /\ Known(w) => Known(w)'
  /\ Known(w)' => \/ Known(w)
                  \/ entry'[w] = "settled"
                  \/ \E c \in Consumers : Begin(c) /\ at[c].w = w
  /\ Released(w)' =>
       \/ Released(w)
       \/ entry'[w] = "settled"
       \/ \E c \in Consumers : (FinishChat(c) \/ FinishRun(c)) /\ at[c].w = w
\* A journal is begun by the consumer of its work, stays known, and is released by the end
\* of the work or by a sweep that settled it.
LEMMA JournalsGrow ==
  ASSUME RemoteAssumption, RemoteTypeOK, Submissions, RemoteNext
  PROVE  \A w \in Works : Forward(w)
<1> USE RemoteAssumption
<1>0. \A w \in Works : Recorded(w) /\ journal[w] \in JournalRow
  BY DEF Submissions, RemoteTypeOK
<1>1. ASSUME NEW w \in Works, journal'[w] = journal[w] PROVE Forward(w)
  BY <1>1 DEF Forward, Known, Released
<1>2. ASSUME NEW w \in Works,
             \/ JournalSet(w, [journal[w] EXCEPT !.late = TRUE]) /\ Known(w)
             \/ JournalSet(w, [journal[w] EXCEPT !.token = None])
             \/ \E s \in Sweepers : JournalSet(w, [journal[w] EXCEPT !.token = s])
             \/ JournalSet(w, [journal[w] EXCEPT !.phase = "sending", !.baseline = TRUE]) /\ Known(w)
             \/ JournalSet(w, [journal[w] EXCEPT !.task = TRUE, !.phase = "polling"]) /\ Known(w)
             \/ JournalSet(w, [journal[w] EXCEPT !.phase = "reconciliation_required"]) /\ Known(w)
             \/ JournalSet(w, [journal[w] EXCEPT !.phase = "terminal", !.outcome = remote[w].task]) /\ Known(w)
      PROVE  \A v \in Works : Forward(v)
  <2>1. /\ journal'[w].active = journal[w].active
        /\ journal'[w].phase # "absent" <=> journal[w].phase # "absent"
    BY <1>0, <1>2 DEF JournalSet, JournalRow, Known
  <2>2. Forward(w)
    BY <2>1 DEF Forward, Known, Released
  <2>3. \A v \in Works \ {w} : journal'[v] = journal[v]
    BY <1>2 DEF JournalSet
  <2>4. QED
    BY <1>1, <2>2, <2>3
<1>3. ASSUME NEW c \in Consumers, Begin(c) PROVE \A v \in Works : Forward(v)
  <2>0. PICK w \in Works : w = at[c].w
    BY <1>3, AtWork DEF Begin
  <2>1. CASE UNCHANGED journal
    BY <1>1, <2>1
  <2>2. CASE JournalSet(w, [journal[w] EXCEPT !.phase = "preparing", !.active = TRUE])
    <3>1. journal'[w].phase = "preparing" /\ journal'[w].active
      BY <1>0, <2>2 DEF JournalSet, JournalRow
    <3>2. Forward(w)
      BY <1>3, <2>0, <3>1 DEF Forward, Known, Released
    <3>3. QED
      BY <1>1, <2>2, <3>2 DEF JournalSet
  <2>3. QED
    BY <1>3, <2>0, <2>1, <2>2, BeginEffect
<1>4. ASSUME NEW c \in Consumers, FinishChat(c) \/ FinishRun(c) PROVE \A v \in Works : Forward(v)
  <2>0. PICK w \in Works : w = at[c].w
    BY <1>4, AtWork DEF FinishChat, FinishRun
  <2>1. CASE UNCHANGED journal
    BY <1>1, <2>1
  <2>2. CASE JournalSet(w, [journal[w] EXCEPT !.active =
               @ /\ ~(journal[w].phase = "terminal" /\ journal[w].outcome # "canceled")])
    <3>1. journal'[w].phase = journal[w].phase
      BY <1>0, <2>2 DEF JournalSet, JournalRow
    <3>2. Forward(w)
      BY <1>4, <2>0, <3>1 DEF Forward, Known, Released
    <3>3. QED
      BY <1>1, <2>2, <3>2 DEF JournalSet
  <2>3. QED
    BY <1>4, <2>0, <2>1, <2>2, FinishChatEffect, FinishRunEffect
<1>5. ASSUME NEW s \in Sweepers, SweepFinish(s) PROVE \A v \in Works : Forward(v)
  <2>0. PICK w \in Works : w = sw[s].w
    BY <1>5, SweepFinishEffect DEF Verdict
  <2>1. PICK j \in JournalRow :
          \/ UNCHANGED journal
          \/ /\ entry' = [entry EXCEPT ![w] = "settled"]
             /\ JournalSet(w, j)
             /\ j.phase = IF journal[w].phase = "terminal" THEN "terminal" ELSE "reconciliation_required"
          \/ JournalSet(w, j) /\ j.active = journal[w].active /\ j.phase = journal[w].phase
    BY <1>0, <1>5, <2>0, SweepFinishEffect
  <2>2. CASE UNCHANGED journal
    BY <1>1, <2>2
  <2>3. CASE /\ entry' = [entry EXCEPT ![w] = "settled"]
             /\ JournalSet(w, j)
             /\ j.phase = IF journal[w].phase = "terminal" THEN "terminal" ELSE "reconciliation_required"
    <3>1. /\ entry'[w] = "settled" /\ journal'[w].phase \in {"terminal", "reconciliation_required"}
      BY <2>3 DEF RemoteTypeOK, JournalSet
    <3>2. Forward(w)
      BY <3>1 DEF Forward, Known, Released
    <3>3. QED
      BY <1>1, <2>3, <3>2 DEF JournalSet
  <2>4. CASE JournalSet(w, j) /\ j.active = journal[w].active /\ j.phase = journal[w].phase
    <3>1. Forward(w)
      BY <2>4 DEF JournalSet, Forward, Known, Released
    <3>2. QED
      BY <1>1, <2>4, <3>1 DEF JournalSet
  <2>5. QED
    BY <2>1, <2>2, <2>3, <2>4
<1>6. ASSUME NEW c \in Consumers, Submit(c) \/ Discover(c) \/ CacheOutcome(c) \/ Expire(c)
      PROVE  \A v \in Works : Forward(v)
  <2>0. PICK w \in Works : w = at[c].w
    BY <1>6, AtWork DEF Submit, Discover, CacheOutcome, Expire
  <2>1. Known(w)
    BY <1>6, <2>0 DEF Submit, MaySubmit, Discover, CacheOutcome, Expire, Known
  <2>2. QED
    BY <1>2, <1>6, <2>0, <2>1, SubmitEffect, DiscoverEffect, CacheOutcomeEffect, ExpireEffect
<1>7. ASSUME NEW w \in Works,
             Deadline(w) \/ TokenLapses(w) \/ \E s \in Sweepers : SweepClaim(s, w)
      PROVE  \A v \in Works : Forward(v)
  <2>1. Deadline(w) => Known(w)
    BY DEF Deadline, Known
  <2>2. QED
    BY <1>2, <1>7, <2>1, DeadlineEffect, TokenLapsesEffect, SweepClaimEffect
<1>8. CASE UNCHANGED journal
  BY <1>1, <1>8
<1>9. QED
  BY <1>3, <1>4, <1>5, <1>6, <1>7, <1>8, WhoRecords, GatewayEffect, CrashEffect

\* Only these actions move a consumer.
LEMMA WhoMoves ==
  ASSUME RemoteNext
  PROVE  \/ UNCHANGED at
         \/ \E c \in Consumers :
              \/ \E w \in Works : StartRun(c, w) \/ ClaimChat(c, w) \/ RecoverRun(c, w)
              \/ LoseLease(c) \/ ReadPrior(c) \/ Admit(c) \/ Begin(c) \/ Submit(c) \/ Expire(c)
              \/ EndPoll(c) \/ Settle(c) \/ SaveReply(c) \/ ApplyActions(c) \/ FinishChat(c)
              \/ FinishRun(c) \/ Crash(c)
<1> DEFINE still == UNCHANGED at
<1>1. ASSUME NEW w \in Works,
             \/ Gateway(w) \/ Operator(w) \/ Clock(w) \/ FailStaleRun(w)
             \/ \E s \in Sweepers : SweepClaim(s, w)
      PROVE  still
  BY <1>1 DEF Gateway, Accept, Lose, EndTask, OnlyRemote, Operator, EnqueueChat, CancelRun, Revoke,
              Clock, Deadline, LeaseLapses, TokenLapses, FailStaleRun, SweepClaim
<1>2. ASSUME NEW c \in Consumers, Discover(c) \/ CacheOutcome(c) PROVE still
  BY <1>2 DEF Discover, CacheOutcome
<1>3. ASSUME NEW s \in Sweepers, SweepFinish(s) \/ CrashSweep(s) PROVE still
  BY <1>3 DEF SweepFinish, CrashSweep
<1> HIDE DEF still
<1>4. still \/ ~still
  OBVIOUS
<1>5. QED
  BY <1>1, <1>2, <1>3, <1>4 DEF RemoteNext, Step, Take, still

\* A consumer that stays with its work, or leaves it.
Stays(c) == at'[c].pc = "idle" \/ (at[c].pc # "idle" /\ at'[c].w = at[c].w)
\* What a moving consumer knows after its step.
LEMMA MoverAccounts ==
  ASSUME RemoteAssumption, RemoteTypeOK, Accounting, RemoteNext, NEW c \in Consumers,
         \/ \E w \in Works : StartRun(c, w) \/ ClaimChat(c, w) \/ RecoverRun(c, w)
         \/ LoseLease(c) \/ ReadPrior(c) \/ Admit(c) \/ Begin(c) \/ Submit(c) \/ Expire(c)
         \/ EndPoll(c) \/ Settle(c) \/ SaveReply(c) \/ ApplyActions(c) \/ FinishChat(c)
         \/ FinishRun(c) \/ Crash(c)
  PROVE  /\ \A d \in Consumers \ {c} : at'[d] = at[d]
         /\ Accounted(c)'
         /\ \/ Stays(c)
            \/ \E w \in Works : \/ StartRun(c, w) /\ at'[c].w = w
                                \/ ClaimChat(c, w) /\ at'[c].w = w
                                \/ RecoverRun(c, w) /\ at'[c].w = w
<1> USE RemoteAssumption
<1> DEFINE goal == /\ \A d \in Consumers \ {c} : at'[d] = at[d]
                   /\ Accounted(c)'
                   /\ Stays(c)
<1>0. /\ at[c] \in ConsumerState
      /\ Accounted(c)
      /\ at[c].pc # "idle" => /\ at[c].w \in Works
                              /\ job[at[c].w].status # "none" /\ job'[at[c].w].status # "none"
                              /\ entry[at[c].w] # "none" => entry'[at[c].w] # "none"
                              /\ entry[at[c].w] = "settled" => entry'[at[c].w] = "settled"
                              /\ Known(at[c].w) => entry[at[c].w] # "none"
  BY AtWork, EntriesGrow, JobsGrow DEF Accounting, Accounted
<1>1. ASSUME ConsumerSet(c, Idle) PROVE goal
  BY <1>1 DEF ConsumerSet, Idle, Accounted, Stays
<1>2. ASSUME NEW w \in Works, StartRun(c, w)
      PROVE  (\A d \in Consumers \ {c} : at'[d] = at[d]) /\ Accounted(c)' /\ at'[c].w = w
  <2>1. /\ ConsumerSet(c, [Idle EXCEPT !.pc = "admit", !.w = w])
        /\ JobSet(w, [job[w] EXCEPT !.status = "running", !.holder = c, !.lease = TRUE])
    BY <1>2, StartRunEffect
  <2>2. at'[c].pc = "admit" /\ at'[c].w = w /\ at'[c].prior = FALSE
    BY <2>1 DEF ConsumerSet, Idle
  <2>3. job'[w].status = "running"
    BY <2>1 DEF JobSet, RemoteTypeOK, JobRow
  <2>4. QED
    BY <2>1, <2>2, <2>3 DEF Accounted, ConsumerSet
<1>3. ASSUME NEW w \in Works, ClaimChat(c, w)
      PROVE  (\A d \in Consumers \ {c} : at'[d] = at[d]) /\ Accounted(c)' /\ at'[c].w = w
  <2>1. /\ ConsumerSet(c, [Idle EXCEPT !.w = w,
                  !.pc = IF job[w].reply # None THEN AfterSavedReply
                         ELSE IF job[w].revoked THEN "project" ELSE "prior",
                  !.result = IF job[w].revoked THEN "failure" ELSE None])
        /\ JobSet(w, [job[w] EXCEPT !.status = "running", !.holder = c, !.lease = TRUE])
        /\ w \in Chats /\ w \notin Runs
    BY <1>3, ClaimChatEffect DEF ClaimChat
  <2>2. at'[c].pc \in {"finish", "project", "prior"} /\ at'[c].w = w /\ at'[c].prior = FALSE
    BY <2>1 DEF ConsumerSet, Idle, AfterSavedReply
  <2>3. job'[w].status = "running"
    BY <2>1 DEF JobSet, RemoteTypeOK, JobRow
  <2>4. QED
    BY <2>1, <2>2, <2>3 DEF Accounted, ConsumerSet
<1>4. ASSUME NEW w \in Works, RecoverRun(c, w)
      PROVE  (\A d \in Consumers \ {c} : at'[d] = at[d]) /\ Accounted(c)' /\ at'[c].w = w
  <2>1. /\ ConsumerSet(c, [Idle EXCEPT !.pc = "admit", !.w = w])
        /\ JobSet(w, [job[w] EXCEPT !.holder = c, !.lease = TRUE])
        /\ job[w].status = "running"
    BY <1>4, RecoverRunEffect DEF RecoverRun
  <2>2. at'[c].pc = "admit" /\ at'[c].w = w /\ at'[c].prior = FALSE
    BY <2>1 DEF ConsumerSet, Idle
  <2>3. job'[w].status = "running"
    BY <2>1 DEF JobSet, RemoteTypeOK, JobRow
  <2>4. QED
    BY <2>1, <2>2, <2>3 DEF Accounted, ConsumerSet
<1>5. ASSUME ReadPrior(c) PROVE goal
  <2>1. /\ ConsumerSet(c, [at[c] EXCEPT !.pc = "admit", !.prior = entry[at[c].w] # "none"])
        /\ at[c].pc = "prior"
    BY <1>5, ReadPriorEffect DEF ReadPrior
  <2>2. at'[c].pc = "admit" /\ at'[c].w = at[c].w /\ (at'[c].prior => entry[at[c].w] # "none")
    BY <1>0, <2>1 DEF ConsumerSet, ConsumerState
  <2>3. QED
    BY <1>0, <2>1, <2>2 DEF Accounted, ConsumerSet, Stays
<1>6. ASSUME Admit(c) PROVE goal
  <2>0. at[c].pc = "admit" /\ (at[c].prior => entry[at[c].w] # "none")
    BY <1>0, <1>6 DEF Admit, Accounted
  <2>1. CASE /\ ConsumerSet(c, [at[c] EXCEPT !.pc = "begin", !.prior = FALSE])
             /\ \/ at[c].prior \/ (at[c].w \in Runs /\ Known(at[c].w))
                \/ entry'[at[c].w] = "admitted"
    <3>1. at'[c].pc = "begin" /\ at'[c].w = at[c].w /\ at'[c].prior = FALSE
      BY <1>0, <2>1 DEF ConsumerSet, ConsumerState
    <3>2. entry'[at[c].w] # "none"
      BY <1>0, <2>0, <2>1
    <3>3. QED
      BY <1>0, <2>0, <2>1, <3>1, <3>2 DEF Accounted, ConsumerSet, Stays
  <2>2. CASE /\ ConsumerSet(c, [at[c] EXCEPT !.pc = "project", !.result = "failure"])
             /\ at[c].prior = FALSE /\ (at[c].w \in Runs => ~Known(at[c].w))
    <3>1. at'[c].pc = "project" /\ at'[c].w = at[c].w /\ at'[c].prior = FALSE
      BY <1>0, <2>2 DEF ConsumerSet, ConsumerState
    <3>2. UNCHANGED journal
      BY <1>6 DEF Admit
    <3>3. QED
      BY <1>0, <2>0, <2>2, <3>1, <3>2 DEF Accounted, ConsumerSet, Stays, Known
  <2>3. QED
    BY <1>6, <2>1, <2>2, AdmitEffect
<1>7. ASSUME NEW rec, ConsumerSet(c, rec), at[c].pc # "idle", at[c].pc # "admit", rec.w = at[c].w,
             rec.prior = at[c].prior,
             \/ rec.pc \in {"poll", "settle"}
             \/ rec.pc = "finish" /\ at[c].w \in Chats
             \/ rec.pc = "apply" /\ at[c].w \in Chats
             \/ rec.pc = "project" /\ entry'[at[c].w] = "settled"
      PROVE  goal
  BY <1>0, <1>7 DEF Accounted, ConsumerSet, Stays
<1>8. ASSUME Begin(c) \/ Submit(c) \/ Expire(c) \/ EndPoll(c) PROVE goal
  <2>1. at[c].pc \in {"begin", "poll"}
    BY <1>8 DEF Begin, Submit, Expire, EndPoll
  <2>2. PICK rec : /\ ConsumerSet(c, rec)
                   /\ rec.w = at[c].w /\ rec.prior = at[c].prior
                   /\ rec.pc \in {"poll", "settle"}
    <3>1. CASE Begin(c)
      <4> DEFINE owner == [at[c] EXCEPT !.pc = "poll", !.owns = TRUE]
                 guest == [at[c] EXCEPT !.pc = "poll", !.owns = FALSE]
                 fails == [at[c] EXCEPT !.pc = "settle", !.result = "failure"]
      <4>1. /\ owner.w = at[c].w /\ owner.prior = at[c].prior /\ owner.pc = "poll"
            /\ guest.w = at[c].w /\ guest.prior = at[c].prior /\ guest.pc = "poll"
            /\ fails.w = at[c].w /\ fails.prior = at[c].prior /\ fails.pc = "settle"
        BY <1>0 DEF ConsumerState
      <4>2. ConsumerSet(c, owner) \/ ConsumerSet(c, guest) \/ ConsumerSet(c, fails)
        BY <3>1, BeginEffect
      <4> HIDE DEF owner, guest, fails
      <4>3. QED
        BY <4>1, <4>2
    <3>2. CASE Submit(c)
      <4> DEFINE rec == [at[c] EXCEPT !.owns = FALSE]
      <4>1. rec.w = at[c].w /\ rec.prior = at[c].prior /\ rec.pc = "poll"
        BY <1>0, <3>2 DEF ConsumerState, Submit
      <4>2. ConsumerSet(c, rec)
        BY <3>2, SubmitEffect
      <4>3. QED
        BY <4>1, <4>2
    <3>3. CASE Expire(c)
      <4> DEFINE rec == [at[c] EXCEPT !.pc = "settle", !.result = "failure"]
      <4>1. rec.w = at[c].w /\ rec.prior = at[c].prior /\ rec.pc = "settle"
        BY <1>0 DEF ConsumerState
      <4>2. ConsumerSet(c, rec)
        BY <3>3, ExpireEffect
      <4>3. QED
        BY <4>1, <4>2
    <3>4. CASE EndPoll(c)
      <4> DEFINE rec == [at[c] EXCEPT !.pc = "settle",
                  !.result = IF /\ journal[at[c].w].phase = "terminal"
                                /\ journal[at[c].w].outcome = "completed"
                             THEN "answer" ELSE "failure"]
      <4>1. rec.w = at[c].w /\ rec.prior = at[c].prior /\ rec.pc = "settle"
        BY <1>0 DEF ConsumerState
      <4>2. ConsumerSet(c, rec)
        BY <3>4, EndPollEffect
      <4>3. QED
        BY <4>1, <4>2
    <3>5. QED
      BY <1>8, <3>1, <3>2, <3>3, <3>4
  <2>3. QED
    BY <1>7, <2>1, <2>2
<1>9. ASSUME Settle(c) PROVE goal
  <2> DEFINE rec == [at[c] EXCEPT !.pc = "project"]
  <2>1. ConsumerSet(c, rec) /\ at[c].pc = "settle" /\ entry' = [entry EXCEPT ![at[c].w] = "settled"]
    BY <1>9, SettleEffect DEF Settle
  <2>2. rec.w = at[c].w /\ rec.prior = at[c].prior /\ rec.pc = "project"
    BY <1>0 DEF ConsumerState
  <2>3. entry'[at[c].w] = "settled"
    BY <1>0, <2>1 DEF RemoteTypeOK
  <2>4. QED
    BY <1>7, <2>1, <2>2, <2>3
<1>10. ASSUME SaveReply(c) PROVE goal
  <2>1. CASE ConsumerSet(c, Idle)
    BY <1>1, <2>1
  <2>2. ASSUME NEW pc \in {"apply", "finish"}, ConsumerSet(c, [at[c] EXCEPT !.pc = pc]) PROVE goal
    <3>1. at[c].pc = "project" /\ at[c].w \in Chats
      BY <1>10 DEF SaveReply
    <3>2. /\ [at[c] EXCEPT !.pc = pc].w = at[c].w /\ [at[c] EXCEPT !.pc = pc].prior = at[c].prior
          /\ [at[c] EXCEPT !.pc = pc].pc = pc
      BY <1>0 DEF ConsumerState
    <3>3. QED
      BY <1>7, <2>2, <3>1, <3>2
  <2>3. QED
    BY <1>10, <2>1, <2>2, SaveReplyEffect
<1>11. ASSUME ApplyActions(c) PROVE goal
  <2> DEFINE rec == [at[c] EXCEPT !.pc = "finish"]
  <2>1. ConsumerSet(c, rec) /\ at[c].pc = "apply" /\ at[c].w \in Chats
    BY <1>0, <1>11, ApplyActionsEffect DEF ApplyActions, Accounted
  <2>2. rec.w = at[c].w /\ rec.prior = at[c].prior /\ rec.pc = "finish"
    BY <1>0 DEF ConsumerState
  <2>3. QED
    BY <1>7, <2>1, <2>2
<1>12. ASSUME LoseLease(c) \/ FinishChat(c) \/ FinishRun(c) \/ Crash(c) PROVE goal
  <2>1. ConsumerSet(c, Idle)
    BY <1>12, LoseLeaseEffect, FinishChatEffect, FinishRunEffect, CrashEffect
  <2>2. QED
    BY <1>1, <2>1
<1> HIDE DEF goal
<1>13. CASE goal
  BY <1>13 DEF goal
<1>14. QED
  BY <1>2, <1>3, <1>4, <1>5, <1>6, <1>8, <1>9, <1>10, <1>11, <1>12, <1>13

\* Every step keeps the accounting: who is at a run without a journal is alone there, so
\* nobody is past its accounting when the journal is begun.
LEMMA AccountingStep ==
  ASSUME RemoteAssumption, RemoteTypeOK, Submissions, Accounting, [RemoteNext]_remoteVars
  PROVE  Accounting'
<1> SUFFICES ASSUME RemoteNext PROVE Accounting'
  BY DEF remoteVars, Accounting, Accounted, Racing, ReleasedIsSettled, Known
<1> USE RemoteAssumption
<1>0. /\ \A w \in Works : /\ Forward(w)
                          /\ entry[w] # "none" => entry'[w] # "none"
                          /\ entry[w] = "settled" => entry'[w] = "settled"
                          /\ job[w].status # "none" => job'[w].status # "none"
                          /\ Known(w) => entry[w] # "none"
      /\ \A c \in Consumers : Accounted(c) /\ (at[c].pc # "idle" => at[c].w \in Works)
  BY JournalsGrow, EntriesGrow, JobsGrow, AtWork DEF Accounting
<1>1. \A w \in Works : Known(w)' => entry'[w] # "none"
  <2> SUFFICES ASSUME NEW w \in Works, Known(w)', ~Known(w), entry'[w] # "settled"
               PROVE  entry'[w] # "none"
    BY <1>0
  <2>1. PICK c \in Consumers : Begin(c) /\ at[c].w = w
    BY <1>0 DEF Forward
  <2>2. entry[w] # "none"
    BY <1>0, <2>1 DEF Accounted, Begin
  <2>3. QED
    BY <1>0, <2>2
<1>2. ASSUME NEW c \in Consumers, at'[c] = at[c] PROVE Accounted(c)'
  <2>1. CASE at[c].pc = "idle"
    BY <1>0, <1>2, <2>1 DEF Accounted
  <2>2. CASE at[c].pc # "idle"
    <3>0. PICK w \in Works : w = at[c].w
      BY <1>0, <2>2
    <3>1. Forward(w) /\ (entry[w] # "none" => entry'[w] # "none")
          /\ (entry[w] = "settled" => entry'[w] = "settled")
          /\ (job[w].status # "none" => job'[w].status # "none")
      BY <1>0
    <3>2. CASE at[c].pc = "project" /\ w \in Runs /\ Known(w)' /\ ~Known(w) /\ entry'[w] # "settled"
      <4>1. PICK d \in Consumers : Begin(d) /\ at[d].w = w
        BY <3>1, <3>2 DEF Forward
      <4>2. Racing(c, d) /\ c # d
        BY <3>0, <3>2, <4>1 DEF Racing, Begin
      <4>3. QED
        BY <4>2 DEF Accounting
    <3>3. CASE ~(at[c].pc = "project" /\ w \in Runs /\ Known(w)' /\ ~Known(w) /\ entry'[w] # "settled")
      BY <1>0, <1>2, <2>2, <3>0, <3>1, <3>3 DEF Accounted, Known
    <3>4. QED
      BY <3>2, <3>3
  <2>3. QED
    BY <2>1, <2>2
<1>3. ASSUME \A c \in Consumers : Stays(c)
      PROVE  \A c, d \in Consumers : Racing(c, d)' => c = d
  <2> SUFFICES ASSUME NEW c \in Consumers, NEW d \in Consumers, Racing(c, d)' PROVE c = d
    OBVIOUS
  <2>1. Racing(c, d)
    <3>1. at[c].pc # "idle" /\ at[d].pc # "idle" /\ at'[c].w = at[c].w /\ at'[d].w = at[d].w
      BY <1>3 DEF Stays, Racing
    <3>2. at[c].w \in Works /\ ~Known(at[c].w)' /\ at[c].w \in Runs /\ at[c].w = at[d].w
      BY <3>1, <1>0 DEF Racing, Known
    <3>3. QED
      BY <1>0, <3>1, <3>2 DEF Racing, Forward
  <2>2. QED
    BY <2>1 DEF Accounting
<1>4. ASSUME NEW c \in Consumers, NEW w \in Works,
             StartRun(c, w) \/ ClaimChat(c, w) \/ RecoverRun(c, w),
             at'[c].w = w, \A d \in Consumers \ {c} : at'[d] = at[d]
      PROVE  \A d, e \in Consumers : Racing(d, e)' => d = e
  <2>1. ASSUME NEW d \in Consumers \ {c}, Racing(c, d)' \/ Racing(d, c)' PROVE FALSE
    <3>1. at[d].pc # "idle" /\ at[d].w = w /\ w \in Runs /\ ~Known(w)'
      BY <1>4, <2>1 DEF Racing, Known
    <3>2. ~Known(w) /\ ~journal[w].active
      BY <1>0, <3>1 DEF Forward, Submissions, Recorded, Known
    <3>3. job[w].status # "none"
      BY <1>0, <3>1 DEF Accounted
    <3>4. QED
      BY <1>4, <3>1, <3>2, <3>3 DEF StartRun, ClaimChat, RecoverRun, RemoteAssumption
  <2>2. ASSUME NEW d \in Consumers \ {c}, NEW e \in Consumers \ {c}, Racing(d, e)' PROVE d = e
    <3>1. at[d].pc # "idle" /\ at[e].pc # "idle" /\ at[d].w = at[e].w /\ at[d].w \in Runs
      BY <1>4, <2>2 DEF Racing
    <3>2. PICK v \in Works : v = at[d].w /\ ~Known(v)'
      BY <1>0, <1>4, <2>2, <3>1 DEF Racing, Known
    <3>3. Racing(d, e)
      BY <1>0, <3>1, <3>2 DEF Racing, Forward
    <3>4. QED
      BY <3>3 DEF Accounting
  <2>3. QED
    BY <2>1, <2>2
<1>5. ReleasedIsSettled'
  <2> SUFFICES ASSUME NEW w \in Runs, Released(w)', entry'[w] # "settled" PROVE FALSE
    BY DEF ReleasedIsSettled, Released, Known
  <2>1. ~Released(w)
    BY <1>0 DEF Accounting, ReleasedIsSettled, Released, Works
  <2>2. PICK c \in Consumers : (FinishChat(c) \/ FinishRun(c)) /\ at[c].w = w
    BY <1>0, <2>1 DEF Forward, Works
  <2>3. FinishRun(c) /\ at[c].pc = "project"
    BY <1>0, <2>2 DEF FinishChat, FinishRun, Accounted
  <2>4. Known(w)
    <3>1. \/ UNCHANGED journal
          \/ JournalSet(w, [journal[w] EXCEPT !.active =
               @ /\ ~(journal[w].phase = "terminal" /\ journal[w].outcome # "canceled")])
      BY <2>2, <2>3, FinishRunEffect
    <3>2. journal[w] \in JournalRow
      BY DEF RemoteTypeOK, Works
    <3>3. journal'[w].phase = journal[w].phase
      BY <3>1, <3>2 DEF JournalSet, JournalRow
    <3>4. QED
      BY <3>3 DEF Released, Known
  <2>5. QED
    BY <1>0, <2>2, <2>3, <2>4 DEF Accounted, Works
<1>6. CASE UNCHANGED at
  <2>1. \A c \in Consumers : Stays(c)
    BY <1>6 DEF Stays
  <2>2. QED
    BY <1>1, <1>2, <1>3, <1>5, <1>6, <2>1 DEF Accounting
<1>7. ASSUME NEW c \in Consumers,
             \A d \in Consumers \ {c} : at'[d] = at[d],
             Accounted(c)',
             \/ Stays(c)
             \/ \E w \in Works : \/ StartRun(c, w) /\ at'[c].w = w
                                 \/ ClaimChat(c, w) /\ at'[c].w = w
                                 \/ RecoverRun(c, w) /\ at'[c].w = w
      PROVE  Accounting'
  <2>1. \A d \in Consumers : Accounted(d)'
    BY <1>2, <1>7
  <2>2. \A d \in Consumers \ {c} : Stays(d)
    BY <1>7 DEF Stays
  <2>3. \A d, e \in Consumers : Racing(d, e)' => d = e
    BY <1>3, <1>4, <1>7, <2>2
  <2>4. QED
    BY <1>1, <1>5, <2>1, <2>3 DEF Accounting
<1>8. QED
  BY <1>6, <1>7, WhoMoves, MoverAccounts

-----------------------------------------------------------------------------
\* What a step may do to a job: nothing its reply depends on, a change while nobody holds
\* the row, or the holder's own application and end.
Undisturbed(w) ==
  /\ job'[w].status = job[w].status /\ job'[w].reply = job[w].reply
  /\ job'[w].applied = job[w].applied
Unheld(w) ==
  /\ ~RowLocked(w) /\ job[w].status # "done"
  /\ job'[w].applied = job[w].applied
  /\ job'[w].status = "done" \/ (job[w].reply # None => job'[w].reply # None)
Applying(w) ==
  /\ \E c \in Consumers : ApplyActions(c) /\ at[c].w = w
  /\ job'[w].status = job[w].status /\ job'[w].reply = job[w].reply
  /\ job'[w].applied = job[w].applied + 1
Ending(w) ==
  /\ \E c \in Consumers : FinishChat(c) /\ at[c].w = w
  /\ job'[w].status = "done" /\ job'[w].applied = job[w].applied
Fate(w) == Undisturbed(w) \/ Unheld(w) \/ Applying(w) \/ Ending(w)

\* Every step does one of these to every job.
LEMMA JobFates ==
  ASSUME RemoteAssumption, RemoteTypeOK, Accounting, Replies, RemoteNext
  PROVE  \A w \in Works : Fate(w)
<1> USE RemoteAssumption
<1> DEFINE goal == \A w \in Works : Fate(w)
<1>0. \A w \in Works : job[w] \in JobRow
  BY DEF RemoteTypeOK
<1>1. ASSUME NEW w \in Works, NEW row, JobSet(w, row), Fate(w) PROVE goal
  BY <1>1 DEF JobSet, Fate, Undisturbed
<1>2. ASSUME UNCHANGED job PROVE goal
  BY <1>2 DEF Fate, Undisturbed
<1>3. \A w \in Runs : ~RowLocked(w)
  BY DEF RowLocked, Accounting, Accounted, RemoteAssumption
<1>4. \A w \in Works : job[w].status # "running" => ~RowLocked(w)
  BY DEF RowLocked, Replies, Replying, Holding
<1>5. ASSUME NEW w \in Works, EnqueueChat(w) PROVE goal
  <2>1. JobSet(w, [job[w] EXCEPT !.status = "queued"]) /\ job[w].status = "none"
    BY <1>5, EnqueueChatEffect DEF EnqueueChat
  <2>2. job'[w].applied = job[w].applied /\ job'[w].reply = job[w].reply
    BY <1>0, <2>1 DEF JobSet, JobRow
  <2>3. Fate(w)
    BY <1>4, <2>1, <2>2 DEF Fate, Unheld
  <2>4. QED
    BY <1>1, <2>1, <2>3
<1>6. ASSUME NEW w \in Works, Revoke(w) \/ LeaseLapses(w) PROVE goal
  <2>1. \/ JobSet(w, [job[w] EXCEPT !.revoked = TRUE])
        \/ JobSet(w, [job[w] EXCEPT !.lease = FALSE])
    BY <1>6, RevokeEffect, LeaseLapsesEffect
  <2>2. Undisturbed(w)
    BY <1>0, <2>1 DEF JobSet, JobRow, Undisturbed
  <2>3. QED
    BY <1>1, <2>1, <2>2 DEF Fate
<1>7. ASSUME NEW w \in Works, FailStaleRun(w) \/ CancelRun(w) PROVE goal
  <2>1. /\ JobSet(w, [NoJob EXCEPT !.status = "done", !.applied = job[w].applied])
        /\ w \in Runs /\ job[w].status = "running"
    BY <1>7, FailStaleRunEffect, CancelRunEffect DEF FailStaleRun, CancelRun
  <2>2. job'[w].status = "done" /\ job'[w].applied = job[w].applied
    BY <2>1 DEF JobSet, NoJob
  <2>3. Fate(w)
    BY <1>3, <2>1, <2>2 DEF Fate, Unheld
  <2>4. QED
    BY <1>1, <2>1, <2>3
<1>8. ASSUME NEW c \in Consumers, NEW w \in Works, StartRun(c, w) \/ ClaimChat(c, w) PROVE goal
  <2>1. /\ JobSet(w, [job[w] EXCEPT !.status = "running", !.holder = c, !.lease = TRUE])
        /\ ~RowLocked(w) /\ job[w].status # "done"
    BY <1>3, <1>8, StartRunEffect, ClaimChatEffect DEF StartRun, ClaimChat, Claimable
  <2>2. job'[w].applied = job[w].applied /\ job'[w].reply = job[w].reply
    BY <1>0, <2>1 DEF JobSet, JobRow
  <2>3. Fate(w)
    BY <2>1, <2>2 DEF Fate, Unheld
  <2>4. QED
    BY <1>1, <2>1, <2>3
<1>9. ASSUME NEW c \in Consumers, NEW w \in Works, RecoverRun(c, w) PROVE goal
  <2>1. JobSet(w, [job[w] EXCEPT !.holder = c, !.lease = TRUE])
    BY <1>9, RecoverRunEffect
  <2>2. Undisturbed(w)
    BY <1>0, <2>1 DEF JobSet, JobRow, Undisturbed
  <2>3. QED
    BY <1>1, <2>1, <2>2 DEF Fate
<1>10. ASSUME NEW c \in Consumers, NEW w \in Works, w = at[c].w, SaveReply(c) PROVE goal
  <2>1. ASSUME NEW r \in {"agent", "system"}, JobSet(w, [job[w] EXCEPT !.reply = r]),
               job[w].status = "running", ~RowLocked(w)
        PROVE  goal
    <3>1. job'[w].applied = job[w].applied /\ job'[w].reply # None
      BY <1>0, <2>1 DEF JobSet, JobRow
    <3>2. Fate(w)
      BY <2>1, <3>1 DEF Fate, Unheld
    <3>3. QED
      BY <1>1, <2>1, <3>2
  <2>2. QED
    BY <1>2, <1>10, <2>1, SaveReplyEffect
<1>11. ASSUME NEW c \in Consumers, NEW w \in Works, w = at[c].w, ApplyActions(c) PROVE goal
  <2>1. JobSet(w, [job[w] EXCEPT !.applied = @ + 1])
    BY <1>11, ApplyActionsEffect
  <2>2. Fate(w)
    BY <1>0, <1>11, <2>1 DEF JobSet, JobRow, Fate, Applying
  <2>3. QED
    BY <1>1, <2>1, <2>2
<1>12. ASSUME NEW c \in Consumers, NEW w \in Works, w = at[c].w, FinishChat(c) \/ FinishRun(c)
       PROVE  goal
  <2>1. ASSUME JobSet(w, [NoJob EXCEPT !.status = "done", !.applied = job[w].applied]),
               FinishChat(c) \/ (w \in Runs /\ job[w].status = "running")
        PROVE  goal
    <3>1. job'[w].status = "done" /\ job'[w].applied = job[w].applied
      BY <2>1 DEF JobSet, NoJob
    <3>2. Fate(w)
      BY <1>3, <1>12, <2>1, <3>1 DEF Fate, Unheld, Ending
    <3>3. QED
      BY <1>1, <2>1, <3>2
  <2>2. CASE FinishChat(c)
    BY <1>12, <2>1, <2>2, FinishChatEffect
  <2>3. CASE FinishRun(c)
    <3>1. CASE job[w].status = "running"
      <4>1. w \in Runs
        BY <1>12, <2>3 DEF FinishRun
      <4>2. JobSet(w, [NoJob EXCEPT !.status = "done", !.applied = job[w].applied]) \/ UNCHANGED job
        BY <1>12, <2>3, FinishRunEffect
      <4>3. QED
        BY <1>2, <2>1, <3>1, <4>1, <4>2
    <3>2. CASE job[w].status # "running"
      BY <1>2, <1>12, <2>3, <3>2 DEF FinishRun
    <3>3. QED
      BY <3>1, <3>2
  <2>4. QED
    BY <1>12, <2>2, <2>3
<1> HIDE DEF goal
<1>13. ASSUME NEW w \in Works,
             \/ Gateway(w) \/ Deadline(w) \/ TokenLapses(w) \/ \E s \in Sweepers : SweepClaim(s, w)
       PROVE  goal
  BY <1>2, <1>13 DEF Gateway, Accept, Lose, EndTask, OnlyRemote, Deadline, TokenLapses, SweepClaim
<1>14. ASSUME NEW c \in Consumers,
             \/ LoseLease(c) \/ ReadPrior(c) \/ Admit(c) \/ Begin(c) \/ Submit(c) \/ Discover(c)
             \/ CacheOutcome(c) \/ Expire(c) \/ EndPoll(c) \/ Settle(c) \/ Crash(c)
       PROVE  goal
  BY <1>2, <1>14 DEF LoseLease, ReadPrior, Admit, Begin, Submit, Discover, CacheOutcome, Expire,
                     EndPoll, Settle, Crash
<1>15. ASSUME NEW s \in Sweepers, SweepFinish(s) \/ CrashSweep(s) PROVE goal
  BY <1>2, <1>15 DEF SweepFinish, CrashSweep
<1>16. ASSUME NEW c \in Consumers,
              SaveReply(c) \/ ApplyActions(c) \/ FinishChat(c) \/ FinishRun(c)
       PROVE  goal
  <2>1. at[c].w \in Works
    BY <1>16, AtWork DEF SaveReply, ApplyActions, FinishChat, FinishRun
  <2>2. QED
    BY <1>10, <1>11, <1>12, <1>16, <2>1
<1>17. goal
  BY <1>5, <1>6, <1>7, <1>8, <1>9, <1>13, <1>14, <1>15, <1>16
     DEF RemoteNext, Step, Operator, Clock, Take
<1>18. QED
  BY <1>17 DEF goal

\* A consumer takes the row of a job, and one consumer moves.
Takes(c) ==
  /\ ~RowLocked(at'[c].w) /\ at'[c].w \in Works
  /\ job'[at'[c].w].status = "running" /\ job'[at'[c].w].reply # None
  /\ at'[c].pc = "apply" => job[at'[c].w].status = "running" /\ job[at'[c].w].reply = None
Moved(c) ==
  /\ \A d \in Consumers \ {c} : at'[d] = at[d]
  /\ Holding(c)' => Takes(c) \/ (ApplyActions(c) /\ at'[c].w = at[c].w /\ at'[c].pc = "finish")
\* The row of a job is taken only while nobody holds it, by a consumer that finds a saved
\* reply or saves one.
LEMMA HoldersMove ==
  ASSUME RemoteAssumption, RemoteTypeOK, RemoteNext
  PROVE  UNCHANGED at \/ \E c \in Consumers : Moved(c)
<1> USE RemoteAssumption
<1>1. ASSUME NEW c \in Consumers, NEW rec, ConsumerSet(c, rec), rec.pc \notin {"apply", "finish"}
      PROVE  Moved(c)
  BY <1>1 DEF ConsumerSet, Moved, Holding
<1>2. ASSUME NEW c \in Consumers, ConsumerSet(c, Idle) PROVE Moved(c)
  BY <1>1, <1>2 DEF Idle
<1>3. ASSUME NEW c \in Consumers, NEW w \in Works, StartRun(c, w) \/ RecoverRun(c, w) PROVE Moved(c)
  <2>1. ConsumerSet(c, [Idle EXCEPT !.pc = "admit", !.w = w])
    BY <1>3, StartRunEffect, RecoverRunEffect
  <2>2. [Idle EXCEPT !.pc = "admit", !.w = w].pc = "admit"
    BY DEF Idle
  <2>3. QED
    BY <1>1, <2>1, <2>2
<1>4. ASSUME NEW c \in Consumers, NEW w \in Works, ClaimChat(c, w) PROVE Moved(c)
  <2>1. /\ ConsumerSet(c, [Idle EXCEPT !.w = w,
                  !.pc = IF job[w].reply # None THEN AfterSavedReply
                         ELSE IF job[w].revoked THEN "project" ELSE "prior",
                  !.result = IF job[w].revoked THEN "failure" ELSE None])
        /\ JobSet(w, [job[w] EXCEPT !.status = "running", !.holder = c, !.lease = TRUE])
        /\ ~RowLocked(w)
    BY <1>4, ClaimChatEffect DEF ClaimChat
  <2>2. /\ at'[c].w = w
        /\ at'[c].pc = IF job[w].reply # None THEN "finish"
                       ELSE IF job[w].revoked THEN "project" ELSE "prior"
    BY <2>1 DEF ConsumerSet, Idle, AfterSavedReply
  <2>3. job'[w].status = "running" /\ job'[w].reply = job[w].reply
    BY <2>1 DEF JobSet, RemoteTypeOK, JobRow
  <2>4. QED
    BY <2>1, <2>2, <2>3 DEF Moved, Holding, Takes, ConsumerSet
<1>5. ASSUME NEW c \in Consumers, at[c] \in ConsumerState,
             \/ ReadPrior(c) \/ Admit(c) \/ Begin(c) \/ Expire(c) \/ EndPoll(c) \/ Settle(c) \/ Submit(c)
      PROVE  Moved(c)
  <2>1. \A x : [at[c] EXCEPT !.pc = "settle", !.result = x].pc = "settle"
    BY <1>5 DEF ConsumerState
  <2>2. CASE ReadPrior(c)
    <3>1. [at[c] EXCEPT !.pc = "admit", !.prior = entry[at[c].w] # "none"].pc = "admit"
      BY <1>5 DEF ConsumerState
    <3>2. QED
      BY <1>1, <2>2, <3>1, ReadPriorEffect
  <2>3. CASE Admit(c)
    <3>1. /\ [at[c] EXCEPT !.pc = "begin", !.prior = FALSE].pc = "begin"
          /\ [at[c] EXCEPT !.pc = "project", !.result = "failure"].pc = "project"
      BY <1>5 DEF ConsumerState
    <3>2. QED
      BY <1>1, <2>3, <3>1, AdmitEffect
  <2>4. CASE Begin(c)
    <3>1. /\ [at[c] EXCEPT !.pc = "poll", !.owns = TRUE].pc = "poll"
          /\ [at[c] EXCEPT !.pc = "poll", !.owns = FALSE].pc = "poll"
          /\ [at[c] EXCEPT !.pc = "settle", !.result = "failure"].pc = "settle"
      BY <1>5 DEF ConsumerState
    <3>2. QED
      BY <1>1, <2>4, <3>1, BeginEffect
  <2>5. CASE Expire(c) \/ EndPoll(c)
    <3>1. PICK x : ConsumerSet(c, [at[c] EXCEPT !.pc = "settle", !.result = x])
      BY <2>5, ExpireEffect, EndPollEffect
    <3>2. QED
      BY <1>1, <2>1, <3>1
  <2>6. CASE Settle(c)
    <3>1. at'[c].pc = "project" /\ \A d \in Consumers \ {c} : at'[d] = at[d]
      BY <1>5, <2>6, SettleEffect DEF ConsumerSet, ConsumerState
    <3>2. QED
      BY <3>1 DEF Moved, Holding
  <2>7. CASE Submit(c)
    <3>1. at'[c].pc = "poll" /\ \A d \in Consumers \ {c} : at'[d] = at[d]
      BY <1>5, <2>7, SubmitEffect DEF ConsumerSet, ConsumerState, Submit
    <3>2. QED
      BY <3>1 DEF Moved, Holding
  <2>8. QED
    BY <1>5, <2>2, <2>3, <2>4, <2>5, <2>6, <2>7
<1>6. ASSUME NEW c \in Consumers, at[c] \in ConsumerState, SaveReply(c) PROVE Moved(c)
  <2>0. PICK w \in Works : w = at[c].w
    BY <1>6, AtWork DEF SaveReply
  <2>1. CASE ConsumerSet(c, Idle)
    BY <1>2, <2>1
  <2>2. ASSUME NEW r \in {"agent", "system"}, NEW pc \in {"apply", "finish"},
               job[w].status = "running", job[w].reply = None, ~RowLocked(w),
               JobSet(w, [job[w] EXCEPT !.reply = r]), ConsumerSet(c, [at[c] EXCEPT !.pc = pc])
        PROVE  Moved(c)
    <3>1. job'[w].status = "running" /\ job'[w].reply # None
      BY <2>2 DEF JobSet, RemoteTypeOK, JobRow
    <3>2. at'[c].w = w /\ \A d \in Consumers \ {c} : at'[d] = at[d]
      BY <1>6, <2>0, <2>2 DEF ConsumerSet, ConsumerState
    <3>3. QED
      BY <2>2, <3>1, <3>2 DEF Moved, Takes
  <2>3. QED
    BY <1>6, <2>0, <2>1, <2>2, SaveReplyEffect
<1>7. ASSUME NEW c \in Consumers, at[c] \in ConsumerState, ApplyActions(c) PROVE Moved(c)
  <2>1. ConsumerSet(c, [at[c] EXCEPT !.pc = "finish"])
    BY <1>7, ApplyActionsEffect
  <2>2. at'[c].pc = "finish" /\ at'[c].w = at[c].w /\ \A d \in Consumers \ {c} : at'[d] = at[d]
    BY <1>7, <2>1 DEF ConsumerSet, ConsumerState
  <2>3. QED
    BY <1>7, <2>2 DEF Moved
<1>8. ASSUME NEW c \in Consumers, LoseLease(c) \/ FinishChat(c) \/ FinishRun(c) \/ Crash(c)
      PROVE  Moved(c)
  <2>1. ConsumerSet(c, Idle)
    BY <1>8, LoseLeaseEffect, FinishChatEffect, FinishRunEffect, CrashEffect
  <2>2. QED
    BY <1>2, <2>1
<1>9. \A c \in Consumers : at[c] \in ConsumerState
  BY AtWork
<1>10. QED
  BY <1>3, <1>4, <1>5, <1>6, <1>7, <1>8, <1>9, WhoMoves

\* Every step keeps the replies: who takes a row finds nobody on it, and what is applied
\* was saved by the one consumer that holds the row.
LEMMA RepliesStep ==
  ASSUME RemoteAssumption, RemoteTypeOK, Accounting, Replies, [RemoteNext]_remoteVars
  PROVE  Replies'
<1> SUFFICES ASSUME RemoteNext PROVE Replies'
  BY DEF remoteVars, Replies, Replying, Holding, AppliedOnce
<1> USE RemoteAssumption
<1>0. /\ \A w \in Works : Fate(w) /\ AppliedOnce(w) /\ job[w] \in JobRow
      /\ \A c \in Consumers : Replying(c) /\ (at[c].pc # "idle" => at[c].w \in Works)
  BY JobFates, AtWork DEF Replies, RemoteTypeOK
<1>1. ASSUME NEW w \in Works PROVE AppliedOnce(w)'
  <2>0. job[w].applied \in Nat
    BY <1>0 DEF JobRow
  <2>1. CASE Undisturbed(w)
    BY <1>0, <2>1 DEF Undisturbed, AppliedOnce
  <2>2. CASE Unheld(w)
    BY <1>0, <2>2 DEF Unheld, AppliedOnce
  <2>3. CASE Applying(w)
    <3>1. job[w].applied = 0 /\ job[w].reply # None
      BY <1>0, <2>3 DEF Applying, ApplyActions, Replying, Holding
    <3>2. QED
      BY <2>3, <3>1 DEF Applying, AppliedOnce
  <2>4. CASE Ending(w)
    BY <1>0, <2>4 DEF Ending, AppliedOnce
  <2>5. QED
    BY <1>0, <2>1, <2>2, <2>3, <2>4 DEF Fate
<1>2. ASSUME NEW c \in Consumers, at'[c] = at[c] PROVE Replying(c)'
  <2>1. CASE ~Holding(c)
    BY <1>2, <2>1 DEF Replying, Holding
  <2>2. CASE Holding(c)
    <3>0. PICK w \in Works : w = at[c].w
      BY <1>0, <2>2 DEF Holding
    <3>1. ~Unheld(w)
      BY <2>2, <3>0 DEF Unheld, RowLocked, Holding
    <3>2. ~Applying(w) /\ ~Ending(w)
      <4>1. ASSUME NEW d \in Consumers, ApplyActions(d) \/ FinishChat(d), at[d].w = w PROVE FALSE
        <5>1. Holding(d)
          BY <4>1 DEF ApplyActions, FinishChat, Holding
        <5>2. d = c
          BY <2>2, <3>0, <4>1, <5>1 DEF Replies
        <5>3. at[c] \in ConsumerState
          BY AtWork
        <5>4. ASSUME ConsumerSet(c, [at[c] EXCEPT !.pc = "finish"]), at[c].pc = "apply" PROVE FALSE
          BY <1>2, <5>3, <5>4 DEF ConsumerSet, ConsumerState
        <5>5. ASSUME ConsumerSet(c, Idle), at[c].pc = "finish" PROVE FALSE
          BY <1>2, <5>5 DEF ConsumerSet, Idle
        <5>6. QED
          BY <4>1, <5>2, <5>4, <5>5, ApplyActionsEffect, FinishChatEffect DEF ApplyActions, FinishChat
      <4>2. QED
        BY <4>1 DEF Applying, Ending
    <3>3. Undisturbed(w)
      BY <1>0, <3>1, <3>2 DEF Fate
    <3>4. QED
      BY <1>0, <1>2, <3>0, <3>3 DEF Replying, Holding, Undisturbed
  <2>3. QED
    BY <2>1, <2>2
<1>3. ASSUME NEW c \in Consumers, Moved(c) PROVE Replies'
  <2>1. Replying(c)'
    <3>1. CASE ~Holding(c)'
      BY <3>1 DEF Replying, Holding
    <3>2. CASE Takes(c)
      <4>0. PICK w \in Works : w = at'[c].w
        BY <3>2 DEF Takes
      <4>1. at'[c].pc = "apply" => job'[w].applied = 0
        <5>1. SUFFICES ASSUME at'[c].pc = "apply" PROVE job'[w].applied = 0
          OBVIOUS
        <5>2. job[w].status = "running" /\ job[w].reply = None
          BY <3>2, <4>0, <5>1 DEF Takes
        <5>3. job[w].applied = 0
          BY <1>0, <5>2 DEF AppliedOnce, JobRow
        <5>4. ~Applying(w)
          BY <1>0, <5>2 DEF Applying, ApplyActions, Replying, Holding
        <5>5. QED
          BY <1>0, <5>3, <5>4 DEF Fate, Undisturbed, Unheld, Ending
      <4>2. QED
        BY <3>2, <4>0, <4>1 DEF Replying, Holding, Takes
    <3>3. CASE ApplyActions(c) /\ at'[c].w = at[c].w /\ at'[c].pc = "finish"
      <4>0. PICK w \in Works : w = at[c].w
        BY <1>0, <3>3 DEF ApplyActions
      <4>1. job[w].status = "running" /\ job[w].reply # None
        BY <1>0, <3>3, <4>0 DEF ApplyActions, Replying, Holding
      <4>2. job'[w].status = job[w].status /\ job'[w].reply = job[w].reply
        <5>1. JobSet(w, [job[w] EXCEPT !.applied = @ + 1]) /\ job[w] \in JobRow
          BY <1>0, <3>3, <4>0, ApplyActionsEffect
        <5>2. QED
          BY <5>1 DEF JobSet, JobRow
      <4>3. QED
        BY <3>3, <4>0, <4>1, <4>2 DEF Replying, Holding
    <3>4. QED
      BY <1>3, <3>1, <3>2, <3>3 DEF Moved
  <2>2. \A d \in Consumers : Replying(d)'
    BY <1>2, <1>3, <2>1 DEF Moved
  <2>3. ASSUME NEW d \in Consumers \ {c}, Holding(d)', Holding(c)', at'[c].w = at'[d].w PROVE FALSE
    <3>1. Holding(d) /\ at[d].w = at'[d].w
      BY <1>3, <2>3 DEF Moved, Holding
    <3>2. RowLocked(at'[c].w)
      BY <2>3, <3>1 DEF RowLocked, Holding
    <3>3. ApplyActions(c) /\ at'[c].w = at[c].w
      BY <1>3, <2>3, <3>2 DEF Moved, Takes
    <3>4. Holding(c)
      BY <3>3 DEF ApplyActions, Holding
    <3>5. QED
      BY <2>3, <3>1, <3>3, <3>4 DEF Replies
  <2>4. \A d, e \in Consumers : (Holding(d) /\ Holding(e) /\ at[d].w = at[e].w)' => d = e
    <3> SUFFICES ASSUME NEW d \in Consumers, NEW e \in Consumers,
                        (Holding(d) /\ Holding(e) /\ at[d].w = at[e].w)', d # e
                 PROVE  FALSE
      OBVIOUS
    <3>1. CASE d = c \/ e = c
      BY <2>3, <3>1
    <3>2. CASE d # c /\ e # c
      <4>1. at'[d] = at[d] /\ at'[e] = at[e]
        BY <1>3, <3>2 DEF Moved
      <4>2. Holding(d) /\ Holding(e) /\ at[d].w = at[e].w
        BY <4>1 DEF Holding
      <4>3. QED
        BY <4>2 DEF Replies
    <3>3. QED
      BY <3>1, <3>2
  <2>5. QED
    BY <1>1, <2>2, <2>4 DEF Replies
<1>4. CASE UNCHANGED at
  <2>1. \A c \in Consumers : Replying(c)'
    BY <1>2, <1>4
  <2>2. \A c, d \in Consumers : (Holding(c) /\ Holding(d) /\ at[c].w = at[d].w)' => c = d
    BY <1>4 DEF Holding, Replies
  <2>3. QED
    BY <1>1, <2>1, <2>2 DEF Replies
<1>5. QED
  BY <1>3, <1>4, HoldersMove

-----------------------------------------------------------------------------
(* Theorems. *)

\* At the start nothing is claimed, submitted or accounted for.
LEMMA RemoteInitInv ==
  ASSUME RemoteAssumption, RemoteInit
  PROVE  RemoteInv
<1>1. RemoteTypeOK
  <2>1. Idle \in ConsumerState /\ NoJob \in JobRow
    BY RestingRows
  <2>2. [phase |-> "absent", active |-> FALSE, baseline |-> FALSE, task |-> FALSE, late |-> FALSE,
         outcome |-> None, token |-> None] \in JournalRow
    BY DEF JournalRow
  <2>3. [sends |-> 0, wire |-> None, task |-> None] \in RemoteRow
    BY DEF RemoteRow
  <2>4. budget \in BudgetOf
    BY DEF RemoteInit, RemoteAssumption
  <2>5. \A c \in Consumers : at[c].pc = "idle"
    BY DEF RemoteInit, Idle
  <2>6. QED
    BY <2>1, <2>2, <2>3, <2>4, <2>5 DEF RemoteInit, RemoteTypeOK
<1>2. Submissions
  BY DEF RemoteInit, Submissions, Recorded, Proven, MayBeRunning, RemoteAssumption
<1>3. OnePending
  BY DEF RemoteInit, OnePending, Pending, RemoteAssumption
<1>4. Accounting
  <2>1. \A w \in Works : ~Known(w)
    BY DEF RemoteInit, Known
  <2>2. \A c \in Consumers : Accounted(c) /\ at[c].pc = "idle"
    BY DEF RemoteInit, Idle, Accounted
  <2>3. QED
    BY <2>1, <2>2 DEF Accounting, Racing, ReleasedIsSettled, Works
<1>5. Replies
  <2>1. \A c \in Consumers : ~Holding(c) /\ Replying(c)
    BY DEF RemoteInit, Idle, Holding, Replying
  <2>2. \A w \in Works : AppliedOnce(w)
    BY DEF RemoteInit, NoJob, AppliedOnce
  <2>3. QED
    BY <2>1, <2>2 DEF Replies
<1>6. QED
  BY <1>1, <1>2, <1>3, <1>4, <1>5 DEF RemoteInv

\* Every action keeps the types: its effect, row by row, does.
LEMMA RemoteTypeStep ==
  ASSUME RemoteAssumption, RemoteTypeOK, [RemoteNext]_remoteVars
  PROVE  RemoteTypeOK'
<1>1. CASE UNCHANGED remoteVars
  BY <1>1 DEF remoteVars, RemoteTypeOK
<1>2. ASSUME NEW w \in Works, Gateway(w) \/ Operator(w) \/ Clock(w) \/ FailStaleRun(w)
      PROVE  RemoteTypeOK'
  BY <1>2, RemoteAssumption, GatewayEffect, EnqueueChatEffect, CancelRunEffect, RevokeEffect, DeadlineEffect,
     LeaseLapsesEffect, TokenLapsesEffect, FailStaleRunEffect DEF Operator, Clock
<1>3. ASSUME NEW w \in Works, NEW c \in Consumers, StartRun(c, w) \/ Take(c, w)
      PROVE  RemoteTypeOK'
  BY <1>3, RemoteAssumption, StartRunEffect, ClaimChatEffect, RecoverRunEffect DEF Take
<1>4. ASSUME NEW c \in Consumers, Step(c) \/ Crash(c) PROVE RemoteTypeOK'
  BY <1>4, RemoteAssumption, LoseLeaseEffect, ReadPriorEffect, AdmitEffect, BeginEffect, SubmitEffect,
     DiscoverEffect, CacheOutcomeEffect, ExpireEffect, EndPollEffect, SettleEffect, SaveReplyEffect,
     ApplyActionsEffect, FinishChatEffect, FinishRunEffect, CrashEffect DEF Step
<1>5. ASSUME NEW s \in Sweepers,
             SweepFinish(s) \/ CrashSweep(s) \/ \E w \in Works : SweepClaim(s, w)
      PROVE  RemoteTypeOK'
  BY <1>5, RemoteAssumption, SweepClaimEffect, SweepFinishEffect, CrashEffect
<1>6. QED
  BY <1>1, <1>2, <1>3, <1>4, <1>5 DEF RemoteNext

\* The inductive invariant of the remote work holds in every reachable state.
THEOREM RemoteInvariant == RemoteSpec => []RemoteInv
<1>1. RemoteInit => RemoteInv
  BY RemoteAssumption, RemoteInitInv
<1>2. RemoteInv /\ [RemoteNext]_remoteVars => RemoteInv'
  BY RemoteAssumption, RemoteTypeStep, SubmissionsStep, OnePendingStep, AccountingStep, RepliesStep
     DEF RemoteInv
<1>3. QED
  BY <1>1, <1>2, PTL DEF RemoteSpec

\* A message is sent to the gateway once, whatever its consumers go through
\* (ownsSubmission of pollA2aMessage, store.begin).
THEOREM MessagesLeaveOnce == RemoteSpec => []OneSubmission
<1>1. RemoteInv => OneSubmission
  BY DEF RemoteInv, Submissions, Recorded, OneSubmission
<1>2. QED
  BY <1>1, RemoteInvariant, PTL

\* No two tasks of the agent may be running on the gateway: what may be running is
\* pending, and only one journal is (remoteWorkPending, acknowledgeA2aExecution).
THEOREM RemoteWorkIsExclusive == RemoteSpec => []OneRemoteTask
<1>1. RemoteInv => OneRemoteTask
  <2> SUFFICES ASSUME RemoteInv PROVE OneRemoteTask
    OBVIOUS
  <2> DEFINE S == {w \in Works : MayBeRunning(w)}
  <2>1. \A v, w \in S : v = w
    BY DEF RemoteInv, Submissions, Recorded, OnePending
  <2>2. CASE S = {}
    <3>1. Cardinality(S) = 0
      BY <2>2, FS_EmptySet
    <3>2. QED
      BY <3>1 DEF OneRemoteTask
  <2>3. CASE S # {}
    <3>1. PICK w : S = {w}
      BY <2>1, <2>3
    <3>2. Cardinality(S) = 1
      BY <3>1, FS_Singleton
    <3>3. QED
      BY <3>2 DEF OneRemoteTask
  <2>4. QED
    BY <2>2, <2>3
<1>2. QED
  BY <1>1, RemoteInvariant, PTL

\* The board updates of a reply are applied at most once, across crashes and take-overs
\* (projectChatJob, applyChatWorkItems).
THEOREM RepliesApplyOnce == RemoteSpec => []ActionsOnce
<1>1. RemoteInv => ActionsOnce
  BY DEF RemoteInv, Replies, AppliedOnce, ActionsOnce, Works
<1>2. QED
  BY <1>1, RemoteInvariant, PTL

\* The journal of a run is released only with its usage settled (settleUsage,
\* completeTaskRun, finishA2aRemoteReconciliation).
THEOREM ReleaseFollowsSettlement == RemoteSpec => []ReleasedIsSettled
<1>1. RemoteInv => ReleasedIsSettled
  BY DEF RemoteInv, Accounting
<1>2. QED
  BY <1>1, RemoteInvariant, PTL
=============================================================================
