------------------------------ MODULE MCBoard -------------------------------
(***************************************************************************)
(* Instances of Delegations for TLC.                                       *)
(***************************************************************************)
EXTENDS Delegations, TLC

Quiet == [staff |-> Workers, fail |-> 0, revise |-> 0, escalate |-> 0,
          progress |-> 0, ask |-> 0, crash |-> 0, round |-> 0, expire |-> FALSE]

\* Two workers: a revision; failures up to the limit.
Paired == {[Quiet EXCEPT !.revise = 1], [Quiet EXCEPT !.fail = 2]}
\* One worker: a question that is answered or not; a progress report and an escalation;
\* a round; requests that time out and a server that dies.
Alone == {[Quiet EXCEPT !.ask = 1, !.fail = 1],
          [Quiet EXCEPT !.progress = 1, !.escalate = 1],
          [Quiet EXCEPT !.round = 1],
          [Quiet EXCEPT !.expire = TRUE, !.crash = 1]}

Scenarios == Paired \cup {[s EXCEPT !.staff = {"w1"}] : s \in Alone}
=============================================================================
