------------------------------ MODULE MCReview ------------------------------
(***************************************************************************)
(* Instances of ReviewRounds for TLC.                                      *)
(***************************************************************************)
EXTENDS ReviewRounds, TLC

Plain == [mandatory |-> FALSE, client |-> FALSE, collaboration |-> FALSE,
          faults |-> {}, levels |-> 0, ticks |-> 0, rounds |-> 1, commands |-> 0, restarts |-> 0]
Mandatory == [Plain EXCEPT !.mandatory = TRUE]

\* A panel and its verify round: failed calls, timeouts, findings flagged for
\* reassignment.
TwoRounds == {[Mandatory EXCEPT !.rounds = 2, !.faults = f] :
                f \in {{"answer", "timeout"}, {"reassign"}}}
\* The cron tick and a restart between any two statements of one round.
Ticked == [Mandatory EXCEPT !.ticks = 3, !.restarts = 1]
\* An operator forces rounds and cancels; a client decides gates.
Commanded == {[Plain EXCEPT !.commands = 2],
              [Mandatory EXCEPT !.client = TRUE, !.commands = 2]}
\* Required reviewers of a collaboration fail or time out.
Collaboration == [Mandatory EXCEPT !.collaboration = TRUE,
                                   !.faults = {"answer", "timeout"}, !.restarts = 1]

SafetyScenarios == TwoRounds \cup {Ticked, Collaboration} \cup Commanded
AnyReviewer == Permutations(Reviewers)

\* One author and one boss above, until the last revision of both is used.  Only
\* the timeout of a round brings back what a restart took from its reviewers.
Climbing == [Mandatory EXCEPT !.levels = 1, !.rounds = 5]
\* A cron tick between two statements has a card with a panel reviewed singly as well;
\* such a rejection counts as no revision and costs a round.
Interrupted == [Mandatory EXCEPT !.ticks = 1, !.rounds = 4]
\* No panel: a single review whose calls fail.
SinglyReviewed == [Plain EXCEPT !.faults = {"answer"}]

FixScenarios ==
  {[Climbing EXCEPT !.faults = {"answer", "timeout"}],
   [Climbing EXCEPT !.faults = {"timeout"}, !.restarts = 1],
   Interrupted, SinglyReviewed}

\* No command, no restart: what the answers alone can do.
BlindScenarios == {Mandatory}
=============================================================================
