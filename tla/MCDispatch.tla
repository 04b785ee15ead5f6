----------------------------- MODULE MCDispatch -----------------------------
(***************************************************************************)
(* Instances of Dispatch for TLC.  Worker slots, cards and agents are      *)
(* interchangeable; rows are not, because their identities are drawn with  *)
(* CHOOSE.                                                                 *)
(***************************************************************************)
EXTENDS DispatchProperties, TLC

\* Reports that settle their heartbeat and touch the card only with authority.
FencedOutcomes == {"completed", "progress", "failed", "permission"}

\* Every report of an admitted dispatch.
AdmittedOutcomes == FencedOutcomes \cup {"delegated", "handoff", "invalid"}

Interchangeable == Permutations(Workers) \cup Permutations(Cards) \cup Permutations(Agents)
=============================================================================
