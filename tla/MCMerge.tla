------------------------------ MODULE MCMerge ------------------------------
(***************************************************************************)
(* Instances of MergeGate for TLC.                                         *)
(***************************************************************************)
EXTENDS MergeGate, TLC

Calm == [changes |-> 1, commands |-> 0, crashes |-> 0]
AnyTrouble == {[Calm EXCEPT !.changes = 2], [Calm EXCEPT !.commands = 1],
               [Calm EXCEPT !.crashes = 1]}
Symmetric == Permutations(Servers) \cup Permutations(Heads)
AllCommands == {"chat", "rework", "cancel", "event", "wait", "report", "gate"}
=============================================================================
