------------------------------ MODULE MCRemote ------------------------------
(***************************************************************************)
(* Instances of RemoteWork for TLC.                                        *)
(***************************************************************************)
EXTENDS RemoteWork, TLC

NoFailure == [lapses |-> 0, crashes |-> 0, revokes |-> 0]
AnyFailure == {[NoFailure EXCEPT !.lapses = 1], [NoFailure EXCEPT !.crashes = 1],
               [NoFailure EXCEPT !.revokes = 1]}
Reliable == {NoFailure}
=============================================================================
