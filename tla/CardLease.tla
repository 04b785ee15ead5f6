----------------------------- MODULE CardLease ------------------------------
(***************************************************************************)
(* What the execution lock of a card promises to everything built on it:   *)
(* every attempt leases one card at most once, a lease can be taken away   *)
(* at any time, and an attempt that lost its lease never gets it back, so  *)
(* "the lock is still mine" is a fence for anything the attempt writes.    *)
(***************************************************************************)
EXTENDS Naturals

CONSTANTS Cards, Attempts, None

VARIABLES
  holder,   \* the attempt leasing each card
  spent     \* attempts that were granted a lease

lease == <<holder, spent>>

LeaseInit == holder = [c \in Cards |-> None] /\ spent = {}

\* A fresh attempt takes the card, also from an attempt whose lease expired.
Grant(c, h) ==
  /\ h \notin spent
  /\ holder' = [holder EXCEPT ![c] = h]
  /\ spent' = spent \cup {h}

\* The attempt gives the card back or loses it.
Revoke(c) ==
  /\ holder[c] # None
  /\ holder' = [holder EXCEPT ![c] = None]
  /\ UNCHANGED spent

LeaseNext == \E c \in Cards : Revoke(c) \/ \E h \in Attempts : Grant(c, h)

LeaseSpec == LeaseInit /\ [][LeaseNext]_lease

\* An attempt holds at most one card.
OneCardEach == \A c, d \in Cards :
  holder[c] # None /\ holder[c] = holder[d] => c = d

\* A lease that was lost is never granted again.
NeverRegained == [][\A c \in Cards :
  holder'[c] \notin {holder[c], None} => holder'[c] \notin spent]_lease
=============================================================================
