-------------------------- MODULE CardLeaseProofs --------------------------
(***************************************************************************)
(* What every implementation of CardLease inherits.                        *)
(***************************************************************************)
EXTENDS CardLease, TLAPS

\* A holder was granted its lease, so it is spent and cannot be granted another.
HoldersSpent ==
  /\ holder \in [Cards -> Attempts \cup {None}]
  /\ spent \subseteq Attempts
  /\ \A c \in Cards : holder[c] # None => holder[c] \in spent
LeaseRows == HoldersSpent /\ OneCardEach

\* No lease is held initially.
LEMMA LeaseInitRows ==
  ASSUME LeaseInit
  PROVE  LeaseRows
BY DEF LeaseInit, LeaseRows, HoldersSpent, OneCardEach

\* Granting to a fresh attempt and revoking keep every holder spent and alone.
LEMMA LeaseStepRows ==
  ASSUME LeaseRows, [LeaseNext]_lease, None \notin Attempts
  PROVE  LeaseRows'
<1>1. CASE UNCHANGED lease
  BY <1>1 DEF LeaseRows, HoldersSpent, OneCardEach, lease
<1>2. ASSUME NEW c \in Cards, Revoke(c) PROVE LeaseRows'
  <2>1. holder' = [holder EXCEPT ![c] = None] /\ spent' = spent
    BY <1>2 DEF Revoke
  <2>2. HoldersSpent'
    BY <2>1 DEF LeaseRows, HoldersSpent
  <2>3. OneCardEach'
    BY <2>1 DEF LeaseRows, HoldersSpent, OneCardEach
  <2>4. QED
    BY <2>2, <2>3 DEF LeaseRows
<1>3. ASSUME NEW c \in Cards, NEW h \in Attempts, Grant(c, h) PROVE LeaseRows'
  <2>1. h \notin spent /\ holder' = [holder EXCEPT ![c] = h] /\ spent' = spent \cup {h}
    BY <1>3 DEF Grant
  <2>2. HoldersSpent'
    BY <2>1 DEF LeaseRows, HoldersSpent
  <2>3. OneCardEach'
    BY <2>1 DEF LeaseRows, HoldersSpent, OneCardEach
  <2>4. QED
    BY <2>2, <2>3 DEF LeaseRows
<1>4. QED
  BY <1>1, <1>2, <1>3 DEF LeaseNext

\* An attempt never leases two cards, for any number of cards and attempts.
THEOREM LeasesAreExclusive ==
  ASSUME None \notin Attempts
  PROVE  LeaseSpec => []OneCardEach
<1>1. LeaseInit => LeaseRows
  BY LeaseInitRows
<1>2. LeaseRows /\ [LeaseNext]_lease => LeaseRows'
  BY LeaseStepRows
<1>3. LeaseRows => OneCardEach
  BY DEF LeaseRows
<1>4. QED
  BY <1>1, <1>2, <1>3, PTL DEF LeaseSpec

\* A lease that was lost is never granted again.
THEOREM LeasesAreFences ==
  ASSUME None \notin Attempts
  PROVE  LeaseSpec => NeverRegained
<1> DEFINE Kept == \A c \in Cards : holder'[c] \notin {holder[c], None} => holder'[c] \notin spent
<1>1. LeaseRows /\ [LeaseNext]_lease => [Kept]_lease
  <2>1. SUFFICES ASSUME LeaseRows, LeaseNext PROVE Kept
    OBVIOUS
  <2>2. DOMAIN holder = Cards
    BY <2>1 DEF LeaseRows, HoldersSpent
  <2>3. CASE \E c \in Cards : Revoke(c)
    BY <2>2, <2>3 DEF Revoke
  <2>4. CASE \E c \in Cards, h \in Attempts : Grant(c, h)
    BY <2>2, <2>4 DEF Grant
  <2>5. QED
    BY <2>1, <2>3, <2>4 DEF LeaseNext
<1>2. LeaseInit => LeaseRows
  BY LeaseInitRows
<1>3. LeaseRows /\ [LeaseNext]_lease => LeaseRows'
  BY LeaseStepRows
<1>4. QED
  BY <1>1, <1>2, <1>3, PTL DEF LeaseSpec, NeverRegained
=============================================================================
