------------------------ MODULE SubscriptionLedgerMC ------------------------
(* SubscriptionLedger on small instances. *)
EXTENDS SubscriptionLedger, TLC

CONSTANTS r1, r2, r3

Two == {r1, r2}
Three == {r1, r2, r3}
OneSub == {1}
TwoSubs == {1, 2}
EndsOne == [i \in {1} |-> 3]
EndsTwo == [i \in {1, 2} |-> 1 + i]
Symmetry == Permutations(Requests)
=============================================================================
