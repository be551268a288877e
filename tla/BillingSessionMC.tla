-------------------------- MODULE BillingSessionMC --------------------------
(* BillingSession on small instances. *)
EXTENDS BillingSessionInv, TLC

CONSTANTS r1, r2

TwoRequests == {r1, r2}
OneRequest == {r1}

\* The requests are interchangeable (safety runs only).
Symmetry == Permutations(TwoRequests)
=============================================================================
