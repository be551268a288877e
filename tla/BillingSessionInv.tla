------------------------- MODULE BillingSessionInv --------------------------
(***************************************************************************)
(* The inductive invariant behind the safety properties of BillingSession: *)
(* which session fields agree at which point of the request, and what the  *)
(* request holds there, with and without database errors.                  *)
(***************************************************************************)
EXTENDS BillingSession, Functions

Early == {"idle", "begin", "wallet", "checkToken", "debitToken", "fund", "undoToken"}
Reserving == {"reserveCheck", "reserveDebit", "undoReserve"}

\* Before the funding source is charged the session is empty but for the
\* token debit.
EarlyShape(s) ==
    /\ s.pre = 0 /\ s.consumed = 0 /\ s.extra = 0
    /\ ~s.settled /\ ~s.fundingSettled /\ ~s.refunded
    /\ s.gor = "none"
    /\ s.pc \in {"idle", "begin"} => s.src = "none"
    /\ s.pc = "wallet" => s.src = "wallet"
    /\ s.pc \in {"checkToken", "debitToken", "fund", "undoToken"} =>
          s.src \in {"wallet", "subscription"}
    /\ s.pc \in {"idle", "begin", "wallet", "checkToken", "debitToken"}
          => s.tokenConsumed = 0
    /\ s.pc \in {"fund", "undoToken"} => s.tokenConsumed = s.eff
    /\ s.pc \in {"debitToken", "undoToken"} => ~Playground(s)
    /\ s.out = IF s.pc = "done" THEN "rejected" ELSE "none"
    /\ s.pc = "done" => s.tokenConsumed = 0 \/ Playground(s)

\* From the funding pre-consume on, the token hold equals the hold, and the
\* flags follow the outcome.
LateShape(s) ==
    /\ s.src \in {"wallet", "subscription"}
    /\ s.tokenConsumed = s.pre
    /\ s.src = "subscription" => s.consumed + s.extra = s.pre
    /\ s.src = "wallet" => s.consumed >= IF s.pc \in Reserving THEN s.goal ELSE s.pre
    /\ s.pc \in {"send"} \cup Reserving => s.out = "none"
    /\ s.pc \in {"settle", "settleToken"} => s.out = "ok"
    /\ s.pc \in {"fee", "feeToken"} => s.out = "failed"
    /\ s.pc = "done" => s.out \in {"ok", "failed", "panic"}
    /\ s.pc \in Reserving \cup {"settleToken", "feeToken"} => ~Playground(s)
    /\ s.pc \in Reserving => s.goal > s.pre
    /\ s.settled => s.out = "ok" /\ s.pc = "done"
    /\ s.fundingSettled => s.out = "ok" /\ (s.pc = "settleToken" \/ s.settled)
    /\ s.pc = "settleToken" => s.fundingSettled
    /\ s.settled /\ ~s.fundingSettled => s.goal = s.pre
    /\ s.refunded => s.out \in {"failed", "panic"}
    /\ s.refunded <=> s.gor # "none"
    /\ s.out = "failed" /\ ~s.refunded => s.pre = 0

SessionShape(s) ==
    IF s.pc \in Early \/ s.out = "rejected" THEN EarlyShape(s) ELSE LateShape(s)

\* What a session stands for on its funding source and on the token when
\* every database call succeeded.
FundingHeld(s) ==
    IF s.settled \/ s.fundingSettled THEN s.goal
    ELSE IF s.gor \in {"token", "end"} THEN 0
    ELSE IF s.gor = "extra" THEN IF s.src = "subscription" THEN s.extra ELSE 0
    ELSE IF s.pc \in Reserving THEN s.goal
    ELSE s.pre

TokenHeld(s) ==
    IF s.settled THEN s.goal
    ELSE IF s.gor = "end" THEN 0
    ELSE s.tokenConsumed

\* With no database error so far the rows have been charged exactly what the
\* session stands for.
Exact(s, p) ==
    /\ p.wallet = IF s.src = "wallet" THEN FundingHeld(s) ELSE 0
    /\ p.sub = IF s.src = "subscription" THEN FundingHeld(s) ELSE 0
    /\ p.token = TokenDue(s, TokenHeld(s))
    /\ s.src = "wallet" => s.consumed = IF s.pc \in Reserving THEN s.goal ELSE s.pre
    /\ s.out = "ok" /\ s.pc = "done" /\ ~s.settled =>
          s.src = "subscription" /\ s.goal > s.pre

\* Whatever failed, the wallet and the token were charged at least what the
\* session may still give back to them.
Backed(s, p) ==
    /\ s.src # "wallet" => p.wallet = 0
    /\ s.src = "wallet" =>
          IF s.fundingSettled THEN p.wallet = s.consumed + (s.goal - s.pre)
          ELSE IF s.gor \in {"none", "fund"} THEN p.wallet = s.consumed
          ELSE p.wallet >= 0
    /\ ~Playground(s) =>
          p.token >= IF s.settled \/ s.gor = "end" THEN 0 ELSE s.tokenConsumed
    /\ Playground(s) => p.token = 0

\* The invariant of one request: its session s, what it paid p and the
\* number f of database errors it met.
RequestInv(s, p, f) ==
    /\ SessionShape(s)
    /\ s.pc = "idle" => f = 0
    /\ f = 0 => Exact(s, p)
    /\ Backed(s, p)

\* The inductive invariant: every request has the shape, the exact charges
\* without errors and the backed refunds with them, and the subscription
\* stays within its limit.
BillingInv ==
    /\ TypeOK
    /\ \A r \in Requests : RequestInv(sess[r], paid[r], faults[r])
    /\ SubWithinTotal

-----------------------------------------------------------------------------
(* The subscription's books.                                               *)

\* What a request has taken from the subscription, its violation fee included.
SubShare(s, p) == p.sub + IF s.src = "subscription" THEN p.fee ELSE 0

\* Clamping the used amount at zero (PostConsumeUserSubscriptionDelta) never
\* swallows a refund: without database errors the subscription's used amount
\* is the sum of what its requests hold and the fees they paid.
SubUsedAccounted ==
    (\A r \in Requests : faults[r] = 0) =>
        used = SumFunction([r \in Requests |-> SubShare(sess[r], paid[r])])

\* A fee has been charged only to a failed request, past its ChargeFee.
FeeTaken ==
    \A r \in Requests :
        paid[r].fee # 0 => sess[r].out = "failed" /\ sess[r].pc \in {"feeToken", "done"}

-----------------------------------------------------------------------------
(* The refinement of BillingContract.                                      *)

\* The status a session shows to the contract.  A settlement refused by the
\* subscription, like a panic, keeps the hold and leaves the contract (a panic
\* in a retry may still give that hold back).
StatusOf(r) ==
    LET s == sess[r] IN
    IF faults[r] > 0 \/ s.out = "panic" THEN "exception"
    ELSE IF s.settled THEN "charged"
    ELSE IF s.out = "ok" /\ s.pc = "done" THEN "exception"
    ELSE IF s.out = "rejected" \/ s.gor = "end" THEN "void"
    ELSE IF s.out = "failed" /\ ~s.refunded THEN "void"
    ELSE "open"

HeldOf(r) == [funding |-> paid[r].wallet + paid[r].sub, token |-> paid[r].token]

Contract == INSTANCE BillingContract
    WITH Prices <- Quotas,
         status <- [r \in Requests |-> StatusOf(r)],
         held <- [r \in Requests |-> HeldOf(r)]

\* BillingSession implements the contract: without database errors every
\* request is charged exactly or not at all, and once it has ended no late
\* settlement, refund goroutine or fallback touches what it paid.
ImplementsContract == Contract!Spec

=============================================================================
