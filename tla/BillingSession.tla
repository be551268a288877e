--------------------------- MODULE BillingSession ---------------------------
(***************************************************************************)
(* The billing lifecycle of relay requests (service/billing_session.go,    *)
(* service/funding_source.go, the quota half of controller/relay.go).      *)
(*                                                                         *)
(* Every request of one user owns a BillingSession: it pre-consumes an     *)
(* estimate from the API token and from a funding source (the wallet or a  *)
(* subscription), may top the hold up before sending (Reserve), and then   *)
(* either settles to the actual quota or gives the hold back in an         *)
(* asynchronous goroutine.  Requests run concurrently and share the        *)
(* user's wallet row, the token row and the subscription row; each SQL     *)
(* statement or transaction is one step, and any of them may fail.  Taking *)
(* a subscription transaction as one step assumes a database that runs it  *)
(* serially; SubscriptionLedger drops that assumption.                     *)
(*                                                                         *)
(* Operators whose name ends in Bug are plausible mistakes in the code     *)
(* they precede; they show that the properties would notice.               *)
(***************************************************************************)
EXTENDS Integers, FiniteSets

CONSTANTS
    Requests,        \* concurrent requests of one user
    Kinds,           \* subset of {"relay", "playground", "task"}
    Prefs,           \* billing preferences the user may have configured
    Quotas,          \* estimates, Reserve targets and actual quotas
    InitWallet,      \* users.quota before the first request
    InitToken,       \* tokens.remain_quota before the first request
    TokenUnlimited,  \* tokens.unlimited_quota
    HasSub,          \* the user starts with an active subscription
    SubTotal,        \* user_subscriptions.amount_total (0 = no limit)
    TrustQuota,      \* common.GetTrustQuota()
    Fee,             \* quota of the violation fee (0 = fee disabled)
    MaxAttempts,     \* refundWithRetry: attempts at a subscription refund
    MaxFaults        \* database errors one request may meet

AllKinds == {"relay", "playground", "task"}
AllPrefs == {"subscription_only", "wallet_only",
             "wallet_first", "subscription_first"}

ASSUME BillingAssumption ==
    /\ IsFiniteSet(Requests)
    /\ Kinds \subseteq AllKinds
    /\ Prefs \subseteq AllPrefs
    /\ Quotas \subseteq Nat
    /\ InitWallet \in Int
    /\ InitToken \in Int
    /\ TokenUnlimited \in BOOLEAN
    /\ HasSub \in BOOLEAN
    /\ SubTotal \in Nat
    /\ TrustQuota \in Nat
    /\ Fee \in Nat
    /\ MaxAttempts \in Nat
    /\ MaxFaults \in Nat

VARIABLES
    wallet,      \* users.quota
    remain,      \* tokens.remain_quota
    used,        \* user_subscriptions.amount_used
    subActive,   \* the subscription is active and not past its end_time
    sess,        \* per request: its goroutine's position and its session
    faults,      \* per request: database errors met so far
    paid         \* history: what each request has taken from each row

vars == <<wallet, remain, used, subActive, sess, faults, paid>>

-----------------------------------------------------------------------------
(* The state of a request.  pc is the position of the request's goroutine, *)
(* gor that of its refund goroutine; the other fields are those of         *)
(* BillingSession and of its FundingSource.                                *)

PCs == {"idle", "begin", "wallet", "checkToken", "debitToken", "fund",
        "undoToken", "send", "reserveCheck", "reserveDebit", "undoReserve",
        "settle", "settleToken", "fee", "feeToken", "done"}

Sources == {"none", "wallet", "subscription"}
RefundPCs == {"none", "fund", "extra", "token", "end"}
Outcomes == {"none", "rejected", "failed", "ok", "panic"}

Session ==
    [pc : PCs, kind : AllKinds, pref : AllPrefs,
     est : Nat,             \* preConsumedQuota argument of NewBillingSession
     tokenSeen : Int,       \* token_quota read when the request was authorised
     next : Sources,        \* funding source to fall back to
     src : Sources,         \* FundingSource of the session
     eff : Nat,             \* effectiveQuota
     trusted : BOOLEAN, pre : Nat, tokenConsumed : Nat, extra : Nat,
     consumed : Nat,        \* WalletFunding.consumed / SubscriptionFunding.preConsumed
     goal : Nat,            \* Reserve target, then the actual quota
     fundingSettled : BOOLEAN, settled : BOOLEAN, refunded : BOOLEAN,
     gor : RefundPCs,
     tries : Nat,           \* attempts of refundWithRetry used up
     out : Outcomes]

IdleSession ==
    [pc |-> "idle", kind |-> "relay", pref |-> "wallet_only", est |-> 0,
     tokenSeen |-> 0, next |-> "none", src |-> "none", eff |-> 0,
     trusted |-> FALSE, pre |-> 0, tokenConsumed |-> 0, extra |-> 0,
     consumed |-> 0, goal |-> 0, fundingSettled |-> FALSE, settled |-> FALSE,
     refunded |-> FALSE, gor |-> "none", tries |-> 0, out |-> "none"]

Paid == [wallet : Int, sub : Int, token : Int, fee : Nat, feeToken : Nat]

Nothing == [wallet |-> 0, sub |-> 0, token |-> 0, fee |-> 0, feeToken |-> 0]

Init ==
    /\ wallet = InitWallet
    /\ remain = InitToken
    /\ used = 0
    /\ subActive = HasSub
    /\ sess = [r \in Requests |-> IdleSession]
    /\ faults = [r \in Requests |-> 0]
    /\ paid = [r \in Requests |-> Nothing]

Playground(s) == s.kind = "playground"

\* relayInfo.ForcePreConsume: asynchronous tasks never skip the pre-consume.
ForcePreConsume(s) == s.kind = "task"

-----------------------------------------------------------------------------
(* The rows the requests share.                                            *)

\* The outcome of one database call of r: success, or an error if r may
\* still meet one.
Database(r, ok) ==
    /\ ok \/ faults[r] < MaxFaults
    /\ faults' = IF ok THEN faults ELSE [faults EXCEPT ![r] = @ + 1]

\* PostConsumeUserSubscriptionDelta: the used amount is clamped at zero and
\* the transaction fails if it would exceed the total.
NewUsed(d) == IF used + d < 0 THEN 0 ELSE used + d
DeltaFits(d) == SubTotal = 0 \/ NewUsed(d) <= SubTotal

\* A call that moves d (negative: gives back) between the user and r's
\* funding source succeeds when the database does and, for a subscription,
\* when the delta fits.
FundingAccepts(s, d, ok) == ok /\ (s.src = "subscription" => DeltaFits(d))

MoveFunding(r, d) ==
    IF sess[r].src = "wallet"
    THEN /\ wallet' = wallet - d
         /\ paid' = [paid EXCEPT ![r].wallet = @ + d]
         /\ UNCHANGED used
    ELSE /\ used' = NewUsed(d)
         /\ paid' = [paid EXCEPT ![r].sub = @ + d]
         /\ UNCHANGED wallet

\* DecreaseTokenQuota / IncreaseTokenQuota: one unconditional UPDATE.
MoveToken(r, d) ==
    /\ remain' = remain - d
    /\ paid' = [paid EXCEPT ![r].token = @ + d]

Goto(r, s) == sess' = [sess EXCEPT ![r] = s]

At(r, p) == sess[r].pc = p

-----------------------------------------------------------------------------
(* NewBillingSession: choosing a funding source and pre-consuming.         *)

\* Begin the attempt with source src: tryWallet starts by reading the wallet,
\* trySubscription builds a session that holds at least 1 and goes straight
\* to preConsume.  Every attempt starts from a fresh BillingSession.
Attempt(s, src, next) ==
    IF src = "wallet"
    THEN [s EXCEPT !.pc = "wallet", !.src = "wallet", !.next = next,
                   !.eff = 0, !.tokenConsumed = 0]
    ELSE [s EXCEPT !.pc = "checkToken", !.src = "subscription",
                   !.next = next, !.tokenConsumed = 0,
                   !.eff = IF s.est <= 0 THEN 1 ELSE s.est]

Reject(s) == [s EXCEPT !.pc = "done", !.out = "rejected"]

\* An InsufficientUserQuota error makes a "first" preference try the other
\* source; any other error, or no source left, rejects the request.
Fallback(s) == IF s.next = "none" THEN Reject(s)
               ELSE Attempt(s, s.next, "none")

\* Authentication and pricing: a limited token must have quota left, and its
\* remaining quota is stored in the request context for shouldTrust.
Begin(r) ==
    \E k \in Kinds, p \in Prefs, q \in Quotas :
        /\ At(r, "idle")
        /\ k = "playground" \/ TokenUnlimited \/ remain > 0
        /\ Goto(r, [IdleSession EXCEPT
                      !.pc = "begin", !.kind = k, !.pref = p, !.est = q,
                      !.tokenSeen = IF k = "playground" THEN 0 ELSE remain])
        /\ UNCHANGED <<wallet, remain, used, subActive, faults, paid>>

\* The switch on the billing preference, with HasActiveUserSubscription for
\* subscription_first.
SelectFunding(r, ok) ==
    LET s == sess[r] IN
    /\ At(r, "begin")
    /\ IF s.pref = "subscription_first" THEN Database(r, ok)
       ELSE ok /\ UNCHANGED faults
    /\ Goto(r, CASE s.pref = "subscription_only" -> Attempt(s, "subscription", "none")
                 [] s.pref = "wallet_only" -> Attempt(s, "wallet", "none")
                 [] s.pref = "wallet_first" -> Attempt(s, "wallet", "subscription")
                 [] s.pref = "subscription_first" ->
                      IF ~ok THEN Reject(s)
                      ELSE IF subActive THEN Attempt(s, "subscription", "wallet")
                      ELSE Attempt(s, "wallet", "none"))
    /\ UNCHANGED <<wallet, remain, used, subActive, paid>>

\* shouldTrust for the wallet: both the token quota seen at authorisation and
\* the wallet quota just read exceed the trust threshold.  The playground's
\* temporary token is neither unlimited nor charged.
ShouldTrust(s) ==
    /\ ~ForcePreConsume(s)
    /\ TrustQuota > 0
    /\ (TokenUnlimited /\ ~Playground(s)) \/ s.tokenSeen > TrustQuota
    /\ wallet > TrustQuota

\* tryWallet up to the token pre-consume: the wallet read decides whether the
\* request may start; the debit comes later and does not look again.
TryWallet(r, ok) ==
    LET s == sess[r]
        eff == IF ShouldTrust(s) THEN 0 ELSE s.est IN
    /\ At(r, "wallet")
    /\ Database(r, ok)
    /\ Goto(r, IF ~ok THEN Reject(s)
               ELSE IF wallet <= 0 \/ wallet < s.est THEN Fallback(s)
               ELSE [s EXCEPT !.trusted = ShouldTrust(s), !.eff = eff,
                              !.pc = IF eff > 0 THEN "checkToken" ELSE "fund"])
    /\ UNCHANGED <<wallet, remain, used, subActive, paid>>

\* PreConsumeTokenQuota, first half: read the token and compare.  The
\* playground has no token to charge.
CheckToken(r, ok) ==
    LET s == sess[r] IN
    /\ At(r, "checkToken")
    /\ IF Playground(s) THEN ok /\ UNCHANGED faults ELSE Database(r, ok)
    /\ Goto(r, IF Playground(s)
               THEN [s EXCEPT !.pc = "fund", !.tokenConsumed = s.eff]
               ELSE IF ~ok \/ (~TokenUnlimited /\ remain < s.eff) THEN Reject(s)
               ELSE [s EXCEPT !.pc = "debitToken"])
    /\ UNCHANGED <<wallet, remain, used, subActive, paid>>

\* PreConsumeTokenQuota, second half: the unconditional debit.
DebitToken(r, ok) ==
    LET s == sess[r] IN
    /\ At(r, "debitToken")
    /\ Database(r, ok)
    /\ IF ok
       THEN /\ MoveToken(r, s.eff)
            /\ Goto(r, [s EXCEPT !.pc = "fund", !.tokenConsumed = s.eff])
       ELSE Goto(r, Reject(s)) /\ UNCHANGED <<remain, paid>>
    /\ UNCHANGED <<wallet, used, subActive>>

\* PreConsumeUserSubscription accepts the amount of an active subscription
\* with enough left; otherwise its error counts as insufficient quota, and so
\* does a database error of the query for the active subscriptions.
SubscriptionCovers(d) == subActive /\ (SubTotal = 0 \/ SubTotal - used >= d)

\* Without the roll-back of the token.
FundingRefusedBug(s, insufficient) ==
    Fallback(IF insufficient THEN [s EXCEPT !.tokenConsumed = 0]
             ELSE [s EXCEPT !.next = "none", !.tokenConsumed = 0])

\* After a failed funding pre-consume the token debit, if any, is rolled back
\* first; only an insufficient-quota error keeps the fallback alive.
FundingRefused(s, insufficient) ==
    LET t == IF insufficient THEN s ELSE [s EXCEPT !.next = "none"] IN
    IF s.tokenConsumed > 0 /\ ~Playground(s)
    THEN [t EXCEPT !.pc = "undoToken"]
    ELSE Fallback(t)

\* The session records the estimate instead of what a subscription took.
PreConsumeFundingBug(r, ok) ==
    LET s == sess[r] IN
    /\ At(r, "fund")
    /\ ok /\ UNCHANGED faults
    /\ s.src = "subscription" => SubscriptionCovers(s.eff)
    /\ MoveFunding(r, s.eff)
    /\ Goto(r, [s EXCEPT !.pc = "send", !.pre = s.est, !.consumed = s.eff])
    /\ UNCHANGED <<remain, subActive>>

\* funding.PreConsume: a wallet is debited unconditionally, a subscription
\* only if it covers the amount.  On success the session becomes the
\* request's Billing.
PreConsumeFunding(r, ok) ==
    LET s == sess[r]
        touches == s.src = "subscription" \/ s.eff > 0
        accepted == ok /\ (s.src = "subscription" => SubscriptionCovers(s.eff)) IN
    /\ At(r, "fund")
    /\ IF touches THEN Database(r, ok) ELSE ok /\ UNCHANGED faults
    /\ IF accepted
       THEN /\ MoveFunding(r, s.eff)
            /\ Goto(r, [s EXCEPT !.pc = "send", !.pre = s.eff, !.consumed = s.eff])
       ELSE /\ \/ Goto(r, FundingRefused(s, ok))
               \/ s.src = "subscription" /\ Goto(r, FundingRefused(s, TRUE))
            /\ UNCHANGED <<wallet, used, paid>>
    /\ UNCHANGED <<remain, subActive>>

\* The roll-back of the token debit; an error is logged and dropped.
UndoToken(r, ok) ==
    LET s == sess[r] IN
    /\ At(r, "undoToken")
    /\ Database(r, ok)
    /\ IF ok THEN MoveToken(r, -s.tokenConsumed) ELSE UNCHANGED <<remain, paid>>
    /\ Goto(r, Fallback([s EXCEPT !.tokenConsumed = 0]))
    /\ UNCHANGED <<wallet, used, subActive>>

-----------------------------------------------------------------------------
(* Reserve: raising the hold to a target before the request is sent.       *)

Reserved(s) ==
    [s EXCEPT !.pc = "send", !.pre = s.goal,
              !.tokenConsumed = @ + (s.goal - s.pre),
              !.extra = @ + (s.goal - s.pre)]

\* reserveFunding: the wallet is debited without a check, the subscription
\* only while the delta fits.  A refused reserve leaves the session as it was.
Reserve(r, ok) ==
    \E target \in Quotas :
        LET d == target - sess[r].pre
            s == [sess[r] EXCEPT !.goal = target,
                    !.consumed = IF sess[r].src = "wallet" THEN @ + d ELSE @] IN
        /\ At(r, "send")
        /\ ~sess[r].trusted
        /\ d > 0
        /\ Database(r, ok)
        /\ IF FundingAccepts(sess[r], d, ok)
           THEN /\ MoveFunding(r, d)
                /\ Goto(r, IF Playground(s) THEN Reserved(s)
                           ELSE [s EXCEPT !.pc = "reserveCheck"])
           ELSE UNCHANGED <<wallet, used, paid, sess>>
        /\ UNCHANGED <<remain, subActive>>

ReserveCheckToken(r, ok) ==
    LET s == sess[r] IN
    /\ At(r, "reserveCheck")
    /\ Database(r, ok)
    /\ Goto(r, [s EXCEPT !.pc =
                  IF ~ok \/ (~TokenUnlimited /\ remain < s.goal - s.pre)
                  THEN "undoReserve" ELSE "reserveDebit"])
    /\ UNCHANGED <<wallet, remain, used, subActive, paid>>

ReserveDebitToken(r, ok) ==
    LET s == sess[r] IN
    /\ At(r, "reserveDebit")
    /\ Database(r, ok)
    /\ IF ok THEN MoveToken(r, s.goal - s.pre) /\ Goto(r, Reserved(s))
       ELSE Goto(r, [s EXCEPT !.pc = "undoReserve"]) /\ UNCHANGED <<remain, paid>>
    /\ UNCHANGED <<wallet, used, subActive>>

\* The wallet is credited but still counts the amount as consumed.
UndoReserveBug(r, ok) ==
    LET s == sess[r] IN
    /\ At(r, "undoReserve")
    /\ Database(r, ok)
    /\ Goto(r, [s EXCEPT !.pc = "send"])
    /\ IF ok THEN MoveFunding(r, s.pre - s.goal) ELSE UNCHANGED <<wallet, used, paid>>
    /\ UNCHANGED <<remain, subActive>>

\* rollbackFundingReserve: an error is logged and dropped.
UndoReserve(r, ok) ==
    LET s == sess[r]
        d == s.goal - s.pre IN
    /\ At(r, "undoReserve")
    /\ Database(r, ok)
    /\ IF FundingAccepts(s, -d, ok)
       THEN /\ MoveFunding(r, -d)
            /\ Goto(r, [s EXCEPT !.pc = "send",
                         !.consumed = IF s.src = "wallet" THEN @ - d ELSE @])
       ELSE /\ Goto(r, [s EXCEPT !.pc = "send"])
            /\ UNCHANGED <<wallet, used, paid>>
    /\ UNCHANGED <<remain, subActive>>

-----------------------------------------------------------------------------
(* The upstream call and its three ends.                                   *)

\* A response: the handler calls SettleBilling with the actual quota.
Respond(r) ==
    \E actual \in Quotas :
        LET s == [sess[r] EXCEPT !.goal = actual, !.out = "ok"] IN
        /\ At(r, "send")
        /\ Goto(r, IF actual = s.pre
                   THEN [s EXCEPT !.settled = TRUE, !.pc = "done"]
                   ELSE [s EXCEPT !.pc = "settle"])
        /\ UNCHANGED <<wallet, remain, used, subActive, faults, paid>>

\* The token is adjusted although the funding source refused.
SettleFundingTokenBug(r, ok) ==
    LET s == sess[r]
        d == s.goal - s.pre IN
    /\ At(r, "settle")
    /\ Database(r, ok)
    /\ ~FundingAccepts(s, d, ok)
    /\ MoveToken(r, d)
    /\ Goto(r, [s EXCEPT !.pc = "done"])
    /\ UNCHANGED <<wallet, used, subActive>>

\* Settle, step 1.  An error is logged by the caller: the session stays
\* unsettled and, the request having succeeded, nobody refunds it.
SettleFunding(r, ok) ==
    LET s == sess[r]
        d == s.goal - s.pre IN
    /\ At(r, "settle")
    /\ Database(r, ok)
    /\ IF FundingAccepts(s, d, ok)
       THEN /\ MoveFunding(r, d)
            /\ Goto(r, IF Playground(s)
                       THEN [s EXCEPT !.fundingSettled = TRUE,
                                      !.settled = TRUE, !.pc = "done"]
                       ELSE [s EXCEPT !.fundingSettled = TRUE, !.pc = "settleToken"])
       ELSE /\ Goto(r, [s EXCEPT !.pc = "done"])
            /\ UNCHANGED <<wallet, used, paid>>
    /\ UNCHANGED <<remain, subActive>>

\* Settle, step 2: a failed token adjustment is logged, and the session is
\* settled all the same.
SettleToken(r, ok) ==
    LET s == sess[r] IN
    /\ At(r, "settleToken")
    /\ Database(r, ok)
    /\ IF ok THEN MoveToken(r, s.goal - s.pre) ELSE UNCHANGED <<remain, paid>>
    /\ Goto(r, [s EXCEPT !.settled = TRUE, !.pc = "done"])
    /\ UNCHANGED <<wallet, used, subActive>>

\* Without the look at what has been settled.
NeedsRefundBug(s) ==
    /\ ~s.refunded
    /\ \/ s.tokenConsumed > 0
       \/ s.src = "subscription" /\ s.consumed > 0

NeedsRefund(s) ==
    /\ ~s.settled /\ ~s.refunded /\ ~s.fundingSettled
    /\ \/ s.tokenConsumed > 0
       \/ s.src = "subscription" /\ s.consumed > 0

StartRefund(s) == [s EXCEPT !.refunded = TRUE, !.gor = "fund"]

\* The deferred function of Relay and RelayTask after a failed request:
\* Refund starts its goroutine, and a relay request may owe a violation fee.
\* The error of a failed attempt is still set while the next one runs, so a
\* panic in a retry ends like this too (a violation is never retried).
Fail(r) ==
    \E violation \in BOOLEAN :
        LET s == [sess[r] EXCEPT !.out = "failed"]
            t == IF NeedsRefund(s) THEN StartRefund(s) ELSE s IN
        /\ At(r, "send")
        /\ violation => s.kind # "task" /\ Fee > 0
        /\ Goto(r, [t EXCEPT !.pc = IF violation THEN "fee" ELSE "done"])
        /\ UNCHANGED <<wallet, remain, used, subActive, faults, paid>>

\* A panic in the first attempt is recovered by RelayPanicRecover: the
\* deferred function sees no error and the hold is kept.
Panic(r) ==
    /\ At(r, "send")
    /\ Goto(r, [sess[r] EXCEPT !.pc = "done", !.out = "panic"])
    /\ UNCHANGED <<wallet, remain, used, subActive, faults, paid>>

\* A panic after the settlement in a retry (the handlers log and count after
\* they settle): the deferred function of Relay still sees the error of the
\* attempt before and calls Refund on a session that has been settled, or
\* whose settlement was refused.  RelayTask settles only when its error is
\* gone.
LatePanic(r) ==
    LET s == sess[r] IN
    /\ At(r, "done")
    /\ s.out = "ok" /\ s.kind # "task"
    /\ Goto(r, IF NeedsRefund(s) THEN StartRefund([s EXCEPT !.out = "panic"]) ELSE s)
    /\ UNCHANGED <<wallet, remain, used, subActive, faults, paid>>

\* ChargeViolationFeeIfNeeded -> PostConsumeQuota: funding first, then the
\* token; an error ends it.  It runs beside the refund goroutine.
ChargeFee(r, ok) ==
    LET s == sess[r] IN
    /\ At(r, "fee")
    /\ Database(r, ok)
    /\ IF FundingAccepts(s, Fee, ok)
       THEN /\ IF s.src = "wallet" THEN wallet' = wallet - Fee /\ UNCHANGED used
               ELSE used' = NewUsed(Fee) /\ UNCHANGED wallet
            /\ paid' = [paid EXCEPT ![r].fee = Fee]
            /\ Goto(r, [s EXCEPT !.pc = IF Playground(s) THEN "done" ELSE "feeToken"])
       ELSE /\ Goto(r, [s EXCEPT !.pc = "done"])
            /\ UNCHANGED <<wallet, used, paid>>
    /\ UNCHANGED <<remain, subActive>>

ChargeFeeToken(r, ok) ==
    /\ At(r, "feeToken")
    /\ Database(r, ok)
    /\ IF ok
       THEN remain' = remain - Fee /\ paid' = [paid EXCEPT ![r].feeToken = Fee]
       ELSE UNCHANGED <<remain, paid>>
    /\ Goto(r, [sess[r] EXCEPT !.pc = "done"])
    /\ UNCHANGED <<wallet, used, subActive>>

-----------------------------------------------------------------------------
(* The refund goroutine started by Refund.                                 *)

\* WalletFunding.Refund: one attempt, an error is logged.
RefundWallet(r, ok) ==
    LET s == sess[r] IN
    /\ s.gor = "fund" /\ s.src = "wallet"
    /\ IF s.consumed > 0 THEN Database(r, ok) ELSE ok /\ UNCHANGED faults
    /\ IF ok THEN MoveFunding(r, -s.consumed) ELSE UNCHANGED <<wallet, used, paid>>
    /\ Goto(r, [s EXCEPT !.gor = "extra"])
    /\ UNCHANGED <<remain, subActive>>

\* The record stands for the reserved quota too, which is refunded again.
RefundSubscriptionBug(r, ok, credited) ==
    /\ sess[r].gor = "fund" /\ sess[r].src = "subscription"
    /\ ok /\ credited /\ UNCHANGED faults
    /\ MoveFunding(r, -sess[r].pre)
    /\ Goto(r, [sess[r] EXCEPT !.gor = "extra"])
    /\ UNCHANGED <<remain, subActive>>

\* SubscriptionFunding.Refund: up to MaxAttempts calls of
\* RefundSubscriptionPreConsume.  The call gives the amount back in a
\* transaction of its own (PostConsumeUserSubscriptionDelta) and then marks the
\* record refunded in the enclosing one: credited = TRUE with ok = FALSE is the
\* error that hits after the inner transaction has committed.
RefundSubscription(r, ok, credited) ==
    LET s == sess[r] IN
    /\ s.gor = "fund" /\ s.src = "subscription"
    /\ Database(r, ok)
    /\ ok => credited
    /\ IF credited THEN MoveFunding(r, -s.consumed)
       ELSE UNCHANGED <<wallet, used, paid>>
    /\ Goto(r, IF ok \/ s.tries + 1 >= MaxAttempts THEN [s EXCEPT !.gor = "extra"]
               ELSE [s EXCEPT !.tries = @ + 1])
    /\ UNCHANGED <<remain, subActive>>

\* Without the refund of what Reserve added.
RefundExtraBug(r, ok) ==
    /\ sess[r].gor = "extra"
    /\ ok
    /\ Goto(r, [sess[r] EXCEPT !.gor = "token"])
    /\ UNCHANGED <<wallet, used, remain, subActive, faults, paid>>

\* Quota a subscription session reserved later has no record: it is given
\* back directly.
RefundExtra(r, ok) ==
    LET s == sess[r]
        due == s.src = "subscription" /\ s.extra > 0 IN
    /\ s.gor = "extra"
    /\ IF due THEN Database(r, ok) ELSE ok /\ UNCHANGED faults
    /\ IF due /\ FundingAccepts(s, -s.extra, ok) THEN MoveFunding(r, -s.extra)
       ELSE UNCHANGED <<wallet, used, paid>>
    /\ Goto(r, [s EXCEPT !.gor = "token"])
    /\ UNCHANGED <<remain, subActive>>

\* Only the playground's token is refunded.
RefundTokenBug(r, ok) ==
    /\ sess[r].gor = "token"
    /\ ok
    /\ Goto(r, [sess[r] EXCEPT !.gor = "end"])
    /\ IF Playground(sess[r]) THEN MoveToken(r, -sess[r].tokenConsumed)
       ELSE UNCHANGED <<remain, paid>>
    /\ UNCHANGED <<wallet, used, subActive, faults>>

\* The token gets back what the session took from it.
RefundToken(r, ok) ==
    LET s == sess[r]
        due == s.tokenConsumed > 0 /\ ~Playground(s) IN
    /\ s.gor = "token"
    /\ IF due THEN Database(r, ok) ELSE ok /\ UNCHANGED faults
    /\ IF due /\ ok THEN MoveToken(r, -s.tokenConsumed) ELSE UNCHANGED <<remain, paid>>
    /\ Goto(r, [s EXCEPT !.gor = "end"])
    /\ UNCHANGED <<wallet, used, subActive>>

-----------------------------------------------------------------------------
\* The subscription runs out, or is cancelled, at any time
\* (ExpireDueSubscriptions, AdminInvalidateUserSubscription).
Expire ==
    /\ subActive
    /\ subActive' = FALSE
    /\ UNCHANGED <<wallet, remain, used, sess, faults, paid>>

PreConsumeStep(r, ok) ==
    \/ SelectFunding(r, ok)
    \/ TryWallet(r, ok)
    \/ CheckToken(r, ok)
    \/ DebitToken(r, ok)
    \/ PreConsumeFunding(r, ok)
    \/ UndoToken(r, ok)

ReserveStep(r, ok) ==
    \/ ReserveCheckToken(r, ok)
    \/ ReserveDebitToken(r, ok)
    \/ UndoReserve(r, ok)

SettleStep(r, ok) ==
    \/ SettleFunding(r, ok)
    \/ SettleToken(r, ok)
    \/ ChargeFee(r, ok)
    \/ ChargeFeeToken(r, ok)

RefundStep(r, ok) ==
    \/ RefundWallet(r, ok)
    \/ \E credited \in BOOLEAN : RefundSubscription(r, ok, credited)
    \/ RefundExtra(r, ok)
    \/ RefundToken(r, ok)

\* What the outside world decides: a request arrives, reserves more, is
\* answered, fails or panics.
Environment(r) ==
    \/ Begin(r)
    \/ Respond(r)
    \/ Fail(r)
    \/ Panic(r)
    \/ LatePanic(r)
    \/ \E ok \in BOOLEAN : Reserve(r, ok)

\* All requests that arrived, and their refunds, are over.
Finished ==
    \A r \in Requests : /\ sess[r].pc \in {"idle", "done"}
                        /\ sess[r].gor \in {"none", "end"}

Quiesce == Finished /\ UNCHANGED vars

Next ==
    \/ \E r \in Requests : Environment(r)
    \/ \E r \in Requests, ok \in BOOLEAN :
          PreConsumeStep(r, ok) \/ ReserveStep(r, ok)
          \/ SettleStep(r, ok) \/ RefundStep(r, ok)
    \/ Expire
    \/ Quiesce

Spec == Init /\ [][Next]_vars

\* Go schedules the request's goroutine between two database calls, and the
\* refund goroutine, unconditionally; nothing forces the upstream to answer.
FairSpec ==
    /\ Spec
    /\ \A r \in Requests :
         /\ WF_vars(\E ok \in BOOLEAN : PreConsumeStep(r, ok) \/ ReserveStep(r, ok)
                                         \/ SettleStep(r, ok))
         /\ WF_vars(\E ok \in BOOLEAN : RefundStep(r, ok))

-----------------------------------------------------------------------------
(* Properties.                                                             *)

\* Types of the shared rows and of every session field.
TypeOK ==
    /\ wallet \in Int
    /\ remain \in Int
    /\ used \in Nat
    /\ subActive \in BOOLEAN
    /\ sess \in [Requests -> Session]
    /\ faults \in [Requests -> Nat]
    /\ paid \in [Requests -> Paid]

\* What a session that stands at n quota has taken from the token: the
\* playground has none.
TokenDue(s, n) == IF Playground(s) THEN 0 ELSE n

\* r holds exactly n quota: all of it from the session's one funding source,
\* and the same from the token.
Holds(r, n) ==
    /\ paid[r].wallet = IF sess[r].src = "wallet" THEN n ELSE 0
    /\ paid[r].sub = IF sess[r].src = "subscription" THEN n ELSE 0
    /\ paid[r].token = TokenDue(sess[r], n)

\* Settle: whatever was estimated, reserved, rolled back or tried on the other
\* source first, a settled request that met no database error has paid exactly
\* the actual quota, from one funding source and from the token alike.
SettledExactly ==
    \A r \in Requests :
        sess[r].settled /\ faults[r] = 0 => Holds(r, sess[r].goal)

\* Refund: when the refund goroutine of a request ends without database
\* errors, the wallet or subscription and the token have everything back,
\* including what Reserve added after the pre-consume.
RefundedWhole ==
    \A r \in Requests :
        sess[r].gor = "end" /\ faults[r] = 0 => Holds(r, 0)

\* NewBillingSession: a rejected request, also one rejected by its second
\* funding source, leaves no charge behind.
RejectedFree ==
    \A r \in Requests :
        sess[r].out = "rejected" /\ faults[r] = 0 => Holds(r, 0)

\* A successful request whose settlement was refused without a database error
\* is a subscription whose quota would not cover the actual cost: it keeps
\* exactly its hold, on the subscription and on the token alike, so the two
\* never drift apart.
UnsettledKeepsHold ==
    \A r \in Requests :
        sess[r].out = "ok" /\ sess[r].pc = "done" /\ ~sess[r].settled /\ faults[r] = 0
        => /\ sess[r].src = "subscription"
           /\ sess[r].goal > sess[r].pre
           /\ Holds(r, sess[r].pre)

\* Whatever fails, no request ever gets back more than it put in from the
\* wallet or from the token (the increments are not idempotent, hence are
\* never retried).
NeverOverRefunded ==
    \A r \in Requests : paid[r].wallet >= 0 /\ paid[r].token >= 0

\* No interleaving of pre-consumes, reserves, settlements, fees and refunds
\* takes a limited subscription past its total.
SubWithinTotal == SubTotal > 0 => used <= SubTotal

\* Every failed request, and every one whose refund is under way, is eventually
\* made whole, unless the database failed it: the asynchronous refund is never
\* skipped or left half done.
FailedMadeWhole ==
    \A r \in Requests :
        sess[r].out = "failed" \/ sess[r].refunded ~> (Holds(r, 0) \/ faults[r] > 0)

=============================================================================
