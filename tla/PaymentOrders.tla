---------------------------- MODULE PaymentOrders ----------------------------
(***************************************************************************)
(* Top-up and subscription orders of one user (model/topup.go, the orders  *)
(* of model/subscription.go, and the webhook handlers of controller/       *)
(* topup*.go and subscription_payment_epay.go): a payment provider reports *)
(* an order paid, failed or expired, possibly several times and on several *)
(* instances, while the user's browser returns from the payment page and   *)
(* an administrator may complete a top-up by hand.  Completing a top-up    *)
(* credits the wallet, completing a subscription order creates a           *)
(* subscription, and both may earn the user's referral reward.             *)
(*                                                                         *)
(* Handlers serialise on LockOrder, a mutex per trade number inside one    *)
(* process.  The transactions also ask for a row lock, with the query      *)
(* option of gorm v1 that gorm v2 ignores: it depends on the deployment    *)
(* whether anything serialises the handlers of one order.                  *)
(*                                                                         *)
(* Operators whose name ends in Bug are plausible mistakes in the code     *)
(* they precede; they show that the properties would notice.               *)
(***************************************************************************)
EXTENDS Naturals

CONSTANTS
    Orders,         \* the user's orders
    Gateways,       \* payment providers the orders may use
    Instances,      \* processes the application may run as
    Deployments,    \* the deployments considered
    Calls,          \* webhook deliveries and admin requests under way
    Amount,         \* top_ups.amount of every order
    Money,          \* top_ups.money of every order, a fraction: an amount times
                    \* a group ratio, in units of 1 / MoneyScale
    MoneyScale,
    QuotaPerUnit,   \* common.QuotaPerUnit
    PurchaseLimit,  \* max_purchase_per_user of the plan (0: no limit)
    MaxFaults       \* database errors and crashes

\* One process; several on a database that serialises the transactions on one
\* row; several on a database that takes no row lock.
AllDeployments == {"one_process", "serial_database", "replicas"}

\* Subscription orders, by provider: all of one plan.
SubGateways == {"epay_sub", "stripe_sub", "creem_sub"}

AllGateways ==
    {"epay", "stripe", "creem", "waffo", "waffo_pancake", "airwallex"} \cup SubGateways

ASSUME PaymentAssumption ==
    /\ Orders # {} /\ Instances # {}
    /\ Gateways \subseteq AllGateways
    /\ Amount \in Nat \ {0}
    /\ Money \in Nat \ {0}
    /\ MoneyScale \in Nat \ {0}
    /\ QuotaPerUnit \in Nat \ {0}
    /\ PurchaseLimit \in Nat
    /\ Deployments \subseteq AllDeployments
    /\ MaxFaults \in Nat

VARIABLES
    deployment,     \* how the application is deployed
    gateway,        \* kind and payment_provider of each order
    status,         \* its status in top_ups or subscription_orders
    credited,       \* quota credited to the wallet for each order
    times,          \* how often each order has been delivered: the wallet
                    \* credited, or a subscription created
    owned,          \* the user's subscriptions of the plan
    acked,          \* the provider has its answer and stops repeating "paid"
    lost,           \* a database error or a crash hit a handler of the order
    granted,        \* referral_records.reward_granted_at is set
    rewards,        \* referral rewards paid
    call,           \* per call: where its handler is
    faults

vars == <<deployment, gateway, status, credited, times, owned, acked, lost, granted,
          rewards, call, faults>>

Statuses == {"pending", "success", "failed", "expired"}

\* What a provider reports of an order ("failed" and "expired" are also the
\* status the handler writes), the browser's return from Epay's page, and the
\* administrator's completion.
Jobs(g) ==
    {"paid", "admin"}
        \cup (IF g \in {"stripe", "waffo", "airwallex", "stripe_sub"} THEN {"failed"} ELSE {})
        \cup (IF g \in {"stripe", "airwallex", "stripe_sub"} THEN {"expired"} ELSE {})
        \cup (IF g = "epay_sub" THEN {"return"} ELSE {})

AllJobs == {"paid", "return", "admin", "failed", "expired"}

Call == [pc : {"idle", "lock", "read", "write", "credit", "grant", "reward"},
         job : AllJobs,
         order : Orders, at : Instances, locked : BOOLEAN]

\* No handler running; the fields other than pc mean nothing.
Idle == [pc |-> "idle", job |-> "paid", order |-> CHOOSE o \in Orders : TRUE,
         at |-> CHOOSE i \in Instances : TRUE, locked |-> FALSE]

Init ==
    /\ deployment \in Deployments
    /\ gateway \in [Orders -> Gateways]
    /\ status = [o \in Orders |-> "pending"]
    /\ credited = [o \in Orders |-> 0]
    /\ times = [o \in Orders |-> 0]
    /\ owned \in IF \E o \in Orders : gateway[o] \in SubGateways
                 THEN 0..PurchaseLimit ELSE {0}
    /\ acked = [o \in Orders |-> FALSE]
    /\ lost = [o \in Orders |-> FALSE]
    /\ granted = FALSE
    /\ rewards = 0
    /\ call = [c \in Calls |-> Idle]
    /\ faults = 0

-----------------------------------------------------------------------------

\* The database serialises transactions on one row.
RowLocks == deployment = "serial_database"

\* The processes that receive calls.
Running == IF deployment = "one_process" THEN {CHOOSE i \in Instances : TRUE} ELSE Instances

Job(c) == call[c].job
Order(c) == call[c].order
Gateway(c) == gateway[call[c].order]

IsSub(c) == Gateway(c) \in SubGateways

\* The jobs that deliver the order.
Delivers(c) == Job(c) \in {"paid", "return", "admin"}

\* The one failure report that does not take LockOrder.
NeedsLock(g, job) == ~(g = "waffo" /\ job = "failed")

\* The handlers that read and save the order outside a transaction.
InTx(c) == /\ ~(Gateway(c) = "epay" /\ Job(c) = "paid")
           /\ ~(Gateway(c) = "stripe" /\ Job(c) = "failed")

\* A transaction that has read the order and not yet ended.
HasRow(c) == call[c].pc = "write" /\ InTx(c)

\* The order's row is not held by another transaction.
RowFree(c) == RowLocks => \A d \in Calls \ {c} : ~(HasRow(d) /\ Order(d) = Order(c))

\* What a Stripe order is worth, in units of 1 / MoneyScale.
StripeWorth == Money * QuotaPerUnit

\* decimal.IntPart of that many units.
IntPart(x) == x \div MoneyScale

\* The quotas a provider's report may credit.  Recharge adds a float to the
\* integer column: the database rounds it down or up.  (One that refuses the
\* fraction fails the transaction like any other error.)
WebhookQuotas(g) ==
    CASE g = "stripe" -> {IntPart(StripeWorth), IntPart(StripeWorth + MoneyScale - 1)}
      [] g = "creem" -> {Amount}
      [] g \in SubGateways -> {0}
      [] OTHER -> {Amount * QuotaPerUnit}

\* Without the case of Stripe.
ManualQuotaBug(g) == Amount * QuotaPerUnit

\* The quota ManualCompleteTopUp credits: a decimal product, cut off.
ManualQuota(g) ==
    IF g = "stripe" THEN IntPart(StripeWorth) ELSE Amount * QuotaPerUnit

Quotas(c) == IF Job(c) = "admin" THEN {ManualQuota(Gateway(c))} ELSE WebhookQuotas(Gateway(c))

Goto(c, pc) == call' = [call EXCEPT ![c].pc = pc]

\* The handler returns; UnlockOrder is deferred.
Return(c) == call' = [call EXCEPT ![c] = Idle]

\* The provider is told that all is well, whatever happened.
AnswerBug(c, ok) == acked' = [acked EXCEPT ![Order(c)] = @ \/ Job(c) = "paid"]

\* Its answer to a "paid" report: the providers in the set repeat the report
\* when an error is answered, Stripe is always told 200.
Answer(c, ok) ==
    acked' = [acked EXCEPT ![Order(c)] =
                @ \/ (Job(c) = "paid" /\ (ok \/ Gateway(c) \in {"stripe", "stripe_sub"}))]

\* The user has as many subscriptions of the plan as are allowed.
Full == PurchaseLimit > 0 /\ owned >= PurchaseLimit

\* A pending subscription order is left alone: it has no top_ups row for the
\* administrator's request or Stripe's failure report to find, and
\* CreateUserSubscriptionFromPlanTx refuses one more subscription.  So is a
\* top-up that ManualCompleteTopUp finds worth nothing.
LeftPending(c) ==
    \/ IsSub(c) /\ (Job(c) \in {"admin", "failed"} \/ (Delivers(c) /\ Full))
    \/ Job(c) = "admin" /\ ManualQuota(Gateway(c)) = 0

\* A database call succeeds, or fails while faults are left.
Database(c, ok) ==
    /\ ok \/ faults < MaxFaults
    /\ faults' = IF ok THEN faults ELSE faults + 1
    /\ lost' = [lost EXCEPT ![Order(c)] = @ \/ ~ok]

\* A report or an admin request arrives.  Epay is answered at once.
Receive(c, o, i, job) ==
    /\ call[c].pc = "idle"
    /\ i \in Running
    /\ job \in Jobs(gateway[o])
    /\ call' = [call EXCEPT ![c] = [pc |-> IF NeedsLock(gateway[o], job) THEN "lock" ELSE "read",
                                    job |-> job, order |-> o, at |-> i, locked |-> FALSE]]
    /\ acked' = [acked EXCEPT ![o] = @ \/ (gateway[o] = "epay" /\ job = "paid")]
    /\ UNCHANGED <<deployment, gateway, owned, status, credited, times, lost, granted, rewards, faults>>

\* Without the mutex.
LockOrderBug(c) ==
    /\ call[c].pc = "lock"
    /\ call' = [call EXCEPT ![c].pc = "read", ![c].locked = TRUE]
    /\ UNCHANGED <<deployment, gateway, owned, status, credited, times, acked, lost, granted, rewards, faults>>

\* LockOrder (see OrderLock for its implementation).
LockOrder(c) ==
    /\ call[c].pc = "lock"
    /\ \A d \in Calls : call[d].locked => call[d].at # call[c].at \/ Order(d) # Order(c)
    /\ call' = [call EXCEPT ![c].pc = "read", ![c].locked = TRUE]
    /\ UNCHANGED <<deployment, gateway, owned, status, credited, times, acked, lost, granted, rewards, faults>>

\* Read the order: only a pending one is worked on.  For one that is done,
\* Stripe, Creem and Airwallex answer as if it had worked, Waffo only if it is
\* a success; the administrator's request and a subscription order that is a
\* success already go on to the referral.  Creem and Airwallex look
\* twice, before and in the transaction; the model looks once.
Read(c) ==
    /\ call[c].pc = "read"
    /\ RowFree(c)
    /\ IF status[Order(c)] = "pending"
       THEN IF LeftPending(c)
            THEN Return(c) /\ Answer(c, FALSE)
            ELSE Goto(c, "write") /\ UNCHANGED acked
       ELSE /\ IF \/ status[Order(c)] # "success"
                  \/ Job(c) \in {"failed", "expired"}
                  \/ Job(c) = "paid" /\ Gateway(c) \in {"epay", "stripe", "creem", "airwallex"}
               THEN Return(c) ELSE Goto(c, "grant")
            /\ Answer(c, status[Order(c)] = "success" \/ Gateway(c) \in {"creem", "airwallex"})
    /\ UNCHANGED <<deployment, gateway, owned, status, credited, times, lost, granted, rewards, faults>>

\* The transaction of Recharge, RechargeCreem, RechargeWaffo, ...,
\* ManualCompleteTopUp and CompleteSubscriptionOrder commits: the status and
\* the wallet, or the new subscription, change together, or neither does.
Complete(c, ok) ==
    /\ call[c].pc = "write" /\ Delivers(c) /\ InTx(c)
    /\ Database(c, ok)
    /\ IF ok
       THEN /\ status' = [status EXCEPT ![Order(c)] = "success"]
            /\ \E q \in Quotas(c) : credited' = [credited EXCEPT ![Order(c)] = @ + q]
            /\ times' = [times EXCEPT ![Order(c)] = @ + 1]
            /\ owned' = IF IsSub(c) THEN owned + 1 ELSE owned
            /\ Goto(c, "grant")
       ELSE Return(c) /\ UNCHANGED <<status, credited, times, owned>>
    /\ Answer(c, ok)
    /\ UNCHANGED <<deployment, gateway, granted, rewards>>

\* UpdatePendingTopUpStatus, ExpireSubscriptionOrder, and Stripe's own version of it.
MarkDead(c, ok) ==
    /\ call[c].pc = "write" /\ Job(c) \in {"failed", "expired"}
    /\ RowFree(c)
    /\ Database(c, ok)
    /\ status' = [status EXCEPT ![Order(c)] = IF ok THEN Job(c) ELSE @]
    /\ Return(c)
    /\ UNCHANGED <<deployment, gateway, owned, credited, times, acked, granted, rewards>>

\* EpayNotify saves the order ...
SaveEpay(c, ok) ==
    /\ call[c].pc = "write" /\ Job(c) = "paid" /\ ~InTx(c)
    /\ RowFree(c)
    /\ Database(c, ok)
    /\ status' = [status EXCEPT ![Order(c)] = IF ok THEN "success" ELSE @]
    /\ IF ok THEN Goto(c, "credit") ELSE Return(c)
    /\ UNCHANGED <<deployment, gateway, owned, credited, times, acked, granted, rewards>>

\* ... and then credits the wallet, in a statement of its own.
CreditEpay(c, ok) ==
    /\ call[c].pc = "credit"
    /\ Database(c, ok)
    /\ IF ok
       THEN /\ \E q \in Quotas(c) : credited' = [credited EXCEPT ![Order(c)] = @ + q]
            /\ times' = [times EXCEPT ![Order(c)] = @ + 1]
            /\ Goto(c, "grant")
       ELSE Return(c) /\ UNCHANGED <<credited, times>>
    /\ UNCHANGED <<deployment, gateway, owned, status, acked, granted, rewards>>

\* GrantForConversion reads the user's referral record ...
ReadReferral(c) ==
    /\ call[c].pc = "grant"
    /\ RowLocks => \A d \in Calls : call[d].pc # "reward"
    /\ IF granted THEN Return(c) ELSE Goto(c, "reward")
    /\ UNCHANGED <<deployment, gateway, owned, status, credited, times, acked, lost, granted, rewards, faults>>

\* The reward is paid and the record is not marked.
RewardBug(c, ok) ==
    /\ call[c].pc = "reward"
    /\ ok
    /\ rewards' = rewards + 1
    /\ Return(c)
    /\ UNCHANGED <<deployment, gateway, owned, status, credited, times, acked, lost, granted, faults>>

\* ... pays inviter and invitee and marks the record, all or nothing.
Reward(c, ok) ==
    /\ call[c].pc = "reward"
    /\ Database(c, ok)
    /\ granted' = (granted \/ ok)
    /\ rewards' = IF ok THEN rewards + 1 ELSE rewards
    /\ Return(c)
    /\ UNCHANGED <<deployment, gateway, owned, status, credited, times, acked>>

\* An instance dies with its handlers, their transactions and their mutexes.
Crash(i) ==
    LET hit == {c \in Calls : call[c].at = i /\ call[c].pc # "idle"} IN
    /\ faults < MaxFaults
    /\ hit # {}
    /\ faults' = faults + 1
    /\ lost' = [o \in Orders |-> lost[o] \/ \E c \in hit : Order(c) = o]
    /\ call' = [c \in Calls |-> IF c \in hit THEN Idle ELSE call[c]]
    /\ UNCHANGED <<deployment, gateway, owned, status, credited, times, acked, granted, rewards>>

Step(c) ==
    \/ LockOrder(c) \/ Read(c) \/ ReadReferral(c)
    \/ \E ok \in BOOLEAN : \/ Complete(c, ok) \/ MarkDead(c, ok)
                           \/ SaveEpay(c, ok) \/ CreditEpay(c, ok) \/ Reward(c, ok)

Next ==
    \/ \E c \in Calls, o \in Orders, i \in Instances, job \in AllJobs :
          Receive(c, o, i, job)
    \/ \E c \in Calls : Step(c)
    \/ \E i \in Instances : Crash(i)

Spec == Init /\ [][Next]_vars

\* Handlers run to their end, and a provider repeats its report of a payment
\* until it has an answer.
FairSpec ==
    /\ Spec
    /\ \A c \in Calls : WF_vars(Step(c))
    /\ \A o \in Orders :
         SF_vars(~acked[o] /\ \E c \in Calls, i \in Instances : Receive(c, o, i, "paid"))

-----------------------------------------------------------------------------
(* Properties.                                                             *)

\* Types of the orders, the referral record and the handlers.
TypeOK ==
    /\ deployment \in Deployments
    /\ gateway \in [Orders -> Gateways]
    /\ status \in [Orders -> Statuses]
    /\ credited \in [Orders -> Nat]
    /\ times \in [Orders -> Nat]
    /\ owned \in Nat
    /\ acked \in [Orders -> BOOLEAN]
    /\ lost \in [Orders -> BOOLEAN]
    /\ granted \in BOOLEAN
    /\ rewards \in Nat
    /\ call \in [Calls -> Call]
    /\ faults \in Nat

\* Something serialises all handlers of the order: LockOrder in one process, or
\* the database, if all of them read and write in one transaction.
Serialised(o) ==
    \/ deployment = "one_process"
    \/ deployment = "serial_database" /\ gateway[o] \notin {"epay", "stripe"}

\* However often a payment is reported, by whichever handlers, and whether or
\* not the browser or an administrator completes the order as well, the wallet
\* is credited once, or one subscription is created.
CreditedOnce == \A o \in Orders : times[o] <= 1

\* The same where the handlers are serialised.
SerialisedCreditedOnce == \A o \in Orders : Serialised(o) => times[o] <= 1

\* The order and the wallet agree: a credited order is a success, and a success
\* has been credited, unless an Epay handler is between its two statements or
\* was cut off there.  Waffo's failure report, which takes no order lock, is
\* left out unless the database serialises it.
SuccessIffCredited ==
    \A o \in Orders : Serialised(o) =>
        /\ times[o] > 0 /\ (gateway[o] = "waffo" => RowLocks) => status[o] = "success"
        /\ status[o] = "success" /\ times[o] = 0 =>
              gateway[o] = "epay"
              /\ (lost[o] \/ \E c \in Calls : Order(c) = o /\ call[c].pc = "credit")

\* A handler past LockOrder holds the mutex of its order in its process, alone.
MutexHeld ==
    \A c \in Calls :
        /\ call[c].pc # "idle" => call[c].at \in Running
        /\ call[c].pc \notin {"idle", "lock"} /\ NeedsLock(Gateway(c), Job(c)) => call[c].locked
        /\ \A d \in Calls \ {c} : call[c].locked /\ call[d].locked =>
              call[c].at # call[d].at \/ Order(c) # Order(d)

\* A database with row locks lets one transaction have an order's row.
RowHeld ==
    RowLocks => \A c \in Calls : \A d \in Calls \ {c} :
                    HasRow(c) /\ HasRow(d) => Order(c) # Order(d)

\* The jobs that get as far as writing.
WritersOnly ==
    \A c \in Calls :
        /\ call[c].pc # "idle" => Job(c) \in Jobs(Gateway(c))
        /\ call[c].pc = "write" => ~(IsSub(c) /\ Job(c) = "admin")
        /\ call[c].pc = "credit" => Gateway(c) = "epay" /\ Job(c) = "paid"

\* What a handler has read is still so when it writes, if all are serialised;
\* Waffo's failure report can only spoil the status.
ReadStillTrue ==
    \A c \in Calls : Serialised(Order(c)) =>
        /\ call[c].pc = "write" /\ Delivers(c) => times[Order(c)] = 0
        /\ call[c].pc = "write" /\ (Gateway(c) = "waffo" => RowLocks) =>
              status[Order(c)] = "pending"
        /\ call[c].pc = "credit" => times[Order(c)] = 0 /\ status[Order(c)] = "success"

\* A pending order has not been delivered, and one that has not is worth nothing.
NothingYet ==
    \A o \in Orders :
        /\ Serialised(o) /\ status[o] = "pending" => times[o] = 0
        /\ times[o] = 0 => credited[o] = 0

\* The record is marked when its reward is paid, and one transaction at a time
\* has read it, if the database serialises them.
GrantedWhenPaid ==
    RowLocks =>
        /\ rewards = IF granted THEN 1 ELSE 0
        /\ \A c \in Calls : call[c].pc = "reward" =>
              ~granted /\ \A d \in Calls \ {c} : call[d].pc # "reward"

\* Order and wallet agree: delivered at most once, and a success exactly when
\* delivered; with what makes this inductive.
OrdersInv ==
    /\ TypeOK
    /\ MutexHeld
    /\ RowHeld
    /\ WritersOnly
    /\ ReadStillTrue
    /\ NothingYet
    /\ SerialisedCreditedOnce
    /\ SuccessIffCredited

\* What holds of the orders and of the referral record.
PaymentInv == OrdersInv /\ GrantedWhenPaid

\* "rewards must still be granted at most once by the referral service": one
\* user's orders, completed at the same time, earn one reward, if the database
\* serialises the transactions of GrantForConversion.
RewardedOnce == RowLocks => rewards <= 1

\* What the user bought, in units of 1 / MoneyScale of quota.
Worth(g) ==
    CASE g = "stripe" -> StripeWorth
      [] g \in SubGateways -> 0
      [] OTHER -> Amount * QuotaPerUnit * MoneyScale

\* The administrator's completion stands in for the provider's report: whoever
\* completes an order, the wallet gets what was bought to within one unit of
\* quota, the rounding that Recharge's float and ManualCompleteTopUp's cut-off
\* decimal do differently.  Creem is left out: its webhook credits Amount as it
\* is, ManualCompleteTopUp multiplies it.
SameCredit ==
    \A o \in Orders :
        times[o] = 1 /\ gateway[o] # "creem" =>
            /\ credited[o] * MoneyScale < Worth(gateway[o]) + MoneyScale
            /\ Worth(gateway[o]) < credited[o] * MoneyScale + MoneyScale

\* The providers that hear of errors.
Repeating == {"creem", "waffo", "waffo_pancake", "airwallex", "epay_sub", "creem_sub"}

\* A provider that hears of errors gets its payment through: after any errors
\* and crashes the order is delivered, unless it was reported dead or the plan
\* may not be bought again.
PaidIsCredited ==
    \A o \in Orders :
        (gateway[o] \in Repeating /\ ~acked[o])
            ~> (times[o] > 0 \/ status[o] \in {"failed", "expired"} \/ Full)
=============================================================================
