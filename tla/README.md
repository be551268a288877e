# Verification of deeprouter

deeprouter is a Go gateway in front of many LLM providers, with two web consoles and a desktop shell. Users top up a wallet or buy a subscription, create API tokens, and send requests that are priced, charged and relayed; long-running generations are charged in advance and polled. What has to be right, and is hard to test, is the money: who is charged how much when requests run at the same time, when they fail half-way, when payment providers deliver a report twice, and when background jobs touch the same rows. On the client side it is the code that reacts to answers which arrive late, twice or not at all. This project models these parts in TLA+, checks them with TLC on small instances and proves the main safety properties of all of them with TLAPS for every instance.

## 1. Inventory

### Parts of the system

| Part | State | Operations | Module |
|---|---|---|---|
| Billing session (`service/billing_session.go`, `billing.go`, `violation_fee.go`) | one `BillingSession` per request | `NewBillingSession`, `preConsume`, `Reserve`, `Settle`, `Refund`, violation fee | `BillingSession` |
| Funding sources (`service/funding_source.go`) | amount consumed per request | `PreConsume`, `Settle`, `Refund`, `refundWithRetry` | `BillingSession` |
| Quota rows (`model/user.go`, `model/token.go`) | `users.quota`, `tokens.remain_quota` | unconditional increments and decrements, cached in Redis, optionally batched | `BillingSession` (direct updates) |
| Subscriptions (`model/subscription.go`, `service/subscription_reset_task.go`) | `user_subscriptions`, pre-consume records | pre-consume, delta, periodic reset, expiry, cancel, delete | `SubscriptionLedger` |
| Groups lent by subscriptions (`model/subscription.go`) | `users.group`, `upgrade_group`, `prev_user_group` | purchase, expiry, cancel, delete | `SubscriptionGroup` |
| Top-up and subscription orders (`model/topup.go`, `model/subscription.go`, `controller/topup*.go`, `controller/subscription_payment_*.go`) | `top_ups`, `subscription_orders`, wallet | reports of six providers, the browser's return, completion by an administrator | `PaymentOrders` |
| Order locks (`controller/topup.go`) | map of reference-counted mutexes | `LockOrder`, `UnlockOrder` | `OrderLock` |
| Referral (`internal/referral/service`) | one record per invited user | reward on the first paid order | `PaymentOrders` (the grant) |
| Asynchronous tasks (`service/task_billing.go`, `task_polling.go`, `model/task.go`, `relay/relay_task.go`) | `tasks` rows, charge of each task | submit, sweep of overdue tasks, poll, a user's fetch, refund, recalculation | `TaskBilling` |
| Playground (`web/default/src/features/playground`) | message list, its copy in localStorage, the open stream | send, edit, regenerate, delete, stop, reload; chunks, `[DONE]`, errors | `Playground` |
| Desktop shell (`electron/main.js`) | child process, probes, windows, dialogs | start, probe, crash, quit | `DesktopShell` |
| Channels page (`web/classic/src/hooks/channels/useChannelsData.jsx`) | list on display, calls under way, batch test | load, search, change, delete, refresh, test, batch test, stop | `ChannelsPage` |
| Channels (`model/channel*.go`, `service/channel_select.go`, `controller/relay.go`) | channel cache, status, key index | selection, retry, auto-disable | planned |
| Limits (`common/limiter`, `middleware/*rate-limit*`, `internal/quota`) | counters in Redis or memory | admit, count, record | planned |
| Billing webhook (`internal/billing`, `service/airbotix_billing.go`), automatic top-up (`service/auto_topup.go`) | queue of reports, charge in flight | enqueue, retry; charge | planned |
| Midjourney tasks, skill marketplace, policy, provider adaptors, log-in, settings, the other web pages | | | not planned (section 8) |

### How they interact

A request is authorised by its token (`middleware/auth.go`), priced, and handed to `NewBillingSession`, which charges the estimate to the token and to a funding source. The relay loop sends it upstream, possibly to several channels. A success calls `SettleBilling` with the actual quota. A failure runs the deferred function of `Relay`: `Refund` starts a goroutine and a violation fee may be charged beside it. A panic in the first attempt is recovered above the handler and runs neither; in a retry the error of the attempt before is still set, so `Refund` does run, on a session that may already have been settled. Sessions of one user share the wallet row, the token row and the subscription rows. The subscription rows are also changed by the maintenance task of the master node and by administrators. Payment webhooks and administrators complete orders, which credit the wallet or create a subscription and may earn a referral reward. A task is settled with its submission and then belongs to the polling loop of the master nodes, which refunds or recalculates it once; a user's fetch of some providers' tasks writes the same row. The consoles and the shell talk to all this over HTTP only.

### What is hard

* A comparison and the debit it allows are separate statements (`billing_session.go:361`, `quota.go:398`).
* A charge touches two or three rows that no transaction joins; each statement may fail, roll-backs included.
* Refunds are asynchronous, retried for subscriptions only, and race with fees and later requests.
* Row locks are asked for with `tx.Set("gorm:query_option", "FOR UPDATE")`, the option of gorm v1. go.mod uses gorm v2 (`gorm.io/gorm`), which ignores it: on MySQL and PostgreSQL nothing is locked. `Save` then writes every column of a possibly stale row.
* Providers deliver reports repeatedly, to any instance; `LockOrder` covers one process.
* Groups and resets depend on sequences of purchases, expiries and cancellations that no test enumerates.
* Several masters, their sweeps and a user's fetch complete one task; a compare-and-set of the status decides, where it is used.
* The playground applies every event to the last message and reads its guards from the last render.
* The channels page numbers some of its requests, shares answers between equal ones, puts captured lists back after a change, refreshes the page on which a change was started, and stops a batch test through a reference that the next one resets.
* A Stripe order's worth is a float that one path adds as it is and another cuts off as a decimal.
* The shell's probe retries twice after a timeout, and its quit is prevented, delayed and forced.

`PROJECT.json` lists each hazard at its line with the properties that would catch it.

## 2. Plan

Order: the money path of a request, then the rows it shares, then how money enters, then tasks and clients.

1. `BillingSession`, its contract, its inductive invariant, its proofs and the proof that it implements the contract - done.
2. `SubscriptionLedger`, `SubscriptionGroup` with proofs, the sums over the requests included - done.
3. `PaymentOrders` with subscription orders and `OrderLock`, with proofs - done.
4. `TaskBilling` with proofs - done.
5. `Playground`, `DesktopShell`, `ChannelsPage` - done, with proofs.
6. `QuotaStore`: Redis cache and batch updater between the sessions and the rows; what a crash loses; the connection pool and the nested transaction of `RefundSubscriptionPreConsume`.
7. `ChannelRetry`: retry index, priority tiers, auto groups, multi-key polling, disabling; every retry uses an allowed channel and the loop ends.
8. `RateLimit`, `TenantQuota`, `WebhookDispatcher`, automatic top-up; then redemption codes and affiliate transfers.

## 3. Modules

Operators whose name ends in `Bug` are plausible mistakes; each shows that a property would notice.

### BillingSession

State: `wallet`, `remain`, `used`, `subActive` are the shared rows; `sess[r]` is the session of request `r` with the position `pc` of its goroutine and `gor` of its refund goroutine; `faults[r]` counts database errors; `paid[r]` is a history variable with what `r` has taken from each row.

| Action | Code |
|---|---|
| `Begin` | `ValidateUserToken`, `middleware/auth.go` 417-419 |
| `SelectFunding`, `TryWallet` | the switch and `tryWallet` of `NewBillingSession`, `shouldTrust` |
| `CheckToken`, `DebitToken` | `PreConsumeTokenQuota` |
| `PreConsumeFunding`, `UndoToken` | `preConsume` with the two `PreConsume` methods |
| `Reserve`, `ReserveCheckToken`, `ReserveDebitToken`, `UndoReserve` | `Reserve`, `reserveFunding`, `reserveToken`, `rollbackFundingReserve` |
| `Respond`, `SettleFunding`, `SettleToken` | `SettleBilling`, `Settle` |
| `Fail`, `Panic`, `LatePanic`, `ChargeFee`, `ChargeFeeToken` | deferred function of `Relay`, `RelayPanicRecover`, `ChargeViolationFeeIfNeeded`, `PostConsumeQuota` |
| `RefundWallet`, `RefundSubscription`, `RefundExtra`, `RefundToken` | the goroutine of `Refund` |
| `Expire` | the subscription ends (`ExpireDueSubscriptions`, an administrator) |

`Panic` is one in the first attempt: nobody refunds. A panic in a retry before the settlement ends like `Fail`, since the deferred function of `Relay` sees the error of the attempt before; one after the settlement is `LatePanic`, which calls `Refund` on a session that has been settled or whose settlement was refused, so that the guards of `Refund` and `needsRefundLocked` are exercised.

Each SQL statement or transaction is a step of its own. Abstractions: quotas are integers without width (Go's `int` is 64 bits and quotas are far below); free-model requests skip billing; updates reach the database at once (`BatchUpdateEnabled = false`) and quotas are read from it; a request id is used once; one subscription, whose transactions are atomic here (`SubscriptionLedger` takes them apart). `Reserve` has no caller in the repository yet; it is modelled as any target at any moment before the response.

`BillingSessionInv` holds the inductive invariant and the refinement mapping; `BillingContract` is the abstract promise: a request is open, then charged once with the same price on source and token, or void with nothing held, and is not touched again. Requests that meet a database error, a panic or a refused settlement leave the contract (`exception`).

### SubscriptionLedger

State: the rows, the requests that charge them, the open transactions `tx` with the rows they read, the reset task's list `job`, and the clock. A transaction reads in its `Begin` step and saves whole rows in its `Commit` step. `RowLocks` says whether the database serialises them: `TRUE` for SQLite's single writer, `FALSE` for MySQL and PostgreSQL at their default isolation levels, where the ignored option locks nothing. A plan has a custom reset period in units of the clock; calendar periods differ only in `calcNextResetTime`. Clocks are read before transactions begin, so a transaction may work with an older time `t`.

### SubscriptionGroup

State: the clock, `group`, and the subscriptions in order of id. `Purchase`, `Invalidate`, `Delete` and `ExpireDue` are whole transactions: what they do to the group is the question, and the ledger covers their interleaving. Administrators do not edit the group by hand.

### PaymentOrders

State: how the application is deployed, kind and provider, status and credits of each order, the subscriptions the user owns, whether the provider still repeats its report (`acked`), the referral record, and the position of every handler. The deployment is one process without row locks (`one_process`), several on a database that serialises transactions on one row (`serial_database`), or several without row locks (`replicas`).

A handler receives, takes `LockOrder` (per instance), reads the order, writes status and wallet or subscription in one transaction (Epay top-ups: in two statements), and may grant the referral reward. `Waffo`'s failure report takes no order lock. Subscription orders of Epay, Stripe and Creem are completed by `CompleteSubscriptionOrder`, Epay's by the browser's return as well, and refused when the plan's purchase limit is reached (`Full`); an administrator's request does not find them. Signatures, provider mismatches and unknown orders end a handler without effect and are left out, and so are the creation of orders and the expiry of one whose purchase at Epay failed. Creem and Airwallex look at the order before and again inside the transaction; the model looks once. Referral: the user has a valid inviter below the cap; `GrantForConversion` is also called by the purchase of a skill (`internal/skill/handler/purchase.go:192`), which is not modelled.

Conversions: `Money` is counted in units of `1 / MoneyScale`, so that it has fractions. `Recharge` (Stripe) adds the float `Money * QuotaPerUnit` to an integer column, which the database rounds either way (`WebhookQuotas` has both values; a database that refuses the fraction fails the transaction, which is `ok = FALSE`); `ManualCompleteTopUp` cuts a decimal off (`IntPart`) and refuses an order worth nothing (`LeftPending`).

With several instances and no row lock a subscription order may be delivered twice as well; on MySQL the unique `trade_no` of the mirrored `top_ups` row stops the second transaction, which the model does not take into account (the deployment `replicas` is used for top-up orders only).

### OrderLock

`LockOrder` and `UnlockOrder` statement by statement: `createLock`, the map `orderLocks`, reference counts, and mutexes whose memory may be allocated again once nobody refers to it. `PaymentOrders` uses what is shown here as one step.

### TaskBilling

State: the row of each task, what the provider has made of it, whether it is overdue and its channel still exists, the copies and lists of each master's polling loop and of each fetch, and history variables: what wallet or subscription and token have paid for the task, whether an error or a crash cut its billing short (`lost`), and what a failed settlement of the submission left owing (`unpaid`, `tokenUnpaid`).

| Action | Code |
|---|---|
| `Submit` | end of `RelayTask`: `SettleBilling` of a charge made by an earlier attempt, possibly at another price (`relay_task.go` 181-203), whose refusal is only logged; `task.Insert` |
| `SweepList`, `SweepTask` | `sweepTimedOutTasks` |
| `PollList`, `PollFetch`, `PollUpdate`, `PollEnd` | `TaskPollingLoop`, `updateVideoTasks`, `updateVideoSingleTask` |
| `SunoUpdate`, `SunoSave` | `updateSunoTasks`; an item may carry a fail reason whatever its status |
| `PollPanic` | an item with an unknown id: `taskNeedsUpdate` dereferences nil and the loop of this process is over |
| `BulkFail` | the channel cannot be loaded: `TaskBulkUpdateByID` |
| `AdjustFunding`, `AdjustToken` | `RefundTaskQuota`, `RecalculateTaskQuota` |
| `FetchRead`, `FetchAnswer`, `FetchUpdate` | `videoFetchByIDRespBodyBuilder`, `tryRealtimeFetch` |
| `Finish`, `Age`, `DeleteChannel`, `Crash` | the provider, the clock, an administrator, a dying master |

Tasks are of kind `video`, `suno` (its own update path) or `realtime` (Gemini and Vertex videos, which a user's fetch also updates). What the code does not provide for is in the model and excepted, visibly, in the properties: a failure that a real-time fetch stores is never refunded; the tasks of a deleted channel are failed without compare-and-set and without a refund, although `model/task.go` 430-434 warns against just that; Suno tasks are refunded before they are saved, so that two masters or a failed save repeat the refund; a crash between the compare-and-set and the refund loses the refund; a failed insert leaves a charge without a row; a refused settlement leaves less (or more) paid than the row's quota, which a refund gives back in full, so that the user of a failed task gains the difference; a Suno item with a fail reason and a status that is not final is refunded and stored at 100%, where no list finds it again (`Stranded`); when the loops of all masters have died of a panic nothing goes on (`AllEnded`). `RecalculateTaskQuota` does not store the new quota in the row; nothing reads it again.

### Playground

State: the message list React holds, the one last rendered, the one in localStorage, the connection of each message's request, the shared reference `sseSourceRef` (`source`) and the flag `isStreamCompleteRef` (`complete`), and the open editor. A text is the set of requests whose answers it contains, so that mixing is visible. A click is rendered at once (React flushes it synchronously); events of the network queue their updates, which are rendered later. `raced` records that an action passed the guards while an answer was expected: the suggestions, an editor that was open before, and every plain (non-streaming) request can, and answers may then mix. A server that closes a stream without `[DONE]` leaves the page waiting for Stop. The mode is fixed for a run, since the interface does not switch it. Leaving the page and coming back is a `Reload`; other tabs that share the storage are left out, and so are pasted files: `PromptInput` (`components/ai-elements/prompt-input.tsx` 729-741) waits for their conversion before it calls `onSubmit`, so that a message with files is sent under guards that were read earlier. After a parse error the code ends the answer and leaves the connection open; so does the model.

### DesktopShell

State: the phase of the application, the child process and the signal sent to it, the promise of `checkServerAvailability` with its attempts, timers and requests, windows, dialogs, and the forced exit. What the model shows besides the properties: the timeout of a probe destroys its request, whose error handler fires too, so a timed-out probe is retried twice; after a crash `serverProcess` still refers to the dead child and quitting waits five seconds for it; a child killed by a signal only hides the window; a server of somebody else on the port answers the probe; in development `app.quit` alone is cancelled by the window that hides itself. A crash or kill of the application itself, and the end of a Windows session, for which Electron emits no `before-quit`, run no handler and are not modelled; both orphan the server. The general definitions have the prefix `Shell`, since `Clients_proofs` extends this module together with `Playground`.

### ChannelsPage

State: the list on display, the query asked for last, `requestCounter`, the calls whose answers are awaited (equal requests share one answer, `helpers/api.js`), `loading`, the changes and deletions under way with the list they captured, and the batch test: its reference `shouldStopBatchTestingRef`, its flag, its loops and the tests under way. Every ask has a number (`asks`), and a list is known by its query and by the ask it answers, so that an older answer to the same query is told from a newer one.

| Action | Code |
|---|---|
| `Ask` (`loadChannels`, `searchChannels`) | a page, filter, sort order or search of the user's |
| `Response`, `Rejection` | the rest of both, for every call that shares the request |
| `manageChannel`, `ManageAnswered` | a change or deletion of one row: the captured list is put back, after a deletion `refresh()` follows |
| `changeChannels`, `ChangeAnswered` | a copy, tags, an edited channel: `refresh()` follows |
| `batchDeleteChannels`, `DeleteAnswered` | the same with `loading` switched on and off around it |
| `testChannel`, `TestAnswered` | tests of one model, with any settings, also several at a time; only equal ones share an answer; a success puts the captured list back (`updateChannelProperty`) |
| `batchTestModels`, `LoopHead`, `LoopTail`, `Report`, `handleCloseModal` | the batch test and its stop |

`raced` records that since the last ask something the code does not guard against has interfered: a search, whose answers are not numbered, beside another query; a captured list put over one that differs, be it an older answer to the same query; a `refresh()` for the page and filters of the render in which a change was started, when the user has gone elsewhere. The next ask of the user, or a refresh for the query the user asked for last, makes up for it. `overlapped` records that a batch test was started again before the stopped one had noticed, which revives it. `testChannel`'s own checks of the stop are dead for the tests of a batch (the flag they captured is the one before the batch). A rejected request leaves `loading` on (`failed`). Actions of the user are bounded by `MaxClicks`.

Left out: the second refresh, of the page before, 100 ms after a deletion has emptied a page; the test dialog of a second channel; and what an answer contains: an ask that shares a request under way may be answered with data from before a change.

## 4. Runs

| Run | Checks | Bounds and why they are enough | Distinct states |
|---|---|---|---|
| `billing_concurrent` | `SettledExactly`, `RefundedWhole`, `RejectedFree`, `UnsettledKeepsHold`, `SubUsedAccounted`, `ImplementsContract` | two requests (all races are between two), quotas 0, 2, 3 with wallet 4, token 5, total 4: both fit alone, not together; trust threshold 3 is passed and missed; requests are symmetric | 736 k |
| `billing_faults` | `NeverOverRefunded`, `FailedMadeWhole` | one request, all kinds and preferences, three errors: charge, roll-back and refund may all fail | 84 k |
| `subscription_ledger` | `LedgerInv`, `UsedAccounted`, `HoldsWithinTotal`, `EndedStaysEnded` | two subscriptions, two requests, resets inside the validity, `RowLocks` | 1.2 M |
| `subscription_group` | `GroupInv`, `GroupEventuallyReturned` | three purchases of two upgrading groups or none: overlap, nesting and renewal | 189 k |
| `payment` | `PaymentInv`, `SameCredit`, `RewardedOnce`, `PaidIsCredited` | one order of any of nine kinds, two instances, `one_process` and `serial_database`, three handlers (two that race and one that comes later), two errors or crashes, a limit of one purchase; a Stripe order worth 10.5, so that both roundings happen | 799 k |
| `order_lock` | `MutualExclusion`, `UnlocksItsOwn`, `EntryHasUser`, `EventuallyLocked` | three goroutines: a waiter, a leaver and a newcomer; two trade numbers | 17 k |
| `task_billing` | `TaskInv`, `VideoBilledExactly`, `EndedStays`, `FailedRefunded`, `TaskEnds` | one task of any kind (tasks do not share rows), one or two masters, one fetch, one fault; a charge of 1 or 3 in advance for a quota of 2, so that settlements go up, down and are refused; the provider's quota is less or more than the charge | 894 k |
| `playground` | `PlaygroundInv`, `AnswersStayApart`, `SettledWhenIdle`, `FinalStays` | five messages: two questions with their answers and one more request | 100 k |
| `desktop_shell` | `ShellInv`, `ServerDiesWithApp`, `StartSettles`, `QuitExits` | four retries, enough for the doubled ones to meet the bound | 16 k |
| `channels_page` | `PageInv`, `LatestShown`, `BatchLimit`, `ReportComplete`, `BatchEnds` | two pages and a search, two settings of a test, three models in batches of two, two batch tests, three actions of the user: start, stop and start again, or a change and a page turned before its answer | 601 k |

Properties in words:

* `SettledExactly`, `RefundedWhole`, `RejectedFree`: a request pays its actual quota from exactly one source and the same from its token, or nothing. `UnsettledKeepsHold`: a settlement refused by an exhausted subscription leaves source and token with the same hold.
* `SubUsedAccounted`, `UsedAccounted`: the used amount is the sum of what the requests hold; the clamp at zero swallows nothing and no update is lost. `UsedAccounted` is stated while no settlement or refund reaches over a reset: one that does is applied to the new period by design of the code.
* `NeverOverRefunded`: errors never mint wallet or token quota.
* `LedgerInv`, `HoldsWithinTotal`: a subscription is never used past its total. `EndedStaysEnded`: no transaction in flight revives a cancelled, deleted or expired subscription.
* `GroupInv`, `GroupEventuallyReturned`: groups follow the live subscriptions.
* `PaymentInv`, `SameCredit`, `PaidIsCredited`, `RewardedOnce`: payments are delivered once, agree with the order, are worth the same to within one unit of quota whoever completes them, are not lost when the provider repeats them, and earn one reward.
* `TaskInv`, `VideoBilledExactly`, `EndedStays`, `FailedRefunded`, `TaskEnds`: whoever ends a task, it is billed once and exactly, stays ended, is refunded if it failed, and does end, with the exceptions of section 3.
* `PlaygroundInv`, `AnswersStayApart`, `SettledWhenIdle`, `FinalStays`: one stream at a time, answers in their own messages, nothing left loading, a finished message stays.
* `ShellInv`, `ServerDiesWithApp`, `StartSettles`, `QuitExits`: a bounded number of probes, no server orphaned by an exit of the application's own, a start and a quit that come to an end.
* `PageInv`, `LatestShown`, `BatchLimit`, `ReportComplete`, `BatchEnds`: the page shows the answer to the last ask, its indicators are true, and a batch test keeps to its number of concurrent requests, ends, and reports on every model.

Invariants whose name ends in `Inv` are conjunctions of a type invariant and of named parts that are stated and explained one by one in the module.

### Runs that end in a violation

Each states what a comment of the code says; the finding in `PROJECT.json` quotes it.

| Run | What happens |
|---|---|
| `payment_two_processes` (`CreditedOnce`) | two instances complete one order, each behind its own `LockOrder`, on a database that takes no row lock |
| `task_fetch` (`NeverOverRefunded`) | the sweep fails and refunds a real-time task, a user's fetch moves it back to `IN_PROGRESS`, and the next sweep, or a poll that sees the failure, refunds it again |

### What else the models show

Further disagreements between the code and its comments or texts can be seen with small changes to the configurations:

* With `RowLocks = FALSE` in `SubscriptionLedgerMC.cfg` two pre-consumes together hold more than a subscription's total (`HoldsWithinTotal`), and a settlement that read its row before an administrator's cancellation saves the old status and end time (`EndedStaysEnded`).
* In `BillingSession` the inner transaction of a subscription refund may commit, marking the record fail, and the retry refund again: `paid[r].sub` falls below zero after one database error.
* A renewal bought in the upgraded group remembers no previous group; when both subscriptions have ended the paid group stays. `GroupInv` therefore speaks of upgrades that start from the base group.
* Where nothing serialises `GrantForConversion`, two completions for one user pay the referral reward twice, in one process as well (`RewardedOnce` is stated for `serial_database`).
* `SameCredit` leaves Creem out because it fails there: the webhook credits `Amount`, an administrator's completion `Amount * QuotaPerUnit`.

## 5. Fairness

* `BillingSession!FairSpec`: weak fairness of a request's next database call and of its refund goroutine. Go schedules runnable goroutines and a database call returns. Nothing is assumed of the upstream, of users or of `Expire`.
* `SubscriptionGroup!FairSpec`: weak fairness of `ExpireDue`; the maintenance task of the master node runs every minute.
* `PaymentOrders!FairSpec`: handlers run on; a provider repeats its report until it has a success as an answer (strong fairness, since crashes and busy handlers disable it again and again). Providers that are told "success" in every case (Epay and Stripe top-ups, Stripe subscriptions) are outside `PaidIsCredited`.
* `OrderLock!LockFairSpec`: handlers run on and defer `UnlockOrder`; strong fairness of the mutexes, since `sync.Mutex` hands itself to a waiter of more than a millisecond.
* `TaskBilling!FairSpec`: weak fairness of a running master's loop, which starts again every 15 seconds, and of the clock. Nothing is assumed of the provider: a task that it never finishes is ended by the sweep.
* `DesktopShell!ShellSpec`: weak fairness of the event loop, of timers, of a request's answer or timeout, of the death of a killed process, and of the user who answers a dialog. The user need not quit.
* `ChannelsPage!Spec`: weak fairness of a batch test's own steps (timers) and of the server's answer to a test. Nothing is assumed of the other requests.

## 6. What is proved

Every theorem holds for all values of the constants that satisfy the module's assumption: any number of requests, orders, tasks, goroutines, retries, models and so on. The assumptions give the constants their types and exclude what the code excludes (a batch test without a model is not started, ids of rows are positive, nothing is deployed without an instance or a master). Each component has one inductive invariant, checked by TLC before it was proved, from which its other theorems follow, with the additions named below.

| Module | Theorem | States |
|---|---|---|
| `BillingSession_proofs` | `Inductive` | `BillingInv`, the inductive invariant |
| | `TypeCorrect`, `SettlesExactly`, `RefundsWhole`, `RejectsFree`, `UnsettledHolds`, `NoOverRefund`, `StaysWithinTotal` | `TypeOK`, `SettledExactly`, `RefundedWhole`, `RejectedFree`, `UnsettledKeepsHold`, `NeverOverRefunded`, `SubWithinTotal` |
| | `Implements` | `ImplementsContract`: the session implements `BillingContract` |
| | `SubAccounted` | `SubUsedAccounted` |
| `Payments_proofs` | `LockInductive`, `Excludes`, `ReleasesOwn`, `NoLeak` | `OrderLockInv`, `MutualExclusion`, `UnlocksItsOwn`, `EntryHasUser` |
| | `Inductive`, `OneReward`, `DeliveredOnce`, `AdminCreditsTheSame` | `PaymentInv`, `RewardedOnce`, `SerialisedCreditedOnce`, `SameCredit` |
| `TaskBilling_proofs` | `Inductive`, `BilledExactly`, `EndIsFinal` | `TaskInv`, `VideoBilledExactly`, `EndedStays` |
| `SubscriptionLedger_proofs` | `Inductive` | `LedgerInv` |
| | `Accounted`, `HoldsBounded`, `EndsForGood` | `UsedAccounted`, `HoldsWithinTotal`, `EndedStaysEnded`, each if `RowLocks` |
| `SubscriptionGroup_proofs` | `Inductive` | `GroupInv` |
| `Clients_proofs` | `ChatInductive`, `PageInOrder`, `NoMixing`, `NothingLeftWaiting` | `ChatInv`, `PlaygroundInv`, `AnswersStayApart`, `SettledWhenIdle` |
| | `EndsStay` | `FinalStays` |
| | `ShellInductive`, `NoOrphan` | `ShellInv`, `ServerDiesWithApp` |
| `ChannelsPage_proofs` | `Inductive`, `NewestWins`, `LimitKept`, `NothingForgotten` | `PageInv`, `LatestShown`, `BatchLimit`, `ReportComplete` |

**Billing session.** The properties are not inductive: that a settled session has paid `goal` depends on what it held before, on the agreement of `pre`, `tokenConsumed`, `consumed` and `extra` at every position, and on what has been rolled back. `BillingInv` therefore gives every position the shape of its session (`EarlyShape`, `LateShape`), ties the session to `paid` exactly while no call has failed (`Exact`), and keeps a weaker tie when calls have failed (`Backed`: what may still be refunded was paid). An action changes one request, so each action has one lemma about `RequestInv` of that request, and the theorem lifts it to all.

**The contract.** `Implements` maps every step to a step of `BillingContract` or a stutter. It needs the invariant before and after the step, the fact that the price of an answered request is a quota (`PriceQuoted`), and the fact that an ended request does not move any more but for its violation fee: a late `Refund` finds the session settled, or its settlement refused, in which case it has left the contract. The attempt corrected the contract: a void request whose violation fee meets a database error leaves the contract too, with its hold as it was. That takes seven steps and a fault after the refund has ended, which the bounds of the run did not reach.

**The books of a subscription.** `SubUsedAccounted` says that `used` is a sum over all requests. Every step enters in `used` what it enters in the share of one request (`Books`), a step of the fee because a fee is charged once and only after the request has failed (`FeeTaken`), and a change of the funding source because nothing was charged before. The clamp at zero is then never reached: without database errors `Exact` makes every share a natural number, and so is their sum.

**Sums.** `Sums` holds the lemmas about the community modules' `SumFunction` that both books need: if one value changes the sum changes by as much (`SumChange`), a sum of natural numbers is one, and zero for zeros (`SumType`), and no term exceeds it (`SumAtLeast`). The induction theorems of the library cannot be instantiated by the provers, so each lemma is proved by a smallest counterexample among the subsets (`Smallest`, from the well-foundedness of the naturals), after the fold itself has been shown to exist (`FoldUpTo`). The assumption is that the requests are finitely many.

**Order locks.** A reference count is the number of goroutines referring to the entry, hence an entry outlives its users, hence two handlers of one order contend for the same mutex, although `UnlockOrder` looks it up without `createLock`.

**Payments.** A handler decides from what it read and writes later. The invariant says that whoever is past `LockOrder` holds it alone in its process (`MutexHeld`), that a database with row locks gives the row to one transaction (`RowHeld`), and hence that what a handler read is still so when it writes (`ReadStillTrue`), for the orders whose handlers something serialises. Waffo's failure report takes no lock and can spoil the status, but not the delivery. `AdminCreditsTheSame` adds that what was credited is a rounding of what was bought, down or up, whatever the fraction.

**Tasks.** `VideoBook` says what a video task has been charged at each status, counting what a refused settlement left owing (`Charged`, `TokenCharged`), and that the winner of the compare-and-set is the only one billing it; `SunoBook` says the same of Suno tasks, which have no compare-and-set, for a single master. `LoopShape` says that a loop's copies are of tasks that were open when they were read: so a compare-and-set that wins moves a row out of an open status.

**Ledger.** `RowsInv` holds with and without row locks: each transaction writes back a row that was within the total when it was read. That a transaction's copy is still true (`LocksProtect`) holds with row locks only, and gives `EndedStaysEnded`; without them TLC finds the revived subscription. The rest of `LedgerInv`, `AccountsInv`, holds with row locks: the used amount of a row is the sum of the charges of its period (`Account`), unless a settlement or refund reached over a reset (`NoCrossing`). A reset empties the row and the sum at once, because no request was charged in a period to come (`ChargedBefore`) and because a reset that moves `last_reset_time` moves it forward: the task takes rows with a reset to come (`ResetsPlanned`), and `maybeResetUserSubscriptionWithPlanTx`, which fills in a missing next reset, has none to fill in on an active row (`NoLateReset`).

**Groups.** That the last end gives the group back depends on the order of the purchases: upgrades from the base group follow one another (`Succession`), and a group that is not the base group is lent by the latest of them, which is still active (`LentByLatest`).

**Playground.** Every event of the network is applied to the last message, every guard reads the last render, and the storage may be behind both; so the invariant is about three lists at once. `ChatInv` is `PlaygroundInv` and `SettledWhenIdle` stated list by list: keys are distinct and were given out (`Sound`), texts have not mixed (`Apart`), only the last message waits (`Body`), an open request belongs to it (`AnswerComesLast`), and the list and the storage are ahead of the render without taking back an end that was shown (`RenderFollows`). `sanitizeMessagesOnLoad` puts right only the last waiting message, so a reload settles the page because no other one waits; that there is a last one among any number of messages follows from the well-foundedness of the naturals (`Largest`). What `raced` excepts in the model is excepted in the theorems.

**Desktop shell.** A timed-out probe is retried twice. `ProbeBudget` bounds retries and requests by the attempts made while the limit has not been reached, from which the bound of `2 * MaxRetries` follows for every `MaxRetries`.

**Channels page.** An answer that can still reach the display is of the query asked for last, and the one to the last ask is under way unless it is there (`ActiveAwaited`, from the numbers of `CallsNumbered`); the tests of a batch under way are those of its last step (`BatchWindow`), hence at most `Limit` (`LimitKept` counts them through the interval of their models); each model a batch test has passed has a result or a test under way (`BatchCovered`).

## 7. What is only model-checked

* Liveness (`FailedMadeWhole`, `GroupEventuallyReturned`, `PaidIsCredited`, `EventuallyLocked`, `FailedRefunded`, `TaskEnds`, `StartSettles`, `QuitExits`, `BatchEnds`): fairness is outside the prover's reach.

## 8. What is not modelled

Redis caches and batch updates of quotas, the connection pool, channel selection, rate limits, tenant quota, webhook dispatch, automatic top-up and redemption codes are planned (section 2). Midjourney tasks have a polling loop with a compare-and-set of its own, to which the argument of `TaskBilling` carries over. Provider adaptors, content policy, settings, logs and log-in protocols are data transformation, configuration or other parties' protocols, with little state to check. Within the modelled parts section 3 names what is left out, in particular pasted files in the playground, a crash of the desktop application, and the referral grant by a skill's purchase.

The two web consoles are by far the largest part of the repository by lines. Nearly all of it is markup, forms, tables, translations and formatting around single requests, where nothing runs concurrently; what does - the playground's streams and the channels page's lists and tests - is modelled, and the rest is not.
