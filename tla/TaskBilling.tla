---------------------------- MODULE TaskBilling ----------------------------
(***************************************************************************)
(* Billing of asynchronous tasks (music, images, videos).  RelayTask       *)
(* charges a task when it is submitted and inserts its row.  Three kinds   *)
(* of actors then move the row to SUCCESS or FAILURE and pay back or       *)
(* settle: the timeout sweep and the poll, both in TaskPollingLoop of a    *)
(* master node (service/task_polling.go), and, for Gemini and Vertex       *)
(* videos, a user who fetches the task (tryRealtimeFetch of                *)
(* relay/relay_task.go).  Every database statement and every upstream call *)
(* is a step of its own.                                                   *)
(*                                                                         *)
(* Videos are moved by UpdateWithStatus, a compare-and-set on the status.  *)
(* Suno tasks are saved without one, and tasks of a deleted channel are    *)
(* failed in bulk without one.                                             *)
(***************************************************************************)
EXTENDS Integers

CONSTANTS
    Tasks,      \* the tasks, each submitted once
    Kinds,      \* subset of {"video", "realtime", "suno"} to choose from
    Masters,    \* processes that may run TaskPollingLoop
    Fetchers,   \* handlers of the users' fetch requests
    Quota,      \* the quota of the submitted task (result.Quota)
    Estimates,  \* the quotas an earlier attempt may have charged in advance
    Actuals,    \* actual quotas a success may report; 0 leaves the charge
    MaxFetches, \* bound on the users' fetch requests
    MaxFaults   \* bound on database errors, crashes and upstream errors

ASSUME TaskAssumption ==
    /\ Tasks # {} /\ Masters # {}
    /\ Kinds \subseteq {"video", "realtime", "suno"}
    /\ Quota \in Nat \ {0}
    /\ Estimates \subseteq Nat \ {0}
    /\ Actuals \subseteq Nat
    /\ MaxFetches \in Nat
    /\ MaxFaults \in Nat

VARIABLES
    kind,       \* how each task is polled
    row,        \* the tasks table
    upstream,   \* state of the task at the provider
    actual,     \* the quota the provider's result stands for
    overdue,    \* submit_time is before the timeout's cutoff
    channel,    \* the task's channel still exists
    live,       \* the masters that run
    ended,      \* the masters whose loop a panic has ended
    master,     \* TaskPollingLoop of each master
    fetch,      \* the handlers of fetch requests
    paid,       \* what the task has taken from wallet or subscription
    tokenPaid,  \* what the task has taken from the token
    unpaid,     \* what a failed settlement left the wallet or subscription owing
    tokenUnpaid,\* what it left the token owing; both are less than 0 if too much was held
    fetches,    \* number of fetch requests so far
    lost,       \* an error or a crash cut the task's billing short
    faults      \* number of errors and crashes so far

vars == <<kind, row, upstream, actual, overdue, channel, live, ended, master, fetch,
          fetches, paid, tokenPaid, unpaid, tokenUnpaid, lost, faults>>

provider == <<upstream, actual, overdue, channel>>
money == <<paid, tokenPaid>>
setup == <<kind, live, ended, unpaid, tokenUnpaid>>
handlers == <<fetch, fetches>>

Final == {"SUCCESS", "FAILURE"}
Statuses == {"ABSENT", "NOT_START", "IN_PROGRESS"} \cup Final
Results == {"running", "warned", "success", "flawed", "failure"}
Pending == {"running", "warned"}   \* the provider has not finished
Rows == [status: Statuses, finished: BOOLEAN]   \* finished: progress = 100%
Pcs == {"idle", "sweep", "poll", "update", "funding", "token", "save"}

(* The row a result stands for (updateVideoSingleTask, ParseTaskResult).   *)
(* An item of a Suno answer may carry a fail reason whatever its status:   *)
(* "warned" while the task runs, "flawed" when it has succeeded; its       *)
(* progress is 100% then.                                                  *)
Outcome(result) ==
    CASE result = "running" -> [status |-> "IN_PROGRESS", finished |-> FALSE]
      [] result = "warned" -> [status |-> "IN_PROGRESS", finished |-> TRUE]
      [] result \in {"success", "flawed"} -> [status |-> "SUCCESS", finished |-> TRUE]
      [] result = "failure" -> [status |-> "FAILURE", finished |-> TRUE]

Failed == Outcome("failure")

AnyTask == CHOOSE t \in Tasks : TRUE

NoRow == [status |-> "ABSENT", finished |-> FALSE]

(* A loop between two rounds and a handler without a request remember      *)
(* nothing.                                                                *)
IdleMaster ==
    [pc |-> "idle", todo |-> {}, copy |-> [t \in Tasks |-> NoRow],
     cur |-> AnyTask, seen |-> "running", delta |-> 0, back |-> "poll"]

IdleFetch == [pc |-> "idle", cur |-> AnyTask, copy |-> NoRow, seen |-> "running"]

(* Back to the list of the sweep or of the poll (or on to the save), the   *)
(* locals of the current task gone.                                        *)
Resume(local, pc) ==
    [local EXCEPT !.pc = pc, !.delta = 0, !.back = "poll",
                  !.seen = IF pc = "save" THEN @ ELSE "running"]

(* The locals of a loop and of a fetch handler.                            *)
Loop == [pc: Pcs, todo: SUBSET Tasks, copy: [Tasks -> Rows], cur: Tasks,
         seen: Results, delta: Int, back: {"sweep", "poll", "save"}]

Handler == [pc: {"idle", "read", "answered"}, cur: Tasks, copy: Rows, seen: Results]

TypeOK ==
    /\ kind \in [Tasks -> Kinds]
    /\ row \in [Tasks -> Rows]
    /\ upstream \in [Tasks -> Results]
    /\ actual \in [Tasks -> Actuals \cup {0}]
    /\ overdue \in [Tasks -> BOOLEAN]
    /\ channel \in [Tasks -> BOOLEAN]
    /\ live \subseteq Masters
    /\ ended \subseteq Masters
    /\ master \in [Masters -> Loop]
    /\ fetch \in [Fetchers -> Handler]
    /\ paid \in [Tasks -> Int]
    /\ tokenPaid \in [Tasks -> Int]
    /\ unpaid \in [Tasks -> Int]
    /\ tokenUnpaid \in [Tasks -> Int]
    /\ lost \in [Tasks -> BOOLEAN]
    /\ fetches \in 0..MaxFetches
    /\ faults \in 0..MaxFaults

Init ==
    /\ kind \in [Tasks -> Kinds]
    /\ row = [t \in Tasks |-> NoRow]
    /\ upstream = [t \in Tasks |-> "running"]
    /\ actual = [t \in Tasks |-> 0]
    /\ overdue = [t \in Tasks |-> FALSE]
    /\ channel = [t \in Tasks |-> TRUE]
    /\ live \in {Masters, {CHOOSE m \in Masters : TRUE}}
    /\ ended = {}
    /\ master = [m \in Masters |-> IdleMaster]
    /\ fetch = [f \in Fetchers |-> IdleFetch]
    /\ paid = [t \in Tasks |-> 0]
    /\ tokenPaid = [t \in Tasks |-> 0]
    /\ unpaid = [t \in Tasks |-> 0]
    /\ tokenUnpaid = [t \in Tasks |-> 0]
    /\ lost = [t \in Tasks |-> FALSE]
    /\ fetches = 0
    /\ faults = 0

-----------------------------------------------------------------------------
(* Submission, the provider and the administrator. *)

(* What SettleBilling makes of a charge in advance: settled; refused by an *)
(* exhausted subscription or by a database error, so that source and token *)
(* keep the first charge; or settled with the source and not the token.    *)
Settlements(held) ==
    {[source |-> Quota, token |-> Quota, errors |-> 0]}
    \cup {[source |-> held, token |-> held, errors |-> e] : e \in IF held < Quota THEN {0} ELSE {1}}
    \cup {[source |-> Quota, token |-> held, errors |-> 1]}

(* The end of RelayTask: SettleBilling, whose error is only logged, then   *)
(* task.Insert, whose error is only logged too.  The row says Quota.       *)
Submit(t) ==
    /\ row[t].status = "ABSENT"
    /\ paid[t] = 0
    /\ \E held \in Estimates : \E s \in Settlements(held), failed \in {0, 1} :
          /\ faults' = faults + s.errors + failed
          /\ faults' <= MaxFaults
          /\ paid' = [paid EXCEPT ![t] = s.source]
          /\ tokenPaid' = [tokenPaid EXCEPT ![t] = s.token]
          /\ unpaid' = [unpaid EXCEPT ![t] = Quota - s.source]
          /\ tokenUnpaid' = [tokenUnpaid EXCEPT ![t] = Quota - s.token]
          /\ row' = IF failed = 0 THEN [row EXCEPT ![t].status = "NOT_START"] ELSE row
          /\ lost' = [lost EXCEPT ![t] = @ \/ failed = 1]
    /\ UNCHANGED <<kind, live, ended, provider, master, handlers>>

(* The provider goes on with the task: it finishes it, or, for Suno,       *)
(* reports a fail reason of a task that has not failed.                    *)
Finish(t) ==
    /\ row[t].status # "ABSENT"
    /\ upstream[t] \in Pending
    /\ \/ /\ upstream' = [upstream EXCEPT ![t] = "failure"]
          /\ UNCHANGED actual
       \/ /\ kind[t] = "suno"
          /\ \E r \in {"warned", "flawed"} : upstream' = [upstream EXCEPT ![t] = r]
          /\ UNCHANGED actual
       \/ /\ upstream' = [upstream EXCEPT ![t] = "success"]
          /\ \E q \in Actuals : actual' = [actual EXCEPT ![t] = q]
    /\ UNCHANGED <<setup, row, overdue, channel, master, handlers, money, lost, faults>>

(* TaskTimeoutMinutes pass.                                                *)
Age(t) ==
    /\ row[t].status # "ABSENT"
    /\ ~overdue[t]
    /\ overdue' = [overdue EXCEPT ![t] = TRUE]
    /\ UNCHANGED <<setup, row, upstream, actual, channel, master, handlers, money, lost, faults>>

(* An administrator deletes the channel: CacheGetChannel fails from now on. *)
DeleteChannel(t) ==
    /\ channel[t]
    /\ faults < MaxFaults
    /\ faults' = faults + 1
    /\ channel' = [channel EXCEPT ![t] = FALSE]
    /\ UNCHANGED <<setup, row, upstream, actual, overdue, master, handlers, money, lost>>

-----------------------------------------------------------------------------
(* TaskPollingLoop of a master m. *)

Unfinished(t) == row[t].status \notin Final \cup {"ABSENT"} /\ ~row[t].finished

At(m, pc) == m \in live \ ended /\ master[m].pc = pc

(* Mutant: Update in place of UpdateWithStatus.                            *)
WinsBug(t, read) == TRUE

(* UpdateWithStatus: writes the whole row if the status is still the one   *)
(* that was read.                                                          *)
Wins(t, read) == row[t].status = read.status

(* Mutant: the sweep lists only tasks that were never started.             *)
SweepListBug(m) ==
    /\ At(m, "idle")
    /\ master' = [master EXCEPT ![m].pc = "sweep", ![m].copy = row,
            ![m].todo = {t \in Tasks : row[t].status = "NOT_START" /\ overdue[t]}]
    /\ UNCHANGED <<setup, row, provider, handlers, money, lost, faults>>

(* GetTimedOutUnfinishedTasks.                                             *)
SweepList(m) ==
    /\ At(m, "idle")
    /\ master' = [master EXCEPT ![m].pc = "sweep", ![m].copy = row,
            ![m].todo = {t \in Tasks : Unfinished(t) /\ overdue[t]}]
    /\ UNCHANGED <<setup, row, provider, handlers, money, lost, faults>>

(* One task of sweepTimedOutTasks up to its refund.                        *)
SweepTask(m, t) ==
    /\ At(m, "sweep")
    /\ t \in master[m].todo
    /\ \/ /\ Wins(t, master[m].copy[t])
          /\ row' = [row EXCEPT ![t] = Failed]
          /\ master' = [master EXCEPT ![m].todo = @ \ {t}, ![m].cur = t,
                ![m].pc = "funding", ![m].delta = -Quota, ![m].back = "sweep"]
          /\ UNCHANGED faults
       \/ /\ ~Wins(t, master[m].copy[t])
          /\ master' = [master EXCEPT ![m].todo = @ \ {t}]
          /\ UNCHANGED <<row, faults>>
       \/ /\ faults < MaxFaults
          /\ faults' = faults + 1
          /\ master' = [master EXCEPT ![m].todo = @ \ {t}]
          /\ UNCHANGED row
    /\ UNCHANGED <<setup, provider, handlers, money, lost>>

(* GetAllUnFinishSyncTasks, after the sweep.                               *)
PollList(m) ==
    /\ At(m, "sweep")
    /\ master[m].todo = {}
    /\ master' = [master EXCEPT ![m].pc = "poll", ![m].copy = row,
                                ![m].todo = {t \in Tasks : Unfinished(t)}]
    /\ UNCHANGED <<setup, row, provider, handlers, money, lost, faults>>

(* updateVideoTasks and updateSunoTasks when the channel is gone:          *)
(* TaskBulkUpdateByID, with no compare-and-set and no refund.              *)
BulkFail(m, t) ==
    /\ At(m, "poll")
    /\ t \in master[m].todo
    /\ ~channel[t]
    /\ row' = [row EXCEPT ![t] = Failed]
    /\ lost' = [lost EXCEPT ![t] = TRUE]
    /\ master' = [master EXCEPT ![m].todo = @ \ {t}]
    /\ UNCHANGED <<setup, provider, handlers, money, faults>>

(* FetchTask and ParseTaskResult.  The call may fail or be refused (429),  *)
(* and an unexpected answer counts as a failure of the task.               *)
PollFetch(m, t) ==
    /\ At(m, "poll")
    /\ t \in master[m].todo
    /\ channel[t]
    /\ \/ /\ master' = [master EXCEPT ![m].todo = @ \ {t}, ![m].cur = t,
                            ![m].seen = upstream[t], ![m].pc = "update"]
          /\ UNCHANGED faults
       \/ /\ faults < MaxFaults
          /\ faults' = faults + 1
          /\ \/ master' = [master EXCEPT ![m].todo = @ \ {t}]
             \/ /\ kind[t] # "suno"
                /\ master' = [master EXCEPT ![m].todo = @ \ {t}, ![m].cur = t,
                                  ![m].seen = "failure", ![m].pc = "update"]
    /\ UNCHANGED <<setup, row, provider, handlers, money, lost>>

(* An item of the Suno answer names a task nobody asked for:               *)
(* taskNeedsUpdate dereferences nil, gopool recovers the panic, and        *)
(* TaskPollingLoop never runs again in this process.                       *)
PollPanic(m, t) ==
    /\ At(m, "poll")
    /\ t \in master[m].todo
    /\ kind[t] = "suno"
    /\ channel[t]
    /\ faults < MaxFaults
    /\ faults' = faults + 1
    /\ ended' = ended \cup {m}
    /\ master' = [master EXCEPT ![m] = IdleMaster]
    /\ UNCHANGED <<kind, live, unpaid, tokenUnpaid, row, provider, handlers, money, lost>>

(* Mutant: the actual quota is charged on top of the one charged before.   *)
AdjustmentBug(t, result) ==
    CASE result = "failure" -> -Quota
      [] result = "success" -> actual[t]
      [] OTHER -> 0

(* Mutant: a failure is stored and not refunded, as tryRealtimeFetch does. *)
AdjustmentFailureBug(t, result) ==
    IF result = "success" /\ actual[t] > 0 THEN actual[t] - Quota ELSE 0

(* What settleTaskBillingOnComplete or RefundTaskQuota will add to the     *)
(* charge.                                                                 *)
Adjustment(t, result) ==
    CASE result = "failure" -> -Quota
      [] result = "success" -> IF actual[t] > 0 THEN actual[t] - Quota ELSE 0
      [] OTHER -> 0

(* The end of updateVideoSingleTask: the status changes by compare-and-set *)
(* and only the winner bills.                                              *)
PollUpdate(m) ==
    LET t == master[m].cur
        read == master[m].copy[t]
        new == Outcome(master[m].seen)
        delta == Adjustment(t, master[m].seen)
    IN
    /\ At(m, "update")
    /\ kind[t] # "suno"
    /\ \/ /\ new # read /\ Wins(t, read)
          /\ row' = [row EXCEPT ![t] = new]
          /\ master' = IF delta # 0
                       THEN [master EXCEPT ![m].pc = "funding", ![m].delta = delta,
                                           ![m].back = "poll"]
                       ELSE [master EXCEPT ![m] = Resume(@, "poll")]
          /\ UNCHANGED faults
       \/ /\ new = read \/ ~Wins(t, read)
          /\ master' = [master EXCEPT ![m] = Resume(@, "poll")]
          /\ UNCHANGED <<row, faults>>
       \/ /\ new # read
          /\ faults < MaxFaults
          /\ faults' = faults + 1
          /\ master' = [master EXCEPT ![m] = Resume(@, "poll")]
          /\ UNCHANGED row
    /\ UNCHANGED <<setup, provider, handlers, money, lost>>

(* The test of updateSunoTasks: FailReason # "" or status FAILURE.         *)
HasReason(result) == result \in {"warned", "flawed", "failure"}

(* Mutant: after the refund the next item is taken and nothing saved.      *)
SunoUpdateBug(m) ==
    LET t == master[m].cur
        new == Outcome(master[m].seen)
    IN
    /\ At(m, "update")
    /\ kind[t] = "suno"
    /\ master' =
        IF new = master[m].copy[t] THEN [master EXCEPT ![m] = Resume(@, "poll")]
        ELSE IF HasReason(master[m].seen)
             THEN [master EXCEPT ![m].pc = "funding", ![m].delta = -Quota,
                                 ![m].back = "poll"]
             ELSE [master EXCEPT ![m].pc = "save"]
    /\ UNCHANGED <<setup, row, provider, handlers, money, lost, faults>>

(* One item of updateSunoTasks: a failure, or a fail reason, is refunded   *)
(* first and the row saved after that.                                     *)
SunoUpdate(m) ==
    LET t == master[m].cur
        new == Outcome(master[m].seen)
    IN
    /\ At(m, "update")
    /\ kind[t] = "suno"
    /\ master' =
        IF new = master[m].copy[t] THEN [master EXCEPT ![m] = Resume(@, "poll")]
        ELSE IF HasReason(master[m].seen)
             THEN [master EXCEPT ![m].pc = "funding", ![m].delta = -Quota,
                                 ![m].back = "save"]
             ELSE [master EXCEPT ![m].pc = "save"]
    /\ UNCHANGED <<setup, row, provider, handlers, money, lost, faults>>

(* task.Update: the whole row, whatever it holds now.                      *)
SunoSave(m) ==
    LET t == master[m].cur
    IN
    /\ At(m, "save")
    /\ \/ /\ row' = [row EXCEPT ![t] = Outcome(master[m].seen)]
          /\ UNCHANGED <<lost, faults>>
       \/ /\ faults < MaxFaults
          /\ faults' = faults + 1
          /\ lost' = [lost EXCEPT ![t] = TRUE]
          /\ UNCHANGED row
    /\ master' = [master EXCEPT ![m] = Resume(@, "poll")]
    /\ UNCHANGED <<setup, provider, handlers, money>>

(* taskAdjustFunding; on an error RefundTaskQuota and RecalculateTaskQuota *)
(* return and the token is left alone.                                     *)
AdjustFunding(m) ==
    LET t == master[m].cur
    IN
    /\ At(m, "funding")
    /\ \/ /\ paid' = [paid EXCEPT ![t] = @ + master[m].delta]
          /\ master' = [master EXCEPT ![m].pc = "token"]
          /\ UNCHANGED <<lost, faults>>
       \/ /\ faults < MaxFaults
          /\ faults' = faults + 1
          /\ lost' = [lost EXCEPT ![t] = TRUE]
          /\ master' = [master EXCEPT ![m] = Resume(@, @.back)]
          /\ UNCHANGED paid
    /\ UNCHANGED <<setup, row, provider, handlers, tokenPaid>>

(* taskAdjustTokenQuota; errors and a deleted token are only logged.       *)
AdjustToken(m) ==
    LET t == master[m].cur
    IN
    /\ At(m, "token")
    /\ \/ /\ tokenPaid' = [tokenPaid EXCEPT ![t] = @ + master[m].delta]
          /\ UNCHANGED <<lost, faults>>
       \/ /\ faults < MaxFaults
          /\ faults' = faults + 1
          /\ lost' = [lost EXCEPT ![t] = TRUE]
          /\ UNCHANGED tokenPaid
    /\ master' = [master EXCEPT ![m] = Resume(@, @.back)]
    /\ UNCHANGED <<setup, row, provider, handlers, paid>>

(* The round is over; the next one starts 15 seconds later.                *)
PollEnd(m) ==
    /\ At(m, "poll")
    /\ master[m].todo = {}
    /\ master' = [master EXCEPT ![m] = IdleMaster]
    /\ UNCHANGED <<setup, row, provider, handlers, money, lost, faults>>

(* The process dies and is restarted; what it was billing is forgotten.    *)
Crash(m) ==
    /\ m \in live
    /\ master[m].pc # "idle"
    /\ faults < MaxFaults
    /\ faults' = faults + 1
    /\ lost' = [lost EXCEPT ![master[m].cur] =
                    @ \/ master[m].pc \in {"funding", "token", "save"}]
    /\ master' = [master EXCEPT ![m] = IdleMaster]
    /\ UNCHANGED <<setup, row, provider, handlers, money>>

-----------------------------------------------------------------------------
(* videoFetchByIDRespBodyBuilder with tryRealtimeFetch, handler f. *)

FetchRead(f, t) ==
    /\ fetch[f].pc = "idle"
    /\ kind[t] = "realtime"
    /\ row[t].status # "ABSENT"
    /\ fetches < MaxFetches
    /\ fetches' = fetches + 1
    /\ fetch' = [fetch EXCEPT ![f].pc = "read", ![f].cur = t, ![f].copy = row[t]]
    /\ UNCHANGED <<setup, row, provider, master, money, lost, faults>>

(* GetChannelById and FetchTask; without a channel or an answer the stored *)
(* row is shown.                                                           *)
FetchAnswer(f) ==
    LET t == fetch[f].cur
    IN
    /\ fetch[f].pc = "read"
    /\ \/ /\ channel[t]
          /\ fetch' = [fetch EXCEPT ![f].pc = "answered", ![f].seen = upstream[t]]
       \/ /\ ~channel[t]
          /\ fetch' = [fetch EXCEPT ![f] = IdleFetch]
    /\ UNCHANGED <<setup, row, provider, master, fetches, money, lost, faults>>

(* UpdateWithStatus whatever the old and the new status are; no billing.   *)
FetchUpdate(f) ==
    LET t == fetch[f].cur
        new == Outcome(fetch[f].seen)
    IN
    /\ fetch[f].pc = "answered"
    /\ row' = IF new # fetch[f].copy /\ Wins(t, fetch[f].copy)
              THEN [row EXCEPT ![t] = new] ELSE row
    /\ fetch' = [fetch EXCEPT ![f] = IdleFetch]
    /\ UNCHANGED <<setup, provider, master, fetches, money, lost, faults>>

-----------------------------------------------------------------------------

MasterStep(m) ==
    \/ SweepList(m)
    \/ PollList(m)
    \/ PollUpdate(m)
    \/ SunoUpdate(m)
    \/ SunoSave(m)
    \/ AdjustFunding(m)
    \/ AdjustToken(m)
    \/ PollEnd(m)
    \/ \E t \in Tasks : SweepTask(m, t) \/ BulkFail(m, t) \/ PollFetch(m, t)

FetchStep(f) ==
    \/ \E t \in Tasks : FetchRead(f, t)
    \/ FetchAnswer(f)
    \/ FetchUpdate(f)

Next ==
    \/ \E t \in Tasks : Submit(t) \/ Finish(t) \/ Age(t) \/ DeleteChannel(t)
    \/ \E m \in Masters : MasterStep(m) \/ Crash(m) \/ \E t \in Tasks : PollPanic(m, t)
    \/ \E f \in Fetchers : FetchStep(f)

Spec == Init /\ [][Next]_vars

(* The loop of a running master goes on, and time passes.                  *)
FairSpec ==
    /\ Spec
    /\ \A m \in Masters : WF_vars(MasterStep(m))
    /\ \A t \in Tasks : WF_vars(Age(t))

-----------------------------------------------------------------------------
(* Properties. *)

(* What a task should have cost, given its row. *)
Due(t) ==
    CASE row[t].status \in {"ABSENT", "FAILURE"} -> 0
      [] row[t].status = "SUCCESS" /\ actual[t] > 0 -> actual[t]
      [] OTHER -> Quota

(* Master m is changing what the task has paid.                            *)
Holds(m, t) == master[m].cur = t /\ master[m].pc \in {"funding", "token"}

Billing(t) == \E m \in live : Holds(m, t)

(* While nobody is billing a video task and no error cut its billing       *)
(* short, wallet or subscription and token have paid exactly what the row  *)
(* says: nothing for a failure, the recalculated quota for a success, the  *)
(* quota of the row before that - whichever of the masters' sweeps and     *)
(* polls moved the row.  If RelayTask's settlement failed, what it left    *)
(* owing is missing, neither more nor less.                                *)
VideoBilledExactly ==
    \A t \in Tasks :
        kind[t] = "video" /\ ~lost[t] /\ ~Billing(t) =>
            paid[t] + unpaid[t] = Due(t) /\ tokenPaid[t] + tokenUnpaid[t] = Due(t)

(* Whatever fails or crashes, no video task pays back more than the quota  *)
(* of its row: its user gains at most what a refused settlement of the     *)
(* submission, which RelayTask only logs, had left unpaid.                 *)
VideoNeverOverRefunded ==
    \A t \in Tasks : kind[t] = "video" =>
        paid[t] >= -unpaid[t] /\ tokenPaid[t] >= -tokenUnpaid[t]

(* updateSunoTasks refunds before it saves; with one polling master and no *)
(* failed save the refund still happens once, also when a fail reason was  *)
(* reported before the failure.                                            *)
SunoRefundedOnce ==
    \A t \in Tasks :
        kind[t] = "suno" /\ (\E m \in Masters : live = {m}) /\ ~lost[t] =>
            paid[t] >= -unpaid[t] /\ tokenPaid[t] >= -tokenUnpaid[t]

Open == {"NOT_START", "IN_PROGRESS"}

(* A task the loop of m has yet to decide about.                           *)
Listed(m, t) == t \in master[m].todo \/ (master[m].cur = t /\ master[m].pc = "update")

(* Each loop works through a list of tasks that were unfinished when it    *)
(* read them, and the task it works on is off the list; only Suno tasks    *)
(* are saved; a loop a panic has ended holds nothing.                      *)
LoopOK(m) ==
    /\ m \notin live \/ m \in ended => master[m].pc = "idle"
    /\ master[m].pc = "idle" => master[m].todo = {}
    /\ master[m].pc \in {"update", "funding", "token", "save"} =>
          master[m].cur \notin master[m].todo
    /\ master[m].pc = "save" => kind[master[m].cur] = "suno"
    /\ master[m].pc \in {"funding", "token"} /\ master[m].back = "save" =>
          kind[master[m].cur] = "suno"
    /\ \A t \in Tasks : Listed(m, t) =>
          /\ master[m].copy[t].status \in Open /\ ~master[m].copy[t].finished
          /\ row[t].status # "ABSENT"

(* Only Gemini and Vertex videos are fetched for a user.                   *)
LoopShape ==
    /\ \A m \in Masters : LoopOK(m)
    /\ \A f \in Fetchers : fetch[f].pc # "idle" => kind[fetch[f].cur] = "realtime"

(* What the wallet or subscription, and the token, would have paid if the  *)
(* settlement had not failed.                                              *)
Charged(t) == paid[t] + unpaid[t]
TokenCharged(t) == tokenPaid[t] + tokenUnpaid[t]

(* The compare-and-set has one winner: it alone bills a video, once, when  *)
(* the row ends, and what it will have billed is what the row says.        *)
VideoBook(t) ==
    kind[t] = "video" =>
        /\ upstream[t] # "flawed"
        /\ row[t].status = "ABSENT" =>
              /\ Charged(t) \in {0, Quota} /\ TokenCharged(t) = Charged(t)
              /\ Charged(t) = 0 \/ lost[t]
        /\ row[t].status \in Open => Charged(t) = Quota /\ TokenCharged(t) = Quota
        /\ row[t].status = "SUCCESS" => upstream[t] \notin Pending
        /\ row[t].status \in Final /\ (\A m \in Masters : ~Holds(m, t)) =>
              /\ Charged(t) >= 0 /\ TokenCharged(t) >= 0
              /\ lost[t] \/ (Charged(t) = Due(t) /\ TokenCharged(t) = Due(t))
        /\ \A m \in Masters :
              /\ master[m].cur = t /\ master[m].pc = "update" =>
                    /\ master[m].seen # "flawed"
                    /\ master[m].seen = "success" => upstream[t] \notin Pending
              /\ Holds(m, t) =>
                    /\ row[t].status \in Final
                    /\ Quota + master[m].delta >= 0
                    /\ Charged(t) = Quota + (IF master[m].pc = "token" THEN master[m].delta ELSE 0)
                    /\ TokenCharged(t) = Quota
                    /\ lost[t] \/ Due(t) = Quota + master[m].delta
                    /\ \A n \in Masters \ {m} : ~Holds(n, t)

(* Master m is about to save a Suno task.                                  *)
Saving(m, t) == master[m].cur = t /\ master[m].pc = "save"

(* With one master, what its loop has read of a Suno task is still so, and *)
(* a failure or a fail reason is refunded once before it is saved.         *)
SunoLine(m, t) ==
    /\ Charged(t) >= 0 /\ TokenCharged(t) >= 0
    /\ row[t].status = "ABSENT" => Charged(t) = 0 /\ TokenCharged(t) = 0
    /\ Listed(m, t) => row[t] = master[m].copy[t]
    /\ Unfinished(t) =>
          Holds(m, t) \/ Saving(m, t) \/ (Charged(t) = Quota /\ TokenCharged(t) = Quota)
    /\ Holds(m, t) =>
          /\ master[m].delta = -Quota
          /\ Charged(t) = IF master[m].pc = "token" THEN 0 ELSE Quota
          /\ TokenCharged(t) = Quota
          /\ IF master[m].back = "save"
             THEN HasReason(master[m].seen) /\ Unfinished(t)
             ELSE row[t].status = "FAILURE"
    /\ Saving(m, t) =>
          /\ Unfinished(t)
          /\ Charged(t) = IF HasReason(master[m].seen) THEN 0 ELSE Quota
          /\ TokenCharged(t) = Charged(t)

SunoBook(t) ==
    kind[t] = "suno" /\ ~lost[t] => \A m \in Masters : live = {m} => SunoLine(m, t)

(* The books of all tasks, with the shape of the loops: what the steps     *)
(* preserve.                                                               *)
BooksInv ==
    /\ TypeOK
    /\ LoopShape
    /\ \A t \in Tasks : VideoBook(t) /\ SunoBook(t)

(* RefundTaskQuota runs at most once for a task, whoever ends it.          *)
TaskInv == BooksInv /\ VideoNeverOverRefunded /\ SunoRefundedOnce

(* The status of a video task that has ended changes no more, unless its   *)
(* channel is deleted (TaskBulkUpdateByID overwrites it then).             *)
EndedStays ==
    [][\A t \in Tasks :
          kind[t] = "video" /\ row[t].status \in Final /\ channel[t] =>
              row'[t] = row[t]]_vars

(* The loop of every running master has died of a panic.                   *)
AllEnded == live \subseteq ended

(* When a video task fails at the provider its user is paid back in full,  *)
(* unless an error or a crash interrupts the refund or nobody polls.       *)
FailedRefunded ==
    \A t \in Tasks :
        kind[t] = "video" /\ upstream[t] = "failure" ~>
            (Charged(t) = 0 /\ TokenCharged(t) = 0) \/ lost[t] \/ AllEnded

(* updateSunoTasks has stored a fail reason of a task that still runs: its *)
(* progress is 100% and no list has it again.                              *)
Stranded(t) == kind[t] = "suno" /\ row[t].finished /\ row[t].status \in Open

(* A task the provider never finishes ends all the same: the sweep fails   *)
(* it after the timeout.  Two ends are none: a Suno task stranded at 100%, *)
(* and every loop dead of an answer with an unknown id.                    *)
TaskEnds ==
    \A t \in Tasks :
        kind[t] # "realtime" /\ row[t].status = "NOT_START" ~>
            row[t].status \in Final \/ Stranded(t) \/ AllEnded

(* No task pays back more than it took (RefundTaskQuota returns the quota  *)
(* charged in advance).  It fails for Gemini and Vertex videos:            *)
(* tryRealtimeFetch revives a task the sweep has failed and refunded, and  *)
(* the next sweep refunds it again.                                        *)
NeverOverRefunded == \A t \in Tasks : paid[t] >= 0 /\ tokenPaid[t] >= 0

=============================================================================
