------------------------- MODULE SubscriptionLedger -------------------------
(***************************************************************************)
(* The user_subscriptions rows of one user (model/subscription.go) under   *)
(* concurrent transactions: pre-consume, the signed adjustment behind      *)
(* settle and refund, the periodic reset, expiry, and the administrator's  *)
(* cancel and delete.                                                      *)
(*                                                                         *)
(* A transaction here reads a row, computes, and saves the WHOLE row       *)
(* (gorm's Save).  The code asks for a row lock with the query option      *)
(* "FOR UPDATE" of gorm v1, which gorm v2 (the version in go.mod) does not *)
(* know.  RowLocks = TRUE is a database that runs write transactions one   *)
(* after the other whatever the query says (SQLite); RowLocks = FALSE is   *)
(* one that lets both read (MySQL, PostgreSQL).                            *)
(*                                                                         *)
(* Operators whose name ends in Bug are plausible mistakes in the code     *)
(* they precede; they show that the properties would notice.               *)
(***************************************************************************)
EXTENDS Integers, FiniteSets, Functions

CONSTANTS
    Subs,           \* subscriptions of the user: 1..N in order of end_time
    Requests,       \* requests funded by the subscriptions
    Amounts,        \* quotas a request pre-consumes or finally costs
    Total,          \* amount_total of each subscription (0 = no limit)
    Ends,           \* end_time of each subscription
    ResetEvery,     \* reset period of the plan (0 = never)
    RowLocks,       \* the database serialises the transactions on a row
    MaxTime         \* bound on the clock

ASSUME LedgerAssumption ==
    /\ Subs \subseteq Nat \ {0}
    /\ IsFiniteSet(Requests) /\ "reset" \notin Requests
    /\ Amounts \subseteq Nat \ {0}
    /\ Total \in Nat
    /\ Ends \in [Subs -> Nat]
    /\ ResetEvery \in Nat
    /\ RowLocks \in BOOLEAN
    /\ MaxTime \in Nat

VARIABLES
    now,            \* the database clock
    row,            \* the subscription rows
    req,            \* per request: its position and its charge
    tx,             \* open transactions: what they read, and when
    job             \* the reset task: what it has listed as due, and when

vars == <<now, row, req, tx, job>>

Statuses == {"active", "expired", "cancelled"}

Row == [exists : BOOLEAN, status : Statuses, ends : Nat, used : Nat,
        last : Nat, next : Nat]   \* last_reset_time and next_reset_time

\* held is what the request has charged to subscription sub, since is the
\* last_reset_time of the row when it was charged, adjusted when it was settled.
Request == [pc : {"idle", "pre", "held", "adjust", "done"},
            sub : Subs \cup {0}, held : Nat, goal : Nat, since : Nat, adjusted : Nat]

NoRequest == [pc |-> "idle", sub |-> 0, held |-> 0, goal |-> 0, since |-> 0,
              adjusted |-> 0]

Owners == Requests \cup {"reset"}

\* A transaction: the rows it read and may save, and its clock.
NoRows == [i \in {} |-> 0]
Closed == [rows |-> NoRows, at |-> 0]

\* Start time of every subscription.
Start == 1

-----------------------------------------------------------------------------
(* Resets.                                                                 *)

\* calcNextResetTime, for a plan with a custom reset period: no reset past the
\* end of the subscription.
NextReset(base, ends) ==
    IF ResetEvery = 0 \/ base + ResetEvery > ends THEN 0 ELSE base + ResetEvery

\* The reset instants from base on that have passed at time t.
Passed(base, ends, t) ==
    {b \in base..t : ResetEvery > 0 /\ b <= ends /\ (b - base) % ResetEvery = 0}

\* The reset moves the period on but keeps the used amount.
MaybeResetBug(w, t) ==
    LET passed == Passed(w.last, w.ends, t) \ {w.last} IN
    IF w.next > t \/ passed = {} THEN w
    ELSE LET latest == CHOOSE b \in passed : \A c \in passed : c <= b IN
         [w EXCEPT !.last = latest, !.next = NextReset(latest, w.ends)]

\* maybeResetUserSubscriptionWithPlanTx: catch up to the last reset instant
\* that has passed and start again from zero; otherwise at most fill in a
\* missing next_reset_time.
MaybeReset(w, t) ==
    LET base == IF w.last <= 0 THEN Start ELSE w.last
        passed == Passed(base, w.ends, t) \ {base} IN
    IF (w.next > 0 /\ w.next > t) \/ ResetEvery = 0 THEN w
    ELSE IF passed # {}
    THEN LET latest == CHOOSE b \in passed : \A c \in passed : c <= b IN
         [w EXCEPT !.used = 0, !.last = latest, !.next = NextReset(latest, w.ends)]
    ELSE IF w.next = 0 /\ NextReset(base, w.ends) > 0
    THEN [w EXCEPT !.next = NextReset(base, w.ends), !.last = base]
    ELSE w

-----------------------------------------------------------------------------
(* Transactions.                                                           *)

Live(w, t) == w.exists /\ w.status = "active" /\ w.ends > t

On(o) == DOMAIN tx[o].rows

Locked(i) == RowLocks /\ \E o \in Owners : i \in On(o)

\* o reads the rows in on, which it may later save, and works with clock t.
Open(o, on, t) ==
    /\ \A i \in on : ~Locked(i)
    /\ tx' = [tx EXCEPT ![o] = [rows |-> [i \in on |-> row[i]], at |-> t]]

Close(o) == tx' = [tx EXCEPT ![o] = Closed]

\* Any remaining quota is enough.
CoversBug(w, a) == Total = 0 \/ w.used < Total

\* PreConsumeUserSubscription: the subscriptions it looks at, in order of
\* end_time, until one covers the amount after its reset, if due.
Covers(w, a) == Total = 0 \/ Total - w.used >= a

Candidates(o) == {i \in On(o) : Live(tx[o].rows[i], tx[o].at)}

Fresh(o, i) == MaybeReset(tx[o].rows[i], tx[o].at)

\* The first candidate that covers a, or 0.
Chosen(o, a) ==
    LET fit == {i \in Candidates(o) : Covers(Fresh(o, i), a)} IN
    IF fit = {} THEN 0 ELSE CHOOSE i \in fit : \A j \in fit : i <= j

LiveAt(t) == {i \in Subs : Live(row[i], t)}

\* The pre-consume reads the clock, t, and then opens its transaction with a
\* read of the subscriptions active at t.
BeginPreConsume(r, a, t) ==
    /\ req[r].pc = "idle"
    /\ LiveAt(t) # {}
    /\ Open(r, LiveAt(t), t)
    /\ req' = [req EXCEPT ![r].pc = "pre", ![r].goal = a]
    /\ UNCHANGED <<now, row, job>>

\* It saves every candidate it has reset on the way, and the chosen one with
\* the amount added; with none it fails and saves nothing.
CommitPreConsume(r) ==
    LET a == req[r].goal
        c == Chosen(r, a) IN
    /\ req[r].pc = "pre"
    /\ IF c = 0
       THEN /\ req' = [req EXCEPT ![r].pc = "done"]
            /\ UNCHANGED row
       ELSE /\ row' = [i \in Subs |->
                  IF i = c THEN [Fresh(r, c) EXCEPT !.used = @ + a]
                  ELSE IF i \in Candidates(r) /\ i < c /\ Fresh(r, i) # tx[r].rows[i]
                       THEN Fresh(r, i)
                  ELSE row[i]]
            /\ req' = [req EXCEPT ![r] = [@ EXCEPT !.pc = "held", !.sub = c, !.held = a,
                                                   !.since = Fresh(r, c).last]]
    /\ Close(r)
    /\ UNCHANGED <<now, job>>

\* PostConsumeUserSubscriptionDelta for a settlement to goal, or, with goal 0,
\* for a refund: it finds the row by id, whatever its status.
BeginAdjust(r, goal) ==
    /\ req[r].pc = "held"
    /\ goal # req[r].held
    /\ row[req[r].sub].exists
    /\ Open(r, {req[r].sub}, now)
    /\ req' = [req EXCEPT ![r].pc = "adjust", ![r].goal = goal]
    /\ UNCHANGED <<now, row, job>>

\* Without the check of the total.
CommitAdjustTotalBug(r) ==
    LET i == req[r].sub
        n == tx[r].rows[i].used + req[r].goal - req[r].held IN
    /\ req[r].pc = "adjust"
    /\ n >= 0
    /\ row' = [row EXCEPT ![i] = [tx[r].rows[i] EXCEPT !.used = n]]
    /\ req' = [req EXCEPT ![r].pc = "done", ![r].held = req[r].goal]
    /\ Close(r)
    /\ UNCHANGED <<now, job>>

\* The new used amount is clamped at zero and must not exceed the total; the
\* whole row is saved as it was read.  A row deleted meanwhile is inserted
\* again: Save updates by primary key and creates what it does not find.
CommitAdjust(r) ==
    LET i == req[r].sub
        w == tx[r].rows[i]
        n == w.used + req[r].goal - req[r].held
        newUsed == IF n < 0 THEN 0 ELSE n IN
    /\ req[r].pc = "adjust"
    /\ IF Total > 0 /\ newUsed > Total
       THEN /\ req' = [req EXCEPT ![r].pc = "done"]
            /\ UNCHANGED row
       ELSE /\ row' = [row EXCEPT ![i] = [w EXCEPT !.used = newUsed]]
            /\ req' = [req EXCEPT ![r] = [@ EXCEPT !.pc = "done", !.held = req[r].goal,
                                                   !.adjusted = w.last]]
    /\ Close(r)
    /\ UNCHANGED <<now, job>>

\* A settlement without a difference, a panic, or an adjustment of a deleted
\* subscription ends the request with its charge as it is.
Keep(r) ==
    /\ req[r].pc = "held"
    /\ req' = [req EXCEPT ![r].pc = "done"]
    /\ UNCHANGED <<now, row, tx, job>>

\* ResetDueSubscriptions lists the active subscriptions whose reset is due.
ListDue ==
    LET due == {i \in Subs : row[i].exists /\ row[i].status = "active"
                             /\ row[i].next > 0 /\ row[i].next <= now} IN
    /\ job.todo = {} /\ On("reset") = {}
    /\ due # {}
    /\ job' = [todo |-> due, at |-> now]
    /\ UNCHANGED <<now, row, req, tx>>

\* For each it opens a transaction, reads the row again under the same
\* condition, the status excepted, and with the clock of the list ...
BeginReset(i) ==
    /\ On("reset") = {}
    /\ i \in job.todo
    /\ IF row[i].exists /\ row[i].next > 0 /\ row[i].next <= job.at
       THEN Open("reset", {i}, job.at) ELSE UNCHANGED tx
    /\ job' = [job EXCEPT !.todo = @ \ {i}]
    /\ UNCHANGED <<now, row, req>>

\* ... and saves what maybeReset changed.
CommitReset(i) ==
    LET w == tx["reset"].rows[i]
        reset == MaybeReset(w, tx["reset"].at) IN
    /\ i \in On("reset")
    /\ row' = [row EXCEPT ![i] = IF reset # w THEN reset ELSE @]
    /\ Close("reset")
    /\ UNCHANGED <<now, req, job>>

\* ExpireDueSubscriptions: one UPDATE of the status column of all subscriptions
\* of the user that had run out by the time t the task read the clock.
Expire(t) ==
    LET due == {i \in Subs : row[i].exists /\ row[i].status = "active"
                             /\ row[i].ends > 0 /\ row[i].ends <= t} IN
    /\ due # {}
    /\ \A i \in due : ~Locked(i)
    /\ row' = [i \in Subs |-> IF i \in due THEN [row[i] EXCEPT !.status = "expired"]
                              ELSE row[i]]
    /\ UNCHANGED <<now, req, tx, job>>

\* Without a transaction of its own: it does not wait for the row.
InvalidateBug(i) ==
    /\ row[i].exists
    /\ row' = [row EXCEPT ![i].status = "cancelled", ![i].ends = now]
    /\ UNCHANGED <<now, req, tx, job>>

\* AdminInvalidateUserSubscription: updates the columns status and end_time.
Invalidate(i) ==
    /\ row[i].exists
    /\ ~Locked(i)
    /\ row' = [row EXCEPT ![i].status = "cancelled", ![i].ends = now]
    /\ UNCHANGED <<now, req, tx, job>>

\* AdminDeleteUserSubscription: a hard delete.
Delete(i) ==
    /\ row[i].exists
    /\ ~Locked(i)
    /\ row' = [row EXCEPT ![i].exists = FALSE]
    /\ UNCHANGED <<now, req, tx, job>>

Tick ==
    /\ now < MaxTime
    /\ now' = now + 1
    /\ UNCHANGED <<row, req, tx, job>>

\* Time is up and nothing is running.
Finished ==
    /\ now = MaxTime
    /\ \A r \in Requests : req[r].pc \in {"idle", "done"}
    /\ UNCHANGED vars

Init ==
    /\ now = Start
    /\ row = [i \in Subs |->
                LET next == NextReset(Start, Ends[i]) IN
                [exists |-> TRUE, status |-> "active", ends |-> Ends[i], used |-> 0,
                 last |-> IF next > 0 THEN Start ELSE 0, next |-> next]]
    /\ req = [r \in Requests |-> NoRequest]
    /\ tx = [o \in Owners |-> Closed]
    /\ job = [todo |-> {}, at |-> 0]

Next ==
    \/ \E r \in Requests :
          \/ \E a \in Amounts, t \in Start..now : BeginPreConsume(r, a, t)
          \/ CommitPreConsume(r)
          \/ \E g \in Amounts \cup {0} : BeginAdjust(r, g)
          \/ CommitAdjust(r)
          \/ Keep(r)
    \/ \E i \in Subs :
          BeginReset(i) \/ CommitReset(i) \/ Invalidate(i) \/ Delete(i)
    \/ ListDue
    \/ \E t \in Start..now : Expire(t)
    \/ Tick
    \/ Finished

Spec == Init /\ [][Next]_vars

-----------------------------------------------------------------------------
(* Properties.                                                             *)

\* Types of the clock, the rows, the requests and the open transactions.
TypeOK ==
    /\ now \in Nat
    /\ row \in [Subs -> Row]
    /\ req \in [Requests -> Request]
    /\ DOMAIN tx = Owners
    /\ \A o \in Owners :
          /\ On(o) \subseteq Subs
          /\ tx[o] \in [rows : [On(o) -> Row], at : Nat]
    /\ job \in [todo : SUBSET Subs, at : Nat]

\* A subscription that has been cancelled, deleted or has run out never comes
\* back to life, whatever transaction was in flight at that moment
\* (AdminInvalidateUserSubscription "ends it immediately").
EndedStaysEnded ==
    [][\A i \in Subs : ~Live(row[i], now) => ~Live(row[i], now)']_vars

\* No interleaving of pre-consumes, adjustments and resets takes the used
\* amount of a limited subscription past its total.
UsedWithinTotal == \A i \in Subs : Total > 0 => row[i].used <= Total

\* A request that has charged something knows the subscription; while it
\* adjusts the charge, its transaction is on that row, and outside of a
\* transaction it has read nothing.
RequestShape ==
    \A r \in Requests :
        /\ req[r].pc \in {"held", "adjust"} => req[r].sub \in Subs
        /\ req[r].pc = "adjust" => On(r) = {req[r].sub}
        /\ req[r].pc \notin {"pre", "adjust"} => On(r) = {}

\* What a transaction has read, and may write back, is within the total too.
ReadWithinTotal ==
    \A o \in Owners : \A i \in On(o) : Total > 0 => tx[o].rows[i].used <= Total

\* With row locks no two transactions are on one row, and what one has read of
\* it is still what it says.
LocksProtect ==
    RowLocks =>
        /\ \A o, p \in Owners : o # p => On(o) \cap On(p) = {}
        /\ \A o \in Owners : \A i \in On(o) : tx[o].rows[i] = row[i]

-----------------------------------------------------------------------------
(* The rows and the requests.                                              *)

\* What the requests charged to subscription i in its current reset period.
Charge(i, r) ==
    IF req[r].sub = i /\ req[r].since = row[i].last THEN req[r].held ELSE 0

Charged(i) == SumFunction([r \in Requests |-> Charge(i, r)])

\* No settlement or refund of subscription i reached over a reset.
NoCrossing(i) ==
    \A r \in Requests :
        req[r].sub = i /\ req[r].since < row[i].last => req[r].adjusted < row[i].last

\* The row and the requests agree: the used amount is what the requests of
\* this reset period hold, so no update is lost and none is applied twice, as
\* long as no settlement or refund reaches over a reset.
UsedAccounted ==
    \A i \in Subs : row[i].exists /\ NoCrossing(i) => row[i].used = Charged(i)

\* PreConsumeUserSubscription compares with the total inside the transaction
\* that charges: concurrent requests never hold more of a limited subscription
\* than its total.
HoldsWithinTotal == \A i \in Subs : Total > 0 /\ NoCrossing(i) => Charged(i) <= Total

\* The same, of deleted rows too: nobody writes to them again.
Account(i) == NoCrossing(i) => row[i].used = Charged(i)

\* A request that has charged nothing yet has no subscription, and no request
\* was charged in a period that is still to come.
ChargedBefore ==
    \A r \in Requests :
        /\ req[r].pc \in {"idle", "pre"} => req[r].sub = 0
        /\ req[r].sub # 0 => req[r].since <= row[req[r].sub].last

\* An active row without a next reset has none to come: maybeReset, which
\* would fill it in and move last_reset_time, finds nothing to fill in.
NoLateReset(w) ==
    w.status = "active" /\ w.next = 0 =>
        NextReset(IF w.last <= 0 THEN Start ELSE w.last, w.ends) = 0

\* The reset task has read rows with a reset to come.
ResetsPlanned == \A i \in On("reset") : tx["reset"].rows[i].next > 0

\* What holds where the rows are locked.
AccountsInv ==
    /\ ChargedBefore
    /\ \A i \in Subs : NoLateReset(row[i])
    /\ ResetsPlanned
    /\ \A i \in Subs : Account(i)

-----------------------------------------------------------------------------
(* The inductive invariant.                                                *)

\* With and without row locks.
RowsInv ==
    /\ TypeOK
    /\ UsedWithinTotal
    /\ RequestShape
    /\ ReadWithinTotal
    /\ LocksProtect

\* The rows are well formed (PostConsumeUserSubscriptionDelta never stores a
\* negative amount) and never used past their total; where they are locked
\* they agree with the requests; with the parts that make this inductive.
LedgerInv == RowsInv /\ (RowLocks => AccountsInv)
=============================================================================
