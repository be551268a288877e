------------------------- MODULE TaskBilling_proofs -------------------------
(* Task billing: proofs for every number of tasks, polling masters, fetch  *)
(* requests and faults, and every quota.                                   *)
EXTENDS TaskBilling, TLAPS

-----------------------------------------------------------------------------
(* The locals of a loop. *)

\* A loop stays well typed when its amount changes.
LEMMA SetDelta ==
  ASSUME NEW l \in Loop, NEW d \in Int
  PROVE  [l EXCEPT !.delta = d] \in Loop
  BY DEF Loop

\* The same for its lists.
LEMMA SetLists ==
  ASSUME NEW l \in Loop, NEW pc \in Pcs, NEW todo \in SUBSET Tasks, NEW copy \in [Tasks -> Rows]
  PROVE  [l EXCEPT !.pc = pc, !.copy = copy, !.todo = todo] \in Loop
  BY DEF Loop

\* The same for its position.
LEMMA SetPc ==
  ASSUME NEW l \in Loop, NEW pc \in Pcs
  PROVE  [l EXCEPT !.pc = pc] \in Loop
  BY DEF Loop

\* The same when a task leaves its list.
LEMMA SetTodo ==
  ASSUME NEW l \in Loop, NEW t \in Tasks
  PROVE  [l EXCEPT !.todo = @ \ {t}] \in Loop
  BY DEF Loop

\* The same when it starts to bill.
LEMMA SetBilling ==
  ASSUME NEW l \in Loop, NEW pc \in Pcs, NEW d \in Int, NEW back \in {"sweep", "poll", "save"}
  PROVE  [l EXCEPT !.pc = pc, !.delta = d, !.back = back] \in Loop
  <1>1. [[l EXCEPT !.pc = pc, !.back = back] EXCEPT !.delta = d] \in Loop
    <2>1. [l EXCEPT !.pc = pc, !.back = back] \in Loop
      BY DEF Loop
    <2> QED
      BY <2>1, SetDelta
  <1> QED
    BY <1>1 DEF Loop

\* The same when the sweep has failed a task.
LEMMA SetSweep ==
  ASSUME NEW l \in Loop, NEW t \in Tasks, NEW d \in Int
  PROVE  [l EXCEPT !.todo = @ \ {t}, !.cur = t, !.pc = "funding", !.delta = d, !.back = "sweep"] \in Loop
  <1>1. [[l EXCEPT !.todo = @ \ {t}, !.cur = t, !.pc = "funding", !.back = "sweep"]
            EXCEPT !.delta = d] \in Loop
    <2>1. [l EXCEPT !.todo = @ \ {t}, !.cur = t, !.pc = "funding", !.back = "sweep"] \in Loop
      BY DEF Loop, Pcs
    <2> QED
      BY <2>1, SetDelta
  <1> QED
    BY <1>1 DEF Loop

\* The same when the provider has answered.
LEMMA SetFetched ==
  ASSUME NEW l \in Loop, NEW t \in Tasks, NEW s \in Results
  PROVE  [l EXCEPT !.todo = @ \ {t}, !.cur = t, !.seen = s, !.pc = "update"] \in Loop
  BY DEF Loop, Pcs

\* A loop that has billed goes on with its lists as they were.
LEMMA ResumeType ==
  ASSUME NEW l \in Loop, NEW pc \in Pcs
  PROVE  /\ Resume(l, pc) \in Loop
         /\ Resume(l, pc).pc = pc /\ Resume(l, pc).todo = l.todo
         /\ Resume(l, pc).copy = l.copy /\ Resume(l, pc).cur = l.cur
         /\ pc = "save" => Resume(l, pc).seen = l.seen
  <1>1. ASSUME NEW s \in Results, NEW d \in Int
        PROVE  [l EXCEPT !.pc = pc, !.delta = d, !.back = "poll", !.seen = s] \in Loop
    <2>1. [l EXCEPT !.pc = pc, !.back = "poll", !.seen = s] \in Loop
      BY <1>1 DEF Loop
    <2>2. [[l EXCEPT !.pc = pc, !.back = "poll", !.seen = s] EXCEPT !.delta = d] \in Loop
      BY <1>1, <2>1, SetDelta
    <2> QED
      BY <2>2 DEF Loop
  <1>2. (IF pc = "save" THEN l.seen ELSE "running") \in Results
    BY DEF Loop, Results
  <1>3. Resume(l, pc) \in Loop
    <2>0. 0 \in Int
      OBVIOUS
    <2>1. \A s \in Results : [l EXCEPT !.pc = pc, !.delta = 0, !.back = "poll", !.seen = s] \in Loop
      BY <1>1, <2>0, Zenon
    <2> QED
      BY <1>2, <2>1 DEF Resume
  <1>4. /\ Resume(l, pc).pc = pc /\ Resume(l, pc).todo = l.todo
        /\ Resume(l, pc).copy = l.copy /\ Resume(l, pc).cur = l.cur
        /\ pc = "save" => Resume(l, pc).seen = l.seen
    BY DEF Resume, Loop
  <1> QED
    BY <1>3, <1>4

-----------------------------------------------------------------------------
(* Rows and quotas. *)

\* Types of the initial locals and rows.
LEMMA IdleTypes == IdleMaster \in Loop /\ IdleFetch \in Handler /\ NoRow \in Rows
  <1>1. AnyTask \in Tasks
    BY TaskAssumption DEF AnyTask
  <1>2. NoRow \in Rows
    BY DEF NoRow, Rows, Statuses
  <1> QED
    BY <1>1, <1>2 DEF IdleMaster, IdleFetch, Loop, Handler, Pcs, Results

\* The row that each answer of the provider is stored as.
LEMMA OutcomeType ==
  ASSUME NEW r \in Results
  PROVE  /\ Outcome(r) \in Rows
         /\ r = "running" => Outcome(r).status = "IN_PROGRESS"
         /\ r = "warned" => Outcome(r).status = "IN_PROGRESS" /\ Outcome(r).finished
         /\ r \in {"success", "flawed"} => Outcome(r).status = "SUCCESS"
         /\ r = "failure" => Outcome(r).status = "FAILURE"
  BY DEF Outcome, Results, Rows, Statuses, Final, Failed

\* The row of a failed task.
LEMMA FailedType == Failed \in Rows /\ Failed.status = "FAILURE"
  BY OutcomeType DEF Failed, Results

\* Types of the charge and of the actual quota.
LEMMA QuotaTypes ==
  ASSUME TypeOK, NEW t \in Tasks
  PROVE  Quota \in Nat /\ Quota > 0 /\ actual[t] \in Nat
  <1>1. actual[t] \in Actuals \cup {0}
    BY DEF TypeOK
  <1>2. (\A q \in Actuals : q \in Nat) /\ Quota \in Nat /\ Quota > 0
    BY TaskAssumption
  <1> QED
    BY <1>1, <1>2

\* An adjustment never gives back more than the charge.
LEMMA AdjustmentType ==
  ASSUME TypeOK, NEW t \in Tasks, NEW r \in Results
  PROVE  Adjustment(t, r) \in Int /\ Quota + Adjustment(t, r) >= 0
  <1>1. Quota \in Nat /\ actual[t] \in Nat
    BY QuotaTypes
  <1> QED
    BY <1>1 DEF Adjustment, Results

-----------------------------------------------------------------------------
(* What the steps of a loop do to its locals. *)

\* The locals of m after a step are l, those of the other masters as before.
Moves(m, l) ==
  /\ l \in Loop
  /\ master' \in [Masters -> Loop]
  /\ master'[m] = l
  /\ \A n \in Masters \ {m} : master'[n] = master[n]

\* A master that goes to l leaves the other masters alone.
LEMMA Moved ==
  ASSUME TypeOK, NEW m \in Masters, NEW l \in Loop, master' = [master EXCEPT ![m] = l]
  PROVE  Moves(m, l)
  BY DEF TypeOK, Moves

\* A list has the unfinished tasks, as they are.
LEMMA ListMoves ==
  ASSUME TypeOK, NEW m \in Masters, SweepList(m) \/ PollList(m)
  PROVE  \E l \in Loop : /\ Moves(m, l) /\ l.pc \in {"sweep", "poll"} /\ l.copy = row
                         /\ \A t \in l.todo : Unfinished(t)
  <1> DEFINE pc == IF master[m].pc = "idle" THEN "sweep" ELSE "poll"
             todo == {t \in Tasks : Unfinished(t) /\ (master[m].pc = "idle" => overdue[t])}
             l == [master[m] EXCEPT !.pc = pc, !.copy = row, !.todo = todo]
  <1>1. master[m] \in Loop /\ row \in [Tasks -> Rows] /\ pc \in Pcs /\ todo \in SUBSET Tasks
    BY DEF TypeOK, Pcs
  <1>2. l \in Loop /\ l.pc = pc /\ l.copy = row /\ l.todo = todo
    <2> HIDE DEF pc, todo
    <2>1. l \in Loop
      BY <1>1, SetLists
    <2> QED
      BY <1>1, <2>1 DEF Loop
  <1>3. master' = [master EXCEPT ![m] = l]
    <2>1. CASE SweepList(m)
      BY <2>1 DEF SweepList, At
    <2>2. CASE PollList(m)
      BY <2>2 DEF PollList, At
    <2> QED
      BY <2>1, <2>2
  <1> HIDE DEF l
  <1>4. Moves(m, l)
    BY <1>2, <1>3, Moved
  <1> QED
    BY <1>2, <1>4

\* The sweep fails and bills a task if it wins the compare-and-set, and
\* otherwise passes it by.
LEMMA SweepMoves ==
  ASSUME TypeOK, NEW m \in Masters, NEW t \in Tasks, SweepTask(m, t)
  PROVE  \E l \in Loop : /\ Moves(m, l)
                         /\ l.todo = master[m].todo \ {t} /\ l.copy = master[m].copy
                         /\ \/ /\ Wins(t, master[m].copy[t])
                               /\ row' = [row EXCEPT ![t] = Failed]
                               /\ l.cur = t /\ l.pc = "funding"
                               /\ l.delta = -Quota /\ l.back = "sweep"
                            \/ row' = row /\ l.cur = master[m].cur /\ l.pc = "sweep"
  <1> DEFINE a == [master[m] EXCEPT !.todo = @ \ {t}, !.cur = t, !.pc = "funding",
                                    !.delta = -Quota, !.back = "sweep"]
             b == [master[m] EXCEPT !.todo = @ \ {t}]
  <1>1. master[m] \in Loop /\ -Quota \in Int
    BY TaskAssumption DEF TypeOK
  <1>2. a \in Loop /\ b \in Loop
    BY <1>1, SetSweep, SetTodo
  <1>3. /\ a.todo = master[m].todo \ {t} /\ a.copy = master[m].copy /\ a.cur = t
        /\ a.pc = "funding" /\ a.delta = -Quota /\ a.back = "sweep"
    BY <1>1 DEF Loop
  <1>4. b.todo = master[m].todo \ {t} /\ b.copy = master[m].copy /\ b.cur = master[m].cur /\ b.pc = "sweep"
    BY <1>1 DEF Loop, SweepTask, At
  <1>5. \/ /\ master' = [master EXCEPT ![m] = a] /\ row' = [row EXCEPT ![t] = Failed]
           /\ Wins(t, master[m].copy[t])
        \/ master' = [master EXCEPT ![m] = b] /\ row' = row
    BY DEF SweepTask
  <1> HIDE DEF a, b
  <1> QED
    BY <1>2, <1>3, <1>4, <1>5, Moved

\* The tasks of a deleted channel leave the list unbilled.
LEMMA BulkMoves ==
  ASSUME TypeOK, NEW m \in Masters, NEW t \in Tasks, BulkFail(m, t)
  PROVE  \E l \in Loop : /\ Moves(m, l) /\ l.pc = "poll"
                         /\ l.todo = master[m].todo \ {t} /\ l.copy = master[m].copy
  <1> DEFINE b == [master[m] EXCEPT !.todo = @ \ {t}]
  <1>1. master[m] \in Loop /\ b \in Loop
    BY SetTodo DEF TypeOK
  <1>2. b.todo = master[m].todo \ {t} /\ b.copy = master[m].copy /\ b.pc = "poll"
    BY <1>1 DEF Loop, BulkFail, At
  <1>3. master' = [master EXCEPT ![m] = b]
    BY DEF BulkFail
  <1> HIDE DEF b
  <1> QED
    BY <1>1, <1>2, <1>3, Moved

\* A poll goes on with the provider's answer, or with a failure for an
\* unreadable one.
LEMMA FetchMoves ==
  ASSUME TypeOK, NEW m \in Masters, NEW t \in Tasks, PollFetch(m, t)
  PROVE  \E l \in Loop : /\ Moves(m, l)
                         /\ l.todo = master[m].todo \ {t} /\ l.copy = master[m].copy
                         /\ \/ l.pc = "poll" /\ l.cur = master[m].cur
                            \/ /\ l.pc = "update" /\ l.cur = t
                               /\ l.seen = upstream[t] \/ l.seen = "failure"
  <1> DEFINE a(s) == [master[m] EXCEPT !.todo = @ \ {t}, !.cur = t, !.seen = s, !.pc = "update"]
             b == [master[m] EXCEPT !.todo = @ \ {t}]
  <1>1. master[m] \in Loop /\ upstream[t] \in Results /\ "failure" \in Results
    BY DEF TypeOK, Results
  <1>2. b \in Loop /\ \A s \in Results : a(s) \in Loop
    BY <1>1, SetFetched, SetTodo
  <1>3. \A s \in Results : /\ a(s).todo = master[m].todo \ {t} /\ a(s).copy = master[m].copy
                           /\ a(s).cur = t /\ a(s).pc = "update" /\ a(s).seen = s
    BY <1>1 DEF Loop
  <1>4. b.todo = master[m].todo \ {t} /\ b.copy = master[m].copy /\ b.cur = master[m].cur /\ b.pc = "poll"
    BY <1>1 DEF Loop, PollFetch, At
  <1>5. \/ master' = [master EXCEPT ![m] = a(upstream[t])]
        \/ master' = [master EXCEPT ![m] = a("failure")]
        \/ master' = [master EXCEPT ![m] = b]
    BY DEF PollFetch
  <1> HIDE DEF a, b
  <1> QED
    BY <1>1, <1>2, <1>3, <1>4, <1>5, Moved

\* A poll bills a task if it wins the compare-and-set, and otherwise passes it
\* by.
LEMMA UpdateMoves ==
  ASSUME TypeOK, NEW m \in Masters, PollUpdate(m)
  PROVE  LET t == master[m].cur
             new == Outcome(master[m].seen)
             delta == Adjustment(t, master[m].seen)
         IN  \E l \in Loop :
               /\ Moves(m, l)
               /\ l.todo = master[m].todo /\ l.copy = master[m].copy /\ l.cur = t
               /\ \/ /\ Wins(t, master[m].copy[t]) /\ row' = [row EXCEPT ![t] = new]
                     /\ IF delta # 0 THEN l.pc = "funding" /\ l.delta = delta /\ l.back = "poll"
                                     ELSE l.pc = "poll"
                  \/ row' = row /\ l.pc = "poll"
  <1> DEFINE t == master[m].cur
             delta == Adjustment(t, master[m].seen)
             a == [master[m] EXCEPT !.pc = "funding", !.delta = delta, !.back = "poll"]
             b == Resume(master[m], "poll")
  <1>1. master[m] \in Loop /\ t \in Tasks /\ master[m].seen \in Results /\ {"funding", "poll"} \subseteq Pcs
    BY DEF TypeOK, Loop, Pcs
  <1>2. delta \in Int
    BY <1>1, AdjustmentType
  <1>3. \/ /\ Wins(t, master[m].copy[t]) /\ row' = [row EXCEPT ![t] = Outcome(master[m].seen)]
           /\ master' = [master EXCEPT ![m] = IF delta # 0 THEN a ELSE b]
        \/ row' = row /\ master' = [master EXCEPT ![m] = b]
    BY DEF PollUpdate
  <1>4. /\ b \in Loop /\ b.todo = master[m].todo /\ b.copy = master[m].copy /\ b.cur = t /\ b.pc = "poll"
    BY <1>1, ResumeType
  <1> HIDE DEF b, delta
  <1>5. a \in Loop
    BY <1>1, <1>2, SetBilling
  <1>6. /\ a.todo = master[m].todo /\ a.copy = master[m].copy /\ a.cur = t
        /\ a.pc = "funding" /\ a.delta = delta /\ a.back = "poll"
    BY <1>1, <1>2 DEF Loop
  <1> HIDE DEF a
  <1>7. CASE Wins(t, master[m].copy[t]) /\ row' = [row EXCEPT ![t] = Outcome(master[m].seen)]
             /\ master' = [master EXCEPT ![m] = a] /\ delta # 0
    BY <1>5, <1>6, <1>7, Moved DEF delta
  <1>8. CASE Wins(t, master[m].copy[t]) /\ row' = [row EXCEPT ![t] = Outcome(master[m].seen)]
             /\ master' = [master EXCEPT ![m] = b] /\ delta = 0
    BY <1>4, <1>8, Moved DEF delta
  <1>9. CASE row' = row /\ master' = [master EXCEPT ![m] = b]
    BY <1>4, <1>9, Moved
  <1> QED
    BY <1>3, <1>7, <1>8, <1>9

\* A Suno task is refunded first and saved afterwards.
LEMMA SunoMoves ==
  ASSUME TypeOK, NEW m \in Masters, SunoUpdate(m)
  PROVE  \E l \in Loop :
            /\ Moves(m, l)
            /\ l.todo = master[m].todo /\ l.copy = master[m].copy /\ l.cur = master[m].cur
            /\ \/ l.pc = "poll"
               \/ /\ l.pc = "funding" /\ l.delta = -Quota /\ l.back = "save"
                  /\ HasReason(l.seen)
               \/ l.pc = "save" /\ ~HasReason(l.seen)
  <1> DEFINE a == [master[m] EXCEPT !.pc = "funding", !.delta = -Quota, !.back = "save"]
             b == Resume(master[m], "poll")
             c == [master[m] EXCEPT !.pc = "save"]
  <1>1. /\ master[m] \in Loop /\ -Quota \in Int /\ {"funding", "poll", "save"} \subseteq Pcs
        /\ master[m].seen \in Results
    BY TaskAssumption DEF TypeOK, Loop, Pcs
  <1>2. \/ master' = [master EXCEPT ![m] = b]
        \/ master' = [master EXCEPT ![m] = a] /\ HasReason(master[m].seen)
        \/ master' = [master EXCEPT ![m] = c] /\ ~HasReason(master[m].seen)
    BY DEF SunoUpdate
  <1>4. /\ b \in Loop /\ b.todo = master[m].todo /\ b.copy = master[m].copy
        /\ b.cur = master[m].cur /\ b.pc = "poll"
    BY <1>1, ResumeType
  <1>5. a \in Loop /\ c \in Loop
    BY <1>1, SetBilling, SetPc
  <1>6. /\ a.todo = master[m].todo /\ a.copy = master[m].copy /\ a.cur = master[m].cur
        /\ a.pc = "funding" /\ a.delta = -Quota /\ a.back = "save" /\ a.seen = master[m].seen
    BY <1>1 DEF Loop
  <1>7. /\ c.todo = master[m].todo /\ c.copy = master[m].copy /\ c.cur = master[m].cur
        /\ c.pc = "save" /\ c.seen = master[m].seen
    BY <1>1 DEF Loop
  <1> HIDE DEF a, b, c
  <1> QED
    BY <1>2, <1>4, <1>5, <1>6, <1>7, Moved

\* SunoSave, and the end of the billing.
LEMMA ResumeMoves ==
  ASSUME TypeOK, NEW m \in Masters, NEW pc \in {"sweep", "poll", "save"},
         master' = [master EXCEPT ![m] = Resume(@, pc)]
  PROVE  \E l \in Loop :
            /\ Moves(m, l) /\ l.pc = pc
            /\ l.todo = master[m].todo /\ l.copy = master[m].copy /\ l.cur = master[m].cur
            /\ pc = "save" => l.seen = master[m].seen
  <1> DEFINE b == Resume(master[m], pc)
  <1>1. master[m] \in Loop /\ pc \in Pcs
    BY DEF TypeOK, Pcs
  <1>2. /\ b \in Loop /\ b.todo = master[m].todo /\ b.copy = master[m].copy
        /\ b.cur = master[m].cur /\ b.pc = pc
        /\ pc = "save" => b.seen = master[m].seen
    BY <1>1, ResumeType
  <1>3. master' = [master EXCEPT ![m] = b]
    OBVIOUS
  <1> HIDE DEF b
  <1> QED
    BY <1>2, <1>3, Moved

\* The token is adjusted after the funding source, by the same amount.
LEMMA TokenMoves ==
  ASSUME TypeOK, NEW m \in Masters, master' = [master EXCEPT ![m].pc = "token"]
  PROVE  \E l \in Loop :
            /\ Moves(m, l) /\ l.pc = "token"
            /\ l.todo = master[m].todo /\ l.copy = master[m].copy /\ l.cur = master[m].cur
            /\ l.seen = master[m].seen /\ l.delta = master[m].delta /\ l.back = master[m].back
  <1> DEFINE b == [master[m] EXCEPT !.pc = "token"]
  <1>1. master[m] \in Loop /\ "token" \in Pcs
    BY DEF TypeOK, Pcs
  <1>2. b \in Loop
    BY <1>1, SetPc
  <1>3. /\ b.todo = master[m].todo /\ b.copy = master[m].copy /\ b.cur = master[m].cur
        /\ b.pc = "token"
        /\ b.seen = master[m].seen /\ b.delta = master[m].delta /\ b.back = master[m].back
    BY <1>1 DEF Loop
  <1>4. master' = [master EXCEPT ![m] = b]
    OBVIOUS
  <1> HIDE DEF b
  <1> QED
    BY <1>2, <1>3, <1>4, Moved

\* A loop that ends or crashes has nothing left to do.
LEMMA IdleMoves ==
  ASSUME TypeOK, NEW m \in Masters, PollEnd(m) \/ Crash(m) \/ \E t \in Tasks : PollPanic(m, t)
  PROVE  \E l \in Loop : Moves(m, l) /\ l.pc = "idle" /\ l.todo = {}
  <1>1. IdleMaster \in Loop /\ IdleMaster.pc = "idle" /\ IdleMaster.todo = {}
    BY IdleTypes DEF IdleMaster
  <1>2. master' = [master EXCEPT ![m] = IdleMaster]
    BY DEF PollEnd, Crash, PollPanic
  <1> QED
    BY <1>1, <1>2, Moved

-----------------------------------------------------------------------------
(* Steps seen from a task, or a loop, they do not concern. *)

\* Nothing of loop m that the books of task t speak of changes, except that
\* the task may leave its list, or be listed as it is.
Quiet(m, t) ==
  /\ Holds(m, t)' <=> Holds(m, t)
  /\ Holds(m, t) => /\ master'[m].pc = master[m].pc /\ master'[m].delta = master[m].delta
                    /\ master'[m].back = master[m].back /\ master'[m].seen = master[m].seen
  /\ master'[m].cur = t /\ master'[m].pc = "update" =>
        master[m].cur = t /\ master[m].pc = "update" /\ master'[m].seen = master[m].seen
  /\ Saving(m, t)' <=> Saving(m, t)
  /\ Saving(m, t) => master'[m].seen = master[m].seen
  /\ Listed(m, t)' => \/ Listed(m, t) /\ master'[m].copy[t] = master[m].copy[t]
                      \/ master'[m].copy[t] = row[t]

\* A task whose row and charges do not change.
Untouched(t) ==
  /\ kind' = kind /\ live' = live
  /\ row'[t] = row[t]
  /\ paid'[t] = paid[t] /\ tokenPaid'[t] = tokenPaid[t]
  /\ unpaid'[t] = unpaid[t] /\ tokenUnpaid'[t] = tokenUnpaid[t]
  /\ lost'[t] = lost[t]
  /\ actual'[t] = actual[t] \/ upstream[t] \in Pending
  /\ upstream[t] \notin Pending => upstream'[t] \notin Pending
  /\ kind[t] = "video" /\ upstream[t] # "flawed" => upstream'[t] # "flawed"

\* The charges of a task are numbers.
LEMMA ChargeType ==
  ASSUME TypeOK, NEW t \in Tasks
  PROVE  Charged(t) \in Int /\ TokenCharged(t) \in Int
  BY DEF TypeOK, Charged, TokenCharged

\* The charges change with what has been paid only.
LEMMA SameCharge ==
  ASSUME NEW t \in Tasks, paid'[t] = paid[t], tokenPaid'[t] = tokenPaid[t],
         unpaid'[t] = unpaid[t], tokenUnpaid'[t] = tokenUnpaid[t]
  PROVE  (Charged(t)' = Charged(t)) /\ (TokenCharged(t)' = TokenCharged(t))
  BY DEF Charged, TokenCharged

\* The books of a task that no step concerns stay balanced.
LEMMA UntouchedBooks ==
  ASSUME BooksInv, NEW t \in Tasks, Untouched(t), \A m \in Masters : Quiet(m, t)
  PROVE  VideoBook(t)' /\ SunoBook(t)'
  <1>1. VideoBook(t)'
    <2>1. VideoBook(t)
      BY DEF BooksInv
    <2>2. kind[t] = "video" => (Due(t)' = Due(t))
      BY <2>1 DEF Untouched, Due, VideoBook
    <2>3. (Charged(t)' = Charged(t)) /\ (TokenCharged(t)' = TokenCharged(t))
      BY SameCharge DEF Untouched
    <2> QED
      BY <2>1, <2>2, <2>3 DEF VideoBook, Quiet, Untouched
  <1>2. SunoBook(t)'
    <2>1. SunoBook(t)
      BY DEF BooksInv
    <2>2. \A m \in Masters : SunoLine(m, t) => SunoLine(m, t)'
      <3>1. (Charged(t)' = Charged(t)) /\ (TokenCharged(t)' = TokenCharged(t))
        BY SameCharge DEF Untouched
      <3>2. Unfinished(t)' <=> Unfinished(t)
        BY DEF Unfinished, Untouched
      <3> QED
        BY <3>1, <3>2 DEF SunoLine, Quiet, Untouched
    <2> QED
      BY <2>1, <2>2 DEF SunoBook, Untouched
  <1> QED
    BY <1>1, <1>2

\* A step of one master does not concern the tasks of the others.
LEMMA OthersQuiet ==
  ASSUME NEW m \in Masters, NEW l, Moves(m, l), NEW t \in Tasks, Quiet(m, t)
  PROVE  \A n \in Masters : Quiet(n, t)
  BY DEF Moves, Quiet, Holds, Saving, Listed

\* A step of no master concerns no task's books.
LEMMA LoopsQuiet ==
  ASSUME master' = master, NEW t \in Tasks
  PROVE  \A n \in Masters : Quiet(n, t)
  BY DEF Quiet, Holds, Saving, Listed

\* A loop that has moved on, no row being lost.
LEMMA LoopMoved ==
  ASSUME BooksInv, NEW m \in Masters, NEW l, Moves(m, l), kind' = kind, live' = live, fetch' = fetch,
         \A n \in Masters \ {m} : n \in ended' <=> n \in ended,
         \A t \in Tasks : row[t].status # "ABSENT" => row'[t].status # "ABSENT",
         LoopOK(m)'
  PROVE  LoopShape'
  <1>1. \A n \in Masters \ {m} : LoopOK(n)'
    BY DEF BooksInv, LoopShape, LoopOK, Listed, Moves
  <1> QED
    BY <1>1 DEF BooksInv, LoopShape

-----------------------------------------------------------------------------
(* Types. *)

\* The types hold initially.
LEMMA InitType == Init => TypeOK
  <1>1. (CHOOSE m \in Masters : TRUE) \in Masters
    BY TaskAssumption
  <1>2. 0 \in 0..MaxFetches /\ 0 \in 0..MaxFaults
    BY TaskAssumption
  <1> QED
    BY <1>1, <1>2, IdleTypes DEF Init, TypeOK, Results

\* The count of faults stays within its bound.
LEMMA FaultType ==
  ASSUME faults \in 0..MaxFaults, faults' = faults \/ (faults < MaxFaults /\ faults' = faults + 1)
  PROVE  faults' \in 0..MaxFaults
  BY TaskAssumption

\* The count of fetches stays within its bound.
LEMMA FetchesType ==
  ASSUME fetches \in 0..MaxFetches, fetches < MaxFetches, fetches' = fetches + 1
  PROVE  fetches' \in 0..MaxFetches
  BY TaskAssumption

\* The variables the loops do not write.
LEMMA MasterTypes ==
  ASSUME TypeOK, master' \in [Masters -> Loop], UNCHANGED <<setup, provider, handlers>>,
         row' \in [Tasks -> Rows], paid' \in [Tasks -> Int], tokenPaid' \in [Tasks -> Int],
         lost' \in [Tasks -> BOOLEAN],
         faults' = faults \/ (faults < MaxFaults /\ faults' = faults + 1)
  PROVE  TypeOK'
  BY FaultType DEF TypeOK, setup, provider, handlers

\* Every step of a master keeps the types.
LEMMA MasterStepType ==
  ASSUME TypeOK, NEW m \in Masters, MasterStep(m) \/ Crash(m) \/ \E t \in Tasks : PollPanic(m, t)
  PROVE  TypeOK'
  <1>1. CASE SweepList(m) \/ PollList(m)
    <2>1. master' \in [Masters -> Loop]
      BY <1>1, ListMoves DEF Moves
    <2> QED
      BY <1>1, <2>1, MasterTypes DEF SweepList, PollList, money, TypeOK
  <1>2. ASSUME NEW t \in Tasks, SweepTask(m, t) PROVE TypeOK'
    <2>1. master' \in [Masters -> Loop]
      BY <1>2, SweepMoves DEF Moves
    <2>2. row' \in [Tasks -> Rows]
      BY <1>2, FailedType DEF SweepTask, TypeOK
    <2> QED
      BY <1>2, <2>1, <2>2, MasterTypes DEF SweepTask, money, TypeOK
  <1>3. ASSUME NEW t \in Tasks, BulkFail(m, t) PROVE TypeOK'
    <2>1. master' \in [Masters -> Loop]
      BY <1>3, BulkMoves DEF Moves
    <2>2. row' \in [Tasks -> Rows]
      BY <1>3, FailedType DEF BulkFail, TypeOK
    <2> QED
      BY <1>3, <2>1, <2>2, MasterTypes DEF BulkFail, money, TypeOK
  <1>4. ASSUME NEW t \in Tasks, PollFetch(m, t) PROVE TypeOK'
    <2>1. master' \in [Masters -> Loop]
      BY <1>4, FetchMoves DEF Moves
    <2> QED
      BY <1>4, <2>1, MasterTypes DEF PollFetch, money, TypeOK
  <1>5. CASE PollUpdate(m)
    <2>1. master' \in [Masters -> Loop]
      BY <1>5, UpdateMoves DEF Moves
    <2>2. row' \in [Tasks -> Rows]
      <3>1. Outcome(master[m].seen) \in Rows
        BY OutcomeType DEF TypeOK, Loop
      <3> QED
        BY <1>5, <3>1 DEF PollUpdate, TypeOK
    <2> QED
      BY <1>5, <2>1, <2>2, MasterTypes DEF PollUpdate, money, TypeOK
  <1>6. CASE SunoUpdate(m)
    <2>1. master' \in [Masters -> Loop]
      BY <1>6, SunoMoves DEF Moves
    <2> QED
      BY <1>6, <2>1, MasterTypes DEF SunoUpdate, money, TypeOK
  <1>7. CASE SunoSave(m)
    <2>1. master' \in [Masters -> Loop]
      BY <1>7, ResumeMoves DEF SunoSave, Moves
    <2>2. row' \in [Tasks -> Rows]
      <3>1. Outcome(master[m].seen) \in Rows
        BY OutcomeType DEF TypeOK, Loop
      <3> QED
        BY <1>7, <3>1 DEF SunoSave, TypeOK
    <2> QED
      BY <1>7, <2>1, <2>2, MasterTypes DEF SunoSave, money, TypeOK
  <1>8. CASE AdjustFunding(m)
    <2>0. master[m].back \in {"sweep", "poll", "save"} /\ master[m].delta \in Int /\ master[m].cur \in Tasks
      BY DEF TypeOK, Loop
    <2>1. master' \in [Masters -> Loop]
      BY <1>8, <2>0, ResumeMoves, TokenMoves DEF AdjustFunding, Moves
    <2>2. paid' \in [Tasks -> Int]
      BY <1>8, <2>0 DEF AdjustFunding, TypeOK
    <2> QED
      BY <1>8, <2>1, <2>2, MasterTypes DEF AdjustFunding, TypeOK
  <1>9. CASE AdjustToken(m)
    <2>0. master[m].back \in {"sweep", "poll", "save"} /\ master[m].delta \in Int /\ master[m].cur \in Tasks
      BY DEF TypeOK, Loop
    <2>1. master' \in [Masters -> Loop]
      BY <1>9, <2>0, ResumeMoves DEF AdjustToken, Moves
    <2>2. tokenPaid' \in [Tasks -> Int]
      BY <1>9, <2>0 DEF AdjustToken, TypeOK
    <2> QED
      BY <1>9, <2>1, <2>2, MasterTypes DEF AdjustToken, TypeOK
  <1>10. CASE PollEnd(m) \/ Crash(m)
    <2>1. master' \in [Masters -> Loop]
      BY <1>10, IdleMoves DEF Moves
    <2> QED
      BY <1>10, <2>1, MasterTypes DEF PollEnd, Crash, money, TypeOK
  <1>11. ASSUME NEW t \in Tasks, PollPanic(m, t) PROVE TypeOK'
    <2>1. master' \in [Masters -> Loop]
      BY <1>11, IdleMoves DEF Moves
    <2>2. ended' \subseteq Masters /\ (faults' \in 0..MaxFaults)
      BY <1>11, FaultType DEF PollPanic, TypeOK
    <2> QED
      BY <1>11, <2>1, <2>2 DEF PollPanic, TypeOK, provider, handlers, money
  <1> QED
    BY <1>1, <1>2, <1>3, <1>4, <1>5, <1>6, <1>7, <1>8, <1>9, <1>10, <1>11 DEF MasterStep

\* One outcome of a submission.
SubmitAs(t, s, failed) ==
  /\ faults' = faults + s.errors + failed
  /\ faults' <= MaxFaults
  /\ paid' = [paid EXCEPT ![t] = s.source]
  /\ tokenPaid' = [tokenPaid EXCEPT ![t] = s.token]
  /\ unpaid' = [unpaid EXCEPT ![t] = Quota - s.source]
  /\ tokenUnpaid' = [tokenUnpaid EXCEPT ![t] = Quota - s.token]
  /\ row' = IF failed = 0 THEN [row EXCEPT ![t].status = "NOT_START"] ELSE row
  /\ lost' = [lost EXCEPT ![t] = @ \/ failed = 1]

\* A submission has one of these outcomes.
LEMMA SubmitCases ==
  ASSUME NEW t \in Tasks, Submit(t)
  PROVE  \E held \in Estimates : \E s \in Settlements(held), failed \in {0, 1} : SubmitAs(t, s, failed)
  BY Zenon DEF Submit, SubmitAs

\* A settlement charges the quota or leaves what was held.
LEMMA SettlementType ==
  ASSUME NEW held \in Estimates, NEW s \in Settlements(held)
  PROVE  /\ Quota \in Int /\ s.source \in Int /\ s.token \in Int /\ s.errors \in 0..1
         /\ s.source # 0
  <1>1. Quota \in Int /\ held \in Int /\ Quota > 0 /\ held > 0
    BY TaskAssumption
  <1> QED
    BY <1>1 DEF Settlements

\* So do the steps around a task.
LEMMA TaskStepType ==
  ASSUME TypeOK, NEW t \in Tasks, Submit(t) \/ Finish(t) \/ Age(t) \/ DeleteChannel(t)
  PROVE  TypeOK'
  <1> USE DEF setup, provider, handlers, money
  <1>1. CASE Submit(t)
    <2>0. PICK held \in Estimates : \E s \in Settlements(held), failed \in {0, 1} : SubmitAs(t, s, failed)
      BY <1>1, SubmitCases
    <2>1. PICK s \in Settlements(held), failed \in {0, 1} : SubmitAs(t, s, failed)
      BY <2>0
    <2>2. Quota \in Int /\ s.source \in Int /\ s.token \in Int /\ s.errors \in 0..1
      BY SettlementType
    <2>3. row' \in [Tasks -> Rows]
      BY <2>1 DEF SubmitAs, TypeOK, Rows, Statuses
    <2>4. faults' \in 0..MaxFaults
      <3>1. MaxFaults \in Nat /\ faults \in Nat
        BY TaskAssumption DEF TypeOK
      <3> QED
        BY <2>1, <2>2, <3>1 DEF SubmitAs
    <2>5. lost' \in [Tasks -> BOOLEAN]
      BY <2>1 DEF SubmitAs, TypeOK
    <2>6. UNCHANGED <<kind, live, ended, provider, master, handlers>>
      BY <1>1 DEF Submit
    <2>7. /\ paid' \in [Tasks -> Int] /\ tokenPaid' \in [Tasks -> Int]
          /\ unpaid' \in [Tasks -> Int] /\ tokenUnpaid' \in [Tasks -> Int]
      BY <2>1, <2>2 DEF SubmitAs, TypeOK
    <2> QED
      BY <2>3, <2>4, <2>5, <2>6, <2>7 DEF TypeOK
  <1>2. CASE Finish(t)
    <2>1. upstream' \in [Tasks -> Results]
      BY <1>2 DEF Finish, TypeOK, Results
    <2> QED
      BY <1>2, <2>1 DEF Finish, TypeOK
  <1>3. CASE Age(t)
    BY <1>3 DEF Age, TypeOK
  <1>4. CASE DeleteChannel(t)
    <2>1. faults' \in 0..MaxFaults
      BY <1>4, FaultType DEF DeleteChannel, TypeOK
    <2> QED
      BY <1>4, <2>1 DEF DeleteChannel, TypeOK
  <1> QED
    BY <1>1, <1>2, <1>3, <1>4

\* So does every step of a user's fetch.
LEMMA FetchStepType ==
  ASSUME TypeOK, NEW f \in Fetchers, FetchStep(f)
  PROVE  TypeOK'
  <1> USE DEF setup, provider, handlers, money
  <1>1. ASSUME NEW t \in Tasks, FetchRead(f, t) PROVE TypeOK'
    <2>1. fetch' \in [Fetchers -> Handler]
      <3>1. fetch[f] \in Handler /\ row[t] \in Rows
        BY <1>1 DEF TypeOK
      <3>2. [fetch[f] EXCEPT !.pc = "read", !.cur = t, !.copy = row[t]] \in Handler
        BY <1>1, <3>1 DEF Handler
      <3> QED
        BY <1>1, <3>2 DEF FetchRead, TypeOK
    <2>2. fetches' \in 0..MaxFetches
      BY <1>1, FetchesType DEF FetchRead, TypeOK
    <2> QED
      BY <1>1, <2>1, <2>2 DEF FetchRead, TypeOK
  <1>2. CASE FetchAnswer(f)
    <2>1. fetch' \in [Fetchers -> Handler]
      <3>1. fetch[f] \in Handler /\ upstream[fetch[f].cur] \in Results
        BY DEF TypeOK, Handler
      <3>2. [fetch[f] EXCEPT !.pc = "answered", !.seen = upstream[fetch[f].cur]] \in Handler
        BY <3>1 DEF Handler
      <3> QED
        BY <1>2, <3>2, IdleTypes DEF FetchAnswer, TypeOK
    <2> QED
      BY <1>2, <2>1 DEF FetchAnswer, TypeOK
  <1>3. CASE FetchUpdate(f)
    <2>1. Outcome(fetch[f].seen) \in Rows
      BY OutcomeType DEF TypeOK, Handler
    <2>2. row' \in [Tasks -> Rows] /\ fetch' \in [Fetchers -> Handler]
      BY <1>3, <2>1, IdleTypes DEF FetchUpdate, TypeOK
    <2> QED
      BY <1>3, <2>2 DEF FetchUpdate, TypeOK
  <1> QED
    BY <1>1, <1>2, <1>3 DEF FetchStep

-----------------------------------------------------------------------------
(* The inductive step, action by action. *)

\* Steps that concern no task's row or charges: the loops keep what they have.
LEMMA NoTaskBooks ==
  ASSUME BooksInv, TypeOK', LoopShape',
         \A t \in Tasks : Untouched(t) /\ \A m \in Masters : Quiet(m, t)
  PROVE  BooksInv'
  BY UntouchedBooks DEF BooksInv

\* Steps that concern one task.
LEMMA OneTaskBooks ==
  ASSUME BooksInv, TypeOK', LoopShape', NEW t \in Tasks,
         \A u \in Tasks \ {t} : Untouched(u) /\ \A m \in Masters : Quiet(m, u),
         VideoBook(t)', SunoBook(t)'
  PROVE  BooksInv'
  BY UntouchedBooks DEF BooksInv

\* A submitted task has been charged its quota.
LEMMA SubmitBooks ==
  ASSUME BooksInv, NEW t \in Tasks, Submit(t)
  PROVE  BooksInv'
  <1> USE DEF setup, provider, handlers, money
  <1>1. TypeOK /\ TypeOK'
    BY TaskStepType DEF BooksInv
  <1>2. UNCHANGED <<kind, live, ended, master, fetch, upstream, actual>> /\ row[t].status = "ABSENT"
    BY DEF Submit
  <1>h. PICK held \in Estimates : \E s \in Settlements(held), failed \in {0, 1} : SubmitAs(t, s, failed)
    BY SubmitCases
  <1>s. PICK s \in Settlements(held), failed \in {0, 1} : SubmitAs(t, s, failed)
    BY <1>h
  <1>c. (Charged(t)' = Quota) /\ (TokenCharged(t)' = Quota)
    <2>1. s.source \in Int /\ s.token \in Int /\ Quota \in Int
      BY SettlementType
    <2>2. /\ paid'[t] = s.source /\ unpaid'[t] = Quota - s.source
          /\ tokenPaid'[t] = s.token /\ tokenUnpaid'[t] = Quota - s.token
      BY <1>1, <1>s DEF SubmitAs, TypeOK
    <2> QED
      BY <2>1, <2>2 DEF Charged, TokenCharged
  <1>3. /\ row'[t].status = "NOT_START" \/ (row'[t].status = "ABSENT" /\ lost'[t])
        /\ \A u \in Tasks \ {t} : Untouched(u)
    <2>1. \A u \in Tasks \ {t} : Untouched(u)
      BY <1>1, <1>2, <1>s DEF SubmitAs, TypeOK, Untouched
    <2>2. CASE failed = 0
      <3>1. row[t] \in Rows /\ row' = [row EXCEPT ![t].status = "NOT_START"]
        BY <1>1, <1>s, <2>2 DEF SubmitAs, TypeOK
      <3>2. row'[t].status = "NOT_START"
        BY <1>1, <3>1 DEF TypeOK, Rows
      <3> QED
        BY <2>1, <3>2
    <2>3. CASE failed = 1
      <3>1. row' = row
        BY <1>s, <2>3 DEF SubmitAs
      <3>2. lost'[t]
        BY <1>1, <1>s, <2>3, Zenon DEF SubmitAs, TypeOK
      <3> QED
        BY <1>2, <2>1, <3>1, <3>2
    <2> QED
      BY <2>2, <2>3
  <1>4. \A u \in Tasks, m \in Masters : Quiet(m, u)
    BY <1>2, LoopsQuiet
  <1>5. LoopShape'
    <2>1. \A m \in Masters : ~Listed(m, t)
      BY <1>2 DEF BooksInv, LoopShape, LoopOK
    <2>2. \A m \in Masters, u \in Tasks \ {t} : row'[u] = row[u] /\ (Listed(m, u)' <=> Listed(m, u))
      BY <1>2, <1>3 DEF Listed, Untouched
    <2>3. \A m \in Masters : ~Listed(m, t)'
      BY <1>2, <2>1 DEF Listed
    <2> QED
      BY <1>2, <2>2, <2>3 DEF BooksInv, LoopShape, LoopOK
  <1>6. VideoBook(t)'
    <2>1. VideoBook(t) /\ (Quota \in Nat)
      BY TaskAssumption DEF BooksInv
    <2>2. kind[t] = "video" => \A m \in Masters : ~Holds(m, t)
      BY <1>2, <2>1 DEF VideoBook, Final
    <2>3. \A m \in Masters : Holds(m, t)' = Holds(m, t)
      BY <1>2 DEF Holds
    <2>4. \A m \in Masters : kind[t] = "video" /\ master[m].cur = t =>
             master[m].pc # "update"
      BY <1>2 DEF BooksInv, LoopShape, LoopOK, Listed
    <2> QED
      BY <1>2, <1>3, <1>c, <2>1, <2>2, <2>3, <2>4 DEF VideoBook, Open, Final
  <1>7. SunoBook(t)'
    <2>1. SunoBook(t) /\ (Quota \in Nat)
      BY TaskAssumption DEF BooksInv
    <2>2. \A m \in Masters : SunoLine(m, t) => ~Holds(m, t) /\ ~Saving(m, t)
      <3>1. ~Unfinished(t) /\ row[t].status # "FAILURE"
        BY <1>2 DEF Unfinished
      <3> QED
        BY <3>1 DEF SunoLine
    <2>3. \A m \in Masters : ~Listed(m, t)
      BY <1>2 DEF BooksInv, LoopShape, LoopOK
    <2>4. \A m \in Masters : /\ (Holds(m, t)' = Holds(m, t)) /\ (Saving(m, t)' = Saving(m, t))
                             /\ (Listed(m, t)' = Listed(m, t))
      BY <1>2 DEF Holds, Saving, Listed
    <2>5. ~lost'[t] => ~lost[t] /\ row'[t].status = "NOT_START"
      BY <1>1, <1>3, <1>s DEF SubmitAs, TypeOK
    <2>6. \A m \in Masters : ~lost[t] /\ SunoLine(m, t) /\ row'[t].status = "NOT_START" => SunoLine(m, t)'
      BY <1>3, <1>c, <2>1, <2>2, <2>3, <2>4 DEF SunoLine
    <2> QED
      BY <1>2, <2>1, <2>5, <2>6 DEF SunoBook
  <1> QED
    BY <1>1, <1>3, <1>4, <1>5, <1>6, <1>7, OneTaskBooks

\* Provider, clock and administrator bill nothing.
LEMMA ProviderBooks ==
  ASSUME BooksInv, NEW t \in Tasks, Finish(t) \/ Age(t) \/ DeleteChannel(t)
  PROVE  BooksInv'
  <1> USE DEF setup, provider, handlers, money
  <1>1. TypeOK /\ TypeOK'
    BY TaskStepType DEF BooksInv
  <1>2. UNCHANGED <<kind, live, ended, unpaid, tokenUnpaid, master, fetch, row, paid, tokenPaid, lost>>
    BY DEF Finish, Age, DeleteChannel
  <1>3. \A u \in Tasks : Untouched(u)
    BY <1>1, <1>2 DEF Finish, Age, DeleteChannel, TypeOK, Untouched
  <1>4. \A u \in Tasks, m \in Masters : Quiet(m, u)
    BY <1>2, LoopsQuiet
  <1>5. LoopShape'
    BY <1>2 DEF BooksInv, LoopShape, LoopOK, Listed
  <1> QED
    BY <1>1, <1>3, <1>4, <1>5, NoTaskBooks

\* A user's fetch stores a status of a real-time task, and bills nothing.
LEMMA FetchBooks ==
  ASSUME BooksInv, NEW f \in Fetchers, FetchStep(f)
  PROVE  BooksInv'
  <1> USE DEF setup, provider, handlers, money
  <1>1. TypeOK /\ TypeOK'
    BY FetchStepType DEF BooksInv
  <1>2. UNCHANGED <<kind, live, ended, unpaid, tokenUnpaid, master, paid, tokenPaid, lost, upstream, actual>>
    BY DEF FetchStep, FetchRead, FetchAnswer, FetchUpdate
  <1>3. /\ \A u \in Tasks : kind[u] # "realtime" => row'[u] = row[u]
        /\ \A u \in Tasks : row[u].status # "ABSENT" => row'[u].status # "ABSENT"
    <2>1. CASE row' = row
      BY <2>1
    <2>2. CASE FetchUpdate(f)
      <3>1. kind[fetch[f].cur] = "realtime"
        BY <2>2 DEF FetchUpdate, BooksInv, LoopShape
      <3>2. fetch[f].seen \in Results
        BY <1>1 DEF TypeOK, Handler
      <3>3. Outcome(fetch[f].seen).status # "ABSENT"
        BY <3>2, OutcomeType DEF Results
      <3> QED
        BY <1>1, <2>2, <3>1, <3>3 DEF FetchUpdate, TypeOK
    <2> QED
      BY <2>1, <2>2 DEF FetchStep, FetchRead, FetchAnswer
  <1>4. \A u \in Tasks, m \in Masters : Quiet(m, u)
    BY <1>2, LoopsQuiet
  <1>5. LoopShape'
    <2>1. \A m \in Masters : LoopOK(m)'
      BY <1>2, <1>3 DEF BooksInv, LoopShape, LoopOK, Listed
    <2>2. \A g \in Fetchers : fetch'[g].pc # "idle" => kind[fetch'[g].cur] = "realtime"
      <3>1. \A g \in Fetchers \ {f} : fetch'[g] = fetch[g]
        BY <1>1 DEF FetchStep, FetchRead, FetchAnswer, FetchUpdate, TypeOK
      <3>2. ASSUME NEW t \in Tasks, FetchRead(f, t) PROVE kind[fetch'[f].cur] = "realtime"
        BY <1>1, <3>2 DEF FetchRead, TypeOK, Handler
      <3>3. CASE FetchAnswer(f)
        <4>1. fetch'[f].pc = "idle" \/ fetch'[f].cur = fetch[f].cur
          BY <1>1, <3>3 DEF FetchAnswer, IdleFetch, TypeOK, Handler
        <4> QED
          BY <3>1, <3>3, <4>1 DEF FetchAnswer, BooksInv, LoopShape
      <3>4. CASE FetchUpdate(f)
        BY <1>1, <3>1, <3>4 DEF FetchUpdate, IdleFetch, BooksInv, LoopShape, TypeOK
      <3> QED
        BY <3>1, <3>2, <3>3, <3>4 DEF FetchStep, BooksInv, LoopShape
    <2> QED
      BY <1>2, <2>1, <2>2 DEF LoopShape
  <1>6. ASSUME NEW u \in Tasks PROVE VideoBook(u)' /\ SunoBook(u)'
    <2>1. CASE kind[u] = "realtime"
      BY <1>2, <2>1 DEF VideoBook, SunoBook
    <2>2. CASE kind[u] # "realtime"
      BY <1>2, <1>3, <1>4, <2>2, UntouchedBooks DEF Untouched
    <2> QED
      BY <2>1, <2>2
  <1> QED
    BY <1>1, <1>5, <1>6 DEF BooksInv

\* Listing the tasks keeps the books.
LEMMA ListBooks ==
  ASSUME BooksInv, NEW m \in Masters, SweepList(m) \/ PollList(m)
  PROVE  BooksInv'
  <1> USE DEF setup, provider, handlers, money
  <1>1. TypeOK /\ TypeOK'
    BY MasterStepType DEF BooksInv, MasterStep
  <1>2. UNCHANGED <<kind, live, ended, unpaid, tokenUnpaid, fetch, row, paid, tokenPaid, lost, upstream, actual>>
    BY DEF SweepList, PollList
  <1>3. PICK l \in Loop : /\ Moves(m, l) /\ l.pc \in {"sweep", "poll"} /\ l.copy = row
                         /\ \A t \in l.todo : Unfinished(t)
    BY <1>1, ListMoves
  <1>4. master'[m] = l /\ m \in live \ ended /\ master[m].pc \in {"idle", "sweep"}
    BY <1>3 DEF Moves, SweepList, PollList, At
  <1>5. \A t \in Tasks : Quiet(m, t)
    BY <1>3, <1>4 DEF Quiet, Holds, Saving, Listed
  <1>6. LoopOK(m)'
    <2>1. \A t \in l.todo : row[t].status \in Open /\ ~row[t].finished
      BY <1>1, <1>3 DEF Unfinished, Open, Final, Statuses, Rows, TypeOK, Loop
    <2>2. Open \subseteq Statuses \ {"ABSENT"}
      BY DEF Open, Statuses
    <2> QED
      BY <1>2, <1>3, <1>4, <2>1, <2>2 DEF LoopOK, Listed
  <1>7. LoopShape'
    BY <1>2, <1>3, <1>6, LoopMoved
  <1> QED
    BY <1>1, <1>2, <1>3, <1>5, <1>7, OthersQuiet, NoTaskBooks DEF Untouched

\* The end of a round keeps the books.
LEMMA EndBooks ==
  ASSUME BooksInv, NEW m \in Masters, PollEnd(m)
  PROVE  BooksInv'
  <1> USE DEF setup, provider, handlers, money
  <1>1. TypeOK /\ TypeOK'
    BY MasterStepType DEF BooksInv, MasterStep
  <1>2. UNCHANGED <<kind, live, ended, unpaid, tokenUnpaid, fetch, row, paid, tokenPaid, lost, upstream, actual>>
    BY DEF PollEnd
  <1>3. PICK l \in Loop : Moves(m, l) /\ l.pc = "idle" /\ l.todo = {}
    BY <1>1, IdleMoves
  <1>4. master'[m] = l /\ m \in live \ ended /\ master[m].pc = "poll"
    BY <1>3 DEF Moves, PollEnd, At
  <1>5. \A t \in Tasks : Quiet(m, t)
    BY <1>3, <1>4 DEF Quiet, Holds, Saving, Listed
  <1>6. LoopShape'
    <2>1. LoopOK(m)'
      BY <1>2, <1>3, <1>4 DEF LoopOK, Listed
    <2> QED
      BY <1>2, <1>3, <2>1, LoopMoved
  <1> QED
    BY <1>1, <1>2, <1>3, <1>5, <1>6, OthersQuiet, NoTaskBooks DEF Untouched

\* A video that fewer masters bill than before, because of a fault.
LEMMA CutShort ==
  ASSUME BooksInv, NEW m \in Masters, NEW l, Moves(m, l), NEW t \in Tasks, VideoBook(t),
         kind' = kind, live' = live, row'[t] = row[t], paid'[t] = paid[t], tokenPaid'[t] = tokenPaid[t],
         unpaid' = unpaid, tokenUnpaid' = tokenUnpaid, upstream' = upstream, actual' = actual, lost'[t],
         l.pc \notin {"update", "funding", "token"}
  PROVE  VideoBook(t)' /\ SunoBook(t)'
  <1>1. SunoBook(t)'
    BY DEF SunoBook
  <1>2. Due(t)' = Due(t)
    BY DEF Due
  <1>3. \A n \in Masters : /\ Holds(n, t)' => n # m /\ Holds(n, t)
                           /\ n # m => master'[n] = master[n] /\ (Holds(n, t)' <=> Holds(n, t))
    BY DEF Moves, Holds
  <1>4. kind[t] = "video" /\ (\A n \in Masters : ~Holds(n, t)') => Charged(t) >= 0 /\ TokenCharged(t) >= 0
    <2>1. CASE Holds(m, t)
      <3>1. Quota \in Nat /\ master[m].delta \in Int
        BY TaskAssumption DEF BooksInv, TypeOK, Loop
      <3> QED
        BY <2>1, <3>1 DEF VideoBook
    <2>2. CASE ~Holds(m, t)
      <3>1. row[t].status \in {"ABSENT"} \cup Open \cup Final
        BY DEF BooksInv, TypeOK, Rows, Statuses, Open
      <3>2. Quota \in Nat
        BY TaskAssumption
      <3> QED
        BY <1>3, <2>2, <3>1, <3>2 DEF VideoBook
    <2> QED
      BY <2>1, <2>2
  <1>5. VideoBook(t)'
    <2>1. (Charged(t)' = Charged(t)) /\ (TokenCharged(t)' = TokenCharged(t))
      BY SameCharge
    <2> QED
      BY <1>2, <1>3, <1>4, <2>1 DEF VideoBook, Moves
  <1> QED
    BY <1>1, <1>5

\* A crash in the middle of billing is recorded as lost.
LEMMA CrashBooks ==
  ASSUME BooksInv, NEW m \in Masters, Crash(m)
  PROVE  BooksInv'
  <1> USE DEF setup, provider, handlers, money
  <1>0. PICK t \in Tasks : t = master[m].cur
    BY DEF BooksInv, TypeOK, Loop
  <1>1. TypeOK /\ TypeOK'
    BY MasterStepType DEF BooksInv
  <1>2. UNCHANGED <<kind, live, ended, unpaid, tokenUnpaid, fetch, row, paid, tokenPaid, upstream, actual>> /\ m \in live
    BY DEF Crash
  <1>3. PICK l \in Loop : Moves(m, l) /\ l.pc = "idle" /\ l.todo = {}
    BY <1>1, IdleMoves
  <1>4. master'[m] = l
    BY <1>3 DEF Moves
  <1>5. LoopShape'
    <2>1. LoopOK(m)'
      BY <1>2, <1>3, <1>4 DEF LoopOK, Listed
    <2> QED
      BY <1>2, <1>3, <2>1, LoopMoved
  <1>6. \A u \in Tasks \ {t} : Untouched(u) /\ Quiet(m, u)
    BY <1>0, <1>1, <1>2, <1>3, <1>4 DEF Crash, TypeOK, Untouched, Quiet, Holds, Saving, Listed
  <1>7. CASE master[m].pc \in {"funding", "token", "save"}
    <2>1. lost'[t]
      BY <1>0, <1>1, <1>7 DEF Crash, TypeOK
    <2>2. VideoBook(t)' /\ SunoBook(t)'
      BY <1>1, <1>2, <1>3, <2>1, CutShort DEF BooksInv
    <2> QED
      BY <1>1, <1>3, <1>5, <1>6, <2>2, OthersQuiet, OneTaskBooks
  <1>8. CASE master[m].pc \notin {"funding", "token", "save"}
    <2>1. Untouched(t) /\ Quiet(m, t)
      BY <1>0, <1>1, <1>2, <1>3, <1>4, <1>8 DEF Crash, TypeOK, Untouched, Quiet, Holds, Saving, Listed
    <2> QED
      BY <1>1, <1>3, <1>5, <1>6, <2>1, OthersQuiet, NoTaskBooks
  <1> QED
    BY <1>7, <1>8

\* A loop that ends of a panic was billing nothing.
LEMMA PanicBooks ==
  ASSUME BooksInv, NEW m \in Masters, NEW u \in Tasks, PollPanic(m, u)
  PROVE  BooksInv'
  <1> USE DEF provider, handlers, money
  <1>1. TypeOK /\ TypeOK'
    BY MasterStepType DEF BooksInv
  <1>2. /\ UNCHANGED <<kind, live, unpaid, tokenUnpaid, fetch, row, paid, tokenPaid, lost, upstream, actual>>
        /\ ended' = ended \cup {m}
    BY DEF PollPanic
  <1>3. PICK l \in Loop : Moves(m, l) /\ l.pc = "idle" /\ l.todo = {}
    BY <1>1, IdleMoves
  <1>4. master'[m] = l /\ master[m].pc = "poll"
    BY <1>3 DEF Moves, PollPanic, At
  <1>5. \A t \in Tasks : Quiet(m, t)
    BY <1>3, <1>4 DEF Quiet, Holds, Saving, Listed
  <1>6. LoopShape'
    <2>1. LoopOK(m)'
      BY <1>3, <1>4 DEF LoopOK, Listed
    <2> QED
      BY <1>2, <1>3, <2>1, LoopMoved
  <1>7. \A t \in Tasks : Untouched(t)
    BY <1>2 DEF Untouched
  <1> QED
    BY <1>1, <1>3, <1>5, <1>6, <1>7, OthersQuiet, NoTaskBooks

\* Failing the tasks of a deleted channel keeps the books.
LEMMA BulkBooks ==
  ASSUME BooksInv, NEW m \in Masters, NEW t \in Tasks, BulkFail(m, t)
  PROVE  BooksInv'
  <1> USE DEF setup, provider, handlers, money
  <1>1. TypeOK /\ TypeOK'
    BY MasterStepType DEF BooksInv, MasterStep
  <1>2. UNCHANGED <<kind, live, ended, unpaid, tokenUnpaid, fetch, paid, tokenPaid, upstream, actual>>
    BY DEF BulkFail
  <1>3. PICK l \in Loop : /\ Moves(m, l) /\ l.pc = "poll"
                         /\ l.todo = master[m].todo \ {t} /\ l.copy = master[m].copy
    BY <1>1, BulkMoves
  <1>4. master'[m] = l /\ m \in live \ ended /\ master[m].pc = "poll" /\ t \in master[m].todo
    BY <1>3 DEF Moves, BulkFail, At
  <1>5. row'[t] = Failed /\ lost'[t] /\ \A u \in Tasks \ {t} : row'[u] = row[u] /\ lost'[u] = lost[u]
    BY <1>1 DEF BulkFail, TypeOK
  <1>6. LoopShape'
    <2>1. \A u \in Tasks : row[u].status # "ABSENT" => row'[u].status # "ABSENT"
      BY <1>5, FailedType
    <2>2. LoopOK(m)'
      BY <1>2, <1>3, <1>4, <2>1 DEF BooksInv, LoopShape, LoopOK, Listed
    <2> QED
      BY <1>2, <1>3, <2>1, <2>2, LoopMoved
  <1>7. \A u \in Tasks : Quiet(m, u)
    BY <1>3, <1>4 DEF Quiet, Holds, Saving, Listed
  <1>8. \A u \in Tasks \ {t} : Untouched(u)
    BY <1>2, <1>5 DEF Untouched
  <1>9. VideoBook(t)'
    <2>1. /\ VideoBook(t) /\ row[t].status # "ABSENT" /\ row'[t].status = "FAILURE"
          /\ row[t].status \in Open \cup Final /\ Quota \in Nat
      BY <1>1, <1>4, <1>5, FailedType, TaskAssumption
      DEF BooksInv, LoopShape, LoopOK, Listed, TypeOK, Rows, Statuses, Open
    <2>2. \A n \in Masters : Quiet(n, t)
      BY <1>3, <1>7, OthersQuiet
    <2>3. (Charged(t)' = Charged(t)) /\ (TokenCharged(t)' = TokenCharged(t))
      BY <1>2, SameCharge
    <2> QED
      BY <1>2, <1>5, <2>1, <2>2, <2>3 DEF VideoBook, Quiet, Open, Final
  <1>10. SunoBook(t)'
    BY <1>5 DEF SunoBook
  <1> QED
    BY <1>1, <1>3, <1>6, <1>7, <1>8, <1>9, <1>10, OthersQuiet, OneTaskBooks

\* Asking the provider keeps the books.
LEMMA PollFetchBooks ==
  ASSUME BooksInv, NEW m \in Masters, NEW t \in Tasks, PollFetch(m, t)
  PROVE  BooksInv'
  <1> USE DEF setup, provider, handlers, money
  <1>1. TypeOK /\ TypeOK'
    BY MasterStepType DEF BooksInv, MasterStep
  <1>2. UNCHANGED <<kind, live, ended, unpaid, tokenUnpaid, fetch, row, paid, tokenPaid, lost, upstream, actual>>
    BY DEF PollFetch
  <1>3. PICK l \in Loop : /\ Moves(m, l)
                         /\ l.todo = master[m].todo \ {t} /\ l.copy = master[m].copy
                         /\ \/ l.pc = "poll" /\ l.cur = master[m].cur
                            \/ /\ l.pc = "update" /\ l.cur = t
                               /\ l.seen = upstream[t] \/ l.seen = "failure"
    BY <1>1, FetchMoves
  <1>4. master'[m] = l /\ m \in live \ ended /\ master[m].pc = "poll" /\ t \in master[m].todo
    BY <1>3 DEF Moves, PollFetch, At
  <1>5. LoopShape'
    <2>1. LoopOK(m)'
      BY <1>2, <1>3, <1>4 DEF BooksInv, LoopShape, LoopOK, Listed
    <2> QED
      BY <1>2, <1>3, <2>1, LoopMoved
  <1>6. \A u \in Tasks \ {t} : Untouched(u) /\ Quiet(m, u)
    BY <1>2, <1>3, <1>4 DEF Untouched, Quiet, Holds, Saving, Listed
  <1>7. \A n \in Masters : /\ Holds(n, t)' <=> Holds(n, t)
                           /\ Saving(n, t)' <=> Saving(n, t)
                           /\ Listed(n, t)' => Listed(n, t)
                           /\ master'[n].copy = master[n].copy
                           /\ n = m => ~Holds(n, t) /\ ~Saving(n, t)
                           /\ n # m => master'[n] = master[n]
    BY <1>3, <1>4 DEF Moves, Holds, Saving, Listed
  <1>c. (Charged(t)' = Charged(t)) /\ (TokenCharged(t)' = TokenCharged(t))
    BY <1>2, SameCharge
  <1>8. VideoBook(t)'
    <2>1. VideoBook(t) /\ (Due(t)' = Due(t))
      BY <1>2 DEF BooksInv, Due
    <2>2. l.pc = "update" => /\ l.seen = "success" => upstream[t] \notin Pending
                             /\ upstream[t] # "flawed" => l.seen # "flawed"
      BY <1>3 DEF Pending
    <2> QED
      BY <1>2, <1>4, <1>7, <1>c, <2>1, <2>2 DEF VideoBook
  <1>9. SunoBook(t)'
    <2>1. SunoBook(t) /\ \A n \in Masters : SunoLine(n, t) => SunoLine(n, t)'
      <3>1. Unfinished(t)' <=> Unfinished(t)
        BY <1>2 DEF Unfinished
      <3> QED
        BY <1>2, <1>7, <1>c, <3>1 DEF BooksInv, SunoLine
    <2> QED
      BY <1>2, <2>1 DEF SunoBook
  <1> QED
    BY <1>1, <1>3, <1>5, <1>6, <1>8, <1>9, OthersQuiet, OneTaskBooks

\* The sweep that wins the compare-and-set is the one that bills the task.
LEMMA SweepBooks ==
  ASSUME BooksInv, NEW m \in Masters, NEW t \in Tasks, SweepTask(m, t)
  PROVE  BooksInv'
  <1> USE DEF setup, provider, handlers, money
  <1>1. TypeOK /\ TypeOK'
    BY MasterStepType DEF BooksInv, MasterStep
  <1>2. UNCHANGED <<kind, live, ended, unpaid, tokenUnpaid, fetch, paid, tokenPaid, lost, upstream, actual>>
    BY DEF SweepTask
  <1>3. PICK l \in Loop :
           /\ Moves(m, l)
           /\ l.todo = master[m].todo \ {t} /\ l.copy = master[m].copy
           /\ \/ /\ Wins(t, master[m].copy[t])
                 /\ row' = [row EXCEPT ![t] = Failed]
                 /\ l.cur = t /\ l.pc = "funding"
                 /\ l.delta = -Quota /\ l.back = "sweep"
              \/ row' = row /\ l.cur = master[m].cur /\ l.pc = "sweep"
    BY <1>1, SweepMoves
  <1>4. master'[m] = l /\ m \in live \ ended /\ master[m].pc = "sweep" /\ t \in master[m].todo
    BY <1>3 DEF Moves, SweepTask, At
  <1>5. \A u \in Tasks : row'[u] = row[u] \/ (u = t /\ row'[u] = Failed)
    BY <1>1, <1>3 DEF TypeOK
  <1>6. LoopShape'
    <2>1. \A u \in Tasks : row[u].status # "ABSENT" => row'[u].status # "ABSENT"
      BY <1>5, FailedType
    <2>2. LoopOK(m)'
      BY <1>2, <1>3, <1>4, <2>1 DEF BooksInv, LoopShape, LoopOK, Listed
    <2> QED
      BY <1>2, <1>3, <2>1, <2>2, LoopMoved
  <1>7. \A u \in Tasks \ {t} : Untouched(u) /\ Quiet(m, u)
    BY <1>2, <1>3, <1>4, <1>5 DEF Untouched, Quiet, Holds, Saving, Listed
  <1>8. CASE row' = row /\ l.cur = master[m].cur /\ l.pc = "sweep"
    <2>1. Untouched(t) /\ Quiet(m, t)
      BY <1>2, <1>3, <1>4, <1>8 DEF Untouched, Quiet, Holds, Saving, Listed
    <2> QED
      BY <1>1, <1>3, <1>6, <1>7, <2>1, OthersQuiet, NoTaskBooks
  <1>9. CASE /\ Wins(t, master[m].copy[t])
             /\ row' = [row EXCEPT ![t] = Failed]
             /\ l.cur = t /\ l.pc = "funding"
             /\ l.delta = -Quota /\ l.back = "sweep"
    <2>1. row[t].status \in Open /\ row'[t].status = "FAILURE" /\ (Due(t)' = 0) /\ Quota \in Nat
      BY <1>1, <1>4, <1>9, FailedType, TaskAssumption
      DEF BooksInv, LoopShape, LoopOK, Listed, Wins, TypeOK, Due
    <2>2. \A n \in Masters \ {m} : master'[n] = master[n] /\ (Holds(n, t)' <=> Holds(n, t))
      BY <1>3 DEF Moves, Holds
    <2>3. /\ Holds(m, t)' /\ ~Saving(m, t)' /\ ~Listed(m, t)' /\ ~Holds(m, t) /\ ~Saving(m, t)
      BY <1>3, <1>4, <1>9 DEF Holds, Saving, Listed
    <2>c. (Charged(t)' = Charged(t)) /\ (TokenCharged(t)' = TokenCharged(t))
      BY <1>2, SameCharge
    <2>4. VideoBook(t)'
      <3>1. kind[t] = "video" => /\ Charged(t) = Quota /\ TokenCharged(t) = Quota
                                 /\ \A n \in Masters : ~Holds(n, t)
        BY <2>1 DEF BooksInv, VideoBook, Open, Final
      <3>2. VideoBook(t)
        BY DEF BooksInv
      <3> QED
        BY <1>2, <1>4, <1>9, <2>1, <2>2, <2>3, <2>c, <3>1, <3>2 DEF VideoBook, Open, Final
    <2>5. SunoBook(t)'
      <3>1. SunoBook(t)
        BY DEF BooksInv
      <3>2. SunoLine(m, t) => SunoLine(m, t)'
        <4>1. ~Unfinished(t)'
          BY <2>1 DEF Unfinished, Final
        <4>2. Listed(m, t) /\ ~master[m].copy[t].finished /\ row[t].status \notin Final \cup {"ABSENT"}
          BY <1>4, <2>1 DEF Listed, BooksInv, LoopShape, LoopOK, Open, Final
        <4>3. SunoLine(m, t) => Unfinished(t)
          BY <4>2 DEF SunoLine, Unfinished
        <4> QED
          BY <1>2, <1>4, <1>9, <2>1, <2>3, <2>c, <4>1, <4>3 DEF SunoLine
      <3> QED
        BY <1>2, <1>4, <3>1, <3>2 DEF SunoBook
    <2> QED
      BY <1>1, <1>3, <1>6, <1>7, <2>4, <2>5, OthersQuiet, OneTaskBooks
  <1> QED
    BY <1>3, <1>8, <1>9

\* The row a result leaves, and the adjustment made for it, agree.
LEMMA DueAfter ==
  ASSUME TypeOK, NEW t \in Tasks, NEW r \in Results \ {"flawed"}, row'[t] = Outcome(r), actual' = actual
  PROVE  (Due(t)' = Quota + Adjustment(t, r)) /\ (r = "failure" => Adjustment(t, r) # 0)
  <1>1. Quota \in Nat /\ Quota > 0 /\ actual[t] \in Nat
    BY QuotaTypes
  <1>2. CASE r \in Pending
    BY <1>1, <1>2, OutcomeType DEF Due, Adjustment, Pending
  <1>3. CASE r = "success"
    BY <1>1, <1>3, OutcomeType DEF Due, Adjustment
  <1>4. CASE r = "failure"
    BY <1>1, <1>4, OutcomeType DEF Due, Adjustment
  <1> QED
    BY <1>2, <1>3, <1>4 DEF Results, Pending

\* The poll that wins the compare-and-set is the one that bills the task.
LEMMA PollUpdateBooks ==
  ASSUME BooksInv, NEW m \in Masters, PollUpdate(m)
  PROVE  BooksInv'
  <1> USE DEF setup, provider, handlers, money
  <1>0. PICK t \in Tasks, r \in Results : t = master[m].cur /\ r = master[m].seen
    BY DEF BooksInv, TypeOK, Loop
  <1>1. TypeOK /\ TypeOK'
    BY MasterStepType DEF BooksInv, MasterStep
  <1>2. UNCHANGED <<kind, live, ended, unpaid, tokenUnpaid, fetch, paid, tokenPaid, lost, upstream, actual>>
    BY DEF PollUpdate
  <1>3. PICK l \in Loop :
           /\ Moves(m, l)
           /\ l.todo = master[m].todo /\ l.copy = master[m].copy /\ l.cur = t
           /\ \/ /\ Wins(t, master[m].copy[t]) /\ row' = [row EXCEPT ![t] = Outcome(r)]
                 /\ IF Adjustment(t, r) # 0
                    THEN l.pc = "funding" /\ l.delta = Adjustment(t, r) /\ l.back = "poll"
                    ELSE l.pc = "poll"
              \/ row' = row /\ l.pc = "poll"
    BY <1>0, <1>1, UpdateMoves
  <1>4. master'[m] = l /\ m \in live \ ended /\ master[m].pc = "update" /\ kind[t] # "suno" /\ Listed(m, t)
    BY <1>0, <1>3 DEF Moves, PollUpdate, At, Listed
  <1>5. t \notin master[m].todo
    BY <1>0, <1>4 DEF BooksInv, LoopShape, LoopOK
  <1>6. \A u \in Tasks : row'[u] = row[u] \/ (u = t /\ row'[u] = Outcome(r))
    BY <1>1, <1>3 DEF TypeOK
  <1>7. LoopShape'
    <2>1. \A u \in Tasks : row[u].status # "ABSENT" => row'[u].status # "ABSENT"
      BY <1>6, OutcomeType DEF Results
    <2>2. LoopOK(m)'
      BY <1>2, <1>3, <1>4, <1>5, <2>1 DEF BooksInv, LoopShape, LoopOK, Listed
    <2> QED
      BY <1>2, <1>3, <2>1, <2>2, LoopMoved
  <1>8. \A u \in Tasks \ {t} : Untouched(u) /\ Quiet(m, u)
    BY <1>0, <1>2, <1>3, <1>4, <1>6 DEF Untouched, Quiet, Holds, Saving, Listed
  <1>9. CASE row' = row /\ l.pc = "poll"
    <2>1. Untouched(t) /\ Quiet(m, t)
      BY <1>0, <1>2, <1>3, <1>4, <1>5, <1>9 DEF Untouched, Quiet, Holds, Saving, Listed
    <2> QED
      BY <1>1, <1>3, <1>7, <1>8, <2>1, OthersQuiet, NoTaskBooks
  <1>10. CASE /\ Wins(t, master[m].copy[t]) /\ row' = [row EXCEPT ![t] = Outcome(r)]
              /\ IF Adjustment(t, r) # 0
                 THEN l.pc = "funding" /\ l.delta = Adjustment(t, r) /\ l.back = "poll"
                 ELSE l.pc = "poll"
    <2>1. row[t].status \in Open /\ row'[t] = Outcome(r) /\ Quota \in Nat /\ Quota > 0
      BY <1>1, <1>4, <1>10, TaskAssumption DEF BooksInv, LoopShape, LoopOK, Listed, Wins, TypeOK
    <2>2. /\ r # "flawed" => /\ Due(t)' = Quota + Adjustment(t, r)
                             /\ r = "failure" => Adjustment(t, r) # 0
          /\ r \in Pending => Adjustment(t, r) = 0
          /\ Adjustment(t, r) \in Int /\ Quota + Adjustment(t, r) >= 0
      BY <1>1, <1>2, <2>1, DueAfter, AdjustmentType DEF Adjustment, Pending
    <2>c. (Charged(t)' = Charged(t)) /\ (TokenCharged(t)' = TokenCharged(t))
      BY <1>2, SameCharge
    <2>3. /\ \A n \in Masters \ {m} : master'[n] = master[n] /\ (Holds(n, t)' <=> Holds(n, t))
          /\ Holds(m, t)' <=> (l.pc = "funding")
      BY <1>3, <1>4, <1>10 DEF Moves, Holds
    <2>4. VideoBook(t)'
      <3>1. VideoBook(t)
        BY DEF BooksInv
      <3>2. kind[t] = "video" => /\ Charged(t) = Quota /\ TokenCharged(t) = Quota
                                 /\ \A n \in Masters : ~Holds(n, t)
                                 /\ r = "success" => upstream[t] \notin Pending
                                 /\ r # "flawed"
        BY <1>0, <1>4, <2>1, <3>1 DEF VideoBook, Open, Final
      <3>3. CASE Adjustment(t, r) # 0 /\ r # "flawed"
        <4>1. row'[t].status \in Final /\ (row'[t].status = "SUCCESS" => r = "success")
          BY <2>1, <2>2, <3>3, OutcomeType DEF Results, Final, Pending
        <4> QED
          BY <1>2, <1>4, <1>10, <2>1, <2>2, <2>3, <2>c, <3>1, <3>2, <3>3, <4>1 DEF VideoBook, Open, Final
      <3>4. CASE Adjustment(t, r) = 0 /\ r # "flawed"
        <4>1. row'[t].status # "ABSENT" /\ (row'[t].status = "SUCCESS" => r = "success")
          BY <2>1, <3>4, OutcomeType DEF Results
        <4>2. Due(t)' = Quota
          BY <2>1, <2>2, <3>4
        <4> QED
          BY <1>2, <1>4, <1>10, <2>1, <2>3, <2>c, <3>1, <3>2, <3>4, <4>1, <4>2 DEF VideoBook
      <3>5. CASE r = "flawed"
        BY <1>2, <3>2, <3>5 DEF VideoBook
      <3> QED
        BY <2>2, <3>3, <3>4, <3>5
    <2>5. SunoBook(t)'
      BY <1>2, <1>4 DEF SunoBook
    <2> QED
      BY <1>1, <1>3, <1>7, <1>8, <2>4, <2>5, OthersQuiet, OneTaskBooks
  <1> QED
    BY <1>3, <1>9, <1>10

\* A Suno task that has failed is about to be refunded.
LEMMA SunoUpdateBooks ==
  ASSUME BooksInv, NEW m \in Masters, SunoUpdate(m)
  PROVE  BooksInv'
  <1> USE DEF setup, provider, handlers, money
  <1>0. PICK t \in Tasks : t = master[m].cur
    BY DEF BooksInv, TypeOK, Loop
  <1>1. TypeOK /\ TypeOK'
    BY MasterStepType DEF BooksInv, MasterStep
  <1>2. UNCHANGED <<kind, live, ended, unpaid, tokenUnpaid, fetch, row, paid, tokenPaid, lost, upstream, actual>>
    BY DEF SunoUpdate
  <1>3. PICK l \in Loop :
           /\ Moves(m, l)
           /\ l.todo = master[m].todo /\ l.copy = master[m].copy /\ l.cur = t
           /\ \/ l.pc = "poll"
              \/ /\ l.pc = "funding" /\ l.delta = -Quota /\ l.back = "save"
                 /\ HasReason(l.seen)
              \/ l.pc = "save" /\ ~HasReason(l.seen)
    BY <1>0, <1>1, SunoMoves
  <1>4. master'[m] = l /\ m \in live \ ended /\ master[m].pc = "update" /\ kind[t] = "suno" /\ Listed(m, t)
    BY <1>0, <1>3 DEF Moves, SunoUpdate, At, Listed
  <1>5. t \notin master[m].todo
    BY <1>0, <1>4 DEF BooksInv, LoopShape, LoopOK
  <1>6. LoopShape'
    <2>1. LoopOK(m)'
      BY <1>2, <1>3, <1>4, <1>5 DEF BooksInv, LoopShape, LoopOK, Listed
    <2> QED
      BY <1>2, <1>3, <2>1, LoopMoved
  <1>7. \A u \in Tasks \ {t} : Untouched(u) /\ Quiet(m, u)
    BY <1>0, <1>2, <1>3, <1>4 DEF Untouched, Quiet, Holds, Saving, Listed
  <1>8. VideoBook(t)'
    BY <1>2, <1>4 DEF VideoBook
  <1>9. SunoBook(t)'
    <2>1. SunoBook(t)
      BY DEF BooksInv
    <2>2. /\ ~Listed(m, t)' /\ ~Holds(m, t) /\ ~Saving(m, t)
          /\ (Holds(m, t)' <=> (l.pc = "funding")) /\ (Saving(m, t)' <=> (l.pc = "save"))
      BY <1>0, <1>3, <1>4, <1>5 DEF Holds, Saving, Listed
    <2>3. SunoLine(m, t) => Unfinished(t)
      BY <1>4 DEF BooksInv, LoopShape, LoopOK, SunoLine, Unfinished, Open, Final
    <2>c. /\ (Charged(t)' = Charged(t)) /\ (TokenCharged(t)' = TokenCharged(t))
          /\ Unfinished(t)' <=> Unfinished(t)
      BY <1>2, SameCharge DEF Unfinished
    <2>4. SunoLine(m, t) => SunoLine(m, t)'
      BY <1>2, <1>3, <1>4, <2>2, <2>3, <2>c DEF SunoLine
    <2> QED
      BY <1>2, <1>4, <2>1, <2>4 DEF SunoBook
  <1> QED
    BY <1>1, <1>3, <1>6, <1>7, <1>8, <1>9, OthersQuiet, OneTaskBooks

\* Saving a Suno task keeps the books: its refund came before.
LEMMA SunoSaveBooks ==
  ASSUME BooksInv, NEW m \in Masters, SunoSave(m)
  PROVE  BooksInv'
  <1> USE DEF setup, provider, handlers, money
  <1>0. PICK t \in Tasks, r \in Results : t = master[m].cur /\ r = master[m].seen
    BY DEF BooksInv, TypeOK, Loop
  <1>1. TypeOK /\ TypeOK'
    BY MasterStepType DEF BooksInv, MasterStep
  <1>2. UNCHANGED <<kind, live, ended, unpaid, tokenUnpaid, fetch, paid, tokenPaid, upstream, actual>>
    BY DEF SunoSave
  <1>3. PICK l \in Loop :
           /\ Moves(m, l) /\ l.pc = "poll"
           /\ l.todo = master[m].todo /\ l.copy = master[m].copy /\ l.cur = t
    BY <1>0, <1>1, ResumeMoves DEF SunoSave
  <1>4. master'[m] = l /\ m \in live \ ended /\ Saving(m, t) /\ master[m].pc = "save"
    BY <1>0, <1>3 DEF Moves, SunoSave, At, Saving
  <1>5. t \notin master[m].todo /\ kind[t] = "suno"
    BY <1>0, <1>4 DEF BooksInv, LoopShape, LoopOK
  <1>6. \/ row' = [row EXCEPT ![t] = Outcome(r)] /\ lost' = lost
        \/ row' = row /\ lost' = [lost EXCEPT ![t] = TRUE]
    BY <1>0 DEF SunoSave
  <1>7. LoopShape'
    <2>1. \A u \in Tasks : row[u].status # "ABSENT" => row'[u].status # "ABSENT"
      BY <1>1, <1>6, OutcomeType DEF Results, TypeOK
    <2>2. LoopOK(m)'
      BY <1>2, <1>3, <1>4, <1>5, <2>1 DEF BooksInv, LoopShape, LoopOK, Listed
    <2> QED
      BY <1>2, <1>3, <2>1, <2>2, LoopMoved
  <1>8. \A u \in Tasks \ {t} : Untouched(u) /\ Quiet(m, u)
    BY <1>0, <1>1, <1>2, <1>3, <1>4, <1>6, SMTT(30)
        DEF Untouched, Quiet, Holds, Saving, Listed, TypeOK
  <1>9. VideoBook(t)'
    BY <1>2, <1>5 DEF VideoBook
  <1>10. SunoBook(t)'
    <2>1. SunoBook(t)
      BY DEF BooksInv
    <2>2. ~Listed(m, t)' /\ ~Holds(m, t)' /\ ~Saving(m, t)'
      BY <1>0, <1>3, <1>4, <1>5 DEF Holds, Saving, Listed
    <2>3. ~lost'[t] => ~lost[t] /\ row'[t] = Outcome(r)
      BY <1>1, <1>6 DEF TypeOK
    <2>4. row'[t] = Outcome(r) /\ SunoLine(m, t) => SunoLine(m, t)'
      <3>1. Quota \in Nat
        BY TaskAssumption
      <3>2. /\ row'[t] = Outcome(r) /\ Unfinished(t)' => ~HasReason(r)
            /\ Outcome(r).status # "ABSENT"
        BY OutcomeType DEF Results, Unfinished, HasReason, Final
      <3>3. (Charged(t)' = Charged(t)) /\ (TokenCharged(t)' = TokenCharged(t))
        BY <1>2, SameCharge
      <3> QED
        BY <1>0, <1>2, <1>4, <2>2, <3>1, <3>2, <3>3 DEF SunoLine
    <2> QED
      BY <1>2, <1>4, <2>1, <2>3, <2>4 DEF SunoBook
  <1> QED
    BY <1>1, <1>3, <1>7, <1>8, <1>9, <1>10, OthersQuiet, OneTaskBooks

\* The funding source is adjusted once.
LEMMA AdjustFundingBooks ==
  ASSUME BooksInv, NEW m \in Masters, AdjustFunding(m)
  PROVE  BooksInv'
  <1> USE DEF setup, provider, handlers
  <1>0. PICK t \in Tasks, d \in Int, b \in {"sweep", "poll", "save"} :
           t = master[m].cur /\ d = master[m].delta /\ b = master[m].back
    BY DEF BooksInv, TypeOK, Loop
  <1>1. TypeOK /\ TypeOK'
    BY MasterStepType DEF BooksInv, MasterStep
  <1>2. UNCHANGED <<kind, live, ended, unpaid, tokenUnpaid, fetch, row, tokenPaid, upstream, actual>> /\ m \in live \ ended
    BY DEF AdjustFunding, At
  <1>3. /\ master[m].pc = "funding" /\ Holds(m, t) /\ t \notin master[m].todo
        /\ b = "save" => kind[t] = "suno"
    BY <1>0 DEF AdjustFunding, At, Holds, BooksInv, LoopShape, LoopOK
  <1>4. CASE /\ paid' = [paid EXCEPT ![t] = @ + d] /\ lost' = lost
             /\ master' = [master EXCEPT ![m].pc = "token"]
    <2>1. PICK l \in Loop :
            /\ Moves(m, l) /\ l.pc = "token"
            /\ l.todo = master[m].todo /\ l.copy = master[m].copy /\ l.cur = t
            /\ l.seen = master[m].seen /\ l.delta = d /\ l.back = b
      BY <1>0, <1>1, <1>4, TokenMoves
    <2>2. master'[m] = l /\ \A n \in Masters \ {m} : master'[n] = master[n] /\ (Holds(n, t)' <=> Holds(n, t))
      BY <2>1 DEF Moves, Holds
    <2>3. LoopShape'
      <3>1. LoopOK(m)'
        BY <1>2, <1>3, <2>1, <2>2 DEF BooksInv, LoopShape, LoopOK, Listed
      <3> QED
        BY <1>2, <2>1, <3>1, LoopMoved
    <2>4. \A u \in Tasks \ {t} : Untouched(u) /\ Quiet(m, u)
      BY <1>0, <1>1, <1>2, <1>3, <1>4, <2>1, <2>2, SMTT(30)
        DEF Untouched, Quiet, Holds, Saving, Listed, TypeOK
    <2>5. /\ Charged(t)' = Charged(t) + d /\ (TokenCharged(t)' = TokenCharged(t))
          /\ Quota \in Nat /\ Charged(t) \in Int /\ (Unfinished(t)' <=> Unfinished(t))
      <3>1. paid'[t] = paid[t] + d /\ paid[t] \in Int /\ unpaid[t] \in Int /\ Quota \in Nat
        BY <1>1, <1>4, TaskAssumption DEF TypeOK
      <3> QED
        BY <1>2, <3>1 DEF Charged, TokenCharged, Unfinished
    <2>6. /\ Holds(m, t)' /\ ~Saving(m, t)' /\ ~Listed(m, t)'
      BY <1>3, <2>1, <2>2 DEF Holds, Saving, Listed
    <2>7. VideoBook(t)'
      <3>1. VideoBook(t) /\ (Due(t)' = Due(t))
        BY <1>2 DEF BooksInv, Due
      <3> QED
        BY <1>0, <1>2, <1>3, <1>4, <2>1, <2>2, <2>5, <2>6, <3>1 DEF VideoBook, Open, Final
    <2>8. SunoBook(t)'
      <3>1. SunoBook(t)
        BY DEF BooksInv
      <3>2. SunoLine(m, t) => SunoLine(m, t)'
        BY <1>0, <1>2, <1>3, <1>4, <2>1, <2>2, <2>5, <2>6 DEF SunoLine
      <3> QED
        BY <1>2, <1>4, <3>1, <3>2 DEF SunoBook
    <2> QED
      BY <1>1, <2>1, <2>3, <2>4, <2>7, <2>8, OthersQuiet, OneTaskBooks
  <1>5. CASE /\ paid' = paid /\ lost' = [lost EXCEPT ![t] = TRUE]
             /\ master' = [master EXCEPT ![m] = Resume(@, b)]
    <2>1. PICK l \in Loop :
            /\ Moves(m, l) /\ l.pc = b
            /\ l.todo = master[m].todo /\ l.copy = master[m].copy /\ l.cur = t
      BY <1>0, <1>1, <1>5, ResumeMoves
    <2>2. master'[m] = l /\ lost'[t]
      BY <1>1, <1>5, <2>1 DEF Moves, TypeOK
    <2>3. LoopShape'
      <3>1. LoopOK(m)'
        BY <1>2, <1>3, <2>1, <2>2 DEF BooksInv, LoopShape, LoopOK, Listed
      <3> QED
        BY <1>2, <2>1, <3>1, LoopMoved
    <2>4. \A u \in Tasks \ {t} : Untouched(u) /\ Quiet(m, u)
      BY <1>0, <1>1, <1>2, <1>3, <1>5, <2>1, <2>2, ZenonT(60)
        DEF Untouched, Quiet, Holds, Saving, Listed, TypeOK
    <2>5. VideoBook(t)' /\ SunoBook(t)'
      BY <1>2, <1>5, <2>1, <2>2, CutShort DEF BooksInv
    <2> QED
      BY <1>1, <2>1, <2>3, <2>4, <2>5, OthersQuiet, OneTaskBooks
  <1> QED
    BY <1>0, <1>4, <1>5 DEF AdjustFunding

\* The token is adjusted once, after the funding source.
LEMMA AdjustTokenBooks ==
  ASSUME BooksInv, NEW m \in Masters, AdjustToken(m)
  PROVE  BooksInv'
  <1> USE DEF setup, provider, handlers
  <1>0. PICK t \in Tasks, d \in Int, b \in {"sweep", "poll", "save"} :
           t = master[m].cur /\ d = master[m].delta /\ b = master[m].back
    BY DEF BooksInv, TypeOK, Loop
  <1>1. TypeOK /\ TypeOK'
    BY MasterStepType DEF BooksInv, MasterStep
  <1>2. UNCHANGED <<kind, live, ended, unpaid, tokenUnpaid, fetch, row, paid, upstream, actual>> /\ m \in live \ ended
    BY DEF AdjustToken, At
  <1>3. /\ master[m].pc = "token" /\ Holds(m, t) /\ t \notin master[m].todo
        /\ b = "save" => kind[t] = "suno"
    BY <1>0 DEF AdjustToken, At, Holds, BooksInv, LoopShape, LoopOK
  <1>4. PICK l \in Loop :
           /\ Moves(m, l) /\ l.pc = b
           /\ l.todo = master[m].todo /\ l.copy = master[m].copy /\ l.cur = t
           /\ b = "save" => l.seen = master[m].seen
    BY <1>0, <1>1, ResumeMoves DEF AdjustToken
  <1>5. master'[m] = l /\ \A n \in Masters \ {m} : master'[n] = master[n] /\ (Holds(n, t)' <=> Holds(n, t))
    BY <1>4 DEF Moves, Holds
  <1>6. LoopShape'
    <2>1. LoopOK(m)'
      BY <1>2, <1>3, <1>4, <1>5 DEF BooksInv, LoopShape, LoopOK, Listed
    <2> QED
      BY <1>2, <1>4, <2>1, LoopMoved
  <1>7. \/ tokenPaid' = [tokenPaid EXCEPT ![t] = @ + d] /\ lost' = lost
        \/ tokenPaid' = tokenPaid /\ lost' = [lost EXCEPT ![t] = TRUE]
    BY <1>0 DEF AdjustToken
  <1>8. \A u \in Tasks \ {t} : Untouched(u) /\ Quiet(m, u)
    BY <1>0, <1>1, <1>2, <1>3, <1>4, <1>5, <1>7, SMTT(30)
        DEF Untouched, Quiet, Holds, Saving, Listed, TypeOK
  <1>9. CASE tokenPaid' = [tokenPaid EXCEPT ![t] = @ + d] /\ lost' = lost
    <2>1. /\ TokenCharged(t)' = TokenCharged(t) + d /\ (Charged(t)' = Charged(t))
          /\ Quota \in Nat /\ TokenCharged(t) \in Int /\ (Unfinished(t)' <=> Unfinished(t))
      <3>1. /\ tokenPaid'[t] = tokenPaid[t] + d /\ tokenPaid[t] \in Int
            /\ tokenUnpaid[t] \in Int /\ Quota \in Nat
        BY <1>1, <1>9, TaskAssumption DEF TypeOK
      <3> QED
        BY <1>2, <3>1 DEF Charged, TokenCharged, Unfinished
    <2>2. ~Holds(m, t)' /\ (Saving(m, t)' <=> (b = "save")) /\ ~Listed(m, t)'
      BY <1>3, <1>4, <1>5 DEF Holds, Saving, Listed
    <2>3. VideoBook(t)'
      <3>1. VideoBook(t) /\ (Due(t)' = Due(t))
        BY <1>2 DEF BooksInv, Due
      <3> QED
        BY <1>0, <1>2, <1>3, <1>4, <1>5, <1>9, <2>1, <2>2, <3>1 DEF VideoBook, Open, Final
    <2>4. SunoBook(t)'
      <3>1. SunoBook(t)
        BY DEF BooksInv
      <3>2. row[t].status = "FAILURE" => ~Unfinished(t)
        BY DEF Unfinished, Final
      <3>3. SunoLine(m, t) => SunoLine(m, t)'
        BY <1>0, <1>2, <1>3, <1>4, <1>5, <2>1, <2>2, <3>2 DEF SunoLine
      <3> QED
        BY <1>2, <1>9, <3>1, <3>3 DEF SunoBook
    <2> QED
      BY <1>1, <1>4, <1>6, <1>8, <2>3, <2>4, OthersQuiet, OneTaskBooks
  <1>10. CASE tokenPaid' = tokenPaid /\ lost' = [lost EXCEPT ![t] = TRUE]
    <2>1. lost'[t]
      BY <1>1, <1>10 DEF TypeOK
    <2>2. VideoBook(t)' /\ SunoBook(t)'
      BY <1>2, <1>4, <1>10, <2>1, CutShort DEF BooksInv
    <2> QED
      BY <1>1, <1>4, <1>6, <1>8, <2>2, OthersQuiet, OneTaskBooks
  <1> QED
    BY <1>7, <1>9, <1>10

-----------------------------------------------------------------------------
(* Theorems. *)

\* The books balance initially.
LEMMA InitBooks == Init => BooksInv
  <1> SUFFICES ASSUME Init PROVE BooksInv
    OBVIOUS
  <1>1. TypeOK
    BY InitType
  <1>2. \A m \in Masters : master[m].pc = "idle" /\ master[m].todo = {}
    BY DEF Init, IdleMaster
  <1>3. \A t \in Tasks : /\ row[t].status = "ABSENT" /\ upstream[t] = "running"
                          /\ Charged(t) = 0 /\ TokenCharged(t) = 0
    <2>1. \A t \in Tasks : row[t].status = "ABSENT" /\ upstream[t] = "running"
      BY DEF Init, NoRow
    <2>2. \A t \in Tasks : paid[t] = 0 /\ tokenPaid[t] = 0 /\ unpaid[t] = 0 /\ tokenUnpaid[t] = 0
      BY DEF Init
    <2>3. ASSUME NEW t \in Tasks PROVE Charged(t) = 0 /\ TokenCharged(t) = 0
      <3>1. paid[t] = 0 /\ unpaid[t] = 0 /\ tokenPaid[t] = 0 /\ tokenUnpaid[t] = 0
        BY <2>2
      <3> QED
        BY <3>1, SMT DEF Charged, TokenCharged
    <2> QED
      BY <2>1, <2>3
  <1>4. \A f \in Fetchers : fetch[f].pc = "idle"
    BY DEF Init, IdleFetch
  <1>5. LoopShape
    BY <1>2, <1>4 DEF LoopShape, LoopOK, Listed
  <1>6. \A t \in Tasks : VideoBook(t) /\ SunoBook(t)
    <2>1. \A t \in Tasks, m \in Masters : ~Holds(m, t) /\ ~Saving(m, t) /\ ~Listed(m, t)
      BY <1>2 DEF Holds, Saving, Listed
    <2>2. \A t \in Tasks : VideoBook(t)
      BY <1>2, <1>3, <2>1 DEF VideoBook, Open, Final
    <2>3. \A t \in Tasks : SunoBook(t)
      BY <1>3, <2>1 DEF SunoBook, SunoLine, Unfinished
    <2> QED
      BY <2>2, <2>3
  <1> QED
    BY <1>1, <1>5, <1>6 DEF BooksInv

\* Every step keeps the books.
LEMMA NextBooks ==
  ASSUME BooksInv, [Next]_vars
  PROVE  BooksInv'
  <1>1. CASE UNCHANGED vars
    <2>1. TypeOK'
      BY <1>1 DEF vars, BooksInv, TypeOK
    <2>2. LoopShape'
      BY <1>1 DEF vars, BooksInv, LoopShape, LoopOK, Listed
    <2>3. \A t \in Tasks : Untouched(t)
      BY <1>1 DEF vars, Untouched
    <2> QED
      BY <1>1, <2>1, <2>2, <2>3, LoopsQuiet, NoTaskBooks DEF vars
  <1>2. ASSUME NEW m \in Masters, MasterStep(m) \/ Crash(m) PROVE BooksInv'
    BY <1>2, ListBooks, PollUpdateBooks, SunoUpdateBooks, SunoSaveBooks, AdjustFundingBooks,
       AdjustTokenBooks, EndBooks, SweepBooks, BulkBooks, PollFetchBooks, CrashBooks
    DEF MasterStep
  <1> QED
    BY <1>1, <1>2, PanicBooks, SubmitBooks, ProviderBooks, FetchBooks DEF Next

\* A charge below zero is a refund of more than the quota of the row.
LEMMA ChargedIsOwed ==
  ASSUME TypeOK, NEW t \in Tasks
  PROVE  /\ (Charged(t) >= 0) <=> (paid[t] >= -unpaid[t])
         /\ (TokenCharged(t) >= 0) <=> (tokenPaid[t] >= -tokenUnpaid[t])
  <1>1. paid[t] \in Int /\ unpaid[t] \in Int /\ tokenPaid[t] \in Int /\ tokenUnpaid[t] \in Int
    BY DEF TypeOK
  <1> QED
    BY <1>1 DEF Charged, TokenCharged

\* Balanced books are what the properties say.
LEMMA BooksBalance ==
  ASSUME BooksInv
  PROVE  VideoNeverOverRefunded /\ VideoBilledExactly /\ SunoRefundedOnce
  <1>1. Quota \in Nat
    BY TaskAssumption
  <1>2. \A t \in Tasks : row[t].status \in {"ABSENT"} \cup Open \cup Final
    BY DEF BooksInv, TypeOK, Rows, Statuses, Open
  <1>3. \A t \in Tasks : Billing(t) <=> \E m \in Masters : Holds(m, t)
    BY DEF BooksInv, TypeOK, LoopShape, LoopOK, Billing, Holds
  <1>4. VideoNeverOverRefunded
    <2> SUFFICES ASSUME NEW t \in Tasks, kind[t] = "video" PROVE Charged(t) >= 0 /\ TokenCharged(t) >= 0
      BY ChargedIsOwed DEF VideoNeverOverRefunded, BooksInv
    <2>1. VideoBook(t)
      BY DEF BooksInv
    <2>2. \A m \in Masters : master[m].delta \in Int
      BY DEF BooksInv, TypeOK, Loop
    <2> QED
      BY <1>1, <1>2, <2>1, <2>2 DEF VideoBook
  <1>5. VideoBilledExactly
    <2> SUFFICES ASSUME NEW t \in Tasks, kind[t] = "video", ~lost[t], ~Billing(t)
                 PROVE  Charged(t) = Due(t) /\ TokenCharged(t) = Due(t)
      BY DEF VideoBilledExactly, Charged, TokenCharged
    <2>1. VideoBook(t)
      BY DEF BooksInv
    <2>2. row[t].status = "ABSENT" => Due(t) = 0
      BY DEF Due
    <2>3. row[t].status \in Open => Due(t) = Quota
      BY DEF Due, Open
    <2> QED
      BY <1>2, <1>3, <2>1, <2>2, <2>3 DEF VideoBook
  <1>6. SunoRefundedOnce
    <2> SUFFICES ASSUME NEW t \in Tasks, kind[t] = "suno", NEW m \in Masters, live = {m}, ~lost[t]
                 PROVE  Charged(t) >= 0 /\ TokenCharged(t) >= 0
      BY ChargedIsOwed DEF SunoRefundedOnce, BooksInv
    <2> QED
      BY DEF BooksInv, SunoBook, SunoLine
  <1> QED
    BY <1>4, <1>5, <1>6

\* For any number of masters sweeping and polling, users fetching, faults and
\* crashes, whatever of the settlement was refused at the submission: no video
\* pays back more than the quota of its row, and no Suno task does under one
\* master whose saves succeed.
THEOREM Inductive == Spec => []TaskInv
  <1>1. Spec => []BooksInv
    BY InitBooks, NextBooks, PTL DEF Spec
  <1>2. BooksInv => TaskInv
    BY BooksBalance DEF TaskInv
  <1> QED
    BY <1>1, <1>2, PTL

\* A video no error has hit and nobody is billing has cost exactly what its row
\* says, in wallet or subscription and in the token, whoever ended it, up to
\* what a refused settlement had left unpaid.
THEOREM BilledExactly == Spec => []VideoBilledExactly
  <1>1. TaskInv => VideoBilledExactly
    BY BooksBalance DEF TaskInv
  <1> QED
    BY <1>1, Inductive, PTL

\* The compare-and-set of UpdateWithStatus protects a video that has ended: its
\* row changes no more while its channel exists.
THEOREM EndIsFinal == Spec => EndedStays
  <1>1. ASSUME BooksInv, Next, NEW t \in Tasks, kind[t] = "video", row[t].status \in Final, channel[t]
        PROVE  row'[t] = row[t]
    <2> USE DEF setup, provider, handlers, money
    <2>1. row \in [Tasks -> Rows]
      BY <1>1 DEF BooksInv, TypeOK
    <2>2. \A m \in Masters : Listed(m, t) => ~Wins(t, master[m].copy[t])
      BY <1>1 DEF BooksInv, LoopShape, LoopOK, Wins, Open, Final
    <2>3. ASSUME NEW u \in Tasks, Submit(u) PROVE row'[t] = row[t]
      BY <1>1, <2>1, <2>3 DEF Submit, Final
    <2>4. ASSUME NEW m \in Masters, NEW u \in Tasks, SweepTask(m, u) PROVE row'[t] = row[t]
      BY <1>1, <2>1, <2>2, <2>4 DEF SweepTask, Listed
    <2>5. ASSUME NEW m \in Masters, NEW u \in Tasks, BulkFail(m, u) PROVE row'[t] = row[t]
      BY <1>1, <2>1, <2>5 DEF BulkFail
    <2>6. ASSUME NEW m \in Masters, PollUpdate(m) PROVE row'[t] = row[t]
      BY <1>1, <2>1, <2>2, <2>6 DEF PollUpdate, At, Listed
    <2>7. ASSUME NEW m \in Masters, SunoSave(m) PROVE row'[t] = row[t]
      <3>1. kind[master[m].cur] = "suno"
        BY <1>1, <2>7 DEF SunoSave, At, BooksInv, LoopShape, LoopOK
      <3> QED
        BY <1>1, <2>1, <2>7, <3>1 DEF SunoSave
    <2>8. ASSUME NEW f \in Fetchers, FetchUpdate(f) PROVE row'[t] = row[t]
      <3>1. kind[fetch[f].cur] = "realtime"
        BY <1>1, <2>8 DEF FetchUpdate, BooksInv, LoopShape
      <3> QED
        BY <1>1, <2>1, <2>8, <3>1 DEF FetchUpdate
    <2>9. ASSUME NEW m \in Masters, MasterStep(m) \/ Crash(m) PROVE row'[t] = row[t]
      BY <2>4, <2>5, <2>6, <2>7, <2>9
      DEF MasterStep, SweepList, PollList, SunoUpdate, AdjustFunding, AdjustToken, PollEnd, PollFetch, Crash
    <2>10. ASSUME NEW f \in Fetchers, FetchStep(f) PROVE row'[t] = row[t]
      BY <2>8, <2>10 DEF FetchStep, FetchRead, FetchAnswer
    <2>11. ASSUME NEW m \in Masters, NEW u \in Tasks, PollPanic(m, u) PROVE row'[t] = row[t]
      BY <2>11 DEF PollPanic
    <2> QED
      BY <1>1, <2>3, <2>9, <2>10, <2>11 DEF Next, Finish, Age, DeleteChannel
  <1>2. BooksInv /\ [Next]_vars =>
           [\A t \in Tasks : kind[t] = "video" /\ row[t].status \in Final /\ channel[t] =>
               row'[t] = row[t]]_vars
    BY <1>1
  <1>3. TaskInv => BooksInv
    BY DEF TaskInv
  <1> QED
    BY <1>2, <1>3, Inductive, PTL DEF Spec, EndedStays
=============================================================================
