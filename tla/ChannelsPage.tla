---------------------------- MODULE ChannelsPage ----------------------------
(***************************************************************************)
(* The channels page of the classic console: the hook useChannelsData      *)
(* (web/classic/src/hooks/channels/useChannelsData.jsx) on top of the HTTP *)
(* client, which lets concurrent GETs of one URL share one request         *)
(* (patchAPIInstance in web/classic/src/helpers/api.js).                   *)
(*                                                                         *)
(* The page loads and searches lists, changes channels, and tests all      *)
(* models of a channel in batches.  Its handlers are asynchronous          *)
(* functions: between an await and what follows any other handler may run, *)
(* and what they captured - the list, isBatchTesting - is the state of the *)
(* render they were created in.                                            *)
(***************************************************************************)
EXTENDS Naturals, FiniteSets

CONSTANTS
    Plain,      \* pages and filters without a search
    Search,     \* queries with a keyword, group or model
    Settings,   \* endpoint type and streaming of a test
    MaxClicks,  \* bound on the actions of the user
    NumModels,  \* models of the channel under test
    Limit,      \* concurrencyLimit of a batch
    MaxLoops    \* bound on the batch tests started

ASSUME ChannelsAssumption ==
    /\ Plain \cap Search = {}
    /\ Plain # {} /\ Settings # {}
    /\ MaxClicks \in Nat /\ MaxLoops \in Nat
    /\ NumModels \in Nat \ {0}    \* without a model nothing is started
    /\ Limit \in Nat \ {0}

VARIABLES
    active,     \* the query the user asked for last
    asks,       \* queries asked for so far, by the user or by a refresh
    counter,    \* requestCounter
    calls,      \* loadChannels and searchChannels waiting for their answer
    loading,
    shown,      \* the list on display: a query, and the number of the ask
                \* that it answers
    manages,    \* manageChannel calls that wait, with the list they captured
    changes,    \* other changes that wait and end with refresh()
    deletes,    \* batchDeleteChannels calls that wait
    failed,     \* a query failed that would have counted
    raced,      \* since the last ask an unnumbered search, a captured list or
                \* a refresh for a captured page has interfered
    clicks,     \* actions of the user so far
    stopRef,    \* shouldStopBatchTestingRef
    isBatch,    \* isBatchTesting
    loops,      \* the runs of batchTestModels
    tests,      \* testChannel calls waiting for their answer
    testing,    \* testingModels: the models with a spinner
    results,    \* models with a result in modelTestResults
    overlapped  \* a batch test was started before the last one had ended

pending == <<manages, changes, deletes>>
list == <<active, asks, counter, calls, loading, shown, pending, failed, raced>>
batch == <<stopRef, isBatch, loops, tests, testing, results, overlapped>>
vars == <<list, batch, clicks>>

Queries == Plain \cup Search
Models == 1..NumModels
Loops == 1..MaxLoops
Single == 0     \* a test started by the button of one model

(* Who switches loading off: nobody, the call if it is heard, or the       *)
(* batchDeleteChannels that waits for it.                                  *)
Spins == {"none", "own", "delete"}

Calls == [q: Queries, id: Nat, n: Nat, spin: Spins]
Lists == [q: Queries, at: Nat]
Manages == [view: Lists, del: BOOLEAN]
Tests == [model: Models, url: Settings, by: Loops \cup {Single}, cap: BOOLEAN, view: Lists]

TypeOK ==
    /\ active \in Queries /\ shown \in Lists
    /\ {asks, counter, changes, deletes} \subseteq Nat
    /\ calls \subseteq Calls
    /\ manages \subseteq Manages
    /\ tests \subseteq Tests
    /\ testing \subseteq Models /\ results \subseteq Models
    /\ loops \in [Loops -> [pc: {"unused", "head", "wait", "report", "done"},
                            next: 1..(NumModels + Limit), url: Settings, view: Lists]]
    /\ {loading, failed, raced, stopRef, isBatch, overlapped} \subseteq BOOLEAN
    /\ clicks \in 0..MaxClicks

(* The effect of the first render has called loadChannels.                 *)
Init ==
    /\ active \in Plain
    /\ asks = 1
    /\ counter = 1
    /\ calls = {[q |-> active, id |-> 1, n |-> 1, spin |-> "own"]}
    /\ loading = TRUE
    /\ shown = [q |-> active, at |-> 0]
    /\ manages = {} /\ changes = 0 /\ deletes = 0
    /\ failed = FALSE
    /\ raced = FALSE
    /\ clicks = 0
    /\ stopRef = FALSE
    /\ isBatch = FALSE
    /\ loops = [i \in Loops |-> [pc |-> "unused", next |-> 1,
                                url |-> CHOOSE u \in Settings : TRUE, view |-> shown]]
    /\ tests = {}
    /\ testing = {}
    /\ results = {}
    /\ overlapped = FALSE

-----------------------------------------------------------------------------
(* Lists. *)

Click ==
    /\ clicks < MaxClicks
    /\ clicks' = clicks + 1

Send(q, id, spin) ==
    /\ asks' = asks + 1
    /\ calls' = calls \cup {[q |-> q, id |-> id, n |-> asks + 1, spin |-> spin]}

(* Mutant: the answers are not numbered.                                   *)
loadChannelsBug(q, spin) ==
    /\ q \in Plain
    /\ Send(q, counter, spin)
    /\ loading' = TRUE
    /\ failed' = FALSE
    /\ UNCHANGED counter

(* loadChannels without a search, up to API.get.                           *)
loadChannels(q, spin) ==
    /\ q \in Plain
    /\ counter' = counter + 1
    /\ Send(q, counter + 1, spin)
    /\ loading' = TRUE
    /\ failed' = FALSE

(* searchChannels, called directly or ("own") by loadChannels: its answers *)
(* are not numbered.                                                       *)
searchChannels(q, spin) ==
    /\ q \in Search
    /\ Send(q, 0, spin)
    /\ loading' = (loading \/ spin = "own")
    /\ failed' = (failed /\ spin = "none")
    /\ UNCHANGED counter

(* A load returns at once when it is not the newest.                       *)
Heard(c) == c.id \in {0, counter}

(* A query whose answer will be shown although another was asked later.    *)
Overtaken(q) ==
    \E c \in calls : c.q # q /\ (c.q \in Search \/ (q \in Search /\ Heard(c)))

(* The user turns a page, filters, sorts or searches.                      *)
Ask(q) ==
    /\ Click
    /\ active' = q
    /\ loadChannels(q, "own") \/ \E spin \in {"none", "own"} : searchChannels(q, spin)
    /\ raced' = Overtaken(q)
    /\ UNCHANGED <<shown, pending, batch>>

(* refresh() after the answer to a change: its page and filters are those  *)
(* of the render the change was started in, its search words those of the  *)
(* form now, so it may ask for something else than the user did.           *)
Refresh(q, deleting) ==
    /\ \/ loadChannels(q, IF deleting THEN "delete" ELSE "own")
       \/ searchChannels(q, IF deleting THEN "delete" ELSE "none")
    /\ raced' = (Overtaken(q) \/ q # active)
    /\ UNCHANGED active

(* One response answers every call that asked for the same URL.  A load    *)
(* that is not the newest leaves loading as it is, but batchDeleteChannels *)
(* switches it off whatever its refresh met.                               *)
Response(q, success) ==
    LET mine == {c \in calls : c.q = q}
        heard == {c \in mine : Heard(c)}
    IN
    /\ mine # {}
    /\ calls' = calls \ mine
    /\ \/ /\ success
          /\ \E c \in heard :
                /\ \A d \in heard : d.n <= c.n
                /\ shown' = [q |-> q, at |-> c.n]
       \/ ~(success /\ heard # {}) /\ UNCHANGED shown
    /\ loading' = (loading /\ \A c \in mine :
                       c.spin # "delete" /\ (c.spin = "own" => ~Heard(c)))
    /\ failed' = (failed \/ (~success /\ heard # {}))
    /\ UNCHANGED <<active, asks, counter, pending, raced, batch, clicks>>

(* The request fails: nobody catches the error, and loading stays on.      *)
Rejection(q) ==
    /\ \E c \in calls : c.q = q
    /\ calls' = {c \in calls : c.q # q}
    /\ failed' = (failed \/ \E c \in calls : c.q = q /\ Heard(c))
    /\ UNCHANGED <<active, asks, counter, loading, shown, pending, raced, batch, clicks>>

(* manageChannel and the other changes of one row or tag: after the answer *)
(* setChannels puts back a copy of the list captured with the click.  The  *)
(* delete button (del) calls refresh() next.                               *)
manageChannel(del) ==
    /\ Click
    /\ manages' = manages \cup {[view |-> shown, del |-> del]}
    /\ UNCHANGED <<active, asks, counter, calls, loading, shown, changes, deletes>>
    /\ UNCHANGED <<failed, raced, batch>>

PutBack(view) ==
    /\ shown' = view
    /\ raced' = (raced \/ view # shown)

(* The answer: a success, an error that is shown, or a failed request.     *)
ManageAnswered(e) ==
    /\ e \in manages
    /\ manages' = manages \ {e}
    /\ \/ /\ e.del
          /\ shown' \in {e.view, shown}
          /\ \E q \in Queries : Refresh(q, FALSE)
       \/ /\ ~e.del /\ PutBack(e.view)
          /\ UNCHANGED <<active, asks, counter, calls, loading, failed>>
       \/ UNCHANGED <<active, asks, counter, calls, loading, shown, failed, raced>>
    /\ UNCHANGED <<changes, deletes, batch, clicks>>

(* A copy, a tag of several channels, a repair, an edited channel: nothing *)
(* but refresh() follows the answer.                                       *)
changeChannels ==
    /\ Click
    /\ changes' = changes + 1
    /\ UNCHANGED <<active, asks, counter, calls, loading, shown, manages, deletes>>
    /\ UNCHANGED <<failed, raced, batch>>

ChangeAnswered ==
    /\ changes > 0
    /\ changes' = changes - 1
    /\ \/ \E q \in Queries : Refresh(q, FALSE)
       \/ UNCHANGED <<active, asks, counter, calls, loading, failed, raced>>
    /\ UNCHANGED <<shown, manages, deletes, batch, clicks>>

(* batchDeleteChannels shares loading with the lists.                      *)
batchDeleteChannels ==
    /\ Click
    /\ deletes' = deletes + 1
    /\ loading' = TRUE
    /\ UNCHANGED <<active, asks, counter, calls, shown, manages, changes, failed, raced, batch>>

(* Deleted, refused, or failed.                                            *)
DeleteAnswered ==
    /\ deletes > 0
    /\ deletes' = deletes - 1
    /\ \/ \E q \in Queries : Refresh(q, TRUE)
       \/ /\ loading' = FALSE
          /\ UNCHANGED <<active, asks, counter, calls, failed, raced>>
       \/ /\ failed' = TRUE
          /\ UNCHANGED <<active, asks, counter, calls, loading, raced>>
    /\ UNCHANGED <<shown, manages, changes, batch, clicks>>

-----------------------------------------------------------------------------
(* Tests. *)

Ended(i) == loops[i].pc \in {"unused", "done"}

(* batchTestModels up to its loop.  The button is disabled while           *)
(* isBatchTesting.                                                         *)
batchTestModels(i, u) ==
    /\ Click
    /\ ~isBatch
    /\ loops[i].pc = "unused"
    /\ \A j \in Loops : j < i => loops[j].pc # "unused"
    /\ loops' = [loops EXCEPT ![i].pc = "head", ![i].url = u, ![i].view = shown]
    /\ isBatch' = TRUE
    /\ stopRef' = FALSE
    /\ results' = {}
    /\ overlapped' = (overlapped \/ \E j \in Loops : ~Ended(j))
    /\ UNCHANGED <<list, tests, testing>>

(* The finally block.                                                      *)
Finish(i) ==
    /\ loops' = [loops EXCEPT ![i].pc = "done"]
    /\ isBatch' = FALSE
    /\ UNCHANGED <<tests, testing>>

NextBatch(i) == {m \in Models : loops[i].next <= m /\ m < loops[i].next + Limit}

(* The calls of testChannel for the next models; they captured             *)
(* isBatchTesting before the batch set it, so their own two checks never   *)
(* stop a batch.                                                           *)
BatchTests(i) ==
    [model: NextBatch(i), url: {loops[i].url}, by: {i}, cap: {FALSE}, view: {loops[i].view}]

(* Mutant: the index is not advanced.                                      *)
LoopHeadBug(i) ==
    /\ loops[i].pc = "head"
    /\ \/ /\ stopRef
          /\ Finish(i)
       \/ /\ ~stopRef
          /\ loops' = [loops EXCEPT ![i].pc = "wait"]
          /\ tests' = tests \cup BatchTests(i)
          /\ testing' = testing \cup NextBatch(i)
          /\ UNCHANGED isBatch
    /\ UNCHANGED <<list, stopRef, results, overlapped, clicks>>

(* The head of the loop.                                                   *)
LoopHead(i) ==
    /\ loops[i].pc = "head"
    /\ \/ /\ stopRef
          /\ Finish(i)
       \/ /\ ~stopRef
          /\ loops' = [loops EXCEPT ![i].pc = "wait", ![i].next = @ + Limit]
          /\ tests' = tests \cup BatchTests(i)
          /\ testing' = testing \cup NextBatch(i)
          /\ UNCHANGED isBatch
    /\ UNCHANGED <<list, stopRef, results, overlapped, clicks>>

(* Mutant: one batch too few.                                              *)
LoopTailBug(i) ==
    /\ loops[i].pc = "wait"
    /\ \A w \in tests : w.by # i
    /\ \/ stopRef /\ Finish(i)
       \/ /\ ~stopRef
          /\ loops' = [loops EXCEPT ![i].pc =
                          IF loops[i].next + Limit <= NumModels THEN "head" ELSE "report"]
          /\ UNCHANGED <<isBatch, tests, testing>>
    /\ UNCHANGED <<list, stopRef, results, overlapped, clicks>>

(* Mutant: the next batch does not wait for the last one.                  *)
LoopTailEagerBug(i) ==
    /\ loops[i].pc = "wait"
    /\ \/ stopRef /\ Finish(i)
       \/ /\ ~stopRef
          /\ loops' = [loops EXCEPT ![i].pc =
                          IF loops[i].next <= NumModels THEN "head" ELSE "report"]
          /\ UNCHANGED <<isBatch, tests, testing>>
    /\ UNCHANGED <<list, stopRef, results, overlapped, clicks>>

(* Promise.allSettled has returned; a pause follows if there is more.      *)
LoopTail(i) ==
    /\ loops[i].pc = "wait"
    /\ \A w \in tests : w.by # i
    /\ \/ stopRef /\ Finish(i)
       \/ /\ ~stopRef
          /\ loops' = [loops EXCEPT ![i].pc =
                          IF loops[i].next <= NumModels THEN "head" ELSE "report"]
          /\ UNCHANGED <<isBatch, tests, testing>>
    /\ UNCHANGED <<list, stopRef, results, overlapped, clicks>>

(* After the loop: 300 ms later the totals are shown.                      *)
Report(i) ==
    /\ loops[i].pc = "report"
    /\ Finish(i)
    /\ UNCHANGED <<list, stopRef, results, overlapped, clicks>>

(* The button of one model, which a spinner blocks.                        *)
testChannel(m, u) ==
    /\ Click
    /\ m \notin testing
    /\ tests' = tests \cup {[model |-> m, url |-> u, by |-> Single, cap |-> isBatch, view |-> shown]}
    /\ testing' = testing \cup {m}
    /\ UNCHANGED <<list, stopRef, isBatch, loops, results, overlapped>>

(* Mutant: the spinner is removed after a success only.                    *)
TestAnsweredBug(m, u) ==
    LET mine == {w \in tests : w.model = m /\ w.url = u}
        kept == {w \in mine : ~(stopRef /\ w.cap)}
    IN
    /\ mine # {}
    /\ tests' = tests \ mine
    /\ results' = IF kept # {} THEN results \cup {m} ELSE results
    /\ \E success \in BOOLEAN : testing' = IF success THEN testing \ {m} ELSE testing
    /\ UNCHANGED <<list, stopRef, isBatch, loops, overlapped, clicks>>

(* The rest of testChannel, for every call that shares the request: the    *)
(* same model with the same settings.  Only a single test that was started *)
(* during a batch notices the stop.  A success puts a captured list back   *)
(* (updateChannelProperty).                                                *)
TestAnswered(m, u) ==
    LET mine == {w \in tests : w.model = m /\ w.url = u}
        kept == {w \in mine : ~(stopRef /\ w.cap)}
    IN
    /\ mine # {}
    /\ tests' = tests \ mine
    /\ results' = IF kept # {} THEN results \cup {m} ELSE results
    /\ testing' = testing \ {m}
    /\ \/ UNCHANGED <<shown, raced>>
       \/ \E w \in kept : PutBack(w.view)
    /\ UNCHANGED <<active, asks, counter, calls, loading, pending, failed, clicks>>
    /\ UNCHANGED <<stopRef, isBatch, loops, overlapped>>

(* "Stop" and "cancel" of the test dialog.                                 *)
handleCloseModal ==
    /\ Click
    /\ stopRef' = (stopRef \/ isBatch)
    /\ isBatch' = FALSE
    /\ testing' = {}
    /\ UNCHANGED <<list, loops, tests, results, overlapped>>

-----------------------------------------------------------------------------

ListStep ==
    \/ \E q \in Queries :
          \/ Ask(q)
          \/ \E success \in BOOLEAN : Response(q, success)
          \/ Rejection(q)
    \/ \E del \in BOOLEAN : manageChannel(del)
    \/ \E e \in manages : ManageAnswered(e)
    \/ changeChannels
    \/ ChangeAnswered
    \/ batchDeleteChannels
    \/ DeleteAnswered

LoopStep(i) == LoopHead(i) \/ LoopTail(i) \/ Report(i)

TestStep ==
    \/ \E i \in Loops : LoopStep(i) \/ \E u \in Settings : batchTestModels(i, u)
    \/ \E m \in Models, u \in Settings : testChannel(m, u) \/ TestAnswered(m, u)
    \/ handleCloseModal

Next == ListStep \/ TestStep

Spec ==
    /\ Init
    /\ [][Next]_vars
    /\ \A i \in Loops : WF_vars(LoopStep(i))
    /\ \A m \in Models, u \in Settings : WF_vars(TestAnswered(m, u))

-----------------------------------------------------------------------------
(* Properties. *)

(* However the answers are reordered and shared: once all have arrived,    *)
(* the list on display is the answer to the last ask, not an older answer  *)
(* to it or to another one.  Three things of the code defeat this, until   *)
(* the next ask makes up for them (raced): a search, which is not numbered, *)
(* beside another query; an older list, of the same query or not, that a   *)
(* change or a test captured and puts back; a refresh() for the page on    *)
(* which a change was started.                                             *)
LatestShown == calls = {} /\ ~failed /\ ~raced => shown = [q |-> active, at |-> asks]

(* Outdated answers return without switching loading off, and a deletion   *)
(* and the lists switch it on and off over each other; still, when nothing *)
(* is awaited and nothing has failed, it is off.                           *)
LoadingEnds == calls = {} /\ deletes = 0 /\ ~failed => ~loading

(* A spinner belongs to a test that still runs, whoever started, shared,   *)
(* stopped or hid it.                                                      *)
SpinnersRun == testing \subseteq {w.model : w \in tests}

(* The dialog says a batch test runs only while one does, and as long as   *)
(* no second one was started over it and it was not stopped, it says so.   *)
ButtonHonest ==
    /\ isBatch => \E i \in Loops : ~Ended(i)
    /\ ~overlapped /\ ~stopRef /\ (\E i \in Loops : ~Ended(i)) => isBatch

(* Searches carry no number, loads do; the counter is the number of the    *)
(* newest load.                                                            *)
CallsNumbered ==
    /\ counter >= 1
    /\ \A c \in calls : /\ c.id <= counter /\ (c.id = 0 => c.q \in Search)
                         /\ c.n <= asks

(* While loading is on, an answer that will switch it off is under way,    *)
(* unless a query failed.                                                  *)
LoadingAwaits ==
    loading /\ ~failed => deletes > 0 \/ \E c \in calls : c.spin # "none" /\ Heard(c)

(* Nothing but an answer to the query asked for last can still reach the   *)
(* display, and the one to the last ask does so, or is there already.      *)
ActiveAwaited ==
    ~raced /\ ~failed =>
        /\ \A c \in calls : Heard(c) => c.q = active
        /\ \/ \E c \in calls : Heard(c) /\ c.n = asks
           \/ shown = [q |-> active, at |-> asks] /\ \A c \in calls : ~Heard(c)

(* Without an overlap at most one batch test runs.                         *)
OneBatch == ~overlapped => \A i, j \in Loops : ~Ended(i) /\ ~Ended(j) => i = j

(* A batch test stands at its head with models left, and reports with none *)
(* left and no test under way; its tests do not notice a stop.             *)
LoopShape ==
    /\ \A i \in Loops :
          /\ loops[i].pc = "unused" => loops[i].next = 1
          /\ loops[i].pc = "head" => loops[i].next <= NumModels
          /\ loops[i].pc = "report" =>
                 loops[i].next > NumModels /\ \A w \in tests : w.by # i
    /\ \A w \in tests : w.by # Single => ~w.cap

(* The tests of a batch under way are those of its last step.              *)
BatchWindow ==
    \A w \in tests : \A i \in Loops : w.by = i =>
        /\ loops[i].pc = "wait"
        /\ w.model < loops[i].next /\ loops[i].next <= w.model + Limit
        /\ w.url = loops[i].url /\ w.view = loops[i].view

(* Each model the batch test has come past has its result, or its test is  *)
(* under way.                                                              *)
BatchCovered ==
    ~overlapped => \A i \in Loops : ~Ended(i) =>
        \A m \in Models : m < loops[i].next =>
            m \in results \/ \E w \in tests : w.by = i /\ w.model = m

(* What the page says of itself is true: loading, spinners and the button; *)
(* with the parts that make this inductive.                                *)
PageInv ==
    /\ TypeOK
    /\ LoadingEnds
    /\ SpinnersRun
    /\ ButtonHonest
    /\ CallsNumbered
    /\ LoadingAwaits
    /\ ActiveAwaited
    /\ OneBatch
    /\ LoopShape
    /\ BatchWindow
    /\ BatchCovered

(* concurrencyLimit: whatever is stopped, restarted or shared with single  *)
(* tests, a batch test has at most that many requests under way, and the   *)
(* page no more than that unless a batch test was started over one that    *)
(* had been stopped and had not ended - which revives it.                  *)
BatchLimit ==
    /\ \A i \in Loops : Cardinality({w \in tests : w.by = i}) <= Limit
    /\ ~overlapped => Cardinality({w \in tests : w.by # Single}) <= Limit

(* The totals of a batch test that was not overlapped count a result for   *)
(* every model.                                                            *)
ReportComplete ==
    [][\A i \in Loops :
          loops[i].pc = "report" /\ loops'[i].pc = "done" /\ ~overlapped =>
              results = Models]_vars

(* Every batch test ends, stopped or not, when the server answers.         *)
BatchEnds == \A i \in Loops : loops[i].pc = "head" ~> Ended(i)

=============================================================================
