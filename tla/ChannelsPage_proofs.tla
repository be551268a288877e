------------------------ MODULE ChannelsPage_proofs ------------------------
(* The channels page: proofs for every number of clicks, models, batches   *)
(* and queries.                                                            *)
EXTENDS ChannelsPage, FiniteSetTheorems, TLAPS

\* The types of the lists and of the tests, apart.
ListType ==
    /\ active \in Queries /\ shown \in Lists
    /\ asks \in Nat /\ counter \in Nat
    /\ calls \subseteq Calls
    /\ manages \subseteq Manages /\ changes \in Nat /\ deletes \in Nat
    /\ loading \in BOOLEAN /\ failed \in BOOLEAN /\ raced \in BOOLEAN

Loop == [pc: {"unused", "head", "wait", "report", "done"},
         next: 1..(NumModels + Limit), url: Settings, view: Lists]

BatchType ==
    /\ tests \subseteq Tests
    /\ testing \subseteq Models /\ results \subseteq Models
    /\ loops \in [Loops -> Loop]
    /\ stopRef \in BOOLEAN /\ isBatch \in BOOLEAN /\ overlapped \in BOOLEAN

\* The type invariant is about the lists, the tests and the clicks.
LEMMA TypeSplit == TypeOK <=> ListType /\ BatchType /\ clicks \in 0..MaxClicks
  BY DEF TypeOK, ListType, BatchType, Loop

\* The same after a step.
LEMMA TypeSplitNext == TypeOK' <=> ListType' /\ BatchType' /\ clicks' \in 0..MaxClicks
  BY DEF TypeOK, ListType, BatchType, Loop

-----------------------------------------------------------------------------
(* The lists. *)

ListInv == ListType /\ clicks \in 0..MaxClicks /\ CallsNumbered /\ LoadingAwaits /\ ActiveAwaited

\* Types of the fields of a call whose answer is awaited.
LEMMA CallFields ==
  ASSUME ListType, NEW c \in calls
  PROVE  c.q \in Queries /\ c.id \in Nat /\ c.n \in Nat /\ c.spin \in Spins
  BY DEF ListType, Calls

\* A new call, of any of the two kinds.
LEMMA NewCall ==
  ASSUME ListType, NEW q \in Queries, NEW id \in Nat, NEW spin \in Spins, Send(q, id, spin)
  PROVE  /\ asks' = asks + 1 /\ asks' \in Nat
         /\ calls' \subseteq Calls
         /\ \E c \in calls' : c.q = q /\ c.id = id /\ c.n = asks' /\ c.spin = spin
         /\ \A c \in calls' : c \in calls \/ (c.q = q /\ c.id = id /\ c.n = asks' /\ c.spin = spin)
         /\ \A c \in calls : c \in calls'
  <1>1. asks' = asks + 1 /\ asks' \in Nat
    BY DEF Send, ListType
  <1> DEFINE new == [q |-> q, id |-> id, n |-> asks + 1, spin |-> spin]
  <1>2. new \in Calls
    BY <1>1 DEF Calls
  <1>3. new.q = q /\ new.id = id /\ new.n = asks' /\ new.spin = spin
    BY <1>1
  <1>4. calls' = calls \cup {new}
    BY DEF Send
  <1> HIDE DEF new
  <1> QED
    BY <1>1, <1>2, <1>3, <1>4 DEF ListType

\* loadChannels takes a new number, so every earlier load is outdated, and the
\* call is heard that answers the last ask.
LEMMA LoadKeepsList ==
  ASSUME ListInv, NEW q \in Queries, NEW spin \in {"own", "delete"}, loadChannels(q, spin),
         active' \in Queries, shown' \in Lists, raced' \in BOOLEAN,
         manages' \subseteq Manages, changes' \in Nat, deletes' \in Nat, clicks' \in 0..MaxClicks,
         ~raced' => active' = q /\ ~Overtaken(q)
  PROVE  ListInv'
  <1> USE DEF ListInv
  <1>1. q \in Plain /\ counter' = counter + 1 /\ loading' = TRUE /\ failed' = FALSE
    BY DEF loadChannels
  <1>2. counter \in Nat /\ counter' \in Nat /\ counter' >= 1
    BY <1>1 DEF ListType
  <1>3. /\ asks' = asks + 1 /\ asks' \in Nat
        /\ calls' \subseteq Calls
        /\ \E c \in calls' : c.q = q /\ c.id = counter' /\ c.n = asks' /\ c.spin = spin
        /\ \A c \in calls' : c \in calls \/ (c.q = q /\ c.id = counter' /\ c.n = asks' /\ c.spin = spin)
    <2>1. Send(q, counter', spin) /\ spin \in Spins
      BY <1>1 DEF loadChannels, Spins
    <2> HIDE DEF ListInv
    <2>2. ListType
      BY DEF ListInv
    <2> QED
      BY <1>2, <2>1, <2>2, NewCall
  <1>4. ListType'
    BY <1>1, <1>2, <1>3 DEF ListType
  <1>5. \A c \in calls : c.id < counter' /\ c.n < asks' /\ (c.id = 0 => c.q \in Search)
    <2> TAKE c \in calls
    <2>1. c.id \in Nat /\ c.n \in Nat /\ asks \in Nat
      BY CallFields DEF ListType
    <2> QED
      BY <2>1, <1>1, <1>2, <1>3 DEF CallsNumbered
  <1>6. CallsNumbered'
    <2> SUFFICES ASSUME NEW c \in calls'
                 PROVE  c.id <= counter' /\ (c.id = 0 => c.q \in Search) /\ c.n <= asks'
      BY <1>2 DEF CallsNumbered
    <2>1. CASE c \in calls
      <3>1. c.id \in Nat /\ c.n \in Nat
        BY <2>1, CallFields
      <3> QED
        BY <2>1, <3>1, <1>2, <1>3, <1>5
    <2> QED
      BY <2>1, <1>2, <1>3
  <1>7. LoadingAwaits'
    BY <1>3 DEF LoadingAwaits, Heard
  <1>8. ASSUME ~raced', NEW c \in calls', Heard(c)'
        PROVE  c.q = active'
    <2>1. CASE c \in calls
      <3>1. c.id = 0
        BY <2>1, <1>5, <1>8, <1>2, CallFields DEF Heard
      <3>2. c.q \in Search /\ c.q # q
        BY <2>1, <3>1, <1>1, <1>5, ChannelsAssumption
      <3> QED
        BY <2>1, <3>2, <1>8 DEF Overtaken
    <2> QED
      BY <2>1, <1>3, <1>8
  <1>9. ActiveAwaited'
    BY <1>3, <1>8 DEF ActiveAwaited, Heard
  <1> QED
    BY <1>4, <1>6, <1>7, <1>9

\* searchChannels keeps the invariant of the lists; its call has no number and
\* is heard with whatever else is.
LEMMA SearchKeepsList ==
  ASSUME ListInv, NEW q \in Queries, NEW spin \in Spins, searchChannels(q, spin),
         active' \in Queries, shown' \in Lists, raced' \in BOOLEAN,
         manages' \subseteq Manages, changes' \in Nat, deletes' \in Nat, clicks' \in 0..MaxClicks,
         spin = "none" => deletes' = deletes,
         ~raced' => active' = q /\ ~Overtaken(q)
  PROVE  ListInv'
  <1> USE DEF ListInv
  <1>1. /\ q \in Search /\ counter' = counter
        /\ loading' = (loading \/ spin = "own") /\ failed' = (failed /\ spin = "none")
    BY DEF searchChannels
  <1>2. /\ asks' = asks + 1 /\ asks' \in Nat
        /\ calls' \subseteq Calls
        /\ \E c \in calls' : c.q = q /\ c.id = 0 /\ c.n = asks' /\ c.spin = spin
        /\ \A c \in calls' : c \in calls \/ (c.q = q /\ c.id = 0 /\ c.n = asks' /\ c.spin = spin)
        /\ \A c \in calls : c \in calls'
    <2> HIDE DEF ListInv
    <2>1. Send(q, 0, spin) /\ ListType
      BY DEF searchChannels, ListInv
    <2> QED
      BY <2>1, NewCall
  <1>3. ListType'
    BY <1>1, <1>2 DEF ListType
  <1>4. CallsNumbered'
    <2> SUFFICES ASSUME NEW c \in calls'
                 PROVE  c.id <= counter' /\ (c.id = 0 => c.q \in Search) /\ c.n <= asks'
      BY <1>1 DEF CallsNumbered
    <2>1. counter \in Nat /\ asks \in Nat
      BY DEF ListType
    <2>2. CASE c \in calls
      <3>1. c.n \in Nat
        BY <2>2, CallFields
      <3> QED
        BY <2>1, <2>2, <3>1, <1>1, <1>2 DEF CallsNumbered
    <2> QED
      BY <2>1, <2>2, <1>1, <1>2
  <1>5. \A c : Heard(c)' <=> Heard(c)
    BY <1>1 DEF Heard
  <1>6. LoadingAwaits'
    <2>1. CASE spin = "none"
      BY <2>1, <1>1, <1>2, <1>5 DEF LoadingAwaits
    <2>2. CASE spin # "none"
      BY <2>2, <1>2 DEF LoadingAwaits, Heard
    <2> QED
      BY <2>1, <2>2
  <1>7. ASSUME ~raced', NEW c \in calls', Heard(c)'
        PROVE  c.q = active'
    <2>1. CASE c \in calls /\ c.q # q
      BY <2>1, <1>1, <1>5, <1>7 DEF Overtaken
    <2> QED
      BY <2>1, <1>2, <1>7
  <1>8. ActiveAwaited'
    BY <1>2, <1>7 DEF ActiveAwaited, Heard
  <1> QED
    BY <1>3, <1>4, <1>6, <1>8

\* A click leaves the number of clicks within its bound.
LEMMA ClickCounts ==
  ASSUME clicks \in 0..MaxClicks, Click
  PROVE  clicks' \in 0..MaxClicks
  BY ChannelsAssumption DEF Click

\* What the user asks for is what is active from then on.
LEMMA AskKeepsList ==
  ASSUME ListInv, NEW q \in Queries, Ask(q)
  PROVE  ListInv'
  <1>1. /\ active' = q /\ shown' = shown /\ raced' = Overtaken(q)
        /\ manages' = manages /\ changes' = changes /\ deletes' = deletes
    BY DEF Ask, pending
  <1>2. clicks' \in 0..MaxClicks
    BY ClickCounts DEF Ask, ListInv
  <1>3. /\ active' \in Queries /\ shown' \in Lists /\ raced' \in BOOLEAN
        /\ manages' \subseteq Manages /\ changes' \in Nat /\ deletes' \in Nat
    BY <1>1 DEF ListInv, ListType, Overtaken
  <1>4. CASE loadChannels(q, "own")
    BY <1>1, <1>2, <1>3, <1>4, LoadKeepsList
  <1>5. ASSUME NEW spin \in {"none", "own"}, searchChannels(q, spin) PROVE ListInv'
    <2>1. spin \in Spins
      BY DEF Spins
    <2> QED
      BY <1>1, <1>2, <1>3, <1>5, <2>1, SearchKeepsList
  <1> QED
    BY <1>4, <1>5 DEF Ask

\* A refresh for anything else than the user's last wish counts as a race.
LEMMA RefreshKeepsList ==
  ASSUME ListInv, NEW q \in Queries, NEW deleting \in BOOLEAN, Refresh(q, deleting),
         shown' \in Lists, manages' \subseteq Manages, changes' \in Nat, deletes' \in Nat,
         ~deleting => deletes' = deletes, clicks' = clicks
  PROVE  ListInv'
  <1>1. active' = active /\ raced' = (Overtaken(q) \/ q # active)
    BY DEF Refresh
  <1>2. active' \in Queries /\ raced' \in BOOLEAN /\ clicks' \in 0..MaxClicks
    BY <1>1 DEF ListInv, ListType, Overtaken
  <1>3. CASE loadChannels(q, IF deleting THEN "delete" ELSE "own")
    <2>1. PICK spin \in {"own", "delete"} : loadChannels(q, spin)
      BY <1>3
    <2> QED
      BY <1>1, <1>2, <2>1, LoadKeepsList
  <1>4. CASE searchChannels(q, IF deleting THEN "delete" ELSE "none")
    <2>1. PICK spin \in Spins : searchChannels(q, spin) /\ (spin = "none" => ~deleting)
      BY <1>4 DEF Spins
    <2> QED
      BY <1>1, <1>2, <2>1, SearchKeepsList
  <1> QED
    BY <1>3, <1>4 DEF Refresh

\* A response answers all equal calls; the newest of them decides about the
\* list that is shown and about loading.
LEMMA ResponseKeepsList ==
  ASSUME ListInv, NEW q \in Queries, NEW success \in BOOLEAN, Response(q, success)
  PROVE  ListInv'
  <1> USE DEF ListInv
  <1> DEFINE mine == {c \in calls : c.q = q}
             heard == {c \in mine : Heard(c)}
  <1>1. /\ calls' = calls \ mine
        /\ \/ /\ success
              /\ \E c \in heard : /\ \A d \in heard : d.n <= c.n
                                  /\ shown' = [q |-> q, at |-> c.n]
           \/ ~(success /\ heard # {}) /\ shown' = shown
        /\ loading' = (loading /\ \A c \in mine : c.spin # "delete" /\ (c.spin = "own" => ~Heard(c)))
        /\ failed' = (failed \/ (~success /\ heard # {}))
        /\ UNCHANGED <<active, asks, counter, manages, changes, deletes, raced, clicks>>
    BY DEF Response, pending
  <1>2. \A c : c \in calls' <=> c \in calls /\ c.q # q
    BY <1>1
  <1>3. \A c : (c \in mine <=> c \in calls /\ c.q = q) /\ (c \in heard <=> c \in mine /\ Heard(c))
    OBVIOUS
  <1>4. \A c : Heard(c)' <=> Heard(c)
    BY <1>1 DEF Heard
  <1> HIDE DEF mine, heard
  <1>5. ListType'
    <2>1. shown' \in Lists
      <3>1. CASE shown' = shown
        BY <3>1 DEF ListType
      <3>2. ASSUME NEW c \in heard, shown' = [q |-> q, at |-> c.n] PROVE shown' \in Lists
        <4>1. c.n \in Nat
          BY <1>3, CallFields
        <4> QED
          BY <4>1, <3>2 DEF Lists
      <3> QED
        BY <3>1, <3>2, <1>1
    <2> QED
      BY <1>1, <1>2, <2>1 DEF ListType
  <1>6. CallsNumbered'
    BY <1>1, <1>2 DEF CallsNumbered
  <1>7. LoadingAwaits'
    <2> SUFFICES ASSUME loading', ~failed', ~(deletes' > 0)
                 PROVE  \E c \in calls' : c.spin # "none" /\ Heard(c)'
      BY DEF LoadingAwaits
    <2>1. PICK c \in calls : c.spin # "none" /\ Heard(c)
      BY <1>1 DEF LoadingAwaits
    <2>2. c.spin \in {"own", "delete"}
      BY <2>1, CallFields DEF Spins
    <2>3. c \notin mine
      BY <2>1, <2>2, <1>1
    <2> QED
      BY <2>1, <2>3, <1>2, <1>3, <1>4
  <1>8. ActiveAwaited'
    <2> SUFFICES ASSUME ~raced', ~failed'
                 PROVE  /\ \A c \in calls' : Heard(c)' => c.q = active'
                        /\ \/ \E c \in calls' : Heard(c)' /\ c.n = asks'
                           \/ /\ shown' = [q |-> active', at |-> asks']
                              /\ \A c \in calls' : ~Heard(c)'
      BY DEF ActiveAwaited
    <2>1. ~raced /\ ~failed /\ active' = active /\ asks' = asks /\ (success \/ heard = {})
      BY <1>1
    <2>2. \A c \in calls : Heard(c) => c.q = active
      BY <2>1 DEF ActiveAwaited
    <2>3. \A c \in calls' : Heard(c)' => c.q = active'
      BY <2>1, <2>2, <1>2, <1>4
    <2>4. CASE heard # {}
      <3>1. PICK c \in heard : (\A d \in heard : d.n <= c.n) /\ shown' = [q |-> q, at |-> c.n]
        BY <2>1, <2>4, <1>1
      <3>2. c \in calls /\ c.q = q /\ Heard(c) /\ q = active
        BY <2>2, <1>3
      <3>3. PICK d \in calls : Heard(d) /\ d.n = asks
        BY <2>1, <3>2 DEF ActiveAwaited
      <3>4. d \in heard
        BY <2>2, <3>2, <3>3, <1>3
      <3>5. c.n \in Nat /\ asks \in Nat /\ c.n <= asks
        BY <3>2, CallFields DEF CallsNumbered, ListType
      <3>6. c.n = asks
        BY <3>1, <3>3, <3>4, <3>5
      <3>7. \A e \in calls' : ~Heard(e)'
        BY <2>2, <3>2, <1>2, <1>4
      <3> QED
        BY <2>1, <2>3, <3>1, <3>2, <3>6, <3>7
    <2>5. CASE heard = {}
      <3>1. shown' = shown
        BY <2>5, <1>1
      <3>2. \A c \in calls : Heard(c) => c \in calls'
        BY <2>5, <1>2, <1>3
      <3>3. \A c \in calls' : c \in calls
        BY <1>2
      <3> QED
        BY <2>1, <2>3, <3>1, <3>2, <3>3, <1>4 DEF ActiveAwaited
    <2> QED
      BY <2>4, <2>5
  <1> QED
    BY <1>1, <1>5, <1>6, <1>7, <1>8

\* A rejected request leaves loading as it was: one that would have been heard
\* is a failure, another was outdated.
LEMMA RejectionKeepsList ==
  ASSUME ListInv, NEW q \in Queries, Rejection(q)
  PROVE  ListInv'
  <1> USE DEF ListInv
  <1>1. /\ failed' = (failed \/ \E c \in calls : c.q = q /\ Heard(c))
        /\ UNCHANGED <<active, asks, counter, loading, shown, manages, changes, deletes, raced, clicks>>
    BY DEF Rejection, pending
  <1>2. \A c : c \in calls' <=> c \in calls /\ c.q # q
    BY DEF Rejection
  <1>3. \A c : Heard(c)' <=> Heard(c)
    BY <1>1 DEF Heard
  <1>4. ListType' /\ CallsNumbered'
    BY <1>1, <1>2 DEF ListType, CallsNumbered
  <1>5. ~failed' => ~failed /\ \A c \in calls : Heard(c) => c \in calls'
    BY <1>1, <1>2
  <1>6. LoadingAwaits'
    BY <1>1, <1>3, <1>5 DEF LoadingAwaits
  <1>7. ActiveAwaited'
    BY <1>1, <1>2, <1>3, <1>5 DEF ActiveAwaited
  <1> QED
    BY <1>1, <1>4, <1>6, <1>7

\* Waiting for something else than a list disturbs none.
LEMMA PendingKeepsList ==
  ASSUME ListInv, UNCHANGED <<active, asks, counter, calls, failed>>,
         clicks' \in 0..MaxClicks,
         manages' \subseteq Manages, changes' \in Nat, deletes' \in Nat,
         shown' \in Lists, raced' \in BOOLEAN, ~raced' => ~raced /\ shown' = shown,
         \/ loading' = loading /\ deletes' = deletes
         \/ loading' = FALSE
         \/ loading' = TRUE /\ deletes' > 0
  PROVE  ListInv'
  <1>1. ListType' /\ CallsNumbered'
    BY DEF ListInv, ListType, CallsNumbered
  <1>2. LoadingAwaits'
    BY DEF ListInv, LoadingAwaits, Heard
  <1>3. ActiveAwaited'
    BY DEF ListInv, ActiveAwaited, Heard
  <1> QED
    BY <1>1, <1>2, <1>3 DEF ListInv

\* A change of a channel captures the list on display.
LEMMA ManageKeepsList ==
  ASSUME ListInv, NEW del \in BOOLEAN, manageChannel(del)
  PROVE  ListInv'
  <1>1. clicks' \in 0..MaxClicks
    BY ClickCounts DEF manageChannel, ListInv
  <1>2. manages' \subseteq Manages
    BY DEF manageChannel, ListInv, ListType, Manages
  <1>3. UNCHANGED <<active, asks, counter, calls, loading, shown, changes, deletes, failed, raced>>
    BY DEF manageChannel
  <1> QED
    BY <1>1, <1>2, <1>3, PendingKeepsList DEF ListInv, ListType

\* Putting a captured list back counts as a race when it changes the display.
LEMMA PutBackKeepsList ==
  ASSUME ListInv, NEW view \in Lists, PutBack(view) \/ UNCHANGED <<shown, raced>>,
         UNCHANGED <<active, asks, counter, calls, loading, failed, changes, deletes, clicks>>,
         manages' \subseteq manages
  PROVE  ListInv'
  <1>1. shown' \in Lists /\ raced' \in BOOLEAN /\ (~raced' => ~raced /\ shown' = shown)
    BY DEF ListInv, ListType, PutBack
  <1>2. manages' \subseteq Manages /\ changes' \in Nat /\ deletes' \in Nat
    BY DEF ListInv, ListType
  <1>3. clicks' \in 0..MaxClicks
    BY DEF ListInv
  <1> QED
    BY <1>1, <1>2, <1>3, PendingKeepsList

\* The answer to a change: its list is put back, or, after a deletion, a
\* refresh follows.
LEMMA ManagedKeepsList ==
  ASSUME ListInv, NEW e \in manages, ManageAnswered(e)
  PROVE  ListInv'
  <1>1. e.view \in Lists /\ e.del \in BOOLEAN
    BY DEF ListInv, ListType, Manages
  <1>2. manages' \subseteq manages /\ manages' \subseteq Manages /\ UNCHANGED <<changes, deletes, clicks>>
    BY DEF ManageAnswered, ListInv, ListType
  <1>3. ASSUME NEW q \in Queries, Refresh(q, FALSE), shown' \in {e.view, shown} PROVE ListInv'
    <2>1. shown' \in Lists /\ changes' \in Nat /\ deletes' \in Nat
      BY <1>1, <1>2, <1>3 DEF ListInv, ListType
    <2> QED
      BY <1>2, <1>3, <2>1, RefreshKeepsList
  <1>4. CASE PutBack(e.view) /\ UNCHANGED <<active, asks, counter, calls, loading, failed>>
    BY <1>1, <1>2, <1>4, PutBackKeepsList
  <1>5. CASE UNCHANGED <<active, asks, counter, calls, loading, shown, failed, raced>>
    BY <1>1, <1>2, <1>5, PutBackKeepsList
  <1> QED
    BY <1>3, <1>4, <1>5 DEF ManageAnswered

\* Changes that end with a refresh.
LEMMA ChangeKeepsList ==
  ASSUME ListInv, changeChannels \/ ChangeAnswered
  PROVE  ListInv'
  <1>1. changes \in Nat /\ manages \subseteq Manages /\ shown \in Lists /\ deletes \in Nat
        /\ raced \in BOOLEAN
    BY DEF ListInv, ListType
  <1>2. CASE changeChannels
    <2>1. clicks' \in 0..MaxClicks
      BY <1>2, ClickCounts DEF changeChannels, ListInv
    <2>2. /\ changes' \in Nat
          /\ UNCHANGED <<active, asks, counter, calls, loading, shown, manages, deletes, failed, raced>>
      BY <1>1, <1>2 DEF changeChannels
    <2> QED
      BY <1>1, <2>1, <2>2, PendingKeepsList
  <1>3. CASE ChangeAnswered
    <2>1. changes' \in Nat /\ UNCHANGED <<shown, manages, deletes, clicks>>
      BY <1>1, <1>3 DEF ChangeAnswered
    <2>2. ASSUME NEW q \in Queries, Refresh(q, FALSE) PROVE ListInv'
      BY <1>1, <2>1, <2>2, RefreshKeepsList
    <2>3. CASE UNCHANGED <<active, asks, counter, calls, loading, failed, raced>>
      <3>1. clicks' \in 0..MaxClicks
        BY <2>1 DEF ListInv
      <3> QED
        BY <1>1, <2>1, <2>3, <3>1, PendingKeepsList
    <2> QED
      BY <1>3, <2>2, <2>3 DEF ChangeAnswered
  <1> QED
    BY <1>2, <1>3

\* A deletion switches loading on, and off when it is done.
LEMMA DeleteKeepsList ==
  ASSUME ListInv, batchDeleteChannels \/ DeleteAnswered
  PROVE  ListInv'
  <1>1. changes \in Nat /\ manages \subseteq Manages /\ shown \in Lists /\ deletes \in Nat
        /\ raced \in BOOLEAN
    BY DEF ListInv, ListType
  <1>2. CASE batchDeleteChannels
    <2>1. clicks' \in 0..MaxClicks
      BY <1>2, ClickCounts DEF batchDeleteChannels, ListInv
    <2>2. /\ deletes' \in Nat /\ deletes' > 0 /\ loading' = TRUE
          /\ UNCHANGED <<active, asks, counter, calls, shown, manages, changes, failed, raced>>
      BY <1>1, <1>2 DEF batchDeleteChannels
    <2> QED
      BY <1>1, <2>1, <2>2, PendingKeepsList
  <1>3. CASE DeleteAnswered
    <2>1. deletes' \in Nat /\ UNCHANGED <<shown, manages, changes, clicks>>
      BY <1>1, <1>3 DEF DeleteAnswered
    <2>2. clicks' \in 0..MaxClicks
      BY <2>1 DEF ListInv
    <2>3. ASSUME NEW q \in Queries, Refresh(q, TRUE) PROVE ListInv'
      BY <1>1, <2>1, <2>3, RefreshKeepsList
    <2>4. CASE loading' = FALSE /\ UNCHANGED <<active, asks, counter, calls, failed, raced>>
      BY <1>1, <2>1, <2>2, <2>4, PendingKeepsList
    <2>5. CASE failed' = TRUE /\ UNCHANGED <<active, asks, counter, calls, loading, raced>>
      <3>1. ListType' /\ CallsNumbered'
        BY <2>1, <2>5 DEF ListInv, ListType, CallsNumbered
      <3>2. LoadingAwaits' /\ ActiveAwaited'
        BY <2>5 DEF LoadingAwaits, ActiveAwaited
      <3> QED
        BY <2>2, <3>1, <3>2 DEF ListInv
    <2> QED
      BY <1>3, <2>3, <2>4, <2>5 DEF DeleteAnswered
  <1> QED
    BY <1>2, <1>3

\* A click on something else than the lists.
LEMMA ClickKeepsList ==
  ASSUME ListInv, UNCHANGED list, Click \/ UNCHANGED clicks
  PROVE  ListInv'
  <1>1. clicks' \in 0..MaxClicks
    BY ClickCounts DEF ListInv
  <1>2. UNCHANGED <<active, asks, counter, calls, loading, shown, manages, changes, deletes,
                    failed, raced>>
    BY DEF list, pending
  <1> QED
    BY <1>1, <1>2, PendingKeepsList DEF ListInv, ListType

\* No step of the lists breaks their invariant, and none touches the tests.
LEMMA ListStepKeepsList ==
  ASSUME ListInv, ListStep
  PROVE  ListInv' /\ UNCHANGED batch
  <1>1. ASSUME NEW q \in Queries, Ask(q) PROVE ListInv' /\ UNCHANGED batch
    BY <1>1, AskKeepsList DEF Ask
  <1>2. ASSUME NEW q \in Queries, NEW success \in BOOLEAN, Response(q, success)
        PROVE  ListInv' /\ UNCHANGED batch
    BY <1>2, ResponseKeepsList DEF Response
  <1>3. ASSUME NEW q \in Queries, Rejection(q) PROVE ListInv' /\ UNCHANGED batch
    BY <1>3, RejectionKeepsList DEF Rejection
  <1>4. ASSUME NEW del \in BOOLEAN, manageChannel(del) PROVE ListInv' /\ UNCHANGED batch
    BY <1>4, ManageKeepsList DEF manageChannel
  <1>5. ASSUME NEW e \in manages, ManageAnswered(e) PROVE ListInv' /\ UNCHANGED batch
    BY <1>5, ManagedKeepsList DEF ManageAnswered
  <1>6. CASE changeChannels \/ ChangeAnswered
    BY <1>6, ChangeKeepsList DEF changeChannels, ChangeAnswered
  <1>7. CASE batchDeleteChannels \/ DeleteAnswered
    BY <1>7, DeleteKeepsList DEF batchDeleteChannels, DeleteAnswered
  <1> QED
    BY <1>1, <1>2, <1>3, <1>4, <1>5, <1>6, <1>7 DEF ListStep

-----------------------------------------------------------------------------
(* The tests. *)

BatchInv ==
    /\ BatchType /\ SpinnersRun /\ ButtonHonest /\ OneBatch /\ LoopShape
    /\ BatchWindow /\ BatchCovered

\* Types of the locals of a batch test.
LEMMA LoopFields ==
  ASSUME BatchType, NEW i \in Loops
  PROVE  /\ loops[i] \in Loop
         /\ loops[i].pc \in {"unused", "head", "wait", "report", "done"}
         /\ loops[i].next \in 1..(NumModels + Limit)
         /\ loops[i].url \in Settings /\ loops[i].view \in Lists
  <1>1. loops[i] \in Loop
    BY DEF BatchType
  <1> QED
    BY <1>1 DEF Loop

\* Types of the fields of a test under way.
LEMMA TestFields ==
  ASSUME BatchType, NEW w \in tests
  PROVE  /\ w.model \in Models /\ w.by \in Loops \cup {Single} /\ w.cap \in BOOLEAN
         /\ w.url \in Settings /\ w.view \in Lists
  BY DEF BatchType, Tests

\* Loop i moves to pc, at next; the others stay.  Only a start changes what it
\* captured.
Moved(i, pc, next) ==
    /\ loops' \in [Loops -> Loop]
    /\ loops'[i].pc = pc /\ loops'[i].next = next
    /\ loops[i].pc # "unused" => loops'[i].url = loops[i].url /\ loops'[i].view = loops[i].view
    /\ \A j \in Loops : j # i => loops'[j] = loops[j]

\* The position of one loop changes.
LEMMA SetPc ==
  ASSUME BatchType, NEW i \in Loops, NEW pc \in {"unused", "head", "wait", "report", "done"},
         loops' = [loops EXCEPT ![i].pc = pc]
  PROVE  Moved(i, pc, loops[i].next)
  <1> DEFINE l == [loops[i] EXCEPT !.pc = pc]
  <1>1. /\ l \in Loop /\ l.pc = pc /\ l.next = loops[i].next
        /\ l.url = loops[i].url /\ l.view = loops[i].view
    BY LoopFields DEF Loop
  <1>2. loops' = [loops EXCEPT ![i] = l]
    BY DEF BatchType
  <1> HIDE DEF l
  <1> QED
    BY <1>1, <1>2 DEF Moved, BatchType

\* A loop starts with the list it captured.
LEMMA SetStart ==
  ASSUME BatchType, NEW i \in Loops, loops[i].pc = "unused", NEW u \in Settings, NEW v \in Lists,
         loops' = [loops EXCEPT ![i].pc = "head", ![i].url = u, ![i].view = v]
  PROVE  Moved(i, "head", loops[i].next)
  <1> DEFINE l == [loops[i] EXCEPT !.pc = "head", !.url = u, !.view = v]
  <1>1. l \in Loop /\ l.pc = "head" /\ l.next = loops[i].next
    BY LoopFields DEF Loop
  <1>2. loops' = [loops EXCEPT ![i] = l]
    BY DEF BatchType
  <1> HIDE DEF l
  <1> QED
    BY <1>1, <1>2 DEF Moved, BatchType

\* A loop sends a batch and is behind it: there was one to send.
LEMMA SetWait ==
  ASSUME BatchType, LoopShape, NEW i \in Loops, loops[i].pc = "head",
         loops' = [loops EXCEPT ![i].pc = "wait", ![i].next = @ + Limit]
  PROVE  Moved(i, "wait", loops[i].next + Limit)
  <1>1. NumModels \in Nat /\ Limit \in Nat
    BY ChannelsAssumption
  <1>2. PICK n \in 1..(NumModels + Limit) : n = loops[i].next + Limit
    BY <1>1, LoopFields DEF LoopShape
  <1> DEFINE l == [loops[i] EXCEPT !.pc = "wait", !.next = n]
  <1>3. /\ l \in Loop /\ l.pc = "wait" /\ l.next = n
        /\ l.url = loops[i].url /\ l.view = loops[i].view
    BY LoopFields DEF Loop
  <1>4. loops' = [loops EXCEPT ![i] = l]
    BY <1>2 DEF BatchType
  <1> HIDE DEF l
  <1> QED
    BY <1>2, <1>3, <1>4 DEF Moved, BatchType

\* A loop that ends, by Finish: nothing is claimed of it any more.
LEMMA FinishKeepsBatch ==
  ASSUME BatchInv, NEW i \in Loops, ~Ended(i), \A w \in tests : w.by # i, Finish(i),
         UNCHANGED <<stopRef, results, overlapped>>
  PROVE  BatchInv'
  <1> USE DEF BatchInv
  <1>1. Moved(i, "done", loops[i].next)
    BY SetPc DEF Finish
  <1>2. isBatch' = FALSE /\ UNCHANGED <<tests, testing, stopRef, results, overlapped>>
    BY DEF Finish
  <1>3. Ended(i)' /\ \A j \in Loops : j # i => loops'[j] = loops[j]
    BY <1>1 DEF Moved, Ended
  <1>4. \A j \in Loops : ~Ended(j)' => j # i /\ ~Ended(j)
    BY <1>3 DEF Ended
  <1>5. BatchType'
    BY <1>1, <1>2 DEF BatchType, Moved
  <1>6. SpinnersRun'
    BY <1>2 DEF SpinnersRun
  <1>7. OneBatch'
    BY <1>2, <1>4 DEF OneBatch
  <1>8. ButtonHonest'
    BY <1>2, <1>4 DEF ButtonHonest, OneBatch
  <1>9. LoopShape'
    BY <1>1, <1>2 DEF LoopShape, Moved
  <1>10. BatchCovered'
    BY <1>2, <1>3, <1>4 DEF BatchCovered
  <1>11. BatchWindow'
    BY <1>2, <1>3 DEF BatchWindow
  <1> QED
    BY <1>5, <1>6, <1>7, <1>8, <1>9, <1>10, <1>11

\* batchTestModels starts the only running loop, or revives a stopped one
\* (overlapped).
LEMMA StartKeepsBatch ==
  ASSUME BatchInv, shown \in Lists, NEW i \in Loops, NEW u \in Settings, batchTestModels(i, u)
  PROVE  BatchInv'
  <1> USE DEF BatchInv
  <1>1. Moved(i, "head", loops[i].next)
    <2>1. PICK v \in Lists : v = shown
      OBVIOUS
    <2> QED
      BY <2>1, SetStart DEF batchTestModels
  <1>2. /\ loops[i].pc = "unused" /\ isBatch' = TRUE /\ stopRef' = FALSE /\ results' = {}
        /\ overlapped' = (overlapped \/ \E j \in Loops : ~Ended(j))
        /\ tests' = tests /\ testing' = testing
    BY DEF batchTestModels
  <1>3. ~Ended(i)' /\ loops'[i].next = 1 /\ \A j \in Loops : j # i => loops'[j] = loops[j]
    BY <1>1, <1>2 DEF Moved, Ended, LoopShape
  <1>4. \A j \in Loops : ~Ended(j)' /\ j # i => ~Ended(j)
    BY <1>3 DEF Ended
  <1>5. BatchType'
    BY <1>1, <1>2 DEF BatchType, Moved
  <1>6. SpinnersRun'
    BY <1>2 DEF SpinnersRun
  <1>7. OneBatch'
    BY <1>2, <1>4 DEF OneBatch
  <1>8. ButtonHonest'
    BY <1>2, <1>3 DEF ButtonHonest
  <1>9. LoopShape'
    <2>1. NumModels >= 1
      BY ChannelsAssumption
    <2> QED
      BY <2>1, <1>1, <1>2, <1>3 DEF LoopShape, Moved
  <1>10. BatchCovered'
    <2> SUFFICES ASSUME ~overlapped', NEW j \in Loops, ~Ended(j)', NEW m \in Models, m < loops'[j].next
                 PROVE  FALSE
      BY DEF BatchCovered
    <2>1. j = i
      BY <1>2, <1>4
    <2>2. m < 1 /\ m \in 1..NumModels
      BY <2>1, <1>3 DEF Models
    <2> QED
      BY <2>2, ChannelsAssumption
  <1>11. BatchWindow'
    BY <1>2, <1>3 DEF BatchWindow
  <1> QED
    BY <1>5, <1>6, <1>7, <1>8, <1>9, <1>10, <1>11

\* A loop that has not been stopped tests the next models; one that has ends.
LEMMA HeadKeepsBatch ==
  ASSUME BatchInv, NEW i \in Loops, LoopHead(i)
  PROVE  BatchInv'
  <1> USE DEF BatchInv
  <1>0. \A w \in tests : w.by # i
    BY DEF LoopHead, BatchWindow
  <1>1. CASE stopRef /\ Finish(i)
    BY <1>0, <1>1, FinishKeepsBatch DEF LoopHead, Ended
  <1>2. CASE ~stopRef
    <2>1. /\ loops[i].pc = "head"
          /\ loops' = [loops EXCEPT ![i].pc = "wait", ![i].next = @ + Limit]
          /\ tests' = tests \cup BatchTests(i)
          /\ testing' = testing \cup NextBatch(i)
          /\ UNCHANGED <<isBatch, stopRef, results, overlapped>>
      BY <1>2 DEF LoopHead
    <2>2. Moved(i, "wait", loops[i].next + Limit)
      BY <2>1, SetWait
    <2>3. \A j \in Loops : Ended(j)' <=> Ended(j)
      BY <2>1, <2>2 DEF Moved, Ended
    <2> DEFINE new == BatchTests(i)
    <2>4. \A w \in new : /\ w.model \in NextBatch(i) /\ w.by = i /\ w.cap = FALSE
                         /\ w.url = loops[i].url /\ w.view = loops[i].view
      BY DEF BatchTests
    <2>5. new \subseteq Tests
      BY LoopFields DEF Tests, NextBatch, BatchTests
    <2>6. \A m \in NextBatch(i) : \E w \in new : w.by = i /\ w.model = m
      <3> TAKE m \in NextBatch(i)
      <3> DEFINE w == [model |-> m, url |-> loops[i].url, by |-> i, cap |-> FALSE,
                       view |-> loops[i].view]
      <3>1. w \in new /\ w.by = i /\ w.model = m
        BY DEF BatchTests
      <3> QED
        BY <3>1
    <2>7. tests' = tests \cup new
      BY <2>1
    <2> HIDE DEF new
    <2>8. BatchType'
      BY <2>1, <2>2, <2>5, <2>7 DEF BatchType, Moved, NextBatch
    <2>9. SpinnersRun'
      BY <2>1, <2>6, <2>7, ZenonT(60) DEF SpinnersRun
    <2>10. OneBatch' /\ ButtonHonest'
      BY <2>1, <2>3 DEF OneBatch, ButtonHonest
    <2>11. LoopShape'
      BY <2>1, <2>2, <2>4, <2>7 DEF LoopShape, Moved
    <2>12. BatchCovered'
      <3> SUFFICES ASSUME ~overlapped', NEW j \in Loops, ~Ended(j)', NEW m \in Models, m < loops'[j].next
                   PROVE  m \in results' \/ \E w \in tests' : w.by = j /\ w.model = m
        BY DEF BatchCovered
      <3>1. ~overlapped /\ ~Ended(j)
        BY <2>1, <2>3
      <3>2. CASE m < loops[j].next
        <4>1. m \in results \/ \E w \in tests : w.by = j /\ w.model = m
          BY <3>1, <3>2 DEF BatchCovered
        <4> QED
          BY <4>1, <2>1, <2>7
      <3>3. CASE ~(m < loops[j].next)
        <4>1. j = i
          BY <3>3, <2>2 DEF Moved
        <4>2. m < loops[i].next + Limit /\ loops[i].next <= m
          <5>1. loops'[i].next = loops[i].next + Limit
            BY <2>2 DEF Moved
          <5>2. m \in Nat /\ loops[i].next \in Nat
            BY LoopFields, ChannelsAssumption DEF Models
          <5> QED
            BY <4>1, <3>3, <5>1, <5>2
        <4>3. m \in NextBatch(i)
          BY <4>2 DEF NextBatch
        <4> QED
          BY <4>1, <4>3, <2>6, <2>7
      <3> QED
        BY <3>2, <3>3
    <2>13. BatchWindow'
      <3> SUFFICES ASSUME NEW w \in tests', NEW j \in Loops, w.by = j
                   PROVE  /\ loops'[j].pc = "wait"
                          /\ w.model < loops'[j].next /\ loops'[j].next <= w.model + Limit
                          /\ w.url = loops'[j].url /\ w.view = loops'[j].view
        BY DEF BatchWindow
      <3>1. CASE w \in tests
        <4>1. j # i /\ loops'[j] = loops[j]
          BY <3>1, <1>0, <2>2 DEF Moved
        <4> QED
          BY <3>1, <4>1 DEF BatchWindow
      <3>2. CASE w \in new
        <4>1. /\ j = i /\ w.model \in NextBatch(i)
              /\ w.url = loops[i].url /\ w.view = loops[i].view
          BY <3>2, <2>4
        <4>2. /\ loops'[i].pc = "wait" /\ loops'[i].next = loops[i].next + Limit
              /\ loops'[i].url = loops[i].url /\ loops'[i].view = loops[i].view
          BY <2>1, <2>2 DEF Moved
        <4>3. /\ loops[i].next <= w.model /\ w.model < loops[i].next + Limit
              /\ w.model \in Nat /\ loops[i].next \in Nat /\ Limit \in Nat
          BY <4>1, LoopFields, ChannelsAssumption DEF NextBatch, Models
        <4> QED
          BY <4>1, <4>2, <4>3
      <3> QED
        BY <3>1, <3>2, <2>7
    <2> QED
      BY <2>8, <2>9, <2>10, <2>11, <2>12, <2>13
  <1> QED
    BY <1>1, <1>2 DEF LoopHead

\* A loop waits for the answers of its batch before it goes on.
LEMMA TailKeepsBatch ==
  ASSUME BatchInv, NEW i \in Loops, LoopTail(i)
  PROVE  BatchInv'
  <1> USE DEF BatchInv
  <1>1. CASE stopRef /\ Finish(i)
    BY <1>1, FinishKeepsBatch DEF LoopTail, Ended
  <1>2. CASE ~(stopRef /\ Finish(i))
    <2>1. PICK pc \in {"head", "report"} :
             /\ pc = IF loops[i].next <= NumModels THEN "head" ELSE "report"
             /\ loops' = [loops EXCEPT ![i].pc = pc]
      BY <1>2 DEF LoopTail
    <2>2. /\ loops[i].pc = "wait" /\ \A w \in tests : w.by # i
          /\ UNCHANGED <<tests, testing, isBatch, stopRef, results, overlapped>>
      BY <1>2 DEF LoopTail
    <2>3. Moved(i, pc, loops[i].next)
      BY <2>1, SetPc
    <2>4. \A j \in Loops : (Ended(j)' <=> Ended(j)) /\ loops'[j].next = loops[j].next
      BY <2>1, <2>2, <2>3 DEF Moved, Ended
    <2>5. BatchType' /\ SpinnersRun'
      BY <2>2, <2>3 DEF BatchType, SpinnersRun, Moved
    <2>6. OneBatch' /\ ButtonHonest'
      BY <2>2, <2>4 DEF OneBatch, ButtonHonest
    <2>7. LoopShape'
      <3>1. loops[i].next \in Nat /\ NumModels \in Nat
        BY LoopFields, ChannelsAssumption
      <3> QED
        BY <3>1, <2>1, <2>2, <2>3 DEF LoopShape, Moved
    <2>8. BatchCovered'
      BY <2>2, <2>4 DEF BatchCovered
    <2>9. BatchWindow'
      BY <2>2, <2>3 DEF BatchWindow, Moved
    <2> QED
      BY <2>5, <2>6, <2>7, <2>8, <2>9
  <1> QED
    BY <1>1, <1>2

\* The report comes after the last batch.
LEMMA ReportKeepsBatch ==
  ASSUME BatchInv, NEW i \in Loops, Report(i)
  PROVE  BatchInv'
  BY FinishKeepsBatch DEF Report, Ended, BatchInv, LoopShape

\* A single test beside a batch keeps the invariant of the tests.
LEMMA TestKeepsBatch ==
  ASSUME BatchInv, shown \in Lists, NEW m \in Models, NEW u \in Settings, testChannel(m, u)
  PROVE  BatchInv'
  <1> USE DEF BatchInv
  <1> DEFINE new == [model |-> m, url |-> u, by |-> Single, cap |-> isBatch, view |-> shown]
  <1>1. new \in Tests
    BY DEF Tests, BatchType
  <1>2. new.model = m /\ new.by = Single
    OBVIOUS
  <1>3. /\ tests' = tests \cup {new} /\ testing' = testing \cup {m}
        /\ UNCHANGED <<stopRef, isBatch, loops, results, overlapped>>
    BY DEF testChannel
  <1>4. \A i \in Loops : i # Single
    BY DEF Loops, Single
  <1> HIDE DEF new
  <1>5. BatchType' /\ SpinnersRun'
    BY <1>1, <1>2, <1>3 DEF BatchType, SpinnersRun
  <1>6. OneBatch' /\ ButtonHonest'
    BY <1>3 DEF OneBatch, ButtonHonest, Ended
  <1>7. LoopShape'
    BY <1>2, <1>3, <1>4 DEF LoopShape
  <1>8. BatchCovered'
    BY <1>2, <1>3 DEF BatchCovered, Ended
  <1>9. BatchWindow'
    BY <1>2, <1>3, <1>4 DEF BatchWindow
  <1> QED
    BY <1>5, <1>6, <1>7, <1>8, <1>9

\* An answer settles the tests of its model and settings and no other.
LEMMA AnswerKeepsBatch ==
  ASSUME BatchInv, NEW m \in Models, NEW u \in Settings, TestAnswered(m, u)
  PROVE  BatchInv'
  <1> USE DEF BatchInv
  <1> DEFINE mine == {w \in tests : w.model = m /\ w.url = u}
             kept == {w \in mine : ~(stopRef /\ w.cap)}
  <1>1. /\ tests' = tests \ mine
        /\ results' = IF kept # {} THEN results \cup {m} ELSE results
        /\ testing' = testing \ {m}
        /\ UNCHANGED <<stopRef, isBatch, loops, overlapped>>
    BY DEF TestAnswered
  <1>2. \A w : w \in tests' <=> w \in tests /\ ~(w.model = m /\ w.url = u)
    BY <1>1
  <1>3. \A w \in tests : w.model = m /\ w.url = u /\ w.by # Single => m \in results'
    BY <1>1 DEF LoopShape
  <1>4. results \subseteq results' /\ results' \subseteq Models
    BY <1>1 DEF BatchType
  <1> HIDE DEF mine, kept
  <1>5. BatchType' /\ SpinnersRun'
    BY <1>1, <1>2, <1>4 DEF BatchType, SpinnersRun
  <1>6. OneBatch' /\ ButtonHonest'
    BY <1>1 DEF OneBatch, ButtonHonest, Ended
  <1>7. LoopShape'
    BY <1>1, <1>2 DEF LoopShape
  <1>8. BatchCovered'
    <2>1. \A i \in Loops : i # Single
      BY DEF Loops, Single
    <2> QED
      BY <1>1, <1>2, <1>3, <1>4, <2>1 DEF BatchCovered, Ended
  <1>9. BatchWindow'
    BY <1>1, <1>2 DEF BatchWindow
  <1> QED
    BY <1>5, <1>6, <1>7, <1>8, <1>9

\* Closing the dialog asks the loop to stop and clears the spinners.
LEMMA CloseKeepsBatch ==
  ASSUME BatchInv, handleCloseModal
  PROVE  BatchInv'
  <1> USE DEF BatchInv
  <1>1. /\ stopRef' = (stopRef \/ isBatch) /\ isBatch' = FALSE /\ testing' = {}
        /\ UNCHANGED <<loops, tests, results, overlapped>>
    BY DEF handleCloseModal
  <1>2. BatchType' /\ SpinnersRun'
    BY <1>1 DEF BatchType, SpinnersRun
  <1>3. OneBatch' /\ LoopShape' /\ BatchWindow' /\ BatchCovered'
    BY <1>1 DEF OneBatch, Ended, LoopShape, BatchWindow, BatchCovered
  <1>4. ButtonHonest'
    <2>1. \A i \in Loops : Ended(i)' <=> Ended(i)
      BY <1>1 DEF Ended
    <2> QED
      BY <1>1, <2>1 DEF ButtonHonest, BatchType
  <1> QED
    BY <1>2, <1>3, <1>4

\* Steps that leave the tests alone keep their invariant.
LEMMA QuietBatch ==
  ASSUME BatchInv, UNCHANGED batch
  PROVE  BatchInv'
  <1>1. UNCHANGED <<stopRef, isBatch, loops, tests, testing, results, overlapped>>
    BY DEF batch
  <1> QED
    BY <1>1 DEF BatchInv, BatchType, SpinnersRun, OneBatch, ButtonHonest, Ended, LoopShape,
                BatchWindow, BatchCovered

-----------------------------------------------------------------------------
(* The page. *)

\* PageInv is the invariant of the lists and that of the tests.
LEMMA PageParts == PageInv <=> ListInv /\ BatchInv
  <1>1. LoadingAwaits => LoadingEnds
    BY DEF LoadingAwaits, LoadingEnds
  <1> QED
    BY <1>1, TypeSplit DEF PageInv, ListInv, BatchInv

\* The same after a step.
LEMMA PagePartsNext == PageInv' <=> ListInv' /\ BatchInv'
  <1>1. LoadingAwaits' => LoadingEnds'
    BY DEF LoadingAwaits, LoadingEnds
  <1> QED
    BY <1>1, TypeSplitNext DEF PageInv, ListInv, BatchInv

\* The invariant holds when the page is opened.
LEMMA InitPage == Init => PageInv
  <1> SUFFICES ASSUME Init PROVE ListInv /\ BatchInv
    BY PageParts
  <1>1. MaxClicks \in Nat /\ NumModels \in Nat \ {0} /\ Limit \in Nat \ {0}
    BY ChannelsAssumption
  <1>2. active \in Plain /\ active \in Queries
    BY DEF Init, Queries
  <1> DEFINE c1 == [q |-> active, id |-> 1, n |-> 1, spin |-> "own"]
  <1>3. c1 \in Calls /\ c1.id = 1 /\ c1.n = 1 /\ c1.spin = "own" /\ c1.q = active
    BY <1>2 DEF Calls, Spins
  <1>4. /\ calls = {c1} /\ counter = 1 /\ asks = 1 /\ loading = TRUE /\ shown \in Lists
        /\ manages = {} /\ changes = 0 /\ deletes = 0
        /\ failed = FALSE /\ raced = FALSE /\ clicks = 0
    BY <1>2 DEF Init, Lists
  <1> HIDE DEF c1
  <1>5. ListInv
    <2>1. ListType /\ clicks \in 0..MaxClicks
      <3>1. clicks \in 0..MaxClicks
        BY <1>1, <1>4
      <3>2. calls \subseteq Calls /\ manages \subseteq Manages
        BY <1>3, <1>4
      <3> QED
        BY <3>1, <3>2, <1>2, <1>4 DEF ListType
    <2>2. CallsNumbered
      BY <1>3, <1>4 DEF CallsNumbered
    <2>3. LoadingAwaits /\ ActiveAwaited
      BY <1>3, <1>4 DEF LoadingAwaits, ActiveAwaited, Heard
    <2> QED
      BY <2>1, <2>2, <2>3 DEF ListInv
  <1> DEFINE u1 == CHOOSE u \in Settings : TRUE
             l1 == [pc |-> "unused", next |-> 1, url |-> u1, view |-> shown]
  <1>6. l1 \in Loop /\ l1.pc = "unused" /\ l1.next = 1
    <2>1. u1 \in Settings
      BY ChannelsAssumption
    <2> HIDE DEF u1
    <2> QED
      BY <1>1, <1>4, <2>1 DEF Loop
  <1>7. /\ loops = [i \in Loops |-> l1] /\ stopRef = FALSE /\ isBatch = FALSE /\ tests = {}
        /\ testing = {} /\ results = {} /\ overlapped = FALSE
    BY DEF Init
  <1> HIDE DEF l1
  <1>8. loops \in [Loops -> Loop] /\ \A i \in Loops : Ended(i) /\ loops[i].pc = "unused" /\ loops[i].next = 1
    BY <1>6, <1>7 DEF Ended
  <1>9. BatchInv
    BY <1>7, <1>8 DEF BatchInv, BatchType, SpinnersRun, OneBatch, ButtonHonest, LoopShape,
                          BatchWindow, BatchCovered
  <1> QED
    BY <1>5, <1>9

\* A step of the tests keeps both invariants.
LEMMA TestStepKeepsPage ==
  ASSUME ListInv, BatchInv, TestStep
  PROVE  ListInv' /\ BatchInv'
  <1>1. shown \in Lists
    BY DEF ListInv, ListType
  <1>2. ASSUME NEW i \in Loops, NEW u \in Settings, batchTestModels(i, u) PROVE ListInv' /\ BatchInv'
    BY <1>1, <1>2, StartKeepsBatch, ClickKeepsList DEF batchTestModels
  <1>3. ASSUME NEW i \in Loops, LoopHead(i) PROVE ListInv' /\ BatchInv'
    BY <1>3, HeadKeepsBatch, ClickKeepsList DEF LoopHead
  <1>4. ASSUME NEW i \in Loops, LoopTail(i) PROVE ListInv' /\ BatchInv'
    BY <1>4, TailKeepsBatch, ClickKeepsList DEF LoopTail
  <1>5. ASSUME NEW i \in Loops, Report(i) PROVE ListInv' /\ BatchInv'
    BY <1>5, ReportKeepsBatch, ClickKeepsList DEF Report
  <1>6. ASSUME NEW m \in Models, NEW u \in Settings, testChannel(m, u) PROVE ListInv' /\ BatchInv'
    BY <1>1, <1>6, TestKeepsBatch, ClickKeepsList DEF testChannel
  <1>7. ASSUME NEW m \in Models, NEW u \in Settings, TestAnswered(m, u) PROVE ListInv' /\ BatchInv'
    <2>1. PICK view \in Lists : PutBack(view) \/ UNCHANGED <<shown, raced>>
      <3>1. CASE UNCHANGED <<shown, raced>>
        BY <3>1, <1>1
      <3>2. CASE \E w \in tests : PutBack(w.view)
        <4>1. PICK w \in tests : PutBack(w.view)
          BY <3>2
        <4>2. w.view \in Lists
          BY TestFields DEF BatchInv
        <4> QED
          BY <4>1, <4>2
      <3> QED
        BY <1>7, <3>1, <3>2 DEF TestAnswered
    <2>2. UNCHANGED <<active, asks, counter, calls, loading, manages, changes, deletes, failed, clicks>>
      BY <1>7 DEF TestAnswered, pending
    <2>3. ListInv'
      BY <2>1, <2>2, PutBackKeepsList
    <2> QED
      BY <1>7, <2>3, AnswerKeepsBatch
  <1>8. CASE handleCloseModal
    BY <1>8, CloseKeepsBatch, ClickKeepsList DEF handleCloseModal
  <1> QED
    BY <1>2, <1>3, <1>4, <1>5, <1>6, <1>7, <1>8 DEF TestStep, LoopStep

\* Every step of the page preserves the invariant.
LEMMA NextPage == PageInv /\ [Next]_vars => PageInv'
  <1> SUFFICES ASSUME ListInv, BatchInv, [Next]_vars PROVE ListInv' /\ BatchInv'
    BY PageParts, PagePartsNext
  <1>1. CASE ListStep
    BY <1>1, ListStepKeepsList, QuietBatch
  <1>2. CASE TestStep
    BY <1>2, TestStepKeepsPage
  <1>3. CASE UNCHANGED vars
    BY <1>3, ClickKeepsList, QuietBatch DEF vars
  <1> QED
    BY <1>1, <1>2, <1>3 DEF Next

\* What the page says of itself is true in every state, for any number of
\* clicks, models and batches: loading is off once the answers are in, a
\* spinner belongs to a running test, and the batch button says what runs.
THEOREM Inductive == Spec => []PageInv
  <1> QED
    BY InitPage, NextPage, PTL DEF Spec

\* The numbers of the requests do their work: once the answers are in, the
\* page shows the answer to the last ask and no older one, to the same query
\* or another - unless since that ask a search beside another query, a captured
\* list put back or a refresh for a captured page has interfered.
THEOREM NewestWins == Spec => []LatestShown
  <1>1. PageInv => LatestShown
    BY DEF PageInv, ActiveAwaited, LatestShown
  <1> QED
    BY <1>1, Inductive, PTL

\* The tests of one batch under way differ in their model, which is one of the
\* Limit models of its last step.
LEMMA BatchFew ==
  ASSUME BatchInv, NEW i \in Loops
  PROVE  Cardinality({w \in tests : w.by = i}) <= Limit
  <1> USE DEF BatchInv
  <1> DEFINE Mine == {w \in tests : w.by = i}
             n == loops[i].next
             Window == {m \in Models : m < n /\ n <= m + Limit}
             At(m) == [model |-> m, url |-> loops[i].url, by |-> i, cap |-> FALSE,
                       view |-> loops[i].view]
  <1>1. n \in Nat /\ Limit \in Nat /\ NumModels \in Nat
    BY LoopFields, ChannelsAssumption
  <1>2. ASSUME NEW w \in Mine PROVE w.model \in Window /\ w = At(w.model)
    <2>1. w \in Tests /\ w.by = i
      BY DEF BatchType
    <2>2. w.model \in Window /\ w.url = loops[i].url /\ w.view = loops[i].view
      BY <2>1 DEF BatchWindow, Tests
    <2>3. i # Single
      BY DEF Loops, Single
    <2>4. w.cap = FALSE
      BY <2>1, <2>3 DEF LoopShape, Tests
    <2> QED
      BY <2>1, <2>2, <2>4 DEF Tests
  <1>3. IsFiniteSet(Window) /\ Cardinality(Window) <= Limit
    <2> DEFINE Span == (n - Limit)..(n - 1)
    <2>1. n - Limit \in Int /\ n - 1 \in Int
      BY <1>1
    <2>2. IsFiniteSet(Span) /\ Cardinality(Span) =
             IF n - Limit > n - 1 THEN 0 ELSE (n - 1) - (n - Limit) + 1
      BY <2>1, FS_Interval
    <2>3. Cardinality(Span) = Limit
      BY <2>2, <1>1, ChannelsAssumption
    <2>4. Window \subseteq Span
      BY <1>1 DEF Models
    <2> QED
      BY <2>2, <2>3, <2>4, FS_Subset
  <1> HIDE DEF Window, At
  <1>4. IsFiniteSet({At(m) : m \in Window}) /\ Cardinality({At(m) : m \in Window}) <= Cardinality(Window)
    <2> DEFINE f == [m \in Window |-> At(m)]
    <2>1. f \in Surjection(Window, {At(m) : m \in Window})
      BY DEF Surjection
    <2> QED
      BY <1>3, <2>1, FS_Surjection
  <1>5. Mine \subseteq {At(m) : m \in Window}
    BY <1>2
  <1>6. Cardinality(Mine) <= Cardinality({At(m) : m \in Window})
    BY <1>4, <1>5, FS_Subset
  <1> QED
    <2>1. IsFiniteSet(Mine)
      BY <1>4, <1>5, FS_Subset
    <2>2. /\ Cardinality(Mine) \in Nat /\ Cardinality(Window) \in Nat
          /\ Cardinality({At(m) : m \in Window}) \in Nat
      BY <2>1, <1>3, <1>4, FS_CardinalityType
    <2> HIDE DEF Mine
    <2>3. Cardinality(Mine) <= Limit
      BY <2>2, <1>1, <1>3, <1>4, <1>6
    <2> QED
      BY <2>3 DEF Mine

\* A batch test never has more requests under way than concurrencyLimit, for
\* any number of models and batch tests, stopped, revived or not; and all
\* together they have no more unless one was started over a stopped one.
THEOREM LimitKept == Spec => []BatchLimit
  <1>1. BatchInv => BatchLimit
    <2> SUFFICES ASSUME BatchInv, ~overlapped
                 PROVE  Cardinality({w \in tests : w.by # Single}) <= Limit
      BY BatchFew DEF BatchLimit
    <2> DEFINE Batched == {w \in tests : w.by # Single}
    <2>1. CASE Batched = {}
      <3>1. Cardinality(Batched) = 0
        BY <2>1, FS_EmptySet
      <3> QED
        BY <3>1, ChannelsAssumption
    <2>2. CASE Batched # {}
      <3>1. \A w \in Batched : w.by \in Loops /\ ~Ended(w.by)
        <4> TAKE w \in Batched
        <4>1. w.by \in Loops
          BY TestFields DEF BatchInv
        <4> QED
          BY <4>1 DEF BatchInv, BatchWindow, Ended
      <3>2. PICK v \in Batched : TRUE
        BY <2>2
      <3>3. \A w \in Batched : w.by = v.by
        BY <3>1, <3>2 DEF BatchInv, OneBatch
      <3>4. v.by \in Loops /\ v.by # Single
        BY <3>1, <3>2
      <3>5. Batched = {w \in tests : w.by = v.by}
        BY <3>3, <3>4
      <3> QED
        BY <3>4, <3>5, BatchFew
    <2> QED
      BY <2>1, <2>2
  <1>2. PageInv => BatchLimit
    BY <1>1, PageParts
  <1> QED
    BY <1>2, Inductive, PTL

\* A batch test that comes to its report without having been overlapped has a
\* result for every model of the channel, however its tests were shared with
\* single ones and in whatever order they were answered.
THEOREM NothingForgotten == Spec => ReportComplete
  <1> DEFINE A == \A i \in Loops :
                     loops[i].pc = "report" /\ loops'[i].pc = "done" /\ ~overlapped =>
                         results = Models
  <1>1. PageInv => A
    <2> SUFFICES ASSUME PageInv, NEW i \in Loops, loops[i].pc = "report", ~overlapped
                 PROVE  results = Models
      OBVIOUS
    <2>1. loops[i].next > NumModels /\ \A w \in tests : w.by # i
      BY DEF PageInv, LoopShape
    <2>2. ~Ended(i) /\ results \subseteq Models
      BY DEF Ended, PageInv, TypeOK
    <2>3. \A m \in Models : m < loops[i].next
      <3>1. loops[i].next \in Nat /\ NumModels \in Nat
        BY PageParts, LoopFields, ChannelsAssumption DEF BatchInv
      <3> QED
        BY <3>1, <2>1 DEF Models
    <2>4. \A m \in Models : m \in results
      BY <2>1, <2>2, <2>3 DEF PageInv, BatchCovered
    <2> QED
      BY <2>2, <2>4
  <1> QED
    BY <1>1, Inductive, PTL DEF Spec, ReportComplete

=============================================================================
