-------------------------- MODULE Payments_proofs --------------------------
(***************************************************************************)
(* The payment side, for any number of orders, handlers, instances and     *)
(* faults.  First the lock the handlers rely on: LockOrder is a mutex per  *)
(* trade number and leaks no entry.  Then the orders, which deliver once   *)
(* wherever a handler has that lock or a row lock.                         *)
(*                                                                         *)
(* The heart of the first part is that an entry outlives its users: the    *)
(* reference count is the number of goroutines that refer to the entry     *)
(* (CountsUsers), so whoever refers to one finds it in the map             *)
(* (RefersToEntry), and two handlers of one trade number contend for the   *)
(* same mutex.                                                             *)
(***************************************************************************)
EXTENDS OrderLock, PaymentOrders, FiniteSetTheorems, TLAPS

-----------------------------------------------------------------------------
(* The order locks.                                                        *)

\* The users of an entry are finitely many, so that they can be counted.
LEMMA UsersFinite == \A b : IsFiniteSet(Users(b)) /\ Cardinality(Users(b)) \in Nat
  <1> SUFFICES ASSUME NEW b PROVE IsFiniteSet(Users(b)) /\ Cardinality(Users(b)) \in Nat
    OBVIOUS
  <1>1. Users(b) \subseteq Handlers
    BY DEF Users
  <1>2. IsFiniteSet(Users(b))
    BY <1>1, FS_Subset, OrderLockAssumption
  <1> QED
    BY <1>2, FS_CardinalityType

\* The initial state satisfies the invariant.
LEMMA LockInitInv == LockInit => OrderLockInv
  BY OrderLockAssumption
  DEF LockInit, OrderLockInv, LockTypeOK, Places, CreateGuards, RefersToEntry, EntriesDiffer,
      CountsUsers, HeldByOne, Holding, EntryUsed

\* A step that leaves the map, the counts, the local variables and the set of
\* counting goroutines alone keeps the part about counts.
LEMMA SameUsers ==
  ASSUME UNCHANGED <<orderLocks, refCount, rcm>>, CountsUsers,
         \A c \in Handlers : pc[c] = "count" <=> pc'[c] = "count"
  PROVE  CountsUsers'
  <1>1. \A b : Users(b)' = Users(b)
    BY DEF Users
  <1> QED
    BY <1>1 DEF CountsUsers

\* Start preserves the invariant.
LEMMA StartInv ==
  ASSUME OrderLockInv, NEW c \in Handlers, NEW t \in Trades, Start(c, t)
  PROVE  OrderLockInv'
  <1> USE DEF OrderLockInv, Start, MoveTo
  <1>1. LockTypeOK'
    BY DEF LockTypeOK, Places
  <1>2. CreateGuards'
    BY DEF LockTypeOK, CreateGuards
  <1>3. RefersToEntry'
    BY DEF LockTypeOK, RefersToEntry
  <1>4. EntriesDiffer'
    BY DEF EntriesDiffer
  <1>5. CountsUsers'
    BY SameUsers DEF LockTypeOK
  <1>6. HeldByOne'
    BY DEF LockTypeOK, HeldByOne, Holding
  <1>7. EntryUsed'
    BY DEF EntryUsed
  <1> QED
    BY <1>1, <1>2, <1>3, <1>4, <1>5, <1>6, <1>7

\* Taking createLock, on the way in or out, preserves the invariant.
LEMMA EnterInv ==
  ASSUME OrderLockInv, NEW c \in Handlers, EnterCreate(c) \/ EnterLeave(c)
  PROVE  OrderLockInv'
  <1> USE DEF OrderLockInv, EnterCreate, EnterLeave, MoveTo
  <1>1. LockTypeOK'
    BY DEF LockTypeOK, Places
  <1>2. CreateGuards'
    BY OrderLockAssumption DEF LockTypeOK, CreateGuards
  <1>3. RefersToEntry'
    BY DEF LockTypeOK, RefersToEntry
  <1>4. EntriesDiffer'
    BY DEF EntriesDiffer
  <1>5. CountsUsers'
    BY SameUsers DEF LockTypeOK
  <1>6. HeldByOne'
    BY DEF LockTypeOK, HeldByOne, Holding
  <1>7. EntryUsed'
    BY DEF EntryUsed
  <1> QED
    BY <1>1, <1>2, <1>3, <1>4, <1>5, <1>6, <1>7

\* Lookup preserves the invariant when the entry is there.
LEMMA LookupOldInv ==
  ASSUME OrderLockInv, NEW c \in Handlers, Lookup(c), orderLocks[trade[c]] # NoBox
  PROVE  OrderLockInv'
  <1> USE DEF OrderLockInv, Lookup, MoveTo
  <1>0. UNCHANGED <<orderLocks, refCount, locked, createLock, trade>>
    OBVIOUS
  <1>1. LockTypeOK'
    BY DEF LockTypeOK, Places
  <1>2. CreateGuards'
    BY DEF LockTypeOK, CreateGuards
  <1>3. RefersToEntry'
    BY <1>0 DEF LockTypeOK, RefersToEntry
  <1>4. EntriesDiffer'
    BY <1>0 DEF EntriesDiffer
  <1>5. CountsUsers'
    <2>1. ASSUME NEW b, b # NoBox PROVE Users(b)' = Users(b)
      BY <2>1 DEF Users, LockTypeOK, RefersToEntry
    <2> QED
      BY <1>0, <2>1, OrderLockAssumption DEF CountsUsers
  <1>6. HeldByOne'
    BY <1>0 DEF LockTypeOK, HeldByOne, Holding
  <1>7. EntryUsed'
    BY <1>0 DEF EntryUsed, LockTypeOK, RefersToEntry
  <1> QED
    BY <1>1, <1>2, <1>3, <1>4, <1>5, <1>6, <1>7

\* Lookup preserves the invariant when it makes the entry.
LEMMA LookupNewInv ==
  ASSUME OrderLockInv, NEW c \in Handlers, Lookup(c), orderLocks[trade[c]] = NoBox
  PROVE  OrderLockInv'
  <1> USE DEF OrderLockInv, MoveTo
  <1> PICK b \in Boxes :
        /\ Unused(b)
        /\ rcm' = [rcm EXCEPT ![c] = b]
        /\ orderLocks' = [orderLocks EXCEPT ![trade[c]] = b]
        /\ refCount' = [refCount EXCEPT ![b] = 0]
        /\ locked' = [locked EXCEPT ![b] = FALSE]
    BY DEF Lookup
  <1>0. pc[c] = "lookup" /\ pc' = [pc EXCEPT ![c] = "count"] /\ UNCHANGED <<createLock, trade>>
    BY DEF Lookup
  <1>b. b # NoBox
    BY OrderLockAssumption
  <1>1. LockTypeOK'
    BY <1>0 DEF LockTypeOK, Places
  <1>2. CreateGuards'
    BY <1>0 DEF LockTypeOK, CreateGuards
  <1>3. RefersToEntry'
    BY <1>0, <1>b DEF LockTypeOK, RefersToEntry
  <1>4. EntriesDiffer'
    BY <1>0, <1>b DEF LockTypeOK, EntriesDiffer, Unused
  <1>5. CountsUsers'
    <2>1. Users(b)' = {}
      BY <1>0 DEF Users, LockTypeOK, Unused
    <2>2. ASSUME NEW e \in Boxes, e # b PROVE Users(e)' = Users(e)
      BY <1>0, <2>2, OrderLockAssumption DEF Users, LockTypeOK, RefersToEntry
    <2>3. Cardinality({}) = 0
      BY FS_EmptySet
    <2> SUFFICES ASSUME NEW e \in Boxes, NEW t \in Trades, orderLocks'[t] = e
                 PROVE  refCount'[e] = Cardinality(Users(e)')
      BY DEF CountsUsers
    <2>4. CASE e = b
      BY <2>1, <2>3, <2>4 DEF LockTypeOK
    <2>5. CASE e # b
      <3>1. orderLocks[t] = e /\ refCount'[e] = refCount[e]
        BY <2>5 DEF LockTypeOK
      <3>2. refCount[e] = Cardinality(Users(e))
        BY <3>1 DEF CountsUsers
      <3> QED
        BY <2>2, <2>5, <3>1, <3>2
    <2> QED
      BY <2>4, <2>5
  <1>6. HeldByOne'
    BY <1>0 DEF LockTypeOK, HeldByOne, Holding, Unused, RefersToEntry
  <1>7. EntryUsed'
    BY <1>0 DEF EntryUsed, LockTypeOK, RefersToEntry
  <1> QED
    BY <1>1, <1>2, <1>3, <1>4, <1>5, <1>6, <1>7

\* Count preserves the invariant: the new user is counted.
LEMMA CountInv ==
  ASSUME OrderLockInv, NEW c \in Handlers, Count(c)
  PROVE  OrderLockInv'
  <1> USE DEF OrderLockInv, Count, MoveTo
  <1>0. rcm[c] \in Boxes
    BY DEF RefersToEntry, LockTypeOK
  <1>1. LockTypeOK'
    BY <1>0 DEF LockTypeOK, Places
  <1>2. CreateGuards'
    BY OrderLockAssumption DEF LockTypeOK, CreateGuards
  <1>3. RefersToEntry'
    BY DEF LockTypeOK, RefersToEntry
  <1>4. EntriesDiffer'
    BY DEF EntriesDiffer
  <1>5. CountsUsers'
    <2> SUFFICES ASSUME NEW e \in Boxes, NEW t \in Trades, orderLocks[t] = e
                 PROVE  refCount'[e] = Cardinality(Users(e)')
      BY DEF CountsUsers
    <2>1. refCount[e] = Cardinality(Users(e))
      BY DEF CountsUsers
    <2>2. CASE e = rcm[c]
      <3>1. Users(e)' = Users(e) \cup {c} /\ c \notin Users(e)
        BY <2>2 DEF Users, LockTypeOK
      <3>2. Cardinality(Users(e)') = Cardinality(Users(e)) + 1
        BY <3>1, UsersFinite, FS_AddElement
      <3> QED
        BY <2>1, <2>2, <3>2 DEF LockTypeOK
    <2>3. CASE e # rcm[c]
      <3>1. Users(e)' = Users(e)
        BY <2>3 DEF Users, LockTypeOK
      <3> QED
        BY <2>1, <2>3, <3>1 DEF LockTypeOK
    <2> QED
      BY <2>2, <2>3
  <1>6. HeldByOne'
    BY DEF LockTypeOK, HeldByOne, Holding
  <1>7. EntryUsed'
    BY DEF EntryUsed
  <1> QED
    BY <1>1, <1>2, <1>3, <1>4, <1>5, <1>6, <1>7

\* Acquire preserves the invariant: a locked mutex admits nobody else.
LEMMA AcquireInv ==
  ASSUME OrderLockInv, NEW c \in Handlers, Acquire(c)
  PROVE  OrderLockInv'
  <1> USE DEF OrderLockInv, Acquire, MoveTo
  <1>0. rcm[c] \in Boxes
    BY DEF RefersToEntry, LockTypeOK
  <1>1. LockTypeOK'
    BY DEF LockTypeOK, Places
  <1>2. CreateGuards'
    BY DEF LockTypeOK, CreateGuards
  <1>3. RefersToEntry'
    BY DEF LockTypeOK, RefersToEntry
  <1>4. EntriesDiffer'
    BY DEF EntriesDiffer
  <1>5. CountsUsers'
    BY SameUsers DEF LockTypeOK
  <1>6. HeldByOne'
    <2>1. ASSUME NEW d \in Handlers, d # c, Holding(d) PROVE rcm[d] # rcm[c]
      BY <2>1 DEF HeldByOne
    <2> QED
      BY <1>0, <2>1 DEF LockTypeOK, HeldByOne, Holding
  <1>7. EntryUsed'
    BY DEF EntryUsed
  <1> QED
    BY <1>1, <1>2, <1>3, <1>4, <1>5, <1>6, <1>7

\* LoadEntry preserves the invariant: it finds the entry it already held.
LEMMA LoadEntryInv ==
  ASSUME OrderLockInv, NEW c \in Handlers, LoadEntry(c)
  PROVE  OrderLockInv'
  <1> USE DEF OrderLockInv
  <1>0. /\ rcm' = rcm
        /\ pc[c] = "critical"
        /\ pc' = [pc EXCEPT ![c] = "release"]
        /\ UNCHANGED <<orderLocks, createLock, refCount, locked, trade>>
    BY DEF LoadEntry, MoveTo, RefersToEntry, LockTypeOK
  <1>1. LockTypeOK'
    BY <1>0 DEF LockTypeOK, Places
  <1>2. CreateGuards'
    BY <1>0 DEF LockTypeOK, CreateGuards
  <1>3. RefersToEntry'
    BY <1>0 DEF LockTypeOK, RefersToEntry
  <1>4. EntriesDiffer'
    BY <1>0 DEF EntriesDiffer
  <1>5. CountsUsers'
    BY <1>0, SameUsers DEF LockTypeOK
  <1>6. HeldByOne'
    BY <1>0 DEF LockTypeOK, HeldByOne, Holding
  <1>7. EntryUsed'
    BY <1>0 DEF EntryUsed
  <1> QED
    BY <1>1, <1>2, <1>3, <1>4, <1>5, <1>6, <1>7

\* Release preserves the invariant: nobody else held this mutex.
LEMMA ReleaseInv ==
  ASSUME OrderLockInv, NEW c \in Handlers, Release(c)
  PROVE  OrderLockInv'
  <1> USE DEF OrderLockInv, Release, MoveTo
  <1>1. LockTypeOK'
    BY DEF LockTypeOK, Places
  <1>2. CreateGuards'
    BY DEF LockTypeOK, CreateGuards
  <1>3. RefersToEntry'
    BY DEF LockTypeOK, RefersToEntry
  <1>4. EntriesDiffer'
    BY DEF EntriesDiffer
  <1>5. CountsUsers'
    BY SameUsers DEF LockTypeOK
  <1>6. HeldByOne'
    <2>1. ASSUME NEW d \in Handlers, d # c, Holding(d) PROVE rcm[d] # rcm[c] /\ locked[rcm[d]]
      BY <2>1 DEF HeldByOne, Holding
    <2>2. ASSUME NEW d \in Handlers, Holding(d)' PROVE d # c /\ Holding(d)
      BY <2>2 DEF Holding, LockTypeOK
    <2>3. ASSUME NEW d \in Handlers, Holding(d)' PROVE locked'[rcm[d]]
      BY <2>1, <2>2, <2>3 DEF LockTypeOK
    <2> QED
      BY <2>2, <2>3 DEF HeldByOne
  <1>7. EntryUsed'
    BY DEF EntryUsed
  <1> QED
    BY <1>1, <1>2, <1>3, <1>4, <1>5, <1>6, <1>7

\* Uncount preserves the invariant: the entry goes with its last user.
LEMMA UncountInv ==
  ASSUME OrderLockInv, NEW c \in Handlers, Uncount(c)
  PROVE  OrderLockInv'
  <1> USE DEF OrderLockInv, MoveTo
  <1> PICK box \in Boxes : box = rcm[c]
    BY DEF Uncount, RefersToEntry, LockTypeOK
  <1>0. /\ pc[c] = "uncount"
        /\ refCount' = [refCount EXCEPT ![box] = @ - 1]
        /\ orderLocks' = [orderLocks EXCEPT ![trade[c]] = IF refCount[box] = 1 THEN NoBox ELSE @]
        /\ createLock = c
        /\ createLock' = NoCall
        /\ rcm' = [rcm EXCEPT ![c] = NoBox]
        /\ pc' = [pc EXCEPT ![c] = "idle"]
        /\ UNCHANGED <<locked, trade>>
    BY DEF Uncount, CreateGuards
  <1>a. box # NoBox /\ orderLocks[trade[c]] = box /\ trade[c] \in Trades
    BY <1>0 DEF RefersToEntry, LockTypeOK
  <1>b. c \in Users(box)
    BY <1>0 DEF Users
  <1>c. refCount[box] = Cardinality(Users(box))
    BY <1>a DEF CountsUsers
  <1>d. Users(box)' = Users(box) \ {c}
    BY <1>0, <1>a DEF Users, LockTypeOK
  <1>e. IsFiniteSet(Users(box) \ {c}) /\ Cardinality(Users(box) \ {c}) = refCount[box] - 1
    BY <1>b, <1>c, UsersFinite, FS_RemoveElement
  <1>f. refCount[box] \in Nat /\ refCount[box] - 1 \in Nat
    <2>1. Cardinality(Users(box) \ {c}) \in Nat
      BY <1>e, FS_CardinalityType
    <2> QED
      BY <1>e, <2>1 DEF LockTypeOK
  <1>z. Users(box) \ {c} = {} <=> refCount[box] = 1
    <2>1. Cardinality(Users(box) \ {c}) = 0 <=> Users(box) \ {c} = {}
      BY <1>e, FS_EmptySet
    <2> QED
      BY <1>e, <1>f, <2>1
  \* Nobody is between Lookup and Count: c holds createLock.
  <1>g. \A d \in Handlers : pc[d] # "count"
    BY <1>0 DEF CreateGuards
  \* So the count at one means that c is the only one to refer to the entry.
  <1>h. ASSUME refCount[box] = 1, NEW d \in Handlers, d # c PROVE rcm[d] # box
    BY <1>g, <1>h, <1>z DEF Users
  <1>1. LockTypeOK'
    BY <1>0, <1>a, <1>f DEF LockTypeOK, Places
  <1>2. CreateGuards'
    BY <1>0, OrderLockAssumption DEF LockTypeOK, CreateGuards
  <1>3. RefersToEntry'
    <2> SUFFICES ASSUME NEW d \in Handlers, d # c, pc[d] \notin {"idle", "enter", "lookup"}
                 PROVE  rcm[d] # NoBox /\ orderLocks'[trade[d]] = rcm[d]
      BY <1>0 DEF RefersToEntry, LockTypeOK
    <2>1. rcm[d] # NoBox /\ orderLocks[trade[d]] = rcm[d] /\ trade[d] \in Trades
      BY DEF RefersToEntry, LockTypeOK
    <2>2. CASE trade[d] = trade[c]
      BY <1>0, <1>a, <1>h, <2>1, <2>2 DEF LockTypeOK
    <2>3. CASE trade[d] # trade[c]
      BY <1>0, <2>1, <2>3 DEF LockTypeOK
    <2> QED
      BY <2>2, <2>3
  <1>4. EntriesDiffer'
    BY <1>0, <1>a DEF LockTypeOK, EntriesDiffer
  <1>5. CountsUsers'
    <2> SUFFICES ASSUME NEW e \in Boxes, NEW t \in Trades, orderLocks'[t] = e
                 PROVE  refCount'[e] = Cardinality(Users(e)')
      BY DEF CountsUsers
    <2>1. CASE e = box
      BY <1>0, <1>d, <1>e, <2>1 DEF LockTypeOK
    <2>2. CASE e # box
      <3>1. Users(e)' = Users(e)
        BY <1>0, <2>2, OrderLockAssumption DEF Users, LockTypeOK
      <3>2. orderLocks[t] = e /\ refCount'[e] = refCount[e]
        BY <1>0, <1>a, <2>2, OrderLockAssumption DEF LockTypeOK
      <3>3. refCount[e] = Cardinality(Users(e))
        BY <3>2 DEF CountsUsers
      <3> QED
        BY <3>1, <3>2, <3>3
    <2> QED
      BY <2>1, <2>2
  <1>6. HeldByOne'
    BY <1>0 DEF LockTypeOK, HeldByOne, Holding
  <1>7. EntryUsed'
    <2> SUFFICES ASSUME NEW t \in Trades, orderLocks'[t] # NoBox
                 PROVE  \E d \in Handlers : rcm'[d] = orderLocks'[t]
      BY DEF EntryUsed
    <2>1. CASE t = trade[c]
      <3>1. orderLocks'[t] = box /\ refCount[box] # 1
        BY <1>0, <1>a, <2>1 DEF LockTypeOK
      <3>2. PICK d \in Users(box) : d # c
        BY <1>z, <3>1
      <3> QED
        BY <1>0, <3>1, <3>2 DEF Users, LockTypeOK
    <2>2. CASE t # trade[c]
      <3>1. orderLocks'[t] = orderLocks[t] /\ orderLocks[t] # box
        BY <1>0, <1>a, <2>2 DEF LockTypeOK, EntriesDiffer
      <3>2. PICK d \in Handlers : rcm[d] = orderLocks[t]
        BY <3>1 DEF EntryUsed
      <3> QED
        BY <1>0, <3>1, <3>2 DEF LockTypeOK
    <2> QED
      BY <2>1, <2>2
  <1> QED
    BY <1>1, <1>2, <1>3, <1>4, <1>5, <1>6, <1>7

\* OrderLockInv is inductive: it holds in every state of LockOrder/UnlockOrder.
THEOREM LockInductive == LockSpec => []OrderLockInv
  <1>1. OrderLockInv /\ [LockNext]_lockVars => OrderLockInv'
    <2> SUFFICES ASSUME OrderLockInv, [LockNext]_lockVars PROVE OrderLockInv'
      OBVIOUS
    <2>1. ASSUME NEW c \in Handlers, NEW t \in Trades, Start(c, t) PROVE OrderLockInv'
      BY <2>1, StartInv
    <2>2. ASSUME NEW c \in Handlers, LockStep(c) PROVE OrderLockInv'
      BY <2>2, EnterInv, LookupOldInv, LookupNewInv, CountInv, AcquireInv, LoadEntryInv,
         ReleaseInv, UncountInv DEF LockStep
    <2>3. CASE UNCHANGED lockVars
      <3>1. \A b : Users(b)' = Users(b)
        BY <2>3 DEF lockVars, Users
      <3> QED
        BY <2>3, <3>1
        DEF lockVars, OrderLockInv, LockTypeOK, CreateGuards, RefersToEntry, EntriesDiffer, CountsUsers,
            HeldByOne, Holding, EntryUsed
    <2> QED
      BY <2>1, <2>2, <2>3 DEF LockNext
  <1> QED
    BY <1>1, LockInitInv, PTL DEF LockSpec

\* Two handlers never work on one order at a time, for any number of them.
THEOREM Excludes == LockSpec => []MutualExclusion
  <1>1. OrderLockInv => MutualExclusion
    BY DEF OrderLockInv, HeldByOne, Holding, RefersToEntry, MutualExclusion
  <1> QED
    BY <1>1, LockInductive, PTL

\* UnlockOrder releases the mutex that its own LockOrder took.
THEOREM ReleasesOwn == LockSpec => []UnlocksItsOwn
  <1>1. OrderLockInv => UnlocksItsOwn
    BY DEF OrderLockInv, HeldByOne, Holding, RefersToEntry, UnlocksItsOwn
  <1> QED
    BY <1>1, LockInductive, PTL

\* An entry of orderLocks goes with its last user.
THEOREM NoLeak == LockSpec => []EntryHasUser
  <1>1. OrderLockInv => EntryHasUser
    <2> SUFFICES ASSUME OrderLockInv, NEW t \in Trades, orderLocks[t] # NoBox
                 PROVE  \E c \in Handlers : trade[c] = t /\ pc[c] # "idle"
      BY DEF EntryHasUser
    <2>1. PICK c \in Handlers : rcm[c] = orderLocks[t]
      BY DEF OrderLockInv, EntryUsed
    <2>2. pc[c] # "idle" /\ orderLocks[trade[c]] = orderLocks[t] /\ trade[c] \in Trades
      BY <2>1 DEF OrderLockInv, RefersToEntry, LockTypeOK
    <2> QED
      BY <2>2 DEF OrderLockInv, EntriesDiffer
  <1> QED
    BY <1>1, LockInductive, PTL

-----------------------------------------------------------------------------
(* The orders.                                                             *)

\* A free handler is well typed.
LEMMA IdleIsCall == Idle \in Call
  <1>1. (CHOOSE o \in Orders : TRUE) \in Orders /\ (CHOOSE i \in Instances : TRUE) \in Instances
    BY PaymentAssumption
  <1> QED
    BY <1>1 DEF Idle, Call, AllJobs

\* What IntPart cuts off is less than one unit.
LEMMA IntPartBounds ==
  ASSUME NEW x \in Nat
  PROVE  /\ IntPart(x) \in Nat
         /\ IntPart(x) * MoneyScale <= x
         /\ x < IntPart(x) * MoneyScale + MoneyScale
  <1>1. MoneyScale \in Nat /\ MoneyScale > 0
    BY PaymentAssumption
  <1> QED
    BY <1>1 DEF IntPart

\* The products that the conversions take are natural numbers.
LEMMA WorthTypes ==
  /\ StripeWorth \in Nat /\ StripeWorth + MoneyScale - 1 \in Nat
  /\ Amount \in Nat /\ Amount * QuotaPerUnit \in Nat
  /\ MoneyScale \in Nat /\ MoneyScale > 0
  <1>1. /\ Amount \in Nat /\ Money \in Nat /\ QuotaPerUnit \in Nat
        /\ MoneyScale \in Nat /\ MoneyScale > 0
    BY PaymentAssumption
  <1>2. StripeWorth \in Nat /\ Amount * QuotaPerUnit \in Nat
    BY <1>1 DEF StripeWorth
  <1> QED
    BY <1>1, <1>2

\* Both completion paths credit a natural number.
LEMMA QuotasAreNat == \A g : WebhookQuotas(g) \subseteq Nat /\ ManualQuota(g) \in Nat
  <1>1. IntPart(StripeWorth) \in Nat /\ IntPart(StripeWorth + MoneyScale - 1) \in Nat
    BY WorthTypes, IntPartBounds
  <1> QED
    BY <1>1, WorthTypes DEF WebhookQuotas, ManualQuota

\* The invariant holds before the first report.
LEMMA InitInv == Init => OrdersInv
  <1> SUFFICES ASSUME Init PROVE OrdersInv
    OBVIOUS
  <1>1. TypeOK
    <2>1. owned \in Nat
      BY PaymentAssumption DEF Init
    <2> QED
      BY <2>1, IdleIsCall DEF Init, TypeOK, Statuses
  <1>2. \A c \in Calls : call[c].pc = "idle" /\ ~call[c].locked
    BY DEF Init, Idle
  <1>3. NothingYet /\ SerialisedCreditedOnce /\ SuccessIffCredited
    BY DEF Init, NothingYet, SerialisedCreditedOnce, SuccessIffCredited
  <1> QED
    BY <1>1, <1>2, <1>3
    DEF OrdersInv, MutexHeld, RowHeld, HasRow, WritersOnly, ReadStillTrue

-----------------------------------------------------------------------------
(* Types. *)

\* A handler that returns is well typed.
LEMMA ReturnType ==
  ASSUME TypeOK, NEW c \in Calls, Return(c)
  PROVE  call' \in [Calls -> Call]
  BY IdleIsCall DEF TypeOK, Return

\* So is one that goes on.
LEMMA GotoType ==
  ASSUME TypeOK, NEW c \in Calls,
         NEW p \in {"idle", "lock", "read", "write", "credit", "grant", "reward"}, Goto(c, p)
  PROVE  call' \in [Calls -> Call]
  BY DEF TypeOK, Goto, Call

\* Types after the provider has its answer.
LEMMA AnswerType ==
  ASSUME TypeOK, NEW c \in Calls, NEW ok \in BOOLEAN, Answer(c, ok)
  PROVE  acked' \in [Orders -> BOOLEAN]
  BY DEF TypeOK, Answer, Order, Call

\* Types after a database call.
LEMMA DatabaseType ==
  ASSUME TypeOK, NEW c \in Calls, NEW ok \in BOOLEAN, Database(c, ok)
  PROVE  faults' \in Nat /\ lost' \in [Orders -> BOOLEAN]
  BY DEF TypeOK, Database, Order, Call

\* A handler has an order, and what it would credit is a natural number.
LEMMA OrderType ==
  ASSUME TypeOK, NEW c \in Calls
  PROVE  Order(c) \in Orders /\ Quotas(c) \subseteq Nat
  BY QuotasAreNat DEF TypeOK, Order, Call, Quotas

\* Receiving a report keeps the types.
LEMMA ReceiveType ==
  ASSUME TypeOK, NEW c \in Calls, NEW o \in Orders, NEW i \in Instances, NEW job \in AllJobs,
         Receive(c, o, i, job)
  PROVE  TypeOK'
  BY DEF TypeOK, Receive, Call

\* Every step of a handler keeps the types.
LEMMA StepType ==
  ASSUME TypeOK, NEW c \in Calls, Step(c)
  PROVE  TypeOK'
  <1>1. CASE LockOrder(c)
    BY <1>1 DEF LockOrder, TypeOK, Call
  <1>2. CASE Read(c)
    <2>1. call' \in [Calls -> Call]
      BY <1>2, ReturnType, GotoType DEF Read
    <2>2. acked' \in [Orders -> BOOLEAN]
      BY <1>2, AnswerType DEF Read, TypeOK
    <2> QED
      BY <1>2, <2>1, <2>2 DEF Read, TypeOK
  <1>3. CASE ReadReferral(c)
    <2>1. call' \in [Calls -> Call]
      BY <1>3, ReturnType, GotoType DEF ReadReferral
    <2> QED
      BY <1>3, <2>1 DEF ReadReferral, TypeOK
  <1>4. ASSUME NEW ok \in BOOLEAN, Complete(c, ok) PROVE TypeOK'
    <2>1. call' \in [Calls -> Call]
      BY <1>4, ReturnType, GotoType DEF Complete
    <2>2. acked' \in [Orders -> BOOLEAN] /\ faults' \in Nat /\ lost' \in [Orders -> BOOLEAN]
      BY <1>4, AnswerType, DatabaseType DEF Complete
    <2> QED
      BY <1>4, <2>1, <2>2, OrderType DEF Complete, TypeOK, Statuses
  <1>5. ASSUME NEW ok \in BOOLEAN, MarkDead(c, ok) PROVE TypeOK'
    <2>1. call' \in [Calls -> Call] /\ faults' \in Nat /\ lost' \in [Orders -> BOOLEAN]
      BY <1>5, ReturnType, DatabaseType DEF MarkDead
    <2> QED
      BY <1>5, <2>1 DEF MarkDead, TypeOK, Statuses
  <1>6. ASSUME NEW ok \in BOOLEAN, SaveEpay(c, ok) PROVE TypeOK'
    <2>1. call' \in [Calls -> Call] /\ faults' \in Nat /\ lost' \in [Orders -> BOOLEAN]
      BY <1>6, ReturnType, GotoType, DatabaseType DEF SaveEpay
    <2> QED
      BY <1>6, <2>1 DEF SaveEpay, TypeOK, Statuses
  <1>7. ASSUME NEW ok \in BOOLEAN, CreditEpay(c, ok) PROVE TypeOK'
    <2>1. call' \in [Calls -> Call] /\ faults' \in Nat /\ lost' \in [Orders -> BOOLEAN]
      BY <1>7, ReturnType, GotoType, DatabaseType DEF CreditEpay
    <2> QED
      BY <1>7, <2>1, OrderType DEF CreditEpay, TypeOK
  <1>8. ASSUME NEW ok \in BOOLEAN, Reward(c, ok) PROVE TypeOK'
    <2>1. call' \in [Calls -> Call] /\ faults' \in Nat /\ lost' \in [Orders -> BOOLEAN]
      BY <1>8, ReturnType, DatabaseType DEF Reward
    <2> QED
      BY <1>8, <2>1 DEF Reward, TypeOK
  <1> QED
    BY <1>1, <1>2, <1>3, <1>4, <1>5, <1>6, <1>7, <1>8 DEF Step

\* The crash of an instance keeps the types.
LEMMA CrashType ==
  ASSUME TypeOK, NEW i \in Instances, Crash(i)
  PROVE  TypeOK'
  BY IdleIsCall DEF TypeOK, Crash

-----------------------------------------------------------------------------
(* The inductive step. *)

\* Two handlers that work on one serialised order do so one after the other,
\* unless one is Waffo's failure report without row locks.
LEMMA Alone ==
  ASSUME OrdersInv, NEW c \in Calls, NEW d \in Calls, c # d, Order(c) = Order(d),
         Serialised(Order(c)),
         call[c].pc \in {"write", "credit"}, call[d].pc \in {"write", "credit"},
         RowLocks \/ (NeedsLock(Gateway(c), Job(c)) /\ NeedsLock(Gateway(d), Job(d)))
  PROVE  FALSE
  <1>1. CASE deployment = "one_process"
    BY <1>1 DEF OrdersInv, MutexHeld, Running, RowLocks, Gateway
  <1>2. CASE deployment = "serial_database"
    BY <1>2 DEF OrdersInv, RowHeld, HasRow, InTx, RowLocks, WritersOnly, Serialised, Gateway, Order
  <1> QED
    BY <1>1, <1>2 DEF Serialised

\* A handler past LockOrder that goes on, short of writing, or returns disturbs
\* neither lock.
LEMMA MovedOn ==
  ASSUME OrdersInv, TypeOK', NEW c \in Calls, UNCHANGED <<deployment, gateway>>,
         \A d \in Calls \ {c} : call'[d] = call[d],
         call[c].pc \notin {"idle", "lock"},
         \/ call'[c] = Idle
         \/ call'[c] = [call[c] EXCEPT !.pc = "credit"] /\ Gateway(c) = "epay" /\ Job(c) = "paid"
         \/ \E p \in {"grant", "reward"} : call'[c] = [call[c] EXCEPT !.pc = p]
  PROVE  MutexHeld' /\ RowHeld' /\ WritersOnly'
  <1>1. call[c] \in Call /\ call'[c] \in Call
    BY DEF OrdersInv, TypeOK
  <1>2. /\ call'[c].pc \in {"idle", "credit", "grant", "reward"}
        /\ call'[c].pc = "credit" => Gateway(c) = "epay" /\ Job(c) = "paid"
        /\ \/ call'[c].pc = "idle" /\ ~call'[c].locked
           \/ /\ call'[c].job = call[c].job
              /\ call'[c].order = call[c].order
              /\ call'[c].at = call[c].at
              /\ call'[c].locked = call[c].locked
    BY <1>1 DEF Call, Idle
  <1>3. MutexHeld'
    BY <1>2 DEF OrdersInv, MutexHeld, Running, Gateway, Order, Job
  <1>4. RowHeld'
    BY <1>2 DEF OrdersInv, RowHeld, HasRow, InTx, Gateway, Order, Job, RowLocks
  <1>5. WritersOnly'
    BY <1>2 DEF OrdersInv, WritersOnly, IsSub, Gateway, Order, Job
  <1> QED
    BY <1>3, <1>4, <1>5

\* A handler that goes on, not to write or credit, and changes no order.
LEMMA OrdersLeftAlone ==
  ASSUME OrdersInv, TypeOK', NEW c \in Calls,
         UNCHANGED <<deployment, gateway, status, credited, times>>,
         \A d \in Calls \ {c} : call'[d] = call[d],
         call'[c].pc \notin {"write", "credit"},
         \A o \in Orders : lost[o] => lost'[o],
         call[c].pc = "credit" => lost'[Order(c)]
  PROVE  ReadStillTrue' /\ NothingYet' /\ SerialisedCreditedOnce' /\ SuccessIffCredited'
  <1>1. ReadStillTrue'
    BY DEF OrdersInv, ReadStillTrue, Serialised, Delivers, Gateway, Order, Job, RowLocks
  <1>2. NothingYet' /\ SerialisedCreditedOnce'
    BY DEF OrdersInv, NothingYet, SerialisedCreditedOnce, Serialised
  <1>3. SuccessIffCredited'
    BY DEF OrdersInv, SuccessIffCredited, Serialised, Order, RowLocks
  <1> QED
    BY <1>1, <1>2, <1>3

\* A new handler has neither a lock nor a copy of the order.
LEMMA ReceiveInv ==
  ASSUME OrdersInv, NEW c \in Calls, NEW o \in Orders, NEW i \in Instances, NEW job \in AllJobs,
         Receive(c, o, i, job)
  PROVE  OrdersInv'
  <1>1. TypeOK /\ TypeOK'
    BY ReceiveType DEF OrdersInv
  <1>2. \A d \in Calls \ {c} : call'[d] = call[d]
    BY <1>1 DEF Receive, TypeOK
  <1>3. call'[c] = [pc |-> IF NeedsLock(gateway[o], job) THEN "lock" ELSE "read",
                    job |-> job, order |-> o, at |-> i, locked |-> FALSE]
    BY <1>1 DEF Receive, TypeOK
  <1>4. UNCHANGED <<deployment, gateway, status, credited, times, lost>> /\ call[c].pc = "idle"
    BY DEF Receive
  <1>5. MutexHeld'
    <2>1. \A d \in Calls \ {c} : /\ (Gateway(d) = Gateway(d)') /\ (Order(d) = Order(d)')
                                 /\ (Job(d) = Job(d)')
      BY <1>2, <1>4 DEF Gateway, Order, Job
    <2>2. Running' = Running /\ i \in Running /\ ~call'[c].locked /\ call'[c].at = i
      BY <1>3, <1>4 DEF Receive, Running
    <2>3. Gateway(c)' = gateway[o] /\ Job(c)' = job
      BY <1>3, <1>4 DEF Gateway, Job
    <2>4. call'[c].pc \notin {"idle", "lock"} => ~NeedsLock(gateway[o], job)
      BY <1>3
    <2> QED
      BY <1>2, <2>1, <2>2, <2>3, <2>4 DEF OrdersInv, MutexHeld
  <1>6. RowHeld' /\ WritersOnly'
    BY <1>2, <1>3, <1>4
    DEF Receive, OrdersInv, RowHeld, WritersOnly, IsSub, HasRow, InTx, Gateway, Order, Job, RowLocks
  <1>7. ReadStillTrue' /\ NothingYet' /\ SerialisedCreditedOnce' /\ SuccessIffCredited'
    BY <1>1, <1>2, <1>3, <1>4, OrdersLeftAlone
  <1> QED
    BY <1>1, <1>5, <1>6, <1>7 DEF OrdersInv

\* Who takes an order's lock finds no other holder on the instance.
LEMMA LockOrderInv ==
  ASSUME OrdersInv, NEW c \in Calls, LockOrder(c)
  PROVE  OrdersInv'
  <1>1. TypeOK /\ TypeOK'
    BY StepType DEF OrdersInv, Step
  <1>2. \A d \in Calls \ {c} : call'[d] = call[d]
    BY <1>1 DEF LockOrder, TypeOK
  <1>3. call'[c] = [call[c] EXCEPT !.pc = "read", !.locked = TRUE] /\ call[c] \in Call
    BY <1>1 DEF LockOrder, TypeOK
  <1>4. /\ call'[c].pc = "read" /\ call'[c].locked /\ call'[c].job = call[c].job
        /\ call'[c].order = call[c].order /\ call'[c].at = call[c].at
    BY <1>3 DEF Call
  <1>5. UNCHANGED <<deployment, gateway, status, credited, times, lost>> /\ call[c].pc = "lock"
    BY DEF LockOrder
  <1>6. MutexHeld'
    <2>1. \A d \in Calls : (Gateway(d) = Gateway(d)') /\ (Order(d) = Order(d)') /\ (Job(d) = Job(d)')
      BY <1>2, <1>4, <1>5 DEF Gateway, Order, Job
    <2>2. Running' = Running
      BY <1>5 DEF Running
    <2>3. \A d \in Calls : call[d].locked => call[d].at # call[c].at \/ Order(d) # Order(c)
      BY DEF LockOrder
    <2>4. \A b \in Calls : \A d \in Calls \ {b} : call'[b].locked /\ call'[d].locked =>
             call'[b].at # call'[d].at \/ (Order(b) # Order(d))'
      <3>1. MutexHeld
        BY DEF OrdersInv
      <3> QED
        BY <1>2, <1>4, <2>1, <2>3, <3>1 DEF MutexHeld
    <2> QED
      BY <1>2, <1>4, <1>5, <2>1, <2>2, <2>4 DEF OrdersInv, MutexHeld
  <1>7. RowHeld' /\ WritersOnly'
    BY <1>2, <1>4, <1>5
    DEF OrdersInv, RowHeld, WritersOnly, IsSub, HasRow, InTx, Gateway, Order, Job, RowLocks
  <1>8. ReadStillTrue' /\ NothingYet' /\ SerialisedCreditedOnce' /\ SuccessIffCredited'
    BY <1>1, <1>2, <1>4, <1>5, OrdersLeftAlone
  <1> QED
    BY <1>1, <1>6, <1>7, <1>8 DEF OrdersInv

\* What a handler has read under the lock, or what the database checks again,
\* is the order as it is.
LEMMA ReadInv ==
  ASSUME OrdersInv, NEW c \in Calls, Read(c)
  PROVE  OrdersInv'
  <1>1. TypeOK /\ TypeOK'
    BY StepType DEF OrdersInv, Step
  <1>2. \A d \in Calls \ {c} : call'[d] = call[d]
    BY <1>1 DEF Read, Goto, Return, TypeOK
  <1>3. \/ call'[c] = Idle
        \/ call'[c] = [call[c] EXCEPT !.pc = "write"] /\ status[Order(c)] = "pending" /\ ~LeftPending(c)
        \/ call'[c] = [call[c] EXCEPT !.pc = "grant"]
    BY <1>1 DEF Read, Goto, Return, TypeOK
  <1>4. UNCHANGED <<deployment, gateway, status, times, credited, lost>> /\ call[c].pc = "read"
    BY DEF Read
  <1>5. CASE call'[c].pc # "write"
    <2>1. MutexHeld' /\ RowHeld' /\ WritersOnly'
      BY <1>1, <1>2, <1>3, <1>4, <1>5, MovedOn DEF TypeOK, Call
    <2>2. call'[c].pc # "credit"
      BY <1>1, <1>3, <1>5 DEF TypeOK, Call, Idle
    <2>3. ReadStillTrue' /\ NothingYet' /\ SerialisedCreditedOnce' /\ SuccessIffCredited'
      BY <1>1, <1>2, <1>4, <1>5, <2>2, OrdersLeftAlone
    <2> QED
      BY <1>1, <2>1, <2>3 DEF OrdersInv
  <1>6. CASE call'[c].pc = "write"
    <2>1. /\ call'[c].job = call[c].job /\ call'[c].order = call[c].order
          /\ call'[c].at = call[c].at /\ call'[c].locked = call[c].locked
          /\ status[Order(c)] = "pending" /\ ~LeftPending(c) /\ Order(c) \in Orders
      BY <1>1, <1>3, <1>6, OrderType DEF TypeOK, Call, Idle
    <2>2. MutexHeld'
      <3>1. \A d \in Calls : (Gateway(d) = Gateway(d)') /\ (Order(d) = Order(d)') /\ (Job(d) = Job(d)')
        BY <1>2, <1>4, <2>1 DEF Gateway, Order, Job
      <3>2. Running' = Running
        BY <1>4 DEF Running
      <3> QED
        BY <1>2, <1>4, <1>6, <2>1, <3>1, <3>2 DEF OrdersInv, MutexHeld
    <2>3. RowHeld'
      BY <1>2, <1>4, <1>6, <2>1
      DEF Read, OrdersInv, RowHeld, RowFree, HasRow, InTx, Gateway, Order, Job, RowLocks
    <2>4. WritersOnly'
      BY <1>2, <1>4, <1>6, <2>1 DEF OrdersInv, WritersOnly, LeftPending, IsSub, Gateway, Order, Job
    <2>5. ReadStillTrue'
      <3>1. Serialised(Order(c)) => times[Order(c)] = 0
        BY <2>1 DEF OrdersInv, NothingYet
      <3> QED
        BY <1>2, <1>4, <1>6, <2>1, <3>1
        DEF OrdersInv, ReadStillTrue, Delivers, Serialised, Gateway, Order, Job, RowLocks
    <2>6. NothingYet' /\ SerialisedCreditedOnce'
      BY <1>4 DEF OrdersInv, NothingYet, SerialisedCreditedOnce, Serialised
    <2>7. SuccessIffCredited'
      BY <1>2, <1>4, <1>6, <2>1 DEF OrdersInv, SuccessIffCredited, Serialised, Order, RowLocks
    <2> QED
      BY <1>1, <2>2, <2>3, <2>4, <2>5, <2>6, <2>7 DEF OrdersInv
  <1> QED
    BY <1>5, <1>6

\* Beside a handler that writes under LockOrder or row locks, only Waffo's
\* failure report can be about to write the same order.
LEMMA Others ==
  ASSUME OrdersInv, NEW c \in Calls, Serialised(Order(c)), call[c].pc \in {"write", "credit"},
         RowLocks \/ NeedsLock(Gateway(c), Job(c))
  PROVE  \A d \in Calls \ {c} :
            Order(d) = Order(c) /\ call[d].pc \in {"write", "credit"} =>
                ~RowLocks /\ Gateway(d) = "waffo" /\ Job(d) = "failed"
  BY Alone DEF NeedsLock

\* A handler writes its order under LockOrder or row locks: no other handler
\* relies on what has changed.
LEMMA WriterLeaves ==
  ASSUME OrdersInv, NEW c \in Calls, UNCHANGED <<deployment, gateway>>,
         \A d \in Calls \ {c} : call'[d] = call[d],
         call[c].pc \in {"write", "credit"},
         RowLocks \/ NeedsLock(Gateway(c), Job(c)),
         \A o \in Orders \ {Order(c)} : times'[o] = times[o] /\ status'[o] = status[o],
         \/ call'[c].pc \notin {"write", "credit"}
         \/ /\ call'[c].pc = "credit" /\ Order(c)' = Order(c)
            /\ Serialised(Order(c)) => times'[Order(c)] = 0 /\ status'[Order(c)] = "success"
  PROVE  ReadStillTrue'
  <1> SUFFICES ASSUME NEW d \in Calls, Serialised(Order(d))', call'[d].pc \in {"write", "credit"}
               PROVE  /\ call'[d].pc = "write" /\ Delivers(d)' => (times[Order(d)] = 0)'
                      /\ call'[d].pc = "write" /\ (Gateway(d) = "waffo" => RowLocks)' =>
                            (status[Order(d)] = "pending")'
                      /\ call'[d].pc = "credit" => (times[Order(d)] = 0 /\ status[Order(d)] = "success")'
    BY DEF ReadStillTrue
  <1>1. CASE d = c
    BY <1>1 DEF Serialised
  <1>2. CASE d # c
    <2>1. call'[d] = call[d]
      BY <1>2
    <2>2. /\ Serialised(Order(d)) /\ (Order(d)' = Order(d)) /\ (Gateway(d)' = Gateway(d))
          /\ (Job(d)' = Job(d)) /\ (Delivers(d)' = Delivers(d)) /\ (RowLocks' = RowLocks)
      BY <2>1 DEF Serialised, Order, Gateway, Job, RowLocks, Delivers
    <2>3. CASE Order(d) = Order(c)
      <3>1. ~RowLocks /\ Gateway(d) = "waffo" /\ Job(d) = "failed"
        BY <1>2, <2>1, <2>2, <2>3, Others
      <3>2. call[d].pc # "credit"
        BY <3>1 DEF OrdersInv, WritersOnly
      <3> QED
        BY <2>1, <2>2, <3>1, <3>2 DEF Delivers
    <2>4. CASE Order(d) # Order(c)
      <3>1. times'[Order(d)] = times[Order(d)] /\ status'[Order(d)] = status[Order(d)]
        BY <2>4, OrderType DEF OrdersInv
      <3> QED
        BY <2>1, <2>2, <3>1 DEF OrdersInv, ReadStillTrue
    <2> QED
      BY <2>3, <2>4
  <1> QED
    BY <1>1, <1>2

\* A completion delivers an order that is still pending, and marks it.
LEMMA CompleteInv ==
  ASSUME OrdersInv, NEW c \in Calls, NEW ok \in BOOLEAN, Complete(c, ok)
  PROVE  OrdersInv'
  <1>1. TypeOK /\ TypeOK'
    BY StepType DEF OrdersInv, Step
  <1>2. \A d \in Calls \ {c} : call'[d] = call[d]
    BY <1>1 DEF Complete, Goto, Return, TypeOK
  <1>3. call'[c] = IF ok THEN [call[c] EXCEPT !.pc = "grant"] ELSE Idle
    BY <1>1 DEF Complete, Goto, Return, TypeOK
  <1>4. UNCHANGED <<deployment, gateway>> /\ call[c].pc = "write"
    BY DEF Complete
  <1>5. MutexHeld' /\ RowHeld' /\ WritersOnly'
    BY <1>1, <1>2, <1>3, <1>4, MovedOn
  <1>6. call'[c].pc \notin {"write", "credit"} /\ Order(c) \in Orders
    BY <1>1, <1>3, OrderType DEF TypeOK, Call, Idle
  <1>7. CASE ~ok
    <2>1. \A o \in Orders : lost[o] => lost'[o]
      BY <1>1 DEF Complete, Database, TypeOK
    <2>2. UNCHANGED <<status, credited, times>>
      BY <1>7 DEF Complete
    <2>3. ReadStillTrue' /\ NothingYet' /\ SerialisedCreditedOnce' /\ SuccessIffCredited'
      BY <1>1, <1>2, <1>4, <1>6, <2>1, <2>2, OrdersLeftAlone
    <2> QED
      BY <1>1, <1>5, <2>3 DEF OrdersInv
  <1>8. CASE ok
    <2>1. /\ status' = [status EXCEPT ![Order(c)] = "success"]
          /\ times' = [times EXCEPT ![Order(c)] = @ + 1]
          /\ \A o \in Orders \ {Order(c)} : credited'[o] = credited[o] /\ lost'[o] = lost[o]
      BY <1>1, <1>6, <1>8 DEF Complete, Database, TypeOK
    <2>2. Serialised(Order(c)) => times[Order(c)] = 0
      BY <1>4 DEF OrdersInv, ReadStillTrue, Complete
    <2>3. NeedsLock(Gateway(c), Job(c))
      BY DEF Complete, Delivers, NeedsLock
    <2>4. ReadStillTrue'
      BY <1>1, <1>2, <1>4, <1>6, <2>1, <2>3, WriterLeaves DEF TypeOK
    <2>5. NothingYet' /\ SerialisedCreditedOnce'
      BY <1>1, <1>4, <1>6, <2>1, <2>2
      DEF OrdersInv, NothingYet, SerialisedCreditedOnce, Serialised, TypeOK
    <2>6. SuccessIffCredited'
      BY <1>1, <1>2, <1>4, <1>6, <2>1
      DEF OrdersInv, SuccessIffCredited, Serialised, TypeOK, RowLocks, Order
    <2> QED
      BY <1>1, <1>5, <2>4, <2>5, <2>6 DEF OrdersInv
  <1> QED
    BY <1>7, <1>8

\* Reading the referral record changes no order.
LEMMA ReadReferralInv ==
  ASSUME OrdersInv, NEW c \in Calls, ReadReferral(c)
  PROVE  OrdersInv'
  <1>1. TypeOK /\ TypeOK'
    BY StepType DEF OrdersInv, Step
  <1>2. /\ \A d \in Calls \ {c} : call'[d] = call[d]
        /\ call'[c] = Idle \/ call'[c] = [call[c] EXCEPT !.pc = "reward"]
    BY <1>1 DEF ReadReferral, Goto, Return, TypeOK
  <1>3. UNCHANGED <<deployment, gateway, status, credited, times, lost>> /\ call[c].pc = "grant"
    BY DEF ReadReferral
  <1>4. call'[c].pc \notin {"write", "credit"}
    BY <1>1, <1>2 DEF TypeOK, Call, Idle
  <1>5. MutexHeld' /\ RowHeld' /\ WritersOnly'
    BY <1>1, <1>2, <1>3, MovedOn
  <1>6. ReadStillTrue' /\ NothingYet' /\ SerialisedCreditedOnce' /\ SuccessIffCredited'
    BY <1>1, <1>2, <1>3, <1>4, OrdersLeftAlone
  <1> QED
    BY <1>1, <1>5, <1>6 DEF OrdersInv

\* Nor does the reward.
LEMMA RewardInv ==
  ASSUME OrdersInv, NEW c \in Calls, NEW ok \in BOOLEAN, Reward(c, ok)
  PROVE  OrdersInv'
  <1>1. TypeOK /\ TypeOK'
    BY StepType DEF OrdersInv, Step
  <1>2. (\A d \in Calls \ {c} : call'[d] = call[d]) /\ call'[c] = Idle
    BY <1>1 DEF Reward, Return, TypeOK
  <1>3. UNCHANGED <<deployment, gateway, status, credited, times>> /\ call[c].pc = "reward"
    BY DEF Reward
  <1>4. call'[c].pc \notin {"write", "credit"} /\ \A o \in Orders : lost[o] => lost'[o]
    BY <1>1, <1>2 DEF Idle, Reward, Database, TypeOK
  <1>5. MutexHeld' /\ RowHeld' /\ WritersOnly'
    BY <1>1, <1>2, <1>3, MovedOn
  <1>6. ReadStillTrue' /\ NothingYet' /\ SerialisedCreditedOnce' /\ SuccessIffCredited'
    BY <1>1, <1>2, <1>3, <1>4, OrdersLeftAlone
  <1> QED
    BY <1>1, <1>5, <1>6 DEF OrdersInv

\* A failure or an expiry is written over an order that was read as pending.
LEMMA MarkDeadInv ==
  ASSUME OrdersInv, NEW c \in Calls, NEW ok \in BOOLEAN, MarkDead(c, ok)
  PROVE  OrdersInv'
  <1>1. TypeOK /\ TypeOK'
    BY StepType DEF OrdersInv, Step
  <1>2. (\A d \in Calls \ {c} : call'[d] = call[d]) /\ call'[c] = Idle
    BY <1>1 DEF MarkDead, Return, TypeOK
  <1>3. UNCHANGED <<deployment, gateway, credited, times>> /\ call[c].pc = "write"
    BY DEF MarkDead
  <1>4. call'[c].pc \notin {"write", "credit"} /\ Order(c) \in Orders
    BY <1>1, <1>2, OrderType DEF Idle
  <1>5. \A o \in Orders : lost[o] => lost'[o]
    BY <1>1 DEF MarkDead, Database, TypeOK
  <1>6. MutexHeld' /\ RowHeld' /\ WritersOnly'
    BY <1>1, <1>2, <1>3, MovedOn
  <1>7. CASE ~ok
    <2>1. status' = status
      BY <1>1, <1>7 DEF MarkDead, TypeOK
    <2>2. ReadStillTrue' /\ NothingYet' /\ SerialisedCreditedOnce' /\ SuccessIffCredited'
      BY <1>1, <1>2, <1>3, <1>4, <1>5, <2>1, OrdersLeftAlone
    <2> QED
      BY <1>1, <1>6, <2>2 DEF OrdersInv
  <1>8. CASE ok
    <2>1. /\ status'[Order(c)] \notin {"pending", "success"}
          /\ \A o \in Orders \ {Order(c)} : status'[o] = status[o]
      BY <1>1, <1>4, <1>8 DEF MarkDead, TypeOK
    <2>2. Serialised(Order(c)) /\ (Gateway(c) = "waffo" => RowLocks) => times[Order(c)] = 0
      BY <1>3, <1>4 DEF OrdersInv, ReadStillTrue, NothingYet
    <2>3. ReadStillTrue'
      <3>1. CASE Gateway(c) = "waffo" => RowLocks
        <4>1. RowLocks \/ NeedsLock(Gateway(c), Job(c))
          BY <3>1 DEF NeedsLock
        <4> QED
          BY <1>2, <1>3, <1>4, <2>1, <4>1, WriterLeaves
      <3>2. CASE Gateway(c) = "waffo" /\ ~RowLocks
        BY <1>2, <1>3, <1>4, <2>1, <3>2, OrderType
        DEF OrdersInv, WritersOnly, ReadStillTrue, Serialised, Delivers, Gateway, Order, Job, RowLocks
      <3> QED
        BY <3>1, <3>2
    <2>4. NothingYet' /\ SerialisedCreditedOnce'
      BY <1>3, <1>4, <2>1 DEF OrdersInv, NothingYet, SerialisedCreditedOnce, Serialised
    <2>5. SuccessIffCredited'
      BY <1>1, <1>2, <1>3, <1>4, <1>5, <2>1, <2>2
      DEF OrdersInv, SuccessIffCredited, Serialised, TypeOK, RowLocks, Gateway, Order
    <2> QED
      BY <1>1, <1>6, <2>3, <2>4, <2>5 DEF OrdersInv
  <1> QED
    BY <1>7, <1>8

\* EpayNotify's first statement: success, not yet credited.
LEMMA SaveEpayInv ==
  ASSUME OrdersInv, NEW c \in Calls, NEW ok \in BOOLEAN, SaveEpay(c, ok)
  PROVE  OrdersInv'
  <1>1. TypeOK /\ TypeOK'
    BY StepType DEF OrdersInv, Step
  <1>2. /\ \A d \in Calls \ {c} : call'[d] = call[d]
        /\ call'[c] = IF ok THEN [call[c] EXCEPT !.pc = "credit"] ELSE Idle
    BY <1>1 DEF SaveEpay, Goto, Return, TypeOK
  <1>3. /\ UNCHANGED <<deployment, gateway, credited, times>> /\ call[c].pc = "write"
        /\ Gateway(c) = "epay" /\ Job(c) = "paid" /\ Order(c) \in Orders
    BY <1>1, OrderType DEF SaveEpay, InTx
  <1>4. \A o \in Orders : lost[o] => lost'[o]
    BY <1>1 DEF SaveEpay, Database, TypeOK
  <1>5. MutexHeld' /\ RowHeld' /\ WritersOnly'
    BY <1>1, <1>2, <1>3, MovedOn
  <1>6. CASE ~ok
    <2>1. status' = status /\ call'[c].pc = "idle"
      BY <1>1, <1>2, <1>6 DEF SaveEpay, TypeOK, Idle
    <2>2. ReadStillTrue' /\ NothingYet' /\ SerialisedCreditedOnce' /\ SuccessIffCredited'
      BY <1>1, <1>2, <1>3, <1>4, <2>1, OrdersLeftAlone
    <2> QED
      BY <1>1, <1>5, <2>2 DEF OrdersInv
  <1>7. CASE ok
    <2>1. /\ status'[Order(c)] = "success"
          /\ \A o \in Orders \ {Order(c)} : status'[o] = status[o]
      BY <1>1, <1>3, <1>7 DEF SaveEpay, TypeOK
    <2>2. Serialised(Order(c)) => times[Order(c)] = 0
      BY <1>3 DEF OrdersInv, ReadStillTrue, Delivers
    <2>3. call'[c].pc = "credit" /\ Order(c)' = Order(c) /\ NeedsLock(Gateway(c), Job(c))
      BY <1>1, <1>2, <1>3, <1>7 DEF TypeOK, Call, Order, NeedsLock
    <2>4. ReadStillTrue'
      BY <1>2, <1>3, <2>1, <2>2, <2>3, WriterLeaves
    <2>5. NothingYet' /\ SerialisedCreditedOnce'
      BY <1>3, <2>1 DEF OrdersInv, NothingYet, SerialisedCreditedOnce, Serialised
    <2>6. SuccessIffCredited'
      <3> SUFFICES ASSUME NEW o \in Orders, Serialised(o)
                   PROVE  /\ times[o] > 0 /\ (gateway[o] = "waffo" => RowLocks) => status'[o] = "success"
                          /\ status'[o] = "success" /\ times[o] = 0 =>
                                /\ gateway[o] = "epay"
                                /\ lost'[o] \/ \E d \in Calls : Order(d)' = o /\ call'[d].pc = "credit"
        BY <1>3 DEF SuccessIffCredited, Serialised, RowLocks
      <3>1. CASE o = Order(c)
        BY <1>3, <2>1, <2>3, <3>1 DEF Gateway, Order
      <3>2. CASE o # Order(c)
        <4>1. \A d \in Calls : Order(d) = o /\ call[d].pc = "credit" =>
                 Order(d)' = o /\ call'[d].pc = "credit"
          BY <1>2, <3>2 DEF Order
        <4> QED
          BY <1>4, <2>1, <3>2, <4>1 DEF OrdersInv, SuccessIffCredited
      <3> QED
        BY <3>1, <3>2
    <2> QED
      BY <1>1, <1>5, <2>4, <2>5, <2>6 DEF OrdersInv
  <1> QED
    BY <1>6, <1>7

\* EpayNotify's second statement: the credit, or its loss.
LEMMA CreditEpayInv ==
  ASSUME OrdersInv, NEW c \in Calls, NEW ok \in BOOLEAN, CreditEpay(c, ok)
  PROVE  OrdersInv'
  <1>1. TypeOK /\ TypeOK'
    BY StepType DEF OrdersInv, Step
  <1>2. /\ \A d \in Calls \ {c} : call'[d] = call[d]
        /\ call'[c] = IF ok THEN [call[c] EXCEPT !.pc = "grant"] ELSE Idle
    BY <1>1 DEF CreditEpay, Goto, Return, TypeOK
  <1>3. /\ UNCHANGED <<deployment, gateway, status>> /\ call[c].pc = "credit"
        /\ Gateway(c) = "epay" /\ Job(c) = "paid" /\ Order(c) \in Orders
    BY <1>1, OrderType DEF CreditEpay, OrdersInv, WritersOnly
  <1>4. \A o \in Orders : lost[o] => lost'[o]
    BY <1>1 DEF CreditEpay, Database, TypeOK
  <1>5. MutexHeld' /\ RowHeld' /\ WritersOnly'
    BY <1>1, <1>2, <1>3, MovedOn
  <1>6. call'[c].pc \notin {"write", "credit"}
    BY <1>1, <1>2 DEF TypeOK, Call, Idle
  <1>7. CASE ~ok
    <2>1. UNCHANGED <<credited, times>> /\ lost'[Order(c)]
      BY <1>1, <1>3, <1>7 DEF CreditEpay, Database, TypeOK
    <2>2. ReadStillTrue' /\ NothingYet' /\ SerialisedCreditedOnce' /\ SuccessIffCredited'
      BY <1>1, <1>2, <1>3, <1>4, <1>6, <2>1, OrdersLeftAlone
    <2> QED
      BY <1>1, <1>5, <2>2 DEF OrdersInv
  <1>8. CASE ok
    <2>1. /\ times'[Order(c)] = times[Order(c)] + 1
          /\ \A o \in Orders \ {Order(c)} : times'[o] = times[o] /\ credited'[o] = credited[o]
      BY <1>1, <1>3, <1>8 DEF CreditEpay, TypeOK
    <2>2. Serialised(Order(c)) => times[Order(c)] = 0 /\ status[Order(c)] = "success"
      BY <1>3 DEF OrdersInv, ReadStillTrue
    <2>3. NeedsLock(Gateway(c), Job(c))
      BY <1>3 DEF NeedsLock
    <2>4. ReadStillTrue'
      BY <1>2, <1>3, <1>6, <2>1, <2>3, WriterLeaves
    <2>5. NothingYet' /\ SerialisedCreditedOnce'
      BY <1>1, <1>3, <2>1, <2>2 DEF OrdersInv, NothingYet, SerialisedCreditedOnce, Serialised, TypeOK
    <2>6. SuccessIffCredited'
      BY <1>1, <1>2, <1>3, <1>4, <2>1, <2>2
      DEF OrdersInv, SuccessIffCredited, Serialised, TypeOK, RowLocks, Gateway, Order
    <2> QED
      BY <1>1, <1>5, <2>4, <2>5, <2>6 DEF OrdersInv
  <1> QED
    BY <1>7, <1>8

\* A crash frees the locks of the instance and drops its handlers.
LEMMA CrashInv ==
  ASSUME OrdersInv, NEW i \in Instances, Crash(i)
  PROVE  OrdersInv'
  <1>1. TypeOK /\ TypeOK'
    BY CrashType DEF OrdersInv
  <1>2. \A c \in Calls : \/ call'[c] = call[c]
                         \/ call'[c].pc = "idle" /\ ~call'[c].locked
    BY DEF Crash, Idle
  <1>3. UNCHANGED <<deployment, gateway, status, credited, times>>
    BY DEF Crash
  <1>4. \A o \in Orders :
           /\ lost[o] => lost'[o]
           /\ \A c \in Calls : call[c].pc = "credit" /\ Order(c) = o /\ call'[c] # call[c] => lost'[o]
    BY DEF Crash
  <1>5. MutexHeld'
    <2>1. Running' = Running
      BY <1>3 DEF Running
    <2>2. \A c \in Calls : call'[c] = call[c] =>
             (Gateway(c)' = Gateway(c)) /\ (Order(c)' = Order(c)) /\ (Job(c)' = Job(c))
      BY <1>3 DEF Gateway, Order, Job
    <2> QED
      BY <1>2, <2>1, <2>2 DEF OrdersInv, MutexHeld
  <1>6. RowHeld' /\ WritersOnly'
    BY <1>2, <1>3
    DEF OrdersInv, RowHeld, WritersOnly, IsSub, HasRow, InTx, Gateway, Order, Job, RowLocks
  <1>7. ReadStillTrue'
    BY <1>2, <1>3 DEF OrdersInv, ReadStillTrue, Serialised, Delivers, Gateway, Order, Job, RowLocks
  <1>8. NothingYet' /\ SerialisedCreditedOnce'
    BY <1>3 DEF OrdersInv, NothingYet, SerialisedCreditedOnce, Serialised
  <1>9. SuccessIffCredited'
    BY <1>2, <1>3, <1>4 DEF OrdersInv, SuccessIffCredited, Serialised, Order, RowLocks
  <1> QED
    BY <1>1, <1>5, <1>6, <1>7, <1>8, <1>9 DEF OrdersInv

\* Every step preserves the invariant of the orders.
LEMMA NextOrdersInv ==
  ASSUME OrdersInv, [Next]_vars
  PROVE  OrdersInv'
  <1>1. CASE UNCHANGED vars
    <2>1. TypeOK' /\ NothingYet' /\ SerialisedCreditedOnce' /\ SuccessIffCredited'
      BY <1>1 DEF vars, OrdersInv, TypeOK, NothingYet, SerialisedCreditedOnce, SuccessIffCredited,
                  Serialised, Order, RowLocks
    <2>2. MutexHeld'
      BY <1>1 DEF vars, OrdersInv, MutexHeld, Running, Gateway, Order, Job
    <2>3. RowHeld' /\ WritersOnly'
      BY <1>1 DEF vars, OrdersInv, RowHeld, WritersOnly, HasRow, InTx, IsSub, Gateway, Order, Job, RowLocks
    <2>4. ReadStillTrue'
      BY <1>1 DEF vars, OrdersInv, ReadStillTrue, Serialised, Delivers, Gateway, Order, Job, RowLocks
    <2> QED
      BY <2>1, <2>2, <2>3, <2>4 DEF OrdersInv
  <1>2. ASSUME NEW c \in Calls, Step(c) PROVE OrdersInv'
    BY <1>2, LockOrderInv, ReadInv, ReadReferralInv, CompleteInv, MarkDeadInv, SaveEpayInv,
       CreditEpayInv, RewardInv DEF Step
  <1> QED
    BY <1>1, <1>2, ReceiveInv, CrashInv DEF Next

-----------------------------------------------------------------------------
(* The referral record. *)

\* A step that neither pays a reward nor comes to the point of doing so keeps
\* GrantedWhenPaid.
LEMMA StepKeepsReward ==
  ASSUME TypeOK, GrantedWhenPaid, NEW c \in Calls, UNCHANGED <<deployment, granted, rewards>>,
         \A d \in Calls \ {c} : call'[d] = call[d],
         call'[c].pc # "reward"
  PROVE  GrantedWhenPaid'
  BY DEF GrantedWhenPaid, RowLocks

\* Every step preserves GrantedWhenPaid.
LEMMA NextGranted ==
  ASSUME TypeOK, GrantedWhenPaid, [Next]_vars
  PROVE  GrantedWhenPaid'
  <1>1. CASE UNCHANGED vars
    BY <1>1 DEF vars, GrantedWhenPaid, RowLocks
  <1>2. ASSUME NEW c \in Calls, NEW o \in Orders, NEW i \in Instances, NEW job \in AllJobs,
               Receive(c, o, i, job)
        PROVE  GrantedWhenPaid'
    BY <1>2, StepKeepsReward DEF Receive, TypeOK
  <1>3. ASSUME NEW c \in Calls, LockOrder(c) PROVE GrantedWhenPaid'
    BY <1>3, StepKeepsReward DEF LockOrder, TypeOK, Call
  <1>4. ASSUME NEW c \in Calls, Read(c) PROVE GrantedWhenPaid'
    <2>1. UNCHANGED <<deployment, granted, rewards>> /\ (Return(c) \/ Goto(c, "write") \/ Goto(c, "grant"))
      BY <1>4 DEF Read
    <2>2. (\A d \in Calls \ {c} : call'[d] = call[d]) /\ call'[c].pc # "reward"
      BY <2>1 DEF Goto, Return, TypeOK, Call, Idle
    <2> QED
      BY <2>1, <2>2, StepKeepsReward
  <1>5. ASSUME NEW c \in Calls, NEW ok \in BOOLEAN,
               Complete(c, ok) \/ MarkDead(c, ok) \/ SaveEpay(c, ok) \/ CreditEpay(c, ok)
        PROVE  GrantedWhenPaid'
    <2>1. UNCHANGED <<deployment, granted, rewards>>
      BY <1>5 DEF Complete, MarkDead, SaveEpay, CreditEpay
    <2>2. Return(c) \/ Goto(c, "grant") \/ Goto(c, "credit")
      BY <1>5 DEF Complete, MarkDead, SaveEpay, CreditEpay
    <2>3. (\A d \in Calls \ {c} : call'[d] = call[d]) /\ call'[c].pc # "reward"
      BY <2>2 DEF Goto, Return, TypeOK, Call, Idle
    <2> QED
      BY <2>1, <2>3, StepKeepsReward
  <1>6. ASSUME NEW c \in Calls, ReadReferral(c) PROVE GrantedWhenPaid'
    <2>1. \A d \in Calls \ {c} : call'[d] = call[d]
      BY <1>6 DEF ReadReferral, Goto, Return, TypeOK
    <2>2. call'[c].pc = "reward" => ~granted
      BY <1>6 DEF ReadReferral, Return, TypeOK, Idle
    <2> QED
      BY <1>6, <2>1, <2>2 DEF ReadReferral, GrantedWhenPaid, RowLocks
  <1>7. ASSUME NEW c \in Calls, NEW ok \in BOOLEAN, Reward(c, ok) PROVE GrantedWhenPaid'
    <2>1. (\A d \in Calls \ {c} : call'[d] = call[d]) /\ call'[c].pc = "idle" /\ call[c].pc = "reward"
      BY <1>7 DEF Reward, Return, TypeOK, Idle
    <2>2. /\ deployment' = deployment
          /\ ok => granted' = TRUE /\ rewards' = rewards + 1
          /\ ~ok => granted' = granted /\ rewards' = rewards
      BY <1>7 DEF Reward, TypeOK
    <2> QED
      BY <2>1, <2>2 DEF GrantedWhenPaid, RowLocks
  <1>8. ASSUME NEW i \in Instances, Crash(i) PROVE GrantedWhenPaid'
    <2>1. \A c \in Calls : call'[c] = call[c] \/ call'[c].pc = "idle"
      BY <1>8 DEF Crash, Idle
    <2> QED
      BY <1>8, <2>1 DEF Crash, GrantedWhenPaid, RowLocks
  <1> QED
    BY <1>1, <1>2, <1>3, <1>4, <1>5, <1>6, <1>7, <1>8 DEF Next, Step

\* Every order, however many handlers, instances and faults: delivered at most
\* once where something serialises its handlers, its status and the wallet in
\* agreement, and the referral record marked exactly when its reward was paid.
THEOREM Inductive == Spec => []PaymentInv
  <1>1. Init => PaymentInv
    <2>1. Init => GrantedWhenPaid
      <3>1. Init => \A c \in Calls : call[c].pc = "idle"
        BY DEF Init, Idle
      <3> QED
        BY <3>1 DEF Init, GrantedWhenPaid
    <2> QED
      BY <2>1, InitInv DEF PaymentInv
  <1>2. PaymentInv /\ [Next]_vars => PaymentInv'
    BY NextOrdersInv, NextGranted DEF PaymentInv, OrdersInv
  <1> QED
    BY <1>1, <1>2, PTL DEF Spec

\* A user's referral earns one reward, whatever completes their orders and how
\* often, if the database serialises the transactions of GrantForConversion.
THEOREM OneReward == Spec => []RewardedOnce
  <1>1. PaymentInv => RewardedOnce
    BY DEF PaymentInv, GrantedWhenPaid, RewardedOnce
  <1> QED
    BY <1>1, Inductive, PTL

\* A payment is credited at most once with one process, and on a database that
\* serialises it for every provider whose handlers use one transaction.
THEOREM DeliveredOnce == Spec => []SerialisedCreditedOnce
  <1>1. PaymentInv => SerialisedCreditedOnce
    BY DEF PaymentInv, OrdersInv
  <1> QED
    BY <1>1, Inductive, PTL

-----------------------------------------------------------------------------
(* What a delivery is worth. *)

\* A number of quota units that is worth what an order bought, up to one unit.
Fair(q, g) ==
  /\ q * MoneyScale < Worth(g) + MoneyScale
  /\ Worth(g) < q * MoneyScale + MoneyScale

\* Each of the two neighbours that rounding may give is.
LEMMA StripeFair ==
  Fair(IntPart(StripeWorth), "stripe") /\ Fair(IntPart(StripeWorth + MoneyScale - 1), "stripe")
  <1>1. Worth("stripe") = StripeWorth
    BY DEF Worth, SubGateways
  <1>2. Fair(IntPart(StripeWorth), "stripe")
    <2>1. PICK q \in Nat : q = IntPart(StripeWorth)
      BY WorthTypes, IntPartBounds
    <2>2. q * MoneyScale <= StripeWorth /\ StripeWorth < q * MoneyScale + MoneyScale
      BY <2>1, WorthTypes, IntPartBounds
    <2>3. q * MoneyScale \in Nat
      BY WorthTypes
    <2>4. q * MoneyScale < StripeWorth + MoneyScale
      BY <2>2, <2>3, WorthTypes
    <2> QED
      BY <1>1, <2>1, <2>2, <2>4 DEF Fair
  <1>3. Fair(IntPart(StripeWorth + MoneyScale - 1), "stripe")
    <2>1. PICK q \in Nat : q = IntPart(StripeWorth + MoneyScale - 1)
      BY WorthTypes, IntPartBounds
    <2>2. /\ q * MoneyScale <= StripeWorth + MoneyScale - 1
          /\ StripeWorth + MoneyScale - 1 < q * MoneyScale + MoneyScale
      BY <2>1, WorthTypes, IntPartBounds
    <2>3. q * MoneyScale \in Nat
      BY WorthTypes
    <2>4. q * MoneyScale < StripeWorth + MoneyScale /\ StripeWorth < q * MoneyScale + MoneyScale
      BY <2>2, <2>3, WorthTypes
    <2> QED
      BY <1>1, <2>1, <2>4 DEF Fair
  <1> QED
    BY <1>2, <1>3

\* The other conversions multiply whole numbers.
LEMMA WholeFair ==
  /\ Fair(Amount * QuotaPerUnit, "other")
  /\ \A g \in SubGateways : Fair(0, g)
  <1>1. PICK q \in Nat : q = Amount * QuotaPerUnit
    BY WorthTypes
  <1>2. q * MoneyScale \in Nat
    BY WorthTypes
  <1>3. Worth("other") = q * MoneyScale
    BY <1>1 DEF Worth, SubGateways
  <1>4. Fair(Amount * QuotaPerUnit, "other")
    BY <1>1, <1>2, <1>3, WorthTypes DEF Fair
  <1>5. \A g \in SubGateways : Worth(g) = 0
    BY DEF Worth, SubGateways
  <1>6. 0 * MoneyScale = 0
    BY WorthTypes
  <1>7. \A g \in SubGateways : Fair(0, g)
    BY <1>5, <1>6, WorthTypes DEF Fair
  <1> QED
    BY <1>4, <1>7

\* Whatever a handler credits is fair, Creem excepted.
LEMMA QuotasFair ==
  ASSUME NEW g \in AllGateways, g # "creem"
  PROVE  /\ \A q \in WebhookQuotas(g) : Fair(q, g)
         /\ g \notin SubGateways => Fair(ManualQuota(g), g)
  <1>1. CASE g = "stripe"
    BY <1>1, StripeFair DEF WebhookQuotas, ManualQuota, SubGateways
  <1>2. CASE g \in SubGateways
    <2>1. WebhookQuotas(g) = {0}
      BY <1>2 DEF WebhookQuotas, SubGateways
    <2> QED
      BY <1>2, <2>1, WholeFair
  <1>3. CASE g # "stripe" /\ g \notin SubGateways
    <2>1. WebhookQuotas(g) = {Amount * QuotaPerUnit} /\ ManualQuota(g) = Amount * QuotaPerUnit
      BY <1>3 DEF WebhookQuotas, ManualQuota
    <2>2. Worth(g) = Worth("other")
      BY <1>3 DEF Worth, SubGateways
    <2> QED
      BY <2>1, <2>2, WholeFair DEF Fair
  <1> QED
    BY <1>1, <1>2, <1>3

\* Every step preserves SameCredit.
LEMMA NextSameCredit ==
  ASSUME OrdersInv, SameCredit, [Next]_vars
  PROVE  SameCredit'
  <1>1. CASE UNCHANGED <<gateway, credited, times>>
    BY <1>1 DEF SameCredit
  <1>2. ASSUME NEW c \in Calls, Order(c) \in Orders, gateway' = gateway, NEW q \in Nat,
               Gateway(c) = "creem" \/ Fair(q, Gateway(c)),
               credited' = [credited EXCEPT ![Order(c)] = @ + q],
               times' = [times EXCEPT ![Order(c)] = @ + 1]
        PROVE  SameCredit'
    <2>1. \A o \in Orders : times[o] \in Nat /\ credited[o] \in Nat
      BY DEF OrdersInv, TypeOK
    <2>2. /\ times'[Order(c)] = times[Order(c)] + 1
          /\ credited'[Order(c)] = credited[Order(c)] + q
          /\ \A o \in Orders \ {Order(c)} : times'[o] = times[o] /\ credited'[o] = credited[o]
      BY <1>2 DEF OrdersInv, TypeOK
    <2>3. times[Order(c)] = 0 => credited[Order(c)] = 0
      BY <1>2 DEF OrdersInv, NothingYet
    <2>4. times'[Order(c)] = 1 => credited'[Order(c)] = q
      BY <1>2, <2>1, <2>2, <2>3
    <2>5. \A o \in Orders : times[o] = 1 /\ gateway[o] # "creem" => Fair(credited[o], gateway[o])
      BY DEF SameCredit, Fair
    <2>6. \A o \in Orders : times'[o] = 1 /\ gateway[o] # "creem" => Fair(credited'[o], gateway[o])
      BY <1>2, <2>2, <2>4, <2>5 DEF Gateway, Order
    <2>7. \A g : Worth(g)' = Worth(g)
      BY DEF Worth, StripeWorth
    <2> QED
      BY <1>2, <2>6, <2>7 DEF SameCredit, Fair
  <1>3. ASSUME NEW c \in Calls, NEW ok \in BOOLEAN, Complete(c, ok) PROVE SameCredit'
    <2>1. Order(c) \in Orders /\ Gateway(c) \in AllGateways /\ Quotas(c) \subseteq Nat
      BY OrderType, PaymentAssumption DEF OrdersInv, TypeOK, Gateway, Order
    <2>2. Job(c) = "admin" => Gateway(c) \notin SubGateways
      BY <1>3 DEF Complete, OrdersInv, WritersOnly, IsSub
    <2>3. Gateway(c) = "creem" \/ \A q \in Quotas(c) : Fair(q, Gateway(c))
      BY <2>1, <2>2, QuotasFair DEF Quotas
    <2> QED
      BY <1>1, <1>2, <1>3, <2>1, <2>3 DEF Complete
  <1>4. ASSUME NEW c \in Calls, NEW ok \in BOOLEAN, CreditEpay(c, ok) PROVE SameCredit'
    <2>1. Order(c) \in Orders /\ Quotas(c) = WebhookQuotas("epay") /\ Gateway(c) = "epay"
      BY <1>4, OrderType DEF CreditEpay, OrdersInv, WritersOnly, Quotas
    <2>2. "epay" \in AllGateways /\ Quotas(c) \subseteq Nat
      BY <2>1, QuotasAreNat DEF AllGateways
    <2>3. \A q \in Quotas(c) : Fair(q, Gateway(c))
      BY <2>1, <2>2, QuotasFair
    <2> QED
      BY <1>1, <1>2, <1>4, <2>1, <2>2, <2>3 DEF CreditEpay
  <1>5. ASSUME NEW c \in Calls, Step(c) PROVE SameCredit'
    BY <1>1, <1>3, <1>4, <1>5
    DEF Step, LockOrder, Read, ReadReferral, MarkDead, SaveEpay, Reward
  <1> QED
    BY <1>1, <1>5 DEF Next, vars, Receive, Crash

\* An order delivered once is worth what was bought, to within one unit of quota,
\* whether a provider's report or ManualCompleteTopUp completed it and however
\* each of them rounds, for every provider but Creem and every amount, price and
\* unit.
THEOREM AdminCreditsTheSame == Spec => []SameCredit
  <1>1. Init => SameCredit
    BY DEF Init, SameCredit
  <1>2. PaymentInv /\ SameCredit /\ [Next]_vars => SameCredit'
    BY NextSameCredit DEF PaymentInv
  <1> QED
    BY <1>1, <1>2, Inductive, PTL DEF Spec
=============================================================================
