------------------------------ MODULE OrderLock ------------------------------
(***************************************************************************)
(* LockOrder and UnlockOrder (controller/topup.go): one mutex per trade    *)
(* number, kept in a map (orderLocks) only while somebody uses it.  The    *)
(* map and the reference counts change under createLock; UnlockOrder looks *)
(* its entry up without that lock.  PaymentOrders takes the mutual         *)
(* exclusion shown here as its LockOrder step.                             *)
(*                                                                         *)
(* Operators whose name ends in Bug are plausible mistakes in the code     *)
(* they precede; they show that the properties would notice.               *)
(***************************************************************************)
EXTENDS Naturals, FiniteSets

CONSTANTS
    Handlers,   \* goroutines that handle webhooks and admin requests
    Trades,     \* trade numbers
    Boxes,      \* addresses a refCountedMutex may be allocated at
    NoCall,     \* createLock is free
    NoBox       \* no refCountedMutex

ASSUME OrderLockAssumption ==
    /\ IsFiniteSet(Handlers)
    /\ NoCall \notin Handlers
    /\ NoBox \notin Boxes

VARIABLES
    orderLocks, \* the map: the refCountedMutex of each trade number
    createLock, \* the goroutine that holds createLock
    refCount,   \* rcm.refCount of each refCountedMutex
    locked,     \* rcm.mu of each refCountedMutex is locked
    pc,         \* where each goroutine is
    trade,      \* the trade number it works on
    rcm         \* its local variable rcm

lockVars == <<orderLocks, createLock, refCount, locked, pc, trade, rcm>>

Places == {"idle", "enter", "lookup", "count", "mutex", "critical", "release",
           "leave", "uncount"}

LockInit ==
    /\ orderLocks = [t \in Trades |-> NoBox]
    /\ createLock = NoCall
    /\ refCount = [b \in Boxes |-> 0]
    /\ locked = [b \in Boxes |-> FALSE]
    /\ pc = [c \in Handlers |-> "idle"]
    /\ trade \in [Handlers -> Trades]
    /\ rcm = [c \in Handlers |-> NoBox]

MoveTo(c, place) == pc' = [pc EXCEPT ![c] = place]

-----------------------------------------------------------------------------
(* LockOrder.                                                              *)

\* A handler asks for the order.
Start(c, t) ==
    /\ pc[c] = "idle"
    /\ MoveTo(c, "enter")
    /\ trade' = [trade EXCEPT ![c] = t]
    /\ UNCHANGED <<orderLocks, createLock, refCount, locked, rcm>>

\* createLock.Lock().
EnterCreate(c) ==
    /\ pc[c] = "enter"
    /\ createLock = NoCall
    /\ createLock' = c
    /\ MoveTo(c, "lookup")
    /\ UNCHANGED <<orderLocks, refCount, locked, trade, rcm>>

\* Memory that neither the map nor a goroutine refers to.
Unused(b) == (\A t \in Trades : orderLocks[t] # b) /\ (\A c \in Handlers : rcm[c] # b)

\* Load the entry, or allocate and store a new one.
Lookup(c) ==
    /\ pc[c] = "lookup"
    /\ IF orderLocks[trade[c]] # NoBox
       THEN /\ rcm' = [rcm EXCEPT ![c] = orderLocks[trade[c]]]
            /\ UNCHANGED <<orderLocks, refCount, locked>>
       ELSE \E b \in Boxes :
              /\ Unused(b)
              /\ rcm' = [rcm EXCEPT ![c] = b]
              /\ orderLocks' = [orderLocks EXCEPT ![trade[c]] = b]
              /\ refCount' = [refCount EXCEPT ![b] = 0]
              /\ locked' = [locked EXCEPT ![b] = FALSE]
    /\ MoveTo(c, "count")
    /\ UNCHANGED <<createLock, trade>>

\* rcm.refCount++ and createLock.Unlock().
Count(c) ==
    /\ pc[c] = "count"
    /\ refCount' = [refCount EXCEPT ![rcm[c]] = @ + 1]
    /\ createLock' = NoCall
    /\ MoveTo(c, "mutex")
    /\ UNCHANGED <<orderLocks, locked, trade, rcm>>

\* The mutex is only tried, and the answer ignored.
AcquireBug(c) ==
    /\ pc[c] = "mutex"
    /\ locked' = [locked EXCEPT ![rcm[c]] = TRUE]
    /\ MoveTo(c, "critical")
    /\ UNCHANGED <<orderLocks, createLock, refCount, trade, rcm>>

\* rcm.mu.Lock(): LockOrder returns.
Acquire(c) ==
    /\ pc[c] = "mutex"
    /\ ~locked[rcm[c]]
    /\ locked' = [locked EXCEPT ![rcm[c]] = TRUE]
    /\ MoveTo(c, "critical")
    /\ UNCHANGED <<orderLocks, createLock, refCount, trade, rcm>>

-----------------------------------------------------------------------------
(* UnlockOrder.                                                            *)

\* orderLocks.Load, without createLock; a missing entry ends the call.
LoadEntry(c) ==
    /\ pc[c] = "critical"
    /\ rcm' = [rcm EXCEPT ![c] = orderLocks[trade[c]]]
    /\ MoveTo(c, IF orderLocks[trade[c]] = NoBox THEN "idle" ELSE "release")
    /\ UNCHANGED <<orderLocks, createLock, refCount, locked, trade>>

\* The mutex is left locked when nobody else seems to use it.
ReleaseBug(c) ==
    /\ pc[c] = "release"
    /\ locked' = [locked EXCEPT ![rcm[c]] = refCount[rcm[c]] = 1]
    /\ MoveTo(c, "leave")
    /\ UNCHANGED <<orderLocks, createLock, refCount, trade, rcm>>

\* rcm.mu.Unlock().
Release(c) ==
    /\ pc[c] = "release"
    /\ locked' = [locked EXCEPT ![rcm[c]] = FALSE]
    /\ MoveTo(c, "leave")
    /\ UNCHANGED <<orderLocks, createLock, refCount, trade, rcm>>

\* createLock.Lock().
EnterLeave(c) ==
    /\ pc[c] = "leave"
    /\ createLock = NoCall
    /\ createLock' = c
    /\ MoveTo(c, "uncount")
    /\ UNCHANGED <<orderLocks, refCount, locked, trade, rcm>>

\* Whoever leaves takes the entry away: no reference count.
UncountBug(c) ==
    /\ pc[c] = "uncount"
    /\ refCount' = [refCount EXCEPT ![rcm[c]] = @ - 1]
    /\ orderLocks' = [orderLocks EXCEPT ![trade[c]] = NoBox]
    /\ createLock' = NoCall
    /\ rcm' = [rcm EXCEPT ![c] = NoBox]
    /\ MoveTo(c, "idle")
    /\ UNCHANGED <<locked, trade>>

\* The count is tested before it is taken down.
UncountLeakBug(c) ==
    /\ pc[c] = "uncount"
    /\ refCount' = [refCount EXCEPT ![rcm[c]] = @ - 1]
    /\ orderLocks' = [orderLocks EXCEPT ![trade[c]] =
                        IF refCount[rcm[c]] = 0 THEN NoBox ELSE @]
    /\ createLock' = NoCall
    /\ rcm' = [rcm EXCEPT ![c] = NoBox]
    /\ MoveTo(c, "idle")
    /\ UNCHANGED <<locked, trade>>

\* rcm.refCount--, delete the entry at zero, createLock.Unlock().
Uncount(c) ==
    /\ pc[c] = "uncount"
    /\ refCount' = [refCount EXCEPT ![rcm[c]] = @ - 1]
    /\ orderLocks' = [orderLocks EXCEPT ![trade[c]] =
                        IF refCount[rcm[c]] = 1 THEN NoBox ELSE @]
    /\ createLock' = NoCall
    /\ rcm' = [rcm EXCEPT ![c] = NoBox]
    /\ MoveTo(c, "idle")
    /\ UNCHANGED <<locked, trade>>

-----------------------------------------------------------------------------

LockStep(c) ==
    \/ EnterCreate(c) \/ Lookup(c) \/ Count(c) \/ Acquire(c)
    \/ LoadEntry(c) \/ Release(c) \/ EnterLeave(c) \/ Uncount(c)

LockNext ==
    \/ \E c \in Handlers, t \in Trades : Start(c, t)
    \/ \E c \in Handlers : LockStep(c)

LockSpec == LockInit /\ [][LockNext]_lockVars

\* Handlers run on (they defer UnlockOrder), and sync.Mutex starves nobody: a
\* waiter of more than a millisecond is handed the mutex.
LockFairSpec ==
    /\ LockSpec
    /\ \A c \in Handlers : /\ WF_lockVars(LockStep(c))
                           /\ SF_lockVars(EnterCreate(c) \/ EnterLeave(c))
                           /\ SF_lockVars(Acquire(c))

-----------------------------------------------------------------------------
(* The inductive invariant.                                                *)

\* Types of the map, the mutexes and the goroutines.
LockTypeOK ==
    /\ orderLocks \in [Trades -> Boxes \cup {NoBox}]
    /\ createLock \in Handlers \cup {NoCall}
    /\ refCount \in [Boxes -> Nat]
    /\ locked \in [Boxes -> BOOLEAN]
    /\ pc \in [Handlers -> Places]
    /\ trade \in [Handlers -> Trades]
    /\ rcm \in [Handlers -> Boxes \cup {NoBox}]

\* createLock guards the two sections that change the map and the counts.
CreateGuards ==
    \A c \in Handlers : createLock = c <=> pc[c] \in {"lookup", "count", "uncount"}

\* A goroutine past Lookup refers to the entry of its trade number.
RefersToEntry ==
    \A c \in Handlers : IF pc[c] \in {"idle", "enter", "lookup"}
                        THEN rcm[c] = NoBox
                        ELSE rcm[c] # NoBox /\ orderLocks[trade[c]] = rcm[c]

\* Two trade numbers never share an entry.
EntriesDiffer ==
    \A t, u \in Trades : orderLocks[t] # NoBox /\ orderLocks[t] = orderLocks[u] => t = u

\* The goroutines that b's reference count stands for.
Users(b) == {c \in Handlers : rcm[c] = b /\ pc[c] # "count"}

\* The reference count of an entry in use is the number of its users.
CountsUsers ==
    \A b \in Boxes : (\E t \in Trades : orderLocks[t] = b)
                        => refCount[b] = Cardinality(Users(b))

\* No two goroutines hold one mutex, and a mutex that is held is locked.
Holding(c) == pc[c] \in {"critical", "release"}

HeldByOne ==
    /\ \A c, d \in Handlers : c # d /\ Holding(c) /\ Holding(d) => rcm[c] # rcm[d]
    /\ \A c \in Handlers : Holding(c) => locked[rcm[c]]

\* An entry is deleted with its last user; only createLock's holder may be
\* about to become its first.
EntryUsed ==
    \A t \in Trades : orderLocks[t] # NoBox => \E c \in Handlers : rcm[c] = orderLocks[t]

\* What makes the properties below inductive.
OrderLockInv ==
    /\ LockTypeOK
    /\ CreateGuards
    /\ RefersToEntry
    /\ EntriesDiffer
    /\ CountsUsers
    /\ HeldByOne
    /\ EntryUsed

-----------------------------------------------------------------------------
(* Properties.                                                             *)

\* LockOrder keeps two handlers of one process from working on one order, even
\* while entries of the map are deleted and made again.
MutualExclusion ==
    \A c, d \in Handlers :
        c # d /\ pc[c] = "critical" /\ pc[d] = "critical" => trade[c] # trade[d]

\* UnlockOrder unlocks the mutex its LockOrder locked: the entry it finds
\* without createLock is the one it holds, and it is locked (unlocking an
\* unlocked mutex would end the process).
UnlocksItsOwn ==
    \A c \in Handlers :
        /\ pc[c] = "critical" => orderLocks[trade[c]] = rcm[c] /\ locked[rcm[c]]
        /\ pc[c] = "release" => locked[rcm[c]]

\* The map does not grow with the orders ever handled: an entry has a user.
EntryHasUser ==
    \A t \in Trades :
        orderLocks[t] # NoBox => \E c \in Handlers : trade[c] = t /\ pc[c] # "idle"

\* Every handler that asks for an order gets it, whoever comes and goes.
EventuallyLocked == \A c \in Handlers : pc[c] = "enter" ~> pc[c] = "critical"
=============================================================================
