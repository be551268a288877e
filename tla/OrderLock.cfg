\* Three handlers, two orders: a waiter, a leaver and a newcomer on one order.
SPECIFICATION LockFairSpec
CONSTANTS
    Handlers = {c1, c2, c3}
    Trades = {t1, t2}
    Boxes = {b1, b2, b3}
    NoCall = NoCall
    NoBox = NoBox
INVARIANTS MutualExclusion UnlocksItsOwn EntryHasUser
PROPERTY EventuallyLocked
