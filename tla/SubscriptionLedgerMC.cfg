SPECIFICATION Spec
CONSTANTS
    r1 = r1
    r2 = r2
    r3 = r3
    Requests <- Two
    Subs <- TwoSubs
    Amounts = {1, 3}
    Total = 4
    Ends <- EndsTwo
    ResetEvery = 1
    RowLocks = TRUE
    MaxTime = 3
SYMMETRY Symmetry
INVARIANTS
    LedgerInv
    UsedAccounted
    HoldsWithinTotal
PROPERTIES
    EndedStaysEnded
