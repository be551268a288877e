SPECIFICATION FairSpec
CONSTANTS
    Tasks = {t1}
    Kinds = {"video", "suno", "realtime"}
    Masters = {m1, m2}
    Fetchers = {f1}
    Quota = 2
    Estimates = {1, 3}
    Actuals = {1, 3}
    MaxFetches = 1
    MaxFaults = 1
INVARIANTS
    TaskInv
    VideoBilledExactly
PROPERTIES
    EndedStays
    FailedRefunded
    TaskEnds
CHECK_DEADLOCK FALSE
