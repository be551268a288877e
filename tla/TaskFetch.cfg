SPECIFICATION Spec
CONSTANTS
    Tasks = {t1}
    Kinds = {"realtime"}
    Masters = {m1}
    Fetchers = {f1}
    Quota = 2
    Estimates = {2}
    Actuals = {0, 1, 3}
    MaxFetches = 1
    MaxFaults = 0
INVARIANTS
    NeverOverRefunded
CHECK_DEADLOCK FALSE
