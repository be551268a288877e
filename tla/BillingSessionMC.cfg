SPECIFICATION Spec
CONSTANTS
    r1 = r1
    r2 = r2
    Requests <- TwoRequests
    Kinds = {"relay", "playground"}
    Prefs = {"wallet_first", "subscription_first"}
    Quotas = {0, 2, 3}
    InitWallet = 4
    InitToken = 5
    TokenUnlimited = FALSE
    HasSub = TRUE
    SubTotal = 4
    TrustQuota = 3
    Fee = 1
    MaxAttempts = 3
    MaxFaults = 0
SYMMETRY Symmetry
INVARIANTS
    SettledExactly
    RefundedWhole
    RejectedFree
    UnsettledKeepsHold
    SubUsedAccounted
PROPERTY ImplementsContract
