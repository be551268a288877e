SPECIFICATION FairSpec
CONSTANTS
    r1 = r1
    r2 = r2
    Requests <- OneRequest
    Kinds = {"relay", "playground", "task"}
    Prefs = {"subscription_only", "wallet_only", "wallet_first", "subscription_first"}
    Quotas = {0, 1, 2, 3}
    InitWallet = 4
    InitToken = 5
    TokenUnlimited = FALSE
    HasSub = TRUE
    SubTotal = 4
    TrustQuota = 3
    Fee = 1
    MaxAttempts = 3
    MaxFaults = 3
INVARIANT NeverOverRefunded
PROPERTY FailedMadeWhole
