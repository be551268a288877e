\* One process without row locks, and two on a database that serialises.
SPECIFICATION FairSpec
CONSTANTS
    Orders = {o1}
    Gateways = {"epay", "stripe", "creem", "waffo", "waffo_pancake", "airwallex",
                "epay_sub", "stripe_sub", "creem_sub"}
    Instances = {i1, i2}
    Deployments = {"one_process", "serial_database"}
    Calls = {c1, c2, c3}
    Amount = 1
    Money = 7
    MoneyScale = 2
    QuotaPerUnit = 3
    PurchaseLimit = 1
    MaxFaults = 2
INVARIANTS
    PaymentInv
    SameCredit
    RewardedOnce
PROPERTIES
    PaidIsCredited
