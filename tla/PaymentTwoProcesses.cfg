SPECIFICATION Spec
CONSTANTS
    Orders = {o1}
    Gateways = {"epay", "stripe", "creem", "waffo", "waffo_pancake", "airwallex"}
    Instances = {i1, i2}
    Deployments = {"replicas"}
    Calls = {c1, c2}
    Amount = 1
    Money = 1
    MoneyScale = 1
    QuotaPerUnit = 2
    PurchaseLimit = 1
    MaxFaults = 0
INVARIANTS
    CreditedOnce
