SPECIFICATION FairSpec
CONSTANTS
    Base = base
    Upgrades = {vip, svip}
    None = none
    Durations = {1, 2}
    MaxSubs = 3
    MaxTime = 3
INVARIANTS
    GroupInv
PROPERTIES
    GroupEventuallyReturned
