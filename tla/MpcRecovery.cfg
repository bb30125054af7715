SPECIFICATION RecoverySpec
CONSTANTS
    Wallets = {w1}
    Keys = {k1, k2}
    Admins = {a1}
    FirstAdmin = a1
    None = None
    AttestationKeys = {ak1, ak2}
    Timelocks = {0, 1, 2}
    MinTimelock = 1
    Watchers = {v1, v2, v3}
    Threshold = 2
    MaxRound = 3
    MaxTime = 3
INVARIANTS
    RecoveryTypeOK
    OneCallInFlight
    ApprovedAsRequested
PROPERTIES
    RoundSpentOnce
    WaitingEnds
