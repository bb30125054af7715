SPECIFICATION CustodySpec
CONSTANTS
    w1 = w1
    tla1 = tla1
    Wallets <- MCWallets
    Minters <- MCMinters
    Parent <- MCParent
    Keys = {k1, k2}
    Nonces = {n1}
    Admins = {a1}
    FirstAdmin = a1
    None = None
    AttestationKeys = {ak1}
    Timelocks = {1}
    MinTimelock = 1
    Watchers = {v1}
    Threshold = 1
    MaxRound = 2
    MaxTime = 2
    Transfers = {t1, t2}
PROPERTIES
    SelfFreezeEndsWithRotation
