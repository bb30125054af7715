SPECIFICATION AdminSpec
CONSTANTS
    w1 = w1
    tla1 = tla1
    u1 = u1
    u2 = u2
    pk = pk
    ft1 = ft1
    None = None
    Wallets <- MCWallets
    Tlas <- MCTlas
    Users <- MCUsers
    Admins <- MCAdmins
    FirstAdmin = u1
    Keys <- MCKeys
    TlaOf <- MCTlaOf
    NameLength <- MCNameLength
    FeeConfigs <- MCFeeConfigs
    Tokens = {ft1}
    MaxAmount = 1000000
    Year = 1
    Grace = 1
    Slots = {c1}
    MaxLease = 4
    MinBalance = 1
    SweepDeposit = 1
    Sweeps = {}
    Prices = {}
    Payments = {2}
    Caps = {2}
    MaxMoney = 2
    MaxTime = 2
INVARIANTS
    EveryClaimCovered
PROPERTIES
    LeasesNeverShrink
    PauseStopsNewWork
