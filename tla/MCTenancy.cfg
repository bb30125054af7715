SPECIFICATION TenancySpec
CONSTANTS
    w1 = w1
    w2 = w2
    tla1 = tla1
    u1 = u1
    u2 = u2
    k1 = k1
    pk = pk
    None = None
    Wallets <- MCWallets
    Tlas <- MCTlas
    Users <- MCUsers
    Admins <- MCAdmins
    FirstAdmin = u1
    Keys <- MCKeys
    TlaOf <- MCTlaOf
    NameLength <- MCNameLength
    FeeConfigs <- MCFeeConfigs
    Tokens = {ft1}
    MaxAmount = 1000000
    Year = 2
    Grace = 1
    Slots = {c1, c2}
    MaxLease = 4
    MinBalance = 1
    SweepDeposit = 1
    Sweeps = {}
    Prices = {}
    Payments = {1}
    Caps = {2}
    MaxMoney = 1
    MaxTime = 2
CHECK_DEADLOCK FALSE
SYMMETRY MCSymmetry
INVARIANTS
    LocksHeldInFlight
    EveryYoctoAccounted
    CountsAgree
    SignerPendingAgrees
    AnchorsAreCounted
