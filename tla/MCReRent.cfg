SPECIFICATION ExpirySpec
CONSTANTS
    w1 = w1
    tla1 = tla1
    u1 = u1
    u2 = u2
    k1 = k1
    pk = pk
    ft1 = ft1
    ft2 = ft2
    None = None
    Wallets <- MCWallets
    Tlas <- MCTlas
    Users <- MCUsers
    Admins <- MCAdmins
    FirstAdmin = u1
    Keys <- MCKeys
    TlaOf <- MCTlaOf
    NameLength <- MCNameLength
    FeeConfigs <- MCFeeConfigs
    Tokens <- MCTokens
    MaxAmount = 1000000
    Year = 1
    Grace = 1
    Slots = {c1, c2}
    MaxLease = 4
    MinBalance = 1
    SweepDeposit = 1
    Sweeps = {s1}
    Prices = {2}
    Payments = {2}
    Caps = {}
    MaxMoney = 4
    MaxTime = 4
CHECK_DEADLOCK FALSE
INVARIANTS
    ReRentIsForTheTenant
