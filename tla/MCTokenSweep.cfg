SPECIFICATION MCSpec
CONSTANTS
    w1 = w1
    tla1 = tla1
    Wallets <- MCWallets
    Minters <- MCMinters
    Parent <- MCParent
    Keys = {k1, k2}
    Nonces = {n1}
    Admins = {a1, a2}
    FirstAdmin = a1
    None = None
    Transfers = {}
    Sweeps = {s1, s2}
    StorageDeposit = 1
    OwnBalance = 0
INVARIANTS
    SignerTypeOK
    HonouredOnce
    DepositsCovered
PROPERTIES
    HaltIsOneWay
    RekeyedByAuthority
    ImplementsSweepDeposits
    SweepsEnd
