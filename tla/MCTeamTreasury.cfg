\* Three wallets, at most three places in use, rates that can fill the whole.
SPECIFICATION TeamSpec
CONSTANTS
    admin = admin
    other = other
    Default = Default
    t1 = t1
    t2 = t2
    t3 = t3
    Admins = {admin, other}
    Treasuries = {Default, t1, t2, t3}
    Fees = {0, 1, 3, 4}
    Rates = {0, 1, 2, 4, 5}
    PERMYRIAD = 4
    MAX_TEAM = 3
    MAX_U64 = 20
SYMMETRY Symmetry
INVARIANTS
    TeamTypeOK
    TeamWellFormed
    SharesWithinFee
PROPERTIES
    RemoveMatchesLoop
    RemoveWalletKeepsOthers
