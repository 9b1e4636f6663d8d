\* An accepted offer whose fee is not shared out in full.
SPECIFICATION ReadySpec
CONSTANTS
    admin = admin
    Default = Default
    Vault = Vault
    u1 = u1
    u2 = u2
    t1 = t1
    nft = nft
    Admins = {admin}
    Treasuries = {t1}
    Users = {u1, u2}
    NFTs = {nft}
    firstOwner = u1
    Fees = {}
    Rates = {}
    PERMYRIAD = 4
    MAX_TEAM = 2
    MAX_U64 = 8
    MaxTime = 1
    InitialWallet <- MCWallet
    InitialHolder <- MCHolder
    OwnerSol = 2
    OwnerToken = 0
    FundsSol = 3
    FundsToken = 2
    ReadyFee = 2
    ReadyTreasury = t1
    ReadyRate = 2
    Amounts = {0, 2}
    Prices = {4}
    OfferPrices = {2}
    StartPrices = {}
    Increases = {}
    BidPrices = {}
INVARIANT VaultExact
