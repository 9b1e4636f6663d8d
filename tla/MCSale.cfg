\* Listings, purchases, offers and the escrow between two users, in both
\* currencies.
SPECIFICATION ReadySpec
CONSTANTS
    admin = admin
    Default = Default
    Vault = Vault
    u1 = u1
    u2 = u2
    t1 = t1
    nft = nft
    Admins = {admin}
    Treasuries = {t1}
    Users = {u1, u2}
    NFTs = {nft}
    firstOwner = u1
    Fees = {}
    Rates = {}
    PERMYRIAD = 4
    MAX_TEAM = 2
    MAX_U64 = 12
    MaxTime = 1
    InitialWallet <- MCWallet
    InitialHolder <- MCHolder
    OwnerSol = 2
    OwnerToken = 0
    FundsSol = 3
    FundsToken = 3
    ReadyFee = 3
    ReadyTreasury = t1
    ReadyRate = 2
    Amounts = {0, 3}
    Prices = {4}
    OfferPrices = {3}
    StartPrices = {}
    Increases = {}
    BidPrices = {}
INVARIANTS
    TypeOK
    Custody
    Solvency
PROPERTIES
    NoLossWithoutNft
    EscrowServesOwner
    FairExchange
    TeamIsPaid
    ImplementsExchange
