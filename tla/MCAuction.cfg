\* Auctions of one NFT among three users: a creator and two rivals who outbid each
\* other, in both currencies, with money in escrow in the same vault.
SPECIFICATION ReadySpec
CONSTANTS
    admin = admin
    Default = Default
    Vault = Vault
    u1 = u1
    u2 = u2
    u3 = u3
    t1 = t1
    nft = nft
    Admins = {admin}
    Treasuries = {t1}
    Users = {u1, u2, u3}
    NFTs = {nft}
    firstOwner = u1
    Fees = {}
    Rates = {}
    PERMYRIAD = 4
    MAX_TEAM = 2
    MAX_U64 = 8
    MaxTime = 2
    InitialWallet <- MCWallet
    InitialHolder <- MCHolder
    OwnerSol = 0
    OwnerToken = 0
    FundsSol = 4
    FundsToken = 2
    ReadyFee = 2
    ReadyTreasury = t1
    ReadyRate = 2
    Amounts = {0, 2}
    Prices = {}
    OfferPrices = {}
    StartPrices = {0, 2}
    Increases = {1}
    BidPrices = {1, 2, 4}
INVARIANTS
    Solvency
PROPERTIES
    NoLossWithoutNft
    FairExchange
    TeamIsPaid
    ImplementsExchange
    AuctionHonoured
CHECK_DEADLOCK FALSE
