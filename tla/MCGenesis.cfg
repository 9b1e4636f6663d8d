\* Everything from the genesis: the setup in any order, interleaved with listings,
\* offers and auctions of the same NFT.
SPECIFICATION Spec
CONSTANTS
    admin = admin
    Default = Default
    Vault = Vault
    u1 = u1
    u2 = u2
    t1 = t1
    nft = nft
    Admins = {admin}
    Treasuries = {t1}
    Users = {u1, u2}
    NFTs = {nft}
    firstOwner = u1
    Fees = {2}
    Rates = {2}
    PERMYRIAD = 4
    MAX_TEAM = 1
    MAX_U64 = 8
    MaxTime = 1
    InitialWallet <- MCWallet
    InitialHolder <- MCHolder
    OwnerSol = 0
    OwnerToken = 0
    FundsSol = 4
    FundsToken = 0
    ReadyFee = 2
    ReadyTreasury = t1
    ReadyRate = 2
    Amounts = {0}
    Prices = {4}
    OfferPrices = {2}
    StartPrices = {1}
    Increases = {1}
    BidPrices = {4}
INVARIANTS
    Custody
    Solvency
PROPERTIES
    FairExchange
    TeamIsPaid
    TermsStand
