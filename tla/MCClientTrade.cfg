\* Listings, purchases and offers in tokens through the command line, from a set-up
\* program without data accounts: a seller without a pool at first, a buyer and a
\* later owner whose transactions may expire, be lost or be given up, and whose
\* processes may die half-way.
SPECIFICATION ClientReadySpec
CONSTANTS
    admin = admin
    Default = Default
    Vault = Vault
    ABB = ABB
    EscrowVault = EscrowVault
    u1 = u1
    u2 = u2
    u3 = u3
    t1 = t1
    nft = nft
    Admins = {admin}
    Treasuries = {t1}
    Users = {u1, u2, u3}
    NFTs = {nft}
    firstOwner = u1
    rival = u3
    Fees = {}
    Rates = {}
    PERMYRIAD = 4
    MAX_TEAM = 1
    MAX_U64 = 8
    MaxTime = 1
    InitialWallet <- MCWallet
    InitialHolder <- MCHolder
    OwnerSol = 0
    OwnerToken = 0
    FundsSol = 4
    FundsToken = 4
    ReadyFee = 2
    ReadyTreasury = t1
    ReadyRate = 2
    Amounts = {0, 2}
    Prices = {4}
    OfferPrices = {2}
    StartPrices = {}
    Increases = {1}
    BidPrices = {}
    InitialAccounts <- MCAccounts
    BLOCKHASH_LIFE = 0
    MaxFaults = 1
    Commands <- MCCommands
    OwnerCommands = {"init_user", "list", "delist", "accept_offer", "transfer"}
    OtherCommands = {"make_offer", "cancel_offer", "purchase"}
    RivalCommands = {"list"}
    AdminCommands = {}
    Negative = FALSE
    ByTokens = {1}
    ReadyPools = {u2, u3}
    ReadyNfts = {}
    ReadyHolders = {t1}
INVARIANTS
    ClientTypeOK
    AccountBeforeMain
    NeverShortOfAccounts
    VaultAccountInCustody
    TradersHavePools
PROPERTIES
    FairExchange
\* The clock is bounded and the processes may all be idle: the system may stop.
CHECK_DEADLOCK FALSE
