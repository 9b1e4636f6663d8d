\* A bid so high that the fee of the sale overflows.
SPECIFICATION FairReadySpec
CONSTANTS
    admin = admin
    Default = Default
    Vault = Vault
    ABB = ABB
    EscrowVault = EscrowVault
    u1 = u1
    u2 = u2
    u3 = u3
    t1 = t1
    nft = nft
    Admins = {admin}
    Treasuries = {t1}
    Users = {u1, u2}
    NFTs = {nft}
    firstOwner = u1
    rival = u3
    Fees = {}
    Rates = {}
    PERMYRIAD = 4
    MAX_TEAM = 1
    MAX_U64 = 8
    MaxTime = 1
    InitialWallet <- MCWallet
    InitialHolder <- MCHolder
    OwnerSol = 0
    OwnerToken = 0
    FundsSol = 5
    FundsToken = 0
    ReadyFee = 2
    ReadyTreasury = t1
    ReadyRate = 2
    Amounts = {}
    Prices = {}
    OfferPrices = {}
    StartPrices = {0}
    Increases = {1}
    BidPrices = {2, 5}
    InitialAccounts <- MCAccounts
    BLOCKHASH_LIFE = 0
    MaxFaults = 0
    Commands <- MCCommands
    OwnerCommands = {"create_auction", "cancel_auction"}
    OtherCommands = {"place_bid", "claim_auction"}
    RivalCommands = {"place_bid"}
    AdminCommands = {}
    Negative = FALSE
    ByTokens = {0}
    ReadyPools = {u1, u2}
    ReadyNfts = {nft}
    ReadyHolders = {t1}
PROPERTIES
    WinnersCollect
\* The clock is bounded and the processes may all be idle: the system may stop.
CHECK_DEADLOCK FALSE
