\* The setup and the escrow through the command line: the administrator and one
\* user, numbers of either sign, one transaction lost or given up early.
SPECIFICATION ClientSpec
CONSTANTS
    admin = admin
    Default = Default
    Vault = Vault
    ABB = ABB
    EscrowVault = EscrowVault
    u1 = u1
    u2 = u2
    u3 = u3
    t1 = t1
    nft = nft
    Admins = {admin}
    Treasuries = {t1}
    Users = {u1}
    NFTs = {nft}
    firstOwner = u1
    rival = u3
    Fees = {2}
    Rates = {2}
    PERMYRIAD = 4
    MAX_TEAM = 1
    MAX_U64 = 8
    MaxTime = 1
    InitialWallet <- MCWallet
    InitialHolder <- MCHolder
    OwnerSol = 2
    OwnerToken = 0
    FundsSol = 0
    FundsToken = 0
    ReadyFee = 2
    ReadyTreasury = t1
    ReadyRate = 2
    Amounts = {0, 2}
    Prices = {}
    OfferPrices = {}
    StartPrices = {}
    Increases = {1}
    BidPrices = {}
    InitialAccounts <- MCAccounts
    BLOCKHASH_LIFE = 1
    MaxFaults = 1
    Commands <- MCCommands
    OwnerCommands = {"init_user", "deposit", "withdraw"}
    OtherCommands = {}
    RivalCommands = {}
    AdminCommands = {"init", "update_fee", "add_treasury", "remove_treasury"}
    Negative = TRUE
    ByTokens = {}
    ReadyPools = {}
    ReadyNfts = {}
    ReadyHolders = {t1}
INVARIANTS
    TeamHasAccounts
\* The clock is bounded and the processes may all be idle: the system may stop.
CHECK_DEADLOCK FALSE
