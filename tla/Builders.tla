------------------------------ MODULE Builders ------------------------------
(***************************************************************************)
(* The client library's transaction builders.  A builder reads accounts    *)
(* of the chain and returns one transaction: instructions that create      *)
(* missing token accounts, then one instruction of the program.  It        *)
(* returns a set, empty when the code throws.  What it read may no longer  *)
(* hold when the transaction runs.                                         *)
(*                                                                         *)
(* A wallet's ABB tokens lie in its associated token account, so a wallet  *)
(* without that account has no other (getTokenAccount finds nothing).  An  *)
(* NFT's holder may keep it in another account as long as the associated   *)
(* one does not exist.                                                     *)
(***************************************************************************)
EXTENDS Queries

CONSTANTS
    ABB,              \* the mint of the ABB token
    EscrowVault,      \* the address of the escrow vault
    InitialAccounts   \* the token accounts that exist before the program

Mints == NFTs \cup {ABB}

TokenAccounts == (Wallets \cup {Vault, EscrowVault, Default}) \X Mints

ASSUME BuildersAssumption ==
    /\ ABB \notin NFTs
    /\ EscrowVault \notin Wallets \cup {Vault, Default}
    /\ InitialAccounts \subseteq TokenAccounts
    /\ \A n \in NFTs : <<Vault, n>> \notin InitialAccounts

VARIABLE accounts   \* the associated token accounts that exist

getAssociatedTokenAccount(owner, mint) == <<owner, mint>>

isExistAccount(account) == account \in accounts

\* The account that a builder creates for the owner, if it is missing.
getATokenAccountsNeedCreate(owner, mint) ==
    {getAssociatedTokenAccount(owner, mint)} \ accounts

\* The ABB account of a wallet; none, and the code throws.
getTokenAccount(u) == {getAssociatedTokenAccount(u, ABB)} \cap accounts

\* The owner of the account that the NFT is in.
getOwnerOfNFT(n) == holder[n]

-----------------------------------------------------------------------------
\* A transaction: who signs it, the instruction with its arguments, the other
\* party's address, the remaining accounts of the treasuries, the token accounts that
\* it creates and those that its instruction requires, and the block it is tied to.
Tx(by, cmd, peer, team, creates, uses) ==
    [by |-> by, cmd |-> cmd, peer |-> peer, team |-> team,
     creates |-> creates, uses |-> uses, blockhash |-> clock]

\* The array of treasury addresses, and how often each was replaced by the
\* associated token account of what was there before.
TeamAddresses(wallets) == [wallets |-> wallets, level |-> 0]

NoTeam == TeamAddresses([i \in {} |-> Default])

\* treasuryAccounts: the array is not copied, what the caller holds changes too.
TreasuryAccounts(team, by_token) ==
    IF by_token THEN [team EXCEPT !.level = @ + 1] ELSE team

\* The token accounts among the remaining accounts of a sale in tokens.
TeamUses(team, by_token) ==
    IF by_token THEN {<<team.wallets[i], ABB>> : i \in DOMAIN team.wallets} ELSE {}

\* A payer without an ABB account can pay in SOL only.
MayPay(u, by_token) == by_token => getTokenAccount(u) # {}

\* An argument of the instruction: encoded as an unsigned number, it loses its sign.
u64(x) == IF x < 0 THEN -x ELSE x

\* A transaction that creates and uses no token accounts.
Plain(u, cmd) == {Tx(u, cmd, Default, NoTeam, {}, {})}

-----------------------------------------------------------------------------
(* The administrator and the user pools.                                    *)

createInitializeTx(u) == Plain(u, [op |-> "initialize"])

createUpdateFeeTx(u, sol_fee, token_fee) ==
    Plain(u, [op |-> "update_fee", sol_fee |-> u64(sol_fee), token_fee |-> u64(token_fee)])

\* WRONG on purpose (mutant of createAddTreasuryTx): no token account for the
\* treasury.
createAddTreasuryTxOnly(u, address, rate) ==
    Plain(u, [op |-> "add_treasury", address |-> address, rate |-> u64(rate)])

createAddTreasuryTx(u, address, rate) ==
    {Tx(u, [op |-> "add_treasury", address |-> address, rate |-> u64(rate)], Default, NoTeam,
        getATokenAccountsNeedCreate(address, ABB), {})}

createRemoveTreasuryTx(u, address) ==
    Plain(u, [op |-> "remove_treasury", address |-> address])

createInitUserTx(u) == Plain(u, [op |-> "init_user"])

createDepositTx(u, amount) ==
    Optional(MayPay(u, amount["token"] # 0),
        Tx(u, [op |-> "deposit", amount |-> [c \in Currency |-> u64(amount[c])]],
           Default, NoTeam,
           getATokenAccountsNeedCreate(u, ABB)
            \cup getATokenAccountsNeedCreate(EscrowVault, ABB),
        {<<u, ABB>>, <<EscrowVault, ABB>>}))

createWithdrawTx(u, amount) ==
    {Tx(u, [op |-> "withdraw", amount |-> [c \in Currency |-> u64(amount[c])]],
        Default, NoTeam,
        getATokenAccountsNeedCreate(u, ABB),
        {<<u, ABB>>, getAssociatedTokenAccount(EscrowVault, ABB)})}

-----------------------------------------------------------------------------
(* Fixed-price sales.                                                       *)

createInitSellDataTx(n, u) == Plain(u, [op |-> "init_sell_data", nft |-> n])

\* Who may bring an NFT: the owner, from whatever account; or anybody, in vain, with
\* an empty account or while the program holds the NFT.
MayBring(u, n) ==
    \/ isExistAccount(getAssociatedTokenAccount(u, n))
    \/ getOwnerOfNFT(n) \in {u, Vault}

\* The owner's account of the NFT, when it is the associated one.
Source(u, n) ==
    IF ~ isExistAccount(<<u, n>>) /\ getOwnerOfNFT(n) = u THEN {} ELSE {<<u, n>>}

createListForSellNftTx(n, u, prices) ==
    Optional((\A c \in Currency : prices[c] >= 0) /\ MayBring(u, n),
        Tx(u, [op |-> "list", nft |-> n, prices |-> [c \in Currency |-> u64(prices[c])]],
           Default, NoTeam,
           getATokenAccountsNeedCreate(Vault, n), Source(u, n) \cup {<<Vault, n>>}))

createDelistNftTx(n, u) ==
    {Tx(u, [op |-> "delist", nft |-> n], Default, NoTeam,
        getATokenAccountsNeedCreate(u, n), {<<u, n>>, <<Vault, n>>})}

\* WRONG on purpose (mutant of createPurchaseTx): the seller is taken to have an ABB
\* account.
createPurchaseTxBuyerOnly(n, u, by_token, team) ==
    {Tx(u, [op |-> "purchase", nft |-> n, by_token |-> by_token],
        info.seller, TreasuryAccounts(team, by_token),
        getATokenAccountsNeedCreate(u, ABB) \cup getATokenAccountsNeedCreate(u, n),
        {<<u, n>>, <<Vault, n>>, <<u, ABB>>, <<info.seller, ABB>>}
            \cup TeamUses(team, by_token))
     : info \in {i \in getNFTPoolState(n) : MayPay(u, by_token)}}

createPurchaseTx(n, u, by_token, team) ==
    {Tx(u, [op |-> "purchase", nft |-> n, by_token |-> by_token],
        info.seller, TreasuryAccounts(team, by_token),
        getATokenAccountsNeedCreate(u, ABB) \cup getATokenAccountsNeedCreate(u, n)
            \cup getATokenAccountsNeedCreate(info.seller, ABB),
        {<<u, n>>, <<Vault, n>>, <<u, ABB>>, <<info.seller, ABB>>}
            \cup TeamUses(team, by_token))
     : info \in {i \in getNFTPoolState(n) : MayPay(u, by_token)}}

-----------------------------------------------------------------------------
(* Offers.                                                                  *)

createInitOfferDataTx(n, u) == Plain(u, [op |-> "init_offer_data", nft |-> n])

createMakeOfferTx(n, u, price, by_token) ==
    Optional(MayPay(u, by_token),
        Tx(u, [op |-> "make_offer", nft |-> n, price |-> u64(price), by_token |-> by_token],
        Default, NoTeam,
        getATokenAccountsNeedCreate(u, ABB)
            \cup getATokenAccountsNeedCreate(EscrowVault, ABB),
        {<<u, ABB>>, <<EscrowVault, ABB>>}))

createCancelOfferTx(n, u) == Plain(u, [op |-> "cancel_offer", nft |-> n])

\* The seller of the listing signs, whoever calls the builder.
createAcceptOfferTx(n, buyer, team) ==
    {Tx(info.seller, [op |-> "accept_offer", nft |-> n, buyer |-> buyer],
        buyer, TreasuryAccounts(team, o.by_token = "token"),
        getATokenAccountsNeedCreate(buyer, n)
            \cup getATokenAccountsNeedCreate(info.seller, ABB),
        {<<buyer, n>>, <<Vault, n>>, <<info.seller, ABB>>, <<EscrowVault, ABB>>}
            \cup TeamUses(team, o.by_token = "token"))
     : info \in getNFTPoolState(n), o \in getOfferDataState(n, buyer)}

-----------------------------------------------------------------------------
(* Auctions.                                                                *)

createInitAuctionDataTx(n, u) == Plain(u, [op |-> "init_auction_data", nft |-> n])

createCreateAuctionTx(n, u, start_price, min_increase, by_token, end_date) ==
    Optional(start_price >= 0 /\ min_increase >= 0 /\ end_date >= 0 /\ MayBring(u, n),
        Tx(u, [op |-> "create_auction", nft |-> n, start_price |-> u64(start_price),
            min_increase |-> u64(min_increase), by_token |-> by_token, end_date |-> end_date],
        Default, NoTeam,
        getATokenAccountsNeedCreate(Vault, n), Source(u, n) \cup {<<Vault, n>>}))

\* Without a bid to refund the bidder stands in for the one who is outbid.
OutBidder(u, info) == IF info.last_bidder # Default THEN info.last_bidder ELSE u

createPlaceBidTx(n, u, price) ==
    {Tx(u, [op |-> "place_bid", nft |-> n, price |-> u64(price)],
        OutBidder(u, info), NoTeam,
        getATokenAccountsNeedCreate(u, ABB)
            \cup getATokenAccountsNeedCreate(EscrowVault, ABB)
            \cup getATokenAccountsNeedCreate(OutBidder(u, info), ABB),
        {<<u, ABB>>, <<EscrowVault, ABB>>, <<OutBidder(u, info), ABB>>})
     : info \in {i \in getAuctionDataState(n) : MayPay(u, i.by_token = "token")}}

\* WRONG on purpose (mutant of createClaimAuctionTx): no account for the NFT.
createClaimAuctionTxOnly(n, u, team) ==
    {Tx(u, [op |-> "claim_auction", nft |-> n],
        info.creator, TreasuryAccounts(team, info.by_token = "token"),
        getATokenAccountsNeedCreate(info.creator, ABB),
        {<<u, n>>, <<Vault, n>>, <<EscrowVault, ABB>>, <<info.creator, ABB>>}
            \cup TeamUses(team, info.by_token = "token"))
     : info \in getAuctionDataState(n)}

createClaimAuctionTx(n, u, team) ==
    {Tx(u, [op |-> "claim_auction", nft |-> n],
        info.creator, TreasuryAccounts(team, info.by_token = "token"),
        getATokenAccountsNeedCreate(u, n) \cup getATokenAccountsNeedCreate(info.creator, ABB),
        {<<u, n>>, <<Vault, n>>, <<EscrowVault, ABB>>, <<info.creator, ABB>>}
            \cup TeamUses(team, info.by_token = "token"))
     : info \in getAuctionDataState(n)}

createCancelAuctionTx(n, u) ==
    {Tx(u, [op |-> "cancel_auction", nft |-> n], Default, NoTeam,
        getATokenAccountsNeedCreate(u, n), {<<u, n>>, <<Vault, n>>})}
=============================================================================
