------------------------------ MODULE Network -------------------------------
(***************************************************************************)
(* Transactions between the clients that sign them and the program that    *)
(* runs them: any order, some lost, each gone when the block it is tied to *)
(* is too old.  A transaction runs all its instructions or none.           *)
(***************************************************************************)
EXTENDS Builders

CONSTANTS
    BLOCKHASH_LIFE,   \* how long a block can be referred to, in units of the clock
    MaxFaults         \* bound on lost transactions and impatient clients

ASSUME NetworkAssumption == BLOCKHASH_LIFE \in Nat /\ MaxFaults \in Nat

VARIABLES
    sent,     \* the transactions on their way
    faults    \* how many faults there were

CurrencyOf(by_token) == IF by_token THEN "token" ELSE "sol"

\* The remaining accounts are the treasuries in the order of the table: wallets when
\* the sale is in SOL, their associated token accounts when it is in tokens.
TeamGiven(tx, c) ==
    /\ tx.team.wallets = [i \in LiveSlots |-> team_treasury[i]]
    /\ tx.team.level = IF c = "token" THEN 1 ELSE 0

-----------------------------------------------------------------------------
(* The program's instructions with the accounts a transaction names.        *)

\* WRONG on purpose (mutant of RunPurchase): pays the seller whom the transaction
\* names and looks at the listing for the rest.
RunPurchaseAsNamed(tx, k) ==
    LET c == CurrencyOf(k.by_token)
        n == k.nft
    IN  /\ n \in sells /\ Listed(n)
        /\ {tx.by, tx.peer} \subseteq user_pools
        /\ holder[n] = Vault
        /\ TeamGiven(tx, c)
        /\ SaleFromWallet(tx.by, tx.peer, sell[n].price[c], c)
        /\ AddVolume({tx.by, tx.peer}, c, sell[n].price[c])
        /\ sell' = [sell EXCEPT ![n].active = 0]
        /\ holder' = [holder EXCEPT ![n] = tx.by]
        /\ UNCHANGED <<sells, user_pools, escrow, clock, globalVars>>

\* A buyer who is the seller and has no ABB account would create it twice.
RunPurchase(tx, k) ==
    /\ tx.peer = sell[k.nft].seller
    /\ TeamGiven(tx, CurrencyOf(k.by_token))
    /\ tx.by = tx.peer => <<tx.by, ABB>> \notin tx.creates
    /\ Purchase(tx.by, k.nft, CurrencyOf(k.by_token))

RunAcceptOffer(tx, k) ==
    /\ TeamGiven(tx, offer[k.nft][k.buyer].by_token)
    /\ AcceptOffer(tx.by, k.nft, k.buyer)

\* WRONG on purpose (mutant of RunPlaceBid): refunds the account that the
\* transaction names.
RunPlaceBidAsNamed(tx, k) ==
    LET a == auction[k.nft]
        c == a.by_token
        refund == IF HasBid(k.nft) THEN a.highest_bid ELSE 0
    IN  /\ k.nft \in auctions /\ Auctioned(k.nft)
        /\ a.end_date > clock
        /\ a.highest_bid + a.min_increase_amount <= k.price
        /\ tx.by \notin {a.last_bidder, a.creator}
        /\ k.price <= wallet[tx.by][c]
        /\ wallet' = [w \in Wallets |->
                        [wallet[w] EXCEPT ![c] =
                            @ + (IF w = tx.peer THEN refund ELSE 0)
                              - (IF w = tx.by THEN k.price ELSE 0)]]
        /\ vault' = [vault EXCEPT ![c] = @ - refund + k.price]
        /\ auction' = [auction EXCEPT ![k.nft].last_bidder = tx.by,
                                      ![k.nft].highest_bid = k.price]
        /\ UNCHANGED <<auctions, offerVars, sellVars, userVars, clock, holder, globalVars>>

\* Whom the bid displaces must be whom the transaction names; nobody is asked for
\* while there is no bid.
RunPlaceBid(tx, k) ==
    /\ HasBid(k.nft) => tx.peer = auction[k.nft].last_bidder
    /\ PlaceBid(tx.by, k.nft, k.price)

RunClaimAuction(tx, k) ==
    /\ tx.peer = auction[k.nft].creator
    /\ TeamGiven(tx, auction[k.nft].by_token)
    /\ ClaimAuction(tx.by, k.nft)

RunAdmin(tx, k) ==
    /\ \/ k.op = "initialize" /\ Initialize(tx.by)
       \/ k.op = "update_fee" /\ UpdateFee(tx.by, k.sol_fee, k.token_fee)
       \/ k.op = "add_treasury" /\ AddTeamTreasury(tx.by, k.address, k.rate)
       \/ k.op = "remove_treasury" /\ RemoveTeamTreasury(tx.by, k.address)
    /\ UNCHANGED AboveTeam

RunUser(tx, k) ==
    /\ \/ k.op = "init_user" /\ InitUserPool(tx.by)
       \/ k.op = "deposit" /\ Deposit(tx.by, k.amount)
       \/ k.op = "withdraw" /\ Withdraw(tx.by, k.amount)
    /\ UNCHANGED AboveEscrow

RunSale(tx, k) ==
    /\ \/ k.op = "init_sell_data" /\ InitSellData(k.nft)
       \/ k.op = "list" /\ List(tx.by, k.nft, k.prices)
       \/ k.op = "delist" /\ Delist(tx.by, k.nft)
       \/ k.op = "purchase" /\ RunPurchase(tx, k)
    /\ UNCHANGED AboveListing

RunOffer(tx, k) ==
    /\ \/ k.op = "init_offer_data" /\ InitOfferData(tx.by, k.nft)
       \/ k.op = "make_offer" /\ MakeOffer(tx.by, k.nft, k.price, CurrencyOf(k.by_token))
       \/ k.op = "cancel_offer" /\ CancelOffer(tx.by, k.nft)
       \/ k.op = "accept_offer" /\ RunAcceptOffer(tx, k)
    /\ UNCHANGED auctionVars

RunAuction(tx, k) ==
    \/ k.op = "init_auction_data" /\ InitAuctionData(k.nft)
    \/ /\ k.op = "create_auction"
       /\ CreateAuction(tx.by, k.nft, k.start_price, k.min_increase,
                        CurrencyOf(k.by_token), k.end_date)
    \/ k.op = "place_bid" /\ RunPlaceBid(tx, k)
    \/ k.op = "claim_auction" /\ RunClaimAuction(tx, k)
    \/ k.op = "cancel_auction" /\ CancelAuction(tx.by, k.nft)

\* The program's part of a transaction.
Run(tx) ==
    \/ RunAdmin(tx, tx.cmd)
    \/ RunUser(tx, tx.cmd)
    \/ RunSale(tx, tx.cmd)
    \/ RunOffer(tx, tx.cmd)
    \/ RunAuction(tx, tx.cmd)

-----------------------------------------------------------------------------
\* As time passes, a transaction whose block is too old is dropped.
DropsExpired == sent' = {tx \in sent : clock' <= tx.blockhash + BLOCKHASH_LIFE}

\* The instructions that end custody.
ExitOps == {"delist", "purchase", "accept_offer", "claim_auction", "cancel_auction"}

\* WRONG on purpose (mutant of Closes): what is sold leaves an empty account behind.
ClosesReturned(tx) ==
    IF tx.cmd.op \in {"delist", "cancel_auction"}
    THEN {getAssociatedTokenAccount(Vault, tx.cmd.nft)} ELSE {}

\* Their last step closes the account of the vault that the NFT was in.
Closes(tx) ==
    IF tx.cmd.op \in ExitOps THEN {getAssociatedTokenAccount(Vault, tx.cmd.nft)} ELSE {}

\* To create an account that exists is an error, to use one that does not is another.
Executes(tx) ==
    /\ tx.creates \cap accounts = {}
    /\ tx.uses \subseteq accounts \cup tx.creates
    /\ Run(tx)
    /\ accounts' = (accounts \cup tx.creates) \ Closes(tx)

\* The instructions that do nothing but create a data account.
CreatingOps == {"init_user", "init_sell_data", "init_offer_data", "init_auction_data"}

\* The data account is there already.
DataExists(tx) ==
    LET k == tx.cmd
    IN  \/ k.op = "init_user" /\ tx.by \in user_pools
        \/ k.op = "init_sell_data" /\ k.nft \in sells
        \/ k.op = "init_offer_data" /\ <<k.nft, tx.by>> \in offers
        \/ k.op = "init_auction_data" /\ k.nft \in auctions

\* Creating fails for that reason alone; whatever else fails cannot run.
Rejected(tx) ==
    IF tx.cmd.op \in CreatingOps THEN DataExists(tx) ELSE ~ ENABLED Executes(tx)

Fails(tx) ==
    /\ Rejected(tx)
    /\ UNCHANGED <<vars, accounts>>

\* The transaction gets into a block, to run or to fail there.
Arrives(tx) ==
    /\ tx \in sent
    /\ sent' = sent \ {tx}
    /\ Executes(tx) \/ Fails(tx)
    /\ UNCHANGED faults

\* It never gets into a block.
Vanishes(tx) ==
    /\ tx \in sent
    /\ faults < MaxFaults
    /\ faults' = faults + 1
    /\ sent' = sent \ {tx}
    /\ UNCHANGED <<vars, accounts>>
=============================================================================
