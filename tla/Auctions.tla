------------------------------ MODULE Auctions ------------------------------
(***************************************************************************)
(* English auctions: the AuctionData accounts, one per mint.  The highest  *)
(* bid lies in the escrow vault, outside of every user pool.               *)
(***************************************************************************)
EXTENDS Offers

CONSTANTS
    StartPrices,   \* start prices that auctions are created with
    Increases,     \* minimum increases that auctions are created with
    BidPrices      \* prices that are bid

ASSUME AuctionsAssumption ==
    /\ StartPrices \subseteq 0..MAX_U64
    /\ Increases \subseteq 0..MAX_U64
    /\ BidPrices \subseteq 0..MAX_U64

VARIABLES
    auctions,  \* the NFTs whose AuctionData account exists
    auction    \* auction[n]: the AuctionData account of NFT n

auctionVars == <<auctions, auction>>

\* status: 0 before the first auction and after a cancelled one, 1 while an auction
\* runs or waits for its claim, 2 after the claim.
AuctionData == [creator             : Users \cup {Default},
                start_price         : 0..MAX_U64,
                min_increase_amount : 0..MAX_U64,
                by_token            : Currency,
                end_date            : 0..MaxTime,
                last_bidder         : Users \cup {Default},
                highest_bid         : 0..MAX_U64,
                status              : {0, 1, 2}]

NoAuction == [creator             |-> Default,
              start_price         |-> 0,
              min_increase_amount |-> 0,
              by_token            |-> "sol",
              end_date            |-> 0,
              last_bidder         |-> Default,
              highest_bid         |-> 0,
              status              |-> 0]

AuctionsTypeOK ==
    /\ auctions \subseteq NFTs
    /\ auction \in [NFTs -> AuctionData]

AuctionsInit ==
    /\ auctions = {}
    /\ auction = [n \in NFTs |-> NoAuction]

Auctioned(n) == auction[n].status = 1

HasBid(n) == auction[n].last_bidder # Default

-----------------------------------------------------------------------------
\* init_auction_data
InitAuctionData(n) ==
    /\ n \notin auctions
    /\ auctions' = auctions \cup {n}
    /\ UNCHANGED <<auction, offerVars, sellVars, userVars, ledgerVars, globalVars>>

\* WRONG on purpose (mutant of CreateAuction): takes an NFT that is in custody already.
CreateAuctionInCustody(owner, n, start_price, min_increase, c, end_date) ==
    /\ min_increase > 0
    /\ end_date > clock
    /\ Initialized
    /\ n \in auctions
    /\ holder[n] \in {owner, Vault}
    /\ auction' = [auction EXCEPT ![n] =
                     [creator             |-> owner,
                      start_price         |-> start_price,
                      min_increase_amount |-> min_increase,
                      by_token            |-> c,
                      end_date            |-> end_date,
                      last_bidder         |-> Default,
                      highest_bid         |-> start_price,
                      status              |-> 1]]
    /\ holder' = [holder EXCEPT ![n] = Vault]
    /\ UNCHANGED <<auctions, offerVars, sellVars, userVars, clock, wallet, vault, globalVars>>

\* create_auction
CreateAuction(owner, n, start_price, min_increase, c, end_date) ==
    /\ min_increase > 0
    /\ end_date > clock
    /\ Initialized
    /\ n \in auctions
    /\ holder[n] = owner
    /\ auction' = [auction EXCEPT ![n] =
                     [creator             |-> owner,
                      start_price         |-> start_price,
                      min_increase_amount |-> min_increase,
                      by_token            |-> c,
                      end_date            |-> end_date,
                      last_bidder         |-> Default,
                      highest_bid         |-> start_price,
                      status              |-> 1]]
    /\ holder' = [holder EXCEPT ![n] = Vault]
    /\ UNCHANGED <<auctions, offerVars, sellVars, userVars, clock, wallet, vault, globalVars>>

\* WRONG on purpose (mutant of PlaceBid): the beaten bid stays in the vault.
PlaceBidWithoutRefund(bidder, n, price) ==
    LET a == auction[n]
        c == a.by_token
        refund == 0
    IN  /\ n \in auctions
        /\ a.end_date > clock
        /\ Auctioned(n)
        /\ a.highest_bid + a.min_increase_amount <= MAX_U64
        /\ a.highest_bid + a.min_increase_amount <= price
        /\ bidder \notin {a.last_bidder, a.creator}
        /\ refund <= vault[c]
        /\ price <= wallet[bidder][c]
        /\ wallet' = [w \in Wallets |->
                        [wallet[w] EXCEPT ![c] =
                            @ + (IF w = a.last_bidder THEN refund ELSE 0)
                              - (IF w = bidder THEN price ELSE 0)]]
        /\ vault' = [vault EXCEPT ![c] = @ - refund + price]
        /\ auction' = [auction EXCEPT ![n].last_bidder = bidder,
                                      ![n].highest_bid = price]
        /\ UNCHANGED <<auctions, offerVars, sellVars, userVars, clock, holder, globalVars>>

\* WRONG on purpose (mutant of PlaceBid): the beaten bidder gets the
\* new price back.
PlaceBidRefundsNewPrice(bidder, n, price) ==
    LET a == auction[n]
        c == a.by_token
        refund == IF HasBid(n) THEN price ELSE 0
    IN  /\ n \in auctions
        /\ a.end_date > clock
        /\ Auctioned(n)
        /\ a.highest_bid + a.min_increase_amount <= MAX_U64
        /\ a.highest_bid + a.min_increase_amount <= price
        /\ bidder \notin {a.last_bidder, a.creator}
        /\ refund <= vault[c]
        /\ price <= wallet[bidder][c]
        /\ wallet' = [w \in Wallets |->
                        [wallet[w] EXCEPT ![c] =
                            @ + (IF w = a.last_bidder THEN refund ELSE 0)
                              - (IF w = bidder THEN price ELSE 0)]]
        /\ vault' = [vault EXCEPT ![c] = @ - refund + price]
        /\ auction' = [auction EXCEPT ![n].last_bidder = bidder,
                                      ![n].highest_bid = price]
        /\ UNCHANGED <<auctions, offerVars, sellVars, userVars, clock, holder, globalVars>>

\* place_bid: the vault returns the bid that is beaten, then takes the new one.
PlaceBid(bidder, n, price) ==
    LET a == auction[n]
        c == a.by_token
        refund == IF HasBid(n) THEN a.highest_bid ELSE 0
    IN  /\ n \in auctions
        /\ a.end_date > clock
        /\ Auctioned(n)
        /\ a.highest_bid + a.min_increase_amount <= MAX_U64
        /\ a.highest_bid + a.min_increase_amount <= price
        /\ bidder \notin {a.last_bidder, a.creator}
        /\ refund <= vault[c]
        /\ price <= wallet[bidder][c]
        /\ wallet' = [w \in Wallets |->
                        [wallet[w] EXCEPT ![c] =
                            @ + (IF w = a.last_bidder THEN refund ELSE 0)
                              - (IF w = bidder THEN price ELSE 0)]]
        /\ vault' = [vault EXCEPT ![c] = @ - refund + price]
        /\ auction' = [auction EXCEPT ![n].last_bidder = bidder,
                                      ![n].highest_bid = price]
        /\ UNCHANGED <<auctions, offerVars, sellVars, userVars, clock, holder, globalVars>>

\* WRONG on purpose (mutant of ClaimAuction): pays the start price.
ClaimAuctionAtStart(bidder, n) ==
    LET a == auction[n]
    IN  /\ n \in auctions
        /\ a.end_date <= clock
        /\ Auctioned(n)
        /\ bidder = a.last_bidder
        /\ {bidder, a.creator} \subseteq user_pools
        /\ AddVolume({bidder, a.creator}, "sol", a.highest_bid)
        /\ SaleFromVault(a.creator, a.start_price, a.by_token)
        /\ holder[n] = Vault
        /\ auction' = [auction EXCEPT ![n].status = 2]
        /\ holder' = [holder EXCEPT ![n] = bidder]
        /\ UNCHANGED <<auctions, offerVars, sellVars, user_pools, escrow, clock, globalVars>>

\* claim_auction: the winner takes the NFT and by that pays the creator.  The bid
\* is added to traded_volume, which counts SOL, in whatever currency it was made.
ClaimAuction(bidder, n) ==
    LET a == auction[n]
    IN  /\ n \in auctions
        /\ a.end_date <= clock
        /\ Auctioned(n)
        /\ bidder = a.last_bidder
        /\ {bidder, a.creator} \subseteq user_pools
        /\ AddVolume({bidder, a.creator}, "sol", a.highest_bid)
        /\ SaleFromVault(a.creator, a.highest_bid, a.by_token)
        /\ holder[n] = Vault
        /\ auction' = [auction EXCEPT ![n].status = 2]
        /\ holder' = [holder EXCEPT ![n] = bidder]
        /\ UNCHANGED <<auctions, offerVars, sellVars, user_pools, escrow, clock, globalVars>>

\* WRONG on purpose (mutant of CancelAuction): does not ask for bids.
CancelAuctionWithBid(creator, n) ==
    /\ n \in auctions
    /\ auction[n].end_date <= clock
    /\ Auctioned(n)
    /\ creator = auction[n].creator
    /\ holder[n] = Vault
    /\ auction' = [auction EXCEPT ![n].status = 0]
    /\ holder' = [holder EXCEPT ![n] = creator]
    /\ UNCHANGED <<auctions, offerVars, sellVars, userVars, clock, wallet, vault, globalVars>>

\* WRONG on purpose (mutant of CancelAuction): the status is not reset.
CancelAuctionStaysOpen(creator, n) ==
    /\ n \in auctions
    /\ auction[n].end_date <= clock
    /\ Auctioned(n)
    /\ ~ HasBid(n)
    /\ creator = auction[n].creator
    /\ holder[n] = Vault
    /\ auction' = auction
    /\ holder' = [holder EXCEPT ![n] = creator]
    /\ UNCHANGED <<auctions, offerVars, sellVars, userVars, clock, wallet, vault, globalVars>>

\* cancel_auction: only after the end, and only if nobody has bid.
CancelAuction(creator, n) ==
    /\ n \in auctions
    /\ auction[n].end_date <= clock
    /\ Auctioned(n)
    /\ ~ HasBid(n)
    /\ creator = auction[n].creator
    /\ holder[n] = Vault
    /\ auction' = [auction EXCEPT ![n].status = 0]
    /\ holder' = [holder EXCEPT ![n] = creator]
    /\ UNCHANGED <<auctions, offerVars, sellVars, userVars, clock, wallet, vault, globalVars>>
=============================================================================
