---------------------------- MODULE Marketplace -----------------------------
(***************************************************************************)
(* The whole program: the global pool, the ledger, the user pools and the  *)
(* three ways to sell an NFT, with the transactions of all wallets         *)
(* interleaved in any order.  A transaction is atomic: it runs one         *)
(* instruction to its end or leaves no trace.                              *)
(***************************************************************************)
EXTENDS Auctions

vars == <<globalVars, ledgerVars, userVars, sellVars, offerVars, auctionVars>>

Init ==
    /\ TeamInit
    /\ LedgerInit
    /\ EscrowInit
    /\ ListingInit
    /\ OffersInit
    /\ AuctionsInit

\* What the instructions of each component leave alone above it.
AboveTeam == <<ledgerVars, userVars, sellVars, offerVars, auctionVars>>

AboveLedger == <<globalVars, userVars, sellVars, offerVars, auctionVars>>

AboveEscrow == <<sellVars, offerVars, auctionVars>>

AboveListing == <<offerVars, auctionVars>>

AdminNext(admin) ==
    \/ Initialize(admin) /\ UNCHANGED AboveTeam
    \/ \E sol_fee, token_fee \in Fees :
          UpdateFee(admin, sol_fee, token_fee) /\ UNCHANGED AboveTeam
    \/ \E address \in Treasuries, rate \in Rates :
          AddTeamTreasury(admin, address, rate) /\ UNCHANGED AboveTeam
    \/ \E address \in Treasuries :
          RemoveTeamTreasury(admin, address) /\ UNCHANGED AboveTeam

UserNext(u) ==
    \/ InitUserPool(u) /\ UNCHANGED AboveEscrow
    \/ \E amount \in [Currency -> Amounts] : Deposit(u, amount) /\ UNCHANGED AboveEscrow
    \/ \E amount \in [Currency -> Amounts] : Withdraw(u, amount) /\ UNCHANGED AboveEscrow

SaleNext(u, n) ==
    \/ \E price \in [Currency -> Prices] : List(u, n, price) /\ UNCHANGED AboveListing
    \/ Delist(u, n) /\ UNCHANGED AboveListing
    \/ \E c \in Currency : Purchase(u, n, c) /\ UNCHANGED AboveListing

OfferNext(u, n) ==
    \/ InitOfferData(u, n) /\ UNCHANGED auctionVars
    \/ \E price \in OfferPrices, c \in Currency :
          MakeOffer(u, n, price, c) /\ UNCHANGED auctionVars
    \/ CancelOffer(u, n) /\ UNCHANGED auctionVars
    \/ \E buyer \in Users : AcceptOffer(u, n, buyer) /\ UNCHANGED auctionVars

AuctionNext(u, n) ==
    \/ \E start_price \in StartPrices, min_increase \in Increases,
          c \in Currency, end_date \in 0..MaxTime :
            CreateAuction(u, n, start_price, min_increase, c, end_date)
    \/ \E price \in BidPrices : PlaceBid(u, n, price)
    \/ ClaimAuction(u, n)
    \/ CancelAuction(u, n)

\* Anybody creates the accounts of an NFT; NFTs change hands outside.
NftNext(n) ==
    \/ InitSellData(n) /\ UNCHANGED AboveListing
    \/ InitAuctionData(n)
    \/ \E from, to \in Users : TransferNft(n, from, to) /\ UNCHANGED AboveLedger

Next ==
    \/ \E admin \in Admins : AdminNext(admin)
    \/ Tick /\ UNCHANGED AboveLedger
    \/ \E u \in Users : UserNext(u)
    \/ \E n \in NFTs : NftNext(n)
    \/ \E u \in Users, n \in NFTs : SaleNext(u, n) \/ OfferNext(u, n) \/ AuctionNext(u, n)

Spec == Init /\ [][Next]_vars

-----------------------------------------------------------------------------
\* Every account keeps the type of its fields: no checked sum passes u64, no balance
\* falls below zero.
TypeOK ==
    /\ TeamTypeOK
    /\ LedgerTypeOK
    /\ EscrowTypeOK
    /\ ListingTypeOK
    /\ OffersTypeOK
    /\ AuctionsTypeOK

-----------------------------------------------------------------------------
(* Sums over users and NFTs: the sum of f over S is the number of           *)
(* pairs of an x in S and a unit of f[x].                                   *)

UnitsOf(f, S) == {p \in S \X (1..MAX_U64) : p[2] <= f[p[1]]}

Total(f, S) == Cardinality(UnitsOf(f, S))

EscrowIn(c) == [u \in Users |-> escrow[u][c]]

\* The bids that lie in the vault.
BidIn(c) == [n \in NFTs |-> IF Auctioned(n) /\ HasBid(n) /\ auction[n].by_token = c
                            THEN auction[n].highest_bid ELSE 0]

BidOf(u, c) == [n \in NFTs |-> IF auction[n].last_bidder = u THEN BidIn(c)[n] ELSE 0]

\* All that user u can still dispose of or get back.
Wealth(u, c) == wallet[u][c] + escrow[u][c] + Total(BidOf(u, c), NFTs)

-----------------------------------------------------------------------------
\* The program holds an NFT exactly while one listing or one auction of it is open,
\* and never both: list_nft_for_sale and create_auction check neither `active' nor
\* `status', they rely on the owner still holding the NFT.
Custody ==
    \A n \in NFTs :
        /\ holder[n] = Vault <=> Listed(n) \/ Auctioned(n)
        /\ ~ (Listed(n) /\ Auctioned(n))

\* The one escrow vault covers all escrow balances together with all standing bids,
\* in each currency: whatever the order of deposits, offers, acceptances (a seller's
\* of his own offer too), bids, refunds and claims, nobody's money pays for another.
Solvency ==
    \A c \in Currency :
        Total(EscrowIn(c), Users) + Total(BidIn(c), NFTs) <= vault[c]

\* A user's wealth falls only in a step that hands him an NFT out of the program's
\* custody.  Deposits, withdrawals, cancelled offers, being outbid, and everything
\* that others do leave him with what he had.
NoLossWithoutNft ==
    [][ \A u \in Users, c \in Currency :
            Wealth(u, c)' < Wealth(u, c)
              => \E n \in NFTs : holder[n] = Vault /\ holder'[n] = u ]_vars

\* A user's escrow serves nobody but him: what leaves it goes to his wallet in full, or
\* it is exactly the price of his standing offer for an NFT that comes to him out of
\* custody, and that offer cannot be accepted a second time.
EscrowServesOwner ==
    [][ \A u \in Users, c \in Currency :
            escrow'[u][c] < escrow[u][c]
              => \/ wallet'[u][c] = wallet[u][c] + (escrow[u][c] - escrow'[u][c])
                 \/ \E n \in NFTs :
                       /\ holder[n] = Vault /\ holder'[n] = u
                       /\ offer[n][u].active = 1 /\ offer'[n][u].active = 0
                       /\ offer[n][u].by_token = c
                       /\ escrow'[u][c] = escrow[u][c] - offer[n][u].offer_price ]_vars

\* Who put NFT n into custody.
Depositor(n) == IF Listed(n) THEN sell[n].seller ELSE auction[n].creator

\* The prices in currency c at which the depositor of n has agreed to sell to b: the
\* listed price, b's offer, or b's bid.
AgreedPrices(n, b, c) ==
    {p \in 0..MAX_U64 :
        \/ Listed(n) /\ p = sell[n].price[c]
        \/ Listed(n) /\ offer[n][b].active = 1 /\ offer[n][b].by_token = c
                     /\ p = offer[n][b].offer_price
        \/ Auctioned(n) /\ auction[n].last_bidder = b /\ auction[n].by_token = c
                        /\ p = auction[n].highest_bid}

\* An NFT leaves custody back to its depositor, or in a fair exchange: the depositor
\* receives an agreed price less the market fee, in full, and the buyer gives no
\* more than that price and nothing of the other currency.
FairExchange ==
    [][ \A n \in NFTs, s, b \in Users :
          (holder[n] = Vault /\ holder'[n] = b /\ s = Depositor(n) /\ s # b)
            => \E c \in Currency : \E p \in AgreedPrices(n, b, c) :
                  /\ Wealth(s, c)' = Wealth(s, c) + Proceeds(p, c)
                  /\ \A d \in Currency :
                        Wealth(b, d)' >= Wealth(b, d) - (IF d = c THEN p ELSE 0) ]_vars

\* A step pays the team for a sale at price p in currency c: every treasury in the table
\* receives its own rate of the fee, rounded down, and nobody else anything.
PaysTeam(p, c) ==
    \A w \in Treasuries :
        /\ \A d \in Currency \ {c} : wallet'[w][d] = wallet[w][d]
        /\ w \notin Team => wallet'[w][c] = wallet[w][c]
        /\ \A i \in LiveSlots :
              team_treasury[i] = w
                => wallet'[w][c] =
                      wallet[w][c] + (FeeAmount(p, c) * treasury_rate[i]) \div PERMYRIAD

\* The team is paid for every sale, at the agreed price and in its currency, each
\* treasury by the place it has by then, and for nothing else: the three instructions
\* that settle a sale walk the table in six copies of the same loop.
TeamIsPaid ==
    [][ (\/ \E w \in Treasuries : wallet'[w] # wallet[w]
         \/ \E n \in NFTs : holder[n] = Vault /\ holder'[n] \notin {Vault, Depositor(n)})
          => \E n \in NFTs, b \in Users, c \in Currency :
                /\ holder[n] = Vault /\ holder'[n] = b
                /\ \E p \in AgreedPrices(n, b, c) : PaysTeam(p, c) ]_vars

\* While an auction runs its NFT stays where it is; after the end it goes to the
\* highest bidder if there is one and back to the creator if there is none.
AuctionHonoured ==
    [][ \A n \in NFTs :
          (Auctioned(n) /\ holder'[n] # Vault)
            => /\ auction[n].end_date <= clock
               /\ holder'[n] = IF HasBid(n) THEN auction[n].last_bidder
                                            ELSE auction[n].creator ]_vars

\* While a sale is open its terms stand: nobody rewrites a listing, and of a running
\* auction only the highest bid changes, before the end, by no less than the minimum
\* increase.  The program does not ask whether a sale is open when it writes a new one
\* over it.
TermsStand ==
    [][ \A n \in NFTs :
          /\ Listed(n) /\ Listed(n)' => sell'[n] = sell[n]
          /\ (Auctioned(n) /\ Auctioned(n)' /\ auction'[n] # auction[n])
                => /\ auction[n].end_date > clock
                   /\ auction[n].highest_bid + auction[n].min_increase_amount
                        <= auction'[n].highest_bid
                   /\ auction'[n] = [auction[n] EXCEPT
                                        !.last_bidder = auction'[n].last_bidder,
                                        !.highest_bid = auction'[n].highest_bid] ]_vars

-----------------------------------------------------------------------------
(* What documents and tests of the repository say and the program does not  *)
(* do.                                                                      *)

\* The vault holds exactly what it owes (tests/Astro_Marketplace.ts:640 expects
\* that an accepted offer of 0.6 SOL takes 0.6 SOL out of the vault).
VaultExact ==
    \A c \in Currency :
        Total(EscrowIn(c), Users) + Total(BidIn(c), NFTs) = vault[c]

\* traded_volume counts trades in SOL and traded_token_volume trades in tokens, as
\* purchase and accept_offer keep them (tests/Astro_Marketplace.ts:378 and 619): no
\* user's volume of SOL grows in a step in which the vault and he move no SOL.
SolVolumeIsSol ==
    [][ \A u \in Users :
          traded'[u]["sol"] > traded[u]["sol"]
            => vault'["sol"] # vault["sol"] \/ wallet'[u]["sol"] # wallet[u]["sol"] ]_vars

\* An offer that could be accepted was made for the listing that is open: its price
\* is in the range of that listing's price (lib.rs:1233, "Assert Offer provided
\* date with the NFT Listed Date"; error.rs:90, "Offer For Sold Or Canceled NFT
\* Listing").
AcceptableOfferIsInRange ==
    \A n \in NFTs, u \in Users :
        (/\ Listed(n)
         /\ offer[n][u].active = 1
         /\ offer[n][u].offer_listing_date = sell[n].listed_date)
          => OfferInRange(offer[n][u].offer_price, sell[n].price[offer[n][u].by_token])
=============================================================================
