------------------------------- MODULE Offers -------------------------------
(***************************************************************************)
(* Offers below the listed price: the OfferData accounts, one per mint and *)
(* buyer.                                                                  *)
(***************************************************************************)
EXTENDS Listing

CONSTANT OfferPrices   \* prices that are offered

ASSUME OffersAssumption == OfferPrices \subseteq 0..MAX_U64

VARIABLES
    offers,  \* the pairs <<n, u>> whose OfferData account exists
    offer    \* offer[n][u]: the OfferData account of buyer u for NFT n

offerVars == <<offers, offer>>

OfferData == [offer_price        : 0..MAX_U64,
              offer_listing_date : 0..MaxTime,
              by_token           : Currency,
              active             : {0, 1}]

NoOffer == [offer_price        |-> 0,
            offer_listing_date |-> 0,
            by_token           |-> "sol",
            active             |-> 0]

OffersTypeOK ==
    /\ offers \subseteq NFTs \X Users
    /\ offer \in [NFTs -> [Users -> OfferData]]

OffersInit ==
    /\ offers = {}
    /\ offer = [n \in NFTs |-> [u \in Users |-> NoOffer]]

\* The range of offers for a listed price: below the price, and no less than its
\* half, rounded down.
OfferInRange(price, listed) ==
    /\ listed > price
    /\ listed \div 2 <= price

-----------------------------------------------------------------------------
\* init_offer_data
InitOfferData(buyer, n) ==
    /\ <<n, buyer>> \notin offers
    /\ offers' = offers \cup {<<n, buyer>>}
    /\ UNCHANGED <<offer, sellVars, userVars, ledgerVars, globalVars>>

\* make_offer: the price goes into the buyer's escrow, again for every offer.
MakeOffer(buyer, n, price, c) ==
    /\ n \in sells
    /\ <<n, buyer>> \in offers
    /\ Listed(n)
    /\ OfferInRange(price, sell[n].price[c])
    /\ buyer \in user_pools
    /\ offer' = [offer EXCEPT ![n][buyer] =
                    [offer_price        |-> price,
                     offer_listing_date |-> sell[n].listed_date,
                     by_token           |-> c,
                     active             |-> 1]]
    /\ PayIn(buyer, Only(c, price))
    /\ escrow[buyer][c] + price <= MAX_U64
    /\ escrow' = [escrow EXCEPT ![buyer][c] = @ + price]
    /\ UNCHANGED <<offers, sellVars, user_pools, traded, clock, holder, globalVars>>

\* WRONG on purpose (mutant of CancelOffer): the offered price leaves the
\* buyer's escrow.
CancelOfferForfeits(buyer, n) ==
    /\ <<n, buyer>> \in offers
    /\ offer[n][buyer].active = 1
    /\ offer' = [offer EXCEPT ![n][buyer].active = 0]
    /\ offer[n][buyer].offer_price <= escrow[buyer][offer[n][buyer].by_token]
    /\ escrow' = [escrow EXCEPT ![buyer][offer[n][buyer].by_token] =
                        @ - offer[n][buyer].offer_price]
    /\ UNCHANGED <<offers, sellVars, user_pools, traded, ledgerVars, globalVars>>

\* cancel_offer: the price stays in the buyer's escrow.
CancelOffer(buyer, n) ==
    /\ <<n, buyer>> \in offers
    /\ offer[n][buyer].active = 1
    /\ offer' = [offer EXCEPT ![n][buyer].active = 0]
    /\ UNCHANGED <<offers, sellVars, userVars, ledgerVars, globalVars>>

\* WRONG on purpose (mutant of AcceptOffer): the seller's copy of the pool is
\* written last, so a seller's own offer costs him no escrow.
AcceptOfferSellerLast(seller, n, buyer) ==
    LET o == offer[n][buyer]
        c == o.by_token
        price == o.offer_price
    IN  /\ {buyer, seller} \subseteq user_pools
        /\ n \in sells
        /\ Listed(n)
        /\ seller = sell[n].seller
        /\ <<n, buyer>> \in offers
        /\ o.active = 1
        /\ o.offer_listing_date = sell[n].listed_date
        /\ price <= escrow[buyer][c]
        /\ escrow' = IF seller = buyer THEN escrow
                     ELSE [escrow EXCEPT ![buyer][c] = @ - price]
        /\ AddVolume({buyer, seller}, c, price)
        /\ SaleFromVault(seller, price, c)
        /\ holder[n] = Vault
        /\ offer' = [offer EXCEPT ![n][buyer].active = 0]
        /\ sell' = [sell EXCEPT ![n].active = 0]
        /\ holder' = [holder EXCEPT ![n] = buyer]
        /\ UNCHANGED <<offers, sells, user_pools, clock, globalVars>>

\* WRONG on purpose (mutant of AcceptOffer): pays SOL for an offer in tokens.
AcceptOfferInSol(seller, n, buyer) ==
    LET o == offer[n][buyer]
        c == o.by_token
        price == o.offer_price
    IN  /\ {buyer, seller} \subseteq user_pools
        /\ n \in sells
        /\ Listed(n)
        /\ seller = sell[n].seller
        /\ <<n, buyer>> \in offers
        /\ o.active = 1
        /\ o.offer_listing_date = sell[n].listed_date
        /\ price <= escrow[buyer][c]
        /\ escrow' = [escrow EXCEPT ![buyer][c] = @ - price]
        /\ AddVolume({buyer, seller}, c, price)
        /\ SaleFromVault(seller, price, "sol")
        /\ holder[n] = Vault
        /\ offer' = [offer EXCEPT ![n][buyer].active = 0]
        /\ sell' = [sell EXCEPT ![n].active = 0]
        /\ holder' = [holder EXCEPT ![n] = buyer]
        /\ UNCHANGED <<offers, sells, user_pools, clock, globalVars>>

\* WRONG on purpose (mutant of AcceptOffer): the accepted offer stays active.
AcceptOfferStaysActive(seller, n, buyer) ==
    LET o == offer[n][buyer]
        c == o.by_token
        price == o.offer_price
    IN  /\ {buyer, seller} \subseteq user_pools
        /\ n \in sells
        /\ Listed(n)
        /\ seller = sell[n].seller
        /\ <<n, buyer>> \in offers
        /\ o.active = 1
        /\ o.offer_listing_date = sell[n].listed_date
        /\ price <= escrow[buyer][c]
        /\ escrow' = [escrow EXCEPT ![buyer][c] = @ - price]
        /\ AddVolume({buyer, seller}, c, price)
        /\ SaleFromVault(seller, price, c)
        /\ holder[n] = Vault
        /\ sell' = [sell EXCEPT ![n].active = 0]
        /\ holder' = [holder EXCEPT ![n] = buyer]
        /\ UNCHANGED <<offer, offers, sells, user_pools, clock, globalVars>>

\* accept_offer: the buyer's escrow pays, through the vault.  For a seller who
\* accepts his own offer the copy of the pool that carries the deduction is
\* written last, so the deduction holds.
AcceptOffer(seller, n, buyer) ==
    LET o == offer[n][buyer]
        c == o.by_token
        price == o.offer_price
    IN  /\ {buyer, seller} \subseteq user_pools
        /\ n \in sells
        /\ Listed(n)
        /\ seller = sell[n].seller
        /\ <<n, buyer>> \in offers
        /\ o.active = 1
        /\ o.offer_listing_date = sell[n].listed_date
        /\ price <= escrow[buyer][c]
        /\ escrow' = [escrow EXCEPT ![buyer][c] = @ - price]
        /\ AddVolume({buyer, seller}, c, price)
        /\ SaleFromVault(seller, price, c)
        /\ holder[n] = Vault
        /\ offer' = [offer EXCEPT ![n][buyer].active = 0]
        /\ sell' = [sell EXCEPT ![n].active = 0]
        /\ holder' = [holder EXCEPT ![n] = buyer]
        /\ UNCHANGED <<offers, sells, user_pools, clock, globalVars>>
=============================================================================
