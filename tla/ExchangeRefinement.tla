------------------------- MODULE ExchangeRefinement --------------------------
(***************************************************************************)
(* The marketplace program implements Exchange: the owner of an NFT in     *)
(* custody is who deposited it, and a user's wealth is what lies in his    *)
(* wallet, in his escrow and in his standing bids.                         *)
(***************************************************************************)
EXTENDS Marketplace

Owner(n) == IF holder[n] = Vault THEN Depositor(n) ELSE holder[n]

SaleOf(n) == IF Listed(n) THEN "price" ELSE IF Auctioned(n) THEN "auction" ELSE "none"

ownerBar == [n \in NFTs |-> Owner(n)]

saleBar == [n \in NFTs |-> SaleOf(n)]

wealthBar == [u \in Users |-> [c \in Currency |-> Wealth(u, c)]]

Abstract == INSTANCE Exchange WITH
    MAX_PRICE <- MAX_U64,
    owner  <- ownerBar,
    sale   <- saleBar,
    wealth <- wealthBar

\* Listings, offers, escrow, bids, refunds and claims together are an exchange: no
\* step but a sale changes any user's wealth, up or down, a sale pays the owner an
\* amount that a price and the fee explain, and what is for sale changes owner in no
\* other way.
ImplementsExchange == Abstract!Spec
=============================================================================
