------------------------------ MODULE Listing -------------------------------
(***************************************************************************)
(* Fixed-price sales: the SellData accounts, one per mint.                 *)
(***************************************************************************)
EXTENDS Escrow

CONSTANT Prices    \* prices that an NFT is listed at, in either currency

ASSUME ListingAssumption == Prices \subseteq 0..MAX_U64

VARIABLES
    sells,   \* the NFTs whose SellData account exists
    sell     \* sell[n]: the SellData account of NFT n

sellVars == <<sells, sell>>

SellData == [seller      : Users \cup {Default},
             price       : [Currency -> 0..MAX_U64],
             listed_date : 0..MaxTime,
             active      : {0, 1}]

NoListing == [seller      |-> Default,
              price       |-> [c \in Currency |-> 0],
              listed_date |-> 0,
              active      |-> 0]

ListingTypeOK ==
    /\ sells \subseteq NFTs
    /\ sell \in [NFTs -> SellData]

ListingInit ==
    /\ sells = {}
    /\ sell = [n \in NFTs |-> NoListing]

Listed(n) == sell[n].active = 1

-----------------------------------------------------------------------------
\* init_sell_data: anybody may create the account of any mint, once.
InitSellData(n) ==
    /\ n \notin sells
    /\ sells' = sells \cup {n}
    /\ UNCHANGED <<sell, userVars, ledgerVars, globalVars>>

\* list_nft_for_sale: the account's former listing is overwritten, active or not.
List(owner, n, price) ==
    /\ \A c \in Currency : price[c] > 0
    /\ Initialized
    /\ n \in sells
    /\ holder[n] = owner
    /\ sell' = [sell EXCEPT ![n] = [seller      |-> owner,
                                    price       |-> price,
                                    listed_date |-> clock,
                                    active      |-> 1]]
    /\ holder' = [holder EXCEPT ![n] = Vault]
    /\ UNCHANGED <<sells, userVars, clock, wallet, vault, globalVars>>

\* delist_nft
Delist(owner, n) ==
    /\ n \in sells
    /\ owner = sell[n].seller
    /\ Listed(n)
    /\ holder[n] = Vault
    /\ sell' = [sell EXCEPT ![n].active = 0]
    /\ holder' = [holder EXCEPT ![n] = owner]
    /\ UNCHANGED <<sells, userVars, clock, wallet, vault, globalVars>>

\* WRONG on purpose (mutant of Purchase): the listing stays active.
PurchaseStaysListed(buyer, n, c) ==
    LET seller == sell[n].seller
        price  == sell[n].price[c]
    IN  /\ n \in sells
        /\ Listed(n)
        /\ {buyer, seller} \subseteq user_pools
        /\ holder[n] = Vault
        /\ SaleFromWallet(buyer, seller, price, c)
        /\ AddVolume({buyer, seller}, c, price)
        /\ sell' = sell
        /\ holder' = [holder EXCEPT ![n] = buyer]
        /\ UNCHANGED <<sells, user_pools, escrow, clock, globalVars>>

\* purchase, in currency c.
Purchase(buyer, n, c) ==
    LET seller == sell[n].seller
        price  == sell[n].price[c]
    IN  /\ n \in sells
        /\ Listed(n)
        /\ {buyer, seller} \subseteq user_pools
        /\ holder[n] = Vault
        /\ SaleFromWallet(buyer, seller, price, c)
        /\ AddVolume({buyer, seller}, c, price)
        /\ sell' = [sell EXCEPT ![n].active = 0]
        /\ holder' = [holder EXCEPT ![n] = buyer]
        /\ UNCHANGED <<sells, user_pools, escrow, clock, globalVars>>
=============================================================================
