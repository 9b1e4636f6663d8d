------------------------------ MODULE Exchange -------------------------------
(***************************************************************************)
(* What a marketplace promises, without its accounts, vaults, offers and   *)
(* bids: every NFT has one owner and is for sale or not; every user has    *)
(* some wealth in each currency; and the only thing that moves wealth is a *)
(* sale, which moves an NFT at the same time.                              *)
(***************************************************************************)
EXTENDS Integers

CONSTANTS
    Users, NFTs, Currency,
    PERMYRIAD,   \* the whole that a fee is a part of
    MAX_PRICE    \* the highest price there can be

VARIABLES
    owner,       \* owner[n]: who owns NFT n, also while it is for sale
    sale,        \* sale[n]: how NFT n is for sale
    wealth,      \* wealth[u][c]: all that user u has in currency c
    market_fee   \* market_fee[c]: the fee on a sale in currency c

exchangeVars == <<owner, sale, wealth, market_fee>>

Sales == {"none", "price", "auction"}

\* What the owner keeps of a price.
Kept(price, c) == price - (price * market_fee[c]) \div PERMYRIAD

Init ==
    /\ owner \in [NFTs -> Users]
    /\ sale = [n \in NFTs |-> "none"]
    /\ wealth \in [Users -> [Currency -> Nat]]
    /\ market_fee \in [Currency -> 0..PERMYRIAD]

-----------------------------------------------------------------------------
OpenSale(n) ==
    /\ sale[n] = "none"
    /\ sale' \in {[sale EXCEPT ![n] = s] : s \in Sales \ {"none"}}
    /\ UNCHANGED <<owner, wealth, market_fee>>

CloseSale(n) ==
    /\ sale[n] # "none"
    /\ sale' = [sale EXCEPT ![n] = "none"]
    /\ UNCHANGED <<owner, wealth, market_fee>>

\* Only what is not for sale can be given away.
Give(n, u) ==
    /\ sale[n] = "none"
    /\ owner' = [owner EXCEPT ![n] = u]
    /\ UNCHANGED <<sale, wealth, market_fee>>

\* The owner gets the price less the fee, in full; the buyer pays the price or,
\* of the fee, less than all.
Sell(n, buyer, c, price) ==
    /\ sale[n] # "none"
    /\ sale' = [sale EXCEPT ![n] = "none"]
    /\ owner' = [owner EXCEPT ![n] = buyer]
    /\ \E cost \in Kept(price, c)..price :
          wealth' = [u \in Users |-> [wealth[u] EXCEPT ![c] =
                        @ + (IF u = owner[n] THEN Kept(price, c) ELSE 0)
                          - (IF u = buyer THEN cost ELSE 0)]]
    /\ UNCHANGED market_fee

SetFee ==
    /\ market_fee' \in [Currency -> 0..PERMYRIAD]
    /\ UNCHANGED <<owner, sale, wealth>>

Next ==
    \/ \E n \in NFTs :
        \/ OpenSale(n)
        \/ CloseSale(n)
        \/ \E u \in Users : Give(n, u)
        \/ \E u \in Users, c \in Currency, price \in 0..MAX_PRICE : Sell(n, u, c, price)
    \/ SetFee

Spec == Init /\ [][Next]_exchangeVars
=============================================================================
