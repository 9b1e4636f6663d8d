------------------------------- MODULE Ledger -------------------------------
(***************************************************************************)
(* What the marketplace program borrows from its surroundings: the clock,  *)
(* the wallets and the vaults that the system program and the SPL token    *)
(* program keep, and who holds each NFT.  None of this is code of the      *)
(* repository; it is modelled from the calls the program makes.            *)
(*                                                                         *)
(* A wallet has lamports and ABB tokens.  The rent that moves when an      *)
(* account is created or closed is left out; which token accounts there    *)
(* are is modelled with the clients (Builders, Network).                   *)
(***************************************************************************)
EXTENDS TeamTreasury, FiniteSets

CONSTANTS
    Users,          \* wallets that trade
    NFTs,           \* mints of the NFTs
    Vault,          \* the holder of an NFT in the program's custody
    InitialWallet,  \* the balances before the program is deployed
    InitialHolder,  \* who holds the NFTs then
    MaxTime         \* bound on the clock

Wallets == Users \cup Treasuries

ASSUME LedgerAssumption ==
    /\ IsFiniteSet(Users)
    /\ IsFiniteSet(NFTs)
    /\ MaxTime \in Nat
    /\ InitialWallet \in [Wallets -> [Currency -> Nat]]
    /\ InitialHolder \in [NFTs -> Users]
    /\ Users \cap Treasuries = {}
    /\ Vault \notin Users
    /\ Default \notin Users

VARIABLES
    clock,   \* Clock::get()?.unix_timestamp, in seconds
    holder,  \* holder[n]: whose token account holds NFT n
    wallet,  \* wallet[w][c]: what wallet w has in currency c
    vault    \* vault[c]: what the escrow vault and its token account hold

ledgerVars == <<clock, holder, wallet, vault>>

LedgerTypeOK ==
    /\ clock \in 0..MaxTime
    /\ holder \in [NFTs -> Users \cup {Vault}]
    /\ wallet \in [Wallets -> [Currency -> Nat]]
    /\ vault \in [Currency -> Nat]

LedgerInit ==
    /\ clock = 0
    /\ holder = InitialHolder
    /\ wallet = InitialWallet
    /\ vault = [c \in Currency |-> 0]

-----------------------------------------------------------------------------
\* x of currency c and nothing of the other.
Only(c, x) == [d \in Currency |-> IF d = c THEN x ELSE 0]

\* A transfer fails unless its source has the amount.
PayIn(u, amount) ==
    /\ \A c \in Currency : amount[c] <= wallet[u][c]
    /\ wallet' = [wallet EXCEPT ![u] = [c \in Currency |-> @[c] - amount[c]]]
    /\ vault' = [c \in Currency |-> vault[c] + amount[c]]

PayOut(u, amount) ==
    /\ \A c \in Currency : amount[c] <= vault[c]
    /\ wallet' = [wallet EXCEPT ![u] = [c \in Currency |-> @[c] + amount[c]]]
    /\ vault' = [c \in Currency |-> vault[c] - amount[c]]

\* WRONG on purpose (mutant of SaleCredit): the treasuries share the price, not the
\* fee.
SaleCreditOfPrice(w, seller, price, c) ==
    (IF w = seller THEN Proceeds(price, c) ELSE 0) + TreasuryCredit(w, price)

\* What wallet w receives when a price is paid to a seller and the team.
SaleCredit(w, seller, price, c) ==
    (IF w = seller THEN Proceeds(price, c) ELSE 0)
        + TreasuryCredit(w, FeeAmount(price, c))

\* What the payer of a price gives away: the seller's part and the treasuries'
\* shares.  The part of the fee that nobody has a share in is not taken.
SaleCost(price, c) == Proceeds(price, c) + SharesPaid(FeeAmount(price, c))

\* A sale paid from the escrow vault (accept_offer, claim_auction).
SaleFromVault(seller, price, c) ==
    /\ CanSettle(price, c)
    /\ SaleCost(price, c) <= vault[c]
    /\ wallet' = [w \in Wallets |->
                    [wallet[w] EXCEPT ![c] = @ + SaleCredit(w, seller, price, c)]]
    /\ vault' = [vault EXCEPT ![c] = @ - SaleCost(price, c)]

\* A sale paid from the buyer's wallet (purchase).  A seller who buys from himself
\* needs the amount of each transfer, but keeps what he pays himself.
SaleFromWallet(buyer, seller, price, c) ==
    /\ CanSettle(price, c)
    /\ IF buyer = seller
       THEN /\ Proceeds(price, c) <= wallet[buyer][c]
            /\ SharesPaid(FeeAmount(price, c)) <= wallet[buyer][c]
       ELSE SaleCost(price, c) <= wallet[buyer][c]
    /\ wallet' = [w \in Wallets |->
                    [wallet[w] EXCEPT ![c] =
                        @ + SaleCredit(w, seller, price, c)
                          - (IF w = buyer THEN SaleCost(price, c) ELSE 0)]]
    /\ vault' = vault

-----------------------------------------------------------------------------
\* Time passes between transactions, and may not: many transactions run in the
\* same second.
Tick ==
    /\ clock < MaxTime
    /\ clock' = clock + 1
    /\ UNCHANGED <<holder, wallet, vault>>

\* Users hand NFTs to each other without the marketplace.
TransferNft(n, from, to) ==
    /\ holder[n] = from
    /\ from # to
    /\ holder' = [holder EXCEPT ![n] = to]
    /\ UNCHANGED <<clock, wallet, vault>>
=============================================================================
