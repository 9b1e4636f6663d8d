--------------------------- MODULE MCMarketplace ----------------------------
(***************************************************************************)
(* Instances of Marketplace for TLC.  Init is the genesis of the program;  *)
(* ReadyInit is the state that the setup leads to which README.md:36-41    *)
(* asks for: initialize, update_fee, add_team_treasury, and the init_*     *)
(* instructions for all users and NFTs, none of which moves money or NFTs. *)
(***************************************************************************)
EXTENDS ExchangeRefinement, Queries, TLC

CONSTANTS
    ReadyFee,       \* the market fees after the setup
    ReadyTreasury,  \* the team treasury after the setup
    ReadyRate,      \* its rate
    firstOwner,     \* who holds the NFTs at first
    OwnerSol,       \* what that user has at first
    OwnerToken,
    FundsSol,       \* what each other user has at first
    FundsToken

MCWallet ==
    [w \in Wallets |->
        IF w = firstOwner THEN [sol |-> OwnerSol, token |-> OwnerToken]
        ELSE IF w \in Users THEN [sol |-> FundsSol, token |-> FundsToken]
        ELSE [sol |-> 0, token |-> 0]]

MCHolder == [n \in NFTs |-> firstOwner]

\* The state after the setup, with the pools of some users and the data accounts of
\* some NFTs.
ReadyWith(pools, nfts) ==
    /\ \E admin \in Admins : super_admin = admin
    /\ market_fee = [c \in Currency |-> ReadyFee]
    /\ team_count = 1
    /\ team_treasury = [i \in Slots |-> IF i = 0 THEN ReadyTreasury ELSE Default]
    /\ treasury_rate = [i \in Slots |-> IF i = 0 THEN ReadyRate ELSE 0]
    /\ LedgerInit
    /\ user_pools = pools
    /\ escrow = [u \in Users |-> [c \in Currency |-> 0]]
    /\ traded = [u \in Users |-> [c \in Currency |-> 0]]
    /\ sells = nfts
    /\ sell = [n \in NFTs |-> NoListing]
    /\ offers = nfts \X Users
    /\ offer = [n \in NFTs |-> [u \in Users |-> NoOffer]]
    /\ auctions = nfts
    /\ auction = [n \in NFTs |-> NoAuction]

ReadyInit == ReadyWith(Users, NFTs)

ReadySpec == ReadyInit /\ [][Next]_vars
=============================================================================
