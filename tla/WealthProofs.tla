---------------------------- MODULE WealthProofs ----------------------------
(***************************************************************************)
(* Who gains and who loses: what every instruction does to the wealth of   *)
(* every user, for any number of users and NFTs and for all prices,        *)
(* amounts, fees and rates.                                                *)
(***************************************************************************)
EXTENDS SolvencyProofs

-----------------------------------------------------------------------------
(* Wealth is made of three naturals.                                        *)

\* The wealth of the next state is made of the balances of the next state.
LEMMA WealthPrimed ==
    ASSUME NEW u \in Users, NEW c \in Currency
    PROVE  Wealth(u, c)' = wallet'[u][c] + escrow'[u][c] + Total(BidOf(u, c)', NFTs)
BY DEF Wealth, Total, UnitsOf

\* The standing bids of one user are u64 numbers.
LEMMA BidOfType ==
    ASSUME TypeOK, NEW u \in Users, NEW c \in Currency
    PROVE  BidOf(u, c) \in [NFTs -> 0..MAX_U64]
<1>1. BidIn(c) \in [NFTs -> 0..MAX_U64] /\ 0 \in 0..MAX_U64
  BY OwedType, TeamAssumption
<1> QED BY <1>1 DEF BidOf

LEMMA BidOfTypeNext ==
    ASSUME TypeOK', NEW u \in Users, NEW c \in Currency
    PROVE  BidOf(u, c)' \in [NFTs -> 0..MAX_U64]
<1>1. BidIn(c)' \in [NFTs -> 0..MAX_U64] /\ 0 \in 0..MAX_U64
  BY OwedTypeNext, TeamAssumption
<1> QED BY <1>1 DEF BidOf

LEMMA PurseType ==
    ASSUME TypeOK, NEW u \in Users, NEW c \in Currency
    PROVE  /\ u \in Wallets
           /\ wallet[u] \in [Currency -> Nat] /\ wallet[u][c] \in Nat
           /\ escrow[u] \in [Currency -> 0..MAX_U64] /\ escrow[u][c] \in Nat
BY TeamAssumption DEF TypeOK, LedgerTypeOK, EscrowTypeOK, Wallets

LEMMA PurseTypeNext ==
    ASSUME TypeOK', NEW u \in Users, NEW c \in Currency
    PROVE  wallet'[u][c] \in Nat /\ escrow'[u][c] \in Nat
BY TeamAssumption DEF TypeOK, LedgerTypeOK, EscrowTypeOK, Wallets

LEMMA WealthType ==
    ASSUME TypeOK, NEW u \in Users, NEW c \in Currency
    PROVE  Wealth(u, c) \in Nat
<1>1. Total(BidOf(u, c), NFTs) \in Nat
  BY LedgerAssumption, TotalType
<1> QED BY <1>1, PurseType DEF Wealth

-----------------------------------------------------------------------------
(* How a step changes wealth.                                               *)

KeepsWealth == \A u \in Users, c \in Currency : Wealth(u, c)' = Wealth(u, c)

\* A step that deals with one auction changes a user's wealth by what it changes in his
\* wallet, his escrow and his bid for that NFT.
LEMMA WealthOfOne ==
    ASSUME TypeOK, TypeOK', NEW n \in NFTs,
           \A m \in NFTs \ {n} : auction'[m] = auction[m],
           NEW u \in Users, NEW c \in Currency
    PROVE  /\ Wealth(u, c) \in Nat
           /\ Wealth(u, c)' \in Nat
           /\ Wealth(u, c)' + wallet[u][c] + escrow[u][c] + BidOf(u, c)[n]
                = Wealth(u, c) + wallet'[u][c] + escrow'[u][c] + BidOf(u, c)'[n]
<1> DEFINE b == BidOf(u, c)
<1>1. b \in [NFTs -> 0..MAX_U64] /\ b' \in [NFTs -> 0..MAX_U64]
  BY BidOfType, BidOfTypeNext
<1>2. \A m \in NFTs \ {n} : b'[m] = b[m]
  BY DEF BidOf, BidIn, Auctioned, HasBid
<1>3. /\ wallet[u][c] \in Nat /\ escrow[u][c] \in Nat
      /\ wallet'[u][c] \in Nat /\ escrow'[u][c] \in Nat
  BY PurseType, PurseTypeNext
<1>4. Wealth(u, c) = wallet[u][c] + escrow[u][c] + Total(b, NFTs)
  BY DEF Wealth
<1>5. Wealth(u, c)' = wallet'[u][c] + escrow'[u][c] + Total(b', NFTs)
  BY WealthPrimed
<1> HIDE DEF b
<1>6. /\ Total(b, NFTs) \in Nat
      /\ Total(b', NFTs) \in Nat
      /\ Total(b', NFTs) + b[n] = Total(b, NFTs) + b'[n]
  BY <1>1, <1>2, LedgerAssumption, TotalUpdate
<1>7. b[n] \in Nat /\ b'[n] \in Nat
  BY <1>1, TeamAssumption
<1>8. /\ Wealth(u, c) \in Nat
      /\ Wealth(u, c)' \in Nat
      /\ Wealth(u, c)' + wallet[u][c] + escrow[u][c] + b[n]
           = Wealth(u, c) + wallet'[u][c] + escrow'[u][c] + b'[n]
  BY <1>3, <1>4, <1>5, <1>6, <1>7
<1> QED BY <1>8 DEF b

\* A step that deals with no auction changes it by the wallet and the escrow.
LEMMA WealthOfNone ==
    ASSUME TypeOK, TypeOK', auction' = auction, NEW u \in Users, NEW c \in Currency
    PROVE  /\ Wealth(u, c) \in Nat
           /\ Wealth(u, c)' \in Nat
           /\ Wealth(u, c)' + wallet[u][c] + escrow[u][c]
                = Wealth(u, c) + wallet'[u][c] + escrow'[u][c]
<1> DEFINE b == BidOf(u, c)
<1>1. b' = b
  BY DEF BidOf, BidIn, Auctioned, HasBid
<1>2. /\ wallet[u][c] \in Nat /\ escrow[u][c] \in Nat
      /\ wallet'[u][c] \in Nat /\ escrow'[u][c] \in Nat
  BY PurseType, PurseTypeNext
<1>3. Wealth(u, c) = wallet[u][c] + escrow[u][c] + Total(b, NFTs)
  BY DEF Wealth
<1>4. Wealth(u, c)' = wallet'[u][c] + escrow'[u][c] + Total(b', NFTs)
  BY WealthPrimed
<1> HIDE DEF b
<1>5. Total(b, NFTs) \in Nat
  BY LedgerAssumption, TotalType
<1> QED BY <1>1, <1>2, <1>3, <1>4, <1>5

\* A step that touches neither keeps everybody's wealth.
LEMMA UnchangedWealth ==
    ASSUME UNCHANGED <<wallet, escrow, auction>>
    PROVE  KeepsWealth
<1> SUFFICES ASSUME NEW u \in Users, NEW c \in Currency
             PROVE  Wealth(u, c)' = Wealth(u, c)
  BY DEF KeepsWealth
<1>1. BidOf(u, c)' = BidOf(u, c)
  BY DEF BidOf, BidIn, Auctioned, HasBid
<1> QED BY <1>1, WealthPrimed DEF Wealth

-----------------------------------------------------------------------------
(* What a sale pays to users.                                               *)

\* No user is a team treasury.
LEMMA UserCredit ==
    ASSUME TypeOK, NEW u \in Users, NEW fee
    PROVE  TreasuryCredit(u, fee) = 0
<1>1. \A i \in Slots : team_treasury[i] # u
  BY LedgerAssumption DEF TypeOK, TeamTypeOK
<1>2. [i \in Slots |-> IF i < team_count /\ team_treasury[i] = u THEN Share(fee, i) ELSE 0]
        = [i \in Slots |-> 0]
  BY <1>1
<1> QED BY <1>2 DEF TreasuryCredit, SumSlots, Slots

LEMMA UserSaleCredit ==
    ASSUME TypeOK, NEW u \in Users, NEW seller, NEW price \in Nat, NEW c \in Currency
    PROVE  SaleCredit(u, seller, price, c) = IF u = seller THEN Proceeds(price, c) ELSE 0
<1>1. Proceeds(price, c) \in Nat
  BY SaleTypes DEF TypeOK
<1> QED BY <1>1, UserCredit DEF SaleCredit

\* The wallets of users after a sale out of the vault: the seller has his proceeds.
LEMMA SaleFromVaultPays ==
    ASSUME TypeOK, NEW seller, NEW price \in Nat, NEW c \in Currency,
           SaleFromVault(seller, price, c), NEW u \in Users, NEW d \in Currency
    PROVE  wallet'[u][d] = wallet[u][d] + (IF d = c /\ u = seller THEN Proceeds(price, c)
                                                                 ELSE 0)
<1>1. u \in Wallets /\ wallet[u] \in [Currency -> Nat] /\ wallet[u][d] \in Nat
  BY PurseType
<1>2. wallet'[u] = [wallet[u] EXCEPT ![c] = @ + SaleCredit(u, seller, price, c)]
  BY <1>1 DEF SaleFromVault
<1> QED BY <1>1, <1>2, UserSaleCredit

\* The wallets of users after a sale out of the buyer's wallet.
LEMMA SaleFromWalletPays ==
    ASSUME TypeOK, NEW buyer \in Users, NEW seller, NEW price \in Nat, NEW c \in Currency,
           SaleFromWallet(buyer, seller, price, c), NEW u \in Users, NEW d \in Currency
    PROVE  wallet'[u][d] = wallet[u][d]
                             + (IF d = c /\ u = seller THEN Proceeds(price, c) ELSE 0)
                             - (IF d = c /\ u = buyer THEN SaleCost(price, c) ELSE 0)
<1>1. u \in Wallets /\ wallet[u] \in [Currency -> Nat] /\ wallet[u][d] \in Nat
  BY PurseType
<1>2. wallet'[u] = [wallet[u] EXCEPT ![c] = @ + SaleCredit(u, seller, price, c)
                                    - (IF u = buyer THEN SaleCost(price, c) ELSE 0)]
  BY <1>1 DEF SaleFromWallet
<1>3. Proceeds(price, c) \in Nat /\ SaleCost(price, c) \in Nat
  BY SaleTypes DEF TypeOK
<1> QED BY <1>1, <1>2, <1>3, UserSaleCredit

-----------------------------------------------------------------------------
(* The instructions that keep everybody's wealth.                           *)

\* Most instructions move no money at all.
LEMMA OthersKeepWealth ==
    /\ \A admin \in Admins : AdminNext(admin) => KeepsWealth
    /\ Tick /\ UNCHANGED AboveLedger => KeepsWealth
    /\ \A n \in NFTs : NftNext(n) => KeepsWealth
    /\ \A u \in Users, n \in NFTs : \A price :
          List(u, n, price) /\ UNCHANGED AboveListing => KeepsWealth
    /\ \A u \in Users, n \in NFTs : Delist(u, n) /\ UNCHANGED AboveListing => KeepsWealth
<1>1. ASSUME NEW admin \in Admins, AdminNext(admin) PROVE KeepsWealth
  <2>1. UNCHANGED AboveTeam
    BY <1>1 DEF AdminNext
  <2> QED BY <2>1, UnchangedWealth DEF AboveTeam, ledgerVars, userVars, auctionVars
<1>2. ASSUME Tick, UNCHANGED AboveLedger PROVE KeepsWealth
  BY <1>2, UnchangedWealth DEF Tick, AboveLedger, userVars, auctionVars
<1>3. ASSUME NEW n \in NFTs, NftNext(n) PROVE KeepsWealth
  <2>1. wallet' = wallet /\ escrow' = escrow /\ auction' = auction
    BY <1>3 DEF NftNext, InitSellData, InitAuctionData, TransferNft, AboveLedger,
                AboveListing, ledgerVars, userVars, auctionVars
  <2> QED BY <2>1, UnchangedWealth
<1>4. ASSUME NEW u \in Users, NEW n \in NFTs, NEW price,
             List(u, n, price), UNCHANGED AboveListing
      PROVE  KeepsWealth
  BY <1>4, UnchangedWealth DEF List, AboveListing, userVars, auctionVars
<1>5. ASSUME NEW u \in Users, NEW n \in NFTs, Delist(u, n), UNCHANGED AboveListing
      PROVE  KeepsWealth
  BY <1>5, UnchangedWealth DEF Delist, AboveListing, userVars, auctionVars
<1> QED BY <1>1, <1>2, <1>3, <1>4, <1>5

\* What a user pays into the vault is in his escrow, and the reverse.
LEMMA EscrowKeepsWealth ==
    ASSUME TypeOK, TypeOK', auction' = auction, NEW u \in Users,
           \A v \in Users \ {u} : wallet'[v] = wallet[v] /\ escrow'[v] = escrow[v],
           \A c \in Currency : wallet'[u][c] + escrow'[u][c] = wallet[u][c] + escrow[u][c]
    PROVE  KeepsWealth
<1> SUFFICES ASSUME NEW v \in Users, NEW c \in Currency
             PROVE  Wealth(v, c)' = Wealth(v, c)
  BY DEF KeepsWealth
<1>1. /\ Wealth(v, c) \in Nat
      /\ Wealth(v, c)' \in Nat
      /\ Wealth(v, c)' + wallet[v][c] + escrow[v][c]
           = Wealth(v, c) + wallet'[v][c] + escrow'[v][c]
  BY WealthOfNone
<1>2. wallet'[v][c] + escrow'[v][c] = wallet[v][c] + escrow[v][c]
  BY DEF Wallets
<1>3. /\ wallet[v][c] \in Nat /\ escrow[v][c] \in Nat
      /\ wallet'[v][c] \in Nat /\ escrow'[v][c] \in Nat
  BY PurseType, PurseTypeNext
<1> QED BY <1>1, <1>2, <1>3

LEMMA UserKeepsWealth ==
    ASSUME TypeOK, TypeOK', NEW u \in Users, UserNext(u)
    PROVE  KeepsWealth
<1>0. /\ wallet \in [Wallets -> [Currency -> Nat]]
      /\ escrow \in [Users -> [Currency -> 0..MAX_U64]]
      /\ Users \subseteq Wallets
      /\ \A c \in Currency : wallet[u][c] \in Nat /\ escrow[u][c] \in Nat
  BY PurseType DEF TypeOK, LedgerTypeOK, EscrowTypeOK, Wallets
<1>1. CASE InitUserPool(u) /\ UNCHANGED AboveEscrow
  BY <1>1, UnchangedWealth DEF InitUserPool, AboveEscrow, ledgerVars, auctionVars
<1>2. ASSUME NEW amount \in [Currency -> Amounts], Deposit(u, amount), UNCHANGED AboveEscrow
      PROVE  KeepsWealth
  <2>1. amount \in [Currency -> Nat]
    BY AmountType
  <2>2. /\ escrow' = [escrow EXCEPT ![u] = [c \in Currency |-> escrow[u][c] + amount[c]]]
        /\ wallet' = [wallet EXCEPT ![u] = [c \in Currency |-> wallet[u][c] - amount[c]]]
        /\ auction' = auction
    BY <1>2 DEF Deposit, PayIn, AboveEscrow, auctionVars
  <2>3. \A v \in Users \ {u} : wallet'[v] = wallet[v] /\ escrow'[v] = escrow[v]
    BY <1>0, <2>2
  <2>4. \A c \in Currency : wallet'[u][c] + escrow'[u][c] = wallet[u][c] + escrow[u][c]
    BY <1>0, <2>1, <2>2
  <2> QED BY <2>2, <2>3, <2>4, EscrowKeepsWealth
<1>3. ASSUME NEW amount \in [Currency -> Amounts], Withdraw(u, amount), UNCHANGED AboveEscrow
      PROVE  KeepsWealth
  <2>1. amount \in [Currency -> Nat]
    BY AmountType
  <2>2. /\ escrow' = [escrow EXCEPT ![u] = [c \in Currency |-> escrow[u][c] - amount[c]]]
        /\ wallet' = [wallet EXCEPT ![u] = [c \in Currency |-> wallet[u][c] + amount[c]]]
        /\ auction' = auction
    BY <1>3 DEF Withdraw, PayOut, AboveEscrow, auctionVars
  <2>3. \A v \in Users \ {u} : wallet'[v] = wallet[v] /\ escrow'[v] = escrow[v]
    BY <1>0, <2>2
  <2>4. \A c \in Currency : wallet'[u][c] + escrow'[u][c] = wallet[u][c] + escrow[u][c]
    BY <1>0, <2>1, <2>2
  <2> QED BY <2>2, <2>3, <2>4, EscrowKeepsWealth
<1> QED BY <1>1, <1>2, <1>3 DEF UserNext

\* An offer's price is the buyer's own as long as the offer is not accepted.
LEMMA OfferKeepsWealth ==
    ASSUME TypeOK, TypeOK', NEW u \in Users, NEW n \in NFTs, UNCHANGED auctionVars
    PROVE  /\ InitOfferData(u, n) => KeepsWealth
           /\ \A price \in OfferPrices, c \in Currency : MakeOffer(u, n, price, c) => KeepsWealth
           /\ CancelOffer(u, n) => KeepsWealth
<1>0. /\ wallet \in [Wallets -> [Currency -> Nat]]
      /\ escrow \in [Users -> [Currency -> 0..MAX_U64]]
      /\ Users \subseteq Wallets
      /\ \A c \in Currency : wallet[u][c] \in Nat /\ escrow[u][c] \in Nat
  BY PurseType DEF TypeOK, LedgerTypeOK, EscrowTypeOK, Wallets
<1>1. CASE InitOfferData(u, n)
  BY <1>1, UnchangedWealth DEF InitOfferData, ledgerVars, userVars, auctionVars
<1>2. ASSUME NEW price \in OfferPrices, NEW c \in Currency, MakeOffer(u, n, price, c)
      PROVE  KeepsWealth
  <2>1. price \in Nat
    BY OffersAssumption, TeamAssumption
  <2>2. /\ escrow' = [escrow EXCEPT ![u][c] = escrow[u][c] + price]
        /\ wallet' = [wallet EXCEPT ![u] = [d \in Currency |-> wallet[u][d] - Only(c, price)[d]]]
        /\ auction' = auction
    BY <1>2 DEF MakeOffer, PayIn, auctionVars
  <2>3. \A v \in Users \ {u} : wallet'[v] = wallet[v] /\ escrow'[v] = escrow[v]
    BY <1>0, <2>2
  <2>4. ASSUME NEW d \in Currency
        PROVE  wallet'[u][d] + escrow'[u][d] = wallet[u][d] + escrow[u][d]
    <3>1. escrow'[u][d] = IF d = c THEN escrow[u][d] + price ELSE escrow[u][d]
      BY <1>0, <2>2
    <3>2. wallet'[u][d] = IF d = c THEN wallet[u][d] - price ELSE wallet[u][d]
      BY <1>0, <2>1, <2>2 DEF Only
    <3> QED BY <1>0, <2>1, <3>1, <3>2
  <2> QED BY <2>2, <2>3, <2>4, EscrowKeepsWealth
<1>3. CASE CancelOffer(u, n)
  BY <1>3, UnchangedWealth DEF CancelOffer, ledgerVars, userVars, auctionVars
<1> QED BY <1>1, <1>2, <1>3
\* What of the auction of NFT n counts as wealth of user u.
LEMMA BidOfOne ==
    ASSUME NEW n \in NFTs, NEW u \in Users, NEW c \in Currency
    PROVE  /\ BidOf(u, c)[n] = IF /\ auction[n].last_bidder = u
                                  /\ auction[n].status = 1
                                  /\ auction[n].by_token = c
                               THEN auction[n].highest_bid ELSE 0
           /\ BidOf(u, c)'[n] = IF /\ auction'[n].last_bidder = u
                                   /\ auction'[n].status = 1
                                   /\ auction'[n].by_token = c
                                THEN auction'[n].highest_bid ELSE 0
<1>1. u # Default
  BY LedgerAssumption
<1> QED BY <1>1 DEF BidOf, BidIn, Auctioned, HasBid

\* A bid is the bidder's own as long as it stands, and again when it is beaten.
LEMMA AuctionKeepsWealth ==
    ASSUME TypeOK, TypeOK', Custody, NEW u \in Users, NEW n \in NFTs
    PROVE  /\ InitAuctionData(n) => KeepsWealth
           /\ \A start_price, min_increase, c, end_date :
                CreateAuction(u, n, start_price, min_increase, c, end_date) => KeepsWealth
           /\ \A price \in BidPrices : PlaceBid(u, n, price) => KeepsWealth
           /\ CancelAuction(u, n) => KeepsWealth
<1>0. /\ auction \in [NFTs -> AuctionData]
      /\ auction[n] \in AuctionData
      /\ auction[n].by_token \in Currency
      /\ auction[n].highest_bid \in Nat
      /\ Default \notin Users
      /\ Vault \notin Users
  BY TeamAssumption, LedgerAssumption DEF TypeOK, AuctionsTypeOK, AuctionData
<1>1. ASSUME InitAuctionData(n) PROVE KeepsWealth
  BY <1>1, UnchangedWealth DEF InitAuctionData, ledgerVars, userVars
<1>2. ASSUME wallet' = wallet, escrow' = escrow,
             \A m \in NFTs \ {n} : auction'[m] = auction[m],
             \A v \in Users, c \in Currency : BidOf(v, c)[n] = 0 /\ BidOf(v, c)'[n] = 0
      PROVE  KeepsWealth
  <2> SUFFICES ASSUME NEW v \in Users, NEW c \in Currency
               PROVE  Wealth(v, c)' = Wealth(v, c)
    BY DEF KeepsWealth
  <2>1. /\ Wealth(v, c) \in Nat
        /\ Wealth(v, c)' \in Nat
        /\ Wealth(v, c)' + wallet[v][c] + escrow[v][c] + BidOf(v, c)[n]
             = Wealth(v, c) + wallet'[v][c] + escrow'[v][c] + BidOf(v, c)'[n]
    BY <1>2, WealthOfOne
  <2>2. wallet[v][c] \in Nat /\ escrow[v][c] \in Nat
    BY PurseType
  <2>3. BidOf(v, c)[n] = 0 /\ BidOf(v, c)'[n] = 0
    BY <1>2
  <2> QED BY <1>2, <2>1, <2>2, <2>3
<1>3. ASSUME NEW start_price, NEW min_increase, NEW c, NEW end_date,
             CreateAuction(u, n, start_price, min_increase, c, end_date)
      PROVE  KeepsWealth
  <2>1. ~ Auctioned(n)
    BY <1>0, <1>3 DEF CreateAuction, Custody
  <2>2. /\ \A m \in NFTs \ {n} : auction'[m] = auction[m]
        /\ auction'[n].last_bidder = Default
        /\ wallet' = wallet
        /\ escrow' = escrow
    BY <1>0, <1>3 DEF CreateAuction, userVars
  <2>3. \A v \in Users, d \in Currency : BidOf(v, d)[n] = 0 /\ BidOf(v, d)'[n] = 0
    BY <1>0, <2>1, <2>2, BidOfOne DEF Auctioned
  <2> QED BY <1>2, <2>2, <2>3
<1>4. ASSUME NEW price \in BidPrices, PlaceBid(u, n, price)
      PROVE  KeepsWealth
  <2> DEFINE c == auction[n].by_token
             refund == IF HasBid(n) THEN auction[n].highest_bid ELSE 0
  <2>1. /\ Auctioned(n)
        /\ u # auction[n].last_bidder
        /\ auction' = [auction EXCEPT ![n].last_bidder = u, ![n].highest_bid = price]
        /\ wallet' = [w \in Wallets |->
                        [wallet[w] EXCEPT ![c] =
                            @ + (IF w = auction[n].last_bidder THEN refund ELSE 0)
                              - (IF w = u THEN price ELSE 0)]]
        /\ escrow' = escrow
    BY <1>4 DEF PlaceBid, userVars
  <2>2. price \in Nat /\ refund \in Nat
    BY <1>0, AuctionsAssumption, TeamAssumption
  <2>3. /\ \A m \in NFTs \ {n} : auction'[m] = auction[m]
        /\ auction'[n].status = 1
        /\ auction'[n].last_bidder = u
        /\ auction'[n].by_token = c
        /\ auction'[n].highest_bid = price
    BY <1>0, <2>1 DEF AuctionData, Auctioned
  <2> SUFFICES ASSUME NEW v \in Users, NEW d \in Currency
               PROVE  Wealth(v, d)' = Wealth(v, d)
    BY DEF KeepsWealth
  <2>4. /\ Wealth(v, d) \in Nat
        /\ Wealth(v, d)' \in Nat
        /\ Wealth(v, d)' + wallet[v][d] + escrow[v][d] + BidOf(v, d)[n]
             = Wealth(v, d) + wallet'[v][d] + escrow'[v][d] + BidOf(v, d)'[n]
    BY <2>3, WealthOfOne
  <2>5. v \in Wallets /\ wallet[v] \in [Currency -> Nat] /\ wallet[v][d] \in Nat
        /\ escrow[v][d] \in Nat
    BY PurseType
  <2>6. BidOf(v, d)[n] = IF v = auction[n].last_bidder /\ d = c THEN refund ELSE 0
    BY <1>0, <2>1, BidOfOne DEF Auctioned, HasBid
  <2>7. BidOf(v, d)'[n] = IF v = u /\ d = c THEN price ELSE 0
    BY <2>3, BidOfOne
  <2>8. wallet'[v][d] = wallet[v][d]
                          + (IF v = auction[n].last_bidder /\ d = c THEN refund ELSE 0)
                          - (IF v = u /\ d = c THEN price ELSE 0)
    <3>1. wallet'[v] = [wallet[v] EXCEPT ![c] =
                           wallet[v][c] + (IF v = auction[n].last_bidder THEN refund ELSE 0)
                             - (IF v = u THEN price ELSE 0)]
      BY <2>1, <2>5
    <3> HIDE DEF c, refund
    <3> QED BY <2>2, <2>5, <3>1
  <2>9. u # auction[n].last_bidder /\ escrow' = escrow
    BY <2>1
  <2> HIDE DEF c, refund
  <2>10. CASE d # c
    BY <2>4, <2>5, <2>6, <2>7, <2>8, <2>9, <2>10
  <2>11. CASE d = c /\ v = u
    BY <2>2, <2>4, <2>5, <2>6, <2>7, <2>8, <2>9, <2>11
  <2>12. CASE d = c /\ v # u
    BY <2>2, <2>4, <2>5, <2>6, <2>7, <2>8, <2>9, <2>12
  <2> QED BY <2>10, <2>11, <2>12
<1>5. ASSUME CancelAuction(u, n) PROVE KeepsWealth
  <2>1. /\ ~ HasBid(n)
        /\ auction' = [auction EXCEPT ![n].status = 0]
        /\ wallet' = wallet
        /\ escrow' = escrow
    BY <1>5 DEF CancelAuction, userVars
  <2>2. /\ \A m \in NFTs \ {n} : auction'[m] = auction[m]
        /\ auction'[n].status = 0
    BY <1>0, <2>1 DEF AuctionData
  <2>3. \A v \in Users, d \in Currency : BidOf(v, d)[n] = 0 /\ BidOf(v, d)'[n] = 0
    BY <1>0, <2>1, <2>2, BidOfOne DEF HasBid
  <2> QED BY <1>2, <2>1, <2>2, <2>3
<1> QED BY <1>1, <1>3, <1>4, <1>5

-----------------------------------------------------------------------------
(* The three settlements.                                                   *)

\* NFT n goes from its depositor to b for price p in currency c: the depositor gets the
\* price less the fee, b gives the cost, and nobody else's wealth changes.
Settles(n, b, c, p, cost) ==
    /\ p \in AgreedPrices(n, b, c)
    /\ cost \in Proceeds(p, c)..p
    /\ holder[n] = Vault
    /\ Depositor(n) \in Users
    /\ holder' = [holder EXCEPT ![n] = b]
    /\ sell'[n].active # 1
    /\ auction'[n].status # 1
    /\ \A m \in NFTs \ {n} : sell'[m] = sell[m] /\ auction'[m] = auction[m]
    /\ market_fee' = market_fee
    /\ \A u \in Users, d \in Currency :
          Wealth(u, d)' = Wealth(u, d)
                            + (IF d = c /\ u = Depositor(n) THEN Proceeds(p, c) ELSE 0)
                            - (IF d = c /\ u = b THEN cost ELSE 0)

\* purchase
LEMMA PurchaseSettles ==
    ASSUME TypeOK, TypeOK', TeamWellFormed, Custody,
           NEW u \in Users, NEW n \in NFTs, NEW c \in Currency,
           Purchase(u, n, c), UNCHANGED AboveListing
    PROVE  \E p, cost : Settles(n, u, c, p, cost)
<1> DEFINE p == sell[n].price[c]
           s == sell[n].seller
           cost == SaleCost(p, c)
<1>1. /\ sell \in [NFTs -> SellData]
      /\ sell[n] \in SellData
      /\ p \in 0..MAX_U64 /\ p \in Nat
  BY TeamAssumption DEF TypeOK, ListingTypeOK, SellData
<1>2. /\ Listed(n) /\ ~ Auctioned(n) /\ holder[n] = Vault
      /\ s \in Users
      /\ SaleFromWallet(u, s, p, c)
      /\ sell' = [sell EXCEPT ![n].active = 0]
      /\ holder' = [holder EXCEPT ![n] = u]
      /\ escrow' = escrow /\ auction' = auction /\ market_fee' = market_fee
  BY DEF Purchase, Custody, TypeOK, EscrowTypeOK, AboveListing, auctionVars, globalVars
<1>3. Depositor(n) = s
  BY <1>2 DEF Depositor
<1>4. p \in AgreedPrices(n, u, c)
  BY <1>1, <1>2 DEF AgreedPrices
<1>5. /\ Proceeds(p, c) \in Nat /\ cost \in Nat /\ cost <= p
      /\ cost = Proceeds(p, c) + SharesPaid(FeeAmount(p, c))
      /\ SharesPaid(FeeAmount(p, c)) \in Nat
  BY <1>1, SaleTypes, SaleCostWithin DEF TypeOK
<1>6. cost \in Proceeds(p, c)..p
  <2> HIDE DEF cost, p
  <2> QED BY <1>1, <1>5
<1>7. sell'[n].active # 1 /\ \A m \in NFTs \ {n} : sell'[m] = sell[m]
  BY <1>1, <1>2 DEF SellData
<1>8. auction'[n].status # 1
  BY <1>2 DEF Auctioned
<1>9. ASSUME NEW v \in Users, NEW d \in Currency
      PROVE  Wealth(v, d)' = Wealth(v, d)
                            + (IF d = c /\ v = Depositor(n) THEN Proceeds(p, c) ELSE 0)
                            - (IF d = c /\ v = u THEN cost ELSE 0)
  <2>1. wallet'[v][d] = wallet[v][d] + (IF d = c /\ v = s THEN Proceeds(p, c) ELSE 0)
                                     - (IF d = c /\ v = u THEN cost ELSE 0)
    <3>1. SaleFromWallet(u, s, p, c) /\ p \in Nat
      BY <1>1, <1>2
    <3> HIDE DEF p, s
    <3> QED BY <3>1, SaleFromWalletPays
  <2>2. /\ Wealth(v, d) \in Nat
        /\ Wealth(v, d)' \in Nat
        /\ Wealth(v, d)' + wallet[v][d] + escrow[v][d]
             = Wealth(v, d) + wallet'[v][d] + escrow'[v][d]
    BY <1>2, WealthOfNone
  <2>3. wallet[v][d] \in Nat /\ escrow[v][d] \in Nat
    BY PurseType
  <2> HIDE DEF cost, p, s
  <2> QED BY <1>2, <1>3, <1>5, <2>1, <2>2, <2>3
<1>10. Settles(n, u, c, p, cost)
  BY <1>2, <1>3, <1>4, <1>6, <1>7, <1>8, <1>9 DEF Settles
<1> QED BY <1>10

\* accept_offer: the vault keeps the part of the fee that nobody has a share in, so the
\* buyer gives the whole price.
LEMMA AcceptOfferSettles ==
    ASSUME TypeOK, TypeOK', Custody,
           NEW u \in Users, NEW n \in NFTs, NEW b \in Users,
           AcceptOffer(u, n, b), UNCHANGED auctionVars
    PROVE  \E c \in Currency : \E p : Settles(n, b, c, p, p)
<1> DEFINE c == offer[n][b].by_token
           p == offer[n][b].offer_price
<1>1. /\ sell \in [NFTs -> SellData]
      /\ sell[n] \in SellData
      /\ c \in Currency
      /\ p \in 0..MAX_U64 /\ p \in Nat
  BY TeamAssumption DEF TypeOK, ListingTypeOK, SellData, OffersTypeOK, OfferData
<1>2. /\ Listed(n) /\ ~ Auctioned(n) /\ holder[n] = Vault
      /\ u = sell[n].seller
      /\ offer[n][b].active = 1
      /\ SaleFromVault(u, p, c)
      /\ escrow' = [escrow EXCEPT ![b][c] = escrow[b][c] - p]
      /\ sell' = [sell EXCEPT ![n].active = 0]
      /\ holder' = [holder EXCEPT ![n] = b]
      /\ auction' = auction /\ market_fee' = market_fee
  BY DEF AcceptOffer, Custody, auctionVars, globalVars
<1>3. Depositor(n) = u
  BY <1>2 DEF Depositor
<1>4. p \in AgreedPrices(n, b, c)
  BY <1>1, <1>2 DEF AgreedPrices
<1>5. Proceeds(p, c) \in Nat /\ p \in Proceeds(p, c)..p
  <2>1. FeeAmount(p, c) \in Nat /\ FeeAmount(p, c) <= p
    BY <1>1, FeeWithinPrice DEF TypeOK
  <2>2. Proceeds(p, c) = p - FeeAmount(p, c)
    BY DEF Proceeds
  <2> HIDE DEF c, p
  <2> QED BY <1>1, <2>1, <2>2
<1>6. sell'[n].active # 1 /\ \A m \in NFTs \ {n} : sell'[m] = sell[m]
  BY <1>1, <1>2 DEF SellData
<1>7. auction'[n].status # 1
  BY <1>2 DEF Auctioned
<1>8. ASSUME NEW v \in Users, NEW d \in Currency
      PROVE  Wealth(v, d)' = Wealth(v, d)
                            + (IF d = c /\ v = Depositor(n) THEN Proceeds(p, c) ELSE 0)
                            - (IF d = c /\ v = b THEN p ELSE 0)
  <2>1. wallet'[v][d] = wallet[v][d] + (IF d = c /\ v = u THEN Proceeds(p, c) ELSE 0)
    <3>1. SaleFromVault(u, p, c) /\ p \in Nat /\ c \in Currency
      BY <1>1, <1>2
    <3> HIDE DEF c, p
    <3> QED BY <3>1, SaleFromVaultPays
  <2>2. escrow'[v][d] = escrow[v][d] - (IF d = c /\ v = b THEN p ELSE 0)
    <3>1. /\ escrow \in [Users -> [Currency -> 0..MAX_U64]]
          /\ escrow[v][d] \in Nat
      BY PurseType DEF TypeOK, EscrowTypeOK
    <3> HIDE DEF c, p
    <3> QED BY <1>1, <1>2, <3>1
  <2>3. /\ Wealth(v, d) \in Nat
        /\ Wealth(v, d)' \in Nat
        /\ Wealth(v, d)' + wallet[v][d] + escrow[v][d]
             = Wealth(v, d) + wallet'[v][d] + escrow'[v][d]
    BY <1>2, WealthOfNone
  <2>4. wallet[v][d] \in Nat /\ escrow[v][d] \in Nat
    BY PurseType
  <2> HIDE DEF c, p
  <2> QED BY <1>1, <1>3, <1>5, <2>1, <2>2, <2>3, <2>4
<1>9. Settles(n, b, c, p, p)
  BY <1>2, <1>3, <1>4, <1>5, <1>6, <1>7, <1>8 DEF Settles
<1> QED BY <1>1, <1>9

\* claim_auction: the winner gives the bid that stood, and that was his wealth as long
\* as it did.
LEMMA ClaimAuctionSettles ==
    ASSUME TypeOK, TypeOK', Custody,
           NEW u \in Users, NEW n \in NFTs, ClaimAuction(u, n)
    PROVE  \E c \in Currency : \E p : Settles(n, u, c, p, p)
<1> DEFINE c == auction[n].by_token
           p == auction[n].highest_bid
           s == auction[n].creator
<1>1. /\ auction \in [NFTs -> AuctionData]
      /\ auction[n] \in AuctionData
      /\ c \in Currency
      /\ p \in 0..MAX_U64 /\ p \in Nat
  BY TeamAssumption DEF TypeOK, AuctionsTypeOK, AuctionData
<1>2. /\ Auctioned(n) /\ ~ Listed(n) /\ holder[n] = Vault
      /\ u = auction[n].last_bidder
      /\ s \in Users
      /\ SaleFromVault(s, p, c)
      /\ auction' = [auction EXCEPT ![n].status = 2]
      /\ holder' = [holder EXCEPT ![n] = u]
      /\ escrow' = escrow /\ sell' = sell /\ market_fee' = market_fee
  BY DEF ClaimAuction, Custody, TypeOK, EscrowTypeOK, sellVars, globalVars
<1>3. Depositor(n) = s
  BY <1>2 DEF Depositor
<1>4. p \in AgreedPrices(n, u, c)
  BY <1>1, <1>2 DEF AgreedPrices
<1>5. Proceeds(p, c) \in Nat /\ p \in Proceeds(p, c)..p
  <2>1. FeeAmount(p, c) \in Nat /\ FeeAmount(p, c) <= p
    BY <1>1, FeeWithinPrice DEF TypeOK
  <2>2. Proceeds(p, c) = p - FeeAmount(p, c)
    BY DEF Proceeds
  <2> HIDE DEF c, p
  <2> QED BY <1>1, <2>1, <2>2
<1>6. auction'[n].status = 2 /\ \A m \in NFTs \ {n} : auction'[m] = auction[m]
  BY <1>1, <1>2 DEF AuctionData
<1>7. sell'[n].active # 1
  BY <1>2 DEF Listed
<1>8. ASSUME NEW v \in Users, NEW d \in Currency
      PROVE  Wealth(v, d)' = Wealth(v, d)
                            + (IF d = c /\ v = Depositor(n) THEN Proceeds(p, c) ELSE 0)
                            - (IF d = c /\ v = u THEN p ELSE 0)
  <2>1. wallet'[v][d] = wallet[v][d] + (IF d = c /\ v = s THEN Proceeds(p, c) ELSE 0)
    <3>1. SaleFromVault(s, p, c) /\ p \in Nat /\ c \in Currency
      BY <1>1, <1>2
    <3> HIDE DEF c, p, s
    <3> QED BY <3>1, SaleFromVaultPays
  <2>2. /\ BidOf(v, d)[n] = IF d = c /\ v = u THEN p ELSE 0
        /\ BidOf(v, d)'[n] = 0
    BY <1>2, <1>6, BidOfOne DEF Auctioned
  <2>3. /\ Wealth(v, d) \in Nat
        /\ Wealth(v, d)' \in Nat
        /\ Wealth(v, d)' + wallet[v][d] + escrow[v][d] + BidOf(v, d)[n]
             = Wealth(v, d) + wallet'[v][d] + escrow'[v][d] + BidOf(v, d)'[n]
    BY <1>6, WealthOfOne
  <2>4. wallet[v][d] \in Nat /\ escrow[v][d] \in Nat
    BY PurseType
  <2> HIDE DEF c, p, s
  <2> QED BY <1>1, <1>2, <1>3, <1>5, <2>1, <2>2, <2>3, <2>4
<1>9. Settles(n, u, c, p, p)
  BY <1>2, <1>3, <1>4, <1>5, <1>6, <1>7, <1>8 DEF Settles
<1> QED BY <1>1, <1>9

-----------------------------------------------------------------------------
(* Every step keeps everybody's wealth or settles a sale.                   *)

\* Nothing leaves custody but back to who put it there.
ReturnsOnly ==
    \A n \in NFTs : (holder[n] = Vault /\ holder'[n] # Vault) => holder'[n] = Depositor(n)

LEMMA OthersReturn ==
    ASSUME TypeOK, Custody
    PROVE  /\ UNCHANGED holder => ReturnsOnly
           /\ \A n \in NFTs : NftNext(n) => ReturnsOnly
           /\ \A u \in Users, n \in NFTs : \A price : List(u, n, price) => ReturnsOnly
           /\ \A u \in Users, n \in NFTs : Delist(u, n) => ReturnsOnly
           /\ \A u \in Users, n \in NFTs : \A start_price, min_increase, c, end_date :
                CreateAuction(u, n, start_price, min_increase, c, end_date) => ReturnsOnly
           /\ \A u \in Users, n \in NFTs : CancelAuction(u, n) => ReturnsOnly
<1>0. holder \in [NFTs -> Users \cup {Vault}] /\ Vault \notin Users
  BY LedgerAssumption DEF TypeOK, LedgerTypeOK
<1>1. UNCHANGED holder => ReturnsOnly
  BY DEF ReturnsOnly
<1>2. ASSUME NEW n \in NFTs, NftNext(n) PROVE ReturnsOnly
  <2>1. CASE UNCHANGED holder
    BY <1>1, <2>1
  <2>2. CASE \E from, to \in Users : TransferNft(n, from, to)
    BY <1>0, <2>2 DEF TransferNft, ReturnsOnly
  <2> QED BY <1>2, <2>1, <2>2 DEF NftNext, InitSellData, InitAuctionData, ledgerVars
<1>3. ASSUME NEW n \in NFTs, holder' = [holder EXCEPT ![n] = Vault] PROVE ReturnsOnly
  BY <1>0, <1>3 DEF ReturnsOnly
<1>4. ASSUME NEW n \in NFTs, holder' = [holder EXCEPT ![n] = Depositor(n)] PROVE ReturnsOnly
  BY <1>0, <1>4 DEF ReturnsOnly
<1>5. \A u \in Users, n \in NFTs : \A price : List(u, n, price) => ReturnsOnly
  BY <1>3 DEF List
<1>6. \A u \in Users, n \in NFTs : Delist(u, n) => ReturnsOnly
  BY <1>4 DEF Delist, Depositor
<1>7. \A u \in Users, n \in NFTs : \A start_price, min_increase, c, end_date :
        CreateAuction(u, n, start_price, min_increase, c, end_date) => ReturnsOnly
  BY <1>3 DEF CreateAuction
<1>8. \A u \in Users, n \in NFTs : CancelAuction(u, n) => ReturnsOnly
  BY <1>4 DEF CancelAuction, Depositor, Custody
<1> QED BY <1>1, <1>2, <1>5, <1>6, <1>7, <1>8

\* A step settles a sale or moves no wealth and gives NFTs back only.
LEMMA StepOutcome ==
    ASSUME TypeOK, TypeOK', TeamWellFormed, Custody, Next
    PROVE  \/ KeepsWealth /\ ReturnsOnly
           \/ \E n \in NFTs, b \in Users, c \in Currency : \E p, cost : Settles(n, b, c, p, cost)
<1>1. ASSUME NEW admin \in Admins, AdminNext(admin) PROVE KeepsWealth /\ ReturnsOnly
  <2>1. UNCHANGED holder
    BY <1>1 DEF AdminNext, AboveTeam, ledgerVars
  <2> QED BY <1>1, <2>1, OthersKeepWealth, OthersReturn
<1>2. ASSUME Tick, UNCHANGED AboveLedger PROVE KeepsWealth /\ ReturnsOnly
  BY <1>2, OthersKeepWealth, OthersReturn DEF Tick
<1>3. ASSUME NEW u \in Users, UserNext(u) PROVE KeepsWealth /\ ReturnsOnly
  <2>1. UNCHANGED holder
    BY <1>3 DEF UserNext, InitUserPool, Deposit, Withdraw, ledgerVars
  <2> QED BY <1>3, <2>1, UserKeepsWealth, OthersReturn
<1>4. ASSUME NEW n \in NFTs, NftNext(n) PROVE KeepsWealth /\ ReturnsOnly
  BY <1>4, OthersKeepWealth, OthersReturn
<1>5. ASSUME NEW u \in Users, NEW n \in NFTs, SaleNext(u, n)
      PROVE  \/ KeepsWealth /\ ReturnsOnly
             \/ \E c \in Currency : \E p, cost : Settles(n, u, c, p, cost)
  <2>1. ASSUME NEW price \in [Currency -> Prices], List(u, n, price), UNCHANGED AboveListing
        PROVE  KeepsWealth /\ ReturnsOnly
    BY <2>1, OthersKeepWealth, OthersReturn
  <2>2. ASSUME Delist(u, n), UNCHANGED AboveListing PROVE KeepsWealth /\ ReturnsOnly
    BY <2>2, OthersKeepWealth, OthersReturn
  <2> QED BY <1>5, <2>1, <2>2, PurchaseSettles DEF SaleNext
<1>6. ASSUME NEW u \in Users, NEW n \in NFTs, OfferNext(u, n)
      PROVE  \/ KeepsWealth /\ ReturnsOnly
             \/ \E b \in Users, c \in Currency : \E p, cost : Settles(n, b, c, p, cost)
  <2>1. ASSUME NEW b \in Users, AcceptOffer(u, n, b), UNCHANGED auctionVars
        PROVE  \E c \in Currency : \E p, cost : Settles(n, b, c, p, cost)
    BY <2>1, AcceptOfferSettles
  <2>2. ASSUME UNCHANGED auctionVars,
               \/ InitOfferData(u, n)
               \/ \E price \in OfferPrices, c \in Currency : MakeOffer(u, n, price, c)
               \/ CancelOffer(u, n)
        PROVE  KeepsWealth /\ ReturnsOnly
    <3>1. UNCHANGED holder
      BY <2>2 DEF InitOfferData, MakeOffer, CancelOffer, ledgerVars
    <3> QED BY <2>2, <3>1, OfferKeepsWealth, OthersReturn
  <2> QED BY <1>6, <2>1, <2>2 DEF OfferNext
<1>7. ASSUME NEW u \in Users, NEW n \in NFTs, AuctionNext(u, n)
      PROVE  \/ KeepsWealth /\ ReturnsOnly
             \/ \E c \in Currency : \E p, cost : Settles(n, u, c, p, cost)
  <2>1. ASSUME NEW start_price, NEW min_increase, NEW c, NEW end_date,
               CreateAuction(u, n, start_price, min_increase, c, end_date)
        PROVE  KeepsWealth /\ ReturnsOnly
    BY <2>1, AuctionKeepsWealth, OthersReturn
  <2>2. ASSUME NEW price \in BidPrices, PlaceBid(u, n, price)
        PROVE  KeepsWealth /\ ReturnsOnly
    <3>1. UNCHANGED holder
      BY <2>2 DEF PlaceBid
    <3> QED BY <2>2, <3>1, AuctionKeepsWealth, OthersReturn
  <2>3. ASSUME CancelAuction(u, n) PROVE KeepsWealth /\ ReturnsOnly
    BY <2>3, AuctionKeepsWealth, OthersReturn
  <2>4. ASSUME ClaimAuction(u, n)
        PROVE  \E c \in Currency : \E p, cost : Settles(n, u, c, p, cost)
    BY <2>4, ClaimAuctionSettles
  <2> QED BY <1>7, <2>1, <2>2, <2>3, <2>4 DEF AuctionNext
<1> QED BY <1>1, <1>2, <1>3, <1>4, <1>5, <1>6, <1>7 DEF Next

-----------------------------------------------------------------------------
\* What the theorems about steps rest on: it holds in every reachable state.
LEMMA StatesAreSound == Spec => [](TypeOK /\ TeamWellFormed /\ Custody)
BY TypeCorrect, CustodyCorrect, ProgramImplementsTeam, TeamAlwaysWellFormed, PTL

\* In every behaviour, for any number of users and NFTs, all prices, fees and rates: a
\* user's wealth falls only in a step that hands him an NFT out of custody.
THEOREM NobodyLosesWithoutNft == Spec => NoLossWithoutNft
<1> DEFINE Fair ==
              \A u \in Users, c \in Currency :
                Wealth(u, c)' < Wealth(u, c)
                  => \E n \in NFTs : holder[n] = Vault /\ holder'[n] = u
<1>1. TypeOK /\ TypeOK' /\ TeamWellFormed /\ Custody /\ Next => Fair
  <2> SUFFICES ASSUME TypeOK, TypeOK', TeamWellFormed, Custody, Next,
                      NEW u \in Users, NEW d \in Currency, Wealth(u, d)' < Wealth(u, d)
               PROVE  \E n \in NFTs : holder[n] = Vault /\ holder'[n] = u
    OBVIOUS
  <2>1. Wealth(u, d) \in Nat
    BY WealthType
  <2>2. ~ KeepsWealth
    BY <2>1 DEF KeepsWealth
  <2>3. PICK n \in NFTs, b \in Users, c \in Currency :
          \E p, cost : Settles(n, b, c, p, cost)
    BY <2>2, StepOutcome
  <2>4. PICK p, cost : Settles(n, b, c, p, cost)
    BY <2>3
  <2>5. /\ holder[n] = Vault
        /\ holder' = [holder EXCEPT ![n] = b]
        /\ p \in AgreedPrices(n, b, c)
        /\ Wealth(u, d)' = Wealth(u, d)
                            + (IF d = c /\ u = Depositor(n) THEN Proceeds(p, c) ELSE 0)
                            - (IF d = c /\ u = b THEN cost ELSE 0)
    BY <2>4 DEF Settles
  <2>6. Proceeds(p, c) \in Nat
    <3>1. p \in Nat
      BY <2>5, TeamAssumption DEF AgreedPrices
    <3> QED BY <3>1, FeeWithinPrice DEF TypeOK
  <2>7. u = b
    BY <2>1, <2>5, <2>6
  <2>8. holder'[n] = b
    BY <2>5 DEF TypeOK, LedgerTypeOK
  <2> QED BY <2>5, <2>7, <2>8
<1>2. [](TypeOK /\ TeamWellFormed /\ Custody) /\ [][Next]_vars => [][Fair]_vars
  BY <1>1, PTL
<1>3. Spec => [][Fair]_vars
  BY <1>2, StatesAreSound, PTL DEF Spec
<1> QED BY <1>3 DEF NoLossWithoutNft

\* In every behaviour, for any number of users and NFTs, all prices, fees and rates: an
\* NFT leaves custody back to its depositor, or the depositor gets an agreed price less
\* the fee in full, and the buyer gives no more than that price.
THEOREM ExchangeIsFair == Spec => FairExchange
<1> DEFINE Paid(n, s, b) ==
              \E c \in Currency : \E p \in AgreedPrices(n, b, c) :
                /\ Wealth(s, c)' = Wealth(s, c) + Proceeds(p, c)
                /\ \A d \in Currency :
                      Wealth(b, d)' >= Wealth(b, d) - (IF d = c THEN p ELSE 0)
           Fair ==
              \A n \in NFTs, s, b \in Users :
                (holder[n] = Vault /\ holder'[n] = b /\ s = Depositor(n) /\ s # b)
                  => Paid(n, s, b)
<1>1. TypeOK /\ TypeOK' /\ TeamWellFormed /\ Custody /\ Next => Fair
  <2> SUFFICES ASSUME TypeOK, TypeOK', TeamWellFormed, Custody, Next,
                      NEW n \in NFTs, NEW s \in Users, NEW b \in Users,
                      holder[n] = Vault, holder'[n] = b, s = Depositor(n), s # b
               PROVE  Paid(n, s, b)
    OBVIOUS
  <2>0. b # Vault /\ holder \in [NFTs -> Users \cup {Vault}]
    BY LedgerAssumption DEF TypeOK, LedgerTypeOK
  <2>1. ~ ReturnsOnly
    BY <2>0 DEF ReturnsOnly
  <2>2. PICK m \in NFTs, w \in Users, c \in Currency :
          \E p, cost : Settles(m, w, c, p, cost)
    BY <2>1, StepOutcome
  <2>3. PICK p, cost : Settles(m, w, c, p, cost)
    BY <2>2
  <2>4. m = n /\ w = b
    BY <2>0, <2>3 DEF Settles
  <2>5. /\ p \in AgreedPrices(n, b, c)
        /\ cost \in Proceeds(p, c)..p
        /\ \A u \in Users, d \in Currency :
             Wealth(u, d)' = Wealth(u, d)
                               + (IF d = c /\ u = s THEN Proceeds(p, c) ELSE 0)
                               - (IF d = c /\ u = b THEN cost ELSE 0)
    BY <2>3, <2>4 DEF Settles
  <2>6. p \in Nat /\ Proceeds(p, c) \in Nat
    <3>1. p \in Nat
      BY <2>5, TeamAssumption DEF AgreedPrices
    <3> QED BY <3>1, FeeWithinPrice DEF TypeOK
  <2>7. Wealth(s, c)' = Wealth(s, c) + Proceeds(p, c)
    <3>1. Wealth(s, c) \in Nat
      BY WealthType
    <3> QED BY <2>5, <2>6, <3>1
  <2>8. ASSUME NEW d \in Currency
        PROVE  Wealth(b, d)' >= Wealth(b, d) - (IF d = c THEN p ELSE 0)
    <3>1. Wealth(b, d) \in Nat
      BY WealthType
    <3> QED BY <2>5, <2>6, <3>1
  <2> QED BY <2>5, <2>7, <2>8
<1>2. [](TypeOK /\ TeamWellFormed /\ Custody) /\ [][Next]_vars => [][Fair]_vars
  BY <1>1, PTL
<1>3. Spec => [][Fair]_vars
  BY <1>2, StatesAreSound, PTL DEF Spec
<1> QED BY <1>3 DEF FairExchange

-----------------------------------------------------------------------------
(* Escrow.                                                                  *)

\* What EscrowServesOwner says of one user and currency.
Serves(u, c) ==
    escrow'[u][c] < escrow[u][c]
      => \/ wallet'[u][c] = wallet[u][c] + (escrow[u][c] - escrow'[u][c])
         \/ \E n \in NFTs :
               /\ holder[n] = Vault /\ holder'[n] = u
               /\ offer[n][u].active = 1 /\ offer'[n][u].active = 0
               /\ offer[n][u].by_token = c
               /\ escrow'[u][c] = escrow[u][c] - offer[n][u].offer_price

\* A balance that does not fall serves its owner.
LEMMA NoFallServes ==
    ASSUME TypeOK, TypeOK', NEW u \in Users, NEW c \in Currency,
           escrow[u][c] <= escrow'[u][c]
    PROVE  Serves(u, c)
BY PurseType, PurseTypeNext DEF Serves

\* All instructions but four leave every escrow balance alone.
LEMMA EscrowStays ==
    /\ \A admin \in Admins : AdminNext(admin) => UNCHANGED escrow
    /\ Tick /\ UNCHANGED AboveLedger => UNCHANGED escrow
    /\ \A n \in NFTs : NftNext(n) => UNCHANGED escrow
    /\ \A u \in Users, n \in NFTs : SaleNext(u, n) => UNCHANGED escrow
    /\ \A u \in Users, n \in NFTs : AuctionNext(u, n) => UNCHANGED escrow
<1>1. ASSUME NEW admin \in Admins, AdminNext(admin) PROVE UNCHANGED escrow
  <2>1. UNCHANGED AboveTeam
    BY <1>1 DEF AdminNext
  <2> QED BY <2>1 DEF AboveTeam, userVars
<1>2. ASSUME Tick, UNCHANGED AboveLedger PROVE UNCHANGED escrow
  BY <1>2 DEF AboveLedger, userVars
<1>3. ASSUME NEW n \in NFTs, NftNext(n) PROVE UNCHANGED escrow
  BY <1>3 DEF NftNext, InitSellData, InitAuctionData, AboveLedger, userVars
<1>4. ASSUME NEW u \in Users, NEW n \in NFTs, SaleNext(u, n) PROVE UNCHANGED escrow
  <2>1. ASSUME NEW price, List(u, n, price) PROVE UNCHANGED escrow
    BY <2>1 DEF List, userVars
  <2>2. ASSUME Delist(u, n) PROVE UNCHANGED escrow
    BY <2>2 DEF Delist, userVars
  <2>3. ASSUME NEW c \in Currency, Purchase(u, n, c) PROVE UNCHANGED escrow
    BY <2>3 DEF Purchase
  <2> QED BY <1>4, <2>1, <2>2, <2>3 DEF SaleNext
<1>5. ASSUME NEW u \in Users, NEW n \in NFTs, AuctionNext(u, n) PROVE UNCHANGED escrow
  <2>1. ASSUME NEW start_price, NEW min_increase, NEW c, NEW end_date,
               CreateAuction(u, n, start_price, min_increase, c, end_date)
        PROVE  UNCHANGED escrow
    BY <2>1 DEF CreateAuction, userVars
  <2>2. ASSUME NEW price, PlaceBid(u, n, price) PROVE UNCHANGED escrow
    BY <2>2 DEF PlaceBid, userVars
  <2>3. ASSUME ClaimAuction(u, n) PROVE UNCHANGED escrow
    BY <2>3 DEF ClaimAuction
  <2>4. ASSUME CancelAuction(u, n) PROVE UNCHANGED escrow
    BY <2>4 DEF CancelAuction, userVars
  <2> QED BY <1>5, <2>1, <2>2, <2>3, <2>4 DEF AuctionNext
<1> QED BY <1>1, <1>2, <1>3, <1>4, <1>5

\* A deposit raises its owner's balance; a withdrawal lowers it by what it pays him.
LEMMA UserServes ==
    ASSUME TypeOK, TypeOK', NEW v \in Users, UserNext(v), NEW u \in Users, NEW c \in Currency
    PROVE  Serves(u, c)
<1>0. /\ wallet \in [Wallets -> [Currency -> Nat]]
      /\ escrow \in [Users -> [Currency -> 0..MAX_U64]]
      /\ Users \subseteq Wallets
      /\ wallet[u][c] \in Nat /\ escrow[u][c] \in Nat
  BY PurseType DEF TypeOK, LedgerTypeOK, EscrowTypeOK, Wallets
<1>1. CASE escrow' = escrow
  BY <1>0, <1>1, NoFallServes
<1>2. ASSUME NEW amount \in [Currency -> Amounts], Deposit(v, amount)
      PROVE  Serves(u, c)
  <2>1. amount[c] \in Nat
    BY AmountType
  <2>2. escrow' = [escrow EXCEPT ![v] = [d \in Currency |-> escrow[v][d] + amount[d]]]
    BY <1>2 DEF Deposit
  <2>3. escrow'[u][c] = IF u = v THEN escrow[u][c] + amount[c] ELSE escrow[u][c]
    BY <1>0, <2>2
  <2> QED BY <1>0, <2>1, <2>3, NoFallServes
<1>3. ASSUME NEW amount \in [Currency -> Amounts], Withdraw(v, amount)
      PROVE  Serves(u, c)
  <2>1. amount[c] \in Nat
    BY AmountType
  <2>2. /\ escrow' = [escrow EXCEPT ![v] = [d \in Currency |-> escrow[v][d] - amount[d]]]
        /\ wallet' = [wallet EXCEPT ![v] = [d \in Currency |-> wallet[v][d] + amount[d]]]
    BY <1>3 DEF Withdraw, PayOut
  <2>3. CASE u = v
    <3>1. /\ escrow'[u][c] = escrow[u][c] - amount[c]
          /\ wallet'[u][c] = wallet[u][c] + amount[c]
      BY <1>0, <2>2, <2>3
    <3>2. wallet'[u][c] = wallet[u][c] + (escrow[u][c] - escrow'[u][c])
      BY <1>0, <2>1, <3>1
    <3> QED BY <3>2 DEF Serves
  <2>4. CASE u # v
    <3>1. escrow'[u][c] = escrow[u][c]
      BY <1>0, <2>2, <2>4
    <3> QED BY <1>0, <3>1, NoFallServes
  <2> QED BY <2>3, <2>4
<1> QED BY <1>1, <1>2, <1>3 DEF UserNext, InitUserPool

\* An offer puts its price into escrow, a cancelled one leaves it there, and an accepted
\* one takes it, also when the seller accepts an offer of his own.
LEMMA OfferServes ==
    ASSUME TypeOK, TypeOK', NEW v \in Users, NEW n \in NFTs, OfferNext(v, n),
           NEW u \in Users, NEW c \in Currency
    PROVE  Serves(u, c)
<1>0. /\ escrow \in [Users -> [Currency -> 0..MAX_U64]]
      /\ escrow[u][c] \in Nat
  BY PurseType DEF TypeOK, EscrowTypeOK
<1>1. CASE escrow' = escrow
  BY <1>0, <1>1, NoFallServes
<1>2. ASSUME NEW price \in OfferPrices, NEW d \in Currency, MakeOffer(v, n, price, d)
      PROVE  Serves(u, c)
  <2>1. price \in Nat
    BY OffersAssumption, TeamAssumption
  <2>2. escrow' = [escrow EXCEPT ![v][d] = escrow[v][d] + price]
    BY <1>2 DEF MakeOffer
  <2>3. escrow'[u][c] = IF u = v /\ c = d THEN escrow[u][c] + price ELSE escrow[u][c]
    BY <1>0, <2>2
  <2> QED BY <1>0, <2>1, <2>3, NoFallServes
<1>3. ASSUME NEW b \in Users, AcceptOffer(v, n, b) PROVE Serves(u, c)
  <2> DEFINE d == offer[n][b].by_token
             p == offer[n][b].offer_price
  <2>1. d \in Currency /\ p \in Nat
    BY TeamAssumption DEF TypeOK, OffersTypeOK, OfferData
  <2>2. /\ offer[n][b].active = 1
        /\ holder[n] = Vault
        /\ escrow' = [escrow EXCEPT ![b][d] = escrow[b][d] - p]
        /\ offer' = [offer EXCEPT ![n][b].active = 0]
        /\ holder' = [holder EXCEPT ![n] = b]
    BY <1>3 DEF AcceptOffer
  <2>3. CASE u = b /\ c = d
    <3>1. escrow'[u][c] = escrow[u][c] - p
      <4> HIDE DEF d, p
      <4> QED BY <1>0, <2>1, <2>2, <2>3
    <3>2. holder'[n] = u
      BY <2>2, <2>3 DEF TypeOK, LedgerTypeOK
    <3>3. offer'[n][u].active = 0
      BY <2>2, <2>3 DEF TypeOK, OffersTypeOK, OfferData
    <3> QED BY <2>2, <2>3, <3>1, <3>2, <3>3 DEF Serves
  <2>4. CASE ~ (u = b /\ c = d)
    <3>1. escrow'[u][c] = escrow[u][c]
      <4> HIDE DEF d, p
      <4> QED BY <1>0, <2>1, <2>2, <2>4
    <3> QED BY <1>0, <3>1, NoFallServes
  <2> QED BY <2>3, <2>4
<1> QED BY <1>1, <1>2, <1>3 DEF OfferNext, InitOfferData, CancelOffer, userVars

\* In every behaviour, for any number of users and NFTs, all prices, fees and rates: what
\* leaves a user's escrow goes to his wallet, or pays once, by the price he offered, for
\* an NFT that comes to him.
THEOREM EscrowAlwaysServes == Spec => EscrowServesOwner
<1> DEFINE Served == \A u \in Users, c \in Currency : Serves(u, c)
<1>1. TypeOK /\ TypeOK' /\ Next => Served
  <2> SUFFICES ASSUME TypeOK, TypeOK', Next, NEW u \in Users, NEW c \in Currency
               PROVE  Serves(u, c)
    OBVIOUS
  <2>1. CASE UNCHANGED escrow
    <3>1. escrow[u][c] <= escrow'[u][c]
      BY <2>1, PurseType
    <3> QED BY <3>1, NoFallServes
  <2>2. ASSUME NEW v \in Users, UserNext(v) PROVE Serves(u, c)
    BY <2>2, UserServes
  <2>3. ASSUME NEW v \in Users, NEW n \in NFTs, OfferNext(v, n) PROVE Serves(u, c)
    BY <2>3, OfferServes
  <2> QED BY <2>1, <2>2, <2>3, EscrowStays DEF Next
<1>2. [](TypeOK) /\ [][Next]_vars => [][Served]_vars
  BY <1>1, PTL
<1>3. Spec => [][Served]_vars
  BY <1>2, TypeCorrect, PTL DEF Spec
<1> QED BY <1>3 DEF EscrowServesOwner, Serves
=============================================================================
