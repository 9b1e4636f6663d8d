------------------------- MODULE MarketplaceProofs --------------------------
(***************************************************************************)
(* Type correctness and custody of the whole program, for any number of    *)
(* users, NFTs and treasuries and for all prices and amounts.              *)
(***************************************************************************)
EXTENDS Marketplace, TeamTreasuryProofs

-----------------------------------------------------------------------------
(* The helpers that move money keep the ledger's types.                     *)

LEMMA PayInType ==
    ASSUME LedgerTypeOK, NEW u \in Users, NEW amount \in [Currency -> Nat],
           PayIn(u, amount)
    PROVE  /\ wallet' \in [Wallets -> [Currency -> Nat]]
           /\ vault' \in [Currency -> Nat]
<1>1. u \in Wallets /\ wallet[u] \in [Currency -> Nat]
  BY DEF LedgerTypeOK, Wallets
<1>2. [c \in Currency |-> wallet[u][c] - amount[c]] \in [Currency -> Nat]
  <2>1. ASSUME NEW c \in Currency PROVE wallet[u][c] - amount[c] \in Nat
    <3>1. wallet[u][c] \in Nat /\ amount[c] \in Nat /\ amount[c] <= wallet[u][c]
      BY <1>1 DEF PayIn
    <3> QED BY <3>1
  <2> QED BY <2>1
<1>3. wallet' = [wallet EXCEPT ![u] = [c \in Currency |-> wallet[u][c] - amount[c]]]
  BY DEF PayIn
<1> QED BY <1>1, <1>2, <1>3 DEF LedgerTypeOK, PayIn

LEMMA PayOutType ==
    ASSUME LedgerTypeOK, NEW u \in Users, NEW amount \in [Currency -> Nat],
           PayOut(u, amount)
    PROVE  /\ wallet' \in [Wallets -> [Currency -> Nat]]
           /\ vault' \in [Currency -> Nat]
<1>1. u \in Wallets /\ wallet[u] \in [Currency -> Nat]
  BY DEF LedgerTypeOK, Wallets
<1>2. [c \in Currency |-> wallet[u][c] + amount[c]] \in [Currency -> Nat]
  BY <1>1
<1>3. wallet' = [wallet EXCEPT ![u] = [c \in Currency |-> wallet[u][c] + amount[c]]]
  BY DEF PayOut
<1>4. [c \in Currency |-> vault[c] - amount[c]] \in [Currency -> Nat]
  <2>1. ASSUME NEW c \in Currency PROVE vault[c] - amount[c] \in Nat
    <3>1. vault[c] \in Nat /\ amount[c] \in Nat /\ amount[c] <= vault[c]
      BY DEF PayOut, LedgerTypeOK
    <3> QED BY <3>1
  <2> QED BY <2>1
<1> QED BY <1>1, <1>2, <1>3, <1>4 DEF LedgerTypeOK, PayOut

\* What the treasuries receive is made of naturals.
LEMMA TreasuryCreditType ==
    ASSUME TeamTypeOK, NEW w, NEW fee \in Nat
    PROVE  TreasuryCredit(w, fee) \in Nat
<1> DEFINE s == [i \in Slots |-> IF i < team_count /\ team_treasury[i] = w
                                 THEN Share(fee, i) ELSE 0]
<1>1. s \in [Slots -> Nat]
  BY ShareBounds
<1> HIDE DEF s
<1>2. SumSlots(s) \in Nat
  BY <1>1, SumSlotsNat
<1> QED BY <1>2 DEF TreasuryCredit, s

LEMMA SharesPaidType ==
    ASSUME TeamTypeOK, NEW fee \in Nat
    PROVE  SharesPaid(fee) \in Nat
<1> DEFINE s == [i \in Slots |-> IF i < team_count THEN Share(fee, i) ELSE 0]
<1>1. s \in [Slots -> Nat]
  BY ShareBounds
<1> HIDE DEF s
<1>2. SumSlots(s) \in Nat
  BY <1>1, SumSlotsNat
<1> QED BY <1>2 DEF SharesPaid, s

LEMMA SaleTypes ==
    ASSUME TeamTypeOK, NEW w, NEW seller, NEW price \in Nat, NEW c \in Currency
    PROVE  /\ SaleCredit(w, seller, price, c) \in Nat
           /\ SaleCost(price, c) \in Nat
           /\ Proceeds(price, c) \in Nat
           /\ SharesPaid(FeeAmount(price, c)) \in Nat
           /\ SaleCost(price, c) = Proceeds(price, c) + SharesPaid(FeeAmount(price, c))
           /\ w = seller => SaleCredit(w, seller, price, c) >= Proceeds(price, c)
<1>1. FeeAmount(price, c) \in Nat /\ Proceeds(price, c) \in Nat
  BY FeeWithinPrice
<1>2. /\ TreasuryCredit(w, FeeAmount(price, c)) \in Nat
      /\ SharesPaid(FeeAmount(price, c)) \in Nat
  BY <1>1, TreasuryCreditType, SharesPaidType
<1> QED BY <1>1, <1>2 DEF SaleCredit, SaleCost

LEMMA SaleFromVaultType ==
    ASSUME TeamTypeOK, LedgerTypeOK, NEW seller, NEW price \in Nat, NEW c \in Currency,
           SaleFromVault(seller, price, c)
    PROVE  /\ wallet' \in [Wallets -> [Currency -> Nat]]
           /\ vault' \in [Currency -> Nat]
<1>1. ASSUME NEW w \in Wallets
      PROVE  [wallet[w] EXCEPT ![c] = @ + SaleCredit(w, seller, price, c)] \in [Currency -> Nat]
  <2>1. SaleCredit(w, seller, price, c) \in Nat
    BY SaleTypes
  <2>2. wallet[w] \in [Currency -> Nat]
    BY DEF LedgerTypeOK
  <2> QED BY <2>1, <2>2
<1>2. vault[c] - SaleCost(price, c) \in Nat
  <2>1. SaleCost(price, c) \in Nat /\ vault[c] \in Nat /\ SaleCost(price, c) <= vault[c]
    BY SaleTypes DEF LedgerTypeOK, SaleFromVault
  <2> QED BY <2>1
<1>3. /\ wallet' = [w \in Wallets |->
                     [wallet[w] EXCEPT ![c] = @ + SaleCredit(w, seller, price, c)]]
      /\ vault' = [vault EXCEPT ![c] = vault[c] - SaleCost(price, c)]
  BY DEF SaleFromVault
<1>4. vault \in [Currency -> Nat]
  BY DEF LedgerTypeOK
<1> QED BY <1>1, <1>2, <1>3, <1>4

LEMMA SaleFromWalletType ==
    ASSUME TeamTypeOK, LedgerTypeOK, NEW buyer \in Users, NEW seller,
           NEW price \in Nat, NEW c \in Currency,
           SaleFromWallet(buyer, seller, price, c)
    PROVE  /\ wallet' \in [Wallets -> [Currency -> Nat]]
           /\ vault' \in [Currency -> Nat]
<1> DEFINE cost(w) == IF w = buyer THEN SaleCost(price, c) ELSE 0
<1>1. ASSUME NEW w \in Wallets
      PROVE  [wallet[w] EXCEPT ![c] = @ + SaleCredit(w, seller, price, c) - cost(w)]
                 \in [Currency -> Nat]
  <2>1. /\ SaleCredit(w, seller, price, c) \in Nat
        /\ SaleCost(price, c) \in Nat
        /\ Proceeds(price, c) \in Nat
        /\ SharesPaid(FeeAmount(price, c)) \in Nat
        /\ SaleCost(price, c) = Proceeds(price, c) + SharesPaid(FeeAmount(price, c))
        /\ w = seller => SaleCredit(w, seller, price, c) >= Proceeds(price, c)
    BY SaleTypes
  <2>2. wallet[w] \in [Currency -> Nat] /\ wallet[w][c] \in Nat
    BY DEF LedgerTypeOK
  <2>3. wallet[w][c] + SaleCredit(w, seller, price, c) - cost(w) \in Nat
    <3>1. CASE w # buyer
      BY <2>1, <2>2, <3>1
    <3>2. CASE w = buyer /\ buyer = seller
      <4>1. SharesPaid(FeeAmount(price, c)) <= wallet[w][c]
        BY <3>2 DEF SaleFromWallet
      <4> QED BY <2>1, <2>2, <3>2, <4>1
    <3>3. CASE w = buyer /\ buyer # seller
      <4>1. SaleCost(price, c) <= wallet[w][c]
        BY <3>3 DEF SaleFromWallet
      <4> QED BY <2>1, <2>2, <3>3, <4>1
    <3> QED BY <3>1, <3>2, <3>3
  <2> HIDE DEF cost
  <2> QED BY <2>2, <2>3
<1>2. /\ wallet' = [w \in Wallets |->
                     [wallet[w] EXCEPT ![c] = @ + SaleCredit(w, seller, price, c) - cost(w)]]
      /\ vault' = vault
  BY DEF SaleFromWallet
<1> HIDE DEF cost
<1> QED BY <1>1, <1>2 DEF LedgerTypeOK

LEMMA AddVolumeType ==
    ASSUME EscrowTypeOK, NEW parties \in SUBSET Users, NEW c \in Currency, NEW price \in Nat,
           AddVolume(parties, c, price)
    PROVE  traded' \in [Users -> [Currency -> 0..MAX_U64]]
<1> USE TeamAssumption
<1>1. ASSUME NEW u \in Users, u \in parties
      PROVE  [traded[u] EXCEPT ![c] = @ + price] \in [Currency -> 0..MAX_U64]
  <2>1. traded[u] \in [Currency -> 0..MAX_U64] /\ traded[u][c] + price <= MAX_U64
    BY <1>1 DEF EscrowTypeOK, AddVolume
  <2> QED BY <2>1
<1>2. \A u \in Users : traded[u] \in [Currency -> 0..MAX_U64]
  BY DEF EscrowTypeOK
<1> QED BY <1>1, <1>2 DEF AddVolume

-----------------------------------------------------------------------------
(* Every instruction keeps every account within its type.  Each lemma is    *)
(* about the instructions of one component and needs only the types of the  *)
(* accounts these write.                                                    *)

\* What a step leaves alone keeps its type.
LEMMA UnchangedTypes ==
    /\ TeamTypeOK /\ UNCHANGED globalVars => TeamTypeOK'
    /\ LedgerTypeOK /\ UNCHANGED ledgerVars => LedgerTypeOK'
    /\ EscrowTypeOK /\ UNCHANGED userVars => EscrowTypeOK'
    /\ ListingTypeOK /\ UNCHANGED sellVars => ListingTypeOK'
    /\ OffersTypeOK /\ UNCHANGED offerVars => OffersTypeOK'
    /\ AuctionsTypeOK /\ UNCHANGED auctionVars => AuctionsTypeOK'
<1>1. TeamTypeOK /\ UNCHANGED globalVars => TeamTypeOK'
  BY DEF TeamTypeOK, globalVars
<1>2. LedgerTypeOK /\ UNCHANGED ledgerVars => LedgerTypeOK'
  BY DEF LedgerTypeOK, ledgerVars
<1>3. EscrowTypeOK /\ UNCHANGED userVars => EscrowTypeOK'
  BY DEF EscrowTypeOK, userVars
<1>4. ListingTypeOK /\ UNCHANGED sellVars => ListingTypeOK'
  BY DEF ListingTypeOK, sellVars
<1>5. OffersTypeOK /\ UNCHANGED offerVars => OffersTypeOK'
  BY DEF OffersTypeOK, offerVars
<1>6. AuctionsTypeOK /\ UNCHANGED auctionVars => AuctionsTypeOK'
  BY DEF AuctionsTypeOK, auctionVars
<1> QED BY <1>1, <1>2, <1>3, <1>4, <1>5, <1>6

\* The initial state is well typed.
LEMMA TypeInit == Init => TypeOK
<1> SUFFICES ASSUME Init PROVE TypeOK
  OBVIOUS
<1>1. TeamTypeOK
  BY TeamTypeInit DEF Init
<1>2. LedgerTypeOK
  BY LedgerAssumption DEF Init, LedgerInit, LedgerTypeOK
<1>3. EscrowTypeOK
  BY TeamAssumption DEF Init, EscrowInit, EscrowTypeOK
<1>4. ListingTypeOK
  BY TeamAssumption, LedgerAssumption
  DEF Init, ListingInit, ListingTypeOK, NoListing, SellData
<1>5. OffersTypeOK
  BY TeamAssumption, LedgerAssumption
  DEF Init, OffersInit, OffersTypeOK, NoOffer, OfferData, Currency
<1>6. AuctionsTypeOK
  BY TeamAssumption, LedgerAssumption
  DEF Init, AuctionsInit, AuctionsTypeOK, NoAuction, AuctionData, Currency
<1> QED BY <1>1, <1>2, <1>3, <1>4, <1>5, <1>6 DEF TypeOK

\* Instructions of the administrator.
LEMMA AdminTypes ==
    ASSUME TypeOK, NEW admin \in Admins, AdminNext(admin)
    PROVE  TypeOK'
<1>1. TeamNext /\ UNCHANGED AboveTeam
  BY DEF AdminNext, TeamNext
<1>2. TeamTypeOK'
  BY <1>1, TeamTypeNext DEF TypeOK
<1> QED BY <1>1, <1>2, UnchangedTypes DEF TypeOK, AboveTeam

\* Time and hand-to-hand transfers.
LEMMA TickTypes ==
    ASSUME TypeOK, Tick, UNCHANGED AboveLedger
    PROVE  TypeOK'
<1>1. LedgerTypeOK'
  BY LedgerAssumption DEF TypeOK, Tick, LedgerTypeOK
<1> QED BY <1>1, UnchangedTypes DEF TypeOK, AboveLedger

LEMMA NftTypes ==
    ASSUME TypeOK, NEW n \in NFTs, NftNext(n)
    PROVE  TypeOK'
<1>1. CASE InitSellData(n) /\ UNCHANGED AboveListing
  <2>1. ListingTypeOK'
    BY <1>1 DEF TypeOK, InitSellData, ListingTypeOK
  <2> QED BY <1>1, <2>1, UnchangedTypes DEF TypeOK, InitSellData, AboveListing
<1>2. CASE InitAuctionData(n)
  <2>1. AuctionsTypeOK'
    BY <1>2 DEF TypeOK, InitAuctionData, AuctionsTypeOK
  <2> QED BY <1>2, <2>1, UnchangedTypes DEF TypeOK, InitAuctionData
<1>3. ASSUME NEW from \in Users, NEW to \in Users,
             TransferNft(n, from, to), UNCHANGED AboveLedger
      PROVE  TypeOK'
  <2>1. LedgerTypeOK'
    BY <1>3 DEF TypeOK, TransferNft, LedgerTypeOK
  <2> QED BY <1>3, <2>1, UnchangedTypes DEF TypeOK, AboveLedger
<1> QED BY <1>1, <1>2, <1>3 DEF NftNext

\* Amounts are naturals.
LEMMA AmountType ==
    ASSUME NEW amount \in [Currency -> Amounts]
    PROVE  amount \in [Currency -> Nat]
<1>1. \A x \in Amounts : x \in Nat
  BY EscrowAssumption, TeamAssumption
<1>2. \A c \in Currency : amount[c] \in Nat
  BY <1>1
<1> QED BY <1>2

\* The escrow balance after an amount is added to it or taken from it.
LEMMA UserTypes ==
    ASSUME TypeOK, NEW u \in Users, UserNext(u)
    PROVE  TypeOK'
<1> USE TeamAssumption
<1>1. CASE InitUserPool(u) /\ UNCHANGED AboveEscrow
  <2>1. EscrowTypeOK'
    BY <1>1 DEF TypeOK, InitUserPool, EscrowTypeOK
  <2> QED BY <1>1, <2>1, UnchangedTypes DEF TypeOK, InitUserPool, AboveEscrow
<1>2. ASSUME NEW amount \in [Currency -> Amounts], Deposit(u, amount), UNCHANGED AboveEscrow
      PROVE  TypeOK'
  <2>1. amount \in [Currency -> Nat] /\ escrow[u] \in [Currency -> 0..MAX_U64]
    BY AmountType DEF TypeOK, EscrowTypeOK
  <2>2. LedgerTypeOK'
    BY <1>2, <2>1, PayInType DEF Deposit, TypeOK, LedgerTypeOK
  <2>3. [c \in Currency |-> escrow[u][c] + amount[c]] \in [Currency -> 0..MAX_U64]
    BY <1>2, <2>1 DEF Deposit
  <2>4. EscrowTypeOK'
    BY <1>2, <2>3 DEF Deposit, TypeOK, EscrowTypeOK
  <2> QED BY <1>2, <2>2, <2>4, UnchangedTypes DEF TypeOK, Deposit, AboveEscrow
<1>3. ASSUME NEW amount \in [Currency -> Amounts], Withdraw(u, amount), UNCHANGED AboveEscrow
      PROVE  TypeOK'
  <2>1. amount \in [Currency -> Nat] /\ escrow[u] \in [Currency -> 0..MAX_U64]
    BY AmountType DEF TypeOK, EscrowTypeOK
  <2>2. LedgerTypeOK'
    BY <1>3, <2>1, PayOutType DEF Withdraw, TypeOK, LedgerTypeOK
  <2>3. [c \in Currency |-> escrow[u][c] - amount[c]] \in [Currency -> 0..MAX_U64]
    BY <1>3, <2>1 DEF Withdraw
  <2>4. EscrowTypeOK'
    BY <1>3, <2>3 DEF Withdraw, TypeOK, EscrowTypeOK
  <2> QED BY <1>3, <2>2, <2>4, UnchangedTypes DEF TypeOK, Withdraw, AboveEscrow
<1> QED BY <1>1, <1>2, <1>3 DEF UserNext

\* Fixed-price sales.
LEMMA SaleNextTypes ==
    ASSUME TypeOK, NEW u \in Users, NEW n \in NFTs, SaleNext(u, n)
    PROVE  TypeOK'
<1> USE DEF TypeOK
<1>1. ASSUME NEW price \in [Currency -> Prices], List(u, n, price), UNCHANGED AboveListing
      PROVE  TypeOK'
  <2>1. [seller |-> u, price |-> price, listed_date |-> clock, active |-> 1] \in SellData
    BY ListingAssumption DEF SellData, LedgerTypeOK
  <2>2. ListingTypeOK'
    BY <1>1, <2>1 DEF List, ListingTypeOK
  <2>3. LedgerTypeOK'
    BY <1>1 DEF List, LedgerTypeOK
  <2> QED BY <1>1, <2>2, <2>3, UnchangedTypes DEF List, AboveListing
<1>2. CASE Delist(u, n) /\ UNCHANGED AboveListing
  <2>1. [sell[n] EXCEPT !.active = 0] \in SellData
    BY DEF SellData, ListingTypeOK
  <2>2. ListingTypeOK'
    BY <1>2, <2>1 DEF Delist, ListingTypeOK
  <2>3. LedgerTypeOK'
    BY <1>2 DEF Delist, LedgerTypeOK
  <2> QED BY <1>2, <2>2, <2>3, UnchangedTypes DEF Delist, AboveListing
<1>3. ASSUME NEW c \in Currency, Purchase(u, n, c), UNCHANGED AboveListing
      PROVE  TypeOK'
  <2> DEFINE seller == sell[n].seller
             price  == sell[n].price[c]
  <2>1. sell[n] \in SellData /\ price \in Nat
    BY TeamAssumption DEF SellData, ListingTypeOK
  <2>2. [sell[n] EXCEPT !.active = 0] \in SellData
    BY <2>1 DEF SellData
  <2>3. ListingTypeOK'
    BY <1>3, <2>2 DEF Purchase, ListingTypeOK
  <2>4. /\ SaleFromWallet(u, seller, price, c)
        /\ AddVolume({u, seller}, c, price)
        /\ {u, seller} \subseteq Users
    BY <1>3 DEF Purchase, EscrowTypeOK
  <2>5. EscrowTypeOK'
    BY <1>3, <2>1, <2>4, AddVolumeType DEF Purchase, EscrowTypeOK
  <2>6. LedgerTypeOK'
    BY <1>3, <2>1, <2>4, SaleFromWalletType DEF Purchase, LedgerTypeOK
  <2> QED BY <1>3, <2>3, <2>5, <2>6, UnchangedTypes DEF Purchase, AboveListing
<1> QED BY <1>1, <1>2, <1>3 DEF SaleNext

\* Offers.
LEMMA OfferTypes ==
    ASSUME TypeOK, NEW u \in Users, NEW n \in NFTs, OfferNext(u, n)
    PROVE  TypeOK'
<1> USE DEF TypeOK
<1>1. CASE InitOfferData(u, n) /\ UNCHANGED auctionVars
  <2>1. OffersTypeOK'
    BY <1>1 DEF InitOfferData, OffersTypeOK
  <2> QED BY <1>1, <2>1, UnchangedTypes DEF InitOfferData
<1>2. ASSUME NEW price \in OfferPrices, NEW c \in Currency,
             MakeOffer(u, n, price, c), UNCHANGED auctionVars
      PROVE  TypeOK'
  <2>1. price \in 0..MAX_U64 /\ price \in Nat
    BY OffersAssumption, TeamAssumption
  <2>2. [offer_price        |-> price,
         offer_listing_date |-> sell[n].listed_date,
         by_token           |-> c,
         active             |-> 1] \in OfferData
    BY <2>1 DEF ListingTypeOK, SellData, OfferData
  <2>3. OffersTypeOK'
    BY <1>2, <2>2 DEF MakeOffer, OffersTypeOK
  <2>4. Only(c, price) \in [Currency -> Nat]
    BY <2>1 DEF Only
  <2>5. LedgerTypeOK'
    BY <1>2, <2>4, PayInType DEF MakeOffer, LedgerTypeOK
  <2>6. escrow[u] \in [Currency -> 0..MAX_U64] /\ escrow[u][c] + price \in 0..MAX_U64
    BY <1>2, <2>1, TeamAssumption DEF MakeOffer, EscrowTypeOK
  <2>7. EscrowTypeOK'
    BY <1>2, <2>6 DEF MakeOffer, EscrowTypeOK
  <2> QED BY <1>2, <2>3, <2>5, <2>7, UnchangedTypes DEF MakeOffer
<1>3. CASE CancelOffer(u, n) /\ UNCHANGED auctionVars
  <2>1. [offer[n][u] EXCEPT !.active = 0] \in OfferData
    BY DEF OffersTypeOK, OfferData
  <2>2. OffersTypeOK'
    BY <1>3, <2>1 DEF CancelOffer, OffersTypeOK
  <2> QED BY <1>3, <2>2, UnchangedTypes DEF CancelOffer
<1>4. ASSUME NEW buyer \in Users, AcceptOffer(u, n, buyer), UNCHANGED auctionVars
      PROVE  TypeOK'
  <2> DEFINE o == offer[n][buyer]
             c == o.by_token
             price == o.offer_price
  <2>1. o \in OfferData /\ c \in Currency /\ price \in Nat
    BY TeamAssumption DEF OffersTypeOK, OfferData
  <2>2. [o EXCEPT !.active = 0] \in OfferData
    BY <2>1 DEF OfferData
  <2>3. OffersTypeOK'
    BY <1>4, <2>2 DEF AcceptOffer, OffersTypeOK
  <2>4. [sell[n] EXCEPT !.active = 0] \in SellData
    BY DEF SellData, ListingTypeOK
  <2>5. ListingTypeOK'
    BY <1>4, <2>4 DEF AcceptOffer, ListingTypeOK
  <2>6. /\ SaleFromVault(u, price, c)
        /\ AddVolume({buyer, u}, c, price)
        /\ price <= escrow[buyer][c]
        /\ escrow' = [escrow EXCEPT ![buyer][c] = escrow[buyer][c] - price]
    BY <1>4 DEF AcceptOffer
  <2>7. LedgerTypeOK'
    BY <1>4, <2>1, <2>6, SaleFromVaultType DEF AcceptOffer, LedgerTypeOK
  <2>8. traded' \in [Users -> [Currency -> 0..MAX_U64]]
    BY <2>1, <2>6, AddVolumeType
  <2>9. escrow[buyer] \in [Currency -> 0..MAX_U64] /\ escrow[buyer][c] - price \in 0..MAX_U64
    BY <2>1, <2>6, TeamAssumption DEF EscrowTypeOK
  <2>10. escrow' \in [Users -> [Currency -> 0..MAX_U64]]
    <3> HIDE DEF c, price
    <3> QED BY <2>6, <2>9 DEF EscrowTypeOK
  <2>11. EscrowTypeOK'
    BY <1>4, <2>8, <2>10 DEF AcceptOffer, EscrowTypeOK
  <2> QED BY <1>4, <2>3, <2>5, <2>7, <2>11, UnchangedTypes DEF AcceptOffer
<1> QED BY <1>1, <1>2, <1>3, <1>4 DEF OfferNext

\* Auctions.
LEMMA AuctionTypes ==
    ASSUME TypeOK, NEW u \in Users, NEW n \in NFTs, AuctionNext(u, n)
    PROVE  TypeOK'
<1> USE DEF TypeOK
<1>1. ASSUME NEW start_price \in StartPrices, NEW min_increase \in Increases,
             NEW c \in Currency, NEW end_date \in 0..MaxTime,
             CreateAuction(u, n, start_price, min_increase, c, end_date)
      PROVE  TypeOK'
  <2>1. [creator             |-> u,
         start_price         |-> start_price,
         min_increase_amount |-> min_increase,
         by_token            |-> c,
         end_date            |-> end_date,
         last_bidder         |-> Default,
         highest_bid         |-> start_price,
         status              |-> 1] \in AuctionData
    BY AuctionsAssumption DEF AuctionData
  <2>2. AuctionsTypeOK'
    BY <1>1, <2>1 DEF CreateAuction, AuctionsTypeOK
  <2>3. LedgerTypeOK'
    BY <1>1 DEF CreateAuction, LedgerTypeOK
  <2> QED BY <1>1, <2>2, <2>3, UnchangedTypes DEF CreateAuction
<1>2. ASSUME NEW price \in BidPrices, PlaceBid(u, n, price)
      PROVE  TypeOK'
  <2> DEFINE a == auction[n]
             c == a.by_token
             refund == IF HasBid(n) THEN a.highest_bid ELSE 0
             credit(w) == (IF w = a.last_bidder THEN refund ELSE 0)
             cost(w) == IF w = u THEN price ELSE 0
  <2>1. /\ a \in AuctionData
        /\ c \in Currency
        /\ refund \in Nat
        /\ price \in 0..MAX_U64
        /\ price \in Nat
    BY AuctionsAssumption, TeamAssumption DEF AuctionsTypeOK, AuctionData
  <2>2. /\ refund <= vault[c]
        /\ price <= wallet[u][c]
        /\ wallet' = [w \in Wallets |-> [wallet[w] EXCEPT ![c] = @ + credit(w) - cost(w)]]
        /\ vault' = [vault EXCEPT ![c] = vault[c] - refund + price]
        /\ auction' = [auction EXCEPT ![n] = [a EXCEPT !.last_bidder = u,
                                                       !.highest_bid = price]]
    BY <1>2 DEF PlaceBid
  <2>3. [a EXCEPT !.last_bidder = u, !.highest_bid = price] \in AuctionData
    BY <2>1 DEF AuctionData
  <2>4. AuctionsTypeOK'
    BY <1>2, <2>2, <2>3 DEF PlaceBid, AuctionsTypeOK
  <2>5. \A w \in Wallets : /\ wallet[w] \in [Currency -> Nat]
                           /\ wallet[w][c] + credit(w) - cost(w) \in Nat
    <3>1. SUFFICES ASSUME NEW w \in Wallets
                   PROVE  /\ wallet[w] \in [Currency -> Nat]
                          /\ wallet[w][c] + credit(w) - cost(w) \in Nat
      OBVIOUS
    <3>2. wallet[w] \in [Currency -> Nat] /\ wallet[w][c] \in Nat
      BY <2>1 DEF LedgerTypeOK
    <3>3. credit(w) \in Nat
      BY <2>1
    <3>4. cost(w) \in Nat /\ cost(w) <= wallet[w][c]
      BY <2>1, <2>2, <3>2
    <3> HIDE DEF credit, cost, c
    <3> QED BY <3>2, <3>3, <3>4
  <2>6. wallet' \in [Wallets -> [Currency -> Nat]]
    <3> HIDE DEF credit, cost, c
    <3> QED BY <2>2, <2>5
  <2>7. vault' \in [Currency -> Nat]
    <3>1. vault \in [Currency -> Nat] /\ vault[c] \in Nat
      BY <2>1 DEF LedgerTypeOK
    <3> HIDE DEF refund, c
    <3>2. vault[c] - refund + price \in Nat
      BY <2>1, <2>2, <3>1
    <3> QED BY <2>2, <3>1, <3>2
  <2>8. LedgerTypeOK'
    BY <1>2, <2>6, <2>7 DEF PlaceBid, LedgerTypeOK
  <2> QED BY <1>2, <2>4, <2>8, UnchangedTypes DEF PlaceBid
<1>3. CASE ClaimAuction(u, n)
  <2> DEFINE a == auction[n]
  <2>1. /\ a \in AuctionData
        /\ a.highest_bid \in Nat
        /\ a.by_token \in Currency
        /\ "sol" \in Currency
    BY TeamAssumption DEF AuctionsTypeOK, AuctionData, Currency
  <2>2. /\ SaleFromVault(a.creator, a.highest_bid, a.by_token)
        /\ AddVolume({u, a.creator}, "sol", a.highest_bid)
        /\ {u, a.creator} \subseteq Users
    BY <1>3 DEF ClaimAuction, EscrowTypeOK
  <2>3. [a EXCEPT !.status = 2] \in AuctionData
    BY <2>1 DEF AuctionData
  <2>4. AuctionsTypeOK'
    BY <1>3, <2>3 DEF ClaimAuction, AuctionsTypeOK
  <2>5. LedgerTypeOK'
    BY <1>3, <2>1, <2>2, SaleFromVaultType DEF ClaimAuction, LedgerTypeOK
  <2>6. EscrowTypeOK'
    BY <1>3, <2>1, <2>2, AddVolumeType DEF ClaimAuction, EscrowTypeOK
  <2> QED BY <1>3, <2>4, <2>5, <2>6, UnchangedTypes DEF ClaimAuction
<1>4. CASE CancelAuction(u, n)
  <2>1. [auction[n] EXCEPT !.status = 0] \in AuctionData
    BY DEF AuctionData, AuctionsTypeOK
  <2>2. AuctionsTypeOK'
    BY <1>4, <2>1 DEF CancelAuction, AuctionsTypeOK
  <2>3. LedgerTypeOK'
    BY <1>4 DEF CancelAuction, LedgerTypeOK
  <2> QED BY <1>4, <2>2, <2>3, UnchangedTypes DEF CancelAuction
<1> QED BY <1>1, <1>2, <1>3, <1>4 DEF AuctionNext

LEMMA TypeNext ==
    ASSUME TypeOK, [Next]_vars
    PROVE  TypeOK'
<1>1. CASE UNCHANGED vars
  BY <1>1, UnchangedTypes DEF TypeOK, vars
<1> QED BY <1>1, AdminTypes, TickTypes, UserTypes, NftTypes, SaleNextTypes, OfferTypes,
           AuctionTypes DEF Next

\* Every account keeps the types of its fields: for any users, NFTs, prices, rates and
\* fees, no balance falls below zero and no checked sum passes u64.
THEOREM TypeCorrect == Spec => []TypeOK
<1>1. TypeOK /\ [Next]_vars => TypeOK'
  BY TypeNext
<1> QED BY <1>1, TypeInit, PTL DEF Spec

-----------------------------------------------------------------------------
(* Custody.  It is inductive together with the types: only a user's own     *)
(* NFT is taken into custody, and a user is not the vault.                  *)

\* Custody looks at no account but the listing, the auction and the holder.
LEMMA UnchangedCustody ==
    Custody /\ UNCHANGED <<holder, sell, auction>> => Custody'
BY DEF Custody, Listed, Auctioned

\* A step that deals with one NFT keeps the custody of all others.
LEMMA CustodyOfOne ==
    ASSUME Custody, NEW n \in NFTs,
           \A m \in NFTs \ {n} : /\ holder'[m] = holder[m]
                                 /\ sell'[m] = sell[m]
                                 /\ auction'[m] = auction[m],
           holder'[n] = Vault <=> sell'[n].active = 1 \/ auction'[n].status = 1,
           ~ (sell'[n].active = 1 /\ auction'[n].status = 1)
    PROVE  Custody'
BY DEF Custody, Listed, Auctioned

\* An NFT of a user enters custody by a listing.
LEMMA ListKeepsCustody ==
    ASSUME TypeOK, Custody, NEW u \in Users, NEW n \in NFTs, SaleNext(u, n)
    PROVE  Custody'
<1> USE DEF TypeOK
<1>1. u # Vault
  BY LedgerAssumption
<1>2. holder \in [NFTs -> Users \cup {Vault}] /\ sell \in [NFTs -> SellData]
  BY DEF LedgerTypeOK, ListingTypeOK
<1>3. ASSUME NEW price \in [Currency -> Prices], List(u, n, price), UNCHANGED AboveListing
      PROVE  Custody'
  <2>1. ~ Listed(n) /\ ~ Auctioned(n)
    BY <1>1, <1>3 DEF List, Custody
  <2>2. /\ holder' = [holder EXCEPT ![n] = Vault]
        /\ sell'[n].active = 1
        /\ \A m \in NFTs \ {n} : sell'[m] = sell[m]
        /\ auction' = auction
    BY <1>2, <1>3 DEF List, AboveListing, auctionVars
  <2> QED BY <1>2, <2>1, <2>2, CustodyOfOne DEF Listed, Auctioned
<1>4. ASSUME /\ Listed(n)
             /\ sell' = [sell EXCEPT ![n].active = 0]
             /\ holder' = [holder EXCEPT ![n] = u]
             /\ auction' = auction
      PROVE  Custody'
  <2>1. ~ Auctioned(n)
    BY <1>4 DEF Custody
  <2>2. sell[n] \in SellData /\ sell'[n].active = 0
    BY <1>2, <1>4 DEF SellData
  <2>3. \A m \in NFTs \ {n} : sell'[m] = sell[m] /\ holder'[m] = holder[m]
    BY <1>2, <1>4
  <2>4. holder'[n] # Vault /\ ~ (sell'[n].active = 1)
    BY <1>1, <1>2, <1>4, <2>2
  <2> QED BY <1>4, <2>1, <2>3, <2>4, CustodyOfOne DEF Auctioned
<1>5. CASE Delist(u, n) /\ UNCHANGED AboveListing
  BY <1>4, <1>5 DEF Delist, AboveListing, auctionVars
<1>6. CASE \E c \in Currency : Purchase(u, n, c) /\ UNCHANGED AboveListing
  BY <1>4, <1>6 DEF Purchase, AboveListing, auctionVars
<1> QED BY <1>3, <1>5, <1>6 DEF SaleNext

\* An accepted offer ends the listing and the custody in one step.
LEMMA OfferKeepsCustody ==
    ASSUME TypeOK, Custody, NEW u \in Users, NEW n \in NFTs, OfferNext(u, n)
    PROVE  Custody'
<1> USE DEF TypeOK
<1>1. ASSUME NEW buyer \in Users, AcceptOffer(u, n, buyer), UNCHANGED auctionVars
      PROVE  Custody'
  <2>1. /\ holder \in [NFTs -> Users \cup {Vault}]
        /\ sell \in [NFTs -> SellData]
        /\ buyer # Vault
    BY LedgerAssumption DEF LedgerTypeOK, ListingTypeOK
  <2>2. /\ Listed(n)
        /\ sell' = [sell EXCEPT ![n].active = 0]
        /\ holder' = [holder EXCEPT ![n] = buyer]
        /\ auction' = auction
    BY <1>1 DEF AcceptOffer, auctionVars
  <2>3. ~ Auctioned(n)
    BY <2>2 DEF Custody
  <2>4. sell[n] \in SellData /\ sell'[n].active = 0
    BY <2>1, <2>2 DEF SellData
  <2>5. \A m \in NFTs \ {n} : sell'[m] = sell[m] /\ holder'[m] = holder[m]
    BY <2>1, <2>2
  <2>6. holder'[n] # Vault /\ ~ (sell'[n].active = 1)
    BY <2>1, <2>2, <2>4
  <2> QED BY <2>2, <2>3, <2>5, <2>6, CustodyOfOne DEF Auctioned
<1>2. CASE InitOfferData(u, n) /\ UNCHANGED auctionVars
  BY <1>2, UnchangedCustody DEF InitOfferData, ledgerVars, sellVars, auctionVars
<1>3. CASE \E price \in OfferPrices, c \in Currency :
              MakeOffer(u, n, price, c) /\ UNCHANGED auctionVars
  BY <1>3, UnchangedCustody DEF MakeOffer, sellVars, auctionVars
<1>4. CASE CancelOffer(u, n) /\ UNCHANGED auctionVars
  BY <1>4, UnchangedCustody DEF CancelOffer, ledgerVars, sellVars, auctionVars
<1> QED BY <1>1, <1>2, <1>3, <1>4 DEF OfferNext

\* An auction takes an NFT that its owner still holds, so that is not listed, and
\* gives it away only when it ends.
LEMMA AuctionKeepsCustody ==
    ASSUME TypeOK, Custody, NEW u \in Users, NEW n \in NFTs, AuctionNext(u, n)
    PROVE  Custody'
<1> USE DEF TypeOK
<1>1. u # Vault
  BY LedgerAssumption
<1>2. holder \in [NFTs -> Users \cup {Vault}] /\ auction \in [NFTs -> AuctionData]
  BY DEF LedgerTypeOK, AuctionsTypeOK
<1>3. ASSUME NEW start_price, NEW min_increase, NEW c, NEW end_date,
             CreateAuction(u, n, start_price, min_increase, c, end_date)
      PROVE  Custody'
  <2>1. ~ Listed(n) /\ ~ Auctioned(n)
    BY <1>1, <1>3 DEF CreateAuction, Custody
  <2>2. /\ holder' = [holder EXCEPT ![n] = Vault]
        /\ auction'[n].status = 1
        /\ \A m \in NFTs \ {n} : auction'[m] = auction[m]
        /\ sell' = sell
    BY <1>2, <1>3 DEF CreateAuction, sellVars
  <2> QED BY <1>2, <2>1, <2>2, CustodyOfOne DEF Listed, Auctioned
<1>4. ASSUME NEW price \in BidPrices, PlaceBid(u, n, price)
      PROVE  Custody'
  <2>1. /\ auction' = [auction EXCEPT ![n].last_bidder = u, ![n].highest_bid = price]
        /\ holder' = holder
        /\ sell' = sell
    BY <1>4 DEF PlaceBid, sellVars
  <2>2. \A m \in NFTs : auction'[m].status = auction[m].status
    BY <1>2, <2>1 DEF AuctionData
  <2> QED BY <2>1, <2>2 DEF Custody, Listed, Auctioned
<1>5. ASSUME NEW s \in {0, 2},
             /\ Auctioned(n)
             /\ auction' = [auction EXCEPT ![n].status = s]
             /\ holder' = [holder EXCEPT ![n] = u]
             /\ sell' = sell
      PROVE  Custody'
  <2>1. ~ Listed(n)
    BY <1>5 DEF Custody
  <2>2. auction[n] \in AuctionData /\ auction'[n].status = s /\ s # 1
    BY <1>2, <1>5 DEF AuctionData
  <2>3. \A m \in NFTs \ {n} : auction'[m] = auction[m] /\ holder'[m] = holder[m]
    BY <1>2, <1>5
  <2>4. holder'[n] # Vault
    BY <1>1, <1>2, <1>5
  <2> QED BY <1>5, <2>1, <2>2, <2>3, <2>4, CustodyOfOne DEF Listed
<1>6. CASE ClaimAuction(u, n)
  BY <1>5, <1>6 DEF ClaimAuction, sellVars
<1>7. CASE CancelAuction(u, n)
  BY <1>5, <1>7 DEF CancelAuction, sellVars
<1> QED BY <1>3, <1>4, <1>6, <1>7 DEF AuctionNext

\* Whatever else happens, nothing enters or leaves custody.
LEMMA OthersKeepCustody ==
    ASSUME TypeOK, Custody
    PROVE  /\ \A admin \in Admins : AdminNext(admin) => Custody'
           /\ Tick /\ UNCHANGED AboveLedger => Custody'
           /\ \A u \in Users : UserNext(u) => Custody'
           /\ \A n \in NFTs : NftNext(n) => Custody'
<1>1. ASSUME NEW admin \in Admins, AdminNext(admin) PROVE Custody'
  <2>1. UNCHANGED AboveTeam
    BY <1>1 DEF AdminNext
  <2> QED BY <2>1, UnchangedCustody DEF AboveTeam, ledgerVars, sellVars, auctionVars
<1>2. CASE Tick /\ UNCHANGED AboveLedger
  BY <1>2, UnchangedCustody DEF Tick, AboveLedger, sellVars, auctionVars
<1>3. ASSUME NEW u \in Users, UserNext(u) PROVE Custody'
  <2>1. holder' = holder /\ UNCHANGED AboveEscrow
    BY <1>3 DEF UserNext, InitUserPool, Deposit, Withdraw, ledgerVars
  <2> QED BY <2>1, UnchangedCustody DEF AboveEscrow, sellVars, auctionVars
<1>4. ASSUME NEW n \in NFTs, NftNext(n) PROVE Custody'
  <2>1. CASE InitSellData(n) /\ UNCHANGED AboveListing
    BY <2>1, UnchangedCustody DEF InitSellData, AboveListing, ledgerVars, auctionVars
  <2>2. CASE InitAuctionData(n)
    BY <2>2, UnchangedCustody DEF InitAuctionData, ledgerVars, sellVars
  <2>3. ASSUME NEW from \in Users, NEW to \in Users,
               TransferNft(n, from, to), UNCHANGED AboveLedger
        PROVE  Custody'
    <3>1. holder \in [NFTs -> Users \cup {Vault}] /\ from # Vault /\ to # Vault
      BY LedgerAssumption DEF TypeOK, LedgerTypeOK
    <3>2. /\ holder[n] = from
          /\ holder' = [holder EXCEPT ![n] = to]
          /\ sell' = sell
          /\ auction' = auction
      BY <2>3 DEF TransferNft, AboveLedger, sellVars, auctionVars
    <3>3. ~ Listed(n) /\ ~ Auctioned(n)
      BY <3>1, <3>2 DEF Custody
    <3> QED BY <3>1, <3>2, <3>3, CustodyOfOne DEF Listed, Auctioned
  <2> QED BY <1>4, <2>1, <2>2, <2>3 DEF NftNext
<1> QED BY <1>1, <1>2, <1>3, <1>4

\* In every reachable state, for any number of users and NFTs: the program holds an NFT
\* exactly while one listing or one auction of it is open, and never both.
THEOREM CustodyCorrect == Spec => []Custody
<1>1. Init => Custody
  <2> SUFFICES ASSUME Init, NEW n \in NFTs
               PROVE  holder[n] # Vault /\ ~ Listed(n) /\ ~ Auctioned(n)
    BY DEF Custody
  <2>1. holder[n] \in Users /\ Vault \notin Users
    BY LedgerAssumption DEF Init, LedgerInit
  <2>2. ~ Listed(n) /\ ~ Auctioned(n)
    BY DEF Init, ListingInit, AuctionsInit, Listed, Auctioned, NoListing, NoAuction
  <2> QED BY <2>1, <2>2
<1>2. TypeOK /\ Custody /\ [Next]_vars => Custody'
  <2> SUFFICES ASSUME TypeOK, Custody, [Next]_vars PROVE Custody'
    OBVIOUS
  <2>1. CASE UNCHANGED vars
    BY <2>1, UnchangedCustody DEF vars, ledgerVars, sellVars, auctionVars
  <2> QED BY <2>1, OthersKeepCustody, ListKeepsCustody, OfferKeepsCustody,
             AuctionKeepsCustody DEF Next
<1> QED BY <1>1, <1>2, TypeCorrect, PTL DEF Spec

-----------------------------------------------------------------------------
\* In every behaviour, for any number of users, NFTs, bids and times: an auctioned NFT
\* leaves the program only after the end of its auction, to the highest bidder if
\* there is one and to the creator if there is none.
THEOREM AuctionsAreHonoured == Spec => AuctionHonoured
<1> DEFINE Honoured(n) ==
              (Auctioned(n) /\ holder'[n] # Vault)
                => /\ auction[n].end_date <= clock
                   /\ holder'[n] = IF HasBid(n) THEN auction[n].last_bidder
                                                ELSE auction[n].creator
<1>1. TypeOK /\ Custody /\ [Next]_vars => [\A n \in NFTs : Honoured(n)]_vars
  <2> SUFFICES ASSUME TypeOK, Custody, Next, NEW n \in NFTs, Auctioned(n), holder'[n] # Vault
               PROVE  /\ auction[n].end_date <= clock
                      /\ holder'[n] = IF HasBid(n) THEN auction[n].last_bidder
                                                   ELSE auction[n].creator
    OBVIOUS
  <2>1. holder[n] = Vault /\ ~ Listed(n) /\ holder'[n] # holder[n]
    BY DEF Custody
  <2>2. holder \in [NFTs -> Users \cup {Vault}] /\ Vault \notin Users /\ Default \notin Users
    BY LedgerAssumption DEF TypeOK, LedgerTypeOK
  <2>3. ASSUME NEW u \in Users, NEW m \in NFTs, AuctionNext(u, m)
        PROVE  /\ auction[n].end_date <= clock
               /\ holder'[n] = IF HasBid(n) THEN auction[n].last_bidder
                                            ELSE auction[n].creator
    <3>1. CASE ClaimAuction(u, m)
      <4>1. holder' = [holder EXCEPT ![m] = u]
        BY <3>1 DEF ClaimAuction
      <4>2. m = n
        BY <2>1, <2>2, <4>1
      <4> QED BY <2>2, <3>1, <4>1, <4>2 DEF ClaimAuction, HasBid
    <3>2. CASE CancelAuction(u, m)
      <4>1. holder' = [holder EXCEPT ![m] = u]
        BY <3>2 DEF CancelAuction
      <4>2. m = n
        BY <2>1, <2>2, <4>1
      <4> QED BY <2>2, <3>2, <4>1, <4>2 DEF CancelAuction
    <3>3. ~ (holder' = [holder EXCEPT ![m] = Vault] \/ holder' = holder)
      BY <2>1, <2>2
    <3> QED BY <2>3, <3>1, <3>2, <3>3 DEF AuctionNext, CreateAuction, PlaceBid
  <2>4. ASSUME NEW u \in Users, NEW m \in NFTs, SaleNext(u, m) PROVE FALSE
    <3>1. m = n
      BY <2>1, <2>2, <2>4 DEF SaleNext, List, Delist, Purchase
    <3>2. holder' = [holder EXCEPT ![n] = Vault] \/ Listed(n)
      BY <2>4, <3>1 DEF SaleNext, List, Delist, Purchase
    <3> QED BY <2>1, <2>2, <3>2
  <2>5. ASSUME NEW u \in Users, NEW m \in NFTs, OfferNext(u, m) PROVE FALSE
    <3>1. holder' # holder
      BY <2>1
    <3>2. \E buyer \in Users : AcceptOffer(u, m, buyer)
      BY <2>5, <3>1 DEF OfferNext, InitOfferData, MakeOffer, CancelOffer, ledgerVars
    <3>3. m = n /\ Listed(m)
      BY <2>1, <2>2, <3>2 DEF AcceptOffer
    <3> QED BY <2>1, <3>3
  <2>6. ASSUME NEW m \in NFTs, NftNext(m) PROVE FALSE
    <3>1. holder' # holder
      BY <2>1
    <3>2. \E from, to \in Users : TransferNft(m, from, to)
      BY <2>6, <3>1 DEF NftNext, InitSellData, InitAuctionData, ledgerVars
    <3>3. m = n /\ holder[m] \in Users
      BY <2>1, <2>2, <3>2 DEF TransferNft
    <3> QED BY <2>1, <2>2, <3>3
  <2>7. /\ ~ (Tick /\ UNCHANGED AboveLedger)
        /\ \A admin \in Admins : ~ AdminNext(admin)
        /\ \A u \in Users : ~ UserNext(u)
    <3>1. holder' # holder
      BY <2>1
    <3> QED BY <3>1 DEF Tick, AdminNext, UserNext, InitUserPool, Deposit, Withdraw,
                        AboveTeam, ledgerVars
  <2> QED BY <2>3, <2>4, <2>5, <2>6, <2>7 DEF Next
<1>2. [](TypeOK /\ Custody) /\ [][Next]_vars => [][\A n \in NFTs : Honoured(n)]_vars
  BY <1>1, PTL
<1>3. Spec => [][\A n \in NFTs : Honoured(n)]_vars
  BY <1>2, TypeCorrect, CustodyCorrect, PTL DEF Spec
<1> QED BY <1>3 DEF AuctionHonoured

-----------------------------------------------------------------------------
(* Terms.                                                                   *)

\* What TermsStand says of one NFT.
Stands(n) ==
    /\ Listed(n) /\ Listed(n)' => sell'[n] = sell[n]
    /\ (Auctioned(n) /\ Auctioned(n)' /\ auction'[n] # auction[n])
          => /\ auction[n].end_date > clock
             /\ auction[n].highest_bid + auction[n].min_increase_amount
                  <= auction'[n].highest_bid
             /\ auction'[n] = [auction[n] EXCEPT !.last_bidder = auction'[n].last_bidder,
                                                 !.highest_bid = auction'[n].highest_bid]

\* An owner holds his NFT, so none of its sales is open.
LEMMA HeldIsNotForSale ==
    ASSUME Custody, NEW n \in NFTs, holder[n] \in Users
    PROVE  ~ Listed(n) /\ ~ Auctioned(n)
BY LedgerAssumption DEF Custody

LEMMA ListingStands ==
    ASSUME TypeOK, Custody, NEW u \in Users, NEW m \in NFTs,
           SaleNext(u, m) \/ OfferNext(u, m), NEW n \in NFTs
    PROVE  Stands(n)
<1>0. sell \in [NFTs -> SellData]
  BY DEF TypeOK, ListingTypeOK
<1>1. UNCHANGED auction
  BY DEF SaleNext, OfferNext, AboveListing, auctionVars
<1>2. SUFFICES Listed(n) /\ Listed(n)' => sell'[n] = sell[n]
  BY <1>1 DEF Stands
<1>3. CASE UNCHANGED sell
  BY <1>3
<1>4. CASE sell' = [sell EXCEPT ![m].active = 0]
  <2>1. CASE m = n
    <3>1. sell'[n].active = 0
      BY <1>0, <1>4, <2>1 DEF SellData
    <3> QED BY <3>1 DEF Listed
  <2>2. CASE m # n
    BY <1>0, <1>4, <2>2
  <2> QED BY <2>1, <2>2
<1>5. ASSUME NEW price, List(u, m, price)
      PROVE  Listed(n) /\ Listed(n)' => sell'[n] = sell[n]
  <2>1. ~ Listed(m)
    BY <1>5, HeldIsNotForSale DEF List
  <2>2. m # n => sell'[n] = sell[n]
    BY <1>0, <1>5 DEF List
  <2> QED BY <2>1, <2>2
<1> QED BY <1>3, <1>4, <1>5
        DEF SaleNext, OfferNext, Delist, Purchase, InitOfferData, MakeOffer, CancelOffer,
            AcceptOffer, sellVars

LEMMA AuctionStands ==
    ASSUME TypeOK, Custody, NEW u \in Users, NEW m \in NFTs, AuctionNext(u, m), NEW n \in NFTs
    PROVE  Stands(n)
<1>0. auction \in [NFTs -> AuctionData]
  BY DEF TypeOK, AuctionsTypeOK
<1>1. UNCHANGED sell
  BY DEF AuctionNext, CreateAuction, PlaceBid, ClaimAuction, CancelAuction, sellVars
<1>2. m # n => auction'[n] = auction[n]
  BY <1>0 DEF AuctionNext, CreateAuction, PlaceBid, ClaimAuction, CancelAuction
<1>3. SUFFICES ASSUME m = n, Auctioned(n), Auctioned(n)'
               PROVE  /\ auction[n].end_date > clock
                      /\ auction[n].highest_bid + auction[n].min_increase_amount
                           <= auction'[n].highest_bid
                      /\ auction'[n] = [auction[n] EXCEPT
                                           !.last_bidder = auction'[n].last_bidder,
                                           !.highest_bid = auction'[n].highest_bid]
  BY <1>1, <1>2 DEF Stands
<1>4. ASSUME NEW start_price, NEW min_increase, NEW c, NEW end_date,
             CreateAuction(u, m, start_price, min_increase, c, end_date)
      PROVE  FALSE
  BY <1>3, <1>4, HeldIsNotForSale DEF CreateAuction
<1>5. CASE ClaimAuction(u, m) \/ CancelAuction(u, m)
  <2>1. \/ auction' = [auction EXCEPT ![n].status = 2]
        \/ auction' = [auction EXCEPT ![n].status = 0]
    BY <1>3, <1>5 DEF ClaimAuction, CancelAuction
  <2>2. auction'[n].status # 1
    BY <1>0, <2>1 DEF AuctionData
  <2> QED BY <1>3, <2>2 DEF Auctioned
<1>6. ASSUME NEW price, PlaceBid(u, m, price)
      PROVE  /\ auction[n].end_date > clock
             /\ auction[n].highest_bid + auction[n].min_increase_amount
                  <= auction'[n].highest_bid
             /\ auction'[n] = [auction[n] EXCEPT !.last_bidder = auction'[n].last_bidder,
                                                 !.highest_bid = auction'[n].highest_bid]
  <2>1. /\ auction' = [auction EXCEPT ![n].last_bidder = u, ![n].highest_bid = price]
        /\ auction[n].end_date > clock
        /\ auction[n].highest_bid + auction[n].min_increase_amount <= price
    BY <1>3, <1>6 DEF PlaceBid
  <2>2. auction'[n] = [auction[n] EXCEPT !.last_bidder = u, !.highest_bid = price]
    BY <1>0, <2>1 DEF AuctionData
  <2>3. auction'[n].last_bidder = u /\ auction'[n].highest_bid = price
    BY <1>0, <2>2 DEF AuctionData
  <2> QED BY <2>1, <2>2, <2>3
<1> QED BY <1>4, <1>5, <1>6 DEF AuctionNext

LEMMA NoSaleChanges ==
    ASSUME UNCHANGED <<sell, auction>>, NEW n \in NFTs
    PROVE  Stands(n)
BY DEF Stands

\* While a sale is open its terms stand, for any number of users and NFTs: although the
\* program writes a new listing or auction without asking whether one is open, only the
\* holder of an NFT can put it up, and nobody but the program holds what is for sale.
THEOREM TermsAlwaysStand == Spec => TermsStand
<1>1. TypeOK /\ Custody /\ [Next]_vars => [\A n \in NFTs : Stands(n)]_vars
  <2> SUFFICES ASSUME TypeOK, Custody, Next, NEW n \in NFTs PROVE Stands(n)
    OBVIOUS
  <2>1. ASSUME NEW u \in Users, NEW m \in NFTs,
               SaleNext(u, m) \/ OfferNext(u, m) \/ AuctionNext(u, m)
        PROVE  Stands(n)
    BY <2>1, ListingStands, AuctionStands
  <2>2. CASE UNCHANGED <<sell, auction>>
    BY <2>2, NoSaleChanges
  <2>3. ASSUME NEW m \in NFTs, NftNext(m) PROVE UNCHANGED <<sell, auction>>
    BY <2>3 DEF NftNext, InitSellData, InitAuctionData, AboveListing, AboveLedger, sellVars,
                auctionVars
  <2>4. CASE \/ Tick /\ UNCHANGED AboveLedger
             \/ \E admin \in Admins : AdminNext(admin)
             \/ \E u \in Users : UserNext(u)
    BY <2>2, <2>4 DEF AdminNext, UserNext, AboveTeam, AboveEscrow, AboveLedger, sellVars,
                      auctionVars
  <2> QED BY <2>1, <2>2, <2>3, <2>4 DEF Next
<1>2. [](TypeOK /\ Custody) /\ [][Next]_vars => [][\A n \in NFTs : Stands(n)]_vars
  BY <1>1, PTL
<1>3. Spec => [][\A n \in NFTs : Stands(n)]_vars
  BY <1>2, TypeCorrect, CustodyCorrect, PTL DEF Spec
<1> QED BY <1>3 DEF TermsStand, Stands
=============================================================================
