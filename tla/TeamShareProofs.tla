-------------------------- MODULE TeamShareProofs --------------------------
(***************************************************************************)
(* The team's part of the sales: who in the table of treasuries receives   *)
(* how much and when, for any number of users, treasuries and NFTs and for *)
(* all prices, fees and rates.                                             *)
(***************************************************************************)
EXTENDS WealthProofs

-----------------------------------------------------------------------------
(* What one treasury receives of a fee.                                     *)

\* A wallet that is not in the table receives nothing; one that is receives the share
\* of its place, once, because no other place names it.
LEMMA CreditOfPlace ==
    ASSUME TeamTypeOK, TeamDistinct, NEW w, NEW fee \in Nat
    PROVE  /\ w \notin Team => TreasuryCredit(w, fee) = 0
           /\ \A i \in LiveSlots :
                team_treasury[i] = w => TreasuryCredit(w, fee) = Share(fee, i)
<1> DEFINE s == [i \in Slots |-> IF i < team_count /\ team_treasury[i] = w
                                 THEN Share(fee, i) ELSE 0]
           none == [i \in Slots |-> 0]
<1>1. s \in [Slots -> Nat]
  BY ShareBounds
<1>2. none \in [Slots -> Nat] /\ SumSlots(none) = 0
  BY DEF SumSlots, Slots
<1>3. TreasuryCredit(w, fee) = SumSlots(s)
  BY DEF TreasuryCredit
<1>4. ASSUME w \notin Team PROVE TreasuryCredit(w, fee) = 0
  <2>1. s = none
    BY <1>4 DEF Team, LiveSlots
  <2> QED BY <1>2, <1>3, <2>1
<1>5. ASSUME NEW i \in LiveSlots, team_treasury[i] = w
      PROVE  TreasuryCredit(w, fee) = Share(fee, i)
  <2>1. i \in Slots /\ s[i] = Share(fee, i) /\ none[i] = 0
    BY <1>5 DEF LiveSlots
  <2>2. \A j \in Slots \ {i} : s[j] = none[j]
    BY <1>5 DEF TeamDistinct, LiveSlots
  <2> HIDE DEF s, none
  <2>3. SumSlots(s) + none[i] = SumSlots(none) + s[i]
    BY <1>1, <1>2, <2>1, <2>2, SumSlotsUpdate
  <2>4. SumSlots(s) \in Nat /\ s[i] \in Nat
    BY <1>1, <2>1, SumSlotsNat
  <2> QED BY <1>2, <1>3, <2>1, <2>3, <2>4
<1> QED BY <1>4, <1>5

\* No treasury is a user: its part of a sale is its share of the fee.
LEMMA TreasurySaleCredit ==
    ASSUME TypeOK, TeamDistinct, NEW w \in Treasuries, NEW seller \in Users,
           NEW price \in Nat, NEW c \in Currency
    PROVE  /\ SaleCredit(w, seller, price, c) \in Nat
           /\ w \notin Team => SaleCredit(w, seller, price, c) = 0
           /\ \A i \in LiveSlots :
                team_treasury[i] = w
                  => SaleCredit(w, seller, price, c)
                       = (FeeAmount(price, c) * treasury_rate[i]) \div PERMYRIAD
<1>1. FeeAmount(price, c) \in Nat
  BY FeeWithinPrice DEF TypeOK
<1>2. TreasuryCredit(w, FeeAmount(price, c)) \in Nat
  BY <1>1, TreasuryCreditType DEF TypeOK
<1>3. w # seller
  BY LedgerAssumption
<1>4. SaleCredit(w, seller, price, c) = TreasuryCredit(w, FeeAmount(price, c))
  BY <1>2, <1>3 DEF SaleCredit
<1>5. w \notin Team => TreasuryCredit(w, FeeAmount(price, c)) = 0
  BY <1>1, CreditOfPlace DEF TypeOK
<1>6. ASSUME NEW i \in LiveSlots, team_treasury[i] = w
      PROVE  TreasuryCredit(w, FeeAmount(price, c)) = Share(FeeAmount(price, c), i)
  BY <1>1, <1>6, CreditOfPlace DEF TypeOK
<1> QED BY <1>2, <1>4, <1>5, <1>6 DEF Share

\* A sale that credits every treasury with its part, and no more, pays the team.
LEMMA CreditPaysTeam ==
    ASSUME TypeOK, TeamDistinct, NEW seller \in Users, NEW price \in Nat, NEW c \in Currency,
           \A w \in Treasuries :
              wallet'[w] = [wallet[w] EXCEPT ![c] = @ + SaleCredit(w, seller, price, c)]
    PROVE  PaysTeam(price, c)
<1> SUFFICES ASSUME NEW w \in Treasuries
             PROVE  /\ \A d \in Currency \ {c} : wallet'[w][d] = wallet[w][d]
                    /\ w \notin Team => wallet'[w][c] = wallet[w][c]
                    /\ \A i \in LiveSlots :
                          team_treasury[i] = w
                            => wallet'[w][c] =
                                 wallet[w][c]
                                   + (FeeAmount(price, c) * treasury_rate[i]) \div PERMYRIAD
  BY DEF PaysTeam
<1> DEFINE credit == SaleCredit(w, seller, price, c)
<1>1. wallet[w] \in [Currency -> Nat] /\ wallet[w][c] \in Nat
  BY DEF TypeOK, LedgerTypeOK, Wallets
<1>2. wallet'[w] = [wallet[w] EXCEPT ![c] = wallet[w][c] + credit]
  OBVIOUS
<1>3. /\ credit \in Nat
      /\ w \notin Team => credit = 0
      /\ \A i \in LiveSlots :
           team_treasury[i] = w
             => credit = (FeeAmount(price, c) * treasury_rate[i]) \div PERMYRIAD
  BY TreasurySaleCredit
<1> HIDE DEF credit
<1>4. wallet'[w][c] = wallet[w][c] + credit
  BY <1>1, <1>2
<1>5. \A d \in Currency \ {c} : wallet'[w][d] = wallet[w][d]
  BY <1>1, <1>2
<1>6. w \notin Team => wallet'[w][c] = wallet[w][c]
  BY <1>1, <1>3, <1>4
<1>7. ASSUME NEW i \in LiveSlots, team_treasury[i] = w
      PROVE  wallet'[w][c] = wallet[w][c]
                               + (FeeAmount(price, c) * treasury_rate[i]) \div PERMYRIAD
  BY <1>3, <1>4, <1>7
<1> QED BY <1>5, <1>6, <1>7

\* accept_offer and claim_auction pay the team out of the vault.
LEMMA SaleFromVaultPaysTeam ==
    ASSUME TypeOK, TeamDistinct, NEW seller \in Users, NEW price \in Nat, NEW c \in Currency,
           SaleFromVault(seller, price, c)
    PROVE  PaysTeam(price, c)
<1>1. \A w \in Treasuries :
        wallet'[w] = [wallet[w] EXCEPT ![c] = @ + SaleCredit(w, seller, price, c)]
  BY DEF SaleFromVault, Wallets
<1> QED BY <1>1, CreditPaysTeam

\* purchase pays it out of the buyer's wallet, and no buyer is a treasury.
LEMMA SaleFromWalletPaysTeam ==
    ASSUME TypeOK, TeamDistinct, NEW buyer \in Users, NEW seller \in Users,
           NEW price \in Nat, NEW c \in Currency, SaleFromWallet(buyer, seller, price, c)
    PROVE  PaysTeam(price, c)
<1>1. ASSUME NEW w \in Treasuries
      PROVE  wallet'[w] = [wallet[w] EXCEPT ![c] = @ + SaleCredit(w, seller, price, c)]
  <2>1. w \in Wallets /\ w # buyer /\ wallet[w] \in [Currency -> Nat] /\ wallet[w][c] \in Nat
    BY LedgerAssumption DEF TypeOK, LedgerTypeOK, Wallets
  <2>2. wallet'[w] = [wallet[w] EXCEPT ![c] = @ + SaleCredit(w, seller, price, c) - 0]
    BY <2>1 DEF SaleFromWallet
  <2>3. SaleCredit(w, seller, price, c) \in Nat
    BY TreasurySaleCredit
  <2> QED BY <2>1, <2>2, <2>3
<1> QED BY <1>1, CreditPaysTeam

-----------------------------------------------------------------------------
(* Every step leaves the treasuries alone or settles a sale.                *)

TreasuriesUntouched == \A w \in Treasuries : wallet'[w] = wallet[w]

\* What a user pays into the vault or takes out of it is no treasury's.
LEMMA UserMovesOwn ==
    ASSUME TypeOK, NEW u \in Users,
           \/ wallet' = wallet
           \/ \E amount : PayIn(u, amount)
           \/ \E amount : PayOut(u, amount)
    PROVE  TreasuriesUntouched
<1>1. wallet \in [Wallets -> [Currency -> Nat]] /\ u \notin Treasuries
  BY LedgerAssumption DEF TypeOK, LedgerTypeOK
<1>2. \A w \in Treasuries : w \in Wallets /\ w # u
  BY <1>1 DEF Wallets
<1> QED BY <1>1, <1>2 DEF TreasuriesUntouched, PayIn, PayOut

\* A bid is a user's, and so is the bid it beats.
LEMMA BidMovesUsers ==
    ASSUME TypeOK, NEW u \in Users, NEW n \in NFTs, NEW price \in BidPrices,
           PlaceBid(u, n, price)
    PROVE  TreasuriesUntouched
<1> SUFFICES ASSUME NEW w \in Treasuries PROVE wallet'[w] = wallet[w]
  BY DEF TreasuriesUntouched
<1> DEFINE c == auction[n].by_token
           refund == IF HasBid(n) THEN auction[n].highest_bid ELSE 0
<1>1. /\ c \in Currency /\ refund \in Nat
      /\ auction[n].last_bidder \in Users \cup {Default}
  <2>1. auction[n] \in AuctionData
    BY DEF TypeOK, AuctionsTypeOK
  <2> QED BY <2>1, TeamAssumption DEF AuctionData
<1>2. w \in Wallets /\ w # u /\ wallet[w] \in [Currency -> Nat]
  BY LedgerAssumption DEF TypeOK, LedgerTypeOK, Wallets
<1>3. (IF w = auction[n].last_bidder THEN refund ELSE 0) = 0
  BY <1>1, LedgerAssumption DEF HasBid
<1>4. wallet'[w] = [wallet[w] EXCEPT
                      ![c] = wallet[w][c] + (IF w = auction[n].last_bidder THEN refund ELSE 0)
                               - (IF w = u THEN price ELSE 0)]
  BY <1>2 DEF PlaceBid
<1> HIDE DEF c, refund
<1>5. wallet'[w] = [wallet[w] EXCEPT ![c] = wallet[w][c] + 0 - 0]
  BY <1>2, <1>3, <1>4
<1>6. wallet[w][c] + 0 - 0 = wallet[w][c]
  BY <1>1, <1>2
<1> QED BY <1>1, <1>2, <1>5, <1>6

\* NFT n goes to b for a price agreed in currency c, and the team is paid for that.
SettlesForTeam(n, b, c) ==
    /\ holder[n] = Vault
    /\ holder'[n] = b
    /\ \E p \in AgreedPrices(n, b, c) : PaysTeam(p, c)

\* What a step that is no sale does.
NoSale == TreasuriesUntouched /\ ReturnsOnly

LEMMA PurchasePaysTeam ==
    ASSUME TypeOK, TeamDistinct, NEW u \in Users, NEW n \in NFTs, NEW c \in Currency,
           Purchase(u, n, c)
    PROVE  SettlesForTeam(n, u, c)
<1>1. /\ sell[n].price[c] \in 0..MAX_U64 /\ sell[n].price[c] \in Nat
      /\ sell[n].seller \in Users
  BY TeamAssumption DEF Purchase, TypeOK, EscrowTypeOK, ListingTypeOK, SellData
<1>2. /\ Listed(n) /\ holder[n] = Vault
      /\ SaleFromWallet(u, sell[n].seller, sell[n].price[c], c)
      /\ holder' = [holder EXCEPT ![n] = u]
  BY DEF Purchase
<1>3. sell[n].price[c] \in AgreedPrices(n, u, c)
  BY <1>1, <1>2 DEF AgreedPrices
<1>4. PaysTeam(sell[n].price[c], c)
  BY <1>1, <1>2, SaleFromWalletPaysTeam
<1>5. holder'[n] = u
  BY <1>2 DEF TypeOK, LedgerTypeOK
<1> QED BY <1>2, <1>3, <1>4, <1>5 DEF SettlesForTeam

LEMMA AcceptOfferPaysTeam ==
    ASSUME TypeOK, TeamDistinct, NEW u \in Users, NEW n \in NFTs, NEW b \in Users,
           AcceptOffer(u, n, b)
    PROVE  SettlesForTeam(n, b, offer[n][b].by_token) /\ offer[n][b].by_token \in Currency
<1> DEFINE c == offer[n][b].by_token
           p == offer[n][b].offer_price
<1>1. c \in Currency /\ p \in 0..MAX_U64 /\ p \in Nat
  BY TeamAssumption DEF TypeOK, OffersTypeOK, OfferData
<1>2. /\ Listed(n) /\ holder[n] = Vault
      /\ offer[n][b].active = 1
      /\ SaleFromVault(u, p, c)
      /\ holder' = [holder EXCEPT ![n] = b]
  BY DEF AcceptOffer
<1>3. p \in AgreedPrices(n, b, c)
  BY <1>1, <1>2 DEF AgreedPrices
<1>4. PaysTeam(p, c)
  <2> HIDE DEF c, p
  <2> QED BY <1>1, <1>2, SaleFromVaultPaysTeam
<1>5. holder'[n] = b
  BY <1>2 DEF TypeOK, LedgerTypeOK
<1> QED BY <1>1, <1>2, <1>3, <1>4, <1>5 DEF SettlesForTeam

LEMMA ClaimAuctionPaysTeam ==
    ASSUME TypeOK, TeamDistinct, NEW u \in Users, NEW n \in NFTs, ClaimAuction(u, n)
    PROVE  SettlesForTeam(n, u, auction[n].by_token) /\ auction[n].by_token \in Currency
<1> DEFINE c == auction[n].by_token
           p == auction[n].highest_bid
           s == auction[n].creator
<1>1. c \in Currency /\ p \in 0..MAX_U64 /\ p \in Nat
  <2>1. auction[n] \in AuctionData
    BY DEF TypeOK, AuctionsTypeOK
  <2> QED BY <2>1, TeamAssumption DEF AuctionData
<1>2. /\ Auctioned(n) /\ holder[n] = Vault
      /\ u = auction[n].last_bidder
      /\ s \in Users
      /\ SaleFromVault(s, p, c)
      /\ holder' = [holder EXCEPT ![n] = u]
  BY DEF ClaimAuction, TypeOK, EscrowTypeOK
<1>3. p \in AgreedPrices(n, u, c)
  BY <1>1, <1>2 DEF AgreedPrices
<1>4. PaysTeam(p, c)
  <2> HIDE DEF c, p, s
  <2> QED BY <1>1, <1>2, SaleFromVaultPaysTeam
<1>5. holder'[n] = u
  BY <1>2 DEF TypeOK, LedgerTypeOK
<1> QED BY <1>1, <1>2, <1>3, <1>4, <1>5 DEF SettlesForTeam

\* A step settles a sale, and pays the team for it, or pays the team nothing and gives
\* NFTs back only.
LEMMA TeamOutcome ==
    ASSUME TypeOK, TeamWellFormed, Custody, Next
    PROVE  \/ NoSale
           \/ \E n \in NFTs, b \in Users, c \in Currency : SettlesForTeam(n, b, c)
<1>0. TeamDistinct /\ (wallet' = wallet => TreasuriesUntouched)
  BY DEF TeamWellFormed, TreasuriesUntouched
<1>1. ASSUME NEW admin \in Admins, AdminNext(admin) PROVE NoSale
  <2>1. wallet' = wallet /\ holder' = holder
    BY <1>1 DEF AdminNext, AboveTeam, ledgerVars
  <2> QED BY <1>0, <2>1, OthersReturn DEF NoSale
<1>2. ASSUME Tick PROVE NoSale
  BY <1>0, <1>2, OthersReturn DEF Tick, NoSale
<1>3. ASSUME NEW u \in Users, UserNext(u) PROVE NoSale
  <2>1. UNCHANGED holder
    BY <1>3 DEF UserNext, InitUserPool, Deposit, Withdraw, ledgerVars
  <2>2. \/ wallet' = wallet
        \/ \E amount : PayIn(u, amount)
        \/ \E amount : PayOut(u, amount)
    BY <1>3 DEF UserNext, InitUserPool, Deposit, Withdraw, ledgerVars
  <2> QED BY <2>1, <2>2, UserMovesOwn, OthersReturn DEF NoSale
<1>4. ASSUME NEW n \in NFTs, NftNext(n) PROVE NoSale
  <2>1. wallet' = wallet
    BY <1>4 DEF NftNext, InitSellData, InitAuctionData, TransferNft, ledgerVars
  <2> QED BY <1>0, <1>4, <2>1, OthersReturn DEF NoSale
<1>5. ASSUME NEW u \in Users, NEW n \in NFTs, SaleNext(u, n)
      PROVE  NoSale \/ \E c \in Currency : SettlesForTeam(n, u, c)
  <2>1. ASSUME NEW price, List(u, n, price) PROVE NoSale
    BY <1>0, <2>1, OthersReturn DEF List, NoSale
  <2>2. ASSUME Delist(u, n) PROVE NoSale
    BY <1>0, <2>2, OthersReturn DEF Delist, NoSale
  <2> QED BY <1>0, <1>5, <2>1, <2>2, PurchasePaysTeam DEF SaleNext
<1>6. ASSUME NEW u \in Users, NEW n \in NFTs, OfferNext(u, n)
      PROVE  NoSale \/ \E b \in Users, c \in Currency : SettlesForTeam(n, b, c)
  <2>1. ASSUME NEW b \in Users, AcceptOffer(u, n, b)
        PROVE  \E c \in Currency : SettlesForTeam(n, b, c)
    BY <1>0, <2>1, AcceptOfferPaysTeam
  <2>2. ASSUME \/ InitOfferData(u, n)
               \/ \E price \in OfferPrices, c \in Currency : MakeOffer(u, n, price, c)
               \/ CancelOffer(u, n)
        PROVE  NoSale
    <3>1. UNCHANGED holder
      BY <2>2 DEF InitOfferData, MakeOffer, CancelOffer, ledgerVars
    <3>2. wallet' = wallet \/ \E amount : PayIn(u, amount)
      BY <2>2 DEF InitOfferData, MakeOffer, CancelOffer, ledgerVars
    <3> QED BY <3>1, <3>2, UserMovesOwn, OthersReturn DEF NoSale
  <2> QED BY <1>6, <2>1, <2>2 DEF OfferNext
<1>7. ASSUME NEW u \in Users, NEW n \in NFTs, AuctionNext(u, n)
      PROVE  NoSale \/ \E c \in Currency : SettlesForTeam(n, u, c)
  <2>1. ASSUME NEW start_price, NEW min_increase, NEW c, NEW end_date,
               CreateAuction(u, n, start_price, min_increase, c, end_date)
        PROVE  NoSale
    <3>1. wallet' = wallet
      BY <2>1 DEF CreateAuction
    <3> QED BY <1>0, <2>1, <3>1, OthersReturn DEF NoSale
  <2>2. ASSUME NEW price \in BidPrices, PlaceBid(u, n, price) PROVE NoSale
    <3>1. UNCHANGED holder
      BY <2>2 DEF PlaceBid
    <3> QED BY <2>2, <3>1, BidMovesUsers, OthersReturn DEF NoSale
  <2>3. ASSUME CancelAuction(u, n) PROVE NoSale
    <3>1. wallet' = wallet
      BY <2>3 DEF CancelAuction
    <3> QED BY <1>0, <2>3, <3>1, OthersReturn DEF NoSale
  <2>4. ASSUME ClaimAuction(u, n) PROVE \E c \in Currency : SettlesForTeam(n, u, c)
    BY <1>0, <2>4, ClaimAuctionPaysTeam
  <2> QED BY <1>7, <2>1, <2>2, <2>3, <2>4 DEF AuctionNext
<1> QED BY <1>1, <1>2, <1>3, <1>4, <1>5, <1>6, <1>7 DEF Next

-----------------------------------------------------------------------------
\* In every behaviour, for any number of users, treasuries and NFTs, all prices, fees and
\* rates: a sale pays every treasury in the table its rate of the fee on an agreed price,
\* in the currency of that price, and nothing but a sale pays a treasury anything.
THEOREM TeamIsAlwaysPaid == Spec => TeamIsPaid
<1> DEFINE Paid ==
              (\/ \E w \in Treasuries : wallet'[w] # wallet[w]
               \/ \E n \in NFTs : holder[n] = Vault /\ holder'[n] \notin {Vault, Depositor(n)})
                => \E n \in NFTs, b \in Users, c \in Currency :
                      /\ holder[n] = Vault /\ holder'[n] = b
                      /\ \E p \in AgreedPrices(n, b, c) : PaysTeam(p, c)
<1>1. TypeOK /\ TeamWellFormed /\ Custody /\ Next => Paid
  <2> SUFFICES ASSUME TypeOK, TeamWellFormed, Custody, Next PROVE Paid
    OBVIOUS
  <2>1. CASE NoSale
    BY <2>1 DEF NoSale, TreasuriesUntouched, ReturnsOnly
  <2>2. CASE \E n \in NFTs, b \in Users, c \in Currency : SettlesForTeam(n, b, c)
    BY <2>2 DEF SettlesForTeam
  <2> QED BY <2>1, <2>2, TeamOutcome
<1>2. [](TypeOK /\ TeamWellFormed /\ Custody) /\ [][Next]_vars => [][Paid]_vars
  BY <1>1, PTL
<1>3. Spec => [][Paid]_vars
  BY <1>2, StatesAreSound, PTL DEF Spec
<1> QED BY <1>3 DEF TeamIsPaid
=============================================================================
