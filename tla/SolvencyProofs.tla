--------------------------- MODULE SolvencyProofs ---------------------------
(***************************************************************************)
(* The vault covers all escrow balances and all standing bids, for any     *)
(* number of users and NFTs and for all prices, amounts, fees and rates.   *)
(***************************************************************************)
EXTENDS MarketplaceProofs, FiniteSetTheorems

-----------------------------------------------------------------------------
(* Sums.  Total counts pairs, so the lemmas are about finite sets.          *)

\* The pairs of one x are as many as its value.
LEMMA ColumnSize ==
    ASSUME NEW k, NEW m \in Nat
    PROVE  /\ IsFiniteSet({k} \X (1..m))
           /\ Cardinality({k} \X (1..m)) = m
<1>1. IsFiniteSet(1..m) /\ Cardinality(1..m) = m
  <2>1. 1 \in Int /\ m \in Int
    OBVIOUS
  <2>2. /\ IsFiniteSet(1..m)
        /\ Cardinality(1..m) = IF 1 > m THEN 0 ELSE m - 1 + 1
    BY <2>1, FS_Interval
  <2> QED BY <2>2
<1>2. IsFiniteSet({k}) /\ Cardinality({k}) = 1
  BY FS_Singleton
<1>3. /\ IsFiniteSet({k} \X (1..m))
      /\ Cardinality({k} \X (1..m)) = Cardinality({k}) * Cardinality(1..m)
  BY <1>1, <1>2, FS_Product
<1> QED BY <1>1, <1>2, <1>3

\* A sum over a finite set is a natural.
LEMMA TotalType ==
    ASSUME NEW S, IsFiniteSet(S), NEW f
    PROVE  IsFiniteSet(UnitsOf(f, S)) /\ Total(f, S) \in Nat
<1>1. IsFiniteSet(1..MAX_U64)
  BY FS_Interval, TeamAssumption
<1>2. IsFiniteSet(S \X (1..MAX_U64))
  BY <1>1, FS_Product
<1>3. UnitsOf(f, S) \in SUBSET (S \X (1..MAX_U64))
  BY DEF UnitsOf
<1>4. IsFiniteSet(UnitsOf(f, S))
  BY <1>2, <1>3, FS_Subset
<1> QED BY <1>4, FS_CardinalityType DEF Total

\* A sum is the sum over the rest and the value left out.
LEMMA TotalSplit ==
    ASSUME NEW S, IsFiniteSet(S), NEW f \in [S -> 0..MAX_U64], NEW k \in S
    PROVE  Total(f, S) = Total(f, S \ {k}) + f[k]
<1> DEFINE rest == UnitsOf(f, S \ {k})
           column == {k} \X (1..f[k])
<1>1. f[k] \in Nat /\ f[k] \in 0..MAX_U64
  BY TeamAssumption
<1>2. IsFiniteSet(S \ {k})
  BY FS_Difference
<1>3. IsFiniteSet(rest) /\ Cardinality(rest) \in Nat
  BY <1>2, TotalType DEF Total
<1>4. IsFiniteSet(column) /\ Cardinality(column) = f[k]
  BY <1>1, ColumnSize
<1>5. UnitsOf(f, S) = rest \cup column
  <2>1. ASSUME NEW p \in UnitsOf(f, S) PROVE p \in rest \cup column
    <3>1. p \in S \X (1..MAX_U64) /\ p[2] <= f[p[1]]
      BY DEF UnitsOf
    <3>2. CASE p[1] = k
      BY <1>1, <3>1, <3>2, TeamAssumption
    <3>3. CASE p[1] # k
      BY <3>1, <3>3 DEF UnitsOf
    <3> QED BY <3>2, <3>3
  <2>2. ASSUME NEW p \in rest PROVE p \in UnitsOf(f, S)
    BY DEF UnitsOf
  <2>3. ASSUME NEW p \in column PROVE p \in UnitsOf(f, S)
    BY <1>1, TeamAssumption DEF UnitsOf
  <2> HIDE DEF rest, column
  <2> QED BY <2>1, <2>2, <2>3
<1>6. rest \cap column = {}
  BY DEF UnitsOf
<1>7. Cardinality(rest \cup column) = Cardinality(rest) + Cardinality(column)
  <2> HIDE DEF rest, column
  <2>1. Cardinality(rest \cup column)
            = Cardinality(rest) + Cardinality(column) - Cardinality(rest \cap column)
    BY <1>3, <1>4, FS_Union
  <2>2. Cardinality(rest \cap column) = 0
    BY <1>6, FS_EmptySet
  <2> QED BY <1>1, <1>3, <1>4, <2>1, <2>2
<1> QED BY <1>4, <1>5, <1>7 DEF Total

\* Two functions that agree have one sum.
LEMMA TotalSame ==
    ASSUME NEW S, NEW f, NEW g, \A x \in S : g[x] = f[x]
    PROVE  Total(g, S) = Total(f, S)
<1>1. UnitsOf(g, S) = UnitsOf(f, S)
  BY DEF UnitsOf
<1> QED BY <1>1 DEF Total

\* Two functions that differ in one place differ by that place in their sums.
LEMMA TotalUpdate ==
    ASSUME NEW S, IsFiniteSet(S), NEW k \in S,
           NEW f \in [S -> 0..MAX_U64], NEW g \in [S -> 0..MAX_U64],
           \A x \in S \ {k} : g[x] = f[x]
    PROVE  /\ Total(f, S) \in Nat
           /\ Total(g, S) \in Nat
           /\ Total(g, S) + f[k] = Total(f, S) + g[k]
           /\ f[k] <= Total(f, S)
<1>1. f[k] \in Nat /\ g[k] \in Nat
  BY TeamAssumption
<1>2. IsFiniteSet(S \ {k})
  BY FS_Difference
<1>3. Total(f, S \ {k}) \in Nat
  BY <1>2, TotalType
<1>4. Total(g, S \ {k}) = Total(f, S \ {k})
  BY TotalSame
<1>5. Total(f, S) = Total(f, S \ {k}) + f[k] /\ Total(g, S) = Total(g, S \ {k}) + g[k]
  BY TotalSplit
<1> QED BY <1>1, <1>3, <1>4, <1>5

\* A sum of zeros is zero.
LEMMA TotalZero ==
    ASSUME NEW S, NEW f, \A x \in S : f[x] = 0
    PROVE  Total(f, S) = 0
<1>1. UnitsOf(f, S) = {}
  BY TeamAssumption DEF UnitsOf
<1> QED BY <1>1, FS_EmptySet DEF Total

-----------------------------------------------------------------------------
(* What the vault owes.                                                     *)

\* The sums of the next state are sums of the balances of the next state.
LEMMA OwedPrimed ==
    ASSUME NEW c \in Currency
    PROVE  /\ Total(EscrowIn(c), Users)' = Total(EscrowIn(c)', Users)
           /\ Total(BidIn(c), NFTs)' = Total(BidIn(c)', NFTs)
BY DEF Total, UnitsOf

\* The balances and the bids in one currency are u64 numbers.
LEMMA OwedType ==
    ASSUME TypeOK, NEW c \in Currency
    PROVE  /\ EscrowIn(c) \in [Users -> 0..MAX_U64]
           /\ BidIn(c) \in [NFTs -> 0..MAX_U64]
<1>1. EscrowIn(c) \in [Users -> 0..MAX_U64]
  BY DEF TypeOK, EscrowTypeOK, EscrowIn
<1>2. \A n \in NFTs : auction[n].highest_bid \in 0..MAX_U64
  BY DEF TypeOK, AuctionsTypeOK, AuctionData
<1>3. 0 \in 0..MAX_U64
  BY TeamAssumption
<1> QED BY <1>1, <1>2, <1>3 DEF BidIn

LEMMA OwedTypeNext ==
    ASSUME TypeOK', NEW c \in Currency
    PROVE  /\ EscrowIn(c)' \in [Users -> 0..MAX_U64]
           /\ BidIn(c)' \in [NFTs -> 0..MAX_U64]
<1>1. EscrowIn(c)' \in [Users -> 0..MAX_U64]
  BY DEF TypeOK, EscrowTypeOK, EscrowIn
<1>2. \A n \in NFTs : auction'[n].highest_bid \in 0..MAX_U64
  BY DEF TypeOK, AuctionsTypeOK, AuctionData
<1>3. 0 \in 0..MAX_U64
  BY TeamAssumption
<1> QED BY <1>1, <1>2, <1>3 DEF BidIn

\* A step that changes the escrow of one user keeps the vault solvent if the vault
\* falls by no more than the escrow.
LEMMA SolventEscrow ==
    ASSUME TypeOK, TypeOK', Solvency, auction' = auction, NEW u \in Users,
           \A v \in Users \ {u} : escrow'[v] = escrow[v],
           \A c \in Currency : vault[c] + escrow'[u][c] <= vault'[c] + escrow[u][c]
    PROVE  Solvency'
<1> SUFFICES ASSUME NEW c \in Currency
             PROVE  Total(EscrowIn(c)', Users) + Total(BidIn(c)', NFTs) <= vault'[c]
  BY OwedPrimed DEF Solvency
<1> DEFINE e == EscrowIn(c)
           b == BidIn(c)
<1>1. e \in [Users -> 0..MAX_U64] /\ e' \in [Users -> 0..MAX_U64]
  BY OwedType, OwedTypeNext
<1>2. e[u] = escrow[u][c] /\ e'[u] = escrow'[u][c] /\ \A v \in Users \ {u} : e'[v] = e[v]
  BY DEF EscrowIn
<1>3. b' = b
  BY DEF BidIn, Auctioned, HasBid
<1>4. vault[c] \in Nat /\ vault'[c] \in Nat
  BY DEF TypeOK, LedgerTypeOK
<1>5. Total(e, Users) + Total(b, NFTs) <= vault[c]
  BY DEF Solvency
<1>6. vault[c] + e'[u] <= vault'[c] + e[u]
  BY <1>2
<1> HIDE DEF e, b
<1>7. /\ Total(e, Users) \in Nat
      /\ Total(e', Users) \in Nat
      /\ Total(e', Users) + e[u] = Total(e, Users) + e'[u]
  BY <1>1, <1>2, LedgerAssumption, TotalUpdate
<1>8. Total(b, NFTs) \in Nat /\ Total(b', NFTs) = Total(b, NFTs)
  BY <1>3, LedgerAssumption, TotalType
<1>9. e[u] \in Nat /\ e'[u] \in Nat
  BY <1>1, TeamAssumption
<1>10. Total(e', Users) + Total(b', NFTs) <= vault'[c]
  BY <1>4, <1>5, <1>6, <1>7, <1>8, <1>9
<1> QED BY <1>10 DEF e, b

\* A step that changes the auction of one NFT keeps the vault solvent if the vault
\* falls by no more than the bid.
LEMMA SolventAuction ==
    ASSUME TypeOK, TypeOK', Solvency, escrow' = escrow, NEW n \in NFTs,
           \A m \in NFTs \ {n} : auction'[m] = auction[m],
           \A c \in Currency : vault[c] + BidIn(c)'[n] <= vault'[c] + BidIn(c)[n]
    PROVE  Solvency'
<1> SUFFICES ASSUME NEW c \in Currency
             PROVE  Total(EscrowIn(c)', Users) + Total(BidIn(c)', NFTs) <= vault'[c]
  BY OwedPrimed DEF Solvency
<1> DEFINE e == EscrowIn(c)
           b == BidIn(c)
<1>1. b \in [NFTs -> 0..MAX_U64] /\ b' \in [NFTs -> 0..MAX_U64]
  BY OwedType, OwedTypeNext
<1>2. \A m \in NFTs \ {n} : b'[m] = b[m]
  BY DEF BidIn, Auctioned, HasBid
<1>3. e' = e
  BY DEF EscrowIn
<1>4. vault[c] \in Nat /\ vault'[c] \in Nat
  BY DEF TypeOK, LedgerTypeOK
<1>5. Total(e, Users) + Total(b, NFTs) <= vault[c]
  BY DEF Solvency
<1>6. vault[c] + b'[n] <= vault'[c] + b[n]
  OBVIOUS
<1> HIDE DEF e, b
<1>7. /\ Total(b, NFTs) \in Nat
      /\ Total(b', NFTs) \in Nat
      /\ Total(b', NFTs) + b[n] = Total(b, NFTs) + b'[n]
  BY <1>1, <1>2, LedgerAssumption, TotalUpdate
<1>8. Total(e, Users) \in Nat /\ Total(e', Users) = Total(e, Users)
  BY <1>3, LedgerAssumption, TotalType
<1>9. b[n] \in Nat /\ b'[n] \in Nat
  BY <1>1, TeamAssumption
<1>10. Total(e', Users) + Total(b', NFTs) <= vault'[c]
  BY <1>4, <1>5, <1>6, <1>7, <1>8, <1>9
<1> QED BY <1>10 DEF e, b

\* Nothing else matters to what is owed.
LEMMA UnchangedSolvency ==
    Solvency /\ UNCHANGED <<vault, escrow, auction>> => Solvency'
<1> SUFFICES ASSUME Solvency, UNCHANGED <<vault, escrow, auction>>, NEW c \in Currency
             PROVE  Total(EscrowIn(c)', Users) + Total(BidIn(c)', NFTs) <= vault'[c]
  BY OwedPrimed DEF Solvency
<1>1. EscrowIn(c)' = EscrowIn(c) /\ BidIn(c)' = BidIn(c)
  BY DEF EscrowIn, BidIn, Auctioned, HasBid
<1> QED BY <1>1 DEF Solvency

-----------------------------------------------------------------------------
(* A sale takes no more out of the vault than its price.                    *)

LEMMA SaleCostWithin ==
    ASSUME TypeOK, TeamWellFormed, NEW price \in Nat, NEW c \in Currency
    PROVE  SaleCost(price, c) \in Nat /\ SaleCost(price, c) <= price
<1> USE DEF TypeOK
<1> DEFINE fee == FeeAmount(price, c)
<1>1. fee \in Nat /\ fee <= price
  BY FeeWithinPrice
<1>2. SharesPaid(fee) \in Nat /\ SharesPaid(fee) <= fee
  BY <1>1, SharesWithin
<1>3. SaleCost(price, c) = price - fee + SharesPaid(fee)
  BY DEF SaleCost, Proceeds
<1> HIDE DEF fee
<1> QED BY <1>1, <1>2, <1>3

LEMMA SaleFromVaultWithin ==
    ASSUME TypeOK, TeamWellFormed, NEW seller, NEW price \in Nat, NEW c \in Currency,
           SaleFromVault(seller, price, c), NEW d \in Currency
    PROVE  vault[d] <= vault'[d] + (IF d = c THEN price ELSE 0)
<1>1. SaleCost(price, c) \in Nat /\ SaleCost(price, c) <= price
  BY SaleCostWithin
<1>2. vault \in [Currency -> Nat] /\ vault[d] \in Nat /\ vault[c] \in Nat
  BY DEF TypeOK, LedgerTypeOK
<1>3. vault' = [vault EXCEPT ![c] = vault[c] - SaleCost(price, c)]
  BY DEF SaleFromVault
<1> QED BY <1>1, <1>2, <1>3

-----------------------------------------------------------------------------
(* Every instruction keeps the vault solvent.                               *)

\* Most instructions touch neither the vault nor what it owes.
LEMMA OthersKeepSolvency ==
    ASSUME Solvency
    PROVE  /\ \A admin \in Admins : AdminNext(admin) => Solvency'
           /\ Tick /\ UNCHANGED AboveLedger => Solvency'
           /\ \A n \in NFTs : NftNext(n) => Solvency'
           /\ \A u \in Users, n \in NFTs : SaleNext(u, n) => Solvency'
<1>1. ASSUME NEW admin \in Admins, AdminNext(admin) PROVE Solvency'
  <2>1. UNCHANGED AboveTeam
    BY <1>1 DEF AdminNext
  <2> QED BY <2>1, UnchangedSolvency DEF AboveTeam, ledgerVars, userVars, auctionVars
<1>2. CASE Tick /\ UNCHANGED AboveLedger
  BY <1>2, UnchangedSolvency DEF Tick, AboveLedger, userVars, auctionVars
<1>3. ASSUME NEW n \in NFTs, NftNext(n) PROVE Solvency'
  <2>1. vault' = vault /\ escrow' = escrow /\ auction' = auction
    BY <1>3 DEF NftNext, InitSellData, InitAuctionData, TransferNft, AboveLedger,
                AboveListing, ledgerVars, userVars, auctionVars
  <2> QED BY <2>1, UnchangedSolvency
<1>4. ASSUME NEW u \in Users, NEW n \in NFTs, SaleNext(u, n) PROVE Solvency'
  <2>1. vault' = vault /\ escrow' = escrow /\ auction' = auction
    BY <1>4 DEF SaleNext, List, Delist, Purchase, SaleFromWallet, AboveListing,
                userVars, auctionVars
  <2> QED BY <2>1, UnchangedSolvency
<1> QED BY <1>1, <1>2, <1>3, <1>4

\* Deposits and withdrawals move the vault and the balance by the same amounts.
LEMMA UserKeepsSolvency ==
    ASSUME TypeOK, TypeOK', Solvency, NEW u \in Users, UserNext(u)
    PROVE  Solvency'
<1>0. /\ \A v \in Users : escrow[v] \in [Currency -> 0..MAX_U64]
      /\ \A c \in Currency : escrow[u][c] \in Nat /\ vault[c] \in Nat
      /\ escrow \in [Users -> [Currency -> 0..MAX_U64]]
  BY TeamAssumption DEF TypeOK, EscrowTypeOK, LedgerTypeOK
<1>1. CASE InitUserPool(u) /\ UNCHANGED AboveEscrow
  BY <1>1, UnchangedSolvency DEF InitUserPool, AboveEscrow, ledgerVars, auctionVars
<1>2. ASSUME NEW amount \in [Currency -> Amounts], Deposit(u, amount), UNCHANGED AboveEscrow
      PROVE  Solvency'
  <2>1. amount \in [Currency -> Nat]
    BY AmountType
  <2>2. /\ escrow' = [escrow EXCEPT ![u] = [c \in Currency |-> escrow[u][c] + amount[c]]]
        /\ vault' = [c \in Currency |-> vault[c] + amount[c]]
        /\ auction' = auction
    BY <1>2 DEF Deposit, PayIn, AboveEscrow, auctionVars
  <2>3. \A v \in Users \ {u} : escrow'[v] = escrow[v]
    BY <1>0, <2>2
  <2>4. \A c \in Currency : vault[c] + escrow'[u][c] <= vault'[c] + escrow[u][c]
    BY <1>0, <2>1, <2>2
  <2> QED BY <2>2, <2>3, <2>4, SolventEscrow
<1>3. ASSUME NEW amount \in [Currency -> Amounts], Withdraw(u, amount), UNCHANGED AboveEscrow
      PROVE  Solvency'
  <2>1. amount \in [Currency -> Nat]
    BY AmountType
  <2>2. /\ escrow' = [escrow EXCEPT ![u] = [c \in Currency |-> escrow[u][c] - amount[c]]]
        /\ vault' = [c \in Currency |-> vault[c] - amount[c]]
        /\ auction' = auction
    BY <1>3 DEF Withdraw, PayOut, AboveEscrow, auctionVars
  <2>3. \A v \in Users \ {u} : escrow'[v] = escrow[v]
    BY <1>0, <2>2
  <2>4. \A c \in Currency : vault[c] + escrow'[u][c] <= vault'[c] + escrow[u][c]
    BY <1>0, <2>1, <2>2
  <2> QED BY <2>2, <2>3, <2>4, SolventEscrow
<1> QED BY <1>1, <1>2, <1>3 DEF UserNext

\* An offer's price is in escrow before it is paid, for an offer of the seller
\* himself as well.
LEMMA OfferKeepsSolvency ==
    ASSUME TypeOK, TypeOK', TeamWellFormed, Solvency,
           NEW u \in Users, NEW n \in NFTs, OfferNext(u, n)
    PROVE  Solvency'
<1>0. /\ escrow \in [Users -> [Currency -> 0..MAX_U64]]
      /\ \A v \in Users, c \in Currency : escrow[v][c] \in Nat
      /\ \A c \in Currency : vault[c] \in Nat /\ vault'[c] \in Nat
  BY TeamAssumption DEF TypeOK, EscrowTypeOK, LedgerTypeOK
<1>1. CASE InitOfferData(u, n) /\ UNCHANGED auctionVars
  BY <1>1, UnchangedSolvency DEF InitOfferData, ledgerVars, userVars, auctionVars
<1>2. ASSUME NEW price \in OfferPrices, NEW c \in Currency,
             MakeOffer(u, n, price, c), UNCHANGED auctionVars
      PROVE  Solvency'
  <2>1. price \in Nat
    BY OffersAssumption, TeamAssumption
  <2>2. /\ escrow' = [escrow EXCEPT ![u][c] = escrow[u][c] + price]
        /\ vault' = [d \in Currency |-> vault[d] + Only(c, price)[d]]
        /\ auction' = auction
    BY <1>2 DEF MakeOffer, PayIn, auctionVars
  <2>3. \A v \in Users \ {u} : escrow'[v] = escrow[v]
    BY <1>0, <2>2
  <2>4. ASSUME NEW d \in Currency
        PROVE  vault[d] + escrow'[u][d] <= vault'[d] + escrow[u][d]
    <3>1. escrow'[u][d] = IF d = c THEN escrow[u][c] + price ELSE escrow[u][d]
      BY <1>0, <2>2
    <3>2. vault'[d] = IF d = c THEN vault[d] + price ELSE vault[d] + 0
      BY <2>2 DEF Only
    <3> QED BY <1>0, <2>1, <3>1, <3>2
  <2> QED BY <2>2, <2>3, <2>4, SolventEscrow
<1>3. CASE CancelOffer(u, n) /\ UNCHANGED auctionVars
  BY <1>3, UnchangedSolvency DEF CancelOffer, ledgerVars, userVars, auctionVars
<1>4. ASSUME NEW buyer \in Users, AcceptOffer(u, n, buyer), UNCHANGED auctionVars
      PROVE  Solvency'
  <2> DEFINE c == offer[n][buyer].by_token
             price == offer[n][buyer].offer_price
  <2>1. c \in Currency /\ price \in Nat
    BY TeamAssumption DEF TypeOK, OffersTypeOK, OfferData
  <2>2. /\ escrow' = [escrow EXCEPT ![buyer][c] = escrow[buyer][c] - price]
        /\ SaleFromVault(u, price, c)
        /\ auction' = auction
    BY <1>4 DEF AcceptOffer, auctionVars
  <2> HIDE DEF c, price
  <2>3. \A v \in Users \ {buyer} : escrow'[v] = escrow[v]
    BY <1>0, <2>2
  <2>4. ASSUME NEW d \in Currency
        PROVE  vault[d] + escrow'[buyer][d] <= vault'[d] + escrow[buyer][d]
    <3>1. escrow'[buyer][d] = IF d = c THEN escrow[buyer][d] - price ELSE escrow[buyer][d]
      BY <1>0, <2>1, <2>2
    <3>2. vault[d] <= vault'[d] + (IF d = c THEN price ELSE 0)
      BY <2>1, <2>2, SaleFromVaultWithin
    <3> QED BY <1>0, <2>1, <3>1, <3>2
  <2> QED BY <2>2, <2>3, <2>4, SolventEscrow
<1> QED BY <1>1, <1>2, <1>3, <1>4 DEF OfferNext

\* What an auction owes is its standing bid: nothing before the first one, by custody,
\* and nothing after the claim, which pays out no more than the bid.
LEMMA AuctionKeepsSolvency ==
    ASSUME TypeOK, TypeOK', TeamWellFormed, Custody, Solvency,
           NEW u \in Users, NEW n \in NFTs, AuctionNext(u, n)
    PROVE  Solvency'
<1>0. /\ auction \in [NFTs -> AuctionData]
      /\ auction[n] \in AuctionData
      /\ auction[n].by_token \in Currency
      /\ auction[n].highest_bid \in Nat
      /\ \A c \in Currency : vault[c] \in Nat /\ vault'[c] \in Nat
      /\ vault \in [Currency -> Nat]
      /\ u # Default
  BY TeamAssumption, LedgerAssumption DEF TypeOK, AuctionsTypeOK, AuctionData, LedgerTypeOK
<1>1. ASSUME NEW c \in Currency
      PROVE  /\ BidIn(c)[n] = IF Auctioned(n) /\ HasBid(n) /\ auction[n].by_token = c
                              THEN auction[n].highest_bid ELSE 0
             /\ BidIn(c)'[n] = IF /\ auction'[n].status = 1
                                  /\ auction'[n].last_bidder # Default
                                  /\ auction'[n].by_token = c
                               THEN auction'[n].highest_bid ELSE 0
  BY DEF BidIn, Auctioned, HasBid
<1>2. ASSUME NEW start_price, NEW min_increase, NEW c, NEW end_date,
             CreateAuction(u, n, start_price, min_increase, c, end_date)
      PROVE  Solvency'
  <2>1. ~ Auctioned(n)
    BY <1>2, LedgerAssumption DEF CreateAuction, Custody
  <2>2. /\ \A m \in NFTs \ {n} : auction'[m] = auction[m]
        /\ auction'[n].last_bidder = Default
        /\ vault' = vault
        /\ escrow' = escrow
    BY <1>0, <1>2 DEF CreateAuction, userVars
  <2>3. ASSUME NEW d \in Currency PROVE vault[d] + BidIn(d)'[n] <= vault'[d] + BidIn(d)[n]
    <3>1. BidIn(d)[n] = 0 /\ BidIn(d)'[n] = 0
      BY <1>1, <2>1, <2>2
    <3> QED BY <1>0, <2>2, <3>1
  <2> QED BY <2>2, <2>3, SolventAuction
<1>3. ASSUME NEW price \in BidPrices, PlaceBid(u, n, price)
      PROVE  Solvency'
  <2> DEFINE c == auction[n].by_token
             refund == IF HasBid(n) THEN auction[n].highest_bid ELSE 0
  <2>1. /\ Auctioned(n)
        /\ auction' = [auction EXCEPT ![n].last_bidder = u, ![n].highest_bid = price]
        /\ vault' = [vault EXCEPT ![c] = vault[c] - refund + price]
        /\ escrow' = escrow
    BY <1>3 DEF PlaceBid, userVars
  <2>2. price \in Nat /\ refund \in Nat
    BY <1>0, AuctionsAssumption, TeamAssumption
  <2>3. /\ \A m \in NFTs \ {n} : auction'[m] = auction[m]
        /\ auction'[n].status = 1
        /\ auction'[n].last_bidder = u
        /\ auction'[n].by_token = c
        /\ auction'[n].highest_bid = price
    BY <1>0, <2>1 DEF AuctionData, Auctioned
  <2>4. ASSUME NEW d \in Currency PROVE vault[d] + BidIn(d)'[n] <= vault'[d] + BidIn(d)[n]
    <3>1. /\ BidIn(d)[n] = IF d = c THEN refund ELSE 0
          /\ BidIn(d)'[n] = IF d = c THEN price ELSE 0
      BY <1>0, <1>1, <2>1, <2>3
    <3>2. vault'[d] = IF d = c THEN vault[d] - refund + price ELSE vault[d]
      BY <1>0, <2>1
    <3> HIDE DEF c, refund
    <3> QED BY <1>0, <2>2, <3>1, <3>2
  <2> QED BY <2>1, <2>3, <2>4, SolventAuction
<1>4. CASE ClaimAuction(u, n)
  <2> DEFINE c == auction[n].by_token
             price == auction[n].highest_bid
  <2>1. /\ Auctioned(n)
        /\ HasBid(n)
        /\ SaleFromVault(auction[n].creator, price, c)
        /\ auction' = [auction EXCEPT ![n].status = 2]
        /\ escrow' = escrow
    BY <1>0, <1>4 DEF ClaimAuction, HasBid
  <2>2. /\ \A m \in NFTs \ {n} : auction'[m] = auction[m]
        /\ auction'[n].status = 2
    BY <1>0, <2>1 DEF AuctionData
  <2>3. ASSUME NEW d \in Currency PROVE vault[d] + BidIn(d)'[n] <= vault'[d] + BidIn(d)[n]
    <3>1. /\ BidIn(d)[n] = IF d = c THEN price ELSE 0
          /\ BidIn(d)'[n] = 0
      BY <1>1, <2>1, <2>2
    <3>2. vault[d] <= vault'[d] + (IF d = c THEN price ELSE 0)
      BY <1>0, <2>1, SaleFromVaultWithin
    <3>3. price \in Nat
      BY <1>0
    <3> HIDE DEF c, price
    <3> QED BY <1>0, <3>1, <3>2, <3>3
  <2> QED BY <2>1, <2>2, <2>3, SolventAuction
<1>5. CASE CancelAuction(u, n)
  <2>1. /\ ~ HasBid(n)
        /\ auction' = [auction EXCEPT ![n].status = 0]
        /\ vault' = vault
        /\ escrow' = escrow
    BY <1>5 DEF CancelAuction, userVars
  <2>2. /\ \A m \in NFTs \ {n} : auction'[m] = auction[m]
        /\ auction'[n].status = 0
    BY <1>0, <2>1 DEF AuctionData
  <2>3. ASSUME NEW d \in Currency PROVE vault[d] + BidIn(d)'[n] <= vault'[d] + BidIn(d)[n]
    <3>1. BidIn(d)[n] = 0 /\ BidIn(d)'[n] = 0
      BY <1>1, <2>1, <2>2
    <3> QED BY <1>0, <2>1, <3>1
  <2> QED BY <2>1, <2>2, <2>3, SolventAuction
<1> QED BY <1>2, <1>3, <1>4, <1>5 DEF AuctionNext

-----------------------------------------------------------------------------
\* The program's steps are steps of the global pool's specification, so what holds of
\* the pool by itself holds of it within the program.
THEOREM ProgramImplementsTeam == Spec => TeamSpec
<1>1. Init => TeamInit
  BY DEF Init
<1>2. [Next]_vars => [TeamNext]_globalVars
  <2> SUFFICES ASSUME Next PROVE TeamNext \/ UNCHANGED globalVars
    BY DEF vars, globalVars
  <2>1. ASSUME NEW admin \in Admins, AdminNext(admin) PROVE TeamNext
    BY <2>1 DEF AdminNext, TeamNext
  <2>2. ASSUME Tick, UNCHANGED AboveLedger PROVE UNCHANGED globalVars
    BY <2>2 DEF AboveLedger
  <2>3. ASSUME NEW u \in Users, UserNext(u) PROVE UNCHANGED globalVars
    BY <2>3 DEF UserNext, InitUserPool, Deposit, Withdraw
  <2>4. ASSUME NEW n \in NFTs, NftNext(n) PROVE UNCHANGED globalVars
    BY <2>4 DEF NftNext, InitSellData, InitAuctionData, AboveLedger
  <2>5. ASSUME NEW u \in Users, NEW n \in NFTs, SaleNext(u, n) PROVE UNCHANGED globalVars
    BY <2>5 DEF SaleNext, List, Delist, Purchase
  <2>6. ASSUME NEW u \in Users, NEW n \in NFTs, OfferNext(u, n) PROVE UNCHANGED globalVars
    BY <2>6 DEF OfferNext, InitOfferData, MakeOffer, CancelOffer, AcceptOffer
  <2>7. ASSUME NEW u \in Users, NEW n \in NFTs, AuctionNext(u, n) PROVE UNCHANGED globalVars
    BY <2>7 DEF AuctionNext, CreateAuction, PlaceBid, ClaimAuction, CancelAuction
  <2> QED BY <2>1, <2>2, <2>3, <2>4, <2>5, <2>6, <2>7 DEF Next
<1> QED BY <1>1, <1>2, PTL DEF Spec, TeamSpec

\* In every reachable state, for any users, NFTs, prices, fees and rates: the vault
\* covers all escrow balances together with all standing bids.
THEOREM SolvencyCorrect == Spec => []Solvency
<1>1. Init => Solvency
  <2> SUFFICES ASSUME Init, NEW c \in Currency
               PROVE  Total(EscrowIn(c), Users) + Total(BidIn(c), NFTs) <= vault[c]
    BY DEF Solvency
  <2>1. Total(EscrowIn(c), Users) = 0
    <3>1. \A u \in Users : EscrowIn(c)[u] = 0
      BY DEF Init, EscrowInit, EscrowIn
    <3> QED BY <3>1, TotalZero
  <2>2. Total(BidIn(c), NFTs) = 0
    <3>1. \A n \in NFTs : BidIn(c)[n] = 0
      BY DEF Init, AuctionsInit, BidIn, Auctioned, NoAuction
    <3> QED BY <3>1, TotalZero
  <2>3. vault[c] = 0
    BY DEF Init, LedgerInit
  <2> QED BY <2>1, <2>2, <2>3
<1>2. /\ TypeOK /\ TypeOK' /\ TeamWellFormed /\ Custody /\ Solvency
      /\ [Next]_vars
      => Solvency'
  <2> SUFFICES ASSUME TypeOK, TypeOK', TeamWellFormed, Custody, Solvency, [Next]_vars
               PROVE  Solvency'
    OBVIOUS
  <2>1. CASE UNCHANGED vars
    BY <2>1, UnchangedSolvency DEF vars, ledgerVars, userVars, auctionVars
  <2> QED BY <2>1, OthersKeepSolvency, UserKeepsSolvency, OfferKeepsSolvency,
             AuctionKeepsSolvency DEF Next
<1> QED BY <1>1, <1>2, TypeCorrect, CustodyCorrect, ProgramImplementsTeam,
           TeamAlwaysWellFormed, PTL DEF Spec
=============================================================================
