-------------------------- MODULE RefinementProofs --------------------------
(***************************************************************************)
(* The program implements Exchange, for any number of users and NFTs and   *)
(* for all prices, amounts, fees and rates.                                *)
(***************************************************************************)
EXTENDS ExchangeRefinement, WealthProofs

-----------------------------------------------------------------------------
(* The mapping.                                                             *)

\* An NFT that a step does not deal with keeps its owner and its sale.
LEMMA SameImage ==
    ASSUME NEW n \in NFTs, holder'[n] = holder[n], sell'[n] = sell[n],
           auction'[n] = auction[n]
    PROVE  ownerBar'[n] = ownerBar[n] /\ saleBar'[n] = saleBar[n]
BY DEF ownerBar, saleBar, Owner, SaleOf, Depositor, Listed, Auctioned

\* The image of the wealth moves with the wealth.
LEMMA SameWealth ==
    ASSUME KeepsWealth
    PROVE  wealthBar' = wealthBar
<1>1. \A u \in Users, c \in Currency : Wealth(u, c)' = Wealth(u, c)
  BY DEF KeepsWealth
<1> QED BY <1>1 DEF wealthBar

\* Two states with the same custody, the same listings and the same wealth have the same
\* image.
LEMMA SameState ==
    ASSUME KeepsWealth, UNCHANGED <<holder, sell, auction>>
    PROVE  UNCHANGED <<ownerBar, saleBar, wealthBar>>
<1>1. ownerBar' = ownerBar /\ saleBar' = saleBar
  BY DEF ownerBar, saleBar, Owner, SaleOf, Depositor, Listed, Auctioned
<1> QED BY <1>1, SameWealth

\* Only what is in custody is for sale.
LEMMA ForSaleInCustody ==
    ASSUME Custody, NEW n \in NFTs
    PROVE  /\ saleBar[n] # "none" <=> holder[n] = Vault
           /\ holder[n] = Vault => ownerBar[n] = Depositor(n)
           /\ holder[n] # Vault => ownerBar[n] = holder[n]
BY DEF Custody, saleBar, SaleOf, ownerBar, Owner

-----------------------------------------------------------------------------
(* What the instructions are in the exchange.                               *)

\* list_nft_for_sale and create_auction open a sale of an NFT that its owner holds.
LEMMA EntryOpensSale ==
    ASSUME TypeOK, Custody, Custody', KeepsWealth, NEW u \in Users, NEW n \in NFTs,
           holder[n] = u, holder' = [holder EXCEPT ![n] = Vault],
           \A m \in NFTs \ {n} : sell'[m] = sell[m] /\ auction'[m] = auction[m],
           \/ sell'[n].active = 1 /\ sell'[n].seller = u
           \/ auction'[n].status = 1 /\ auction'[n].creator = u,
           market_fee' = market_fee
    PROVE  Abstract!OpenSale(n)
<1>1. holder \in [NFTs -> Users \cup {Vault}] /\ Vault \notin Users
  BY LedgerAssumption DEF TypeOK, LedgerTypeOK
<1>2. saleBar[n] = "none" /\ ownerBar[n] = u
  BY <1>1, ForSaleInCustody
<1>3. saleBar'[n] \in {"price", "auction"} /\ ownerBar'[n] = u
  BY <1>1 DEF Custody, saleBar, SaleOf, ownerBar, Owner, Depositor, Listed, Auctioned
<1>4. \A m \in NFTs \ {n} : ownerBar'[m] = ownerBar[m] /\ saleBar'[m] = saleBar[m]
  BY <1>1, SameImage
<1>5. ownerBar' = ownerBar
  BY <1>2, <1>3, <1>4 DEF ownerBar
<1>6. saleBar' = [saleBar EXCEPT ![n] = saleBar'[n]]
  BY <1>4 DEF saleBar
<1>7. saleBar' \in {[saleBar EXCEPT ![n] = s] : s \in Abstract!Sales \ {"none"}}
  BY <1>3, <1>6 DEF Abstract!Sales
<1> QED BY <1>2, <1>5, <1>7, SameWealth DEF Abstract!OpenSale

\* delist_nft and cancel_auction close it and leave the NFT to who owned it.
LEMMA ReturnClosesSale ==
    ASSUME TypeOK, Custody, Custody', KeepsWealth, NEW n \in NFTs,
           holder[n] = Vault, Depositor(n) \in Users,
           holder' = [holder EXCEPT ![n] = Depositor(n)],
           \A m \in NFTs \ {n} : sell'[m] = sell[m] /\ auction'[m] = auction[m],
           market_fee' = market_fee
    PROVE  Abstract!CloseSale(n)
<1>1. holder \in [NFTs -> Users \cup {Vault}] /\ Vault \notin Users
  BY LedgerAssumption DEF TypeOK, LedgerTypeOK
<1>2. saleBar[n] # "none" /\ ownerBar[n] = Depositor(n)
  BY <1>1, ForSaleInCustody
<1>3. saleBar'[n] = "none" /\ ownerBar'[n] = Depositor(n)
  <2>1. holder'[n] = Depositor(n) /\ holder'[n] # Vault
    BY <1>1
  <2> QED BY <2>1 DEF Custody, saleBar, SaleOf, ownerBar, Owner
<1>4. \A m \in NFTs \ {n} : ownerBar'[m] = ownerBar[m] /\ saleBar'[m] = saleBar[m]
  BY <1>1, SameImage
<1>5. ownerBar' = ownerBar
  BY <1>2, <1>3, <1>4 DEF ownerBar
<1>6. saleBar' = [saleBar EXCEPT ![n] = "none"]
  BY <1>3, <1>4 DEF saleBar
<1> QED BY <1>2, <1>5, <1>6, SameWealth DEF Abstract!CloseSale

\* A transfer outside of the marketplace gives away what is not for sale.
LEMMA TransferGives ==
    ASSUME TypeOK, Custody, KeepsWealth, NEW n \in NFTs, NEW from \in Users, NEW to \in Users,
           TransferNft(n, from, to), UNCHANGED AboveLedger
    PROVE  Abstract!Give(n, to)
<1>1. holder \in [NFTs -> Users \cup {Vault}] /\ Vault \notin Users
  BY LedgerAssumption DEF TypeOK, LedgerTypeOK
<1>2. /\ holder[n] = from
      /\ holder' = [holder EXCEPT ![n] = to]
      /\ sell' = sell /\ auction' = auction /\ market_fee' = market_fee
  BY DEF TransferNft, AboveLedger, sellVars, auctionVars, globalVars
<1>3. saleBar[n] = "none"
  BY <1>1, <1>2, ForSaleInCustody
<1>4. saleBar' = saleBar
  BY <1>2 DEF saleBar, SaleOf, Listed, Auctioned
<1>5. ownerBar'[n] = to
  BY <1>1, <1>2 DEF ownerBar, Owner
<1>6. \A m \in NFTs \ {n} : ownerBar'[m] = ownerBar[m]
  BY <1>1, <1>2, SameImage
<1>7. ownerBar' = [ownerBar EXCEPT ![n] = to]
  BY <1>5, <1>6 DEF ownerBar
<1> QED BY <1>2, <1>3, <1>4, <1>7, SameWealth DEF Abstract!Give

\* purchase, accept_offer and claim_auction sell.
LEMMA SettlementSells ==
    ASSUME TypeOK, Custody, NEW n \in NFTs, NEW b \in Users, NEW c \in Currency,
           NEW p, NEW cost, Settles(n, b, c, p, cost)
    PROVE  p \in 0..MAX_U64 /\ Abstract!Sell(n, b, c, p)
<1>1. holder \in [NFTs -> Users \cup {Vault}] /\ Vault \notin Users
  BY LedgerAssumption DEF TypeOK, LedgerTypeOK
<1>2. /\ p \in AgreedPrices(n, b, c)
      /\ cost \in Proceeds(p, c)..p
      /\ holder[n] = Vault
      /\ holder' = [holder EXCEPT ![n] = b]
      /\ sell'[n].active # 1
      /\ auction'[n].status # 1
      /\ \A m \in NFTs \ {n} : sell'[m] = sell[m] /\ auction'[m] = auction[m]
      /\ market_fee' = market_fee
      /\ \A u \in Users, d \in Currency :
            Wealth(u, d)' = Wealth(u, d)
                              + (IF d = c /\ u = Depositor(n) THEN Proceeds(p, c) ELSE 0)
                              - (IF d = c /\ u = b THEN cost ELSE 0)
  BY DEF Settles
<1>3. p \in 0..MAX_U64
  BY <1>2 DEF AgreedPrices
<1>4. saleBar[n] # "none" /\ ownerBar[n] = Depositor(n)
  BY <1>2, ForSaleInCustody
<1>5. saleBar'[n] = "none" /\ ownerBar'[n] = b
  BY <1>1, <1>2 DEF saleBar, SaleOf, ownerBar, Owner, Listed, Auctioned
<1>6. \A m \in NFTs \ {n} : ownerBar'[m] = ownerBar[m] /\ saleBar'[m] = saleBar[m]
  BY <1>1, <1>2, SameImage
<1>7. /\ ownerBar' = [ownerBar EXCEPT ![n] = b]
      /\ saleBar' = [saleBar EXCEPT ![n] = "none"]
  BY <1>5, <1>6 DEF ownerBar, saleBar
<1>8. Abstract!Kept(p, c) = Proceeds(p, c)
  BY DEF Abstract!Kept, Proceeds, FeeAmount
<1>9. wealthBar' = [u \in Users |-> [wealthBar[u] EXCEPT ![c] =
                        @ + (IF u = ownerBar[n] THEN Proceeds(p, c) ELSE 0)
                          - (IF u = b THEN cost ELSE 0)]]
  <2>1. ASSUME NEW u \in Users
        PROVE  wealthBar'[u] = [wealthBar[u] EXCEPT ![c] =
                        @ + (IF u = ownerBar[n] THEN Proceeds(p, c) ELSE 0)
                          - (IF u = b THEN cost ELSE 0)]
    <3>1. \A d \in Currency : wealthBar[u][d] = Wealth(u, d) /\ wealthBar'[u][d] = Wealth(u, d)'
      BY DEF wealthBar
    <3>2. /\ wealthBar[u] = [d \in Currency |-> Wealth(u, d)]
          /\ wealthBar'[u] = [d \in Currency |-> Wealth(u, d)']
      BY DEF wealthBar
    <3>3. \A d \in Currency : Wealth(u, d) \in Nat
      BY WealthType
    <3>4. \A d \in Currency :
             Wealth(u, d)' = IF d = c
                             THEN Wealth(u, d)
                                    + (IF u = ownerBar[n] THEN Proceeds(p, c) ELSE 0)
                                    - (IF u = b THEN cost ELSE 0)
                             ELSE Wealth(u, d)
      BY <1>2, <1>4, <3>3
    <3> QED BY <3>1, <3>2, <3>4
  <2> QED BY <2>1 DEF wealthBar
<1> QED BY <1>2, <1>3, <1>4, <1>7, <1>8, <1>9 DEF Abstract!Sell

-----------------------------------------------------------------------------
(* Every step of the program is a step of the exchange or none.             *)

ExchangeStep == Abstract!Next \/ UNCHANGED Abstract!exchangeVars

\* A step that moves no wealth and deals with no sale is a change of fees or nothing.
LEMMA SilentStep ==
    ASSUME TypeOK', KeepsWealth, UNCHANGED <<holder, sell, auction>>
    PROVE  ExchangeStep
<1>1. UNCHANGED <<ownerBar, saleBar, wealthBar>>
  BY SameState
<1>2. market_fee' \in [Currency -> 0..PERMYRIAD]
  BY TeamAssumption DEF TypeOK, TeamTypeOK
<1>3. Abstract!SetFee
  BY <1>1, <1>2 DEF Abstract!SetFee
<1> QED BY <1>3 DEF ExchangeStep, Abstract!Next

\* A settlement is a sale.
LEMMA SettlementStep ==
    ASSUME TypeOK, Custody, NEW n \in NFTs, NEW b \in Users, NEW c \in Currency,
           NEW p, NEW cost, Settles(n, b, c, p, cost)
    PROVE  ExchangeStep
BY SettlementSells DEF ExchangeStep, Abstract!Next

LEMMA NftStep ==
    ASSUME TypeOK, TypeOK', Custody, NEW n \in NFTs, NftNext(n)
    PROVE  ExchangeStep
<1>1. KeepsWealth
  BY OthersKeepWealth
<1>2. CASE UNCHANGED <<holder, sell, auction>>
  BY <1>1, <1>2, SilentStep
<1>3. ASSUME NEW from \in Users, NEW to \in Users,
             TransferNft(n, from, to), UNCHANGED AboveLedger
      PROVE  ExchangeStep
  BY <1>1, <1>3, TransferGives DEF ExchangeStep, Abstract!Next
<1>4. CASE InitSellData(n) /\ UNCHANGED AboveListing
  BY <1>2, <1>4 DEF InitSellData, AboveListing, ledgerVars, auctionVars
<1>5. CASE InitAuctionData(n)
  BY <1>2, <1>5 DEF InitAuctionData, sellVars, ledgerVars
<1> QED BY <1>3, <1>4, <1>5 DEF NftNext

LEMMA SaleStep ==
    ASSUME TypeOK, TypeOK', TeamWellFormed, Custody, Custody',
           NEW u \in Users, NEW n \in NFTs, SaleNext(u, n)
    PROVE  ExchangeStep
<1>0. sell \in [NFTs -> SellData]
  BY DEF TypeOK, ListingTypeOK
<1>1. ASSUME NEW price \in [Currency -> Prices], List(u, n, price), UNCHANGED AboveListing
      PROVE  ExchangeStep
  <2>1. KeepsWealth
    BY <1>1, OthersKeepWealth
  <2>2. /\ holder[n] = u
        /\ holder' = [holder EXCEPT ![n] = Vault]
        /\ \A m \in NFTs \ {n} : sell'[m] = sell[m] /\ auction'[m] = auction[m]
        /\ sell'[n].active = 1 /\ sell'[n].seller = u
        /\ market_fee' = market_fee
    BY <1>0, <1>1 DEF List, AboveListing, auctionVars, globalVars
  <2>3. Abstract!OpenSale(n)
    BY <2>1, <2>2, EntryOpensSale
  <2> QED BY <2>3 DEF ExchangeStep, Abstract!Next
<1>2. ASSUME Delist(u, n), UNCHANGED AboveListing PROVE ExchangeStep
  <2>1. KeepsWealth
    BY <1>2, OthersKeepWealth
  <2>2. /\ holder[n] = Vault
        /\ Depositor(n) = u
        /\ holder' = [holder EXCEPT ![n] = u]
        /\ \A m \in NFTs \ {n} : sell'[m] = sell[m] /\ auction'[m] = auction[m]
        /\ market_fee' = market_fee
    BY <1>0, <1>2 DEF Delist, Depositor, AboveListing, auctionVars, globalVars
  <2>3. Abstract!CloseSale(n)
    BY <2>1, <2>2, ReturnClosesSale
  <2> QED BY <2>3 DEF ExchangeStep, Abstract!Next
<1>3. ASSUME NEW c \in Currency, Purchase(u, n, c), UNCHANGED AboveListing
      PROVE  ExchangeStep
  BY <1>3, PurchaseSettles, SettlementStep
<1> QED BY <1>1, <1>2, <1>3 DEF SaleNext

LEMMA OfferStep ==
    ASSUME TypeOK, TypeOK', Custody, NEW u \in Users, NEW n \in NFTs, OfferNext(u, n)
    PROVE  ExchangeStep
<1>1. ASSUME NEW b \in Users, AcceptOffer(u, n, b), UNCHANGED auctionVars
      PROVE  ExchangeStep
  BY <1>1, AcceptOfferSettles, SettlementStep
<1>2. ASSUME UNCHANGED auctionVars,
             \/ InitOfferData(u, n)
             \/ \E price \in OfferPrices, c \in Currency : MakeOffer(u, n, price, c)
             \/ CancelOffer(u, n)
      PROVE  ExchangeStep
  <2>1. UNCHANGED <<holder, sell, auction>>
    BY <1>2 DEF InitOfferData, MakeOffer, CancelOffer, sellVars, ledgerVars, auctionVars
  <2>2. KeepsWealth
    BY <1>2, OfferKeepsWealth
  <2> QED BY <2>1, <2>2, SilentStep
<1> QED BY <1>1, <1>2 DEF OfferNext

LEMMA AuctionStep ==
    ASSUME TypeOK, TypeOK', Custody, Custody',
           NEW u \in Users, NEW n \in NFTs, AuctionNext(u, n)
    PROVE  ExchangeStep
<1>0. auction \in [NFTs -> AuctionData]
  BY DEF TypeOK, AuctionsTypeOK
<1>1. ASSUME NEW start_price, NEW min_increase, NEW c, NEW end_date,
             CreateAuction(u, n, start_price, min_increase, c, end_date)
      PROVE  ExchangeStep
  <2>1. KeepsWealth
    BY <1>1, AuctionKeepsWealth
  <2>2. /\ holder[n] = u
        /\ holder' = [holder EXCEPT ![n] = Vault]
        /\ \A m \in NFTs \ {n} : sell'[m] = sell[m] /\ auction'[m] = auction[m]
        /\ auction'[n].status = 1 /\ auction'[n].creator = u
        /\ market_fee' = market_fee
    BY <1>0, <1>1 DEF CreateAuction, sellVars, globalVars
  <2>3. Abstract!OpenSale(n)
    BY <2>1, <2>2, EntryOpensSale
  <2> QED BY <2>3 DEF ExchangeStep, Abstract!Next
<1>2. ASSUME NEW price \in BidPrices, PlaceBid(u, n, price) PROVE ExchangeStep
  <2>1. KeepsWealth
    BY <1>2, AuctionKeepsWealth
  <2>2. /\ auction' = [auction EXCEPT ![n].last_bidder = u, ![n].highest_bid = price]
        /\ holder' = holder /\ sell' = sell /\ market_fee' = market_fee
    BY <1>2 DEF PlaceBid, sellVars, globalVars
  <2>3. \A m \in NFTs : /\ auction'[m].status = auction[m].status
                        /\ auction'[m].creator = auction[m].creator
    BY <1>0, <2>2 DEF AuctionData
  <2>4. ownerBar' = ownerBar /\ saleBar' = saleBar
    BY <2>2, <2>3 DEF ownerBar, saleBar, Owner, SaleOf, Depositor, Listed, Auctioned
  <2>5. UNCHANGED Abstract!exchangeVars
    BY <2>1, <2>2, <2>4, SameWealth DEF Abstract!exchangeVars
  <2> QED BY <2>5 DEF ExchangeStep
<1>3. ASSUME ClaimAuction(u, n) PROVE ExchangeStep
  BY <1>3, ClaimAuctionSettles, SettlementStep
<1>4. ASSUME CancelAuction(u, n) PROVE ExchangeStep
  <2>1. KeepsWealth
    BY <1>4, AuctionKeepsWealth
  <2>2. /\ holder[n] = Vault
        /\ Depositor(n) = u
        /\ holder' = [holder EXCEPT ![n] = u]
        /\ \A m \in NFTs \ {n} : sell'[m] = sell[m] /\ auction'[m] = auction[m]
        /\ market_fee' = market_fee
    BY <1>0, <1>4 DEF CancelAuction, Depositor, Custody, sellVars, globalVars
  <2>3. Abstract!CloseSale(n)
    BY <2>1, <2>2, ReturnClosesSale
  <2> QED BY <2>3 DEF ExchangeStep, Abstract!Next
<1> QED BY <1>1, <1>2, <1>3, <1>4 DEF AuctionNext

LEMMA StepRefines ==
    ASSUME TypeOK, TypeOK', TeamWellFormed, Custody, Custody', [Next]_vars
    PROVE  ExchangeStep
<1>1. CASE UNCHANGED vars
  BY <1>1, UnchangedWealth, SilentStep
  DEF vars, ledgerVars, userVars, sellVars, auctionVars
<1>2. ASSUME NEW admin \in Admins, AdminNext(admin) PROVE ExchangeStep
  <2>1. UNCHANGED <<holder, sell, auction>>
    BY <1>2 DEF AdminNext, AboveTeam, ledgerVars, sellVars, auctionVars
  <2> QED BY <1>2, <2>1, OthersKeepWealth, SilentStep
<1>3. ASSUME Tick, UNCHANGED AboveLedger PROVE ExchangeStep
  <2>1. UNCHANGED <<holder, sell, auction>>
    BY <1>3 DEF Tick, AboveLedger, sellVars, auctionVars
  <2> QED BY <1>3, <2>1, OthersKeepWealth, SilentStep
<1>4. ASSUME NEW u \in Users, UserNext(u) PROVE ExchangeStep
  <2>1. UNCHANGED <<holder, sell, auction>>
    BY <1>4 DEF UserNext, InitUserPool, Deposit, Withdraw, AboveEscrow, ledgerVars,
                sellVars, auctionVars
  <2> QED BY <1>4, <2>1, UserKeepsWealth, SilentStep
<1> QED BY <1>1, <1>2, <1>3, <1>4, NftStep, SaleStep, OfferStep, AuctionStep DEF Next

\* The genesis is the beginning of an exchange: nothing is for sale and everybody owns
\* what he holds.
LEMMA InitRefines == Init => Abstract!Init
<1> SUFFICES ASSUME Init PROVE Abstract!Init
  OBVIOUS
<1>1. TypeOK
  BY TypeInit
<1>2. \A n \in NFTs : ~ Listed(n) /\ ~ Auctioned(n) /\ holder[n] \in Users
  BY LedgerAssumption
  DEF Init, LedgerInit, ListingInit, AuctionsInit, Listed, Auctioned, NoListing, NoAuction
<1>3. ownerBar \in [NFTs -> Users]
  BY <1>2, LedgerAssumption DEF ownerBar, Owner
<1>4. saleBar = [n \in NFTs |-> "none"]
  BY <1>2 DEF saleBar, SaleOf
<1>5. wealthBar \in [Users -> [Currency -> Nat]]
  BY <1>1, WealthType DEF wealthBar
<1>6. market_fee \in [Currency -> 0..PERMYRIAD]
  BY <1>1, TeamAssumption DEF TypeOK, TeamTypeOK
<1> QED BY <1>3, <1>4, <1>5, <1>6 DEF Abstract!Init

\* For any number of users and NFTs, and all prices, amounts, fees and rates, the program
\* is an exchange: whatever the order of listings, offers, deposits, bids, refunds and
\* claims, only a sale moves wealth, and it moves an NFT at the same time.
THEOREM ProgramImplementsExchange == Spec => ImplementsExchange
<1>1. TypeOK /\ TypeOK' /\ TeamWellFormed /\ Custody /\ Custody' /\ [Next]_vars
        => [Abstract!Next]_(Abstract!exchangeVars)
  BY StepRefines DEF ExchangeStep
<1>2. Spec => Abstract!Spec
  BY <1>1, InitRefines, StatesAreSound, PTL DEF Spec, Abstract!Spec
<1> QED BY <1>2 DEF ImplementsExchange
=============================================================================
