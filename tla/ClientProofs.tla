---------------------------- MODULE ClientProofs -----------------------------
(***************************************************************************)
(* The program behind its clients: whatever the network loses, delays or   *)
(* doubles and whenever processes die, the clients only ever make steps of *)
(* the program, and only traders with a pool get into its listings and     *)
(* auctions.  Nothing here depends on which transactions fail.             *)
(***************************************************************************)
EXTENDS Client, SolvencyProofs

-----------------------------------------------------------------------------
(* The invariant.                                                           *)

AdminOps == {"initialize", "update_fee", "add_treasury", "remove_treasury"}

UserOps == {"init_user", "deposit", "withdraw"}

NftOps == {"init_sell_data", "list", "delist", "purchase",
           "init_offer_data", "make_offer", "cancel_offer", "accept_offer",
           "init_auction_data", "create_auction", "place_bid", "claim_auction",
           "cancel_auction"}

\* An instruction that its signer may give, with arguments the program's
\* specification knows.
CommandOK(by, k) ==
    /\ k.op \in AdminOps \cup UserOps \cup NftOps
    /\ k.op \in AdminOps => by \in Admins
    /\ k.op \in UserOps \cup NftOps => by \in Users
    /\ k.op \in NftOps => k.nft \in NFTs
    /\ k.op = "update_fee" => k.sol_fee \in Fees /\ k.token_fee \in Fees
    /\ k.op = "add_treasury" => k.address \in Treasuries /\ k.rate \in Rates
    /\ k.op = "remove_treasury" => k.address \in Treasuries
    /\ k.op \in {"deposit", "withdraw"} => k.amount \in [Currency -> Amounts]
    /\ k.op = "list" => k.prices \in [Currency -> Prices]
    /\ k.op = "make_offer" => k.price \in OfferPrices
    /\ k.op = "accept_offer" => k.buyer \in Users
    /\ k.op = "create_auction" => /\ k.start_price \in StartPrices
                                  /\ k.min_increase \in Increases
                                  /\ k.end_date \in 0..MaxTime
    /\ k.op = "place_bid" => k.price \in BidPrices

AwaitingOps == {"list", "purchase", "make_offer", "accept_offer", "create_auction",
                "claim_auction"}

\* A command between its awaits, its numbers as they were typed.
TypedOK(u, k) ==
    /\ k.op \in AwaitingOps
    /\ u \in Users
    /\ k.nft \in NFTs
    /\ k.op = "list" => k.prices \in [Currency -> Typed(Prices)]
    /\ k.op = "make_offer" => k.price \in Typed(OfferPrices)
    /\ k.op = "accept_offer" => k.buyer \in Users
    /\ k.op = "create_auction" => /\ k.start_price \in Typed(StartPrices)
                                  /\ k.min_increase \in Typed(Increases)
                                  /\ k.end_date \in Typed(0..MaxTime)

\* Who signs an instruction that makes him a seller, a creator or a bidder has a pool.
TradingOps == {"list", "create_auction", "place_bid"}

PoolBehind(by, k) == k.op \in TradingOps => by \in user_pools

ProcessOK(u, p) ==
    p.stage \in {"build", "init"} => TypedOK(u, p.cmd) /\ PoolBehind(u, p.cmd)

\* Transactions that may be on their way.
Sendable(txs) == \A tx \in txs : CommandOK(tx.by, tx.cmd) /\ PoolBehind(tx.by, tx.cmd)

ClientInv ==
    /\ DOMAIN proc = Payers
    /\ Sendable(sent)
    /\ \A u \in Payers : ProcessOK(u, proc[u])

-----------------------------------------------------------------------------
(* What is typed and what arrives.                                          *)

\* A number that loses its sign on the way is one of those without a sign.
LEMMA TypedEncodes ==
    ASSUME NEW S, S \subseteq Nat, NEW x \in Typed(S)
    PROVE  u64(x) \in S /\ (x >= 0 => x \in S)
<1>1. CASE x \in S
  BY <1>1 DEF u64
<1>2. ASSUME NEW y \in S, x = - y PROVE u64(x) \in S /\ (x >= 0 => x \in S)
  <2>1. y \in Nat /\ x = - y
    BY <1>2
  <2>2. CASE y = 0
    BY <2>1, <2>2 DEF u64
  <2>3. CASE y # 0
    BY <2>1, <2>3 DEF u64
  <2> QED BY <2>2, <2>3
<1> QED BY <1>1, <1>2 DEF Typed

LEMMA TypedAmountEncodes ==
    ASSUME NEW S, S \subseteq Nat, NEW amount \in [Currency -> Typed(S)]
    PROVE  [c \in Currency |-> u64(amount[c])] \in [Currency -> S]
<1>1. ASSUME NEW c \in Currency PROVE u64(amount[c]) \in S
  BY TypedEncodes
<1> QED BY <1>1

\* The numbers the program's specification is given are naturals.
LEMMA ArgumentsAreNaturals ==
    /\ Fees \subseteq Nat /\ Rates \subseteq Nat /\ Amounts \subseteq Nat
    /\ Prices \subseteq Nat /\ OfferPrices \subseteq Nat /\ StartPrices \subseteq Nat
    /\ Increases \subseteq Nat /\ BidPrices \subseteq Nat /\ 0..MaxTime \subseteq Nat
BY TeamAssumption, EscrowAssumption, ListingAssumption, OffersAssumption,
   AuctionsAssumption

-----------------------------------------------------------------------------
(* What the builders return.                                                *)

\* A builder that runs after an await keeps the command, its signer apart.
LEMMA BuiltIsCommand ==
    ASSUME NEW u, NEW k, TypedOK(u, k), NEW team, NEW tx \in Built(u, k, team), tx.by = u
    PROVE  CommandOK(u, tx.cmd) /\ tx.cmd.op = k.op
<1>1. CASE k.op = "list"
  <2>1. tx.cmd = [op |-> "list", nft |-> k.nft,
                  prices |-> [c \in Currency |-> u64(k.prices[c])]]
    BY <1>1 DEF Built, createListForSellNftTx, Optional, Tx
  <2>2. [c \in Currency |-> u64(k.prices[c])] \in [Currency -> Prices]
    BY <1>1, TypedAmountEncodes, ArgumentsAreNaturals DEF TypedOK
  <2> QED BY <1>1, <2>1, <2>2 DEF TypedOK, CommandOK, AdminOps, UserOps, NftOps
<1>2. CASE k.op = "purchase"
  <2>1. tx.cmd = [op |-> "purchase", nft |-> k.nft, by_token |-> k.by_token]
    BY <1>2 DEF Built, createPurchaseTx, Tx
  <2> QED BY <1>2, <2>1 DEF TypedOK, CommandOK, AdminOps, UserOps, NftOps
<1>3. CASE k.op = "make_offer"
  <2>1. tx.cmd = [op |-> "make_offer", nft |-> k.nft, price |-> u64(k.price),
                  by_token |-> k.by_token]
    BY <1>3 DEF Built, createMakeOfferTx, Optional, Tx
  <2>2. u64(k.price) \in OfferPrices
    BY <1>3, TypedEncodes, ArgumentsAreNaturals DEF TypedOK
  <2> QED BY <1>3, <2>1, <2>2 DEF TypedOK, CommandOK, AdminOps, UserOps, NftOps
<1>4. CASE k.op = "accept_offer"
  <2>1. tx.cmd = [op |-> "accept_offer", nft |-> k.nft, buyer |-> k.buyer]
    BY <1>4 DEF Built, createAcceptOfferTx, Tx
  <2> QED BY <1>4, <2>1 DEF TypedOK, CommandOK, AdminOps, UserOps, NftOps
<1>5. CASE k.op = "create_auction"
  <2>1. /\ tx.cmd = [op |-> "create_auction", nft |-> k.nft,
                     start_price |-> u64(k.start_price),
                     min_increase |-> u64(k.min_increase), by_token |-> k.by_token,
                     end_date |-> k.end_date]
        /\ k.end_date >= 0
    BY <1>5 DEF Built, createCreateAuctionTx, Optional, Tx
  <2>2. /\ u64(k.start_price) \in StartPrices
        /\ u64(k.min_increase) \in Increases
        /\ k.end_date \in 0..MaxTime
    BY <1>5, <2>1, TypedEncodes, ArgumentsAreNaturals DEF TypedOK
  <2> QED BY <1>5, <2>1, <2>2 DEF TypedOK, CommandOK, AdminOps, UserOps, NftOps
<1>6. CASE k.op = "claim_auction"
  <2>1. tx.cmd = [op |-> "claim_auction", nft |-> k.nft]
    BY <1>6 DEF Built, createClaimAuctionTx, Tx
  <2> QED BY <1>6, <2>1 DEF TypedOK, CommandOK, AdminOps, UserOps, NftOps
<1> QED BY <1>1, <1>2, <1>3, <1>4, <1>5, <1>6 DEF TypedOK, AwaitingOps

-----------------------------------------------------------------------------
(* Processes.  A process changes nothing of the program.                    *)

\* The steps that commands are made of keep the invariant.
LEMMA SendKeeps ==
    ASSUME ClientInv, NEW u \in Payers, NEW txs,
           Sendable(txs),
           Send(u, txs)
    PROVE  ClientInv' /\ UNCHANGED vars
<1>1. PICK tx \in txs : /\ sent' = sent \cup {tx}
                        /\ proc' = [proc EXCEPT ![u] = Confirming(tx)]
  BY DEF Send
<1>2. user_pools' = user_pools /\ UNCHANGED vars
  BY DEF Send, vars, userVars
<1>3. DOMAIN proc' = Payers /\ \A v \in Payers : v # u => proc'[v] = proc[v]
  BY <1>1 DEF ClientInv
<1>4. ProcessOK(u, proc[u])'
  <2>1. proc'[u] = [stage |-> "main", tx |-> tx]
    BY <1>1 DEF ClientInv, Confirming
  <2> QED BY <2>1 DEF ProcessOK
<1>5. \A v \in Payers : ProcessOK(v, proc[v])'
  BY <1>2, <1>3, <1>4 DEF ClientInv, ProcessOK, PoolBehind
<1>6. Sendable(sent)'
  BY <1>1, <1>2 DEF ClientInv, Sendable, PoolBehind
<1> QED BY <1>2, <1>3, <1>5, <1>6 DEF ClientInv

LEMMA SendFirstKeeps ==
    ASSUME ClientInv, NEW u \in Payers, NEW txs,
           Sendable(txs),
           NEW cmd, TypedOK(u, cmd), PoolBehind(u, cmd),
           SendFirst(u, txs, cmd)
    PROVE  ClientInv' /\ UNCHANGED vars
<1>1. PICK tx \in txs : /\ sent' = sent \cup {tx}
                        /\ proc' = [proc EXCEPT ![u] = Creating(cmd, tx)]
  BY DEF SendFirst
<1>2. user_pools' = user_pools /\ UNCHANGED vars
  BY DEF SendFirst, vars, userVars
<1>3. DOMAIN proc' = Payers /\ \A v \in Payers : v # u => proc'[v] = proc[v]
  BY <1>1 DEF ClientInv
<1>4. ProcessOK(u, proc[u])'
  <2>1. proc'[u].cmd = cmd
    BY <1>1 DEF ClientInv, Creating
  <2> QED BY <1>2, <2>1 DEF ProcessOK, PoolBehind
<1>5. \A v \in Payers : ProcessOK(v, proc[v])'
  BY <1>2, <1>3, <1>4 DEF ClientInv, ProcessOK, PoolBehind
<1>6. Sendable(sent)'
  BY <1>1, <1>2 DEF ClientInv, Sendable, PoolBehind
<1> QED BY <1>2, <1>3, <1>5, <1>6 DEF ClientInv

LEMMA AwaitKeeps ==
    ASSUME ClientInv, NEW u \in Payers, NEW team,
           NEW cmd, TypedOK(u, cmd), PoolBehind(u, cmd),
           Await(u, cmd, team)
    PROVE  ClientInv' /\ UNCHANGED vars
<1>1. /\ sent' = sent
      /\ proc' = [proc EXCEPT ![u] = Building(cmd, team)]
  BY DEF Await
<1>2. user_pools' = user_pools /\ UNCHANGED vars
  BY DEF Await, vars, userVars
<1>3. DOMAIN proc' = Payers /\ \A v \in Payers : v # u => proc'[v] = proc[v]
  BY <1>1 DEF ClientInv
<1>4. ProcessOK(u, proc[u])'
  <2>1. proc'[u].cmd = cmd
    BY <1>1 DEF ClientInv, Building
  <2> QED BY <1>2, <2>1 DEF ProcessOK, PoolBehind
<1>5. \A v \in Payers : ProcessOK(v, proc[v])'
  BY <1>2, <1>3, <1>4 DEF ClientInv, ProcessOK, PoolBehind
<1>6. Sendable(sent)'
  BY <1>1, <1>2 DEF ClientInv, Sendable, PoolBehind
<1> QED BY <1>3, <1>5, <1>6, <1>2 DEF ClientInv

\* A process that ends leaves the network as it is.
LEMMA EndKeeps ==
    ASSUME ClientInv, NEW u \in Payers,
           proc' = [proc EXCEPT ![u] = Idle], sent' = sent, UNCHANGED vars
    PROVE  ClientInv'
<1>1. user_pools' = user_pools
  BY DEF vars, userVars
<1>2. DOMAIN proc' = Payers /\ \A v \in Payers : v # u => proc'[v] = proc[v]
  BY DEF ClientInv
<1>3. ProcessOK(u, proc[u])'
  BY DEF ClientInv, Idle, ProcessOK
<1>4. \A v \in Payers : ProcessOK(v, proc[v])'
  BY <1>1, <1>2, <1>3 DEF ClientInv, ProcessOK, PoolBehind
<1>5. Sendable(sent)'
  BY <1>1 DEF ClientInv, Sendable, PoolBehind
<1> QED BY <1>2, <1>4, <1>5 DEF ClientInv

-----------------------------------------------------------------------------
(* Commands.                                                                *)

LEMMA AdminCommandKeeps ==
    ASSUME ClientInv, NEW u \in Admins, AdminCommand(u)
    PROVE  ClientInv' /\ UNCHANGED vars
<1>0. u \in Payers
  BY DEF Payers
<1>1. CASE init_command(u)
  <2>1. Sendable(createInitializeTx(u))
    BY DEF createInitializeTx, Plain, Tx, Sendable, CommandOK, PoolBehind, AdminOps, UserOps,
           NftOps, TradingOps
  <2> QED BY <1>0, <1>1, <2>1, SendKeeps DEF init_command, initProject
<1>2. ASSUME NEW sol_fee \in Typed(Fees), NEW token_fee \in Typed(Fees),
             updateFee(u, sol_fee, token_fee)
      PROVE  ClientInv' /\ UNCHANGED vars
  <2>1. u64(sol_fee) \in Fees /\ u64(token_fee) \in Fees
    BY TypedEncodes, ArgumentsAreNaturals
  <2>2. Sendable(createUpdateFeeTx(u, sol_fee, token_fee))
    BY <2>1 DEF createUpdateFeeTx, Plain, Tx, Sendable, CommandOK, PoolBehind, AdminOps, UserOps,
           NftOps, TradingOps
  <2> QED BY <1>0, <1>2, <2>2, SendKeeps DEF updateFee
<1>3. ASSUME NEW address \in Treasuries, NEW rate \in Typed(Rates),
             addTreasury(u, address, rate)
      PROVE  ClientInv' /\ UNCHANGED vars
  <2>1. u64(rate) \in Rates
    BY TypedEncodes, ArgumentsAreNaturals
  <2>2. Sendable(createAddTreasuryTx(u, address, rate))
    BY <2>1 DEF createAddTreasuryTx, Tx, Sendable, CommandOK, PoolBehind, AdminOps, UserOps,
           NftOps, TradingOps
  <2> QED BY <1>0, <1>3, <2>2, SendKeeps DEF addTreasury
<1>4. ASSUME NEW address \in Treasuries, removeTreasury(u, address)
      PROVE  ClientInv' /\ UNCHANGED vars
  <2>1. Sendable(createRemoveTreasuryTx(u, address))
    BY DEF createRemoveTreasuryTx, Plain, Tx, Sendable, CommandOK, PoolBehind, AdminOps, UserOps,
           NftOps, TradingOps
  <2> QED BY <1>0, <1>4, <2>1, SendKeeps DEF removeTreasury
<1> QED BY <1>1, <1>2, <1>3, <1>4
        DEF AdminCommand, update_fee_command, add_treasury_command,
            remove_treasury_command

\* Most commands ask for the user's pool first.
LEMMA InitializedUsers ==
    ASSUME NEW u, isInitializedUser(u)
    PROVE  u \in user_pools
BY DEF isInitializedUser, getUserPoolState, Optional

LEMMA UserCommandKeeps ==
    ASSUME ClientInv, NEW u \in Users, UserCommand(u)
    PROVE  ClientInv' /\ UNCHANGED vars
<1>0. u \in Payers
  BY DEF Payers
<1>1. CASE init_user_command(u)
  <2>1. Sendable(createInitUserTx(u))
    BY DEF createInitUserTx, Plain, Tx, Sendable, CommandOK, PoolBehind, AdminOps, UserOps,
           NftOps, TradingOps
  <2> QED BY <1>0, <1>1, <2>1, SendKeeps DEF init_user_command, initUserPool
<1>2. ASSUME NEW amount \in [Currency -> Typed(Amounts)], depositEscrow(u, amount)
      PROVE  ClientInv' /\ UNCHANGED vars
  <2>1. [c \in Currency |-> u64(amount[c])] \in [Currency -> Amounts]
    BY TypedAmountEncodes, ArgumentsAreNaturals
  <2>2. Sendable(createDepositTx(u, amount))
    BY <2>1 DEF createDepositTx, Optional, Tx, Sendable, CommandOK, PoolBehind, AdminOps, UserOps,
           NftOps, TradingOps
  <2> QED BY <1>0, <1>2, <2>2, SendKeeps DEF depositEscrow
<1>3. ASSUME NEW amount \in [Currency -> Typed(Amounts)], withdrawEscrow(u, amount)
      PROVE  ClientInv' /\ UNCHANGED vars
  <2>1. [c \in Currency |-> u64(amount[c])] \in [Currency -> Amounts]
    BY TypedAmountEncodes, ArgumentsAreNaturals
  <2>2. Sendable(createWithdrawTx(u, amount))
    BY <2>1 DEF createWithdrawTx, Tx, Sendable, CommandOK, PoolBehind, AdminOps, UserOps,
           NftOps, TradingOps
  <2> QED BY <1>0, <1>3, <2>2, SendKeeps DEF withdrawEscrow
<1> QED BY <1>1, <1>2, <1>3 DEF UserCommand, deposit_command, withdraw_command

\* The commands that send one transaction at once.
LEMMA DirectCommandKeeps ==
    ASSUME ClientInv, NEW u \in Users, NEW n \in NFTs,
           \/ delist_command(u, n)
           \/ cancel_offer_command(u, n)
           \/ place_bid_command(u, n)
           \/ cancel_auction_command(u, n)
    PROVE  ClientInv' /\ UNCHANGED vars
<1>0. u \in Payers
  BY DEF Payers
<1>1. CASE delist_command(u, n)
  <2>1. Sendable(createDelistNftTx(n, u))
    BY DEF createDelistNftTx, Tx, Sendable, CommandOK, PoolBehind, AdminOps, UserOps,
           NftOps, TradingOps
  <2> QED BY <1>0, <1>1, <2>1, SendKeeps DEF delist_command, delistNft
<1>2. CASE cancel_offer_command(u, n)
  <2>1. Sendable(createCancelOfferTx(n, u))
    BY DEF createCancelOfferTx, Plain, Tx, Sendable, CommandOK, PoolBehind, AdminOps, UserOps,
           NftOps, TradingOps
  <2> QED BY <1>0, <1>2, <2>1, SendKeeps DEF cancel_offer_command, cancelOffer
<1>3. CASE place_bid_command(u, n)
  <2>1. PICK price \in Typed(BidPrices) : placeBid(u, n, price)
    BY <1>3 DEF place_bid_command
  <2>2. u64(price) \in BidPrices
    BY TypedEncodes, ArgumentsAreNaturals
  <2>3. u \in user_pools
    BY <2>1, InitializedUsers DEF placeBid
  <2>4. Sendable(createPlaceBidTx(n, u, price))
    BY <2>2, <2>3 DEF createPlaceBidTx, Tx, Sendable, CommandOK, PoolBehind, AdminOps, UserOps,
           NftOps, TradingOps
  <2> QED BY <1>0, <2>1, <2>4, SendKeeps DEF placeBid
<1>4. CASE cancel_auction_command(u, n)
  <2>1. Sendable(createCancelAuctionTx(n, u))
    BY DEF createCancelAuctionTx, Tx, Sendable, CommandOK, PoolBehind, AdminOps, UserOps,
           NftOps, TradingOps
  <2> QED BY <1>0, <1>4, <2>1, SendKeeps DEF cancel_auction_command, cancelAuction
<1> QED BY <1>1, <1>2, <1>3, <1>4

\* The commands that read or send something first.
LEMMA AwaitingCommandKeeps ==
    ASSUME ClientInv, NEW u \in Users, NEW n \in NFTs,
           \/ list_command(u, n)
           \/ purchase_command(u, n)
           \/ make_offer_command(u, n)
           \/ accept_offer_command(u, n)
           \/ create_auction_command(u, n)
           \/ claim_auction_command(u, n)
    PROVE  ClientInv' /\ UNCHANGED vars
<1>0. u \in Payers
  BY DEF Payers
<1>1. CASE list_command(u, n)
  <2>1. PICK prices \in [Currency -> Typed(Prices)] : listNftForSale(u, n, prices)
    BY <1>1 DEF list_command
  <2> DEFINE cmd == [op |-> "list", nft |-> n, prices |-> prices]
  <2>2. TypedOK(u, cmd) /\ PoolBehind(u, cmd)
    BY <2>1, InitializedUsers DEF listNftForSale, TypedOK, AwaitingOps, PoolBehind
  <2>3. Sendable(createInitSellDataTx(n, u))
    BY DEF createInitSellDataTx, Plain, Tx, Sendable, CommandOK, PoolBehind, AdminOps, UserOps,
           NftOps, TradingOps
  <2>4. Await(u, cmd, NoTeam) \/ SendFirst(u, createInitSellDataTx(n, u), cmd)
    BY <2>1 DEF listNftForSale, initSellData
  <2> HIDE DEF cmd
  <2> QED BY <1>0, <2>2, <2>3, <2>4, AwaitKeeps, SendFirstKeeps
<1>2. CASE purchase_command(u, n)
  <2>1. PICK by_token \in TypedByToken : purchase(u, n, by_token)
    BY <1>2 DEF purchase_command
  <2> DEFINE cmd == [op |-> "purchase", nft |-> n, by_token |-> by_token]
  <2>2. TypedOK(u, cmd) /\ PoolBehind(u, cmd)
    BY DEF TypedOK, AwaitingOps, PoolBehind, TradingOps
  <2>3. PICK pool \in getGlobalState : Await(u, cmd, TeamAddresses(pool))
    BY <2>1 DEF purchase
  <2> HIDE DEF cmd
  <2> QED BY <1>0, <2>2, <2>3, AwaitKeeps
<1>3. CASE make_offer_command(u, n)
  <2>1. PICK price \in Typed(OfferPrices), by_token \in TypedByToken :
            makeOffer(u, n, price, by_token)
    BY <1>3 DEF make_offer_command
  <2> DEFINE cmd == [op |-> "make_offer", nft |-> n, price |-> price,
                     by_token |-> by_token]
  <2>2. TypedOK(u, cmd) /\ PoolBehind(u, cmd)
    BY DEF TypedOK, AwaitingOps, PoolBehind, TradingOps
  <2>3. Sendable(createInitOfferDataTx(n, u))
    BY DEF createInitOfferDataTx, Plain, Tx, Sendable, CommandOK, PoolBehind, AdminOps, UserOps,
           NftOps, TradingOps
  <2>4. Await(u, cmd, NoTeam) \/ SendFirst(u, createInitOfferDataTx(n, u), cmd)
    BY <2>1 DEF makeOffer, initOfferData
  <2> HIDE DEF cmd
  <2> QED BY <1>0, <2>2, <2>3, <2>4, AwaitKeeps, SendFirstKeeps
<1>4. CASE accept_offer_command(u, n)
  <2>1. PICK buyer \in Users : acceptOffer(u, n, buyer)
    BY <1>4 DEF accept_offer_command
  <2> DEFINE cmd == [op |-> "accept_offer", nft |-> n, buyer |-> buyer]
  <2>2. TypedOK(u, cmd) /\ PoolBehind(u, cmd)
    BY DEF TypedOK, AwaitingOps, PoolBehind, TradingOps
  <2>3. PICK pool \in getGlobalState : Await(u, cmd, TeamAddresses(pool))
    BY <2>1 DEF acceptOffer
  <2> HIDE DEF cmd
  <2> QED BY <1>0, <2>2, <2>3, AwaitKeeps
<1>5. CASE create_auction_command(u, n)
  <2>1. PICK start_price \in Typed(StartPrices), min_increase \in Typed(Increases),
             end_date \in Typed(0..MaxTime), by_token \in TypedByToken :
                createAuction(u, n, start_price, min_increase, end_date, by_token)
    BY <1>5 DEF create_auction_command
  <2> DEFINE cmd == [op |-> "create_auction", nft |-> n, start_price |-> start_price,
                     min_increase |-> min_increase, end_date |-> end_date,
                     by_token |-> by_token]
  <2>2. TypedOK(u, cmd) /\ PoolBehind(u, cmd)
    BY <2>1, InitializedUsers DEF createAuction, TypedOK, AwaitingOps, PoolBehind
  <2>3. Sendable(createInitAuctionDataTx(n, u))
    BY DEF createInitAuctionDataTx, Plain, Tx, Sendable, CommandOK, PoolBehind, AdminOps, UserOps,
           NftOps, TradingOps
  <2>4. Await(u, cmd, NoTeam) \/ SendFirst(u, createInitAuctionDataTx(n, u), cmd)
    BY <2>1 DEF createAuction, initAuctionData
  <2> HIDE DEF cmd
  <2> QED BY <1>0, <2>2, <2>3, <2>4, AwaitKeeps, SendFirstKeeps
<1>6. CASE claim_auction_command(u, n)
  <2> DEFINE cmd == [op |-> "claim_auction", nft |-> n]
  <2>1. TypedOK(u, cmd) /\ PoolBehind(u, cmd)
    BY DEF TypedOK, AwaitingOps, PoolBehind, TradingOps
  <2>2. PICK pool \in getGlobalState : Await(u, cmd, TeamAddresses(pool))
    BY <1>6 DEF claim_auction_command, claimAuction
  <2> HIDE DEF cmd
  <2> QED BY <1>0, <2>1, <2>2, AwaitKeeps
<1> QED BY <1>1, <1>2, <1>3, <1>4, <1>5, <1>6

\* The rest of a command after its await, and processes that stop.
LEMMA ProcessKeeps ==
    ASSUME ClientInv, NEW u \in Payers, Continue(u) \/ TimesOut(u) \/ Dies(u)
    PROVE  ClientInv' /\ UNCHANGED vars
<1> DEFINE k == proc[u].cmd
           txs == {tx \in Built(u, k, proc[u].team) : tx.by = u}
<1>1. CASE Continue(u) /\ Send(u, txs)
  <2>1. TypedOK(u, k) /\ PoolBehind(u, k)
    BY <1>1 DEF Continue, ClientInv, ProcessOK
  <2>2. ASSUME NEW tx \in txs
        PROVE  CommandOK(tx.by, tx.cmd) /\ PoolBehind(tx.by, tx.cmd)
    <3>1. CommandOK(u, tx.cmd) /\ tx.cmd.op = k.op /\ tx.by = u
      BY <2>1, BuiltIsCommand
    <3> QED BY <2>1, <3>1 DEF PoolBehind
  <2>3. Sendable(txs)
    BY <2>2 DEF Sendable
  <2> HIDE DEF txs
  <2> QED BY <1>1, <2>3, SendKeeps
<1>2. CASE /\ proc' = [proc EXCEPT ![u] = Idle]
           /\ UNCHANGED <<vars, sent>>
  BY <1>2, EndKeeps
<1> QED BY <1>1, <1>2 DEF Continue, TimesOut, Dies

-----------------------------------------------------------------------------
(* Transactions.                                                            *)

\* What a transaction does to the program is a step that its signer may make there.
LEMMA RunIsNext ==
    ASSUME NEW tx, CommandOK(tx.by, tx.cmd), Run(tx)
    PROVE  Next
<1> DEFINE k == tx.cmd
           u == tx.by
<1>1. CASE RunAdmin(tx, k)
  <2>1. u \in Admins
    BY <1>1 DEF RunAdmin, CommandOK, AdminOps
  <2>2. AdminNext(u)
    BY <1>1 DEF RunAdmin, CommandOK, AdminNext
  <2> QED BY <2>1, <2>2 DEF Next
<1>2. CASE RunUser(tx, k)
  <2>1. u \in Users
    BY <1>2 DEF RunUser, CommandOK, UserOps
  <2>2. UserNext(u)
    BY <1>2 DEF RunUser, CommandOK, UserNext
  <2> QED BY <2>1, <2>2 DEF Next
<1>3. CASE RunSale(tx, k)
  <2>1. u \in Users /\ k.nft \in NFTs
    BY <1>3 DEF RunSale, CommandOK, NftOps
  <2>2. CurrencyOf(k.by_token) \in Currency
    BY DEF CurrencyOf, Currency
  <2>3. NftNext(k.nft) \/ SaleNext(u, k.nft)
    BY <1>3, <2>2 DEF RunSale, RunPurchase, CommandOK, NftNext, SaleNext
  <2> QED BY <2>1, <2>3 DEF Next
<1>4. CASE RunOffer(tx, k)
  <2>1. u \in Users /\ k.nft \in NFTs
    BY <1>4 DEF RunOffer, CommandOK, NftOps
  <2>2. CurrencyOf(k.by_token) \in Currency
    BY DEF CurrencyOf, Currency
  <2>3. OfferNext(u, k.nft)
    BY <1>4, <2>2 DEF RunOffer, RunAcceptOffer, CommandOK, OfferNext
  <2> QED BY <2>1, <2>3 DEF Next
<1>5. CASE RunAuction(tx, k)
  <2>1. u \in Users /\ k.nft \in NFTs
    BY <1>5 DEF RunAuction, CommandOK, NftOps
  <2>2. CurrencyOf(k.by_token) \in Currency
    BY DEF CurrencyOf, Currency
  <2>3. NftNext(k.nft) \/ AuctionNext(u, k.nft)
    BY <1>5, <2>2
    DEF RunAuction, RunPlaceBid, RunClaimAuction, CommandOK, NftNext, AuctionNext
  <2> QED BY <2>1, <2>3 DEF Next
<1> QED BY <1>1, <1>2, <1>3, <1>4, <1>5 DEF Run

\* A pool is never taken away.
LEMMA PoolsStay ==
    ASSUME [Next]_vars
    PROVE  user_pools \subseteq user_pools'
<1>1. ASSUME NEW u \in Users, UserNext(u) PROVE user_pools \subseteq user_pools'
  BY <1>1 DEF UserNext, InitUserPool, Deposit, Withdraw
<1>2. ASSUME NEW admin \in Admins, AdminNext(admin) PROVE user_pools' = user_pools
  BY <1>2 DEF AdminNext, AboveTeam, userVars
<1>3. ASSUME NEW n \in NFTs, NftNext(n) PROVE user_pools' = user_pools
  BY <1>3 DEF NftNext, InitSellData, InitAuctionData, AboveLedger, userVars
<1>4. ASSUME NEW u \in Users, NEW n \in NFTs, SaleNext(u, n)
      PROVE  user_pools' = user_pools
  BY <1>4 DEF SaleNext, List, Delist, Purchase, userVars
<1>5. ASSUME NEW u \in Users, NEW n \in NFTs, OfferNext(u, n)
      PROVE  user_pools' = user_pools
  BY <1>5 DEF OfferNext, InitOfferData, MakeOffer, CancelOffer, AcceptOffer, userVars
<1>6. ASSUME NEW u \in Users, NEW n \in NFTs, AuctionNext(u, n)
      PROVE  user_pools' = user_pools
  BY <1>6 DEF AuctionNext, CreateAuction, PlaceBid, ClaimAuction, CancelAuction, userVars
<1>7. CASE Tick /\ UNCHANGED AboveLedger
  BY <1>7 DEF AboveLedger, userVars
<1>8. CASE UNCHANGED vars
  BY <1>8 DEF vars, userVars
<1> QED BY <1>1, <1>2, <1>3, <1>4, <1>5, <1>6, <1>7, <1>8 DEF Next

LEMMA LandsKeeps ==
    ASSUME ClientInv, NEW tx \in sent, Lands(tx)
    PROVE  ClientInv' /\ [Next]_vars
<1>1. CommandOK(tx.by, tx.cmd)
  BY DEF ClientInv, Sendable
<1>2. Executes(tx) => Next
  BY <1>1, RunIsNext DEF Executes
<1>3. Fails(tx) => UNCHANGED vars
  BY DEF Fails
<1>4. [Next]_vars
  BY <1>2, <1>3 DEF Lands, Arrives
<1>5. user_pools \subseteq user_pools'
  BY <1>4, PoolsStay
<1>6. sent' \subseteq sent /\ proc' = [u \in Payers |-> Confirmed(proc[u], tx)]
  BY DEF Lands, Arrives
<1>7. ASSUME NEW u \in Payers PROVE ProcessOK(u, proc[u])'
  <2>1. ProcessOK(u, proc[u]) /\ proc'[u] = Confirmed(proc[u], tx)
    BY <1>6 DEF ClientInv
  <2>2. CASE proc'[u] = Building(proc[u].cmd, NoTeam) /\ proc[u].stage = "init"
    BY <1>5, <2>1, <2>2 DEF ProcessOK, PoolBehind, Building
  <2>3. CASE proc'[u] = Idle
    BY <2>3 DEF ProcessOK, Idle
  <2>4. CASE proc'[u] = proc[u]
    BY <1>5, <2>1, <2>4 DEF ProcessOK, PoolBehind
  <2> QED BY <2>1, <2>2, <2>3, <2>4 DEF Confirmed
<1>8. Sendable(sent)'
  BY <1>5, <1>6 DEF ClientInv, Sendable, PoolBehind
<1> QED BY <1>4, <1>6, <1>7, <1>8 DEF ClientInv

\* What is lost or late, and what happens without a transaction.
LEMMA OthersKeep ==
    ASSUME ClientInv,
           \/ \E tx \in sent : Lost(tx)
           \/ Elapse
           \/ \E n \in NFTs, from, to \in Users : HandOver(n, from, to)
           \/ UNCHANGED allVars
    PROVE  ClientInv' /\ [Next]_vars
<1>1. sent' \subseteq sent /\ proc' = proc
  BY DEF Lost, Vanishes, Elapse, DropsExpired, HandOver, allVars, clientVars
<1>2. [Next]_vars
  <2>1. ASSUME NEW tx \in sent, Lost(tx) PROVE UNCHANGED vars
    BY <2>1 DEF Lost, Vanishes
  <2>2. CASE Elapse
    BY <2>2 DEF Elapse, Next
  <2>3. ASSUME NEW n \in NFTs, NEW from \in Users, NEW to \in Users,
               HandOver(n, from, to)
        PROVE  Next
    BY <2>3 DEF HandOver, NftNext, Next
  <2>4. CASE UNCHANGED allVars
    BY <2>4 DEF allVars
  <2> QED BY <2>1, <2>2, <2>3, <2>4
<1>3. user_pools \subseteq user_pools'
  BY <1>2, PoolsStay
<1> QED BY <1>1, <1>2, <1>3 DEF ClientInv, Sendable, ProcessOK, PoolBehind

LEMMA ClientStep ==
    ASSUME ClientInv, [ClientNext]_allVars
    PROVE  ClientInv' /\ [Next]_vars
<1>1. ASSUME NEW u \in Users, NEW n \in NFTs, NftCommand(u, n)
      PROVE  ClientInv' /\ UNCHANGED vars
  BY <1>1, DirectCommandKeeps, AwaitingCommandKeeps DEF NftCommand
<1> QED BY <1>1, AdminCommandKeeps, UserCommandKeeps, ProcessKeeps, LandsKeeps, OthersKeep
        DEF ClientNext

LEMMA ClientStart == ClientInit => Init /\ ClientInv
BY DEF ClientInit, ClientInv, Sendable, ProcessOK, Idle

\* With clients that see the chain late, on a network that loses and delays, and with
\* processes that die: what happens to the program is what its own specification
\* allows, so that everything proved of the program holds of the whole.
THEOREM ClientsImplementProgram == ClientSpec => Spec
<1>1. ClientInv /\ [ClientNext]_allVars => ClientInv'
  BY ClientStep
<1>2. ClientInv /\ [ClientNext]_allVars => [Next]_vars
  BY ClientStep
<1> QED BY <1>1, <1>2, ClientStart, PTL DEF ClientSpec, Spec

\* NFTs stay in safe custody and the vault stays solvent under all clients.
THEOREM SafeWithClients == ClientSpec => [](Custody /\ Solvency)
BY ClientsImplementProgram, CustodyCorrect, SolvencyCorrect, PTL

-----------------------------------------------------------------------------
(* Pools.                                                                   *)

LEMMA PoolsStillThere ==
    ASSUME TradersHavePools, user_pools \subseteq user_pools', UNCHANGED <<sell, auction>>
    PROVE  TradersHavePools'
BY DEF TradersHavePools, Listed, Auctioned

\* Listings of one NFT change; the new one, if any, is by a user with a pool.
LEMMA ListingKeepsPools ==
    ASSUME TradersHavePools, user_pools \subseteq user_pools', UNCHANGED auction,
           NEW n \in NFTs, \A m \in NFTs \ {n} : sell'[m] = sell[m],
           Listed(n)' => sell'[n].seller \in user_pools'
    PROVE  TradersHavePools'
<1>1. ASSUME NEW m \in NFTs
      PROVE  (Listed(m) => sell[m].seller \in user_pools)'
  BY DEF TradersHavePools, Listed
<1> QED BY <1>1 DEF TradersHavePools, Auctioned

LEMMA AuctionKeepsPools ==
    ASSUME TradersHavePools, user_pools \subseteq user_pools', UNCHANGED sell,
           NEW n \in NFTs, \A m \in NFTs \ {n} : auction'[m] = auction[m],
           Auctioned(n)' => {auction'[n].creator, auction'[n].last_bidder}
                                \subseteq user_pools' \cup {Default}
    PROVE  TradersHavePools'
<1>1. ASSUME NEW m \in NFTs
      PROVE  (Auctioned(m) => {auction[m].creator, auction[m].last_bidder}
                                  \subseteq user_pools \cup {Default})'
  BY DEF TradersHavePools, Auctioned
<1> QED BY <1>1 DEF TradersHavePools, Listed

\* Every transaction on its way keeps the traders' pools.
LEMMA RunKeepsPools ==
    ASSUME TypeOK, TradersHavePools, NEW tx, CommandOK(tx.by, tx.cmd),
           PoolBehind(tx.by, tx.cmd), Run(tx)
    PROVE  TradersHavePools'
<1> DEFINE k == tx.cmd
           u == tx.by
           n == k.nft
<1>1. user_pools \subseteq user_pools'
  BY RunIsNext, PoolsStay
<1>2. sell \in [NFTs -> SellData] /\ auction \in [NFTs -> AuctionData]
  BY DEF TypeOK, ListingTypeOK, AuctionsTypeOK
<1>3. CASE RunAdmin(tx, k)
  BY <1>1, <1>3, PoolsStillThere DEF RunAdmin, AboveTeam, sellVars, auctionVars
<1>4. CASE RunUser(tx, k)
  BY <1>1, <1>4, PoolsStillThere DEF RunUser, AboveEscrow, sellVars, auctionVars
<1>5. CASE RunSale(tx, k)
  <2>1. n \in NFTs /\ UNCHANGED auction
    BY <1>5 DEF RunSale, CommandOK, NftOps, AboveListing, auctionVars
  <2>2. CASE InitSellData(n)
    BY <1>1, <2>1, <2>2, PoolsStillThere DEF InitSellData
  <2>3. CASE List(u, n, k.prices) /\ k.op = "list"
    <3>1. u \in user_pools
      BY <2>3 DEF PoolBehind, TradingOps
    <3>2. sell'[n].seller = u /\ \A m \in NFTs \ {n} : sell'[m] = sell[m]
      BY <1>2, <2>1, <2>3 DEF List
    <3> QED BY <1>1, <2>1, <3>1, <3>2, ListingKeepsPools
  <2>4. CASE Delist(u, n) \/ RunPurchase(tx, k)
    <3>1. sell' = [sell EXCEPT ![n].active = 0]
      BY <2>4 DEF Delist, RunPurchase, Purchase
    <3>2. sell'[n].active = 0 /\ \A m \in NFTs \ {n} : sell'[m] = sell[m]
      BY <1>2, <2>1, <3>1 DEF SellData
    <3> QED BY <1>1, <2>1, <3>2, ListingKeepsPools DEF Listed
  <2> QED BY <1>5, <2>2, <2>3, <2>4 DEF RunSale
<1>6. CASE RunOffer(tx, k)
  <2>1. n \in NFTs /\ UNCHANGED auction
    BY <1>6 DEF RunOffer, CommandOK, NftOps, auctionVars
  <2>2. CASE UNCHANGED sell
    BY <1>1, <2>1, <2>2, PoolsStillThere
  <2>3. CASE AcceptOffer(u, n, k.buyer)
    <3>1. sell' = [sell EXCEPT ![n].active = 0]
      BY <2>3 DEF AcceptOffer
    <3>2. sell'[n].active = 0 /\ \A m \in NFTs \ {n} : sell'[m] = sell[m]
      BY <1>2, <2>1, <3>1 DEF SellData
    <3> QED BY <1>1, <2>1, <3>2, ListingKeepsPools DEF Listed
  <2> QED BY <1>6, <2>2, <2>3
          DEF RunOffer, RunAcceptOffer, InitOfferData, MakeOffer, CancelOffer, sellVars
<1>7. CASE RunAuction(tx, k)
  <2>1. n \in NFTs
    BY <1>7 DEF RunAuction, CommandOK, NftOps
  <2>2. CASE InitAuctionData(n)
    BY <1>1, <2>2, PoolsStillThere DEF InitAuctionData, sellVars
  <2>3. CASE /\ k.op = "create_auction"
             /\ CreateAuction(u, n, k.start_price, k.min_increase,
                              CurrencyOf(k.by_token), k.end_date)
    <3>1. u \in user_pools
      BY <2>3 DEF PoolBehind, TradingOps
    <3>2. /\ auction'[n].creator = u
          /\ auction'[n].last_bidder = Default
          /\ \A m \in NFTs \ {n} : auction'[m] = auction[m]
          /\ UNCHANGED sell
      BY <1>2, <2>1, <2>3 DEF CreateAuction, sellVars
    <3> QED BY <1>1, <2>1, <3>1, <3>2, AuctionKeepsPools
  <2>4. CASE k.op = "place_bid" /\ PlaceBid(u, n, k.price)
    <3>1. u \in user_pools
      BY <2>4 DEF PoolBehind, TradingOps
    <3>2. /\ Auctioned(n)
          /\ auction' = [auction EXCEPT ![n].last_bidder = u, ![n].highest_bid = k.price]
          /\ UNCHANGED sell
      BY <2>4 DEF PlaceBid, sellVars
    <3>3. /\ auction'[n].creator = auction[n].creator
          /\ auction'[n].last_bidder = u
          /\ \A m \in NFTs \ {n} : auction'[m] = auction[m]
      BY <1>2, <2>1, <3>2 DEF AuctionData
    <3>4. auction[n].creator \in user_pools \cup {Default}
      BY <2>1, <3>2 DEF TradersHavePools
    <3> QED BY <1>1, <2>1, <3>1, <3>2, <3>3, <3>4, AuctionKeepsPools
  <2>5. CASE RunClaimAuction(tx, k) \/ CancelAuction(u, n)
    <3>1. /\ \/ auction' = [auction EXCEPT ![n].status = 2]
             \/ auction' = [auction EXCEPT ![n].status = 0]
          /\ UNCHANGED sell
      BY <2>5 DEF RunClaimAuction, ClaimAuction, CancelAuction, sellVars
    <3>2. auction'[n].status # 1 /\ \A m \in NFTs \ {n} : auction'[m] = auction[m]
      BY <1>2, <2>1, <3>1 DEF AuctionData
    <3> QED BY <1>1, <2>1, <3>1, <3>2, AuctionKeepsPools DEF Auctioned
  <2> QED BY <1>7, <2>2, <2>3, <2>4, <2>5 DEF RunAuction, RunPlaceBid
<1> QED BY <1>3, <1>4, <1>5, <1>6, <1>7 DEF Run

\* Steps without a transaction touch neither listings nor auctions.
LEMMA QuietKeepsPools ==
    ASSUME TradersHavePools,
           UNCHANGED vars \/ Elapse
             \/ \E n \in NFTs, from, to \in Users : HandOver(n, from, to)
    PROVE  TradersHavePools'
<1>1. UNCHANGED <<sell, auction, user_pools>>
  BY DEF vars, Elapse, HandOver, AboveLedger, userVars, sellVars, auctionVars
<1> QED BY <1>1, PoolsStillThere

\* Whoever has an NFT for sale or holds the highest bid through these clients has a
\* pool, whatever they saw late and whatever got lost: no sale waits for a pool that
\* its settlement asks for.
THEOREM TradersAlwaysHavePools == ClientSpec => []TradersHavePools
<1>1. ClientInit => TradersHavePools
  BY DEF ClientInit, Init, ListingInit, AuctionsInit, NoListing, NoAuction,
         TradersHavePools, Listed, Auctioned
<1>2. ClientInv /\ TypeOK /\ TradersHavePools /\ [ClientNext]_allVars => TradersHavePools'
  <2> SUFFICES ASSUME ClientInv, TypeOK, TradersHavePools, [ClientNext]_allVars
               PROVE  TradersHavePools'
    OBVIOUS
  <2>1. ASSUME NEW tx \in sent, Lands(tx) PROVE TradersHavePools'
    <3>1. CommandOK(tx.by, tx.cmd) /\ PoolBehind(tx.by, tx.cmd)
      BY DEF ClientInv, Sendable
    <3>2. CASE Executes(tx)
      BY <3>1, <3>2, RunKeepsPools DEF Executes
    <3>3. CASE Fails(tx)
      BY <3>3, QuietKeepsPools DEF Fails
    <3> QED BY <2>1, <3>2, <3>3 DEF Lands, Arrives
  <2>2. ASSUME NEW u \in Users, NEW n \in NFTs, NftCommand(u, n) PROVE UNCHANGED vars
    BY <2>2, DirectCommandKeeps, AwaitingCommandKeeps DEF NftCommand
  <2>3. ASSUME NEW u \in Admins, AdminCommand(u) PROVE UNCHANGED vars
    BY <2>3, AdminCommandKeeps
  <2>4. ASSUME NEW u \in Users, UserCommand(u) PROVE UNCHANGED vars
    BY <2>4, UserCommandKeeps
  <2>5. ASSUME NEW u \in Payers, Continue(u) \/ TimesOut(u) \/ Dies(u)
        PROVE  UNCHANGED vars
    BY <2>5, ProcessKeeps
  <2>6. ASSUME NEW tx \in sent, Lost(tx) PROVE UNCHANGED vars
    BY <2>6 DEF Lost, Vanishes
  <2>7. CASE UNCHANGED allVars
    BY <2>7, QuietKeepsPools DEF allVars
  <2> QED BY <2>1, <2>2, <2>3, <2>4, <2>5, <2>6, <2>7, QuietKeepsPools DEF ClientNext
<1>3. ClientInv /\ [ClientNext]_allVars => ClientInv'
  BY ClientStep
<1> QED BY <1>1, <1>2, <1>3, ClientStart, ClientsImplementProgram, TypeCorrect, PTL
        DEF ClientSpec
=============================================================================
