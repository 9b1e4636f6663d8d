-------------------------------- MODULE Cli ---------------------------------
(***************************************************************************)
(* The command line: one process per wallet, each running one command at a *)
(* time.  A command checks what is typed, reads the chain, builds and      *)
(* sends a transaction, and waits for it to be confirmed; some send a      *)
(* transaction before that which creates an account.  A process that gives *)
(* up waiting, or dies, leaves on the way what it has sent.                *)
(*                                                                         *)
(* Amounts and prices are typed in SOL or tokens and multiplied by 10^9;   *)
(* here they are the products.  An option that is missing or no number     *)
(* ends the command before it does anything, and so is no step.            *)
(***************************************************************************)
EXTENDS Network

CONSTANTS
    Commands,   \* Commands[u]: the commands that the holder of wallet u gives
    Negative,   \* whether numbers are also typed with a minus sign
    ByTokens    \* what is typed for by_token

Payers == Users \cup Admins

ASSUME CliAssumption ==
    /\ DOMAIN Commands = Payers
    /\ Negative \in BOOLEAN
    /\ ByTokens \subseteq Int

VARIABLE proc   \* proc[u]: how far the process of wallet u is

clientVars == <<accounts, sent, faults, proc>>

allVars == <<vars, clientVars>>

Idle == [stage |-> "idle"]

\* About to build the transaction of cmd; team is the array of treasuries it has read.
Building(cmd, team) == [stage |-> "build", cmd |-> cmd, team |-> team]

\* Waiting for the account that cmd needs, and for the transaction of the command.
Creating(cmd, tx) == [stage |-> "init", cmd |-> cmd, tx |-> tx]

Confirming(tx) == [stage |-> "main", tx |-> tx]

Typed(S) == S \cup (IF Negative THEN {- x : x \in S} ELSE {})

\* The options of by_token that pass: no more than 1, and 1 means tokens.
TypedByToken == {t = 1 : t \in {x \in ByTokens : x <= 1}}

-----------------------------------------------------------------------------
\* sendTransaction and confirmTransaction.
Send(u, txs) ==
    /\ \E tx \in txs : /\ sent' = sent \cup {tx}
                       /\ proc' = [proc EXCEPT ![u] = Confirming(tx)]
    /\ UNCHANGED <<vars, accounts, faults>>

\* The first of two transactions.
SendFirst(u, txs, cmd) ==
    /\ \E tx \in txs : /\ sent' = sent \cup {tx}
                       /\ proc' = [proc EXCEPT ![u] = Creating(cmd, tx)]
    /\ UNCHANGED <<vars, accounts, faults>>

\* An await between what is read and what is built from it.
Await(u, cmd, team) ==
    /\ proc' = [proc EXCEPT ![u] = Building(cmd, team)]
    /\ UNCHANGED <<vars, accounts, sent, faults>>

-----------------------------------------------------------------------------
(* cli/scripts.ts: the commands that change state.                          *)

initProject(u) == Send(u, createInitializeTx(u))

updateFee(u, sol_fee, token_fee) == Send(u, createUpdateFeeTx(u, sol_fee, token_fee))

addTreasury(u, treasury, rate) == Send(u, createAddTreasuryTx(u, treasury, rate))

removeTreasury(u, treasury) == Send(u, createRemoveTreasuryTx(u, treasury))

initUserPool(u) == Send(u, createInitUserTx(u))

depositEscrow(u, amount) ==
    isInitializedUser(u) /\ Send(u, createDepositTx(u, amount))

withdrawEscrow(u, amount) ==
    isInitializedUser(u) /\ Send(u, createWithdrawTx(u, amount))

initSellData(u, n, cmd) == SendFirst(u, createInitSellDataTx(n, u), cmd)

\* WRONG on purpose (mutant of listNftForSale): goes on without the account.
listNftForSaleAtOnce(u, n, prices) ==
    /\ isInitializedUser(u)
    /\ Await(u, [op |-> "list", nft |-> n, prices |-> prices], NoTeam)

\* WRONG on purpose (mutant of listNftForSale): does not ask for the user's pool.
listNftForSaleUnguarded(u, n, prices) ==
    LET cmd == [op |-> "list", nft |-> n, prices |-> prices]
    IN  IF n \in sells THEN Await(u, cmd, NoTeam) ELSE initSellData(u, n, cmd)

listNftForSale(u, n, prices) ==
    LET cmd == [op |-> "list", nft |-> n, prices |-> prices]
    IN  /\ isInitializedUser(u)
        /\ IF n \in sells THEN Await(u, cmd, NoTeam) ELSE initSellData(u, n, cmd)

delistNft(u, n) == isInitializedUser(u) /\ Send(u, createDelistNftTx(n, u))

purchase(u, n, by_token) ==
    /\ isInitializedUser(u)
    /\ \E pool \in getGlobalState :
          Await(u, [op |-> "purchase", nft |-> n, by_token |-> by_token],
                TeamAddresses(pool))

initOfferData(u, n, cmd) == SendFirst(u, createInitOfferDataTx(n, u), cmd)

makeOffer(u, n, price, by_token) ==
    LET cmd == [op |-> "make_offer", nft |-> n, price |-> price, by_token |-> by_token]
    IN  /\ isInitializedUser(u)
        /\ IF <<n, u>> \in offers THEN Await(u, cmd, NoTeam) ELSE initOfferData(u, n, cmd)

cancelOffer(u, n) == isInitializedUser(u) /\ Send(u, createCancelOfferTx(n, u))

acceptOffer(u, n, buyer) ==
    /\ isInitializedUser(u)
    /\ \E pool \in getGlobalState :
          Await(u, [op |-> "accept_offer", nft |-> n, buyer |-> buyer],
                TeamAddresses(pool))

initAuctionData(u, n, cmd) == SendFirst(u, createInitAuctionDataTx(n, u), cmd)

\* WRONG on purpose (mutant of createAuction): does not ask for the user's pool.
createAuctionUnguarded(u, n, start_price, min_increase, end_date, by_token) ==
    LET cmd == [op |-> "create_auction", nft |-> n, start_price |-> start_price,
                min_increase |-> min_increase, end_date |-> end_date,
                by_token |-> by_token]
    IN  IF n \in auctions THEN Await(u, cmd, NoTeam) ELSE initAuctionData(u, n, cmd)

createAuction(u, n, start_price, min_increase, end_date, by_token) ==
    LET cmd == [op |-> "create_auction", nft |-> n, start_price |-> start_price,
                min_increase |-> min_increase, end_date |-> end_date,
                by_token |-> by_token]
    IN  /\ isInitializedUser(u)
        /\ IF n \in auctions THEN Await(u, cmd, NoTeam) ELSE initAuctionData(u, n, cmd)

placeBid(u, n, price) == isInitializedUser(u) /\ Send(u, createPlaceBidTx(n, u, price))

claimAuction(u, n) ==
    /\ isInitializedUser(u)
    /\ \E pool \in getGlobalState :
          Await(u, [op |-> "claim_auction", nft |-> n], TeamAddresses(pool))

cancelAuction(u, n) == isInitializedUser(u) /\ Send(u, createCancelAuctionTx(n, u))

\* What a command builds after its await.
Built(u, k, team) ==
    CASE k.op = "list" -> createListForSellNftTx(k.nft, u, k.prices)
      [] k.op = "purchase" -> createPurchaseTx(k.nft, u, k.by_token, team)
      [] k.op = "make_offer" -> createMakeOfferTx(k.nft, u, k.price, k.by_token)
      [] k.op = "accept_offer" -> createAcceptOfferTx(k.nft, k.buyer, team)
      [] k.op = "create_auction" ->
            createCreateAuctionTx(k.nft, u, k.start_price, k.min_increase, k.by_token,
                                  k.end_date)
      [] k.op = "claim_auction" -> createClaimAuctionTx(k.nft, u, team)

\* WRONG on purpose (mutant of Continue): does not ask who has to sign.
ContinueUnsigned(u) ==
    LET p == proc[u]
    IN  /\ p.stage = "build"
        /\ Send(u, Built(u, p.cmd, p.team))

\* The rest of the command.  If the builder throws, or the wallet cannot sign what
\* it builds, the command ends there.
Continue(u) ==
    LET p == proc[u]
        txs == {tx \in Built(u, p.cmd, p.team) : tx.by = u}
    IN  /\ p.stage = "build"
        /\ \/ Send(u, txs)
           \/ /\ txs = {}
              /\ proc' = [proc EXCEPT ![u] = Idle]
              /\ UNCHANGED <<vars, accounts, sent, faults>>

-----------------------------------------------------------------------------
(* cli/command.ts: what can be typed.                                       *)

init_command(u) == "init" \in Commands[u] /\ initProject(u)

update_fee_command(u) ==
    /\ "update_fee" \in Commands[u]
    /\ \E sol_fee, token_fee \in Typed(Fees) : updateFee(u, sol_fee, token_fee)

add_treasury_command(u) ==
    /\ "add_treasury" \in Commands[u]
    /\ \E address \in Treasuries, rate \in Typed(Rates) : addTreasury(u, address, rate)

remove_treasury_command(u) ==
    /\ "remove_treasury" \in Commands[u]
    /\ \E address \in Treasuries : removeTreasury(u, address)

init_user_command(u) == "init_user" \in Commands[u] /\ initUserPool(u)

deposit_command(u) ==
    /\ "deposit" \in Commands[u]
    /\ \E amount \in [Currency -> Typed(Amounts)] : depositEscrow(u, amount)

withdraw_command(u) ==
    /\ "withdraw" \in Commands[u]
    /\ \E amount \in [Currency -> Typed(Amounts)] : withdrawEscrow(u, amount)

list_command(u, n) ==
    /\ "list" \in Commands[u]
    /\ \E prices \in [Currency -> Typed(Prices)] : listNftForSale(u, n, prices)

delist_command(u, n) == "delist" \in Commands[u] /\ delistNft(u, n)

purchase_command(u, n) ==
    /\ "purchase" \in Commands[u]
    /\ \E by_token \in TypedByToken : purchase(u, n, by_token)

make_offer_command(u, n) ==
    /\ "make_offer" \in Commands[u]
    /\ \E price \in Typed(OfferPrices), by_token \in TypedByToken :
          makeOffer(u, n, price, by_token)

cancel_offer_command(u, n) == "cancel_offer" \in Commands[u] /\ cancelOffer(u, n)

accept_offer_command(u, n) ==
    /\ "accept_offer" \in Commands[u]
    /\ \E buyer \in Users : acceptOffer(u, n, buyer)

create_auction_command(u, n) ==
    /\ "create_auction" \in Commands[u]
    /\ \E start_price \in Typed(StartPrices), min_increase \in Typed(Increases),
          end_date \in Typed(0..MaxTime), by_token \in TypedByToken :
            createAuction(u, n, start_price, min_increase, end_date, by_token)

place_bid_command(u, n) ==
    /\ "place_bid" \in Commands[u]
    /\ \E price \in Typed(BidPrices) : placeBid(u, n, price)

claim_auction_command(u, n) == "claim_auction" \in Commands[u] /\ claimAuction(u, n)

cancel_auction_command(u, n) == "cancel_auction" \in Commands[u] /\ cancelAuction(u, n)
=============================================================================
