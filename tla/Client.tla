------------------------------- MODULE Client --------------------------------
(***************************************************************************)
(* The program with its command-line clients: processes of all wallets,    *)
(* their transactions on the network, the program, and what users do with  *)
(* their NFTs outside of the marketplace.                                  *)
(***************************************************************************)
EXTENDS Cli

ClientInit ==
    /\ Init
    /\ accounts = InitialAccounts
    /\ sent = {}
    /\ faults = 0
    /\ proc = [u \in Payers |-> Idle]

AdminCommand(u) ==
    /\ proc[u] = Idle
    /\ \/ init_command(u)
       \/ update_fee_command(u)
       \/ add_treasury_command(u)
       \/ remove_treasury_command(u)

UserCommand(u) ==
    /\ proc[u] = Idle
    /\ \/ init_user_command(u)
       \/ deposit_command(u)
       \/ withdraw_command(u)

NftCommand(u, n) ==
    /\ proc[u] = Idle
    /\ \/ list_command(u, n)
       \/ delist_command(u, n)
       \/ purchase_command(u, n)
       \/ make_offer_command(u, n)
       \/ cancel_offer_command(u, n)
       \/ accept_offer_command(u, n)
       \/ create_auction_command(u, n)
       \/ place_bid_command(u, n)
       \/ claim_auction_command(u, n)
       \/ cancel_auction_command(u, n)

\* A process learns that its transaction is in a block.  It does not ask whether the
\* transaction failed there.
Confirmed(p, tx) ==
    CASE p.stage = "init" /\ p.tx = tx -> Building(p.cmd, NoTeam)
      [] p.stage = "main" /\ p.tx = tx -> Idle
      [] OTHER -> p

Lands(tx) ==
    /\ Arrives(tx)
    /\ proc' = [u \in Payers |-> Confirmed(proc[u], tx)]

Lost(tx) == Vanishes(tx) /\ UNCHANGED proc

\* confirmTransaction throws: at last when there is nothing to wait for any more,
\* and sometimes before.
TimesOut(u) ==
    /\ proc[u].stage \in {"init", "main"}
    /\ \/ proc[u].tx \notin sent /\ UNCHANGED faults
       \/ faults < MaxFaults /\ faults' = faults + 1
    /\ proc' = [proc EXCEPT ![u] = Idle]
    /\ UNCHANGED <<vars, accounts, sent>>

\* The process is stopped between its two transactions.
Dies(u) ==
    /\ proc[u].stage = "build"
    /\ faults < MaxFaults
    /\ faults' = faults + 1
    /\ proc' = [proc EXCEPT ![u] = Idle]
    /\ UNCHANGED <<vars, accounts, sent>>

Elapse == Tick /\ DropsExpired /\ UNCHANGED <<AboveLedger, accounts, faults, proc>>

\* A receiver without an associated token account may use another one.
HandOver(n, from, to) ==
    /\ "transfer" \in Commands[from]
    /\ TransferNft(n, from, to)
    /\ accounts' \in {accounts, accounts \cup {<<to, n>>}}
    /\ UNCHANGED <<AboveLedger, sent, faults, proc>>

ClientNext ==
    \/ \E u \in Admins : AdminCommand(u)
    \/ \E u \in Users : UserCommand(u)
    \/ \E u \in Users, n \in NFTs : NftCommand(u, n)
    \/ \E u \in Payers : Continue(u) \/ TimesOut(u) \/ Dies(u)
    \/ \E tx \in sent : Lands(tx) \/ Lost(tx)
    \/ Elapse
    \/ \E n \in NFTs, from, to \in Users : HandOver(n, from, to)

ClientSpec == ClientInit /\ [][ClientNext]_allVars

-----------------------------------------------------------------------------
\* What is on the network is a command of its signer about token accounts there can
\* be, and a process is idle, about to build, or waiting for a transaction of its own.
ClientTypeOK ==
    /\ accounts \subseteq TokenAccounts
    /\ faults \in 0..MaxFaults
    /\ \A tx \in sent : /\ tx.by \in Payers
                        /\ tx.blockhash \in 0..clock
                        /\ tx.creates \cup tx.uses \subseteq TokenAccounts
    /\ DOMAIN proc = Payers
    /\ \A u \in Payers :
          \/ proc[u] = Idle
          \/ proc[u].stage = "build"
          \/ proc[u].stage \in {"init", "main"} /\ proc[u].tx.by = u

\* Whoever trades through the command line has a user pool by then: the seller of a
\* listing, and the creator and the highest bidder of an auction.  The program does
\* not ask for pools before the sale is settled, and then it asks for both
\* (lib.rs:1876): without them the NFT and the bid would stay in custody.
TradersHavePools ==
    \A n \in NFTs :
        /\ Listed(n) => sell[n].seller \in user_pools
        /\ Auctioned(n) => {auction[n].creator, auction[n].last_bidder}
                              \subseteq user_pools \cup {Default}

\* A command's main transaction is on its way only when the data account it writes
\* exists, whatever is lost and whoever dies in between.
AccountBeforeMain ==
    \A tx \in sent :
        /\ tx.cmd.op = "list" => tx.cmd.nft \in sells
        /\ tx.cmd.op = "make_offer" => <<tx.cmd.nft, tx.by>> \in offers
        /\ tx.cmd.op = "create_auction" => tx.cmd.nft \in auctions

BringsIn(tx) == tx.cmd.op \in {"list", "create_auction"}

\* Built while the program held the NFT: it names the account that the vault then had
\* and that is closed before the NFT can come in again.
BuiltInCustody(tx) == BringsIn(tx) /\ <<Vault, tx.cmd.nft>> \notin tx.creates

\* The sale, the offer, the balance and the treasuries that the transaction is about
\* are there: a part of what Run asks for.
Due(tx) ==
    LET k == tx.cmd
    IN  /\ k.op \in {"delist", "purchase", "accept_offer"} => Listed(k.nft)
        /\ k.op \in {"claim_auction", "cancel_auction"} => Auctioned(k.nft)
        /\ k.op = "claim_auction" => HasBid(k.nft)
        /\ k.op = "accept_offer" => offer[k.nft][k.buyer].active = 1
        /\ k.op = "withdraw" => \E c \in Currency : escrow[tx.by][c] > 0
        /\ k.op \in {"purchase", "accept_offer", "claim_auction"}
              => tx.team.wallets = [i \in LiveSlots |-> team_treasury[i]]

\* No transaction that the program would run fails for want of a token account: the
\* builders create every account that could be missing, and what they take to exist
\* does, although accounts of the vault come and go.
NeverShortOfAccounts ==
    \A tx \in sent :
        ~ BuiltInCustody(tx) /\ Due(tx) => tx.uses \subseteq accounts \cup tx.creates

\* The vault has an account for an NFT exactly while it holds it: whatever was built
\* early and runs late, an NFT that is for sale can be delivered, and no account that
\* was left open makes the next owner's listing, which creates it, fail.
VaultAccountInCustody == \A n \in NFTs : <<Vault, n>> \in accounts <=> holder[n] = Vault

\* Every team treasury can be paid in tokens (lib.rs:666 fails every sale in tokens
\* as long as one treasury has no account).
TeamHasAccounts == \A w \in Team : <<w, ABB>> \in accounts

-----------------------------------------------------------------------------
(* Progress.                                                                *)

\* The settlement of an auction that no transaction can make happen: nobody to share
\* the fee, a fee whose computation overflows, or a full counter of volume.
Unclaimable(n) ==
    /\ HasBid(n)
    /\ \/ ~ CanSettle(auction[n].highest_bid, auction[n].by_token)
       \/ \E u \in {auction[n].creator, auction[n].last_bidder} :
             traded[u]["sol"] + auction[n].highest_bid > MAX_U64

\* The network gets a transaction that somebody waits for into a block, or it
\* expires; processes run; time passes; and those whom an auction owes something come
\* back for it as often as it takes.
Fairness ==
    /\ WF_allVars(Elapse)
    /\ \A u \in Users :
          /\ WF_allVars(Continue(u))
          /\ WF_allVars(TimesOut(u) /\ UNCHANGED faults)
          /\ WF_allVars(\E tx \in sent : /\ proc[u].stage \in {"init", "main"}
                                         /\ tx = proc[u].tx
                                         /\ Lands(tx))
    /\ \A u \in Users, n \in NFTs :
          /\ SF_allVars(proc[u] = Idle /\ auction[n].last_bidder = u
                           /\ auction[n].end_date <= clock
                           /\ claim_auction_command(u, n))
          /\ SF_allVars(proc[u] = Idle /\ auction[n].creator = u /\ ~ HasBid(n)
                           /\ auction[n].end_date <= clock
                           /\ cancel_auction_command(u, n))

FairClientSpec == ClientSpec /\ Fairness

\* Every auction is settled: although bids race with its end, transactions get lost
\* and processes die, the NFT leaves custody in the end, unless the settlement cannot
\* be computed.
AuctionsEnd == \A n \in NFTs : Auctioned(n) ~> ~ Auctioned(n) \/ Unclaimable(n)

\* An ended auction with bids is over when its winner claims it: the command list has
\* claim_auction for the "winner as Buyer when auction is ended" (README.md:117).
\* place_bid takes bids whose fee claim_auction cannot compute.
WinnersCollect == \A n \in NFTs : Auctioned(n) /\ HasBid(n) ~> ~ Auctioned(n)
=============================================================================
