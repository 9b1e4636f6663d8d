------------------------- MODULE ClientAccountProofs ------------------------
(***************************************************************************)
(* What clients can rely on: the token accounts of the team, well-made     *)
(* transactions and processes, and all the program's promises to users,    *)
(* under every behaviour of clients and network.                           *)
(***************************************************************************)
EXTENDS ClientProofs, TeamShareProofs, RefinementProofs

-----------------------------------------------------------------------------
(* The promises.  Clients make steps of the program alone, so they cannot   *)
(* break what it keeps.                                                     *)

\* Whatever clients see late and the network loses: nobody loses without getting an NFT,
\* escrow serves its owner, every exchange is fair, the team is paid its part of every sale,
\* auctions are honoured, and the terms of an open sale stand.
THEOREM FairWithClients ==
    ClientSpec => /\ NoLossWithoutNft /\ EscrowServesOwner
                  /\ FairExchange /\ TeamIsPaid
                  /\ AuctionHonoured /\ TermsStand
BY ClientsImplementProgram, NobodyLosesWithoutNft, EscrowAlwaysServes, ExchangeIsFair,
   TeamIsAlwaysPaid, AuctionsAreHonoured, TermsAlwaysStand

\* Users who trade through clients trade on the abstract exchange.
THEOREM ClientsImplementExchange == ClientSpec => ImplementsExchange
BY ClientsImplementProgram, ProgramImplementsExchange

-----------------------------------------------------------------------------
(* The invariant of accounts and transactions.  The accounts that the vault *)
(* has for NFTs come and go with what it holds, and all others stay.  A     *)
(* treasury is added by a transaction that creates its ABB account or was   *)
(* built when it existed, and an NFT comes in by one that creates the       *)
(* account it goes to; that has to be known of every transaction on its     *)
(* way.                                                                     *)

\* The accounts that instructions close.
VaultAccounts == {<<Vault, n>> : n \in NFTs}

\* The accounts that nothing closes.
Standing == accounts \ VaultAccounts

\* No account of ABB tokens is closed.
LEMMA TokensStand ==
    \A w : <<w, ABB>> \notin VaultAccounts
BY BuildersAssumption DEF VaultAccounts

\* What a process has read of the team: wallets, in the order of the table.
TeamRead(team) ==
    /\ team = TeamAddresses(team.wallets)
    /\ \A i \in DOMAIN team.wallets : team.wallets[i] \in Treasuries

\* The data account that a main transaction writes exists.
DataThere(by, k) ==
    /\ k.op = "list" => k.nft \in sells
    /\ k.op = "make_offer" => <<k.nft, by>> \in offers
    /\ k.op = "create_auction" => k.nft \in auctions

\* tx creates the data account that command k of wallet by will need.
Prepares(tx, by, k) ==
    /\ k.op = "list" => tx.cmd.op = "init_sell_data" /\ tx.cmd.nft = k.nft
    /\ k.op = "make_offer" => /\ tx.cmd.op = "init_offer_data" /\ tx.cmd.nft = k.nft
                              /\ tx.by = by
    /\ k.op = "create_auction" => tx.cmd.op = "init_auction_data" /\ tx.cmd.nft = k.nft

SaleOps == {"purchase", "accept_offer", "claim_auction"}

\* A token account that a builder neither looks for nor creates: it was there when the
\* sale, the balance or the treasury came about.
TakenToExist(tx, a) ==
    \/ tx.cmd.op \in {"delist", "cancel_auction"} \cup SaleOps /\ a = <<Vault, tx.cmd.nft>>
    \/ tx.cmd.op \in {"withdraw", "accept_offer", "claim_auction"} /\ a = <<EscrowVault, ABB>>
    \/ tx.cmd.op \in SaleOps /\ a \in TeamUses(tx.team, TRUE)

\* A deposit of money or of an NFT names the account of the vault.
NamesVault(tx) ==
    /\ BringsIn(tx) => <<Vault, tx.cmd.nft>> \in tx.uses
    /\ tx.cmd.op \in {"deposit", "make_offer", "place_bid"} => <<EscrowVault, ABB>> \in tx.uses

\* Every account that tx uses is there to stay or created, but for those.
Covered(tx) == \A a \in tx.uses : a \in Standing \cup tx.creates \/ TakenToExist(tx, a)

\* Of the vault's accounts for NFTs tx creates none but that of the NFT it brings in.
CreatesOwn(tx) ==
    tx.creates \cap VaultAccounts \subseteq IF BringsIn(tx) THEN {<<Vault, tx.cmd.nft>>} ELSE {}

\* What a builder makes of the accounts it sees.
WellMade(tx) ==
    /\ tx.creates \cup tx.uses \subseteq TokenAccounts
    /\ tx.cmd.op = "add_treasury" => <<tx.cmd.address, ABB>> \in Standing \cup tx.creates
    /\ ~ BuiltInCustody(tx) => Covered(tx)
    /\ CreatesOwn(tx)
    /\ NamesVault(tx)
    /\ DataThere(tx.by, tx.cmd)

Waiting(u, p) ==
    \/ p = Idle
    \/ p.stage = "build" /\ TeamRead(p.team) /\ DataThere(u, p.cmd)
    \/ p.stage = "init" /\ p.tx.by = u /\ Prepares(p.tx, u, p.cmd)
    \/ p.stage = "main" /\ p.tx.by = u

\* The money that the vault keeps for users came in by instructions that ask for its
\* account of ABB tokens.
EscrowOpen ==
    /\ \A u \in Users, c \in Currency : escrow[u][c] > 0 => <<EscrowVault, ABB>> \in Standing
    /\ \A n \in NFTs, u \in Users : offer[n][u].active = 1 => <<EscrowVault, ABB>> \in Standing
    /\ \A n \in NFTs : Auctioned(n) /\ HasBid(n) => <<EscrowVault, ABB>> \in Standing

AccountsInv ==
    /\ accounts \subseteq TokenAccounts
    /\ faults \in 0..MaxFaults
    /\ \A tx \in sent : tx.blockhash \in 0..clock /\ WellMade(tx)
    /\ \A u \in Payers : Waiting(u, proc[u])
    /\ TeamHasAccounts
    /\ VaultAccountInCustody
    /\ EscrowOpen

-----------------------------------------------------------------------------
(* What builders make.                                                      *)

Made(txs) == \A tx \in txs : tx.blockhash = clock /\ WellMade(tx)

Owners == Wallets \cup {Vault, EscrowVault, Default}

LEMMA AccountOf ==
    ASSUME NEW w \in Owners, NEW m \in Mints
    PROVE  /\ <<w, m>> \in TokenAccounts
           /\ getAssociatedTokenAccount(w, m) \in TokenAccounts
           /\ getATokenAccountsNeedCreate(w, m) \subseteq TokenAccounts
BY DEF TokenAccounts, Owners, getAssociatedTokenAccount, getATokenAccountsNeedCreate

\* A builder may name the account: it can be, and it is there to stay or created.
Named(w, m, creates) ==
    /\ <<w, m>> \in TokenAccounts
    /\ getATokenAccountsNeedCreate(w, m) \subseteq TokenAccounts \ VaultAccounts
    /\ getATokenAccountsNeedCreate(w, m) \subseteq creates => <<w, m>> \in Standing \cup creates

LEMMA AccountNamed ==
    ASSUME NEW w \in Owners, NEW m \in Mints, w # Vault \/ m = ABB, NEW creates
    PROVE  Named(w, m, creates)
<1>1. <<w, m>> \notin VaultAccounts
  BY TokensStand DEF VaultAccounts
<1> QED BY <1>1, AccountOf
        DEF Named, Standing, getATokenAccountsNeedCreate, getAssociatedTokenAccount

LEMMA TeamAccounts ==
    ASSUME NEW team, TeamRead(team), NEW by_token
    PROVE  /\ TeamUses(team, by_token) \subseteq TokenAccounts
           /\ TeamUses(team, by_token) \subseteq TeamUses(TreasuryAccounts(team, by_token), TRUE)
<1>1. TeamUses(team, by_token) \subseteq TokenAccounts
  BY DEF TeamUses, TeamRead, TokenAccounts, Mints, Wallets
<1>2. TreasuryAccounts(team, by_token).wallets = team.wallets
  <2>1. [team EXCEPT !.level = @ + 1].wallets = team.wallets
    BY DEF TeamRead, TeamAddresses
  <2> QED BY <2>1, Zenon DEF TreasuryAccounts
<1>3. ASSUME NEW t, t.wallets = team.wallets
      PROVE  TeamUses(t, TRUE) = {<<team.wallets[i], ABB>> : i \in DOMAIN team.wallets}
  BY <1>3 DEF TeamUses
<1>4. TeamUses(TreasuryAccounts(team, by_token), TRUE)
        = {<<team.wallets[i], ABB>> : i \in DOMAIN team.wallets}
  BY <1>2, <1>3
<1>5. \/ TeamUses(team, by_token) = {<<team.wallets[i], ABB>> : i \in DOMAIN team.wallets}
      \/ TeamUses(team, by_token) = {}
  BY Zenon DEF TeamUses
<1> QED BY <1>1, <1>4, <1>5

\* Whom a listing, an offer or an auction names may have an account.
LEMMA OwnersNamed ==
    ASSUME TypeOK
    PROVE  /\ Users \subseteq Owners /\ Vault \in Owners /\ EscrowVault \in Owners
           /\ NFTs \subseteq Mints /\ ABB \in Mints
           /\ \A n \in NFTs : \A info \in getNFTPoolState(n) : info.seller \in Owners
           /\ \A n \in NFTs : \A info \in getAuctionDataState(n) :
                 info.creator \in Owners /\ info.last_bidder \in Owners
<1>1. \A n \in NFTs : sell[n].seller \in Users \cup {Default}
  BY DEF TypeOK, ListingTypeOK, SellData
<1>2. \A n \in NFTs : /\ auction[n].creator \in Users \cup {Default}
                      /\ auction[n].last_bidder \in Users \cup {Default}
  BY DEF TypeOK, AuctionsTypeOK, AuctionData
<1> QED BY <1>1, <1>2 DEF Owners, Wallets, Mints, getNFTPoolState, getAuctionDataState, Optional

\* What brings an NFT in.  If it creates the vault's account then the program did not hold
\* the NFT, so that the owner's account is there or another one is meant.
LEMMA BringingIsMade ==
    ASSUME TypeOK, VaultAccountInCustody, NEW u \in Users, NEW n \in NFTs,
           MayBring(u, n), NEW tx, tx.cmd.op \in {"list", "create_auction"}, tx.cmd.nft = n,
           tx.creates = getATokenAccountsNeedCreate(Vault, n),
           tx.uses = Source(u, n) \cup {<<Vault, n>>}
    PROVE  /\ tx.creates \cup tx.uses \subseteq TokenAccounts
           /\ ~ BuiltInCustody(tx) => Covered(tx)
           /\ CreatesOwn(tx)
           /\ NamesVault(tx)
<1>1. /\ u \in Owners /\ Vault \in Owners /\ n \in Mints
      /\ u # Vault
  BY OwnersNamed, LedgerAssumption
<1>3. tx.creates = {<<Vault, n>>} \ accounts
  BY DEF getATokenAccountsNeedCreate, getAssociatedTokenAccount
<1>2. tx.creates \cup tx.uses \subseteq TokenAccounts
  <2>1. <<u, n>> \in TokenAccounts /\ <<Vault, n>> \in TokenAccounts
    BY <1>1, AccountOf
  <2>2. Source(u, n) \subseteq {<<u, n>>}
    BY DEF Source
  <2> QED BY <1>3, <2>1, <2>2
<1>4. ASSUME ~ BuiltInCustody(tx) PROVE Covered(tx)
  <2>1. <<Vault, n>> \in tx.creates /\ holder[n] # Vault
    BY <1>3, <1>4 DEF BuiltInCustody, BringsIn, VaultAccountInCustody
  <2>2. Source(u, n) \subseteq accounts
    BY <2>1 DEF MayBring, Source, isExistAccount, getAssociatedTokenAccount, getOwnerOfNFT
  <2>3. Source(u, n) \subseteq Standing
    BY <1>1, <2>2 DEF Source, Standing, VaultAccounts
  <2> QED BY <2>1, <2>3 DEF Covered
<1>5. CreatesOwn(tx)
  BY <1>3 DEF CreatesOwn, BringsIn
<1>6. NamesVault(tx)
  BY DEF NamesVault, BringsIn
<1> QED BY <1>2, <1>4, <1>5, <1>6

\* The transactions of commands that wait for something first.
LEMMA BuiltIsMade ==
    ASSUME TypeOK, VaultAccountInCustody,
           NEW u \in Users, NEW k, TypedOK(u, k), DataThere(u, k),
           NEW team, TeamRead(team), NEW tx \in Built(u, k, team), tx.by = u
    PROVE  tx.blockhash = clock /\ WellMade(tx)
<1> DEFINE n == k.nft
<1>0. /\ u \in Owners /\ Vault \in Owners /\ EscrowVault \in Owners
      /\ n \in Mints /\ n \in NFTs /\ ABB \in Mints
      /\ Vault \notin Users
      /\ <<Vault, n>> \in TokenAccounts
  BY OwnersNamed, AccountOf, LedgerAssumption DEF TypedOK
<1>1. tx.cmd.op = k.op /\ k.op \in AwaitingOps
  BY BuiltIsCommand DEF TypedOK
<1>2. SUFFICES /\ tx.blockhash = clock
               /\ tx.cmd.nft = n
               /\ tx.creates \cup tx.uses \subseteq TokenAccounts
               /\ ~ BuiltInCustody(tx) => Covered(tx)
               /\ CreatesOwn(tx)
               /\ NamesVault(tx)
  BY <1>1 DEF WellMade, DataThere, AwaitingOps
<1>3. CASE k.op = "list"
  <2>1. /\ tx.blockhash = clock /\ tx.cmd.nft = n /\ MayBring(u, n)
        /\ tx.creates = getATokenAccountsNeedCreate(Vault, n)
        /\ tx.uses = Source(u, n) \cup {<<Vault, n>>}
    BY <1>3 DEF Built, createListForSellNftTx, Optional, Tx
  <2> QED BY <1>0, <1>1, <1>3, <2>1, BringingIsMade
<1>4. CASE k.op = "purchase"
  <2>1. PICK info \in getNFTPoolState(n) :
            /\ tx.blockhash = clock /\ tx.cmd.nft = n
            /\ tx.team = TreasuryAccounts(team, k.by_token)
            /\ tx.creates = getATokenAccountsNeedCreate(u, ABB)
                              \cup getATokenAccountsNeedCreate(u, n)
                              \cup getATokenAccountsNeedCreate(info.seller, ABB)
            /\ tx.uses = {<<u, n>>, <<Vault, n>>, <<u, ABB>>, <<info.seller, ABB>>}
                           \cup TeamUses(team, k.by_token)
    BY <1>4 DEF Built, createPurchaseTx, Tx
  <2>2. info.seller \in Owners
    BY <1>0, OwnersNamed
  <2>3. TeamUses(team, k.by_token) \subseteq TeamUses(tx.team, TRUE)
    BY <2>1, TeamAccounts
  <2>4. /\ Named(u, ABB, tx.creates)
        /\ Named(u, n, tx.creates)
        /\ Named(info.seller, ABB, tx.creates)
    BY <1>0, <2>2, AccountNamed
  <2>5. /\ TeamUses(team, k.by_token) \subseteq TokenAccounts
        /\ \A a \in TeamUses(team, k.by_token) : TakenToExist(tx, a)
    BY <1>1, <1>4, <2>3, TeamAccounts DEF TakenToExist, SaleOps
  <2>6. TakenToExist(tx, <<Vault, n>>)
    BY <1>1, <1>4, <2>1 DEF TakenToExist, SaleOps
  <2>7. Covered(tx)
    BY <2>1, <2>4, <2>5, <2>6 DEF Covered, Named
  <2>8. NamesVault(tx)
    BY <1>1, <1>4 DEF NamesVault, BringsIn
  <2>9. CreatesOwn(tx)
    BY <2>1, <2>4 DEF CreatesOwn, Named
  <2> QED BY <1>0, <2>1, <2>4, <2>5, <2>7, <2>8, <2>9 DEF Named
<1>5. CASE k.op = "make_offer"
  <2>1. /\ tx.blockhash = clock /\ tx.cmd.nft = n
        /\ tx.creates = getATokenAccountsNeedCreate(u, ABB)
                          \cup getATokenAccountsNeedCreate(EscrowVault, ABB)
        /\ tx.uses = {<<u, ABB>>, <<EscrowVault, ABB>>}
    BY <1>5 DEF Built, createMakeOfferTx, Optional, Tx
  <2>2. Named(u, ABB, tx.creates) /\ Named(EscrowVault, ABB, tx.creates)
    BY <1>0, AccountNamed
  <2> QED BY <1>1, <1>5, <2>1, <2>2 DEF Named, Covered, CreatesOwn, NamesVault, BringsIn
<1>6. CASE k.op = "accept_offer"
  <2>1. PICK info \in getNFTPoolState(n), o \in getOfferDataState(n, k.buyer) :
            /\ tx.blockhash = clock /\ tx.cmd.nft = n
            /\ tx.team = TreasuryAccounts(team, o.by_token = "token")
            /\ tx.creates = getATokenAccountsNeedCreate(k.buyer, n)
                              \cup getATokenAccountsNeedCreate(info.seller, ABB)
            /\ tx.uses = {<<k.buyer, n>>, <<Vault, n>>, <<info.seller, ABB>>,
                          <<EscrowVault, ABB>>}
                           \cup TeamUses(team, o.by_token = "token")
    BY <1>6 DEF Built, createAcceptOfferTx, Tx
  <2>2. info.seller \in Owners /\ k.buyer \in Owners
    BY <1>0, <1>6, OwnersNamed DEF TypedOK
  <2>3. TeamUses(team, o.by_token = "token") \subseteq TeamUses(tx.team, TRUE)
    BY <2>1, TeamAccounts
  <2>4. /\ Named(k.buyer, n, tx.creates)
        /\ Named(info.seller, ABB, tx.creates)
        /\ Named(EscrowVault, ABB, tx.creates)
    BY <1>0, <1>6, <2>2, AccountNamed DEF TypedOK
  <2>5. /\ TeamUses(team, o.by_token = "token") \subseteq TokenAccounts
        /\ \A a \in TeamUses(team, o.by_token = "token") : TakenToExist(tx, a)
    BY <1>1, <1>6, <2>3, TeamAccounts DEF TakenToExist, SaleOps
  <2>6. TakenToExist(tx, <<Vault, n>>) /\ TakenToExist(tx, <<EscrowVault, ABB>>)
    BY <1>1, <1>6, <2>1 DEF TakenToExist, SaleOps
  <2>7. Covered(tx)
    BY <2>1, <2>4, <2>5, <2>6 DEF Covered, Named
  <2>8. NamesVault(tx)
    BY <1>1, <1>6 DEF NamesVault, BringsIn
  <2>9. CreatesOwn(tx)
    BY <2>1, <2>4 DEF CreatesOwn, Named
  <2> QED BY <1>0, <2>1, <2>4, <2>5, <2>7, <2>8, <2>9 DEF Named
<1>7. CASE k.op = "create_auction"
  <2>1. /\ tx.blockhash = clock /\ tx.cmd.nft = n /\ MayBring(u, n)
        /\ tx.creates = getATokenAccountsNeedCreate(Vault, n)
        /\ tx.uses = Source(u, n) \cup {<<Vault, n>>}
    BY <1>7 DEF Built, createCreateAuctionTx, Optional, Tx
  <2> QED BY <1>0, <1>1, <1>7, <2>1, BringingIsMade
<1>8. CASE k.op = "claim_auction"
  <2>1. PICK info \in getAuctionDataState(n) :
            /\ tx.blockhash = clock /\ tx.cmd.nft = n
            /\ tx.team = TreasuryAccounts(team, info.by_token = "token")
            /\ tx.creates = getATokenAccountsNeedCreate(u, n)
                              \cup getATokenAccountsNeedCreate(info.creator, ABB)
            /\ tx.uses = {<<u, n>>, <<Vault, n>>, <<EscrowVault, ABB>>, <<info.creator, ABB>>}
                           \cup TeamUses(team, info.by_token = "token")
    BY <1>8 DEF Built, createClaimAuctionTx, Tx
  <2>2. info.creator \in Owners
    BY <1>0, OwnersNamed
  <2>3. TeamUses(team, info.by_token = "token") \subseteq TeamUses(tx.team, TRUE)
    BY <2>1, TeamAccounts
  <2>4. /\ Named(u, n, tx.creates)
        /\ Named(info.creator, ABB, tx.creates)
        /\ Named(EscrowVault, ABB, tx.creates)
    BY <1>0, <2>2, AccountNamed
  <2>5. /\ TeamUses(team, info.by_token = "token") \subseteq TokenAccounts
        /\ \A a \in TeamUses(team, info.by_token = "token") : TakenToExist(tx, a)
    BY <1>1, <1>8, <2>3, TeamAccounts DEF TakenToExist, SaleOps
  <2>6. TakenToExist(tx, <<Vault, n>>) /\ TakenToExist(tx, <<EscrowVault, ABB>>)
    BY <1>1, <1>8, <2>1 DEF TakenToExist, SaleOps
  <2>7. Covered(tx)
    BY <2>1, <2>4, <2>5, <2>6 DEF Covered, Named
  <2>8. NamesVault(tx)
    BY <1>1, <1>8 DEF NamesVault, BringsIn
  <2>9. CreatesOwn(tx)
    BY <2>1, <2>4 DEF CreatesOwn, Named
  <2> QED BY <1>0, <2>1, <2>4, <2>5, <2>7, <2>8, <2>9 DEF Named
<1> QED BY <1>1, <1>3, <1>4, <1>5, <1>6, <1>7, <1>8 DEF AwaitingOps

-----------------------------------------------------------------------------
(* Processes.                                                               *)

\* Data accounts are never closed.
DataStays == sells \subseteq sells' /\ offers \subseteq offers' /\ auctions \subseteq auctions'

LEMMA WellMadeStays ==
    ASSUME NEW tx, WellMade(tx), Standing \subseteq Standing', DataStays
    PROVE  WellMade(tx)'
<1>1. ~ BuiltInCustody(tx) => Covered(tx)'
  BY DEF WellMade, Covered
<1>2. DataThere(tx.by, tx.cmd)'
  BY DEF WellMade, DataThere, DataStays
<1> QED BY <1>1, <1>2 DEF WellMade

LEMMA WaitingStays ==
    ASSUME NEW u, NEW p, Waiting(u, p), DataStays
    PROVE  Waiting(u, p)'
<1>1. DataThere(u, p.cmd) => DataThere(u, p.cmd)'
  BY DEF DataThere, DataStays
<1> QED BY <1>1 DEF Waiting

LEMMA EscrowStaysOpen ==
    ASSUME EscrowOpen, Standing \subseteq Standing', UNCHANGED <<escrow, offer, auction>>
    PROVE  EscrowOpen'
BY DEF EscrowOpen, Auctioned, HasBid

\* A step of one process that leaves the chain alone.
LEMMA ProcessStep ==
    ASSUME TypeOK, ClientInv, AccountsInv, UNCHANGED <<vars, accounts>>, faults' \in 0..MaxFaults,
           NEW u \in Payers, NEW p, Waiting(u, p), proc' = [proc EXCEPT ![u] = p],
           NEW txs, Made(txs), sent' \subseteq sent \cup txs
    PROVE  AccountsInv'
<1>1. /\ clock' = clock /\ holder' = holder /\ Team' = Team /\ DataStays
      /\ UNCHANGED <<escrow, offer, auction>>
      /\ Standing' = Standing
  BY DEF vars, ledgerVars, globalVars, Team, LiveSlots, DataStays, userVars, sellVars,
         offerVars, auctionVars, Standing
<1>2. ASSUME NEW tx, WellMade(tx) PROVE WellMade(tx)'
  BY <1>1, <1>2, WellMadeStays
<1>3. clock \in 0..clock
  BY DEF TypeOK, LedgerTypeOK
<1>4. \A tx \in sent' : tx.blockhash \in 0..clock' /\ WellMade(tx)'
  BY <1>1, <1>2, <1>3 DEF AccountsInv, Made
<1>5. \A v \in Payers : Waiting(v, proc'[v])
  BY DEF ClientInv, AccountsInv
<1>6. \A v \in Payers : Waiting(v, proc[v])'
  BY <1>1, <1>5, WaitingStays
<1>7. EscrowOpen'
  BY <1>1, EscrowStaysOpen DEF AccountsInv
<1> QED BY <1>1, <1>4, <1>6, <1>7 DEF AccountsInv, TeamHasAccounts, VaultAccountInCustody

LEMMA SendMade ==
    ASSUME TypeOK, ClientInv, AccountsInv, NEW u \in Payers, NEW txs, Made(txs),
           \A tx \in txs : tx.by = u, Send(u, txs)
    PROVE  AccountsInv'
<1>1. PICK tx \in txs : /\ sent' = sent \cup {tx}
                        /\ proc' = [proc EXCEPT ![u] = Confirming(tx)]
  BY DEF Send
<1>2. /\ UNCHANGED <<vars, accounts>> /\ faults' \in 0..MaxFaults
      /\ sent' \subseteq sent \cup txs
  BY <1>1 DEF Send, AccountsInv
<1>3. Waiting(u, Confirming(tx))
  BY DEF Waiting, Confirming
<1> QED BY <1>1, <1>2, <1>3, ProcessStep

LEMMA SendFirstMade ==
    ASSUME TypeOK, ClientInv, AccountsInv, NEW u \in Payers, NEW txs, Made(txs), NEW cmd,
           \A tx \in txs : tx.by = u /\ Prepares(tx, u, cmd), SendFirst(u, txs, cmd)
    PROVE  AccountsInv'
<1>1. PICK tx \in txs : /\ sent' = sent \cup {tx}
                        /\ proc' = [proc EXCEPT ![u] = Creating(cmd, tx)]
  BY DEF SendFirst
<1>2. /\ UNCHANGED <<vars, accounts>> /\ faults' \in 0..MaxFaults
      /\ sent' \subseteq sent \cup txs
  BY <1>1 DEF SendFirst, AccountsInv
<1>3. Waiting(u, Creating(cmd, tx))
  BY DEF Waiting, Creating
<1> QED BY <1>1, <1>2, <1>3, ProcessStep

LEMMA AwaitMade ==
    ASSUME TypeOK, ClientInv, AccountsInv, NEW u \in Payers, NEW cmd, DataThere(u, cmd),
           NEW team, TeamRead(team), Await(u, cmd, team)
    PROVE  AccountsInv'
<1>1. Made({}) /\ Waiting(u, Building(cmd, team))
  BY DEF Made, Waiting, Building
<1>2. /\ UNCHANGED <<vars, accounts>> /\ faults' \in 0..MaxFaults
      /\ sent' \subseteq sent \cup {}
      /\ proc' = [proc EXCEPT ![u] = Building(cmd, team)]
  BY DEF Await, AccountsInv
<1> QED BY <1>1, <1>2, ProcessStep

\* A process that ends, by itself, for want of patience or by force.
LEMMA EndMade ==
    ASSUME TypeOK, ClientInv, AccountsInv, NEW u \in Payers,
           proc' = [proc EXCEPT ![u] = Idle], sent' = sent, UNCHANGED <<vars, accounts>>,
           faults' = faults \/ (faults < MaxFaults /\ faults' = faults + 1)
    PROVE  AccountsInv'
<1>1. Made({}) /\ Waiting(u, Idle) /\ sent' \subseteq sent \cup {}
  BY DEF Made, Waiting
<1>2. faults' \in 0..MaxFaults
  BY NetworkAssumption DEF AccountsInv
<1> QED BY <1>1, <1>2, ProcessStep

\* What is read of the team names treasuries.
LEMMA ReadTeam ==
    ASSUME TeamNamed, NEW pool \in getGlobalState
    PROVE  TeamRead(TeamAddresses(pool))
BY DEF TeamNamed, Team, getGlobalState, Optional, TeamRead, TeamAddresses

LEMMA NoTeamRead == TeamRead(NoTeam)
BY DEF TeamRead, NoTeam, TeamAddresses

\* Instructions that need no token account and no data account that another
\* transaction creates.
LEMMA PlainMade ==
    ASSUME NEW u, NEW cmd,
           cmd.op \notin {"add_treasury", "list", "create_auction", "deposit", "make_offer",
                         "place_bid"}
    PROVE  Made(Plain(u, cmd)) /\ \A tx \in Plain(u, cmd) : tx.by = u /\ tx.cmd = cmd
BY DEF Plain, Tx, Made, WellMade, Covered, CreatesOwn, NamesVault, BringsIn, DataThere

-----------------------------------------------------------------------------
(* Commands.                                                                *)

\* A treasury's account is created with it, or is there.
LEMMA AdminCommandMade ==
    ASSUME TypeOK, ClientInv, AccountsInv, NEW u \in Admins, AdminCommand(u)
    PROVE  AccountsInv'
<1>0. u \in Payers
  BY DEF Payers
<1>1. CASE init_command(u)
  <2>1. Made(createInitializeTx(u)) /\ \A tx \in createInitializeTx(u) : tx.by = u
    BY PlainMade DEF createInitializeTx
  <2>2. Send(u, createInitializeTx(u))
    BY <1>1 DEF init_command, initProject
  <2> QED BY <1>0, <2>1, <2>2, SendMade
<1>2. ASSUME NEW sol_fee, NEW token_fee, updateFee(u, sol_fee, token_fee)
      PROVE  AccountsInv'
  <2> DEFINE txs == createUpdateFeeTx(u, sol_fee, token_fee)
  <2>1. Made(txs) /\ \A tx \in txs : tx.by = u
    BY PlainMade DEF createUpdateFeeTx
  <2>2. Send(u, txs)
    BY <1>2 DEF updateFee
  <2> HIDE DEF txs
  <2> QED BY <1>0, <2>1, <2>2, SendMade
<1>3. ASSUME NEW address \in Treasuries, NEW rate, addTreasury(u, address, rate)
      PROVE  AccountsInv'
  <2> DEFINE txs == createAddTreasuryTx(u, address, rate)
  <2>1. ASSUME NEW tx \in txs PROVE tx.by = u /\ tx.blockhash = clock /\ WellMade(tx)
    <3>1. /\ tx.by = u /\ tx.blockhash = clock
          /\ tx.cmd.op = "add_treasury" /\ tx.cmd.address = address
          /\ tx.creates = getATokenAccountsNeedCreate(address, ABB) /\ tx.uses = {}
      BY DEF createAddTreasuryTx, Tx
    <3>2. address \in Owners /\ ABB \in Mints
      BY DEF Owners, Wallets, Mints
    <3>3. Named(address, ABB, tx.creates)
      BY <3>2, AccountNamed
    <3> HIDE DEF txs
    <3> QED BY <3>1, <3>3 DEF WellMade, Covered, CreatesOwn, NamesVault, BringsIn, DataThere,
                                    Named
  <2>2. Send(u, txs)
    BY <1>3 DEF addTreasury
  <2> HIDE DEF txs
  <2>3. Made(txs) /\ \A tx \in txs : tx.by = u
    BY <2>1 DEF Made
  <2> QED BY <1>0, <2>2, <2>3, SendMade
<1>4. ASSUME NEW address, removeTreasury(u, address)
      PROVE  AccountsInv'
  <2> DEFINE txs == createRemoveTreasuryTx(u, address)
  <2>1. Made(txs) /\ \A tx \in txs : tx.by = u
    BY PlainMade DEF createRemoveTreasuryTx
  <2>2. Send(u, txs)
    BY <1>4 DEF removeTreasury
  <2> HIDE DEF txs
  <2> QED BY <1>0, <2>1, <2>2, SendMade
<1> QED BY <1>1, <1>2, <1>3, <1>4
        DEF AdminCommand, update_fee_command, add_treasury_command, remove_treasury_command

LEMMA UserCommandMade ==
    ASSUME TypeOK, ClientInv, AccountsInv, NEW u \in Users, UserCommand(u)
    PROVE  AccountsInv'
<1>0. u \in Payers /\ u \in Owners /\ EscrowVault \in Owners /\ ABB \in Mints
  BY OwnersNamed DEF Payers
<1>1. CASE init_user_command(u)
  <2>1. Made(createInitUserTx(u)) /\ \A tx \in createInitUserTx(u) : tx.by = u
    BY PlainMade DEF createInitUserTx
  <2>2. Send(u, createInitUserTx(u))
    BY <1>1 DEF init_user_command, initUserPool
  <2> QED BY <1>0, <2>1, <2>2, SendMade
<1>2. ASSUME NEW amount, depositEscrow(u, amount) PROVE AccountsInv'
  <2> DEFINE txs == createDepositTx(u, amount)
  <2>1. ASSUME NEW tx \in txs PROVE tx.by = u /\ tx.blockhash = clock /\ WellMade(tx)
    <3>1. /\ tx.by = u /\ tx.blockhash = clock /\ tx.cmd.op = "deposit"
          /\ tx.creates = getATokenAccountsNeedCreate(u, ABB)
                            \cup getATokenAccountsNeedCreate(EscrowVault, ABB)
          /\ tx.uses = {<<u, ABB>>, <<EscrowVault, ABB>>}
      BY DEF createDepositTx, Optional, Tx
    <3> HIDE DEF txs
    <3>2. Named(u, ABB, tx.creates) /\ Named(EscrowVault, ABB, tx.creates)
      BY <1>0, AccountNamed
    <3> QED BY <3>1, <3>2 DEF WellMade, Covered, CreatesOwn, NamesVault, BringsIn, DataThere,
                                    Named
  <2>2. Send(u, txs)
    BY <1>2 DEF depositEscrow
  <2> HIDE DEF txs
  <2>3. Made(txs) /\ \A tx \in txs : tx.by = u
    BY <2>1 DEF Made
  <2> QED BY <1>0, <2>2, <2>3, SendMade
<1>3. ASSUME NEW amount, withdrawEscrow(u, amount) PROVE AccountsInv'
  <2> DEFINE txs == createWithdrawTx(u, amount)
  <2>1. ASSUME NEW tx \in txs PROVE tx.by = u /\ tx.blockhash = clock /\ WellMade(tx)
    <3>1. /\ tx.by = u /\ tx.blockhash = clock /\ tx.cmd.op = "withdraw"
          /\ tx.creates = getATokenAccountsNeedCreate(u, ABB)
          /\ tx.uses = {<<u, ABB>>, <<EscrowVault, ABB>>}
      BY DEF createWithdrawTx, Tx, getAssociatedTokenAccount
    <3> HIDE DEF txs
    <3>2. Named(u, ABB, tx.creates) /\ Named(EscrowVault, ABB, tx.creates)
      BY <1>0, AccountNamed
    <3>3. Covered(tx)
      BY <3>1, <3>2 DEF Covered, TakenToExist, Named
    <3> QED BY <1>0, <3>1, <3>2, <3>3 DEF WellMade, CreatesOwn, NamesVault, BringsIn, DataThere,
                                         Named
  <2>2. Send(u, txs)
    BY <1>3 DEF withdrawEscrow
  <2> HIDE DEF txs
  <2>3. Made(txs) /\ \A tx \in txs : tx.by = u
    BY <2>1 DEF Made
  <2> QED BY <1>0, <2>2, <2>3, SendMade
<1> QED BY <1>1, <1>2, <1>3 DEF UserCommand, deposit_command, withdraw_command

LEMMA DirectCommandMade ==
    ASSUME TypeOK, ClientInv, AccountsInv, NEW u \in Users, NEW n \in NFTs,
           \/ delist_command(u, n)
           \/ cancel_offer_command(u, n)
           \/ place_bid_command(u, n)
           \/ cancel_auction_command(u, n)
    PROVE  AccountsInv'
<1>0. /\ u \in Payers /\ u \in Owners /\ u # Vault /\ EscrowVault \in Owners
      /\ ABB \in Mints /\ n \in Mints
      /\ <<Vault, n>> \in TokenAccounts
  BY OwnersNamed, AccountOf, LedgerAssumption DEF Payers
<1>1. CASE delist_command(u, n)
  <2> DEFINE txs == createDelistNftTx(n, u)
  <2>1. ASSUME NEW tx \in txs PROVE tx.by = u /\ tx.blockhash = clock /\ WellMade(tx)
    <3>1. /\ tx.by = u /\ tx.blockhash = clock /\ tx.cmd.op = "delist" /\ tx.cmd.nft = n
          /\ tx.creates = getATokenAccountsNeedCreate(u, n)
          /\ tx.uses = {<<u, n>>, <<Vault, n>>}
      BY DEF createDelistNftTx, Tx
    <3> HIDE DEF txs
    <3>2. Named(u, n, tx.creates)
      BY <1>0, AccountNamed
    <3>3. Covered(tx)
      BY <3>1, <3>2 DEF Covered, TakenToExist, Named
    <3> QED BY <1>0, <3>1, <3>2, <3>3 DEF WellMade, CreatesOwn, NamesVault, BringsIn, DataThere,
                                         Named
  <2>2. Send(u, txs)
    BY <1>1 DEF delist_command, delistNft
  <2> HIDE DEF txs
  <2>3. Made(txs) /\ \A tx \in txs : tx.by = u
    BY <2>1 DEF Made
  <2> QED BY <1>0, <2>2, <2>3, SendMade
<1>2. CASE cancel_offer_command(u, n)
  <2>1. Made(createCancelOfferTx(n, u)) /\ \A tx \in createCancelOfferTx(n, u) : tx.by = u
    BY PlainMade DEF createCancelOfferTx
  <2>2. Send(u, createCancelOfferTx(n, u))
    BY <1>2 DEF cancel_offer_command, cancelOffer
  <2> QED BY <1>0, <2>1, <2>2, SendMade
<1>3. ASSUME NEW price, placeBid(u, n, price) PROVE AccountsInv'
  <2> DEFINE txs == createPlaceBidTx(n, u, price)
  <2>1. ASSUME NEW tx \in txs PROVE tx.by = u /\ tx.blockhash = clock /\ WellMade(tx)
    <3>1. PICK info \in getAuctionDataState(n) :
              /\ tx.by = u /\ tx.blockhash = clock /\ tx.cmd.op = "place_bid"
              /\ tx.creates = getATokenAccountsNeedCreate(u, ABB)
                                \cup getATokenAccountsNeedCreate(EscrowVault, ABB)
                                \cup getATokenAccountsNeedCreate(OutBidder(u, info), ABB)
              /\ tx.uses = {<<u, ABB>>, <<EscrowVault, ABB>>, <<OutBidder(u, info), ABB>>}
      BY DEF createPlaceBidTx, Tx
    <3> HIDE DEF txs
    <3>2. OutBidder(u, info) \in Owners
      BY <1>0, OwnersNamed DEF OutBidder
    <3>3. /\ Named(u, ABB, tx.creates)
          /\ Named(EscrowVault, ABB, tx.creates)
          /\ Named(OutBidder(u, info), ABB, tx.creates)
      BY <1>0, <3>2, AccountNamed
    <3> QED BY <3>1, <3>3 DEF WellMade, Covered, CreatesOwn, NamesVault, BringsIn, DataThere,
                                    Named
  <2>2. Send(u, txs)
    BY <1>3 DEF placeBid
  <2> HIDE DEF txs
  <2>3. Made(txs) /\ \A tx \in txs : tx.by = u
    BY <2>1 DEF Made
  <2> QED BY <1>0, <2>2, <2>3, SendMade
<1>4. CASE cancel_auction_command(u, n)
  <2> DEFINE txs == createCancelAuctionTx(n, u)
  <2>1. ASSUME NEW tx \in txs PROVE tx.by = u /\ tx.blockhash = clock /\ WellMade(tx)
    <3>1. /\ tx.by = u /\ tx.blockhash = clock /\ tx.cmd.op = "cancel_auction" /\ tx.cmd.nft = n
          /\ tx.creates = getATokenAccountsNeedCreate(u, n)
          /\ tx.uses = {<<u, n>>, <<Vault, n>>}
      BY DEF createCancelAuctionTx, Tx
    <3> HIDE DEF txs
    <3>2. Named(u, n, tx.creates)
      BY <1>0, AccountNamed
    <3>3. Covered(tx)
      BY <3>1, <3>2 DEF Covered, TakenToExist, Named
    <3> QED BY <1>0, <3>1, <3>2, <3>3 DEF WellMade, CreatesOwn, NamesVault, BringsIn, DataThere,
                                         Named
  <2>2. Send(u, txs)
    BY <1>4 DEF cancel_auction_command, cancelAuction
  <2> HIDE DEF txs
  <2>3. Made(txs) /\ \A tx \in txs : tx.by = u
    BY <2>1 DEF Made
  <2> QED BY <1>0, <2>2, <2>3, SendMade
<1> QED BY <1>1, <1>2, <1>3, <1>4 DEF place_bid_command

LEMMA AwaitingCommandMade ==
    ASSUME TypeOK, TeamNamed, ClientInv, AccountsInv, NEW u \in Users, NEW n \in NFTs,
           \/ list_command(u, n)
           \/ purchase_command(u, n)
           \/ make_offer_command(u, n)
           \/ accept_offer_command(u, n)
           \/ create_auction_command(u, n)
           \/ claim_auction_command(u, n)
    PROVE  AccountsInv'
<1>0. u \in Payers
  BY DEF Payers
<1>1. ASSUME NEW cmd, cmd.op \in SaleOps, NEW pool \in getGlobalState,
             Await(u, cmd, TeamAddresses(pool))
      PROVE  AccountsInv'
  BY <1>0, <1>1, ReadTeam, AwaitMade DEF DataThere, SaleOps
<1>2. ASSUME NEW cmd, DataThere(u, cmd), Await(u, cmd, NoTeam) PROVE AccountsInv'
  BY <1>0, <1>2, NoTeamRead, AwaitMade
<1>3. ASSUME NEW first, NEW cmd, first.op \in CreatingOps,
             \A tx : tx.by = u /\ tx.cmd = first => Prepares(tx, u, cmd),
             SendFirst(u, Plain(u, first), cmd)
      PROVE  AccountsInv'
  BY <1>0, <1>3, PlainMade, SendFirstMade DEF CreatingOps
<1>4. CASE list_command(u, n)
  <2>1. PICK prices : listNftForSale(u, n, prices)
    BY <1>4 DEF list_command
  <2> DEFINE cmd == [op |-> "list", nft |-> n, prices |-> prices]
             first == [op |-> "init_sell_data", nft |-> n]
  <2>2. CASE n \in sells /\ Await(u, cmd, NoTeam)
    BY <1>2, <2>2 DEF DataThere
  <2>3. CASE SendFirst(u, Plain(u, first), cmd)
    <3>1. \A tx : tx.by = u /\ tx.cmd = first => Prepares(tx, u, cmd)
      BY DEF Prepares
    <3>2. first.op \in CreatingOps
      BY DEF CreatingOps
    <3> HIDE DEF cmd, first
    <3> QED BY <1>3, <2>3, <3>1, <3>2
  <2> QED BY <2>1, <2>2, <2>3 DEF listNftForSale, initSellData, createInitSellDataTx
<1>5. CASE purchase_command(u, n)
  BY <1>1, <1>5 DEF purchase_command, purchase, SaleOps
<1>6. CASE make_offer_command(u, n)
  <2>1. PICK price, by_token : makeOffer(u, n, price, by_token)
    BY <1>6 DEF make_offer_command
  <2> DEFINE cmd == [op |-> "make_offer", nft |-> n, price |-> price, by_token |-> by_token]
             first == [op |-> "init_offer_data", nft |-> n]
  <2>2. CASE <<n, u>> \in offers /\ Await(u, cmd, NoTeam)
    BY <1>2, <2>2 DEF DataThere
  <2>3. CASE SendFirst(u, Plain(u, first), cmd)
    <3>1. \A tx : tx.by = u /\ tx.cmd = first => Prepares(tx, u, cmd)
      BY DEF Prepares
    <3>2. first.op \in CreatingOps
      BY DEF CreatingOps
    <3> HIDE DEF cmd, first
    <3> QED BY <1>3, <2>3, <3>1, <3>2
  <2> QED BY <2>1, <2>2, <2>3 DEF makeOffer, initOfferData, createInitOfferDataTx
<1>7. CASE accept_offer_command(u, n)
  BY <1>1, <1>7 DEF accept_offer_command, acceptOffer, SaleOps
<1>8. CASE create_auction_command(u, n)
  <2>1. PICK start_price, min_increase, end_date, by_token :
            createAuction(u, n, start_price, min_increase, end_date, by_token)
    BY <1>8 DEF create_auction_command
  <2> DEFINE cmd == [op |-> "create_auction", nft |-> n, start_price |-> start_price,
                     min_increase |-> min_increase, end_date |-> end_date,
                     by_token |-> by_token]
             first == [op |-> "init_auction_data", nft |-> n]
  <2>2. CASE n \in auctions /\ Await(u, cmd, NoTeam)
    BY <1>2, <2>2 DEF DataThere
  <2>3. CASE SendFirst(u, Plain(u, first), cmd)
    <3>1. \A tx : tx.by = u /\ tx.cmd = first => Prepares(tx, u, cmd)
      BY DEF Prepares
    <3>2. first.op \in CreatingOps
      BY DEF CreatingOps
    <3> HIDE DEF cmd, first
    <3> QED BY <1>3, <2>3, <3>1, <3>2
  <2> QED BY <2>1, <2>2, <2>3 DEF createAuction, initAuctionData, createInitAuctionDataTx
<1>9. CASE claim_auction_command(u, n)
  BY <1>1, <1>9 DEF claim_auction_command, claimAuction, SaleOps
<1> QED BY <1>4, <1>5, <1>6, <1>7, <1>8, <1>9

\* The rest of a command, and processes that stop.
LEMMA ProcessMade ==
    ASSUME TypeOK, ClientInv, AccountsInv, NEW u \in Payers,
           Continue(u) \/ TimesOut(u) \/ Dies(u)
    PROVE  AccountsInv'
<1> DEFINE k == proc[u].cmd
           team == proc[u].team
           txs == {tx \in Built(u, k, team) : tx.by = u}
<1>1. CASE Continue(u) /\ Send(u, txs)
  <2>1. TypedOK(u, k) /\ u \in Users
    BY <1>1 DEF Continue, ClientInv, ProcessOK, TypedOK
  <2>2. TeamRead(team) /\ DataThere(u, k)
    BY <1>1 DEF Continue, AccountsInv, Waiting, Idle
  <2>3. Made(txs) /\ \A tx \in txs : tx.by = u
    <3> HIDE DEF k, team
    <3> QED BY <2>1, <2>2, BuiltIsMade DEF Made, AccountsInv
  <2> HIDE DEF txs
  <2> QED BY <1>1, <2>3, SendMade
<1>2. CASE /\ proc' = [proc EXCEPT ![u] = Idle] /\ sent' = sent
           /\ UNCHANGED <<vars, accounts>>
           /\ faults' = faults \/ (faults < MaxFaults /\ faults' = faults + 1)
  BY <1>2, EndMade
<1> QED BY <1>1, <1>2 DEF Continue, TimesOut, Dies

-----------------------------------------------------------------------------
(* Transactions.                                                            *)

\* A transaction brings at most its own treasury into the team, and no time passes.
LEMMA RunTeam ==
    ASSUME TypeOK, TypeOK', NEW tx, CommandOK(tx.by, tx.cmd), Run(tx)
    PROVE  /\ clock' = clock
           /\ \/ Team' \subseteq Team
              \/ /\ tx.cmd.op = "add_treasury"
                 /\ Team' \subseteq Team \cup {tx.cmd.address}
<1> DEFINE k == tx.cmd
<1>1. CASE RunAdmin(tx, k)
  <2>1. clock' = clock /\ tx.by \in Admins /\ TeamTypeOK /\ TeamTypeOK'
    BY <1>1 DEF RunAdmin, AboveTeam, ledgerVars, CommandOK, AdminOps, TypeOK
  <2>2. CASE k.op = "initialize" /\ Initialize(tx.by)
    BY <2>1, <2>2 DEF Initialize, Team, LiveSlots
  <2>3. CASE k.op = "update_fee" /\ UpdateFee(tx.by, k.sol_fee, k.token_fee)
    BY <2>1, <2>3 DEF UpdateFee, Team, LiveSlots
  <2>4. CASE k.op = "add_treasury" /\ AddTeamTreasury(tx.by, k.address, k.rate)
    BY <2>1, <2>4, AddBringsOne
  <2>5. CASE k.op = "remove_treasury" /\ RemoveTeamTreasury(tx.by, k.address)
    <3>1. k.address \in Treasuries
      BY <2>5 DEF CommandOK
    <3> QED BY <2>1, <2>5, <3>1, RemoveBringsNone
  <2> QED BY <1>1, <2>2, <2>3, <2>4, <2>5 DEF RunAdmin
<1>2. SUFFICES ASSUME ~ RunAdmin(tx, k) PROVE clock' = clock /\ UNCHANGED globalVars
  BY <1>1 DEF globalVars, Team, LiveSlots
<1>3. CASE RunUser(tx, k)
  BY <1>3 DEF RunUser, InitUserPool, Deposit, Withdraw, ledgerVars
<1>4. CASE RunSale(tx, k)
  BY <1>4 DEF RunSale, RunPurchase, InitSellData, List, Delist, Purchase, ledgerVars
<1>5. CASE RunOffer(tx, k)
  BY <1>5 DEF RunOffer, RunAcceptOffer, InitOfferData, MakeOffer, CancelOffer, AcceptOffer,
              ledgerVars
<1>6. CASE RunAuction(tx, k)
  BY <1>6 DEF RunAuction, RunPlaceBid, RunClaimAuction, InitAuctionData, CreateAuction,
              PlaceBid, ClaimAuction, CancelAuction, ledgerVars
<1> QED BY <1>2, <1>3, <1>4, <1>5, <1>6 DEF Run

LEMMA DataStay ==
    ASSUME [Next]_vars
    PROVE  DataStays
<1>1. ASSUME NEW u \in Users, UserNext(u) PROVE DataStays
  BY <1>1 DEF UserNext, AboveEscrow, DataStays, sellVars, offerVars, auctionVars
<1>2. ASSUME NEW admin \in Admins, AdminNext(admin) PROVE DataStays
  BY <1>2 DEF AdminNext, AboveTeam, DataStays, sellVars, offerVars, auctionVars
<1>3. ASSUME NEW n \in NFTs, NftNext(n) PROVE DataStays
  BY <1>3 DEF NftNext, InitSellData, InitAuctionData, AboveLedger, AboveListing, DataStays,
              sellVars, offerVars, auctionVars
<1>4. ASSUME NEW u \in Users, NEW n \in NFTs, SaleNext(u, n) PROVE DataStays
  BY <1>4 DEF SaleNext, List, Delist, Purchase, AboveListing, DataStays, offerVars, auctionVars
<1>5. ASSUME NEW u \in Users, NEW n \in NFTs, OfferNext(u, n) PROVE DataStays
  BY <1>5 DEF OfferNext, InitOfferData, MakeOffer, CancelOffer, AcceptOffer, DataStays,
              sellVars, auctionVars
<1>6. ASSUME NEW u \in Users, NEW n \in NFTs, AuctionNext(u, n) PROVE DataStays
  BY <1>6 DEF AuctionNext, CreateAuction, PlaceBid, ClaimAuction, CancelAuction, DataStays,
              sellVars, offerVars
<1>7. CASE Tick /\ UNCHANGED AboveLedger
  BY <1>7 DEF AboveLedger, DataStays, sellVars, offerVars, auctionVars
<1>8. CASE UNCHANGED vars
  BY <1>8 DEF vars, DataStays, sellVars, offerVars, auctionVars
<1> QED BY <1>1, <1>2, <1>3, <1>4, <1>5, <1>6, <1>7, <1>8 DEF Next

\* What comes into escrow came through an account that is open by then.
LEMMA OpenForWhatComes ==
    ASSUME EscrowOpen, Standing \subseteq Standing',
           \A u \in Users, c \in Currency : escrow'[u][c] > 0
                => escrow[u][c] > 0 \/ <<EscrowVault, ABB>> \in Standing',
           \A n \in NFTs, u \in Users : offer'[n][u].active = 1
                => offer[n][u].active = 1 \/ <<EscrowVault, ABB>> \in Standing',
           \A n \in NFTs : Auctioned(n)' /\ HasBid(n)'
                => (Auctioned(n) /\ HasBid(n)) \/ <<EscrowVault, ABB>> \in Standing'
    PROVE  EscrowOpen'
BY DEF EscrowOpen

\* No escrow grows when an amount is taken out of one.
LEMMA EscrowLowered ==
    ASSUME EscrowTypeOK, NEW u \in Users, NEW amount \in [Currency -> Nat],
           escrow' = [escrow EXCEPT ![u] = [c \in Currency |-> @[c] - amount[c]]],
           NEW v \in Users, NEW c \in Currency, escrow'[v][c] > 0
    PROVE  escrow[v][c] > 0
<1>1. escrow \in [Users -> [Currency -> 0..MAX_U64]]
  BY DEF EscrowTypeOK
<1>2. escrow[v][c] \in Nat /\ amount[c] \in Nat
  BY <1>1, TeamAssumption
<1>3. CASE v = u
  <2>1. escrow'[v][c] = escrow[v][c] - amount[c]
    BY <1>1, <1>3
  <2> QED BY <1>2, <2>1
<1>4. CASE v # u
  BY <1>1, <1>4
<1> QED BY <1>3, <1>4

\* Every instruction that brings money in goes through the vault's account of ABB tokens,
\* which is there when the transaction runs.
LEMMA RunEscrow ==
    ASSUME TypeOK, EscrowOpen, NEW tx, CommandOK(tx.by, tx.cmd), NamesVault(tx),
           Standing \subseteq Standing', tx.uses \subseteq Standing' \cup VaultAccounts, Run(tx)
    PROVE  EscrowOpen'
<1> DEFINE k == tx.cmd
           u == tx.by
           n == k.nft
<1>0. /\ EscrowTypeOK
      /\ escrow \in [Users -> [Currency -> 0..MAX_U64]]
      /\ offer \in [NFTs -> [Users -> OfferData]]
      /\ auction \in [NFTs -> AuctionData]
  BY DEF TypeOK, EscrowTypeOK, OffersTypeOK, AuctionsTypeOK
<1>2. k.op \in {"deposit", "make_offer", "place_bid"} => <<EscrowVault, ABB>> \in Standing'
  BY TokensStand DEF NamesVault
<1>3. CASE UNCHANGED <<escrow, offer, auction>>
  BY <1>3, EscrowStaysOpen
<1>4. CASE RunUser(tx, k)
  <2>1. u \in Users /\ UNCHANGED <<offer, auction>>
    BY <1>4 DEF RunUser, CommandOK, UserOps, AboveEscrow, offerVars, auctionVars
  <2>2. CASE InitUserPool(u)
    BY <1>3, <2>1, <2>2 DEF InitUserPool
  <2>3. CASE k.op = "deposit"
    BY <1>2, <2>1, <2>3, OpenForWhatComes
  <2>4. CASE k.op = "withdraw" /\ Withdraw(u, k.amount)
    <3>1. k.amount \in [Currency -> Nat]
      BY <2>4, ArgumentsAreNaturals DEF CommandOK
    <3>2. \A v \in Users, c \in Currency : escrow'[v][c] > 0 => escrow[v][c] > 0
      BY <1>0, <2>1, <2>4, <3>1, EscrowLowered DEF Withdraw
    <3> QED BY <2>1, <3>2, OpenForWhatComes DEF Auctioned, HasBid
  <2> QED BY <1>4, <2>2, <2>3, <2>4 DEF RunUser
<1>5. CASE RunSale(tx, k)
  <2>1. UNCHANGED <<escrow, offer, auction>>
    BY <1>5 DEF RunSale, RunPurchase, InitSellData, List, Delist, Purchase, AboveListing,
                userVars, offerVars, auctionVars
  <2> QED BY <1>3, <2>1
<1>6. CASE RunOffer(tx, k)
  <2>1. n \in NFTs /\ u \in Users /\ UNCHANGED auction
    BY <1>6 DEF RunOffer, CommandOK, NftOps, auctionVars
  <2>2. CASE InitOfferData(u, n)
    BY <1>3, <2>1, <2>2 DEF InitOfferData, userVars
  <2>3. CASE k.op = "make_offer" /\ MakeOffer(u, n, k.price, CurrencyOf(k.by_token))
    BY <1>2, <2>1, <2>3, OpenForWhatComes
  <2>4. CASE CancelOffer(u, n)
    <3>1. /\ UNCHANGED escrow
          /\ offer' = [offer EXCEPT ![n][u].active = 0]
      BY <2>4 DEF CancelOffer, userVars
    <3>2. \A m \in NFTs, v \in Users : offer'[m][v].active = 1 => offer[m][v].active = 1
      BY <1>0, <2>1, <3>1 DEF OfferData
    <3> QED BY <2>1, <3>1, <3>2, OpenForWhatComes DEF Auctioned, HasBid
  <2>5. CASE k.op = "accept_offer" /\ AcceptOffer(u, n, k.buyer)
    <3> DEFINE b == k.buyer
               o == offer[n][b]
    <3>0. b \in Users
      BY <2>5 DEF CommandOK
    <3>1. offer' = [offer EXCEPT ![n][b].active = 0]
      BY <2>5, Zenon DEF AcceptOffer
    <3>2. escrow' = [escrow EXCEPT ![b][o.by_token] = @ - o.offer_price]
      BY <2>5, Zenon DEF AcceptOffer
    <3> HIDE DEF b, o
    <3>3. \A m \in NFTs, v \in Users : offer'[m][v].active = 1 => offer[m][v].active = 1
      <4>1. ASSUME NEW m \in NFTs, NEW v \in Users
            PROVE  \/ offer'[m][v] = offer[m][v]
                   \/ m = n /\ v = b /\ offer'[m][v].active = 0
        BY <1>0, <2>1, <3>0, <3>1 DEF OfferData
      <4> QED BY <4>1
    <3>4. o.by_token \in Currency /\ o.offer_price \in Nat
      BY <1>0, <2>1, <3>0, TeamAssumption DEF OfferData, o
    <3>5. ASSUME NEW v \in Users, NEW c \in Currency, escrow'[v][c] > 0
          PROVE  escrow[v][c] > 0
      <4>1. escrow[v][c] \in Nat
        BY <1>0, TeamAssumption
      <4>2. escrow'[v][c] = IF v = b /\ c = o.by_token THEN escrow[v][c] - o.offer_price
                                                       ELSE escrow[v][c]
        BY <1>0, <3>0, <3>2, <3>4
      <4> QED BY <3>4, <3>5, <4>1, <4>2
    <3> QED BY <2>1, <3>3, <3>5, OpenForWhatComes DEF Auctioned, HasBid
  <2> QED BY <1>6, <2>2, <2>3, <2>4, <2>5 DEF RunOffer, RunAcceptOffer
<1>7. CASE RunAuction(tx, k)
  <2>1. n \in NFTs
    BY <1>7 DEF RunAuction, CommandOK, NftOps
  <2>2. UNCHANGED <<escrow, offer>>
    BY <1>7 DEF RunAuction, InitAuctionData, CreateAuction, RunPlaceBid, PlaceBid,
                RunClaimAuction, ClaimAuction, CancelAuction, userVars, offerVars
  <2>3. CASE InitAuctionData(n)
    BY <1>3, <2>2, <2>3 DEF InitAuctionData
  <2>4. CASE /\ k.op = "create_auction"
             /\ CreateAuction(u, n, k.start_price, k.min_increase,
                              CurrencyOf(k.by_token), k.end_date)
    <3>1. /\ auction'[n].last_bidder = Default
          /\ \A m \in NFTs \ {n} : auction'[m] = auction[m]
      BY <1>0, <2>1, <2>4 DEF CreateAuction
    <3> QED BY <2>2, <3>1, OpenForWhatComes DEF Auctioned, HasBid
  <2>5. CASE k.op = "place_bid" /\ PlaceBid(u, n, k.price)
    BY <1>2, <2>2, <2>5, OpenForWhatComes
  <2>6. CASE RunClaimAuction(tx, k) \/ CancelAuction(u, n)
    <3>1. \/ auction' = [auction EXCEPT ![n].status = 2]
          \/ auction' = [auction EXCEPT ![n].status = 0]
      BY <2>6 DEF RunClaimAuction, ClaimAuction, CancelAuction
    <3>2. auction'[n].status # 1 /\ \A m \in NFTs \ {n} : auction'[m] = auction[m]
      BY <1>0, <2>1, <3>1 DEF AuctionData
    <3> QED BY <2>2, <3>2, OpenForWhatComes DEF Auctioned, HasBid
  <2> QED BY <1>7, <2>3, <2>4, <2>5, <2>6 DEF RunAuction, RunPlaceBid
<1>8. CASE RunAdmin(tx, k)
  BY <1>3, <1>8 DEF RunAdmin, AboveTeam, userVars, offerVars, auctionVars
<1> QED BY <1>4, <1>5, <1>6, <1>7, <1>8 DEF Run

\* What a transaction that runs does to custody: the NFT it brings in is in the program's
\* hands, the NFT that leaves is not, and all others stay where they are.
LEMMA RunHolders ==
    ASSUME TypeOK, NEW tx, CommandOK(tx.by, tx.cmd), Run(tx), NEW m \in NFTs
    PROVE  holder'[m] = Vault
             <=> \/ BringsIn(tx) /\ m = tx.cmd.nft
                 \/ holder[m] = Vault /\ ~ (tx.cmd.op \in ExitOps /\ m = tx.cmd.nft)
<1> DEFINE k == tx.cmd
           u == tx.by
           n == k.nft
<1>0. holder \in [NFTs -> Users \cup {Vault}] /\ Vault \notin Users
  BY LedgerAssumption DEF TypeOK, LedgerTypeOK
<1>1. CASE UNCHANGED holder /\ ~ BringsIn(tx) /\ k.op \notin ExitOps
  BY <1>1
<1>2. ASSUME BringsIn(tx), n \in NFTs, holder' = [holder EXCEPT ![n] = Vault]
      PROVE  holder'[m] = Vault <=> m = n \/ holder[m] = Vault
  BY <1>0, <1>2
<1>3. BringsIn(tx) => k.op \notin ExitOps
  BY DEF BringsIn, ExitOps
<1>4. ASSUME k.op \in ExitOps, n \in NFTs, NEW w \in Users, holder' = [holder EXCEPT ![n] = w]
      PROVE  holder'[m] = Vault <=> holder[m] = Vault /\ m # n
  BY <1>0, <1>4
<1>5. CASE RunAdmin(tx, k)
  BY <1>1, <1>5 DEF RunAdmin, AboveTeam, ledgerVars, BringsIn, ExitOps
<1>6. CASE RunUser(tx, k)
  BY <1>1, <1>6 DEF RunUser, InitUserPool, Deposit, Withdraw, ledgerVars, BringsIn, ExitOps
<1>7. CASE RunSale(tx, k)
  <2>1. n \in NFTs /\ u \in Users
    BY <1>7 DEF RunSale, CommandOK, NftOps
  <2>2. CASE k.op = "init_sell_data" /\ UNCHANGED holder
    BY <1>1, <2>2 DEF BringsIn, ExitOps
  <2>3. CASE k.op = "list" /\ holder' = [holder EXCEPT ![n] = Vault]
    <3>1. BringsIn(tx)
      BY <2>3 DEF BringsIn
    <3> QED BY <1>2, <1>3, <2>1, <2>3, <3>1
  <2>4. CASE /\ k.op \in {"delist", "purchase"}
             /\ holder' = [holder EXCEPT ![n] = u]
    <3>1. k.op \in ExitOps
      BY <2>4 DEF ExitOps
    <3> QED BY <1>3, <1>4, <2>1, <2>4, <3>1
  <2> QED BY <1>7, <2>2, <2>3, <2>4
          DEF RunSale, InitSellData, List, Delist, RunPurchase, Purchase, ledgerVars
<1>8. CASE RunOffer(tx, k)
  <2>1. n \in NFTs
    BY <1>8 DEF RunOffer, CommandOK, NftOps
  <2>2. CASE /\ k.op \in {"init_offer_data", "make_offer", "cancel_offer"}
             /\ UNCHANGED holder
    BY <1>1, <2>2 DEF BringsIn, ExitOps
  <2>3. CASE k.op = "accept_offer" /\ RunAcceptOffer(tx, k)
    <3>1. /\ k.op \in ExitOps /\ k.buyer \in Users
          /\ holder' = [holder EXCEPT ![n] = k.buyer]
      BY <2>3 DEF RunAcceptOffer, AcceptOffer, CommandOK, ExitOps
    <3> QED BY <1>3, <1>4, <2>1, <3>1
  <2> QED BY <1>8, <2>2, <2>3
          DEF RunOffer, InitOfferData, MakeOffer, CancelOffer, ledgerVars
<1>9. CASE RunAuction(tx, k)
  <2>1. n \in NFTs /\ u \in Users
    BY <1>9 DEF RunAuction, CommandOK, NftOps
  <2>2. CASE k.op \in {"init_auction_data", "place_bid"} /\ UNCHANGED holder
    BY <1>1, <2>2 DEF BringsIn, ExitOps
  <2>3. CASE /\ k.op = "create_auction"
             /\ holder' = [holder EXCEPT ![n] = Vault]
    <3>1. BringsIn(tx)
      BY <2>3 DEF BringsIn
    <3> QED BY <1>2, <1>3, <2>1, <2>3, <3>1
  <2>4. CASE /\ k.op \in {"claim_auction", "cancel_auction"}
             /\ holder' = [holder EXCEPT ![n] = u]
    <3>1. k.op \in ExitOps
      BY <2>4 DEF ExitOps
    <3> QED BY <1>3, <1>4, <2>1, <2>4, <3>1
  <2> QED BY <1>9, <2>2, <2>3, <2>4
          DEF RunAuction, InitAuctionData, CreateAuction, RunPlaceBid, PlaceBid,
              RunClaimAuction, ClaimAuction, CancelAuction, ledgerVars
<1> QED BY <1>5, <1>6, <1>7, <1>8, <1>9 DEF Run

\* What a transaction that runs does to the accounts: those that stay, stay; the vault has
\* an account for what came in, and none for what went out.
LEMMA ExecutesAccounts ==
    ASSUME TypeOK, VaultAccountInCustody, NEW tx, CommandOK(tx.by, tx.cmd),
           CreatesOwn(tx), NamesVault(tx), Executes(tx)
    PROVE  /\ Standing \subseteq Standing'
           /\ tx.creates \ VaultAccounts \subseteq Standing'
           /\ tx.uses \subseteq Standing' \cup VaultAccounts
           /\ VaultAccountInCustody'
<1> DEFINE n == tx.cmd.nft
<1>1. /\ tx.uses \subseteq accounts \cup tx.creates
      /\ Run(tx)
      /\ accounts' = (accounts \cup tx.creates) \ Closes(tx)
  BY DEF Executes
<1>2. Closes(tx) = IF tx.cmd.op \in ExitOps THEN {<<Vault, n>>} ELSE {}
  BY DEF Closes, getAssociatedTokenAccount
<1>3. tx.cmd.op \in ExitOps => n \in NFTs
  BY DEF ExitOps, CommandOK, NftOps
<1>4. Closes(tx) \subseteq VaultAccounts
  BY <1>2, <1>3 DEF VaultAccounts
<1>5. /\ Standing' = (Standing \cup tx.creates) \ VaultAccounts
      /\ tx.uses \subseteq Standing' \cup VaultAccounts
  BY <1>1, <1>4 DEF Standing
<1>6. ASSUME NEW m \in NFTs PROVE <<Vault, m>> \in accounts' <=> holder'[m] = Vault
  <2>1. <<Vault, m>> \in accounts <=> holder[m] = Vault
    BY DEF VaultAccountInCustody
  <2>2. holder'[m] = Vault
          <=> \/ BringsIn(tx) /\ m = n
              \/ holder[m] = Vault /\ ~ (tx.cmd.op \in ExitOps /\ m = n)
    BY <1>1, RunHolders
  <2>3. <<Vault, m>> \in tx.creates => BringsIn(tx) /\ m = n
    BY DEF CreatesOwn, VaultAccounts
  <2>4. BringsIn(tx) /\ m = n => <<Vault, m>> \in accounts \cup tx.creates
    BY <1>1 DEF NamesVault
  <2>5. BringsIn(tx) => tx.cmd.op \notin ExitOps
    BY DEF BringsIn, ExitOps
  <2>6. <<Vault, m>> \in Closes(tx) <=> tx.cmd.op \in ExitOps /\ m = n
    BY <1>2
  <2> QED BY <1>1, <2>1, <2>2, <2>3, <2>4, <2>5, <2>6
<1>7. VaultAccountInCustody'
  BY <1>6 DEF VaultAccountInCustody
<1> QED BY <1>5, <1>7 DEF Standing

\* What happens to the accounts and the team keeps what is on its way and what waits.
LEMMA AccountsGrow ==
    ASSUME AccountsInv, clock' \in Nat, clock <= clock', clock \in Nat,
           Standing \subseteq Standing', accounts' \subseteq TokenAccounts,
           sent' \subseteq sent, faults' \in 0..MaxFaults,
           TeamHasAccounts', VaultAccountInCustody', EscrowOpen',
           DataStays, \A u \in Payers : Waiting(u, proc[u])'
    PROVE  AccountsInv'
<1>1. ASSUME NEW tx \in sent PROVE tx.blockhash \in 0..clock' /\ WellMade(tx)'
  <2>1. tx.blockhash \in 0..clock /\ WellMade(tx)
    BY DEF AccountsInv
  <2>2. WellMade(tx)'
    BY <2>1, WellMadeStays
  <2> QED BY <2>1, <2>2
<1> QED BY <1>1 DEF AccountsInv

\* Whether the transaction that creates a data account runs or fails, the account is
\* there when the process goes on.
LEMMA PreparedThen ==
    ASSUME NEW tx, NEW u, NEW k, Prepares(tx, u, k), CommandOK(tx.by, tx.cmd),
           Executes(tx) \/ Fails(tx), DataStays
    PROVE  DataThere(u, k)'
<1>1. CASE k.op \notin {"list", "make_offer", "create_auction"}
  BY <1>1 DEF DataThere
<1>2. SUFFICES ASSUME k.op \in {"list", "make_offer", "create_auction"}
               PROVE  DataThere(u, k)'
  BY <1>1
<1>3. /\ k.op = "list" => tx.cmd.op = "init_sell_data" /\ tx.cmd.nft = k.nft
      /\ k.op = "make_offer" => /\ tx.cmd.op = "init_offer_data" /\ tx.cmd.nft = k.nft
                                /\ tx.by = u
      /\ k.op = "create_auction" => tx.cmd.op = "init_auction_data" /\ tx.cmd.nft = k.nft
  BY DEF Prepares
<1>4. CASE Executes(tx)
  <2>1. Run(tx)
    BY <1>4 DEF Executes
  <2>2. CASE k.op = "list"
    BY <1>3, <2>1, <2>2
    DEF DataThere, Run, RunAdmin, RunUser, RunSale, RunOffer, RunAuction, InitSellData
  <2>3. CASE k.op = "make_offer"
    BY <1>3, <2>1, <2>3
    DEF DataThere, Run, RunAdmin, RunUser, RunSale, RunOffer, RunAuction, InitOfferData
  <2>4. CASE k.op = "create_auction"
    BY <1>3, <2>1, <2>4
    DEF DataThere, Run, RunAdmin, RunUser, RunSale, RunOffer, RunAuction, InitAuctionData
  <2> QED BY <1>2, <2>2, <2>3, <2>4
<1>5. CASE Fails(tx)
  <2>1. tx.cmd.op \in CreatingOps
    BY <1>2, <1>3 DEF CreatingOps
  <2>2. DataExists(tx)
    BY <1>5, <2>1, Zenon DEF Fails, Rejected
  <2> QED BY <1>2, <1>3, <2>2 DEF DataExists, DataThere, DataStays
<1> QED BY <1>4, <1>5

LEMMA LandsMade ==
    ASSUME TypeOK, TypeOK', ClientInv, AccountsInv, NEW tx \in sent, Lands(tx)
    PROVE  AccountsInv'
<1>1. /\ CommandOK(tx.by, tx.cmd) /\ WellMade(tx) /\ TeamHasAccounts
      /\ VaultAccountInCustody /\ EscrowOpen
  BY DEF ClientInv, Sendable, AccountsInv
<1>2. clock \in Nat /\ clock' \in Nat
  BY LedgerAssumption DEF TypeOK, LedgerTypeOK
<1>3. sent' \subseteq sent /\ faults' \in 0..MaxFaults
  BY DEF Lands, Arrives, AccountsInv
<1>4. Executes(tx) \/ Fails(tx)
  BY DEF Lands, Arrives
<1>5. DataStays
  <2>1. [Next]_vars
    BY LandsKeeps
  <2> QED BY <2>1, DataStay
<1>6. ASSUME NEW u \in Payers PROVE Waiting(u, proc[u])'
  <2>1. Waiting(u, proc[u]) /\ proc'[u] = Confirmed(proc[u], tx)
    BY DEF Lands, AccountsInv
  <2>2. CASE /\ proc[u].stage = "init" /\ proc[u].tx = tx
             /\ proc'[u] = Building(proc[u].cmd, NoTeam)
    <3>1. Prepares(tx, u, proc[u].cmd)
      BY <2>1, <2>2 DEF Waiting, Idle
    <3> DEFINE k == proc[u].cmd
    <3>2. ASSUME NEW c, Prepares(tx, u, c) PROVE DataThere(u, c)'
      BY <1>1, <1>4, <1>5, <3>2, PreparedThen
    <3>3. ASSUME NEW c, Prepares(tx, u, c), proc'[u] = Building(c, NoTeam)
          PROVE  Waiting(u, proc[u])'
      BY <3>2, <3>3, NoTeamRead DEF Waiting, Building
    <3> QED BY <2>2, <3>1, <3>3
  <2>3. CASE proc'[u] = Idle
    BY <2>3 DEF Waiting
  <2>4. CASE proc'[u] = proc[u]
    <3>1. ASSUME NEW p, Waiting(u, p), proc'[u] = p PROVE Waiting(u, proc[u])'
      BY <1>5, <3>1, WaitingStays
    <3> QED BY <2>1, <2>4, <3>1
  <2> QED BY <2>1, <2>2, <2>3, <2>4 DEF Confirmed
<1>7. CASE Executes(tx)
  <2>1. /\ Standing \subseteq Standing'
        /\ tx.creates \ VaultAccounts \subseteq Standing'
        /\ tx.uses \subseteq Standing' \cup VaultAccounts
        /\ VaultAccountInCustody'
    BY <1>1, <1>7, ExecutesAccounts DEF WellMade
  <2>2. Run(tx) /\ accounts' \subseteq TokenAccounts
    BY <1>1, <1>7 DEF Executes, WellMade, AccountsInv
  <2>3. clock' = clock
    BY <1>1, <2>2, RunTeam
  <2>4. TeamHasAccounts'
    <3>1. \A w : <<w, ABB>> \in accounts \cup tx.creates => <<w, ABB>> \in accounts'
      BY <2>1, TokensStand DEF Standing
    <3>2. CASE Team' \subseteq Team
      BY <1>1, <3>1, <3>2 DEF TeamHasAccounts
    <3>3. CASE tx.cmd.op = "add_treasury" /\ Team' \subseteq Team \cup {tx.cmd.address}
      BY <1>1, <3>1, <3>3 DEF TeamHasAccounts, WellMade, Standing
    <3> QED BY <1>1, <2>2, <3>2, <3>3, RunTeam
  <2>5. EscrowOpen'
    BY <1>1, <2>1, <2>2, RunEscrow DEF WellMade
  <2> QED BY <1>2, <1>3, <1>5, <1>6, <2>1, <2>2, <2>3, <2>4, <2>5, AccountsGrow
<1>8. CASE Fails(tx)
  <2>1. /\ accounts' = accounts /\ clock' = clock /\ Team' = Team /\ holder' = holder
        /\ UNCHANGED <<escrow, offer, auction>>
    BY <1>8 DEF Fails, vars, ledgerVars, globalVars, Team, LiveSlots, userVars, sellVars,
                offerVars, auctionVars
  <2>2. /\ TeamHasAccounts' /\ VaultAccountInCustody' /\ accounts' \subseteq TokenAccounts
        /\ Standing \subseteq Standing'
    BY <1>1, <2>1 DEF TeamHasAccounts, VaultAccountInCustody, AccountsInv, Standing
  <2>3. EscrowOpen'
    BY <1>1, <2>1, <2>2, EscrowStaysOpen
  <2> QED BY <1>2, <1>3, <1>5, <1>6, <2>1, <2>2, <2>3, AccountsGrow
<1> QED BY <1>4, <1>7, <1>8

\* What is lost or late, and what happens without a transaction.
LEMMA OthersMade ==
    ASSUME TypeOK, TypeOK', AccountsInv,
           \/ \E tx \in sent : Lost(tx)
           \/ Elapse
           \/ \E n \in NFTs, from, to \in Users : HandOver(n, from, to)
           \/ UNCHANGED allVars
    PROVE  AccountsInv'
<1>1. clock \in Nat /\ clock' \in Nat /\ clock <= clock'
  BY LedgerAssumption
  DEF TypeOK, LedgerTypeOK, Lost, Vanishes, Elapse, Tick, HandOver, TransferNft, allVars, vars,
      ledgerVars
<1>2. sent' \subseteq sent /\ UNCHANGED proc
  BY DEF Lost, Vanishes, Elapse, DropsExpired, HandOver, allVars, clientVars
<1>3. faults' \in 0..MaxFaults
  BY NetworkAssumption DEF AccountsInv, Lost, Vanishes, Elapse, HandOver, allVars, clientVars
<1>4. UNCHANGED globalVars /\ UNCHANGED <<escrow, offer, auction>> /\ DataStays
  BY DEF Lost, Vanishes, Elapse, HandOver, AboveLedger, allVars, vars, userVars, sellVars,
         offerVars, auctionVars, DataStays
<1>5. accounts \subseteq accounts' /\ accounts' \subseteq TokenAccounts /\ VaultAccountInCustody'
  <2>1. CASE UNCHANGED <<accounts, holder>>
    BY <2>1 DEF AccountsInv, VaultAccountInCustody
  <2>2. ASSUME NEW n \in NFTs, NEW from \in Users, NEW to \in Users, HandOver(n, from, to)
        PROVE  /\ accounts \subseteq accounts' /\ accounts' \subseteq TokenAccounts
               /\ VaultAccountInCustody'
    <3>1. <<to, n>> \in TokenAccounts /\ Vault \notin Users
      BY LedgerAssumption DEF TokenAccounts, Mints, Wallets
    <3>2. /\ accounts' \in {accounts, accounts \cup {<<to, n>>}}
          /\ holder[n] = from /\ holder' = [holder EXCEPT ![n] = to]
          /\ holder \in [NFTs -> Users \cup {Vault}]
      BY <2>2 DEF HandOver, TransferNft, TypeOK, LedgerTypeOK
    <3>3. ASSUME NEW m \in NFTs PROVE <<Vault, m>> \in accounts' <=> holder'[m] = Vault
      BY <3>1, <3>2 DEF AccountsInv, VaultAccountInCustody
    <3> QED BY <3>1, <3>2, <3>3 DEF AccountsInv, VaultAccountInCustody
  <2> QED BY <2>1, <2>2 DEF Lost, Vanishes, Elapse, Tick, allVars, vars, ledgerVars, clientVars
<1>6. TeamHasAccounts' /\ Standing \subseteq Standing' /\ EscrowOpen'
  <2>1. Standing \subseteq Standing'
    BY <1>5 DEF Standing
  <2> QED BY <1>4, <1>5, <2>1, EscrowStaysOpen
          DEF AccountsInv, TeamHasAccounts, globalVars, Team, LiveSlots
<1>7. ASSUME NEW u \in Payers PROVE Waiting(u, proc[u])'
  <2>1. ASSUME NEW p, Waiting(u, p), proc'[u] = p PROVE Waiting(u, proc[u])'
    BY <1>4, <2>1, WaitingStays
  <2> QED BY <1>2, <2>1 DEF AccountsInv
<1> QED BY <1>1, <1>2, <1>3, <1>4, <1>5, <1>6, <1>7, AccountsGrow

LEMMA AccountsStep ==
    ASSUME TypeOK, TypeOK', TeamNamed, ClientInv, AccountsInv, [ClientNext]_allVars
    PROVE  AccountsInv'
<1>1. ASSUME NEW u \in Users, NEW n \in NFTs, NftCommand(u, n) PROVE AccountsInv'
  BY <1>1, DirectCommandMade, AwaitingCommandMade DEF NftCommand
<1> QED BY <1>1, AdminCommandMade, UserCommandMade, ProcessMade, LandsMade, OthersMade
        DEF ClientNext

LEMMA AccountsStart == ClientInit => AccountsInv
<1> SUFFICES ASSUME ClientInit PROVE AccountsInv
  OBVIOUS
<1>1. Team = {}
  BY DEF ClientInit, Init, TeamInit, Team, LiveSlots, Slots
<1>2. EscrowOpen
  BY DEF ClientInit, Init, EscrowInit, OffersInit, AuctionsInit, NoOffer, NoAuction, EscrowOpen,
         Auctioned
<1>3. VaultAccountInCustody
  BY BuildersAssumption, LedgerAssumption
  DEF ClientInit, Init, LedgerInit, VaultAccountInCustody
<1> QED BY <1>1, <1>2, <1>3, BuildersAssumption, NetworkAssumption
        DEF ClientInit, AccountsInv, TeamHasAccounts, Waiting

\* The invariant in every behaviour of clients and network.
LEMMA AccountsCorrect == ClientSpec => [](ClientInv /\ AccountsInv)
<1>1. ClientInv /\ [ClientNext]_allVars => ClientInv'
  BY ClientStep
<1>2. /\ TypeOK /\ TypeOK' /\ TeamNamed /\ ClientInv /\ AccountsInv /\ [ClientNext]_allVars
      => AccountsInv'
  BY AccountsStep
<1>3. ClientSpec => [](TypeOK /\ TeamNamed)
  BY ClientsImplementProgram, TypeCorrect, ProgramImplementsTeam, TeamAlwaysNamed, PTL
<1> QED BY <1>1, <1>2, <1>3, ClientStart, AccountsStart, PTL DEF ClientSpec

\* Every treasury of the team can be paid in tokens, although the list of missing
\* accounts was made when the command was typed, others add and remove treasuries
\* before the transaction runs, and it may run late or never: for any wallets,
\* any life of a block and any number of faults.
THEOREM TeamAlwaysHasAccounts == ClientSpec => []TeamHasAccounts
<1>1. AccountsInv => TeamHasAccounts
  BY DEF AccountsInv
<1> QED BY <1>1, AccountsCorrect, PTL

\* The network carries well-formed transactions of wallets, about token accounts that
\* there can be and with a block that was there; a process waits for a transaction of
\* its own wallet, whatever was lost and whoever died.
THEOREM ClientTypesCorrect == ClientSpec => []ClientTypeOK
<1>1. ClientInv /\ AccountsInv => ClientTypeOK
  <2> SUFFICES ASSUME ClientInv, AccountsInv PROVE ClientTypeOK
    OBVIOUS
  <2>1. ASSUME NEW tx \in sent PROVE tx.by \in Payers
    BY DEF ClientInv, Sendable, CommandOK, Payers
  <2>2. \A tx \in sent : tx.blockhash \in 0..clock /\ tx.creates \cup tx.uses \subseteq TokenAccounts
    BY DEF AccountsInv, WellMade
  <2> QED BY <2>1, <2>2 DEF ClientInv, AccountsInv, ClientTypeOK, Waiting
<1> QED BY <1>1, AccountsCorrect, PTL

\* A command's main transaction is on its way only when the data account it writes is
\* there: a command that had to create one goes on when that transaction is in a block,
\* without asking whether it failed, and it fails only because the account exists.
THEOREM AccountAlwaysBeforeMain == ClientSpec => []AccountBeforeMain
<1>1. AccountsInv => AccountBeforeMain
  BY DEF AccountsInv, WellMade, DataThere, AccountBeforeMain
<1> QED BY <1>1, AccountsCorrect, PTL

\* What the program runs is due: the sale, the offer, the balance or the treasuries
\* that the transaction is about are there.  So a transaction that is not due fails for
\* another reason than a missing token account.
THEOREM WhatRunsIsDue ==
    ASSUME TypeOK, NEW tx, CommandOK(tx.by, tx.cmd), Run(tx)
    PROVE  Due(tx)
<1> DEFINE k == tx.cmd
           u == tx.by
           n == k.nft
<1>1. CASE RunAdmin(tx, k)
  BY <1>1 DEF RunAdmin, Due
<1>2. CASE RunUser(tx, k)
  <2>1. CASE k.op \in {"init_user", "deposit"}
    BY <2>1 DEF Due
  <2>2. CASE k.op = "withdraw" /\ Withdraw(u, k.amount)
    <3>1. u \in Users /\ k.amount \in [Currency -> Amounts]
      BY <2>2 DEF CommandOK, UserOps
    <3>2. PICK c \in Currency : k.amount[c] > 0 /\ k.amount[c] <= escrow[u][c]
      BY <2>2 DEF Withdraw
    <3>3. k.amount[c] \in Nat /\ escrow[u][c] \in Nat
      <4>1. k.amount[c] \in Amounts /\ escrow[u][c] \in 0..MAX_U64
        BY <3>1 DEF TypeOK, EscrowTypeOK
      <4>2. Amounts \subseteq Nat /\ 0..MAX_U64 \subseteq Nat
        BY EscrowAssumption, TeamAssumption
      <4> QED BY <4>1, <4>2
    <3>4. escrow[u][c] > 0
      <4> HIDE DEF k, u
      <4> QED BY <3>2, <3>3
    <3> QED BY <2>2, <3>4 DEF Due
  <2> QED BY <1>2, <2>1, <2>2 DEF RunUser
<1>3. CASE RunSale(tx, k)
  <2>1. CASE k.op \in {"init_sell_data", "list"}
    BY <2>1 DEF Due
  <2>2. CASE k.op = "delist" /\ Delist(u, n)
    BY <2>2 DEF Due, Delist
  <2>3. CASE k.op = "purchase" /\ RunPurchase(tx, k)
    BY <2>3 DEF Due, RunPurchase, TeamGiven, Purchase
  <2> QED BY <1>3, <2>1, <2>2, <2>3 DEF RunSale
<1>4. CASE RunOffer(tx, k)
  <2>1. CASE k.op \in {"init_offer_data", "make_offer", "cancel_offer"}
    BY <2>1 DEF Due
  <2>2. CASE k.op = "accept_offer" /\ RunAcceptOffer(tx, k)
    <3>1. Listed(n) /\ offer[n][k.buyer].active = 1
      BY <2>2 DEF RunAcceptOffer, AcceptOffer
    <3>2. tx.team.wallets = [i \in LiveSlots |-> team_treasury[i]]
      BY <2>2 DEF RunAcceptOffer, TeamGiven
    <3> QED BY <2>2, <3>1, <3>2 DEF Due
  <2> QED BY <1>4, <2>1, <2>2 DEF RunOffer
<1>5. CASE RunAuction(tx, k)
  <2>1. CASE k.op \in {"init_auction_data", "create_auction", "place_bid"}
    BY <2>1 DEF Due
  <2>2. CASE k.op = "claim_auction" /\ RunClaimAuction(tx, k)
    <3>1. Auctioned(n) /\ u = auction[n].last_bidder
      BY <2>2 DEF RunClaimAuction, ClaimAuction
    <3>2. HasBid(n)
      BY <2>2, <3>1, LedgerAssumption DEF CommandOK, NftOps, HasBid
    <3>3. tx.team.wallets = [i \in LiveSlots |-> team_treasury[i]]
      BY <2>2 DEF RunClaimAuction, TeamGiven
    <3> QED BY <2>2, <3>1, <3>2, <3>3 DEF Due
  <2>3. CASE k.op = "cancel_auction" /\ CancelAuction(u, n)
    BY <2>3 DEF Due, CancelAuction
  <2> QED BY <1>5, <2>1, <2>2, <2>3 DEF RunAuction
<1> QED BY <1>1, <1>2, <1>3, <1>4, <1>5 DEF Run

\* What is left out of NeverShortOfAccounts cannot run: a listing or an auction that was
\* built while the program held the NFT names an account of the vault that is not there
\* whenever somebody has the NFT to bring in.
THEOREM BuiltInCustodyNeverRuns ==
    ASSUME VaultAccountInCustody, NEW tx, CommandOK(tx.by, tx.cmd), NamesVault(tx),
           Executes(tx)
    PROVE  ~ BuiltInCustody(tx)
<1> DEFINE n == tx.cmd.nft
<1>1. SUFFICES ASSUME BuiltInCustody(tx) PROVE FALSE
  OBVIOUS
<1>2. <<Vault, n>> \in accounts
  BY <1>1 DEF Executes, NamesVault, BuiltInCustody, BringsIn
<1>3. n \in NFTs /\ tx.by \in Users
  BY <1>1 DEF BuiltInCustody, BringsIn, CommandOK, NftOps
<1>4. holder[n] = tx.by
  <2>1. RunSale(tx, tx.cmd) \/ RunAuction(tx, tx.cmd)
    BY <1>1 DEF Executes, Run, RunAdmin, RunUser, RunOffer, BuiltInCustody, BringsIn
  <2>2. CASE RunSale(tx, tx.cmd)
    BY <1>1, <2>2 DEF RunSale, List, BuiltInCustody, BringsIn
  <2>3. CASE RunAuction(tx, tx.cmd)
    BY <1>1, <2>3 DEF RunAuction, CreateAuction, BuiltInCustody, BringsIn
  <2> QED BY <2>1, <2>2, <2>3
<1> QED BY <1>2, <1>3, <1>4, LedgerAssumption DEF VaultAccountInCustody

\* The accounts that a builder takes to exist do, whenever the transaction is due.
LEMMA TakenExist ==
    ASSUME Custody, AccountsInv, NEW tx, CommandOK(tx.by, tx.cmd), Due(tx),
           NEW a, TakenToExist(tx, a)
    PROVE  a \in accounts
<1> DEFINE k == tx.cmd
           n == k.nft
<1>1. VaultAccountInCustody /\ EscrowOpen /\ TeamHasAccounts
  BY DEF AccountsInv
<1>2. CASE k.op \in {"delist", "cancel_auction"} \cup SaleOps /\ a = <<Vault, n>>
  <2>1. n \in NFTs /\ (Listed(n) \/ Auctioned(n))
    BY <1>2 DEF Due, SaleOps, CommandOK, NftOps
  <2> QED BY <1>1, <1>2, <2>1 DEF Custody, VaultAccountInCustody
<1>3. CASE k.op \in {"withdraw", "accept_offer", "claim_auction"} /\ a = <<EscrowVault, ABB>>
  <2>1. CASE k.op = "withdraw"
    <3>1. tx.by \in Users /\ \E c \in Currency : escrow[tx.by][c] > 0
      BY <2>1 DEF Due, CommandOK, UserOps
    <3> QED BY <1>1, <1>3, <3>1 DEF EscrowOpen, Standing
  <2>2. CASE k.op = "accept_offer"
    <3>1. n \in NFTs /\ k.buyer \in Users /\ offer[n][k.buyer].active = 1
      BY <2>2 DEF Due, CommandOK, NftOps
    <3> QED BY <1>1, <1>3, <3>1 DEF EscrowOpen, Standing
  <2>3. CASE k.op = "claim_auction"
    <3>1. n \in NFTs /\ Auctioned(n) /\ HasBid(n)
      BY <2>3 DEF Due, CommandOK, NftOps
    <3> QED BY <1>1, <1>3, <3>1 DEF EscrowOpen, Standing
  <2> QED BY <1>3, <2>1, <2>2, <2>3
<1>4. CASE k.op \in SaleOps /\ a \in TeamUses(tx.team, TRUE)
  <2>1. tx.team.wallets = [i \in LiveSlots |-> team_treasury[i]]
    BY <1>4 DEF Due, SaleOps
  <2>2. TeamUses(tx.team, TRUE) = {<<tx.team.wallets[i], ABB>> : i \in DOMAIN tx.team.wallets}
    BY DEF TeamUses
  <2>3. PICK i \in LiveSlots : a = <<team_treasury[i], ABB>>
    BY <1>4, <2>1, <2>2
  <2> QED BY <1>1, <2>3 DEF TeamHasAccounts, Team
<1> QED BY <1>2, <1>3, <1>4 DEF TakenToExist

\* Through all that clients build early and the network runs late, the vault has an account
\* for an NFT exactly while it holds it: the accounts that sales close and listings create
\* again are never left open or closed too soon.
THEOREM VaultAccountsFollowCustody == ClientSpec => []VaultAccountInCustody
<1>1. AccountsInv => VaultAccountInCustody
  BY DEF AccountsInv
<1> QED BY <1>1, AccountsCorrect, PTL

\* No transaction that is due fails for want of a token account, of the signer, the other
\* party, the vaults or the treasuries, however late it arrives, whatever happened since it
\* was built and whatever account of the vault was closed in between; but for a listing or
\* an auction that was built while the program held the NFT.
THEOREM ClientsNeverShortOfAccounts == ClientSpec => []NeverShortOfAccounts
<1>1. Custody /\ ClientInv /\ AccountsInv => NeverShortOfAccounts
  <2> SUFFICES ASSUME Custody, ClientInv, AccountsInv,
                      NEW tx \in sent, ~ BuiltInCustody(tx), Due(tx),
                      NEW a \in tx.uses
               PROVE  a \in accounts \cup tx.creates
    BY DEF NeverShortOfAccounts
  <2>1. CommandOK(tx.by, tx.cmd)
    BY DEF ClientInv, Sendable
  <2>2. a \in Standing \cup tx.creates \/ TakenToExist(tx, a)
    BY DEF AccountsInv, WellMade, Covered
  <2> QED BY <2>1, <2>2, TakenExist DEF Standing
<1> QED BY <1>1, AccountsCorrect, SafeWithClients, PTL
=============================================================================
