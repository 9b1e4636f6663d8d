# A TLA+ model of the Astro Marketplace

The repository is a Solana program (`programs/Astro_Marketplace/src/lib.rs`, Rust
with Anchor) that lets users sell NFTs for SOL or for ABB tokens at a fixed
price, by offers below that price, or by auction, with a TypeScript client
(`lib/`, `cli/`) and integration tests (`tests/`). These modules model the
program: all of its 20 instructions, what they do to every account, and the
transfers they call; and the client: what its builders read and put into a
transaction, what its commands check, send and wait for, and a network that
delays, loses and drops transactions. TLC checks small instances, and TLAPS proves
some of the results for all values of the constants.

## 1. Inventory

| part | state | operations | source |
|---|---|---|---|
| Global pool | `GlobalPool`: administrator, two market fees, table of up to 8 team treasuries with rates | `initialize`, `update_fee`, `add_team_treasury`, `remove_team_treasury` | lib.rs:31-211 |
| User pools | `UserData` per wallet: two escrow balances, two traded volumes | `init_user_pool`, `deposit_to_escrow`, `withdraw_from_escrow` | lib.rs:216-227, 745-928 |
| Listings | `SellData` per mint: seller, two prices, date, `active` | `init_sell_data`, `list_nft_for_sale`, `delist_nft`, `purchase` | lib.rs:232-735 |
| Offers | `OfferData` per mint and buyer: price, date of the listing, currency, `active` | `init_offer_data`, `make_offer`, `cancel_offer`, `accept_offer` | lib.rs:936-1566 |
| Auctions | `AuctionData` per mint: creator, start price, increase, currency, end, last bidder, highest bid, `status` | `init_auction_data`, `create_auction`, `place_bid`, `claim_auction`, `cancel_auction` | lib.rs:1574-2232 |
| Ledger (external) | wallets, one escrow vault per currency, NFT token accounts, the clock | transfers that the instructions call | system program, SPL token, Clock |
| Client library | none of its own; reads accounts and builds one transaction | 20 transaction builders, getters | lib/scripts.ts, lib/utils.ts |
| Command line | one process per wallet: the command it is in, the transaction it waits for | 17 commands that change state | cli/command.ts, cli/scripts.ts |
| Network (external) | transactions on their way, associated token accounts | a transaction arrives, runs or fails, is lost, expires | Solana, SPL associated token accounts |
| IDL, errors, unused helper, tests | none | none | lib/astro_marketplace.ts, error.rs, utils.rs, tests/ |

How they interact. Instructions share accounts and call no other part of the
program. The global pool is read by every sale for the fee and its distribution.
The user pools are written by deposits, offers and the three sales. One vault
per currency holds the escrow of all users *and* the highest bid of every
auction; nothing in the program records what the vault holds, so whether it
covers all balances and bids is a property of all instructions together. Listing
and auction of an NFT know nothing of each other: `list_nft_for_sale` and
`create_auction` look neither at `active` nor at `status`. What keeps an NFT out
of two sales is only that the program already holds its token.

What is hard here. A transaction is atomic: an instruction runs to its end or
leaves no trace, and there are no crashes inside one. Difficult are the orders in
which many users' transactions arrive: a bid, a claim and a cancellation around
the end of an auction; offers that outlive their listing; a delisting and a new
listing in the same second; a removal of a treasury between two sales; a seller
who is also the buyer, so that one pool account is loaded twice and written back
twice. Then the arithmetic: a fee and up to eight shares, each rounded down.

The client adds what the program does not have. A transaction names what its
builder read: the seller, the bidder to refund, the treasuries, the token accounts
that were missing. By the time it runs all of them may be different; the vault's account
for an NFT is created by the client that lists it and closed by the program with every
exit from custody. Three commands send
a transaction that creates an account before the one that needs it, and may stop in
between. A command that gives up waiting does not take its transaction back: the
user gives it again and both may run. And some things are checked by the client alone:
the program lists and auctions for a seller without a user pool and asks for the
pool when the sale is settled; it adds a treasury that cannot receive tokens and
then fails every sale in tokens.

What makes each part correct:

- Global pool: the table holds distinct wallets with positive rates that add up
  to at most the whole, through every sequence of additions and swap-removals; a
  removal touches nobody else; the shares of a fee are within the fee.
- Escrow: the vault covers all balances and bids; only owners take money out.
- Listings, offers, auctions: an NFT is held exactly while it is for sale, in one
  sale at a time; it leaves for the depositor or in a fair exchange; an auction is
  honoured at its deadline; nobody loses money without getting an NFT; the team gets its
  shares of every sale, by the table of that moment, and nothing else.
- Client: whatever was read too late, the program's own rules decide what happens;
  a transaction that should run does not lack an account; the vault has an account for
  exactly the NFTs it holds; a command that stops half-way
  can be given again; traders have pools; and an auction that can be settled is
  settled in the end.

## 2. Modules

Each module of the program and of the client EXTENDS the one before it, as each part
uses the ones below it.

| module | models |
|---|---|
| `TeamTreasury` | the `GlobalPool` account, its four instructions, the split of a price (`FeeAmount`, `Proceeds`, `Share`, ...) |
| `Ledger` | clock, holders of the NFTs, wallets, vault; payments into and out of the vault; a sale paid from the vault or from a wallet |
| `Escrow` | the `UserData` accounts; deposit and withdrawal; traded volumes |
| `Listing` | the `SellData` accounts |
| `Offers` | the `OfferData` accounts |
| `Auctions` | the `AuctionData` accounts |
| `Marketplace` | `Init`, `Next`, `Spec` of the whole program and its properties |
| `Queries` | what the library reads of the program's accounts |
| `Builders` | the transaction builders and the token accounts they look for and create |
| `Network` | a transaction's instruction with the accounts it names; arrival, failure, loss, expiry |
| `Cli` | processes and commands: checks, first and second transactions, awaits |
| `Client` | `ClientInit`, `ClientNext`, `ClientSpec`, `Fairness` of the whole system and its properties |
| `Exchange`, `ExchangeRefinement` | what users are promised, and the mapping under which `Marketplace` implements it |
| `MCTeamTreasury`, `MCMarketplace`, `MCClient` | instances for TLC |
| `TeamTreasuryProofs` | theorems about the global pool |
| `MarketplaceProofs`, `SolvencyProofs`, `WealthProofs`, `TeamShareProofs` | theorems about the program: types, custody, auctions; the vault; users' wealth and fair exchange; the team's shares |
| `RefinementProofs` | the program implements `Exchange` |
| `ClientProofs`, `ClientAccountProofs` | theorems about the program with its clients |

State and actions. Each account type of account.rs is one function variable with
the field names of the code; a second variable says which accounts exist
(`user_pools`, `sells`, `offers`, `auctions`), because every other instruction
needs them. The pairs `_sol` / `_token` of the code are functions on
`Currency = {"sol", "token"}`, and `by_token` is a member of it. One action is one
instruction, with all the transfers it calls; its guards are the `require`s, the
account constraints, the overflow panics and the failures of the transfers. An
instruction that fails is no step. Guards that Anchor satisfies by construction
(addresses and bumps of derived accounts, owners of token accounts) leave nothing to
model; that the accounts a transaction names are those the instruction wants (seller,
displaced bidder, treasuries in the table's order) is a guard in `Network`.

- `remove_team_treasury` is modelled by its effect. `TeamTreasury` also has the loop as
  the code writes it (`RemoveBody`, `RemoveLoop`); that they agree, the default key
  included, is a property (`RemoveMatchesLoop`), checked and proved.
- `accept_offer` and `claim_auction` pay through `SaleFromVault`, `purchase`
  through `SaleFromWallet`; both take the proceeds and one rounded share per
  place of the table, and not the fee.
- Both pools of a trade with oneself are the same account. Anchor writes the
  accounts back in the order of the struct, so the last copy stays; `AddVolume` and
  `AcceptOffer` say what that leaves.
- Multi-argument inputs come from constants (`Prices`, `BidPrices`, ...). A
  definition marked `WRONG on purpose` is a mutant: the action with one plausible
  bug, used to see that a property notices it. No specification refers to these.

The client. A builder is a set of transactions: the one that it returns, or none when the
code throws. A transaction is a record of its signer, the instruction with its
arguments, the other party and the treasuries that it names, the token accounts it
creates and uses, and the time of the block it is tied to. `Executes` runs all of it or
nothing: an account that it creates must be missing, one that it uses must exist or
be created, and `Run` must be enabled; the five instructions that end custody close the
vault's account for the NFT (`ExitOps`, `Closes`; lib.rs:426-441, 717-732, 1469-1484,
2074-2089, 2190-2205). `Fails` is the rest: the transaction is in a block and
nothing has changed. An instruction that only creates a data account fails because it is
there (`DataExists`), and every other one when `Executes` is not enabled. A command is `Commands[u]`'s choice; it sends its transaction
(`Send`), sends a first one that creates an account (`SendFirst`, the process is then
"init" until it is confirmed), or reads the treasuries and awaits before it builds
(`Await`); `Continue` is the rest of the command. `Confirmed` does what
`confirmTransaction` does: it tells that the transaction is in a block, and not
whether it failed there. A process gives up when its transaction can no longer
arrive, and, as a fault, before (`TimesOut`); it may stop between its two
transactions (`Dies`).

- A builder reads the chain in one step, and not account by account. What may
  change between two of its reads changes also between reading and running.
- A wallet's ABB tokens lie in its associated token account. The holder of an NFT
  may keep it elsewhere as long as he has no associated account for it.
- The program's check of a transaction before it is sent (preflight) is left out; a
  transaction that it would stop fails in its block instead.
- `Typed` adds numbers with a minus sign: `parseFloat` takes them, and the encoding of an
  unsigned argument drops the sign (`u64`). Only some builders and commands refuse them.
- `TreasuryAccounts` keeps the one place where a builder changes its caller's array:
  the level counts how often each address was replaced by its token account.
  The commands read the array anew each time; a front end that keeps it would name
  token accounts of token accounts, and `TeamGiven` would not hold.

The abstract specification. `Exchange` knows owners, what is for sale, wealth and fees.
Four kinds of step: to put up for sale, to withdraw, to give away what is not for
sale, and to sell: the owner receives a price less the fee, in full, and the buyer pays
at most the price. `ExchangeRefinement` maps the program to it: an NFT in custody belongs
to who deposited it, wealth is wallet, escrow and standing bids together. Deposits,
withdrawals, offers, bids and refunds then change nothing at all.

Assumptions. Users and treasuries are different wallets, and nobody signs with the
all-zero key. NFTs change hands outside only between users. Money reaches the
vault only through the program.

Abstracted. Rent, and with it whoever cannot pay for it: that an account is there already is
the only reason for its creation to fail. The wallet's own transaction fee; metadata and `collection` (copied into `SellData` and read by the
client's listing only), `last_bid_date` (written, never read), log messages,
which error a failure returns, addresses and bumps.

## 3. Properties and runs

| property | says |
|---|---|
| `TeamTypeOK`, `TypeOK` | types of all accounts: no balance below zero, no checked sum above u64, fees below the whole |
| `TeamWellFormed` | distinct wallets, positive rates, sum within the whole |
| `SharesWithinFee` | the rounded shares are within the fee, and the unchecked product of lib.rs:684 cannot wrap |
| `RemoveMatchesLoop` | the modelled removal is the loop of the code |
| `RemoveWalletKeepsOthers` | without the default key in the table nobody else loses place or rate |
| `Custody` | the program holds an NFT exactly while one listing or one auction of it is open |
| `Solvency` | the vault covers all escrow balances and all standing bids |
| `NoLossWithoutNft` | a user's wealth (wallet, escrow, standing bids) falls only in a step that gives him an NFT |
| `EscrowServesOwner` | what leaves a user's escrow goes to his wallet, or is the price of his standing offer for an NFT that comes to him, and the offer is spent |
| `FairExchange` | an NFT goes back to its depositor, or the depositor gets an agreed price less the fee, in the agreed currency, and the buyer gives no more than the price |
| `TeamIsPaid` | a sale at price p pays every treasury in the table its own rate of p's fee, rounded down, in the sale's currency; nothing else pays a treasury |
| `AuctionHonoured` | an auctioned NFT leaves only after the end, to the highest bidder, or to the creator if there is none |
| `TermsStand` | while a sale is open nobody rewrites a listing, and of an auction only the highest bid changes, before the end and by at least the increase |
| `ImplementsExchange` | the program implements `Exchange`: no step but a sale changes anybody's wealth, what is for sale changes owner in no other way, and prices and fees explain every change |
| `ClientTypeOK` | transactions and processes have their types; a process waits only for a transaction that its own wallet signed |
| `AccountBeforeMain` | the second transaction of a command is on its way only when the account that it writes exists |
| `NeverShortOfAccounts` | no transaction that is due (`Due`: its sale, offer, balance and treasuries are there) fails for want of a token account |
| `VaultAccountInCustody` | the vault has an account for an NFT exactly while it holds it |
| `TradersHavePools` | sellers, creators and highest bidders have user pools |
| `TeamHasAccounts` | every team treasury can be paid in tokens |
| `AuctionsEnd` | every auction is settled in the end, unless its settlement cannot be computed |

`NeverShortOfAccounts` has one exception, `BuiltInCustody`: a `list` or `create_auction` that
was built while the program held the NFT found the vault's account there and does not
create it. That account is closed before anybody has the NFT to bring in, so the
transaction fails whenever it arrives and has to be given again
(`BuiltInCustodyNeverRuns`, proved). `Due` asks for less than the program does, so the
property says more than that no transaction that could run fails for this reason.

| run | instance | result |
|---|---|---|
| `team` | 2 signers, 3 wallets and the default key, a table of 3, the whole is 4 | all hold |
| `sale` | 2 users, 1 NFT, 1 treasury with half of a fee of three quarters; deposits, listings, purchases, offers | all hold |
| `auction` | 3 users, 1 NFT, both currencies, 2 seconds; deposits and bids in the same vault | all hold |
| `genesis` | from the empty program: setup, listings, offers, auctions of 1 NFT by 2 users; the three ways to sell follow and meet each other | all hold |
| `client_setup` | from the empty program: an administrator and a user, numbers of either sign, blocks that live two seconds, 1 fault | all hold |
| `client_trade` | 3 users, 1 NFT, no data accounts at first, everything in tokens: a seller without a pool, a buyer, and a later owner; offers, purchases; transactions expire, 1 more fault | all hold |
| `client_auction` | 3 users, 1 NFT: a creator without a pool and two bidders who outbid each other; transactions expire when the auction ends | all hold |
| `team_default_key`, `vault_exact`, `stale_offer`, `token_volume`, `high_bid` | see section 4 | violated |

Bounds. The table of 3 has a first, an inner and a last place, so every case of the
swap-removal and a refilled place happen; `PERMYRIAD = 4` makes both rounding
and a full sum happen with few rates. Prices are chosen so that fees, shares and a
remainder are non-zero; `MAX_U64` is just large enough for the trades and small
enough to be reached by the volumes. Two users let a seller accept his own offer and
buy from himself; three users let two rivals outbid each other. Clock values 0 to 2
contain before, at and after an end date; the clock may stand still while many
transactions run. `genesis` takes only zero for deposits (the sums of
money come from offers and bids) so that the setup, the listings and the auctions
interleave in full. `auction` allows deadlock: when the clock is at its bound and all
money is in places where it cannot move, nothing is left to do. `sale`, `auction`
and the three violated runs of the whole program start after the setup that the
repository's README.md:36-41 asks for (`ReadyInit`), which `genesis` reaches.

In the client's runs one second is the life of a block (`BLOCKHASH_LIFE` is 0, or 1 in
`client_setup`), so that every transaction that is on its way when the clock moves is lost,
however many there are; `MaxFaults` bounds the other faults: single transactions lost,
processes that give up early or die. One of these is enough for two transactions of one
command in flight, for a second transaction without its first, and for a retry that
meets what it retries. A user gives the same command as often as he likes. Each run starts
with only those accounts whose creation by somebody else is not in question
(`ReadyPools`, `ReadyNfts`, `ReadyHolders`). `client_auction` has no fault besides
expiry: with one the state space grows beyond what the liveness check can do in
minutes. The runs of the client allow deadlock: the clock is bounded and all processes
may be idle.

All safety and action properties of these runs, of the program and of the clients, are
proved (section 5), for any number of users, NFTs and faults. The runs show that each is
noticed to fail when the code has a plausible bug, and check what is not proved:
`AuctionsEnd`.

Fairness. `Fairness` in `Client` is what the code and its surroundings justify.

- `WF(Elapse)`: time passes.
- `WF(Continue(u))`: a process that can go on does.
- `WF(TimesOut(u))` without a fault: `confirmTransaction` ends when the transaction's block
  is too old, and the command with it.
- `WF` of the arrival of the transaction that process u waits for. This is weak: the
  transaction may expire first, which ends the obligation.
- `SF` of two commands: the highest bidder claims an ended auction and the creator cancels an
  ended one without bids, whenever their processes are idle again and again. No
  code does this by itself: the program settles nothing of its own accord, and the
  property is that users who want their money or NFT get it. It is strong since a
  process is busy during every attempt.

Nothing is assumed of the other commands: bidders need not bid, nobody needs to
trade. `AuctionsEnd` needs `TradersHavePools`: without the check of the pool in
`createAuction` the NFT and the bid would stay in custody for ever, and that is the
property's mutant.

## 4. Where the program differs from what is said of it

1. `vault_exact`. A sale paid from the vault takes the proceeds and the shares
   (lib.rs:1325-1375, 1934-1985), not the fee. What nobody has a rate in, and what
   rounding loses, stays in the vault and belongs to no balance; no instruction
   reaches it. tests/Astro_Marketplace.ts:640 expects the vault to be exactly
   0.6 SOL lower after an offer of 0.6 SOL, with a fee of 100 and a rate of 30
   permyriad. (In a purchase the rest of the fee stays with the buyer.)
2. `team_default_key`. Removing the default key from an earlier place of the table
   removes another wallet as well: the loop of lib.rs:192-207 finds the default key
   again in the place it has just cleared.
3. `stale_offer`. An offer is tied to its listing by a timestamp in seconds
   (lib.rs:1234-1238). A listing renewed in the same second at another price makes
   it acceptable although it is out of the range that `make_offer` asks for. The
   price is one that the buyer named, so `FairExchange` still holds.
4. `token_volume`. `claim_auction` adds the bid to `traded_volume`, which counts
   SOL, in a token auction too (lib.rs:1895-1906).
5. `high_bid`. `place_bid` takes any price up to u64; `claim_auction` multiplies it by
   the fee before it divides (lib.rs:1926-1932) and panics when the product passes
   u64. Such a bid cannot be claimed, and the auction cannot be cancelled because it has
   one; README.md:117 has `claim_auction` for the winner when the auction is ended.
   `Unclaimable` says when this is so, with the other causes: nobody in the table of
   treasuries, and a volume that would pass u64.

Noted, without a run: README.md:144 and 141 describe the lists of auctions and of offers
as those that are live, or active for accept now; `getAllStartedAuctions`
(lib/scripts.ts:186) lists all `AuctionData` accounts, its test of `status` being commented
out, and `getAllOffersForListedNFT` (lib/scripts.ts:113) does not look at whether the
listing of an offer is over. `purchase` carries no price: a buyer whose transaction is
late buys from the same seller at whatever price is listed by then, which no document rules
out. `createListForSellNftTx` (lib/scripts.ts:657) and `createCreateAuctionTx` (lib/scripts.ts:1186)
can be given for an NFT that is for sale, and what they build can never run. tests/Astro_Marketplace.ts:375 expects a seller to receive the
whole token price, without the fee; README.md:91 gives the range of offers as
`x1 ~ x0.5` where the code excludes the price itself and rounds the half down;
README.md:114 asks a bid to be more than the last one and the increase where the
code takes equality; README.md:108 calls `end_date` a period where the code has an
absolute time; error.rs:31 asks for less than 100% where a treasury's rate may be
the whole.

## 5. Proofs

`TeamTreasuryProofs` proves, for any sets of wallets, fees and rates, any positive
`PERMYRIAD`, any `MAX_U64` and any table of at most eight (`TeamAssumption`):

- `TeamTypeCorrect`: `TeamSpec => []TeamTypeOK`.
- `TeamAlwaysWellFormed`: `TeamSpec => []TeamWellFormed`. It is inductive together
  with the types. The lemmas `SumSlots...` say how the sum of a table changes with one
  place; the addition overwrites a place that counts for nothing, the removal
  moves one rate and clears one.
- `SharesAlwaysWithinFee`: `TeamSpec => []SharesWithinFee`. Each share times the
  whole is within fee times rate (`ShareBounds`); the sum of the rates is within
  the whole, so the sum of the shares is within the fee (`SharesWithin`). A fee times
  a rate is at most the fee times the whole, which is at most the price times the
  market fee, which the code's checked product has bounded (`ShareFits`).
- `RemovalsKeepOthers`: `TeamSpec => RemoveWalletKeepsOthers`. While the default key is not in the
  table a step that removes a wallet leaves everybody else a place with the same rate.
  `RemovalMoves` says where each entry goes: it stays, or is the last one and moves into the
  gap; `TeamDistinct` is why the removed wallet is not found twice. What the action
  says of the default key (`team_default_key`) is the one case the premise takes out.

- `RemovalIsLoop`: `TeamSpec => RemoveMatchesLoop`. `After` is in closed form what k
  iterations leave, `AfterStep` is one iteration: it leaves what it does not match, closes the
  gap, and in the end meets the place that it has cleared itself, which only the default key
  matches. That no second entry matches before needs `TeamDistinct`. The recursive function of
  the loop is one that satisfies the recursion (`IsLoop`, `LoopIsChosen`); the closed form
  shows that there is one, and going through the at most eight places one by one, that there is
  no other (`LoopResult`).

`MarketplaceProofs` proves, for any users, NFTs, prices and times, under the
assumptions of the modules:

- `TypeCorrect`: `Spec => []TypeOK`. One lemma per component; the helpers that move
  money have their own (`PayInType`, `SaleFromVaultType`, ...). A withdrawal needs the
  escrow balance, and a sale to oneself needs the proceeds that come back.
- `CustodyCorrect`: `Spec => []Custody`. `TypeOK /\ Custody` is inductive: only an
  NFT that a user holds enters custody, a user is not the vault, so by `Custody` it is
  in no sale; and whoever takes it out closes the one sale it was in.
- `AuctionsAreHonoured`: `Spec => AuctionHonoured`. By `Custody` an auctioned NFT lies in
  the vault and is not listed, so of all actions that move an NFT only the claim and
  the cancellation of its own auction can move it.
- `TermsAlwaysStand`: `Spec => TermsStand`. `list_nft_for_sale` and `create_auction` write over
  whatever is in the account. Whoever calls them holds the NFT, by `Custody` it is then in no
  sale (`HeldIsNotForSale`), so what they write over is closed. The other actions change the
  accounts of their own NFT only, and an open auction's only by a bid.

`SolvencyProofs` proves, with finitely many users and NFTs (`LedgerAssumption`):

- `ProgramImplementsTeam`: `Spec => TeamSpec`, every step of the program is a step of the
  global pool or leaves it alone; the pool's theorems are thereby theorems of the
  program.
- `SolvencyCorrect`: `Spec => []Solvency`. A sum is the cardinality of a set of pairs
  (`Total`), so that how it changes with one user or one NFT (`TotalUpdate`) follows
  from the library's theorems about finite sets. Solvency is not inductive alone: it
  needs the types, the well-formed table (a sale takes at most its price out of the
  vault, `SaleCostWithin`) and custody (a new auction cannot overwrite one whose bid
  still lies in the vault).

`WealthProofs` proves, under the same assumptions:

- `NobodyLosesWithoutNft`: `Spec => NoLossWithoutNft`, and `ExchangeIsFair`:
  `Spec => FairExchange`. Both follow from one lemma, `StepOutcome`: a step of the program
  either changes nobody's wealth and at most returns an NFT to its depositor
  (`ReturnsOnly`), or it settles one sale (`Settles`): the NFT goes to the
  buyer, the seller's wealth grows by the proceeds of an agreed price, the buyer's falls
  by something between the proceeds and that price, and nobody else's changes. Wealth is a sum
  over wallet, escrow and standing bids, so every instruction that moves money between these is
  shown to keep it (`WealthOfNone`) or to change it for the one or two users it names. Types,
  a well-formed table and custody are what the lemma needs: a user is not a
  treasury, a fee is at most its price, and a bid lies in one auction only.

- `EscrowAlwaysServes`: `Spec => EscrowServesOwner`. Only deposit, withdrawal, a new offer and
  an accepted one change a balance (`EscrowStays`). The types are all it needs: the amounts are
  naturals, and the accepted offer is the one whose price is taken, also from a seller who
  accepts his own.

`RefinementProofs` proves:

- `ProgramImplementsExchange`: `Spec => ImplementsExchange`, the refinement. By action:
  listing and creating an auction open a sale (`EntryOpensSale`), delisting and
  cancelling close it (`ReturnClosesSale`), a transfer outside gives
  (`TransferGives`), purchase, acceptance and claim sell (`SettlementSells`, from
  `Settles`), `update_fee` sets the fee, and all others are invisible
  (`SilentStep`). That the owner of an NFT in custody is its depositor needs custody:
  a mint whose listing and auction were both open would have two.

`TeamShareProofs` proves, under the same assumptions as `WealthProofs`:

- `TeamIsAlwaysPaid`: `Spec => TeamIsPaid`. What a settlement credits to a wallet is a sum over
  the places of the table. In a well-formed table a wallet has at most one place, so
  that the sum is the one share of that place (`CreditOfPlace`, `TreasurySaleCredit`), and a
  treasury is no user, so that neither the proceeds nor what the buyer pays touches it
  (`CreditPaysTeam`). A sale from the vault and one from a wallet, and the three instructions that
  settle, follow from that; every other instruction moves the money of users only
  (`UserMovesOwn`, `BidMovesUsers`, `TeamOutcome`). That the price and currency are the agreed
  ones needs custody, as in `ExchangeIsFair`.

`ClientProofs` proves, for any users, commands, numbers, losses, delays and deaths:

- `ClientsImplementProgram`: `ClientSpec => Spec`, so that every theorem of the program is one of
  the system with its clients. `Run` is made of the program's actions; what needs a proof
  is that every transaction brings a signer and arguments that they allow. The invariant `ClientInv` says of every transaction on its way, and of
  every command between its awaits, that the signer may give it and what its arguments are
  (`CommandOK`, `TypedOK`); `TypedEncodes` is why a typed number is one of the
  program's arguments when it arrives. The process, the network and time then
  change nothing of the program, and a transaction that runs is one of its steps (`RunIsNext`).
- `SafeWithClients`: `ClientSpec => [](Custody /\ Solvency)`, from the theorems of the program.
- `TradersAlwaysHavePools`: `ClientSpec => []TradersHavePools`. The pool is asked for when the
  command begins, and the listing, auction or bid runs any time later; the invariant
  carries the pool along (`PoolBehind`), since a pool is never taken away (`PoolsStay`). It
  needs the program's types.

`ClientAccountProofs` proves, for the same:

- `FairWithClients` and `ClientsImplementExchange`: all promises of `WealthProofs`,
  `MarketplaceProofs`, `TeamShareProofs` and `RefinementProofs` hold of the system with its
  clients.
- `TeamAlwaysHasAccounts`: `ClientSpec => []TeamHasAccounts`. `createAddTreasuryTx` creates
  the account only if it is missing when it looks, and the program does not look at all, so
  the property is not inductive. `AccountsInv` says in addition of every transaction on its way
  that adds a treasury that its account exists or is created by it (`WellMade`); that
  stays true since nothing closes a wallet's account for ABB tokens, and it is enough since nothing else brings a
  wallet into the team (`RunTeam`).
- `ClientTypesCorrect`: `ClientSpec => []ClientTypeOK`. Every account that a builder
  names is one of a wallet, a vault or the default key (`BuiltIsMade`, by command). This needs
  to know that the table names wallets (`TeamNamed`), that what a waiting process has read of
  it does (`TeamRead`), and that sellers, creators and bidders are users (`OwnersNamed`).

- `AccountAlwaysBeforeMain`: `ClientSpec => []AccountBeforeMain`. A command whose first
  transaction is in a block goes on without asking whether it failed there. `AccountsInv`
  says that the data account of every main transaction exists (`DataThere`), and of every process
  that waits for a first transaction that this one creates what its command needs
  (`Prepares`). When that transaction is in a block, the account is there: it was created now,
  or it was there, which is the only reason to fail (`PreparedThen`).
- `VaultAccountsFollowCustody`: `ClientSpec => []VaultAccountInCustody`. It is inductive with
  what `AccountsInv` says of every transaction on its way: of the vault's accounts for NFTs it
  creates none but that of the NFT it brings in (`CreatesOwn`), and if it brings one in it names
  that account (`NamesVault`), so that it runs only when the account is created now or there.
  `RunHolders` says which NFTs are in custody after a transaction, for all instructions;
  `ExecutesAccounts` has the same of the accounts: what is created or closed is the
  one account whose NFT comes in or leaves.
- `ClientsNeverShortOfAccounts`: `ClientSpec => []NeverShortOfAccounts`. A builder looks for most
  accounts and creates the missing ones, and takes some to exist: the vault's account of the
  NFT, the vault's tokens, the treasuries' (`TakenToExist`). `AccountsInv` has, of every
  transaction on its way, that whatever it uses is an account that stays (`Standing`: all but
  the vault's for NFTs), is created, or is one of those (`Covered`); and that a positive
  balance, a standing offer and a bid came through the vault's token account
  (`EscrowOpen`). The vault's account for an NFT may be closed and created any number of times
  while the transaction is on its way: when the transaction is due, the NFT is for
  sale, by `Custody` the program holds it, and by `VaultAccountInCustody` the account is there.
- `BuiltInCustodyNeverRuns`: what the property leaves out never runs. The account it names is
  there only while the program holds the NFT, and then nobody has it to bring in.
- `WhatRunsIsDue`: every transaction that the program runs satisfies `Due`, so
  the premise of `NeverShortOfAccounts` leaves out none of them.

No proof looks into ENABLED. Whether a transaction that is no mere creation can fail is
defined by it (`Rejected`), and the proofs hold whatever fails; that a creation fails only
because its account is there is a definition without ENABLED (`DataExists`).

Assumptions on constants. Besides types and finiteness (`TeamAssumption`, `LedgerAssumption`,
...), one says something of the world. `BuildersAssumption`: the accounts that exist before the
program are token accounts of the wallets and mints of the model, and nobody has made an
account for an NFT for the program's address before it has one to hold. TLC evaluates the assumptions of all modules that a run uses.

Only model-checked is `AuctionsEnd`, a liveness property. The five properties of section 4 are
no theorems: TLC refutes them.

Out of the prover's reach are liveness and ENABLED, induction over data (theorems with an
operator parameter) and RECURSIVE operators; the sums that proofs use are therefore
written out over the eight places (`SumSlots`) or as a cardinality (`Total`).

## 6. Not modelled, and what is left

Not modelled: the three lists of the library and the commands that only print; the
fixtures `createTokenMint` and `airdropSOL`; addresses and bumps; error codes; the
generated IDL (lib/astro_marketplace.ts, half of the TypeScript); the unused `utils.rs`;
metadata; forks of the chain and rent.

Worth doing next: two NFTs at once in one vault on reduced instances. The proofs cover any
number, the runs check the properties of money with one.
