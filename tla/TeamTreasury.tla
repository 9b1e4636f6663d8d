---------------------------- MODULE TeamTreasury ----------------------------
(***************************************************************************)
(* The global pool of the marketplace: its administrator, the two market   *)
(* fees, and the table of team treasury wallets that share the fees.  One  *)
(* action per instruction of the program that writes the GlobalPool        *)
(* account; an instruction that fails changes nothing and is no step.      *)
(***************************************************************************)
EXTENDS Integers

CONSTANTS
    Admins,      \* wallets that may sign an administrator's instruction
    Treasuries,  \* wallets an administrator may name as a team treasury
    Default,     \* Pubkey::default(), the all-zero key of an empty field
    Fees,        \* fee values that update_fee is called with
    Rates,       \* distribution rates that add_team_treasury is called with
    PERMYRIAD,   \* the whole that fees and rates are parts of (10_000 in the code)
    MAX_TEAM,    \* the most team treasuries there can be (8 in the code)
    MAX_U64      \* the largest value of a u64

ASSUME TeamAssumption ==
    /\ PERMYRIAD \in Nat \ {0}
    /\ MAX_U64 \in Nat
    /\ MAX_TEAM \in 1..8
    /\ Fees \subseteq 0..MAX_U64
    /\ Rates \subseteq 0..MAX_U64
    /\ Default \notin Admins

VARIABLES super_admin, market_fee, team_count, team_treasury, treasury_rate

globalVars == <<super_admin, market_fee, team_count, team_treasury, treasury_rate>>

\* The two means of payment; the code's by_token flag selects one of them.
Currency == {"sol", "token"}

\* The places of the arrays team_treasury and treasury_rate.
Slots == 0..7

Initialized == super_admin # Default

-----------------------------------------------------------------------------
\* The places in use: the first team_count of the arrays.
LiveSlots == {i \in Slots : i < team_count}

Team == {team_treasury[i] : i \in LiveSlots}

\* The sum of one number per place of the table.
SumSlots(f) == f[0] + f[1] + f[2] + f[3] + f[4] + f[5] + f[6] + f[7]

LiveRate == [i \in Slots |-> IF i < team_count THEN treasury_rate[i] ELSE 0]

RateSum == SumSlots(LiveRate)

-----------------------------------------------------------------------------
(* The split of a price.  Division is the integer division of u64.          *)

FeeAmount(price, c) == (price * market_fee[c]) \div PERMYRIAD

\* The part of a price that goes to the seller.
Proceeds(price, c) == price - FeeAmount(price, c)

\* WRONG on purpose (mutant of Share): rounds each share up.
ShareRoundedUp(fee, i) == (fee * treasury_rate[i] + PERMYRIAD - 1) \div PERMYRIAD

\* The part of a fee that goes to the treasury in place i.
Share(fee, i) == (fee * treasury_rate[i]) \div PERMYRIAD

\* What all the treasuries together receive of a fee.
SharesPaid(fee) ==
    SumSlots([i \in Slots |-> IF i < team_count THEN Share(fee, i) ELSE 0])

\* What wallet w receives of a fee as a team treasury.
TreasuryCredit(w, fee) ==
    SumSlots([i \in Slots |-> IF i < team_count /\ team_treasury[i] = w
                              THEN Share(fee, i) ELSE 0])

\* What a settlement requires of the global pool: there is somebody to share the
\* fee, and the checked product that gives the fee does not overflow.
CanSettle(price, c) ==
    /\ team_count > 0
    /\ price * market_fee[c] <= MAX_U64

-----------------------------------------------------------------------------
TeamInit ==
    /\ super_admin = Default
    /\ market_fee = [c \in Currency |-> 0]
    /\ team_count = 0
    /\ team_treasury = [i \in Slots |-> Default]
    /\ treasury_rate = [i \in Slots |-> 0]

\* initialize: the account is created once, and whoever creates it administers it.
Initialize(admin) ==
    /\ ~ Initialized
    /\ super_admin' = admin
    /\ UNCHANGED <<market_fee, team_count, team_treasury, treasury_rate>>

\* update_fee
UpdateFee(admin, sol_fee, token_fee) ==
    /\ sol_fee > 0 /\ token_fee > 0
    /\ super_admin = admin
    /\ sol_fee < PERMYRIAD /\ token_fee < PERMYRIAD
    /\ market_fee' = [c \in Currency |-> IF c = "sol" THEN sol_fee ELSE token_fee]
    /\ UNCHANGED <<super_admin, team_count, team_treasury, treasury_rate>>

\* WRONG on purpose (mutant of AddTeamTreasury): off by one at the full table.
AddTeamTreasuryPastMax(admin, address, rate) ==
    /\ super_admin = admin
    /\ team_count <= MAX_TEAM
    /\ rate <= PERMYRIAD /\ rate > 0
    /\ address \notin Team
    /\ RateSum + rate <= PERMYRIAD
    /\ team_treasury' = [team_treasury EXCEPT ![team_count] = address]
    /\ treasury_rate' = [treasury_rate EXCEPT ![team_count] = rate]
    /\ team_count' = team_count + 1
    /\ UNCHANGED <<super_admin, market_fee>>

\* WRONG on purpose (mutant of AddTeamTreasury): the sum leaves the new rate out.
AddTeamTreasuryStaleSum(admin, address, rate) ==
    /\ super_admin = admin
    /\ team_count < MAX_TEAM
    /\ rate <= PERMYRIAD /\ rate > 0
    /\ address \notin Team
    /\ RateSum <= PERMYRIAD
    /\ team_treasury' = [team_treasury EXCEPT ![team_count] = address]
    /\ treasury_rate' = [treasury_rate EXCEPT ![team_count] = rate]
    /\ team_count' = team_count + 1
    /\ UNCHANGED <<super_admin, market_fee>>

\* add_team_treasury: the new wallet takes the first free place.
AddTeamTreasury(admin, address, rate) ==
    /\ super_admin = admin
    /\ team_count < MAX_TEAM
    /\ rate <= PERMYRIAD /\ rate > 0
    /\ address \notin Team
    /\ RateSum + rate <= PERMYRIAD
    /\ team_treasury' = [team_treasury EXCEPT ![team_count] = address]
    /\ treasury_rate' = [treasury_rate EXCEPT ![team_count] = rate]
    /\ team_count' = team_count + 1
    /\ UNCHANGED <<super_admin, market_fee>>

\* WRONG on purpose (mutant of RemoveTeamTreasury): the rate does not move with
\* its wallet.
RemoveTeamTreasuryKeepsRate(admin, address) ==
    /\ super_admin = admin
    /\ team_count > 0
    /\ \E i \in LiveSlots :
        /\ team_treasury[i] = address
        /\ team_treasury' = [team_treasury EXCEPT ![i] = team_treasury[team_count - 1],
                                                 ![team_count - 1] = Default]
    /\ team_count' = team_count - 1
    /\ UNCHANGED <<super_admin, market_fee, treasury_rate>>

\* WRONG on purpose (mutant of RemoveTeamTreasury): the loop ends at its first match.
RemoveTeamTreasuryOnce(admin, address) ==
    /\ super_admin = admin
    /\ team_count > 0
    /\ \E i \in LiveSlots :
        LET last  == team_count - 1
            inner == i < last
        IN  /\ team_treasury[i] = address
            /\ team_treasury' =
                 IF inner
                 THEN [team_treasury EXCEPT ![i] = team_treasury[last], ![last] = Default]
                 ELSE team_treasury
            /\ treasury_rate' =
                 IF inner
                 THEN [treasury_rate EXCEPT ![i] = treasury_rate[last], ![last] = 0]
                 ELSE treasury_rate
            /\ team_count' = last
    /\ UNCHANGED <<super_admin, market_fee>>

\* remove_team_treasury: the last entry moves into the place of the removed one
\* and its old place is cleared; the last entry itself is only cut off.  The loop
\* runs over the places that were in use when it began, so it meets the place it
\* has just cleared: a call that removes the default key from an earlier place
\* finds that key again there and cuts off one more entry.
RemoveTeamTreasury(admin, address) ==
    /\ super_admin = admin
    /\ team_count > 0
    /\ \E i \in LiveSlots :
        LET last  == team_count - 1
            inner == i < last
        IN  /\ team_treasury[i] = address
            /\ team_treasury' =
                 IF inner
                 THEN [team_treasury EXCEPT ![i] = team_treasury[last], ![last] = Default]
                 ELSE team_treasury
            /\ treasury_rate' =
                 IF inner
                 THEN [treasury_rate EXCEPT ![i] = treasury_rate[last], ![last] = 0]
                 ELSE treasury_rate
            /\ team_count' = IF inner /\ address = Default THEN last - 1 ELSE last
    /\ UNCHANGED <<super_admin, market_fee>>

\* The loop of remove_team_treasury as it is written: what iteration i makes of the
\* count and the arrays, and what is left of them after the iterations over the places
\* in use when the loop began.
RemoveBody(address, i, s) ==
    LET last == s.count - 1
    IN  IF s.treasury[i] # address
        THEN s
        ELSE [count    |-> last,
              treasury |-> IF i < last
                           THEN [s.treasury EXCEPT ![i] = s.treasury[last], ![last] = Default]
                           ELSE s.treasury,
              rate     |-> IF i < last
                           THEN [s.rate EXCEPT ![i] = s.rate[last], ![last] = 0]
                           ELSE s.rate]

RemoveLoop(address) ==
    LET after[i \in 0..team_count] ==
            IF i = 0
            THEN [count |-> team_count, treasury |-> team_treasury, rate |-> treasury_rate]
            ELSE RemoveBody(address, i - 1, after[i - 1])
    IN  after[team_count]

TeamNext ==
    \E admin \in Admins :
        \/ Initialize(admin)
        \/ \E sol_fee, token_fee \in Fees : UpdateFee(admin, sol_fee, token_fee)
        \/ \E address \in Treasuries :
            \/ \E rate \in Rates : AddTeamTreasury(admin, address, rate)
            \/ RemoveTeamTreasury(admin, address)

TeamSpec == TeamInit /\ [][TeamNext]_globalVars

-----------------------------------------------------------------------------
\* The types of the GlobalPool account (account.rs): fees below the whole, at
\* most MAX_TEAM treasuries.
TeamTypeOK ==
    /\ super_admin \in Admins \cup {Default}
    /\ market_fee \in [Currency -> 0..PERMYRIAD - 1]
    /\ team_count \in 0..MAX_TEAM
    /\ team_treasury \in [Slots -> Treasuries \cup {Default}]
    /\ treasury_rate \in [Slots -> 0..PERMYRIAD]

\* No wallet is in the table twice.
TeamDistinct ==
    \A i, j \in LiveSlots : team_treasury[i] = team_treasury[j] => i = j

\* Through every sequence of additions and swap-removals the table holds distinct
\* wallets with positive rates that add up to no more than the whole, although
\* the removals leave entries behind the count that a later count could expose.
TeamWellFormed ==
    /\ TeamDistinct
    /\ \A i \in LiveSlots : treasury_rate[i] > 0
    /\ RateSum <= PERMYRIAD

\* The treasuries never receive more than the fee, although each share is rounded
\* by itself, and no product of a fee and a rate passes u64: the multiplication
\* that purchase leaves unchecked (lib.rs:684) cannot wrap.
SharesWithinFee ==
    \A c \in Currency, price \in 0..MAX_U64 :
        CanSettle(price, c) =>
            /\ SharesPaid(FeeAmount(price, c)) <= FeeAmount(price, c)
            /\ \A i \in LiveSlots : FeeAmount(price, c) * treasury_rate[i] <= MAX_U64

\* Nobody but the wallet in place i leaves the table in this step, and everybody
\* else keeps the rate they had.
OthersStay(i) ==
    \A j \in LiveSlots \ {i} :
        \E k \in LiveSlots' : /\ team_treasury'[k] = team_treasury[j]
                              /\ treasury_rate'[k] = treasury_rate[j]

\* remove_team_treasury takes out the wallet it was given and no other (README.md:62,
\* "Admin able to remove the team treasury wallet").
RemoveKeepsOthers ==
    [][\A i \in LiveSlots : team_treasury[i] \notin Team' => OthersStay(i)]_globalVars

\* The same while the default key is not in the table: swap-removal, a refilled
\* table and the stale entries behind the count never cost another wallet its
\* place or its rate.
RemoveWalletKeepsOthers ==
    [][ Default \notin Team =>
          \A i \in LiveSlots : team_treasury[i] \notin Team' => OthersStay(i) ]_globalVars

\* A removal leaves exactly what the loop of the code leaves, the default key
\* included: the closed form of the action and the loop agree on every table that
\* can be reached.
RemoveMatchesLoop ==
    [][ \A address \in Treasuries, admin \in Admins :
            RemoveTeamTreasury(admin, address)
              => RemoveLoop(address) = [count    |-> team_count',
                                        treasury |-> team_treasury',
                                        rate     |-> treasury_rate'] ]_globalVars
=============================================================================
