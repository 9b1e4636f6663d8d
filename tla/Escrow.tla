------------------------------- MODULE Escrow -------------------------------
(***************************************************************************)
(* The user pools (UserData accounts): each trader's share of the escrow   *)
(* vault and traded volumes.                                               *)
(***************************************************************************)
EXTENDS Ledger

CONSTANT Amounts   \* amounts that deposits and withdrawals are called with

ASSUME EscrowAssumption == Amounts \subseteq 0..MAX_U64

VARIABLES
    user_pools,  \* the users whose pool account exists
    escrow,      \* escrow[u][c]: escrow_sol_balance and escrow_token_balance
    traded       \* traded[u][c]: traded_volume and traded_token_volume

userVars == <<user_pools, escrow, traded>>

EscrowTypeOK ==
    /\ user_pools \subseteq Users
    /\ escrow \in [Users -> [Currency -> 0..MAX_U64]]
    /\ traded \in [Users -> [Currency -> 0..MAX_U64]]

EscrowInit ==
    /\ user_pools = {}
    /\ escrow = [u \in Users |-> [c \in Currency |-> 0]]
    /\ traded = [u \in Users |-> [c \in Currency |-> 0]]

\* The traded volume of both parties grows by the price.  A user who trades with
\* himself has one pool: it is read twice and the copy written last wins, so the
\* price counts once.
AddVolume(parties, c, price) ==
    /\ \A u \in parties : traded[u][c] + price <= MAX_U64
    /\ traded' = [u \in Users |-> IF u \in parties
                                  THEN [traded[u] EXCEPT ![c] = @ + price]
                                  ELSE traded[u]]

-----------------------------------------------------------------------------
\* init_user_pool
InitUserPool(owner) ==
    /\ owner \notin user_pools
    /\ user_pools' = user_pools \cup {owner}
    /\ UNCHANGED <<escrow, traded, ledgerVars, globalVars>>

\* deposit_to_escrow: SOL, tokens or both in one call.
Deposit(owner, amount) ==
    /\ \E c \in Currency : amount[c] > 0
    /\ owner \in user_pools
    /\ \A c \in Currency : escrow[owner][c] + amount[c] <= MAX_U64
    /\ PayIn(owner, amount)
    /\ escrow' = [escrow EXCEPT ![owner] = [c \in Currency |-> @[c] + amount[c]]]
    /\ UNCHANGED <<user_pools, traded, clock, holder, globalVars>>

\* WRONG on purpose (mutant of Withdraw): the escrow balance is not consulted.
WithdrawUnchecked(owner, amount) ==
    /\ \E c \in Currency : amount[c] > 0
    /\ owner \in user_pools
    /\ PayOut(owner, amount)
    /\ escrow' = [escrow EXCEPT ![owner] = [c \in Currency |-> @[c] - amount[c]]]
    /\ UNCHANGED <<user_pools, traded, clock, holder, globalVars>>

\* withdraw_from_escrow: no more than the owner has in escrow.
Withdraw(owner, amount) ==
    /\ \E c \in Currency : amount[c] > 0
    /\ owner \in user_pools
    /\ PayOut(owner, amount)
    /\ \A c \in Currency : amount[c] <= escrow[owner][c]
    /\ escrow' = [escrow EXCEPT ![owner] = [c \in Currency |-> @[c] - amount[c]]]
    /\ UNCHANGED <<user_pools, traded, clock, holder, globalVars>>
=============================================================================
