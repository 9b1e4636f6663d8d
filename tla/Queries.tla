------------------------------ MODULE Queries -------------------------------
(***************************************************************************)
(* What the client library reads of the program's accounts.  A query that  *)
(* looks at one account returns a set: empty when the account does not     *)
(* exist (the code returns null), and else with the account's data in it.  *)
(***************************************************************************)
EXTENDS Marketplace

\* The set of x alone, or nothing.
Optional(cond, x) == IF cond THEN {x} ELSE {}

\* teamTreasury.slice(0, teamCount) of the global pool: all that is read of it.
getGlobalState == Optional(Initialized, [i \in LiveSlots |-> team_treasury[i]])

getUserPoolState(u) == Optional(u \in user_pools, [escrow |-> escrow[u], traded |-> traded[u]])

getNFTPoolState(n) == Optional(n \in sells, sell[n])

getAuctionDataState(n) == Optional(n \in auctions, auction[n])

getOfferDataState(n, u) == Optional(<<n, u>> \in offers, offer[n][u])

isInitializedUser(u) == getUserPoolState(u) # {}

=============================================================================
