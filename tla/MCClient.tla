------------------------------ MODULE MCClient -------------------------------
(***************************************************************************)
(* Instances of Client for TLC.  ClientInit is the genesis; ClientReadyInit *)
(* is the state after the administrator's part of the setup.               *)
(***************************************************************************)
EXTENDS MCMarketplace, Client

CONSTANTS
    rival,           \* a third kind of user, next to firstOwner and all the others
    OwnerCommands,   \* what firstOwner does,
    OtherCommands,   \* what the others do,
    RivalCommands,   \* what the rival does,
    AdminCommands,   \* and what the administrator does
    ReadyPools,      \* the users with a pool after the setup
    ReadyNfts,       \* the NFTs with data accounts
    ReadyHolders     \* the addresses that have got an ABB account by then

MCCommands ==
    [u \in Payers |-> IF u \in Admins THEN AdminCommands
                      ELSE IF u = firstOwner THEN OwnerCommands
                      ELSE IF u = rival THEN RivalCommands
                      ELSE OtherCommands]

\* Who holds something has an account for it.
MCAccounts ==
    {<<firstOwner, n>> : n \in NFTs}
        \cup {<<w, ABB>> : w \in {v \in Wallets : MCWallet[v]["token"] > 0}}

ClientReadyInit ==
    /\ ReadyWith(ReadyPools, ReadyNfts)
    /\ accounts = InitialAccounts \cup (ReadyHolders \X {ABB})
    /\ sent = {}
    /\ faults = 0
    /\ proc = [u \in Payers |-> Idle]

ClientReadySpec == ClientReadyInit /\ [][ClientNext]_allVars

FairReadySpec == ClientReadySpec /\ Fairness
=============================================================================
