-------------------------------- MODULE Owned -------------------------------
(***************************************************************************)
(* The Owned base contract of both bridge contracts: a two-step handover   *)
(* of the account that may call the onlyOwner functions.                   *)
(***************************************************************************)
EXTENDS FiniteSets

CONSTANTS
    Accounts,          \* addresses that send transactions
    Nobody,            \* the zero address 0x0
    Deployer           \* the account that deploys the contract

\* An address has 160 bits.
ASSUME AccountsAreFinite == IsFiniteSet(Accounts)
ASSUME NobodySendsNothing == Nobody \notin Accounts
ASSUME DeployerIsAnAccount == Deployer \in Accounts

VARIABLES owner, newOwner

ownedVars == <<owner, newOwner>>

OwnedTypeOK == owner \in Accounts /\ newOwner \in Accounts \cup {Nobody}

OwnedInit == owner = Deployer /\ newOwner = Nobody

changeOwner(sender, account) ==
    /\ sender = owner
    /\ account # owner
    /\ newOwner' = account
    /\ UNCHANGED owner

acceptOwnership(sender) ==
    /\ sender = newOwner
    /\ owner' = newOwner
    /\ newOwner' = Nobody
=============================================================================
