--------------------------- MODULE LockedEthereum ---------------------------
(***************************************************************************)
(* The main-chain contract of the bridge, contracts/mainchain_erc20.sol.   *)
(*                                                                         *)
(* Users lock ether in lockin_htlc; the notaries (the owner, an account    *)
(* whose key is shared among them) lock ether for users in lockout_htlc.   *)
(* One action per external function; a require that fails reverts the      *)
(* transaction, so it is a guard.  What an Emit... operator returns is the *)
(* log entry of the function it is named for.                              *)
(***************************************************************************)
EXTENDS HashLock, Owned

CONSTANTS
    MinLockoutBlocks,  \* the 300 of prepareLockoutHTLC
    EtherSupply,       \* bound: the ether there is to lock
    MaxBlock,          \* bound: the chain is followed up to this height
    Amounts,           \* bound: the values transactions carry
    Expirations        \* bound: the expirations transactions ask for

ASSUME MainChainNumbers == /\ MinLockoutBlocks \in Nat
                           /\ EtherSupply \in Nat
                           /\ MaxBlock \in Nat
                           /\ Amounts \subseteq Nat
                           /\ Expirations \subseteq Nat

VARIABLES
    block,             \* block.number
    revealed,          \* secrets published in transactions on this chain
    lockin_htlc,       \* account -> LockinInfo
    lockout_htlc,      \* account -> LockoutInfo
    held               \* the ether of the contract

vars == <<block, revealed, lockin_htlc, lockout_htlc, held, owner, newOwner>>

TypeOK == /\ block \in Nat
          /\ revealed \subseteq Secrets
          /\ lockin_htlc \in [Accounts -> LockRecord]
          /\ lockout_htlc \in [Accounts -> LockRecord]
          /\ held \in Nat
          /\ OwnedTypeOK

Init == /\ block = 0
        /\ revealed = {}
        /\ lockin_htlc = [a \in Accounts |-> Unlocked]
        /\ lockout_htlc = [a \in Accounts |-> Unlocked]
        /\ held = 0
        /\ OwnedInit

-----------------------------------------------------------------------------
(* Mistakes the runs must detect, and below each the definition it mutates *)
ExpiredOrExpiring(lock) == block >= lock.Expiration
Expired(lock)           == block > lock.Expiration

AliveOrExpiring(lock) == lock.Expiration >= block
Alive(lock)           == lock.Expiration > block

\* What lockin and lockout, and what the cancelling functions, require.
Opens(lock, secret) == lock.value > 0 /\ lock.SecretHash = Sha256(secret) /\ Alive(lock)
Lapsed(lock)        == lock.value > 0 /\ Expired(lock)

\* account.transfer(value) reverts when the contract is short of ether.
transferEtherUnchecked(value) == held' = held - value
transferEther(value)          == held >= value /\ held' = held - value

-----------------------------------------------------------------------------
prepareLockin(sender, hash, expiration, value) ==
    /\ lockin_htlc[sender].value = 0
    /\ value > 0
    /\ held + value <= EtherSupply
    /\ lockin_htlc' = [lockin_htlc EXCEPT ![sender] =
           [SecretHash |-> hash, Expiration |-> expiration, value |-> value]]
    /\ held' = held + value
    /\ UNCHANGED <<block, revealed, lockout_htlc, ownedVars>>

\* Anybody who knows the secret destroys the lock; its ether stays here.
lockin(account, secret) ==
    /\ Opens(lockin_htlc[account], secret)
    /\ lockin_htlc' = [lockin_htlc EXCEPT ![account] = Unlocked]
    /\ revealed' = revealed \cup {secret}
    /\ UNCHANGED <<block, lockout_htlc, held, ownedVars>>

cancelLockin(account) ==
    /\ Lapsed(lockin_htlc[account])
    /\ transferEther(lockin_htlc[account].value)
    /\ lockin_htlc' = [lockin_htlc EXCEPT ![account] = Unlocked]
    /\ UNCHANGED <<block, revealed, lockout_htlc, ownedVars>>

prepareLockoutHTLC(sender, account, hash, expiration, value) ==
    /\ sender = owner
    /\ account # Nobody
    /\ value > 0
    /\ lockout_htlc[account].value = 0
    /\ expiration > block + MinLockoutBlocks
    /\ lockout_htlc' = [lockout_htlc EXCEPT ![account] =
           [SecretHash |-> hash, Expiration |-> expiration, value |-> value]]
    /\ UNCHANGED <<block, revealed, lockin_htlc, held, ownedVars>>

lockout(account, secret) ==
    /\ Opens(lockout_htlc[account], secret)
    /\ transferEther(lockout_htlc[account].value)
    /\ lockout_htlc' = [lockout_htlc EXCEPT ![account] = Unlocked]
    /\ revealed' = revealed \cup {secret}
    /\ UNCHANGED <<block, lockin_htlc, ownedVars>>

cancleLockOut(account) ==
    /\ Lapsed(lockout_htlc[account])
    /\ lockout_htlc' = [lockout_htlc EXCEPT ![account] = Unlocked]
    /\ UNCHANGED <<block, revealed, lockin_htlc, held, ownedVars>>

handOver(sender) ==
    /\ \/ \E a \in Accounts \cup {Nobody} : changeOwner(sender, a)
       \/ acceptOwnership(sender)
    /\ UNCHANGED <<block, revealed, lockin_htlc, lockout_htlc, held>>

newBlock ==
    /\ block < MaxBlock
    /\ block' = block + 1
    /\ UNCHANGED <<revealed, lockin_htlc, lockout_htlc, held, ownedVars>>

-----------------------------------------------------------------------------
(* The log entries of the transactions above, from the state they run in.  *)
EmitPrepareLockin(account)   == [name |-> "PrepareLockin", account |-> account, block |-> block]
EmitLockin(account)          == [name |-> "Lockin", account |-> account, block |-> block,
                                 SecretHash |-> lockin_htlc[account].SecretHash]
EmitCancelLockin(account)    == [name |-> "CancelLockin", account |-> account, block |-> block,
                                 SecretHash |-> lockin_htlc[account].SecretHash]
EmitPrepareLockout(account)  == [name |-> "PrepareLockout", account |-> account, block |-> block]
EmitLockoutSecret(account, secret) ==
    [name |-> "LockoutSecret", account |-> account, block |-> block, secret |-> secret]
EmitCancelLockout(account)   == [name |-> "CancelLockout", account |-> account, block |-> block,
                                 SecretHash |-> lockout_htlc[account].SecretHash]

-----------------------------------------------------------------------------
Next ==
    \/ newBlock
    \/ \E a \in Accounts :
          \/ handOver(a)
          \/ cancelLockin(a)
          \/ cancleLockOut(a)
          \/ \E s \in Secrets : lockin(a, s) \/ lockout(a, s)
          \/ \E h \in Hashes, e \in Expirations, v \in Amounts :
                \/ prepareLockin(a, h, e, v)
                \/ \E b \in Accounts : prepareLockoutHTLC(b, a, h, e, v)

Spec == Init /\ [][Next]_vars

-----------------------------------------------------------------------------
LockinOf(a)  == INSTANCE HTLC WITH now <- block, terms <- TermsOf(lockin_htlc[a])
LockoutOf(a) == INSTANCE HTLC WITH now <- block, terms <- TermsOf(lockout_htlc[a])

(* Each account's lockin lock is a hash time lock (it implements           *)
(* HTLC!LockSpec): whatever others do with the contract, the ether a user  *)
(* locked is destroyed by the secret before the expiration or refunded     *)
(* after it, never both and never on other terms than those the user set   *)
(* (prepareLockin, lockin, cancelLockin).                                  *)
LockinIsHTLC ==
    /\ \A a \in Accounts : LockinOf(a)!LockInit
    /\ [][\A a \in Accounts : [LockinOf(a)!LockNext]_(LockinOf(a)!lockVars)]_vars

(* Each account's lockout lock is one too (prepareLockoutHTLC, lockout,    *)
(* cancleLockOut): the notaries cannot take back what they locked for a    *)
(* user before it expires, and the user cannot take it afterwards.         *)
LockoutIsHTLC ==
    /\ \A a \in Accounts : LockoutOf(a)!LockInit
    /\ [][\A a \in Accounts : [LockoutOf(a)!LockNext]_(LockoutOf(a)!lockVars)]_vars
=============================================================================
