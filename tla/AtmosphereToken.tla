--------------------------- MODULE AtmosphereToken --------------------------
(***************************************************************************)
(* The side-chain token of the bridge, contracts/sidechain_erc20.sol: an   *)
(* ERC-20 token that is minted when a lockin lock is opened with its       *)
(* secret and destroyed when a lockout lock is.  One action per function   *)
(* of the contract; a failing require is a failing guard.                  *)
(***************************************************************************)
EXTENDS HashLock, Owned, Functions

CONSTANTS
    UintMax,           \* 2^256 - 1: arithmetic is modulo UintMax + 1
    MaxBlock,          \* bound: the chain is followed up to this height
    Amounts,           \* bound: the values transactions carry
    Expirations        \* bound: the expirations transactions ask for

ASSUME SideChainNumbers == /\ UintMax \in Nat \ {0}
                           /\ MaxBlock \in Nat
                           /\ Amounts \subseteq 0 .. UintMax
                           /\ Expirations \subseteq Nat

VARIABLES
    block,             \* block.number
    revealed,          \* secrets published in transactions on this chain
    lockin_htlc,       \* account -> LockinInfo
    lockout_htlc,      \* account -> LockoutInfo
    balances,          \* account -> tokens
    allowed,           \* account -> spender -> tokens
    totalSupply

tokenVars == <<balances, allowed, totalSupply>>
vars == <<block, revealed, lockin_htlc, lockout_htlc, tokenVars, owner, newOwner>>

uint256 == 0 .. UintMax

(* Mistakes the runs must detect, and below each the definition it mutates *)
PlusUnbounded(x, y) == x + y
Plus(x, y)          == (x + y) % (UintMax + 1)

ExpiredOrExpiring(lock) == block >= lock.Expiration
Expired(lock)           == block > lock.Expiration

AliveOrExpiring(lock) == lock.Expiration >= block
Alive(lock)           == lock.Expiration > block

\* What lockin and lockout, and what the cancelling functions, require.
Opens(lock, secret) == lock.value > 0 /\ lock.SecretHash = Sha256(secret) /\ Alive(lock)
Lapsed(lock)        == lock.value > 0 /\ Expired(lock)

TypeOK == /\ block \in Nat
          /\ revealed \subseteq Secrets
          /\ lockin_htlc \in [Accounts -> LockRecord]
          /\ lockout_htlc \in [Accounts -> LockRecord]
          /\ \A a \in Accounts : /\ lockin_htlc[a].value \in uint256
                                 /\ lockout_htlc[a].value \in uint256
          /\ balances \in [Accounts -> uint256]
          /\ allowed \in [Accounts -> [Accounts -> uint256]]
          /\ totalSupply \in uint256
          /\ OwnedTypeOK

\* The constructor mints one unit that nobody owns.
Init == /\ block = 0
        /\ revealed = {}
        /\ lockin_htlc = [a \in Accounts |-> Unlocked]
        /\ lockout_htlc = [a \in Accounts |-> Unlocked]
        /\ balances = [a \in Accounts |-> 0]
        /\ allowed = [a \in Accounts |-> [b \in Accounts |-> 0]]
        /\ totalSupply = 1
        /\ OwnedInit

-----------------------------------------------------------------------------
\* A transfer that cannot be made returns false and changes nothing; one of
\* value 0 cannot be made.
Movable(from, to, value) == /\ balances[from] >= value
                            /\ Plus(balances[to], value) > balances[to]

\* balances[from] -= value, then balances[to] += value.
MovedAtOnce(from, to, value) ==
    [balances EXCEPT ![from] = @ - value, ![to] = Plus(balances[to], value)]
Moved(from, to, value) ==
    [[balances EXCEPT ![from] = @ - value] EXCEPT ![to] = Plus(@, value)]

transfer(sender, to, value) ==
    /\ Movable(sender, to, value)
    /\ balances' = Moved(sender, to, value)
    /\ UNCHANGED <<block, revealed, lockin_htlc, lockout_htlc, allowed, totalSupply, ownedVars>>

transferFrom(sender, from, to, value) ==
    /\ Movable(from, to, value)
    /\ allowed[from][sender] >= value
    /\ balances' = Moved(from, to, value)
    /\ allowed' = [allowed EXCEPT ![from][sender] = @ - value]
    /\ UNCHANGED <<block, revealed, lockin_htlc, lockout_htlc, totalSupply, ownedVars>>

approve(sender, spender, value) ==
    /\ allowed' = [allowed EXCEPT ![sender][spender] = value]
    /\ UNCHANGED <<block, revealed, lockin_htlc, lockout_htlc, balances, totalSupply, ownedVars>>

-----------------------------------------------------------------------------
\* Unlike its counterpart on the main chain, prepareLockin takes any
\* expiration and any value, 0 included.
prepareLockin(sender, account, hash, expiration, value) ==
    /\ sender = owner
    /\ account # Nobody
    /\ lockin_htlc[account].value = 0
    /\ lockin_htlc' = [lockin_htlc EXCEPT ![account] =
           [SecretHash |-> hash, Expiration |-> expiration, value |-> value]]
    /\ UNCHANGED <<block, revealed, lockout_htlc, tokenVars, ownedVars>>

lockin(account, secret) ==
    LET value == lockin_htlc[account].value IN
    /\ Opens(lockin_htlc[account], secret)
    /\ Plus(balances[account], value) >= value
    /\ Plus(totalSupply, value) > value
    /\ balances' = [balances EXCEPT ![account] = Plus(@, value)]
    /\ totalSupply' = Plus(totalSupply, value)
    /\ lockin_htlc' = [lockin_htlc EXCEPT ![account] = Unlocked]
    /\ revealed' = revealed \cup {secret}
    /\ UNCHANGED <<block, lockout_htlc, allowed, ownedVars>>

cancelLockin(account) ==
    /\ Lapsed(lockin_htlc[account])
    /\ lockin_htlc' = [lockin_htlc EXCEPT ![account] = Unlocked]
    /\ UNCHANGED <<block, revealed, lockout_htlc, tokenVars, ownedVars>>

prepareLockout(sender, hash, expiration, value) ==
    /\ value > 0
    /\ lockout_htlc[sender].value = 0
    /\ balances[sender] >= value
    /\ lockout_htlc' = [lockout_htlc EXCEPT ![sender] =
           [SecretHash |-> hash, Expiration |-> expiration, value |-> value]]
    /\ balances' = [balances EXCEPT ![sender] = @ - value]
    /\ UNCHANGED <<block, revealed, lockin_htlc, allowed, totalSupply, ownedVars>>

lockout(from, secret) ==
    LET value == lockout_htlc[from].value
        left  == (totalSupply + UintMax + 1 - value) % (UintMax + 1) IN
    /\ Opens(lockout_htlc[from], secret)
    /\ left >= 1
    /\ totalSupply' = left
    /\ lockout_htlc' = [lockout_htlc EXCEPT ![from] = Unlocked]
    /\ revealed' = revealed \cup {secret}
    /\ UNCHANGED <<block, lockin_htlc, balances, allowed, ownedVars>>

cancelLockOut(account) ==
    /\ Lapsed(lockout_htlc[account])
    /\ balances' = [balances EXCEPT ![account] = Plus(@, lockout_htlc[account].value)]
    /\ lockout_htlc' = [lockout_htlc EXCEPT ![account] = Unlocked]
    /\ UNCHANGED <<block, revealed, lockin_htlc, allowed, totalSupply, ownedVars>>

handOver(sender) ==
    /\ \/ \E a \in Accounts \cup {Nobody} : changeOwner(sender, a)
       \/ acceptOwnership(sender)
    /\ UNCHANGED <<block, revealed, lockin_htlc, lockout_htlc, tokenVars>>

newBlock ==
    /\ block < MaxBlock
    /\ block' = block + 1
    /\ UNCHANGED <<revealed, lockin_htlc, lockout_htlc, tokenVars, ownedVars>>

-----------------------------------------------------------------------------
(* The log entries of the transactions above, from the state they run in.  *)
EmitPrepareLockin(account)   == [name |-> "PrepareLockin", account |-> account, block |-> block]
EmitLockinSecret(account, secret) ==
    [name |-> "LockinSecret", account |-> account, block |-> block, secret |-> secret]
EmitCancelLockin(account)    == [name |-> "CancelLockin", account |-> account, block |-> block,
                                 SecretHash |-> lockin_htlc[account].SecretHash]
EmitPrepareLockout(account)  == [name |-> "PrepareLockout", account |-> account, block |-> block]
EmitLockout(account)         == [name |-> "Lockout", account |-> account, block |-> block,
                                 SecretHash |-> lockout_htlc[account].SecretHash]
EmitCancelLockout(account)   == [name |-> "CancelLockout", account |-> account, block |-> block,
                                 SecretHash |-> lockout_htlc[account].SecretHash]

-----------------------------------------------------------------------------
Next ==
    \/ newBlock
    \/ \E a \in Accounts :
          \/ handOver(a)
          \/ cancelLockin(a)
          \/ cancelLockOut(a)
          \/ \E s \in Secrets : lockin(a, s) \/ lockout(a, s)
          \/ \E b \in Accounts, v \in Amounts :
                \/ transfer(a, b, v)
                \/ approve(a, b, v)
                \/ \E c \in Accounts : transferFrom(a, b, c, v)
          \/ \E h \in Hashes, e \in Expirations, v \in Amounts :
                \/ prepareLockout(a, h, e, v)
                \/ \E b \in Accounts : prepareLockin(b, a, h, e, v)

Spec == Init /\ [][Next]_vars

-----------------------------------------------------------------------------
LockinOf(a)  == INSTANCE HTLC WITH now <- block, terms <- TermsOf(lockin_htlc[a])
LockoutOf(a) == INSTANCE HTLC WITH now <- block, terms <- TermsOf(lockout_htlc[a])

(* Each account's lockin lock implements HTLC!LockSpec: what the notaries  *)
(* locked for an account is minted by the secret before the expiration or  *)
(* withdrawn after it (prepareLockin, lockin, cancelLockin).               *)
LockinIsHTLC ==
    /\ \A a \in Accounts : LockinOf(a)!LockInit
    /\ [][\A a \in Accounts : [LockinOf(a)!LockNext]_(LockinOf(a)!lockVars)]_vars

(* Each account's lockout lock does too: the tokens a user locked are      *)
(* destroyed by the secret before the expiration or credited back after it *)
(* (prepareLockout, lockout, cancelLockOut).                               *)
LockoutIsHTLC ==
    /\ \A a \in Accounts : LockoutOf(a)!LockInit
    /\ [][\A a \in Accounts : [LockoutOf(a)!LockNext]_(LockoutOf(a)!lockVars)]_vars

(* Every token is accounted for: the supply is the constructor's unit plus *)
(* the balances plus the tokens in lockout locks, as true integers, so no  *)
(* addition or subtraction of lockin, lockout, cancelLockOut and transfer  *)
(* ever wraps, whatever values the owner mints.                            *)
SupplyIsAccountedFor ==
    totalSupply = 1 + SumFunction([a \in Accounts |-> balances[a] + lockout_htlc[a].value])
=============================================================================
