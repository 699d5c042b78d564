----------------------------- MODULE CrossChain -----------------------------
(***************************************************************************)
(* What a lockin and a lockout with an Ethereum main chain have in common: *)
(* the two contracts and their logs, and the notary processes that poll    *)
(* the chains (chain/, service/dispatchservice.go), keep a record per      *)
(* secret hash (service/lockin_handler.go and lockout_handler.go, which    *)
(* are alike), send transactions and sign the ones of their shared key in  *)
(* sessions (service/notaryservice.go; the cryptography is left out).      *)
(*                                                                         *)
(* Lockin and Lockout extend this module with the handlers of theirs.      *)
(* Every handler runs in a goroutine of its own (`go service.OnEvent`), so *)
(* handlers of one notary run in any order.                                *)
(***************************************************************************)
EXTENDS Integers, FiniteSets

CONSTANTS
    Users, Secrets,    \* who locks ether, and the secrets they may choose
    Notaries,
    Federation,        \* the account whose key the notaries share
    Nobody,            \* the zero address, and cfg's UnknownNotaryIDInCharge
    NoSecret,          \* utils.EmptyHash in the field Secret
    Threshold,         \* cfg.Notaries.ThresholdCount: co-signers needed
    MinExpiration,     \* cfg.GetMinExpirationBlock4User
    MinLockoutBlocks,  \* the 300 of prepareLockoutHTLC
    CrossFeeRate,      \* cfg.GetCrossFeeRate(ETH)
    UintMax,           \* arithmetic of the token and of block numbers wraps
    EtherSupply, Amounts, Expirations,   \* bounds on what users do
    MaxMCBlock, MaxSCBlock,              \* bounds on the two chains
    MaxLocks,          \* bound: locks users set
    MaxNonces,         \* bound: nonces granted for transactions to sign
    MaxCrashes,        \* bound: crashes of notaries
    CallsFail,         \* may a notary fail to get a transaction out?
    Prompt,            \* do notaries keep up with the chains?
    PromptSessions,    \* do signing sessions end before the next block?
    MaxSkew            \* with Prompt: how far apart the chains may drift

ASSUME CrossChainNumbers == /\ Threshold \in Nat \ {0}
                            /\ MinExpiration \in Nat
                            /\ CrossFeeRate \in Nat \ {0}
                            /\ {CallsFail, Prompt, PromptSessions} \subseteq BOOLEAN
                            /\ {MinLockoutBlocks, EtherSupply, MaxMCBlock, MaxSCBlock} \subseteq Nat
                            /\ {MaxLocks, MaxNonces, MaxCrashes, MaxSkew} \subseteq Nat
                            /\ UintMax \in Nat \ {0}
                            /\ Amounts \subseteq 0 .. UintMax
                            /\ Expirations \subseteq Nat

\* The token can count the ether that all users bring over.
ASSUME EtherCanBeCounted == /\ IsFiniteSet(Users)
                            /\ 1 + EtherSupply * Cardinality(Users) <= UintMax
\* Neither the zero address nor cfg's UnknownNotaryIDInCharge is anybody.
ASSUME NobodyIsNoAccount == Nobody \notin Users \cup {Federation} \cup Notaries

VARIABLES
    owner, newOwner,                                  \* of both contracts
    mcBlock, mcRevealed, mcLockin, mcLockout, held,   \* main chain
    scBlock, scRevealed, scLockin, scLockout,         \* side chain
    balances, allowed, totalSupply,
    mcLog, scLog,      \* events of the mined transactions
    mempool,           \* transactions of notaries not mined yet
    nonces,            \* nonces granted for transactions to sign
    crashes,           \* crashes so far
    status,            \* notary -> "up", "down" or "panicked"
    db,                \* notary -> secret hash -> record, durable
    dealing,           \* notary -> keys of dealingMap (it holds what db holds)
    saved,             \* notary -> chain -> last block number, durable
    fresh,             \* notary -> chain -> TRUE until its first poll
    seen,              \* notary -> chain -> mcLastedBlockNumber / scLasted...
    inbox,             \* notary -> chain -> events dispatched, not handled yet
    session            \* notary -> secret hash -> signing session

mcVars == <<mcBlock, mcRevealed, mcLockin, mcLockout, held, mcLog, owner, newOwner>>
scVars == <<scBlock, scRevealed, scLockin, scLockout, balances, allowed, totalSupply, scLog,
            owner, newOwner>>
nodeVars == <<status, db, dealing, saved, fresh, seen, inbox, session>>
vars == <<mcVars, scVars, mempool, nonces, crashes, nodeVars>>

AllAccounts == Users \cup {Federation}
MC == INSTANCE LockedEthereum WITH
          Accounts <- AllAccounts, Deployer <- Federation,
          MaxBlock <- MaxMCBlock,
          block <- mcBlock, revealed <- mcRevealed,
          lockin_htlc <- mcLockin, lockout_htlc <- mcLockout
SC == INSTANCE AtmosphereToken WITH
          Accounts <- AllAccounts, Deployer <- Federation, MaxBlock <- MaxSCBlock,
          block <- scBlock, revealed <- scRevealed,
          lockin_htlc <- scLockin, lockout_htlc <- scLockout

Chains == {"mc", "sc"}
Height(c) == IF c = "mc" THEN mcBlock ELSE scBlock
Log(c)    == IF c = "mc" THEN mcLog ELSE scLog
Newest(c) == Height(c) - 1     \* the block under construction is not visible yet

-----------------------------------------------------------------------------
(* The records: models.LockinInfo and models.LockoutInfo.                  *)
LockStatus == {"None", "Lock", "Unlock", "Expiration", "Cancel"}
LockInfo == [MCUserAddressHex : Users \cup {Nobody}, SCUserAddress : Users \cup {Nobody},
             Secret : Secrets \cup {NoSecret}, Amount : Nat,
             MCExpiration : Nat, SCExpiration : Nat,
             MCLockStatus : LockStatus, SCLockStatus : LockStatus,
             NotaryIDInCharge : Notaries \cup {Nobody}]

\* Mistake: it is over when the side that starts it last is.
IsEndOnceUnlocked(info) ==
    \/ "Unlock" \in {info.MCLockStatus, info.SCLockStatus}
    \/ info.MCLockStatus = "Cancel" /\ info.SCLockStatus \in {"Cancel", "None"}
IsEnd(info) ==
    \/ info.MCLockStatus = "Unlock" /\ info.SCLockStatus = "Unlock"
    \/ info.MCLockStatus = "Cancel" /\ info.SCLockStatus \in {"Cancel", "None"}

Idle == [stage |-> "idle", asked |-> {}, agreed |-> {},
         user |-> Nobody, account |-> Nobody, expiration |-> 0, amount |-> 0,
         receipt |-> [chain |-> "mc", block |-> 0]]

InitNotaries ==
    /\ mcLog = {} /\ scLog = {}
    /\ mempool = {} /\ nonces = 0 /\ crashes = 0
    /\ status = [n \in Notaries |-> "up"]
    /\ db = [n \in Notaries |-> [h \in {} |-> 0]]
    /\ dealing = [n \in Notaries |-> {}]
    /\ saved = [n \in Notaries |-> [c \in Chains |-> 0]]
    /\ fresh = [n \in Notaries |-> [c \in Chains |-> TRUE]]
    /\ seen = [n \in Notaries |-> [c \in Chains |-> 0]]
    /\ inbox = [n \in Notaries |-> [c \in Chains |-> {}]]
    /\ session = [n \in Notaries |-> [h \in MC!Hashes |-> Idle]]

-----------------------------------------------------------------------------
(* Users and others who call the contracts themselves: an action on one    *)
(* chain and its log entry.                                                *)
OnMC(event) == /\ mcLog' = mcLog \cup {event}
               /\ UNCHANGED <<scVars, mempool, nonces, crashes, nodeVars>>
OnSC(event) == /\ scLog' = scLog \cup {event}
               /\ UNCHANGED <<mcVars, mempool, nonces, crashes, nodeVars>>

-----------------------------------------------------------------------------
(* The two chains: blocks are produced, transactions of notaries are mined *)
(* or revert.  With Prompt a block takes longer than a notary needs to     *)
(* poll, handle what it polled, take charge of what it can see was mined   *)
(* and get a claim or a cancellation mined; with PromptSessions, than a    *)
(* signing session takes.                                                  *)
Prepares == {"PrepareLockin", "PrepareLockout"}     \* what is signed in sessions
Stages(set) == \E n \in Notaries, h \in MC!Hashes : session[n][h].stage \in set

\* bind.WaitMined asks for the receipt every second; there is one as soon as
\* the events of the block can be polled, not before.
Receipted(n, h) == /\ session[n][h].stage = "mined"
                   /\ session[n][h].receipt.block <= Newest(session[n][h].receipt.chain)

KeptUp ==
    /\ Prompt => /\ \A n \in Notaries, c \in Chains :
                        status[n] = "up" => saved[n][c] >= Newest(c) /\ inbox[n][c] = {}
                 /\ \A n \in Notaries, h \in MC!Hashes : ~Receipted(n, h)
                 /\ \A tx \in mempool : tx.name \in Prepares
    /\ PromptSessions => ~Stages({"signing", "sent"}) /\ mempool = {}

MCNewBlock == /\ KeptUp
              /\ Prompt => mcBlock - scBlock < MaxSkew
              /\ MC!newBlock
              /\ UNCHANGED <<mcLog, scVars, mempool, nonces, crashes, nodeVars>>

SCNewBlock == /\ KeptUp
              /\ Prompt => scBlock - mcBlock < MaxSkew
              /\ SC!newBlock
              /\ UNCHANGED <<scLog, mcVars, mempool, nonces, crashes, nodeVars>>

\* The session that waits for its transaction will find it in this block of c.
Noticed(tx, mined, c) ==
    session' = IF session[tx.from][tx.hash].stage = "sent"
               THEN [session EXCEPT ![tx.from][tx.hash].stage = IF mined THEN "mined" ELSE "failed",
                                    ![tx.from][tx.hash].receipt = [chain |-> c, block |-> Height(c)]]
               ELSE session

-----------------------------------------------------------------------------
(* A notary process: start and stop, and the polling of a chain.           *)

\* What survives is db and saved; dealingMap and lasted block numbers go, as
\* do events dispatched and sessions (questions already asked stay asked).
Stop(n, how) ==
    /\ status' = [status EXCEPT ![n] = how]
    /\ dealing' = [dealing EXCEPT ![n] = {}]
    /\ fresh' = [fresh EXCEPT ![n] = [c \in Chains |-> TRUE]]
    /\ seen' = [seen EXCEPT ![n] = [c \in Chains |-> 0]]
    /\ inbox' = [inbox EXCEPT ![n] = [c \in Chains |-> {}]]
    /\ session' = [session EXCEPT ![n] = [h \in DOMAIN @ |-> [@[h] EXCEPT !.stage = "idle"]]]
    /\ UNCHANGED <<db, saved>>

Crash(n) ==
    /\ status[n] = "up"
    /\ crashes < MaxCrashes
    /\ crashes' = crashes + 1
    /\ Stop(n, "down")
    /\ UNCHANGED <<mcVars, scVars, mempool, nonces>>

\* Every record is loaded into dealingMap, ended ones included.
Restart(n) ==
    /\ status[n] # "up"
    /\ status' = [status EXCEPT ![n] = "up"]
    /\ dealing' = [dealing EXCEPT ![n] = DOMAIN db[n]]
    /\ UNCHANGED <<mcVars, scVars, mempool, nonces, crashes, db, saved, fresh, seen, inbox, session>>

\* The listener skips to the newest block and the dispatcher saves its number
\* before any event of the batch is handled; a restarted listener reads the
\* last saved block again.
Poll(n, c) ==
    /\ status[n] = "up"
    /\ saved[n][c] < Newest(c)
    /\ LET news == {e \in Log(c) : /\ e.block <= Newest(c)
                                   /\ \/ e.block > saved[n][c]
                                      \/ fresh[n][c] /\ e.block = saved[n][c]}
       IN  inbox' = [inbox EXCEPT ![n][c] =
                        @ \cup news \cup {[name |-> "NewBlock", block |-> Newest(c)]}]
    /\ saved' = [saved EXCEPT ![n][c] = Newest(c)]
    /\ fresh' = [fresh EXCEPT ![n][c] = FALSE]
    /\ UNCHANGED <<mcVars, scVars, mempool, nonces, crashes, status, db, dealing, seen, session>>

-----------------------------------------------------------------------------
(* What a handler does to the record of hash.  A handler gets a pointer    *)
(* into dealingMap, so records are updated field by field.                 *)
Known(n, hash) == hash \in DOMAIN db[n]

register(n, hash, info) ==
    /\ db' = [db EXCEPT ![n] = [h \in DOMAIN @ \cup {hash} |-> IF h = hash THEN info ELSE @[h]]]
    /\ dealing' = [dealing EXCEPT ![n] = @ \cup {hash}]

\* Saves the record and removes an ended one from dealingMap; a record that is
\* not in dealingMap is a "wrong code" panic.
update(n, hash, info) ==
    /\ db' = [db EXCEPT ![n][hash] = info]
    /\ dealing' = IF IsEnd(info) THEN [dealing EXCEPT ![n] = @ \ {hash}] ELSE dealing

\* The transactions of a handler, or fewer of them when calls may fail (or
\* when the process dies before it makes them).
Send(txs) == IF CallsFail THEN \E sent \in SUBSET txs : mempool' = mempool \cup sent
                          ELSE mempool' = mempool \cup txs

Handled(n, c, e) == inbox' = [inbox EXCEPT ![n][c] = @ \ {e}]

\* A handler that returns an error.
Refuse(n, c, e) == /\ Handled(n, c, e)
                   /\ UNCHANGED <<mempool, status, db, dealing, fresh, seen, session, saved>>

Panic(n) == Stop(n, "panicked") /\ UNCHANGED mempool

\* A handler that updates the record and sends txs.
Record(n, c, e, hash, info, txs) ==
    IF hash \in dealing[n]
    THEN /\ update(n, hash, info)
         /\ Handled(n, c, e)
         /\ Send(txs)
         /\ UNCHANGED <<status, fresh, seen, session, saved>>
    ELSE Panic(n)

\* An event of that name waits for its handler.
Handling(n, c, e, name) ==
    /\ status[n] = "up" /\ e \in inbox[n][c] /\ e.name = name
    /\ UNCHANGED <<mcVars, scVars, nonces, crashes>>

\* The handlers of prepare events ask the contract for the lock of the account
\* and go on with the answer, later.
Query(n, c, e, lock) ==
    /\ inbox' = [inbox EXCEPT ![n][c] = (@ \ {e}) \cup
           {[name |-> "Queried", account |-> e.account, block |-> e.block, lock |-> lock]}]
    /\ UNCHANGED <<mempool, status, db, dealing, fresh, seen, session, saved>>

\* time.Duration(expiration - lasted) is signed and / rounds towards zero.
HalfTheTime(left) == IF left >= 0 THEN left \div 2 ELSE -((-left) \div 2)
Uint64(x)         == x % (UintMax + 1)

\* Mistake: the rate is a factor.
calculateCrossFeeTimes(amount) == amount * CrossFeeRate
calculateCrossFee(amount)      == amount \div CrossFeeRate

-----------------------------------------------------------------------------
(* A transaction of the shared account: a user asks a notary, which        *)
(* collects co-signers, sends the transaction and, once it is mined, takes *)
(* charge.                                                                 *)
OpenSession(n, hash, user, account, expiration) ==
    /\ status[n] = "up"
    /\ session[n][hash].stage = "idle"
    /\ nonces < MaxNonces
    /\ nonces' = nonces + 1
    /\ session' = [session EXCEPT ![n][hash] =
           [stage |-> "signing", asked |-> Notaries \ {n}, agreed |-> {},
            user |-> user, account |-> account, expiration |-> expiration,
            amount |-> db[n][hash].Amount - calculateCrossFee(db[n][hash].Amount),
            receipt |-> Idle.receipt]]
    /\ UNCHANGED <<mcVars, scVars, mempool, crashes, status, db, dealing, saved, fresh, seen, inbox>>

\* m is asked by n: if it agrees to sign it records what it endorsed.
Answer(n, m, hash, agrees, endorsed) ==
    /\ m \in session[n][hash].asked
    /\ IF agrees
       THEN /\ update(m, hash, endorsed)
            /\ session' = [session EXCEPT ![n][hash].asked = @ \ {m}, ![n][hash].agreed = @ \cup {m}]
       ELSE /\ session' = [session EXCEPT ![n][hash].asked = @ \ {m}]
            /\ UNCHANGED <<db, dealing>>
    /\ UNCHANGED <<mcVars, scVars, mempool, nonces, crashes, status, saved, fresh, seen, inbox>>

\* With enough answers, or too few, the session goes on.
callPrepare(n, hash, name) ==
    LET s    == session[n][hash]
        more == Cardinality(s.agreed) >= Threshold
    IN  /\ s.stage = "signing"
        /\ more \/ s.asked = {}
        /\ \E sent \in IF ~more THEN {FALSE} ELSE IF CallsFail THEN BOOLEAN ELSE {TRUE} :
              /\ session' = [session EXCEPT ![n][hash].stage = IF sent THEN "sent" ELSE "failed"]
              /\ mempool' = IF sent THEN mempool \cup {[name |-> name, from |-> n,
                                        account |-> s.account, hash |-> hash,
                                        expiration |-> s.expiration, value |-> s.amount]}
                            ELSE mempool
        /\ UNCHANGED <<mcVars, scVars, nonces, crashes, status, db, dealing, saved, fresh, seen, inbox>>

\* After WaitMined.  The handlers of the events of that block run beside it.
takeCharge(n, hash) ==
    /\ Receipted(n, hash)
    /\ IF hash \in dealing[n]
       THEN /\ update(n, hash, [db[n][hash] EXCEPT !.NotaryIDInCharge = n])
            /\ session' = [session EXCEPT ![n][hash].stage = "done"]
            /\ UNCHANGED <<status, saved, fresh, seen, inbox>>
       ELSE Stop(n, "panicked")
    /\ UNCHANGED <<mcVars, scVars, mempool, nonces, crashes>>

-----------------------------------------------------------------------------
Hash == {MC!Sha256(s) : s \in Secrets}
Logged(log, name, h) == \E e \in log : e.name = name /\ e.SecretHash = h
Locked(locks, h) == \E a \in Users : locks[a].value > 0 /\ locks[a].SecretHash = h

\* All other records name m, and its own does once m has taken charge.
AgreedOn(m, h) == /\ \A n \in Notaries \ {m} : db[n][h].NotaryIDInCharge = m
                  /\ db[m][h].NotaryIDInCharge \in {m, Nobody}
                  /\ session[m][h].stage = "done" => db[m][h].NotaryIDInCharge = m

\* A secret was published in the very block that set the lock it opens: then
\* nobody may be in charge yet when that is handled, and nobody claims.
SameBlock(log, sets, opens, h) ==
    \E p, e \in log : /\ p.name = sets /\ e.name = opens /\ MC!Sha256(e.secret) = h
                      /\ p.account = e.account /\ p.block = e.block

NotariesTypeOK(calls) ==
    /\ MC!TypeOK /\ SC!TypeOK
    /\ mempool \subseteq
           [name : calls, from : Notaries, account : Users, secret : Secrets]
           \cup [name : calls, from : Notaries, account : Users \cup {Nobody}]
           \cup [name : calls, from : Notaries, account : Users, hash : Hash,
                  expiration : Nat, value : Nat]
    /\ nonces \in 0 .. MaxNonces /\ crashes \in 0 .. MaxCrashes
    /\ status \in [Notaries -> {"up", "down", "panicked"}]
    /\ \A n \in Notaries :
          /\ DOMAIN db[n] \subseteq Hash /\ \A h \in DOMAIN db[n] : db[n][h] \in LockInfo
          /\ dealing[n] \subseteq DOMAIN db[n]
          /\ {saved[n], seen[n]} \subseteq [Chains -> Nat] /\ fresh[n] \in [Chains -> BOOLEAN]
          /\ \A h \in Hash : session[n][h].amount \in Nat /\ session[n][h].expiration \in Nat

\* What a notary has recorded as the end of a lock, or as its secret, stays.
Final == {"Unlock", "Cancel"}
Remembers(old, new) ==
    /\ old.MCLockStatus \in Final => new.MCLockStatus = old.MCLockStatus
    /\ old.SCLockStatus \in Final => new.SCLockStatus = old.SCLockStatus
    /\ old.Secret # NoSecret => new.Secret = old.Secret
=============================================================================
