------------------------------ MODULE Lockout ------------------------------
(***************************************************************************)
(* The lockout protocol for an Ethereum main chain, the way back of a      *)
(* lockin: users lock AtmosphereToken on the side chain, the notaries lock *)
(* the same amount of ether (less the fee) for them in LockedEthereum, a   *)
(* user takes the ether by publishing the secret, and the notary in charge *)
(* destroys the tokens with it.                                            *)
(*                                                                         *)
(* On top of CrossChain: the event handlers of a lockout in                *)
(* service/crosschainservice_onevent.go, its request handler in            *)
(* crosschainservice_onrequest.go, and what service/lockout_handler.go     *)
(* does to its records on a new block.                                     *)
(***************************************************************************)
EXTENDS CrossChain, Functions

\* Lockins have given every user EtherSupply tokens for the ether held.
MintedBefore == [a \in AllAccounts |-> IF a \in Users THEN EtherSupply ELSE 0]

LockoutInit ==
    /\ mcBlock = 0 /\ mcRevealed = {} /\ held = EtherSupply * Cardinality(Users)
    /\ scBlock = 0 /\ scRevealed = {}
    /\ LET empty == [a \in AllAccounts |-> MC!Unlocked]
       IN  mcLockin = empty /\ mcLockout = empty /\ scLockin = empty /\ scLockout = empty
    /\ balances = MintedBefore
    /\ allowed = [a \in AllAccounts |-> [b \in AllAccounts |-> 0]]
    /\ totalSupply = 1 + held
    /\ MC!OwnedInit
    /\ InitNotaries

-----------------------------------------------------------------------------
(* Users; anybody may cancel a lock that expired, on either chain.         *)
UserPrepareLockout(user, hash, expiration, value) ==
    /\ Cardinality({e \in scLog : e.name = "PrepareLockout"}) < MaxLocks
    /\ SC!prepareLockout(user, hash, expiration, value)
    /\ OnSC(SC!EmitPrepareLockout(user))

UserCancelLockOut(user) == SC!cancelLockOut(user) /\ OnSC(SC!EmitCancelLockout(user))

UserLockout(user, secret) == MC!lockout(user, secret) /\ OnMC(MC!EmitLockoutSecret(user, secret))

CancleLockOut(user) == MC!cancleLockOut(user) /\ OnMC(MC!EmitCancelLockout(user))

-----------------------------------------------------------------------------
(* Transactions of notaries are mined or revert.                           *)
MinedSCLockout(tx) ==
    /\ tx.name = "Lockout"
    /\ mempool' = mempool \ {tx}
    /\ IF SC!Opens(scLockout[tx.account], tx.secret)
       THEN SC!lockout(tx.account, tx.secret) /\ scLog' = scLog \cup {SC!EmitLockout(tx.account)}
       ELSE UNCHANGED scVars
    /\ UNCHANGED <<mcVars, nonces, crashes, nodeVars>>

MinedSCCancelLockOut(tx) ==
    /\ tx.name = "CancelLockOut"
    /\ mempool' = mempool \ {tx}
    /\ IF SC!Lapsed(scLockout[tx.account])
       THEN SC!cancelLockOut(tx.account) /\ scLog' = scLog \cup {SC!EmitCancelLockout(tx.account)}
       ELSE UNCHANGED scVars
    /\ UNCHANGED <<mcVars, nonces, crashes, nodeVars>>

MinedMCPrepareLockout(tx) ==
    LET valid == /\ tx.value > 0 /\ mcLockout[tx.account].value = 0
                 /\ tx.expiration > mcBlock + MinLockoutBlocks
    IN  /\ tx.name = "PrepareLockout"
        /\ mempool' = mempool \ {tx}
        /\ IF valid
           THEN /\ MC!prepareLockoutHTLC(Federation, tx.account, tx.hash, tx.expiration, tx.value)
                /\ mcLog' = mcLog \cup {MC!EmitPrepareLockout(tx.account)}
           ELSE UNCHANGED mcVars
        /\ Noticed(tx, valid, "mc")
        /\ UNCHANGED <<scVars, nonces, crashes, status, db, dealing, saved, fresh, seen, inbox>>

-----------------------------------------------------------------------------
(* The event handlers of CrossChainService.                                *)
\* Mistake: a lock of any status expires.
LockoutExpiresAnyway(lockStatus, expiration, block) == block >= expiration
LockoutExpires(lockStatus, expiration, block) == lockStatus = "Lock" /\ block >= expiration

\* The notary in charge cancels, with a call of the side-chain token.
onMCNewBlockLockout(n, e) ==
    LET expired == {h \in dealing[n] :
                       LockoutExpires(db[n][h].MCLockStatus, db[n][h].MCExpiration, e.block)}
        mine    == {h \in expired : db[n][h].NotaryIDInCharge = n}
    IN  /\ Handling(n, "mc", e, "NewBlock")
        /\ seen' = [seen EXCEPT ![n]["mc"] = e.block]
        /\ db' = [db EXCEPT ![n] = [h \in DOMAIN @ |->
                     IF h \in expired THEN [@[h] EXCEPT !.MCLockStatus = "Expiration"] ELSE @[h]]]
        /\ Send({[name |-> "CancelLockOut", from |-> n, account |-> db[n][h].MCUserAddressHex] :
                     h \in mine})
        /\ Handled(n, "mc", e)
        /\ UNCHANGED <<status, dealing, fresh, session, saved>>

onSCNewBlockLockout(n, e) ==
    LET expired == {h \in dealing[n] :
                       LockoutExpires(db[n][h].SCLockStatus, db[n][h].SCExpiration, e.block)}
    IN  /\ Handling(n, "sc", e, "NewBlock")
        /\ seen' = [seen EXCEPT ![n]["sc"] = e.block]
        /\ db' = [db EXCEPT ![n] = [h \in DOMAIN @ |->
                     IF h \in expired THEN [@[h] EXCEPT !.SCLockStatus = "Expiration"] ELSE @[h]]]
        /\ Handled(n, "sc", e)
        /\ UNCHANGED <<mempool, status, dealing, fresh, session, saved>>

QueryLockout(n, c, e) ==
    /\ Handling(n, c, e, "PrepareLockout")
    /\ Query(n, c, e, IF c = "mc" THEN mcLockout[e.account] ELSE scLockout[e.account])

\* Mistake: all the time left on the side chain is given to the main chain.
calculateMCExpirationWhole(n, scExpiration) ==
    Uint64(seen[n]["mc"] + (scExpiration - seen[n]["sc"]))
calculateMCExpiration(n, scExpiration) ==
    Uint64(seen[n]["mc"] + HalfTheTime(scExpiration - seen[n]["sc"]))

\* scExpiration - event.BlockNumber is unsigned: what expired is far away.
TooShort(lock, block) == Uint64(lock.Expiration - block) <= MinExpiration

\* registerLockout panics on a hash that is empty: the lock is gone already.
onSCPrepareLockout(n, e) ==
    LET hash == e.lock.SecretHash
        info == [MCUserAddressHex |-> Nobody, SCUserAddress |-> e.account,
                 Secret |-> NoSecret, Amount |-> e.lock.value,
                 MCExpiration |-> calculateMCExpiration(n, e.lock.Expiration),
                 SCExpiration |-> e.lock.Expiration,
                 MCLockStatus |-> "None", SCLockStatus |-> "Lock",
                 NotaryIDInCharge |-> Nobody]
    IN  /\ Handling(n, "sc", e, "Queried")
        /\ IF TooShort(e.lock, e.block) THEN Refuse(n, "sc", e)
           ELSE IF hash = SC!Unlocked.SecretHash THEN Panic(n)
           ELSE IF Known(n, hash) THEN Refuse(n, "sc", e)
           ELSE /\ register(n, hash, info)
                /\ Handled(n, "sc", e)
                /\ UNCHANGED <<mempool, status, fresh, seen, session, saved>>

Preparable(info) == info.MCLockStatus = "None" /\ info.SCLockStatus = "Lock" /\ info.Secret = NoSecret

onMCPrepareLockout4Ethereum(n, e) ==
    /\ Handling(n, "mc", e, "Queried")
    /\ LET hash == e.lock.SecretHash
       IN  IF ~Known(n, hash) \/ ~Preparable(db[n][hash]) THEN Refuse(n, "mc", e)
           ELSE Record(n, "mc", e, hash,
                       [db[n][hash] EXCEPT !.MCExpiration = e.lock.Expiration,
                                           !.MCLockStatus = "Lock",
                                           !.MCUserAddressHex = e.account], {})

\* The notary in charge destroys the tokens, whatever the record says of the
\* two locks.  Mistake: it first wants to see the ether locked.
ClaimsTokensLocked(n, info) == info.NotaryIDInCharge = n /\ info.MCLockStatus = "Lock"
ClaimsTokens(n, info)       == info.NotaryIDInCharge = n

onMCLockoutSecret4Ethereum(n, e) ==
    /\ Handling(n, "mc", e, "LockoutSecret")
    /\ LET hash == MC!Sha256(e.secret)
       IN  IF ~Known(n, hash) \/ db[n][hash].Secret # NoSecret THEN Refuse(n, "mc", e)
           ELSE Record(n, "mc", e, hash,
                       [db[n][hash] EXCEPT !.Secret = e.secret, !.MCLockStatus = "Unlock"],
                       IF ClaimsTokens(n, db[n][hash])
                       THEN {[name |-> "Lockout", from |-> n, secret |-> e.secret,
                              account |-> db[n][hash].SCUserAddress]}
                       ELSE {})

onSCLockout(n, e) ==
    /\ Handling(n, "sc", e, "Lockout")
    /\ IF ~Known(n, e.SecretHash) \/ db[n][e.SecretHash].SCUserAddress # e.account
       THEN Refuse(n, "sc", e)
       ELSE Record(n, "sc", e, e.SecretHash,
                   [db[n][e.SecretHash] EXCEPT !.SCLockStatus = "Unlock"], {})

onMCCancelLockout4Ethereum(n, e) ==
    /\ Handling(n, "mc", e, "CancelLockout")
    /\ IF ~Known(n, e.SecretHash) \/ db[n][e.SecretHash].MCUserAddressHex # e.account
       THEN Refuse(n, "mc", e)
       ELSE Record(n, "mc", e, e.SecretHash,
                   [db[n][e.SecretHash] EXCEPT !.MCLockStatus = "Cancel"], {})

onSCCancelLockout(n, e) ==
    /\ Handling(n, "sc", e, "CancelLockout")
    /\ IF ~Known(n, e.SecretHash) \/ db[n][e.SecretHash].SCUserAddress # e.account
       THEN Refuse(n, "sc", e)
       ELSE Record(n, "sc", e, e.SecretHash,
                   [db[n][e.SecretHash] EXCEPT !.SCLockStatus = "Cancel"], {})

-----------------------------------------------------------------------------
(* MC PrepareLockout: a user asks a notary for it.                         *)
LockoutRequested(n, user, hash) ==
    /\ Known(n, hash)
    /\ db[n][hash].SCUserAddress = user
    /\ db[n][hash].SCLockStatus = "Lock"
    /\ db[n][hash].MCLockStatus = "None"

\* The ether goes to the account whose key signs the request.
onMCPrepareLockoutRequest(n, user, account, hash) ==
    /\ LockoutRequested(n, user, hash)
    /\ db[n][hash].MCExpiration > seen[n]["mc"]
    /\ OpenSession(n, hash, user, account, db[n][hash].MCExpiration)

\* The transaction m builds from its own record is the one it is asked to sign;
\* it takes the expiration of the one who asks, late or not.
LockoutSignable(m, hash, s) ==
    /\ status[m] = "up"
    /\ LockoutRequested(m, s.user, hash)
    /\ db[m][hash].Amount - calculateCrossFee(db[m][hash].Amount) = s.amount

\* What a co-signer records.  Mistake: not who is in charge.
LockoutEndorsedForNobody(info, n, expiration) == [info EXCEPT !.MCExpiration = expiration]
LockoutEndorsed(info, n, expiration) ==
    [info EXCEPT !.MCExpiration = expiration, !.NotaryIDInCharge = n]

checkPrepareLockout(n, m, hash) ==
    LET s == session[n][hash]
    IN  Answer(n, m, hash, LockoutSignable(m, hash, s), LockoutEndorsed(db[m][hash], n, s.expiration))

callMCPrepareLockout(n, hash) == callPrepare(n, hash, "PrepareLockout")

-----------------------------------------------------------------------------
HandleLockout(n, c, e) ==
    \/ QueryLockout(n, c, e)
    \/ c = "mc" /\ \/ onMCNewBlockLockout(n, e)
                   \/ onMCPrepareLockout4Ethereum(n, e)
                   \/ onMCLockoutSecret4Ethereum(n, e)
                   \/ onMCCancelLockout4Ethereum(n, e)
    \/ c = "sc" /\ \/ onSCNewBlockLockout(n, e)
                   \/ onSCPrepareLockout(n, e)
                   \/ onSCLockout(n, e)
                   \/ onSCCancelLockout(n, e)

LockoutMined(tx) == MinedSCLockout(tx) \/ MinedSCCancelLockOut(tx) \/ MinedMCPrepareLockout(tx)

LockoutUserStep ==
    \E u \in Users :
        \/ \E s \in Secrets, e \in Expirations, v \in Amounts : UserPrepareLockout(u, SC!Sha256(s), e, v)
        \/ UserCancelLockOut(u) \/ CancleLockOut(u)
        \/ \E s \in Secrets : UserLockout(u, s)
        \/ \E n \in Notaries, a \in Users, s \in Secrets :
              onMCPrepareLockoutRequest(n, u, a, SC!Sha256(s))

LockoutSessionStep(n) ==
    \E s \in Secrets : \/ \E m \in Notaries : checkPrepareLockout(n, m, SC!Sha256(s))
                       \/ callMCPrepareLockout(n, SC!Sha256(s))
                       \/ takeCharge(n, SC!Sha256(s))

LockoutNotaryStep(n) ==
    \/ \E c \in Chains : Poll(n, c) \/ \E e \in inbox[n][c] : HandleLockout(n, c, e)
    \/ LockoutSessionStep(n)

-----------------------------------------------------------------------------
Released(h)  == \E e \in mcLog : e.name = "LockoutSecret" /\ MC!Sha256(e.secret) = h
EtherWithdrawn(h) == Logged(mcLog, "CancelLockout", h)
Destroyed(h) == Logged(scLog, "Lockout", h)
Returned(h)  == Logged(scLog, "CancelLockout", h)
HastyLockout(h) == SameBlock(mcLog, "PrepareLockout", "LockoutSecret", h)

(* Ether leaves the main-chain contract only for tokens that are destroyed *)
(* or still locked, to be destroyed with the secret that is out: nobody    *)
(* gets both the ether (lockout on the main chain) and the tokens back     *)
(* (cancelLockOut on the side chain).                                      *)
ToDestroy(a) == IF \E h \in Hash : Released(h) /\ scLockout[a].SecretHash = h
                THEN scLockout[a].value ELSE 0
ReleasedIsBacked == totalSupply - 1 - SumFunction([a \in Users |-> ToDestroy(a)]) <= held

(* As long as a user can take the ether, the tokens are locked with the    *)
(* same hash and have not expired: the main-chain lock ends first, and     *)
(* leaves time to destroy (calculateMCExpiration halves the time left).    *)
MainLockEndsFirst ==
    \A a \in Users :
        mcLockout[a].value > 0 /\ MC!Alive(mcLockout[a])
        => \E u \in Users : /\ scLockout[u].SecretHash = mcLockout[a].SecretHash
                            /\ scLockout[u].value > 0 /\ SC!Alive(scLockout[u])

(* When every notary has recorded the secret, the transaction that         *)
(* destroys the tokens is on its way or mined (onMCLockoutSecret4Ethereum) *)
(* unless the secret came in the block of the lock.                        *)
LockoutSecretIsActedOn ==
    \A s \in Secrets :
        (\A n \in Notaries : Known(n, SC!Sha256(s)) /\ db[n][SC!Sha256(s)].Secret = s)
        => \/ Destroyed(SC!Sha256(s)) \/ \E tx \in mempool : tx.name = "Lockout" /\ tx.secret = s
           \/ HastyLockout(SC!Sha256(s))

(* Once every notary knows that the ether is locked on the main chain, one *)
(* of them is in charge of the lockout by the records of all others, and   *)
(* by its own once it has the receipt, if nothing stopped it before.       *)
LockoutInChargeAgreed ==
    \A h \in Hash :
        (\A n \in Notaries : Known(n, h) /\ db[n][h].MCLockStatus = "Lock")
        => \E m \in Notaries : AgreedOn(m, h)

(* A record that IsEnd describes a lockout with one outcome: the tokens    *)
(* were destroyed if and only if the ether was released, and returned      *)
(* otherwise.                                                              *)
LockoutEndedIsSettled ==
    \A n \in Notaries : \A h \in DOMAIN db[n] :
        IsEnd(db[n][h]) => (Destroyed(h) <=> Released(h)) /\ (Returned(h) <=> ~Destroyed(h))

(* A record that names an outcome tells the truth about the chains, after  *)
(* any crash: Unlock on the main chain means the ether was released, and   *)
(* so on.                                                                  *)
LockoutRecordsAreTrue ==
    \A n \in Notaries : \A h \in DOMAIN db[n] :
        LET info == db[n][h] IN
        /\ info.MCLockStatus = "Unlock" => Released(h)
        /\ info.MCLockStatus = "Cancel" => EtherWithdrawn(h)
        /\ info.SCLockStatus = "Unlock" => Destroyed(h)
        /\ info.SCLockStatus = "Cancel" => Returned(h)

(* Released ether leads to destroyed tokens, unless it was released in the *)
(* block of the lock; and the ether the notaries lock for a user is        *)
(* released or withdrawn.                                                  *)
ReleasedIsDestroyed == \A h \in Hash : Released(h) ~> Destroyed(h) \/ HastyLockout(h)
EtherLocksEnd == \A h \in Hash : Locked(mcLockout, h) ~> ~Locked(mcLockout, h)
=============================================================================
