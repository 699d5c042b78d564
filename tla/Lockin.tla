------------------------------- MODULE Lockin -------------------------------
(***************************************************************************)
(* The lockin protocol for an Ethereum main chain: users lock ether in     *)
(* LockedEthereum, the notaries lock the same amount of AtmosphereToken    *)
(* for them, a user mints the tokens by publishing the secret, and the     *)
(* notary in charge claims the ether with it.                              *)
(*                                                                         *)
(* On top of CrossChain: the event handlers of a lockin in                 *)
(* service/crosschainservice_onevent.go, its request handler in            *)
(* crosschainservice_onrequest.go, and what service/lockin_handler.go does *)
(* to its records on a new block.                                          *)
(***************************************************************************)
EXTENDS CrossChain

LockinInit == MC!Init /\ SC!Init /\ InitNotaries

-----------------------------------------------------------------------------
(* Users.                                                                  *)
UserPrepareLockin(user, hash, expiration, value) ==
    /\ Cardinality({e \in mcLog : e.name = "PrepareLockin"}) < MaxLocks
    /\ MC!prepareLockin(user, hash, expiration, value)
    /\ OnMC(MC!EmitPrepareLockin(user))

UserCancelLockin(user) == MC!cancelLockin(user) /\ OnMC(MC!EmitCancelLockin(user))

UserLockin(user, secret) == SC!lockin(user, secret) /\ OnSC(SC!EmitLockinSecret(user, secret))

-----------------------------------------------------------------------------
(* Transactions of notaries are mined or revert.                           *)
MinedMCLockin(tx) ==
    /\ tx.name = "Lockin"
    /\ mempool' = mempool \ {tx}
    /\ IF MC!Opens(mcLockin[tx.account], tx.secret)
       THEN MC!lockin(tx.account, tx.secret) /\ mcLog' = mcLog \cup {MC!EmitLockin(tx.account)}
       ELSE UNCHANGED mcVars
    /\ UNCHANGED <<scVars, nonces, crashes, nodeVars>>

MinedSCCancelLockin(tx) ==
    /\ tx.name = "CancelLockin"
    /\ mempool' = mempool \ {tx}
    /\ IF SC!Lapsed(scLockin[tx.account])
       THEN SC!cancelLockin(tx.account) /\ scLog' = scLog \cup {SC!EmitCancelLockin(tx.account)}
       ELSE UNCHANGED scVars
    /\ UNCHANGED <<mcVars, nonces, crashes, nodeVars>>

MinedSCPrepareLockin(tx) ==
    LET free == scLockin[tx.account].value = 0
    IN  /\ tx.name = "PrepareLockin"
        /\ mempool' = mempool \ {tx}
        /\ IF free
           THEN /\ SC!prepareLockin(Federation, tx.account, tx.hash, tx.expiration, tx.value)
                /\ scLog' = scLog \cup {SC!EmitPrepareLockin(tx.account)}
           ELSE UNCHANGED scVars
        /\ Noticed(tx, free, "sc")
        /\ UNCHANGED <<mcVars, nonces, crashes, status, db, dealing, saved, fresh, seen, inbox>>

-----------------------------------------------------------------------------
(* The event handlers of CrossChainService.                                *)
\* Mistake: an expired main-chain lock counts as cancelled.
LockinMCCancelled(info, block) ==
    IF info.MCLockStatus = "Lock" /\ block >= info.MCExpiration
    THEN [info EXCEPT !.MCLockStatus = "Cancel"] ELSE info
LockinMCExpired(info, block) ==
    IF info.MCLockStatus = "Lock" /\ block >= info.MCExpiration
    THEN [info EXCEPT !.MCLockStatus = "Expiration"] ELSE info

\* Mistake: it expires with a block less, and the contract does not let go yet.
LockinSCExpiresSoon(info, block) == info.SCLockStatus = "Lock" /\ block + 1 >= info.SCExpiration
LockinSCExpires(info, block)     == info.SCLockStatus = "Lock" /\ block >= info.SCExpiration

onMCNewBlockLockin(n, e) ==
    /\ Handling(n, "mc", e, "NewBlock")
    /\ seen' = [seen EXCEPT ![n]["mc"] = e.block]
    /\ db' = [db EXCEPT ![n] = [h \in DOMAIN @ |->
                 IF h \in dealing[n] THEN LockinMCExpired(@[h], e.block) ELSE @[h]]]
    /\ Handled(n, "mc", e)
    /\ UNCHANGED <<mempool, status, dealing, fresh, session, saved>>

onSCNewBlockLockin(n, e) ==
    LET expired == {h \in dealing[n] : LockinSCExpires(db[n][h], e.block)}
        mine    == {h \in expired : db[n][h].NotaryIDInCharge = n}
    IN  /\ Handling(n, "sc", e, "NewBlock")
        /\ seen' = [seen EXCEPT ![n]["sc"] = e.block]
        /\ db' = [db EXCEPT ![n] = [h \in DOMAIN @ |->
                     IF h \in expired THEN [@[h] EXCEPT !.SCLockStatus = "Expiration"] ELSE @[h]]]
        /\ Send({[name |-> "CancelLockin", from |-> n, account |-> db[n][h].SCUserAddress] :
                     h \in mine})
        /\ Handled(n, "sc", e)
        /\ UNCHANGED <<status, dealing, fresh, session, saved>>

QueryLockin(n, c, e) ==
    /\ Handling(n, c, e, "PrepareLockin")
    /\ Query(n, c, e, IF c = "mc" THEN mcLockin[e.account] ELSE scLockin[e.account])

\* Mistake: all the time left on the main chain is given to the side chain.
calculateSCExpirationWhole(n, mcExpiration) ==
    Uint64(seen[n]["sc"] + (mcExpiration - seen[n]["mc"]))
calculateSCExpiration(n, mcExpiration) ==
    Uint64(seen[n]["sc"] + HalfTheTime(mcExpiration - seen[n]["mc"]))

onMCPrepareLockin4Ethereum(n, e) ==
    /\ Handling(n, "mc", e, "Queried")
    /\ IF e.lock.Expiration <= MinExpiration + e.block \/ Known(n, e.lock.SecretHash)
       THEN Refuse(n, "mc", e)
       ELSE LET info == [MCUserAddressHex |-> e.account, SCUserAddress |-> Nobody,
                         Secret |-> NoSecret, Amount |-> e.lock.value,
                         MCExpiration |-> e.lock.Expiration,
                         SCExpiration |-> calculateSCExpiration(n, e.lock.Expiration),
                         MCLockStatus |-> "Lock", SCLockStatus |-> "None",
                         NotaryIDInCharge |-> Nobody]
            IN  /\ register(n, e.lock.SecretHash, info)
                /\ Handled(n, "mc", e)
                /\ UNCHANGED <<mempool, status, fresh, seen, session, saved>>

onSCPrepareLockin(n, e) ==
    /\ Handling(n, "sc", e, "Queried")
    /\ LET hash == e.lock.SecretHash
       IN  IF ~Known(n, hash) THEN Refuse(n, "sc", e)
           ELSE Record(n, "sc", e, hash,
                       [db[n][hash] EXCEPT !.SCExpiration = e.lock.Expiration,
                                           !.SCLockStatus = "Lock",
                                           !.SCUserAddress = e.account], {})

\* The notary in charge claims the ether with the secret, whatever the record
\* says of the two locks.  Mistake: it first wants to see the tokens locked.
ClaimsEtherLocked(n, info) == info.NotaryIDInCharge = n /\ info.SCLockStatus = "Lock"
ClaimsEther(n, info)       == info.NotaryIDInCharge = n

onSCLockinSecret(n, e) ==
    /\ Handling(n, "sc", e, "LockinSecret")
    /\ LET hash == SC!Sha256(e.secret)
       IN  IF ~Known(n, hash) \/ db[n][hash].Secret # NoSecret THEN Refuse(n, "sc", e)
           ELSE Record(n, "sc", e, hash,
                       [db[n][hash] EXCEPT !.Secret = e.secret, !.SCLockStatus = "Unlock"],
                       IF ClaimsEther(n, db[n][hash])
                       THEN {[name |-> "Lockin", from |-> n, secret |-> e.secret,
                              account |-> db[n][hash].MCUserAddressHex]}
                       ELSE {})

onMCLockin4Ethereum(n, e) ==
    /\ Handling(n, "mc", e, "Lockin")
    /\ IF ~Known(n, e.SecretHash) \/ db[n][e.SecretHash].MCUserAddressHex # e.account
       THEN Refuse(n, "mc", e)
       ELSE Record(n, "mc", e, e.SecretHash,
                   [db[n][e.SecretHash] EXCEPT !.MCLockStatus = "Unlock"], {})

onMCCancelLockin4Ethereum(n, e) ==
    /\ Handling(n, "mc", e, "CancelLockin")
    /\ IF ~Known(n, e.SecretHash) \/ db[n][e.SecretHash].MCUserAddressHex # e.account
       THEN Refuse(n, "mc", e)
       ELSE Record(n, "mc", e, e.SecretHash,
                   [db[n][e.SecretHash] EXCEPT !.MCLockStatus = "Cancel"], {})

onSCCancelLockin(n, e) ==
    /\ Handling(n, "sc", e, "CancelLockin")
    /\ IF ~Known(n, e.SecretHash) \/ db[n][e.SecretHash].SCUserAddress # e.account
       THEN Refuse(n, "sc", e)
       ELSE Record(n, "sc", e, e.SecretHash,
                   [db[n][e.SecretHash] EXCEPT !.SCLockStatus = "Cancel"], {})

-----------------------------------------------------------------------------
(* SC PrepareLockin: a user asks a notary for it.                          *)

\* getLockInInfoBySCPrepareLockInRequest finds the record of a lockin of that
\* user that is locked on the main chain only.
LockinRequested(n, user, hash) ==
    /\ Known(n, hash)
    /\ db[n][hash].MCUserAddressHex = user
    /\ db[n][hash].MCLockStatus = "Lock"
    /\ db[n][hash].SCLockStatus = "None"

\* A process asks PBFT for the nonce of an operation once in its life.
onSCPrepareLockinRequest(n, user, account, hash) ==
    /\ LockinRequested(n, user, hash)
    /\ OpenSession(n, hash, user, account, db[n][hash].SCExpiration)

\* The transaction m builds from its own record is the one it is asked to sign;
\* it takes the expiration of the one who asks.
LockinSignable(m, hash, s) ==
    /\ status[m] = "up"
    /\ LockinRequested(m, s.user, hash)
    /\ db[m][hash].Amount - calculateCrossFee(db[m][hash].Amount) = s.amount

\* What a co-signer records.  Mistake: not who is in charge.
LockinEndorsedForNobody(info, n, expiration) == [info EXCEPT !.SCExpiration = expiration]
LockinEndorsed(info, n, expiration) ==
    [info EXCEPT !.SCExpiration = expiration, !.NotaryIDInCharge = n]

checkPrepareLockin(n, m, hash) ==
    LET s == session[n][hash]
    IN  Answer(n, m, hash, LockinSignable(m, hash, s), LockinEndorsed(db[m][hash], n, s.expiration))

callSCPrepareLockin(n, hash) == callPrepare(n, hash, "PrepareLockin")

-----------------------------------------------------------------------------
HandleLockin(n, c, e) ==
    \/ QueryLockin(n, c, e)
    \/ c = "mc" /\ \/ onMCNewBlockLockin(n, e)
                   \/ onMCPrepareLockin4Ethereum(n, e)
                   \/ onMCLockin4Ethereum(n, e)
                   \/ onMCCancelLockin4Ethereum(n, e)
    \/ c = "sc" /\ \/ onSCNewBlockLockin(n, e)
                   \/ onSCPrepareLockin(n, e)
                   \/ onSCLockinSecret(n, e)
                   \/ onSCCancelLockin(n, e)

LockinMined(tx) == MinedMCLockin(tx) \/ MinedSCCancelLockin(tx) \/ MinedSCPrepareLockin(tx)

LockinUserStep ==
    \E u \in Users :
        \/ \E s \in Secrets, e \in Expirations, v \in Amounts : UserPrepareLockin(u, MC!Sha256(s), e, v)
        \/ UserCancelLockin(u)
        \/ \E s \in Secrets : UserLockin(u, s)
        \/ \E n \in Notaries, a \in Users, s \in Secrets :
              onSCPrepareLockinRequest(n, u, a, MC!Sha256(s))

LockinSessionStep(n) ==
    \E s \in Secrets : \/ \E m \in Notaries : checkPrepareLockin(n, m, MC!Sha256(s))
                       \/ callSCPrepareLockin(n, MC!Sha256(s))
                       \/ takeCharge(n, MC!Sha256(s))

LockinNotaryStep(n) ==
    \/ \E c \in Chains : Poll(n, c) \/ \E e \in inbox[n][c] : HandleLockin(n, c, e)
    \/ LockinSessionStep(n)

-----------------------------------------------------------------------------
Claimed(h)   == Logged(mcLog, "Lockin", h)
Refunded(h)  == Logged(mcLog, "CancelLockin", h)
Minted(h)    == \E e \in scLog : e.name = "LockinSecret" /\ SC!Sha256(e.secret) = h
TokensWithdrawn(h) == Logged(scLog, "CancelLockin", h)
SetLate(h)         == \E p \in scLog : /\ p.name = "PrepareLockin"
                                       /\ scLockin[p.account].SecretHash = h
                                       /\ scLockin[p.account].Expiration <= p.block
HastyLockin(h)     == SameBlock(scLog, "PrepareLockin", "LockinSecret", h)

(* Every token in circulation is backed by ether in the main-chain         *)
(* contract: no user gets both the tokens (lockin on the side chain) and   *)
(* the refund (cancelLockin on the main chain).                            *)
MintedIsBacked == totalSupply - 1 <= held

(* As long as a user can mint on the side chain, the ether is locked with  *)
(* the same hash and has not expired: the side-chain lock ends first, and  *)
(* leaves time to claim (calculateSCExpiration halves the time left).      *)
SideLockEndsFirst ==
    \A a \in Users :
        scLockin[a].value > 0 /\ SC!Alive(scLockin[a])
        => \E u \in Users : /\ mcLockin[u].SecretHash = scLockin[a].SecretHash
                            /\ mcLockin[u].value > 0 /\ MC!Alive(mcLockin[u])

(* Once every notary knows that the tokens are locked on the side chain,   *)
(* one of them is in charge of the lockin by the records of all others,    *)
(* and by its own once it has the receipt of the transaction whose event   *)
(* it has handled, if nothing stopped it before (NotaryIDInCharge).        *)
LockinInChargeAgreed ==
    \A h \in Hash :
        (\A n \in Notaries : Known(n, h) /\ db[n][h].SCLockStatus = "Lock")
        => \E m \in Notaries : AgreedOn(m, h)

(* When every notary has recorded the secret, a claim of the ether with it *)
(* is on its way or mined (onSCLockinSecret), unless the secret came in    *)
(* the block of the lock.                                                  *)
LockinSecretIsActedOn ==
    \A s \in Secrets :
        (\A n \in Notaries : Known(n, MC!Sha256(s)) /\ db[n][MC!Sha256(s)].Secret = s)
        => \/ Claimed(MC!Sha256(s)) \/ \E tx \in mempool : tx.name = "Lockin" /\ tx.secret = s
           \/ HastyLockin(MC!Sha256(s))

(* A record that IsEnd describes a lockin with one outcome: the ether was  *)
(* claimed if and only if the tokens were minted, and refunded otherwise.  *)
LockinEndedIsSettled ==
    \A n \in Notaries : \A h \in DOMAIN db[n] :
        IsEnd(db[n][h]) => (Claimed(h) <=> Minted(h)) /\ (Refunded(h) <=> ~Claimed(h))

(* A record that names an outcome tells the truth about the chains, after  *)
(* any crash: Unlock on the main chain means the ether was claimed, and so *)
(* on.                                                                     *)
LockinRecordsAreTrue ==
    \A n \in Notaries : \A h \in DOMAIN db[n] :
        LET info == db[n][h] IN
        /\ info.MCLockStatus = "Unlock" => Claimed(h)
        /\ info.MCLockStatus = "Cancel" => Refunded(h)
        /\ info.SCLockStatus = "Unlock" => Minted(h)
        /\ info.SCLockStatus = "Cancel" => TokensWithdrawn(h)

(* Minted tokens lead to claimed ether, unless they were minted in the     *)
(* block of the lock: then the notary in charge may handle the secret      *)
(* before it is in charge, and no claim is ever sent.  And a lock of the   *)
(* notaries' tokens is opened or withdrawn, unless the user took the ether *)
(* back before, or the lock was over when it was set: then the notary may  *)
(* handle its end before it is in charge.                                  *)
MintedIsClaimed == \A h \in Hash : Minted(h) ~> Claimed(h) \/ HastyLockin(h)
TokenLocksEnd == \A h \in Hash : Locked(scLockin, h) ~> \/ ~Locked(scLockin, h) \/ Refunded(h)
                                                       \/ SetLate(h)
=============================================================================
