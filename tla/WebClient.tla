----------------------------- MODULE WebClient -----------------------------
(***************************************************************************)
(* The page with which a user locks ether in and tokens out,               *)
(* cmd/webdemo/dnotary-webdemo/app/test.js, between its helper service     *)
(* (cmd/webdemo/rest), one notary it asks, and the two contracts.          *)
(*                                                                         *)
(* JavaScript runs one callback at a time: each action is one callback, of *)
(* a button, of an answer or of a timer, to its end.  What it is waiting   *)
(* for is in pending; nothing but the mask layer keeps the user from       *)
(* starting something else meanwhile.  A secret stands for itself and its  *)
(* hash, which the page always keeps together.                             *)
(***************************************************************************)
EXTENDS Integers, FiniteSets

CONSTANTS
    User, Federation, Nobody,
    Secrets, NoSecret, \* what generateSecret returns; an unset variable
    Gift,              \* what transfer-to-account gives
    Percents,          \* of the options of the amounts, in tenths
    Lifetime,          \* the 1000 blocks until a lock expires
    MaxMCBlock, MaxSCBlock, EtherSupply, UintMax,     \* bounds of the chains
    HelperFails,       \* may the helper service answer with an Error?
    Lost,              \* the requests whose answers may be lost
    MaxQueries         \* bound: the user asks for no more status queries at once

ASSUME PageNumbers == /\ EtherSupply \in Nat /\ UintMax \in Nat \ {0}
                      /\ Gift \in 0 .. EtherSupply
                      /\ Percents \subseteq 0 .. 10
                      /\ Lifetime \in Nat
                      /\ HelperFails \in BOOLEAN
\* 2^256 wei is more than there is.
ASSUME EtherCanBeCounted == EtherSupply <= UintMax
ASSUME UnsetIsNoSecret == NoSecret \notin Secrets

VARIABLES
    mcBlock, mcRevealed, mcLockin, mcLockout, held,   \* main chain
    scBlock, scRevealed, scLockin, scLockout, balances, totalSupply, allowed,
    owner, newOwner,   \* of both contracts
    wallet,            \* the user's ether outside of the contract
    myaccount,         \* does the page know an address?
    current,           \* currentLockinSecret and currentLockoutSecret
    localStorage,      \* the same two, for the buttons
    balance,           \* mainChainBalance and sideChainBalance, when last asked
    disabled,          \* buttons
    masked,            \* is the mask layer shown?
    pending,           \* answers and timers the page waits for
    queries,           \* answers to queryStatus it waits for
    made,              \* secrets generated so far
    underway,          \* what was asked for, may still be done, and is not waited for
    informed,          \* history: did a status arrive since the last transaction was sent?
    careful            \* history: was every transfer started with informed?

mcVars == <<mcBlock, mcRevealed, mcLockin, mcLockout, held, owner, newOwner>>
scVars == <<scBlock, scRevealed, scLockin, scLockout, balances, totalSupply, allowed, owner, newOwner>>
pageVars == <<myaccount, current, localStorage, balance, disabled, masked, pending, queries, made>>
history == <<informed, careful>>
vars == <<mcVars, scVars, wallet, pageVars, underway, history>>

AllAccounts == {User, Federation}
MC == INSTANCE LockedEthereum WITH
          Accounts <- AllAccounts, Deployer <- Federation,
          MinLockoutBlocks <- 0,
          Amounts <- 0 .. EtherSupply, Expirations <- 0 .. MaxMCBlock + Lifetime,
          MaxBlock <- MaxMCBlock, block <- mcBlock, revealed <- mcRevealed,
          lockin_htlc <- mcLockin, lockout_htlc <- mcLockout
SC == INSTANCE AtmosphereToken WITH
          Accounts <- AllAccounts, Deployer <- Federation,
          Amounts <- 0 .. EtherSupply, Expirations <- 0 .. MaxSCBlock + Lifetime,
          MaxBlock <- MaxSCBlock, block <- scBlock, revealed <- scRevealed,
          lockin_htlc <- scLockin, lockout_htlc <- scLockout

Directions == {"lockin", "lockout"}
\* The transactions the page signs, and the direction whose secret they are for.
Prepares == {"mprepareLockin", "sprepareLockout"}
Claims   == {"slockin", "mlockout"}
Inward   == {"mprepareLockin", "slockin", "mcancelLockin"}
Of(tx)   == IF tx.method \in Inward THEN "lockin" ELSE "lockout"

Tx(method, secret, amount, expiration) ==
    [method |-> method, secret |-> secret, amount |-> amount, expiration |-> expiration]
NoTx == Tx("none", NoSecret, 0, 0)
Waiting(at, tx) == [at |-> at, tx |-> tx]

Init ==
    /\ MC!Init /\ SC!Init
    /\ wallet = 0
    /\ myaccount = FALSE
    /\ current = [d \in Directions |-> NoSecret]
    /\ localStorage = current
    /\ balance = [d \in Directions |-> 0]
    /\ disabled = {"btnTransferEther", "btnMainChainCancelLockin", "btnSideChainCancelLockout"}
    /\ masked = FALSE
    /\ pending = {} /\ queries = 0 /\ made = {}
    /\ underway = {}
    /\ informed = TRUE /\ careful = TRUE

-----------------------------------------------------------------------------
(* What the contracts make of the page's transactions.  The helper service  *)
(* estimates the gas of a call before it is signed, which fails when the   *)
(* call would; the name under which it asks for the cancellation of a      *)
(* lockout is not one it knows.                                            *)
Valid(tx) ==
    \/ tx.method = "mprepareLockin"  /\ mcLockin[User].value = 0 /\ tx.amount > 0 /\ wallet >= tx.amount
    \/ tx.method = "slockin"         /\ SC!Opens(scLockin[User], tx.secret)
    \/ tx.method = "mcancelLockin"   /\ MC!Lapsed(mcLockin[User])
    \/ tx.method = "sprepareLockout" /\ scLockout[User].value = 0 /\ tx.amount > 0
                                     /\ balances[User] >= tx.amount
    \/ tx.method = "mlockout"        /\ MC!Opens(mcLockout[User], tx.secret)

Execute(tx) ==
    \/ /\ \/ /\ tx.method = "mprepareLockin"
             /\ MC!prepareLockin(User, MC!Sha256(tx.secret), tx.expiration, tx.amount)
             /\ wallet' = wallet - tx.amount
          \/ /\ tx.method = "mcancelLockin"
             /\ MC!cancelLockin(User)
             /\ wallet' = wallet + mcLockin[User].value
          \/ /\ tx.method = "mlockout"
             /\ MC!lockout(User, tx.secret)
             /\ wallet' = wallet + mcLockout[User].value
       /\ UNCHANGED scVars
    \/ /\ \/ tx.method = "slockin" /\ SC!lockin(User, tx.secret)
          \/ tx.method = "sprepareLockout"
             /\ SC!prepareLockout(User, SC!Sha256(tx.secret), tx.expiration, tx.amount)
       /\ UNCHANGED <<mcVars, wallet>>

\* The notary's answer to a request for the other chain's lock: the half of
\* the lifetime is left for it.
NotaryLocks(d, secret) ==
    LET hash == MC!Sha256(secret)
    IN  \/ /\ d = "lockin"
           /\ mcLockin[User].value > 0 /\ mcLockin[User].SecretHash = hash
           /\ mcLockin[User].Expiration > mcBlock
           /\ SC!prepareLockin(Federation, User, hash,
                  scBlock + (mcLockin[User].Expiration - mcBlock) \div 2, mcLockin[User].value)
           /\ UNCHANGED <<mcVars, wallet>>
        \/ /\ d = "lockout"
           /\ scLockout[User].value > 0 /\ scLockout[User].SecretHash = hash
           /\ scLockout[User].Expiration > scBlock
           /\ MC!prepareLockoutHTLC(Federation, User, hash,
                  mcBlock + (scLockout[User].Expiration - scBlock) \div 2, scLockout[User].value)
           /\ UNCHANGED <<scVars, wallet>>

-----------------------------------------------------------------------------
(* The mask layer.  Mistake: it is not shown.                              *)
showNoMaskLayer == UNCHANGED masked
showMaskLayer   == masked' = TRUE
hideMaskLayer   == masked' = FALSE

Click(button) == /\ ~masked /\ button \notin disabled
                 /\ UNCHANGED <<mcVars, scVars, wallet, myaccount, localStorage, balance, made,
                                underway, informed>>
Answered(p, at) == /\ p \in pending /\ p.at = at
                   /\ UNCHANGED <<balance, disabled, careful>>

queryStatus == queries' = queries + 1

Becomes(p, at, tx) == pending' = (pending \ {p}) \cup {Waiting(at, tx)}
Ends(p)            == pending' = pending \ {p}

\* A request that ends with an error message; createKey shows no mask.
ComesBack(p) == /\ Ends(p)
                /\ IF p.at = "pubkey2address" THEN UNCHANGED masked ELSE hideMaskLayer
Fails(p) == /\ ComesBack(p)
            /\ UNCHANGED <<mcVars, scVars, wallet, myaccount, current, localStorage, queries, made, informed>>

\* The helper service broadcasts a transaction before it waits for its block,
\* and a notary sets its lock before it answers: an error, or no answer, does
\* not say that nothing will be done.
MayBeServed(p) == \/ UNCHANGED underway
                  \/ p.at \in {"sendTx", "scpreparelockin"} /\ underway' = underway \cup {p}

-----------------------------------------------------------------------------
(* The answer of the helper service to queryStatus: the buttons follow     *)
(* what localStorage says.  Mistake: a transfer that is under way does not *)
(* keep another one from being started.                                    *)
ButtonsToCancel == {b \in disabled : b = "btnCreateKey"}
                   \cup (IF localStorage["lockin"] # NoSecret THEN {} ELSE {"btnMainChainCancelLockin"})
                   \cup (IF localStorage["lockout"] # NoSecret THEN {} ELSE {"btnSideChainCancelLockout"})
Buttons == {b \in disabled : b = "btnCreateKey"}
           \cup (IF myaccount /\ wallet = 0 THEN {} ELSE {"btnTransferEther"})
           \cup (IF localStorage["lockin"] # NoSecret THEN {"btnPrepareLockin"}
                 ELSE {"btnMainChainCancelLockin"})
           \cup (IF localStorage["lockout"] # NoSecret THEN {"btnPrepareLockout"}
                 ELSE {"btnSideChainCancelLockout"})

statusAnswered ==
    /\ queries > 0
    /\ queries' = queries - 1
    /\ balance' = [d \in Directions |-> IF ~myaccount THEN 0
                                        ELSE IF d = "lockin" THEN wallet ELSE balances[User]]
    /\ disabled' = Buttons
    /\ informed' = TRUE
    /\ UNCHANGED <<mcVars, scVars, wallet, myaccount, current, localStorage, masked, pending, made,
                   underway, careful>>

\* An Error, or none at all: the page stays as it is.
statusFails ==
    /\ HelperFails \/ "querystatus" \in Lost
    /\ queries > 0
    /\ queries' = queries - 1
    /\ UNCHANGED <<mcVars, scVars, wallet, myaccount, current, localStorage, balance, disabled, masked,
                   pending, made, underway, history>>

-----------------------------------------------------------------------------
(* The buttons; the ones of a tab appear with the key.                     *)
createKey ==
    /\ Click("btnCreateKey")
    /\ disabled' = disabled \cup {"btnCreateKey"}
    /\ pending' = pending \cup {Waiting("pubkey2address", NoTx)}
    /\ UNCHANGED <<current, masked, queries, careful>>

transfer10Ether ==
    /\ Click("btnTransferEther")
    /\ myaccount
    /\ wallet + held + Gift <= EtherSupply
    /\ showMaskLayer
    /\ pending' = pending \cup {Waiting("transfer-to-account", NoTx)}
    /\ UNCHANGED <<current, disabled, queries, careful>>

Refresh ==
    /\ Click("Refresh")
    /\ queries < MaxQueries
    /\ queryStatus
    /\ UNCHANGED <<current, disabled, masked, pending, careful>>

\* Math.floor of a part of the balance.  Mistake: a multiple of it.
AmountTimes(percent, of) == percent * of
Amount(percent, of)      == (percent * of) \div 10

\* The old secret is forgotten before the amount is checked.
prePare(button, method, percent) ==
    LET tx     == Tx(method, NoSecret, 0, 0)
        amount == Amount(percent, balance[Of(tx)])
    IN  /\ Click(button)
        /\ "btnCreateKey" \in disabled
        /\ made # Secrets
        /\ current' = [current EXCEPT ![Of(tx)] = NoSecret]
        /\ careful' = (careful /\ informed)
        /\ IF amount <= 0 THEN UNCHANGED <<masked, pending>>
           ELSE /\ showMaskLayer
                /\ pending' = pending \cup {Waiting("generateSecret", [tx EXCEPT !.amount = amount])}
        /\ UNCHANGED <<disabled, queries>>

prePareLockin(percent)  == prePare("btnPrepareLockin", "mprepareLockin", percent)
prePareLockout(percent) == prePare("btnPrepareLockout", "sprepareLockout", percent)

\* Both look for the secret of a lockin.
cancel(button, method) ==
    /\ Click(button)
    /\ "btnCreateKey" \in disabled
    /\ current["lockin"] # NoSecret
    /\ showMaskLayer
    /\ pending' = pending \cup {Waiting("generateTx", Tx(method, NoSecret, 0, 0))}
    /\ UNCHANGED <<current, disabled, queries, careful>>

mainChainCancelLockin  == cancel("btnMainChainCancelLockin", "mcancelLockin")
sideChainCancelLockout == cancel("btnSideChainCancelLockout", "scancelLockOut")

-----------------------------------------------------------------------------
(* The answers, and the timers.                                            *)
addressKnown(p) ==
    /\ Answered(p, "pubkey2address")
    /\ Ends(p)
    /\ myaccount' = TRUE
    /\ queryStatus
    /\ UNCHANGED <<mcVars, scVars, wallet, current, localStorage, masked, made, underway, informed>>

etherTransferred(p) ==
    /\ Answered(p, "transfer-to-account")
    /\ Ends(p)
    /\ wallet' = wallet + Gift
    /\ hideMaskLayer
    /\ queryStatus
    /\ UNCHANGED <<mcVars, scVars, myaccount, current, localStorage, made, underway, informed>>

secretGenerated(p) ==
    /\ Answered(p, "generateSecret")
    /\ \E s \in Secrets \ made :
          /\ made' = made \cup {s}
          /\ current' = [current EXCEPT ![Of(p.tx)] = s]
          /\ localStorage' = [localStorage EXCEPT ![Of(p.tx)] = s]
          /\ Becomes(p, "querystatus", [p.tx EXCEPT !.secret = s])
    /\ UNCHANGED <<mcVars, scVars, wallet, myaccount, masked, queries, underway, informed>>

blockNumberKnown(p) ==
    /\ Answered(p, "querystatus")
    /\ LET height == IF Of(p.tx) = "lockin" THEN mcBlock ELSE scBlock
       IN  Becomes(p, "generateTx", [p.tx EXCEPT !.expiration = height + Lifetime])
    /\ UNCHANGED <<mcVars, scVars, wallet, myaccount, current, localStorage, masked, queries, made, underway, informed>>

txGenerated(p) ==
    /\ Answered(p, "generateTx")
    /\ \/ /\ Valid(p.tx)
          /\ Becomes(p, "sendTx", p.tx)
          /\ informed' = FALSE
          /\ UNCHANGED <<mcVars, scVars, wallet, myaccount, current, localStorage, masked, queries, made>>
       \/ ~Valid(p.tx) /\ Fails(p)
    /\ UNCHANGED underway

\* What follows a transaction that was mined.  Mistake: the mask stays.
Forgotten(method) == CASE method = "mlockout" -> {"lockout"}
                       [] method \in {"slockin", "mcancelLockin", "scancelLockOut"} -> {"lockin"}
                       [] OTHER -> {}
UnmaskedByNone(method) == FALSE
Unmasked(method)       == method \in Claims

txMined(p) ==
    /\ queryStatus
    /\ localStorage' = [d \in Directions |-> IF d \in Forgotten(p.tx.method) THEN NoSecret
                                             ELSE localStorage[d]]
    /\ IF p.tx.method \in Prepares THEN Becomes(p, "notify", p.tx) ELSE Ends(p)
    /\ IF Unmasked(p.tx.method) THEN hideMaskLayer ELSE UNCHANGED masked
    /\ UNCHANGED <<myaccount, current, made, informed>>

txSent(p) ==
    /\ Answered(p, "sendTx")
    /\ \/ Valid(p.tx) /\ Execute(p.tx) /\ txMined(p)
       \/ ~Valid(p.tx) /\ Fails(p)
    /\ UNCHANGED underway

\* After 15 seconds.  Nothing to ask for ends with an alert, behind the mask.
notifyNotary(p) ==
    /\ Answered(p, "notify")
    /\ LET secret == current[Of(p.tx)]
       IN  IF secret = NoSecret THEN Ends(p)
           ELSE Becomes(p, "scPrepareLockin", [p.tx EXCEPT !.secret = secret])
    /\ UNCHANGED <<mcVars, scVars, wallet, myaccount, current, localStorage, masked, queries, made, underway, informed>>

doNotifyNotary(p) ==
    /\ Answered(p, "scPrepareLockin")
    /\ Becomes(p, "scpreparelockin", p.tx)
    /\ UNCHANGED <<mcVars, scVars, wallet, myaccount, current, localStorage, masked, queries, made, underway, informed>>

notaryAnswered(p) ==
    /\ Answered(p, "scpreparelockin")
    /\ \/ /\ NotaryLocks(Of(p.tx), p.tx.secret)
          /\ queryStatus
          /\ Becomes(p, "claim", p.tx)
          /\ UNCHANGED <<myaccount, current, localStorage, masked, made, underway, informed>>
       \/ Fails(p) /\ MayBeServed(p)

\* After 15 seconds again: sideChainLockin, or mainChainLockout, which looks
\* for the secret of a lockin.  Without it there is an alert behind the mask.
claim(p) ==
    /\ Answered(p, "claim")
    /\ IF current["lockin"] = NoSecret THEN Ends(p)
       ELSE LET d == Of(p.tx)
            IN  Becomes(p, "generateTx", Tx(IF d = "lockin" THEN "slockin" ELSE "mlockout", current[d], 0, 0))
    /\ UNCHANGED <<mcVars, scVars, wallet, myaccount, current, localStorage, masked, queries, made, underway, informed>>

\* An answer with an Error.
helperFails(p) ==
    /\ HelperFails
    /\ \E at \in {"pubkey2address", "transfer-to-account", "querystatus", "generateTx", "sendTx",
                  "scPrepareLockin"} : Answered(p, at)
    /\ Fails(p) /\ MayBeServed(p)

\* An answer that is lost.  jQuery knows no handler `err`: where the error
\* handler has that name, the page waits on, behind the mask.
Unhandled == {"querystatus", "scPrepareLockin", "scpreparelockin"}
answerLost(p) ==
    /\ \E at \in Lost : Answered(p, at)
    /\ IF p.at \in Unhandled THEN Becomes(p, "unanswered", p.tx) /\ UNCHANGED masked
                             ELSE ComesBack(p)
    /\ MayBeServed(p)
    /\ wallet' \in IF p.at = "transfer-to-account" THEN {wallet, wallet + Gift} ELSE {wallet}
    /\ UNCHANGED <<mcVars, scVars, myaccount, current, localStorage, queries, made, informed>>

\* A transaction gets into a block, or a notary sets its lock, after the page
\* has given it up.
servedLate(p) ==
    /\ p \in underway
    /\ underway' = underway \ {p}
    /\ \/ p.at = "sendTx" /\ Valid(p.tx) /\ Execute(p.tx)
       \/ p.at = "sendTx" /\ ~Valid(p.tx) /\ UNCHANGED <<mcVars, scVars, wallet>>
       \/ p.at = "scpreparelockin" /\ NotaryLocks(Of(p.tx), p.tx.secret)
    /\ UNCHANGED <<pageVars, history>>

-----------------------------------------------------------------------------
(* Blocks, and the notary in charge.                                       *)
MCGrows == MC!newBlock /\ UNCHANGED <<scVars, wallet, pageVars, underway, history>>
SCGrows == SC!newBlock /\ UNCHANGED <<mcVars, wallet, pageVars, underway, history>>

notaryClaims    == /\ \E s \in scRevealed : MC!lockin(User, s)
                   /\ UNCHANGED <<scVars, wallet, pageVars, underway, history>>
notaryDestroys  == /\ \E s \in mcRevealed : SC!lockout(User, s)
                   /\ UNCHANGED <<mcVars, wallet, pageVars, underway, history>>
notaryWithdraws == /\ \/ MC!cancleLockOut(User) /\ UNCHANGED scVars
                      \/ SC!cancelLockin(User) /\ UNCHANGED mcVars
                   /\ UNCHANGED <<wallet, pageVars, underway, history>>

-----------------------------------------------------------------------------
UserClicks == \/ createKey \/ transfer10Ether \/ Refresh
              \/ \E f \in Percents : prePareLockin(f) \/ prePareLockout(f)
              \/ mainChainCancelLockin \/ sideChainCancelLockout

PageRuns ==
    \/ statusAnswered \/ statusFails
    \/ \E p \in pending :
          \/ addressKnown(p) \/ etherTransferred(p) \/ secretGenerated(p) \/ blockNumberKnown(p)
          \/ txGenerated(p) \/ txSent(p) \/ notifyNotary(p) \/ doNotifyNotary(p)
          \/ notaryAnswered(p) \/ claim(p)
          \/ helperFails(p) \/ answerLost(p)

Next == \/ UserClicks \/ PageRuns
        \/ \E p \in underway : servedLate(p)
        \/ MCGrows \/ SCGrows
        \/ notaryClaims \/ notaryDestroys \/ notaryWithdraws

Spec == Init /\ [][Next]_vars

\* Each answer arrives or is lost; timers fire.  What the page no longer waits
\* for need not happen.
FairSpec == Spec /\ WF_vars(PageRuns)

-----------------------------------------------------------------------------
TypeOK ==
    /\ MC!TypeOK /\ SC!TypeOK
    /\ wallet \in 0 .. EtherSupply
    /\ current \in [Directions -> Secrets \cup {NoSecret}]
    /\ localStorage \in [Directions -> made \cup {NoSecret}]
    /\ balance["lockin"] \in 0 .. EtherSupply /\ balance["lockout"] \in 0 .. UintMax
    /\ {myaccount, masked} \subseteq BOOLEAN
    /\ \A p \in pending \cup underway :
          /\ p.tx.amount \in 0 .. (IF Of(p.tx) = "lockin" THEN EtherSupply ELSE UintMax)
          /\ p.tx.secret \in made \cup {NoSecret}

(* The page does one thing at a time: whatever the user clicks while       *)
(* answers and timers are under way, and whichever of them is lost, no     *)
(* second transfer or cancellation is started over the first one's         *)
(* variables (showMaskLayer).                                              *)
OneAtATime == Cardinality({p \in pending : p.at # "pubkey2address"}) <= 1

\* What the user locked and may still lose.
Open(lock, published, secret) ==
    lock.value > 0 /\ secret \notin published /\ lock.SecretHash = MC!Sha256(secret)

(* As long as the user's ether or tokens are locked and the secret is not  *)
(* out, the page holds that secret: only it can finish the transfer        *)
(* (currentLockinSecret and currentLockoutSecret, overwritten by           *)
(* prePareLockin and prePareLockout).  Whatever fails or is lost, and      *)
(* however late a transaction is mined, it is so for a user who starts no  *)
(* transfer before a status has arrived since the last transaction was     *)
(* sent; without that the buttons of doSendTx's error path do not keep it. *)
SecretKept ==
    careful =>
        \A s \in Secrets : /\ Open(mcLockin[User], scRevealed, s) => current["lockin"] = s
                           /\ Open(scLockout[User], mcRevealed, s) => current["lockout"] = s

(* Whenever the page waits for such a user while ether is locked that was  *)
(* not brought over, and a status has arrived since the last transaction   *)
(* was sent, it offers to cancel the lockin and not to start another one   *)
(* (the buttons queryStatus sets from localStorage): a later status        *)
(* repairs what an error of sendTx or of an earlier one has left.          *)
CancelIsOffered ==
    (/\ careful /\ informed
     /\ ~masked /\ pending = {} /\ \E s \in Secrets : Open(mcLockin[User], scRevealed, s))
    => "btnMainChainCancelLockin" \notin disabled /\ "btnPrepareLockin" \in disabled

(* A lockin that was started ends with a page that can be used again, or   *)
(* waits for one of the answers whose loss test.js does not handle: the    *)
(* mask is hidden at the end of each other callback that does not go on.   *)
LockinEnds ==
    (\E p \in pending : p.tx.method \in {"mprepareLockin", "slockin"})
    ~> (~masked \/ \E p \in pending : p.at = "unanswered")
=============================================================================
