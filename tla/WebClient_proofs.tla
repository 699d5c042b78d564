-------------------------- MODULE WebClient_proofs -------------------------
(***************************************************************************)
(* The page does one thing at a time, and for a user who waits for the     *)
(* status it keeps the secret of what is at risk and offers to cancel it,  *)
(* however many secrets, amounts and blocks there are, whichever answers   *)
(* are errors or lost, and however late what was asked for is done.        *)
(***************************************************************************)
EXTENDS WebClient, FiniteSetTheorems, TLAPS

\* What is under way but for the address of a new key.
Busy == {p \in pending : p.at # "pubkey2address"}

\* There is one thing under way at most, and only behind the mask layer.
IInv == /\ \A p, q \in Busy : p = q
        /\ Busy # {} => masked
        /\ masked \in BOOLEAN

(* The number of things under way, without counting (OneAtATime).          *)
LEMMA AtMostOne ==
    ASSUME \A p, q \in Busy : p = q
    PROVE  OneAtATime
<1>1. CASE Busy = {}
  <2>1. Cardinality(Busy) = 0
    BY <1>1, FS_EmptySet
  <2> QED
    BY <2>1 DEF OneAtATime, Busy
<1>2. CASE Busy # {}
  <2>1. PICK p \in Busy : TRUE
    BY <1>2
  <2>2. Busy = {p}
    BY <2>1
  <2>3. Cardinality(Busy) = 1
    BY <2>2, FS_Singleton
  <2> QED
    BY <2>3 DEF OneAtATime, Busy
<1> QED
  BY <1>1, <1>2

(* A click starts something, or nothing, while nothing but the address is  *)
(* under way (Click: the mask layer keeps it from happening otherwise).    *)
LEMMA Starts ==
    ASSUME IInv, masked = FALSE, NEW at, NEW tx,
           pending' = pending \cup {Waiting(at, tx)},
           masked' = TRUE
    PROVE  IInv'
<1>1. Busy = {}
  BY DEF IInv
<1>2. \A p \in Busy' : p = Waiting(at, tx)
  BY <1>1 DEF Busy
<1> QED
  BY <1>2 DEF IInv

(* An answer that only leads to the next request (Becomes).                *)
LEMMA GoesOn ==
    ASSUME IInv, NEW p \in Busy, NEW at, NEW tx,
           Becomes(p, at, tx),
           UNCHANGED masked
    PROVE  IInv'
<1>1. \A q \in Busy' : q = Waiting(at, tx)
  BY DEF IInv, Busy, Becomes
<1>2. masked'
  BY DEF IInv
<1> QED
  BY <1>1, <1>2 DEF IInv

(* An answer after which nothing is asked for (Ends): the mask layer may   *)
(* go with what it was shown for.                                          *)
LEMMA ComesToAnEnd ==
    ASSUME IInv, NEW p \in pending,
           Ends(p),
           UNCHANGED masked \/ (p.at # "pubkey2address" /\ hideMaskLayer)
    PROVE  IInv'
<1>1. \A q \in Busy' : q \in Busy /\ q # p
  BY DEF Busy, Ends
<1>2. CASE UNCHANGED masked
  BY <1>1, <1>2 DEF IInv
<1>3. CASE p.at # "pubkey2address" /\ hideMaskLayer
  <2>1. p \in Busy
    BY <1>3 DEF Busy
  <2>2. Busy' = {}
    BY <1>1, <2>1 DEF IInv
  <2> QED
    BY <1>3, <2>2 DEF IInv, hideMaskLayer
<1> QED
  BY <1>2, <1>3

(* An error message.                                                       *)
LEMMA Failed ==
    ASSUME IInv, NEW p \in pending, ComesBack(p)
    PROVE  IInv'
<1>1. Ends(p) /\ (UNCHANGED masked \/ (p.at # "pubkey2address" /\ hideMaskLayer))
  BY DEF ComesBack
<1> QED
  BY <1>1, ComesToAnEnd

(* What neither starts nor ends anything.                                  *)
LEMMA GoesOnUndisturbed ==
    ASSUME IInv, UNCHANGED <<pending, masked>>
    PROVE  IInv'
BY DEF IInv, Busy

-----------------------------------------------------------------------------
(* The buttons.  Click says that there is no mask layer.                   *)
LEMMA ClickStep ==
    ASSUME IInv, UserClicks
    PROVE  IInv'
<1> USE DEF Click
<1>1. CASE createKey
  <2>1. Busy' = Busy /\ UNCHANGED masked
    BY <1>1 DEF createKey, Busy, Waiting
  <2> QED
    BY <2>1 DEF IInv
<1>2. CASE transfer10Ether
  BY <1>2, Starts DEF transfer10Ether, showMaskLayer, IInv
<1>3. CASE Refresh
  BY <1>3, GoesOnUndisturbed DEF Refresh
<1>4. ASSUME NEW f \in Percents, prePareLockin(f) \/ prePareLockout(f)
      PROVE  IInv'
  <2>1. ~masked
    BY <1>4 DEF prePareLockin, prePareLockout, prePare
  <2>2. CASE UNCHANGED <<masked, pending>>
    BY <2>2, GoesOnUndisturbed
  <2>3. CASE ~UNCHANGED <<masked, pending>>
    <3>1. PICK tx : pending' = pending \cup {Waiting("generateSecret", tx)} /\ showMaskLayer
      BY <1>4, <2>3 DEF prePareLockin, prePareLockout, prePare
    <3> QED
      BY <2>1, <3>1, Starts DEF showMaskLayer, IInv
  <2> QED
    BY <2>2, <2>3
<1>5. CASE mainChainCancelLockin \/ sideChainCancelLockout
  BY <1>5, Starts DEF mainChainCancelLockin, sideChainCancelLockout, cancel, showMaskLayer, IInv
<1> QED
  BY <1>1, <1>2, <1>3, <1>4, <1>5 DEF UserClicks

(* The answers and the timers, each of what is under way.                  *)
LEMMA AnswerStep ==
    ASSUME IInv, PageRuns
    PROVE  IInv'
<1>1. CASE statusAnswered \/ statusFails
  BY <1>1, GoesOnUndisturbed DEF statusAnswered, statusFails
<1>2. ASSUME NEW p \in pending, addressKnown(p)
      PROVE  IInv'
  BY <1>2, ComesToAnEnd DEF addressKnown
<1>3. ASSUME NEW p \in pending, etherTransferred(p)
      PROVE  IInv'
  BY <1>3, ComesToAnEnd DEF etherTransferred, Answered
<1>4. ASSUME NEW p \in pending,
             secretGenerated(p) \/ blockNumberKnown(p) \/ doNotifyNotary(p)
      PROVE  IInv'
  <2>1. p \in Busy /\ UNCHANGED masked
    BY <1>4 DEF secretGenerated, blockNumberKnown, doNotifyNotary, Answered, Busy
  <2>2. PICK at, tx : Becomes(p, at, tx)
    BY <1>4 DEF secretGenerated, blockNumberKnown, doNotifyNotary
  <2> QED
    BY <2>1, <2>2, GoesOn
<1>5. ASSUME NEW p \in pending,
             txGenerated(p) \/ notifyNotary(p) \/ notaryAnswered(p) \/ claim(p)
      PROVE  IInv'
  <2>1. p \in Busy
    BY <1>5 DEF txGenerated, notifyNotary, notaryAnswered, claim, Answered, Busy
  <2>2. CASE Fails(p)
    BY <2>2, Failed DEF Fails
  <2>3. CASE ~Fails(p)
    <3>1. UNCHANGED masked
      BY <1>5, <2>3 DEF txGenerated, notifyNotary, notaryAnswered, claim
    <3>2. Ends(p) \/ \E at, tx : Becomes(p, at, tx)
      BY <1>5, <2>3 DEF txGenerated, notifyNotary, notaryAnswered, claim
    <3> QED
      BY <2>1, <3>1, <3>2, GoesOn, ComesToAnEnd
  <2> QED
    BY <2>2, <2>3
<1>6. ASSUME NEW p \in pending, txSent(p)
      PROVE  IInv'
  <2>1. p \in Busy /\ p.at # "pubkey2address"
    BY <1>6 DEF txSent, Answered, Busy
  <2>2. CASE Fails(p)
    BY <2>2, Failed DEF Fails
  <2>3. CASE txMined(p)
    <3>1. CASE p.tx.method \in Prepares
      <4>1. Becomes(p, "notify", p.tx) /\ UNCHANGED masked
        BY <2>3, <3>1 DEF txMined, Unmasked, Prepares, Claims
      <4> QED
        BY <2>1, <4>1, GoesOn
    <3>2. CASE p.tx.method \notin Prepares
      <4>1. Ends(p) /\ (UNCHANGED masked \/ hideMaskLayer)
        BY <2>3, <3>2 DEF txMined
      <4> QED
        BY <2>1, <4>1, ComesToAnEnd
    <3> QED
      BY <3>1, <3>2
  <2> QED
    BY <1>6, <2>2, <2>3 DEF txSent
<1>7. ASSUME NEW p \in pending, helperFails(p)
      PROVE  IInv'
  BY <1>7, Failed DEF helperFails, Fails
<1>8. ASSUME NEW p \in pending, answerLost(p)
      PROVE  IInv'
  <2>1. CASE p.at \in Unhandled
    <3>1. p \in Busy /\ Becomes(p, "unanswered", p.tx) /\ UNCHANGED masked
      BY <1>8, <2>1 DEF answerLost, Unhandled, Busy
    <3> QED
      BY <3>1, GoesOn
  <2>2. CASE p.at \notin Unhandled
    BY <1>8, <2>2, Failed DEF answerLost
  <2> QED
    BY <2>1, <2>2
<1> QED
  BY <1>1, <1>2, <1>3, <1>4, <1>5, <1>6, <1>7, <1>8 DEF PageRuns

LEMMA Invariance == Spec => []IInv
<1>1. Init => IInv
  BY DEF Init, IInv, Busy
<1>2. IInv /\ [Next]_vars => IInv'
  <2> SUFFICES ASSUME IInv, [Next]_vars
               PROVE  IInv'
    OBVIOUS
  <2>1. CASE UserClicks
    BY <2>1, ClickStep
  <2>2. CASE PageRuns
    BY <2>2, AnswerStep
  <2>3. CASE MCGrows \/ SCGrows \/ \E p \in underway : servedLate(p)
    BY <2>3, GoesOnUndisturbed DEF MCGrows, SCGrows, servedLate, pageVars
  <2>4. CASE notaryClaims \/ notaryDestroys \/ notaryWithdraws
    BY <2>4, GoesOnUndisturbed DEF notaryClaims, notaryDestroys, notaryWithdraws, pageVars
  <2>5. CASE UNCHANGED vars
    BY <2>5, GoesOnUndisturbed DEF vars, pageVars
  <2> QED
    BY <2>1, <2>2, <2>3, <2>4, <2>5 DEF Next
<1> QED
  BY <1>1, <1>2, PTL DEF Spec

(* The page has one transfer or cancellation under way at most, whatever   *)
(* the user clicks, whichever requests fail and whichever answers are      *)
(* lost: the mask layer that showMaskLayer puts over the buttons goes with *)
(* the last request, or stays with one whose loss is not handled.          *)
THEOREM NeverTwoAtATime == Spec => []OneAtATime
<1>1. IInv => OneAtATime
  BY AtMostOne DEF IInv
<1> QED
  BY <1>1, Invariance, PTL

-----------------------------------------------------------------------------
(* The secret of what is at risk.                                          *)

\* The lock a direction starts with, what would open it is published where it
\* ends, and the button, the transactions and the answers of the direction.
Lock(d)      == IF d = "lockin" THEN mcLockin[User] ELSE scLockout[User]
Published(d) == IF d = "lockin" THEN scRevealed ELSE mcRevealed
StartButton(d) == IF d = "lockin" THEN "btnPrepareLockin" ELSE "btnPrepareLockout"
StartTx(d)     == IF d = "lockin" THEN "mprepareLockin" ELSE "sprepareLockout"
ClaimTx(d)     == IF d = "lockin" THEN "slockin" ELSE "mlockout"
CancelButton(d) == IF d = "lockin" THEN "btnMainChainCancelLockin" ELSE "btnSideChainCancelLockout"

\* What is locked, and the transaction that may still lock it after the page has
\* given it up.
AtRisk(d, s) == Open(Lock(d), Published(d), s)
Late(d)      == {p \in underway : p.at = "sendTx" /\ p.tx.method = StartTx(d)}
NoneLate(d)  == Late(d) = {}

\* The page has a secret in both places, and, once a status has arrived, the
\* buttons that localStorage asks for.
Holds(d, s) == /\ current[d] = s /\ localStorage[d] = s
               /\ informed => StartButton(d) \in disabled /\ CancelButton(d) \notin disabled

\* It holds the secret of what is at risk, and of what may come to be; that is
\* one transaction at most, for an empty lock.
Kept(d) == /\ \A s \in Secrets : AtRisk(d, s) => Holds(d, s)
           /\ \A p \in Late(d) : p.tx.secret \in Secrets /\ Holds(d, p.tx.secret) /\ Lock(d).value = 0
           /\ \A p, q \in Late(d) : p = q

\* A transfer is started with nothing at risk, and locks with the secret that
\* the page keeps; it is finished with that secret; and the address of a new key
\* is no transaction.
BeforeTheLock == {"generateSecret", "querystatus", "generateTx", "sendTx"}
OfTransfers   == {"generateSecret", "notify", "scPrepareLockin", "scpreparelockin", "claim"}
StartsWithIt(p, d) ==
    p.tx.method = StartTx(d) /\ p.at \in BeforeTheLock
    => /\ \A s \in Secrets : ~AtRisk(d, s)
       /\ p.at # "generateSecret" => /\ p.tx.secret \in Secrets
                                     /\ p.tx.secret = current[d] /\ p.tx.secret = localStorage[d]
       /\ p.at = "sendTx" => Holds(d, p.tx.secret) /\ Lock(d).value = 0
FinishesWithIt(p, d) == p.tx.method = ClaimTx(d) => p.tx.secret = current[d]
NothingLate(p, d)    == p.tx.method \in {StartTx(d), ClaimTx(d)} => NoneLate(d)
Fine(p) == /\ {"method", "secret"} \subseteq DOMAIN p.tx
           /\ \A d \in Directions : StartsWithIt(p, d) /\ FinishesWithIt(p, d) /\ NothingLate(p, d)
           /\ p.at = "pubkey2address" => p.tx.method = "none"
           /\ p.at \in OfTransfers => p.tx.method \in Prepares

PageShape == /\ DOMAIN current = Directions /\ DOMAIN localStorage = Directions
             /\ User \in DOMAIN mcLockin /\ User \in DOMAIN scLockout

\* What holds for a user who is careful.
Safe == /\ \A d \in Directions : Kept(d)
        /\ \A p \in pending : Fine(p)
SecretInv == PageShape /\ (careful => Safe)

\* A step that puts nothing at risk that was not before.
NoNewRisk == /\ \A d \in Directions, s \in Secrets : AtRisk(d, s)' => AtRisk(d, s)
             /\ \A d \in Directions : Lock(d).value = 0 => Lock(d)'.value = 0
             /\ DOMAIN mcLockin' = DOMAIN mcLockin /\ DOMAIN scLockout' = DOMAIN scLockout

LEMMA ChainsAlone ==
    ASSUME UNCHANGED <<mcVars, scVars>>
    PROVE  NoNewRisk
BY DEF mcVars, scVars, NoNewRisk, AtRisk, Open, Lock, Published, MC!Sha256

\* What a step may do to the buttons and to what is under way.
ButtonsKept == \A d \in Directions : /\ StartButton(d) \in disabled => StartButton(d) \in disabled'
                                     /\ CancelButton(d) \in disabled' => CancelButton(d) \in disabled
InformedKept == informed' => informed /\ ButtonsKept
NoneMoreLate == \A d \in Directions : Late(d)' \subseteq Late(d)

LEMMA HoldsLasts ==
    ASSUME UNCHANGED <<current, localStorage>>, InformedKept, NEW d \in Directions, NEW s, Holds(d, s)
    PROVE  Holds(d, s)'
BY DEF Holds, InformedKept, ButtonsKept, StartButton, CancelButton

LEMMA FineLasts ==
    ASSUME NoNewRisk, NoneMoreLate, UNCHANGED <<current, localStorage>>, InformedKept, NEW p, Fine(p)
    PROVE  Fine(p)'
<1>1. ASSUME NEW d \in Directions PROVE StartsWithIt(p, d)' /\ FinishesWithIt(p, d)' /\ NothingLate(p, d)'
  <2>1. StartsWithIt(p, d) /\ FinishesWithIt(p, d) /\ NothingLate(p, d)
    BY DEF Fine
  <2>2. Holds(d, p.tx.secret) => Holds(d, p.tx.secret)'
    BY HoldsLasts
  <2>3. StartsWithIt(p, d)'
    BY <2>1, <2>2 DEF StartsWithIt, NoNewRisk, StartTx
  <2>4. NothingLate(p, d)'
    BY <2>1 DEF NothingLate, NoneMoreLate, NoneLate, StartTx, ClaimTx
  <2> QED
    BY <2>1, <2>3, <2>4 DEF FinishesWithIt, ClaimTx
<1> QED
  BY <1>1 DEF Fine

LEMMA KeptLasts ==
    ASSUME NoNewRisk, NoneMoreLate, UNCHANGED <<current, localStorage>>, InformedKept,
           NEW d \in Directions, Kept(d)
    PROVE  Kept(d)'
<1>1. \A s : Holds(d, s) => Holds(d, s)'
  BY HoldsLasts
<1>2. \A p \in Late(d)' : p \in Late(d)
  BY DEF NoneMoreLate
<1> QED
  BY <1>1, <1>2 DEF Kept, NoNewRisk

LEMMA ShapeLasts ==
    ASSUME PageShape, NoNewRisk, DOMAIN current' = DOMAIN current, DOMAIN localStorage' = DOMAIN localStorage
    PROVE  PageShape'
BY DEF PageShape, NoNewRisk

LEMMA SecretsAlone ==
    ASSUME SecretInv, NoNewRisk, NoneMoreLate, UNCHANGED <<current, localStorage, careful>>, InformedKept,
           \A p \in pending' : p \in pending \/ (Safe => Fine(p))
    PROVE  SecretInv'
<1>1. PageShape'
  BY ShapeLasts DEF SecretInv
<1>2. Safe => Safe'
  <2> SUFFICES ASSUME Safe PROVE Safe'
    OBVIOUS
  <2>1. \A p \in pending' : Fine(p)
    BY DEF Safe
  <2>2. \A p \in pending' : Fine(p)'
    BY <2>1, FineLasts
  <2>3. \A d \in Directions : Kept(d)'
    BY KeptLasts DEF Safe
  <2> QED
    BY <2>2, <2>3 DEF Safe
<1> QED
  BY <1>1, <1>2 DEF SecretInv

\* Of nothing under way.
LEMMA LateAlone ==
    ASSUME UNCHANGED underway
    PROVE  NoneMoreLate
BY DEF NoneMoreLate, Late, StartTx

LEMMA InformedAlone ==
    ASSUME UNCHANGED disabled, informed' => informed
    PROVE  InformedKept
BY DEF InformedKept, ButtonsKept

LEMMA ClickKeepsSecrets ==
    ASSUME IInv, SecretInv, UserClicks
    PROVE  SecretInv'
<1> USE DEF Click
<1>a. NoNewRisk /\ NoneMoreLate
  BY ChainsAlone, LateAlone DEF UserClicks, createKey, transfer10Ether, Refresh, prePareLockin,
     prePareLockout, prePare, mainChainCancelLockin, sideChainCancelLockout, cancel
<1>1. CASE createKey
  <2>1. Fine(Waiting("pubkey2address", NoTx))
    BY DEF Fine, StartsWithIt, FinishesWithIt, NothingLate, StartTx, ClaimTx, OfTransfers, Waiting, NoTx, Tx
  <2>2. InformedKept
    BY <1>1 DEF createKey, InformedKept, ButtonsKept, StartButton, CancelButton
  <2> QED
    BY <1>1, <1>a, <2>1, <2>2, SecretsAlone DEF createKey
<1>2. CASE transfer10Ether
  <2>1. Fine(Waiting("transfer-to-account", NoTx))
    BY DEF Fine, StartsWithIt, FinishesWithIt, NothingLate, StartTx, ClaimTx, OfTransfers, Waiting, NoTx, Tx
  <2> QED
    BY <1>2, <1>a, <2>1, SecretsAlone, InformedAlone DEF transfer10Ether
<1>3. CASE Refresh
  BY <1>3, <1>a, SecretsAlone, InformedAlone DEF Refresh
<1>4. ASSUME NEW d \in Directions, NEW percent, prePare(StartButton(d), StartTx(d), percent)
      PROVE  SecretInv'
  <2> DEFINE tx == Tx(StartTx(d), NoSecret, 0, 0)
  <2>1. Of(tx) = d
    BY DEF Of, Tx, StartTx, Inward, Directions
  <2>2. /\ current' = [current EXCEPT ![d] = NoSecret] /\ localStorage' = localStorage
        /\ UNCHANGED <<disabled, informed>> /\ careful' = (careful /\ informed) /\ StartButton(d) \notin disabled
    BY <1>4, <2>1 DEF prePare
  <2>3. PageShape'
    BY <1>a, <2>2, ShapeLasts DEF SecretInv
  <2> SUFFICES ASSUME Safe, informed PROVE Safe'
    BY <2>2, <2>3 DEF SecretInv
  <2>4. NoneLate(d) /\ \A s \in Secrets : ~AtRisk(d, s)
    BY <2>2 DEF Safe, Kept, Holds, NoneLate
  <2>5. NoneLate(d)' /\ \A s \in Secrets : ~AtRisk(d, s)'
    BY <1>a, <2>4 DEF NoNewRisk, NoneMoreLate, NoneLate
  <2>6. \A e \in Directions \ {d} : \A s : Holds(e, s) => Holds(e, s)'
    BY <2>2 DEF SecretInv, PageShape, Holds, StartButton, CancelButton
  <2>7. ASSUME NEW e \in Directions PROVE Kept(e)'
    <3>1. CASE e = d
      BY <2>5, <3>1 DEF Kept, NoneLate
    <3>2. CASE e # d
      BY <1>a, <2>6, <3>2 DEF Safe, Kept, NoNewRisk, NoneMoreLate
    <3> QED
      BY <3>1, <3>2
  <2>8. \A p \in pending : p.tx.method = "none" /\ Fine(p)
    <3>1. Busy = {}
      BY <1>4 DEF prePare, IInv
    <3> QED
      BY <3>1 DEF Busy, Safe, Fine
  <2>9. \A p \in pending' : p \in pending \/ \E amount : p = Waiting("generateSecret", [tx EXCEPT !.amount = amount])
    BY <1>4 DEF prePare
  <2>10. \A p \in pending' : Fine(p)'
    <3>1. ASSUME NEW p \in pending PROVE Fine(p)'
      BY <2>8, <3>1 DEF Fine, StartsWithIt, FinishesWithIt, NothingLate, StartTx, ClaimTx, OfTransfers, Prepares
    <3>2. ASSUME NEW amount PROVE Fine(Waiting("generateSecret", [tx EXCEPT !.amount = amount]))'
      <4>1. PICK t : t = [tx EXCEPT !.amount = amount]
        OBVIOUS
      <4>2. t.method = StartTx(d) /\ {"method", "secret"} \subseteq DOMAIN t
        BY <4>1 DEF Tx
      <4>3. Waiting("generateSecret", t).at = "generateSecret" /\ Waiting("generateSecret", t).tx = t
        BY DEF Waiting
      <4>4. \A e \in Directions : t.method # ClaimTx(e) /\ (t.method = StartTx(e) => e = d)
        BY <4>2 DEF StartTx, ClaimTx, Directions
      <4>5. \A e \in Directions : ClaimTx(e)' = ClaimTx(e) /\ StartTx(e)' = StartTx(e)
        BY DEF StartTx, ClaimTx
      <4>6. t.method \in Prepares
        BY <4>2 DEF Prepares, StartTx
      <4> HIDE DEF tx
      <4>7. Fine(Waiting("generateSecret", t))'
        BY <2>5, <4>2, <4>3, <4>4, <4>5, <4>6
        DEF Fine, StartsWithIt, FinishesWithIt, NothingLate, OfTransfers, Waiting, Prepares
      <4> QED
        BY <4>1, <4>7
    <3> QED
      BY <2>9, <3>1, <3>2
  <2> QED
    BY <2>7, <2>10 DEF Safe
<1>5. ASSUME NEW button, NEW method, method \in {"mcancelLockin", "scancelLockOut"},
             cancel(button, method)
      PROVE  SecretInv'
  <2>1. Fine(Waiting("generateTx", Tx(method, NoSecret, 0, 0)))
    BY <1>5 DEF Fine, StartsWithIt, FinishesWithIt, NothingLate, StartTx, ClaimTx, OfTransfers, Waiting, Tx
  <2> QED
    BY <1>5, <1>a, <2>1, SecretsAlone, InformedAlone DEF cancel
<1> QED
  BY <1>1, <1>2, <1>3, <1>4, <1>5
  DEF UserClicks, prePareLockin, prePareLockout, mainChainCancelLockin, sideChainCancelLockout,
      Directions, StartButton, StartTx

\* What is left when one thing has ended, or gone on to what is fine.
LEMMA EndedIsFine ==
    ASSUME NEW p, Ends(p)
    PROVE  \A q \in pending' : q \in pending
BY DEF Ends

LEMMA GoneOnIsFine ==
    ASSUME NEW p, NEW at, NEW tx, Becomes(p, at, tx), Safe => Fine(Waiting(at, tx))
    PROVE  \A q \in pending' : q \in pending \/ (Safe => Fine(q))
BY DEF Becomes

LEMMA FailureKeepsSecrets ==
    ASSUME SecretInv, NEW p, Fails(p), UNCHANGED <<disabled, careful, underway>>
    PROVE  SecretInv'
BY ChainsAlone, EndedIsFine, SecretsAlone, InformedAlone, LateAlone DEF Fails, ComesBack

\* What the page gives up, and may still be served: the one transaction that
\* would lock what the page holds the secret of.
LEMMA GivenUpKeepsSecrets ==
    ASSUME IInv, SecretInv, NEW p \in Busy, MayBeServed(p),
           Ends(p) \/ (p.at # "sendTx" /\ Becomes(p, "unanswered", p.tx)),
           UNCHANGED <<mcVars, scVars, current, localStorage, disabled, informed, careful>>
    PROVE  SecretInv'
<1>a. NoNewRisk /\ InformedKept
  BY ChainsAlone, InformedAlone
<1>1. Safe => Fine(Waiting("unanswered", p.tx))
  BY DEF Safe, Busy, Fine, StartsWithIt, FinishesWithIt, NothingLate, BeforeTheLock, OfTransfers, Waiting
<1>2. \A q \in pending' : q \in pending \/ (Safe => Fine(q))
  BY <1>1, EndedIsFine, GoneOnIsFine
<1>3. CASE UNCHANGED underway \/ p.at # "sendTx"
  <2>1. NoneMoreLate
    BY <1>3 DEF MayBeServed, NoneMoreLate, Late, StartTx
  <2> QED
    BY <1>a, <1>2, <2>1, SecretsAlone
<1>4. CASE p.at = "sendTx" /\ underway' = underway \cup {p}
  <2>1. PageShape'
    BY <1>a, ShapeLasts DEF SecretInv
  <2> SUFFICES ASSUME Safe PROVE Safe'
    BY <2>1 DEF SecretInv
  <2>2. Fine(p)
    BY DEF Safe, Busy
  <2>3. \A q \in pending' : q \in pending /\ q.tx.method = "none"
    BY <1>4 DEF Ends, IInv, Busy, Safe, Fine
  <2>4. \A q \in pending' : Fine(q)'
    BY <2>3 DEF Safe, Fine, StartsWithIt, FinishesWithIt, NothingLate, StartTx, ClaimTx, OfTransfers, Prepares
  <2>5. ASSUME NEW d \in Directions PROVE Kept(d)'
    <3>1. CASE p.tx.method # StartTx(d)
      <4>1. Late(d)' = Late(d)
        BY <1>4, <3>1 DEF Late, StartTx
      <4>2. Kept(d)
        BY DEF Safe
      <4>3. \A s : Holds(d, s) => Holds(d, s)'
        BY <1>a, HoldsLasts
      <4> QED
        BY <1>a, <4>1, <4>2, <4>3 DEF Kept, NoNewRisk
    <3>2. CASE p.tx.method = StartTx(d)
      <4>1. Late(d)' = {p}
        BY <1>4, <2>2, <3>2 DEF Fine, NothingLate, NoneLate, Late, StartTx
      <4>2. /\ \A s \in Secrets : ~AtRisk(d, s)
            /\ p.tx.secret \in Secrets /\ Holds(d, p.tx.secret) /\ Lock(d).value = 0
        BY <1>4, <2>2, <3>2 DEF Fine, StartsWithIt, BeforeTheLock
      <4>3. Holds(d, p.tx.secret)'
        BY <1>a, <4>2, HoldsLasts
      <4> QED
        BY <1>a, <4>1, <4>2, <4>3 DEF Kept, NoNewRisk
    <3> QED
      BY <3>1, <3>2
  <2> QED
    BY <2>4, <2>5 DEF Safe
<1> QED
  BY <1>3, <1>4 DEF MayBeServed

(* The other chain's lock, which the notary sets.                          *)
LEMMA NotaryPutsNothingAtRisk ==
    ASSUME NEW d, NEW secret, NotaryLocks(d, secret)
    PROVE  NoNewRisk
BY DEF NotaryLocks, SC!prepareLockin, MC!prepareLockoutHTLC, mcVars, scVars, NoNewRisk, AtRisk, Open,
       Lock, Published, MC!Sha256

LEMMA SecretGeneratedKeeps ==
    ASSUME IInv, SecretInv, NEW p \in pending, secretGenerated(p)
    PROVE  SecretInv'
<1> DEFINE d == Of(p.tx)
<1>1. p.at = "generateSecret" /\ p \in Busy /\ d \in Directions
  BY DEF secretGenerated, Answered, Busy, Of, Directions
<1>3. PICK s \in Secrets : /\ current' = [current EXCEPT ![d] = s]
                           /\ localStorage' = [localStorage EXCEPT ![d] = s]
                           /\ Becomes(p, "querystatus", [p.tx EXCEPT !.secret = s])
  BY DEF secretGenerated
<1>4. /\ NoNewRisk /\ NoneMoreLate /\ UNCHANGED <<underway, disabled, informed, careful>>
  BY ChainsAlone, LateAlone DEF secretGenerated, Answered
<1>6. PageShape'
  BY <1>3, <1>4, ShapeLasts DEF SecretInv
<1> SUFFICES ASSUME Safe PROVE Safe'
  BY <1>4, <1>6 DEF SecretInv
<1>2. p.tx.method = StartTx(d) /\ Fine(p)
  BY <1>1 DEF Safe, Fine, OfTransfers, Prepares, Of, Inward, StartTx
<1> HIDE DEF d
<1>5. /\ current'[d] = s /\ localStorage'[d] = s
      /\ \A e \in Directions \ {d} : current'[e] = current[e] /\ localStorage'[e] = localStorage[e]
  BY <1>1, <1>3 DEF SecretInv, PageShape
<1>7. NoneLate(d)' /\ \A t \in Secrets : ~AtRisk(d, t) /\ ~AtRisk(d, t)'
  <2>1. NoneLate(d) /\ \A t \in Secrets : ~AtRisk(d, t)
    BY <1>1, <1>2 DEF Fine, StartsWithIt, NothingLate, BeforeTheLock
  <2> QED
    BY <1>1, <1>4, <2>1 DEF NoNewRisk, NoneMoreLate, NoneLate
<1>8. ASSUME NEW e \in Directions PROVE Kept(e)'
  <2>1. CASE e = d
    BY <1>7, <2>1 DEF Kept, NoneLate
  <2>2. CASE e # d
    <3>1. \A t : Holds(e, t) => Holds(e, t)'
      BY <1>4, <1>5, <2>2 DEF Holds, StartButton, CancelButton
    <3> QED
      BY <1>4, <3>1 DEF Safe, Kept, NoNewRisk, NoneMoreLate
  <2> QED
    BY <2>1, <2>2
<1>9. PICK tx : tx = [p.tx EXCEPT !.secret = s]
  OBVIOUS
<1>10. tx.method = StartTx(d) /\ tx.secret = s /\ {"method", "secret"} \subseteq DOMAIN tx
  BY <1>2, <1>9 DEF Fine
<1>11. \A q \in pending' : \/ q \in pending /\ q.tx.method = "none"
                           \/ q = Waiting("querystatus", tx)
  BY <1>1, <1>3, <1>9 DEF Becomes, IInv, Busy, Safe, Fine
<1>12. ASSUME NEW q \in pending' PROVE Fine(q)'
  <2>1. CASE q \in pending /\ q.tx.method = "none"
    BY <2>1 DEF Safe, Fine, StartsWithIt, FinishesWithIt, NothingLate, StartTx, ClaimTx, OfTransfers, Prepares
  <2>2. CASE q = Waiting("querystatus", tx)
    <3>1. q.at = "querystatus" /\ q.tx = tx
      BY <2>2 DEF Waiting
    <3>2. \A e \in Directions : /\ ClaimTx(e)' = ClaimTx(e) /\ StartTx(e)' = StartTx(e)
                                /\ tx.method # ClaimTx(e) /\ (tx.method = StartTx(e) => e = d)
      BY <1>1, <1>10 DEF StartTx, ClaimTx, Directions
    <3> QED
      BY <1>5, <1>7, <1>10, <3>1, <3>2 DEF Fine, StartsWithIt, FinishesWithIt, NothingLate, OfTransfers
  <2> QED
    BY <1>11, <2>1, <2>2
<1> QED
  BY <1>8, <1>12 DEF Safe

\* What a transaction does to what is at risk: a start puts its own secret at
\* risk, a claim publishes its own, a cancellation takes the lock away.
LEMMA Executed ==
    ASSUME PageShape, NEW tx, Execute(tx)
    PROVE  /\ DOMAIN mcLockin' = DOMAIN mcLockin /\ DOMAIN scLockout' = DOMAIN scLockout
           /\ \A d \in Directions, s \in Secrets :
                 AtRisk(d, s)' => \/ AtRisk(d, s)
                                  \/ tx.method = StartTx(d) /\ s = tx.secret
           /\ \A d \in Directions : \/ Lock(d).value = 0 => Lock(d)'.value = 0
                                    \/ tx.method = StartTx(d)
           /\ \A d \in Directions : tx.method = ClaimTx(d) => ~AtRisk(d, tx.secret)'
           /\ tx.method = "mcancelLockin" => /\ Lock("lockin").value # 0
                                             /\ \A s \in Secrets : ~AtRisk("lockin", s)'
           /\ tx.method # "scancelLockOut"
<1> USE DEF AtRisk, Open, Lock, Published, StartTx, ClaimTx, Directions, mcVars, scVars, MC!Sha256, SC!Sha256
<1>1. CASE tx.method = "mprepareLockin"
  BY <1>1 DEF Execute, MC!prepareLockin, PageShape
<1>2. CASE tx.method = "mcancelLockin"
  <2>1. /\ mcLockin' = [mcLockin EXCEPT ![User] = MC!Unlocked] /\ mcLockin[User].value > 0
        /\ UNCHANGED <<mcRevealed, scRevealed, scLockout>>
    BY <1>2 DEF Execute, MC!cancelLockin, MC!Lapsed
  <2>2. mcLockin'[User].value = 0
    BY <2>1 DEF MC!Unlocked, PageShape
  <2>3. mcLockin[User].value # 0
    BY <2>1
  <2> QED
    BY <1>2, <2>1, <2>2, <2>3
<1>3. CASE tx.method = "mlockout"
  BY <1>3 DEF Execute, MC!lockout
<1>4. CASE tx.method = "slockin"
  BY <1>4 DEF Execute, SC!lockin
<1>5. CASE tx.method = "sprepareLockout"
  BY <1>5 DEF Execute, SC!prepareLockout, PageShape
<1>6. tx.method \in {"mprepareLockin", "mcancelLockin", "mlockout", "slockin", "sprepareLockout"}
  BY Zenon DEF Execute
<1> QED
  BY <1>1, <1>2, <1>3, <1>4, <1>5, <1>6

LEMMA TxSentKeeps ==
    ASSUME IInv, SecretInv, NEW p \in pending, txSent(p)
    PROVE  SecretInv'
<1>1. p.at = "sendTx" /\ p \in Busy /\ UNCHANGED <<disabled, careful, underway>>
  BY DEF txSent, Answered, Busy
<1>2. CASE Fails(p)
  BY <1>1, <1>2, FailureKeepsSecrets
<1>3. CASE Execute(p.tx) /\ txMined(p)
  <2> DEFINE m == p.tx.method
  <2>1. current' = current /\ informed' = informed
    BY <1>3 DEF txMined
  <2>2. /\ DOMAIN localStorage' = Directions
        /\ \A d \in Directions : localStorage'[d] = localStorage[d] \/ d \in Forgotten(m)
    BY <1>3 DEF txMined
  <2>3. PageShape'
    BY <1>3, <2>1, <2>2, Executed DEF SecretInv, PageShape
  <2> SUFFICES ASSUME Safe PROVE Safe'
    BY <1>1, <2>3 DEF SecretInv
  <2>4. \A q \in pending' : \/ q \in pending /\ q.tx.method = "none"
                            \/ q = Waiting("notify", p.tx) /\ m \in Prepares
    <3>1. \A q \in pending \ {p} : q.tx.method = "none"
      BY <1>1 DEF IInv, Busy, Safe, Fine
    <3>2. IF m \in Prepares THEN Becomes(p, "notify", p.tx) ELSE Ends(p)
      BY <1>3 DEF txMined
    <3>3. CASE m \in Prepares
      BY <3>1, <3>2, <3>3 DEF Becomes
    <3>4. CASE m \notin Prepares
      BY <3>1, <3>2, <3>4 DEF Ends
    <3> QED
      BY <3>3, <3>4
  <2>5. \A d \in Directions : Late(d)' = Late(d)
    BY <1>1 DEF Late, StartTx
  <2>6. Fine(p)
    BY DEF Safe
  <2>7. \A q \in pending' : Fine(q)'
    <3>1. ASSUME NEW q \in pending, q.tx.method = "none" PROVE Fine(q)'
      BY <3>1 DEF Safe, Fine, StartsWithIt, FinishesWithIt, NothingLate, StartTx, ClaimTx, OfTransfers, Prepares
    <3>2. m \in Prepares => Fine(Waiting("notify", p.tx))'
      BY <2>5, <2>6 DEF Fine, StartsWithIt, FinishesWithIt, NothingLate, NoneLate, StartTx, ClaimTx,
                        BeforeTheLock, OfTransfers, Waiting, Prepares
    <3> QED
      BY <2>4, <3>1, <3>2
  <2>8. ASSUME NEW d \in Directions, d \notin Forgotten(m), NEW s, Holds(d, s) PROVE Holds(d, s)'
    BY <1>1, <2>1, <2>2, <2>8 DEF Holds, StartButton, CancelButton
  <2>9. ASSUME NEW d \in Directions, NEW s \in Secrets, AtRisk(d, s)'
        PROVE  Holds(d, s)'
    <3>1. CASE m = StartTx(d) /\ s = p.tx.secret
      <4>1. Holds(d, s)
        BY <1>1, <2>6, <3>1 DEF Fine, StartsWithIt, BeforeTheLock
      <4>2. Forgotten(m) = {}
        BY <3>1 DEF Forgotten, StartTx
      <4> QED
        BY <2>8, <4>1, <4>2
    <3>2. CASE AtRisk(d, s)
      <4>1. Holds(d, s)
        BY <3>2 DEF Safe, Kept
      <4>2. m # ClaimTx(d)
        BY <1>3, <2>6, <2>9, <4>1, Executed DEF SecretInv, Fine, FinishesWithIt, Holds
      <4>3. ~(m = "mcancelLockin" /\ d = "lockin") /\ m # "scancelLockOut"
        BY <1>3, <2>9, Executed DEF SecretInv
      <4>4. d \notin Forgotten(m)
        BY <4>2, <4>3 DEF Forgotten, ClaimTx, Directions
      <4> QED
        BY <2>8, <4>1, <4>4
    <3> QED
      BY <1>3, <2>9, <3>1, <3>2, Executed DEF SecretInv
  <2>10. ASSUME NEW d \in Directions, NEW q \in Late(d)
         PROVE  q.tx.secret \in Secrets /\ Holds(d, q.tx.secret)' /\ Lock(d)'.value = 0
    <3>1. q.tx.secret \in Secrets /\ Holds(d, q.tx.secret) /\ Lock(d).value = 0
      BY DEF Safe, Kept
    <3>2. m # StartTx(d) /\ m # ClaimTx(d)
      BY <2>6 DEF Fine, NothingLate, NoneLate
    <3>3. ~(m = "mcancelLockin" /\ d = "lockin") /\ m # "scancelLockOut"
      BY <1>3, <3>1, Executed DEF SecretInv
    <3>4. d \notin Forgotten(m)
      BY <3>2, <3>3 DEF Forgotten, ClaimTx, Directions
    <3>5. Lock(d)'.value = 0
      BY <1>3, <3>1, <3>2, Executed DEF SecretInv
    <3> QED
      BY <2>8, <3>1, <3>4, <3>5
  <2>11. \A d \in Directions : Kept(d)'
    BY <2>5, <2>9, <2>10 DEF Safe, Kept
  <2> QED
    BY <2>7, <2>11 DEF Safe
<1> QED
  BY <1>2, <1>3 DEF txSent

(* A transaction mined after the page has given it up (doSendTx of the     *)
(* helper service broadcasts it first).                                    *)
LEMMA ServedLateKeepsSecrets ==
    ASSUME SecretInv, NEW p \in underway, servedLate(p)
    PROVE  SecretInv'
<1>1. /\ UNCHANGED <<current, localStorage, disabled, pending, informed, careful>>
      /\ underway' = underway \ {p}
  BY DEF servedLate, pageVars, history
<1>2. InformedKept /\ NoneMoreLate
  BY <1>1, InformedAlone DEF NoneMoreLate, Late, StartTx
<1>3. CASE NoNewRisk
  BY <1>1, <1>2, <1>3, SecretsAlone
<1>4. CASE p.at = "sendTx" /\ Execute(p.tx)
  <2> DEFINE m == p.tx.method
  <2>1. PageShape'
    BY <1>1, <1>4, Executed DEF SecretInv, PageShape
  <2> SUFFICES ASSUME Safe PROVE Safe'
    BY <1>1, <2>1 DEF SecretInv
  <2>2. \A d \in Directions : \A s : Holds(d, s) => Holds(d, s)'
    BY <1>1, <1>2, HoldsLasts
  <2>3. \A d \in Directions : /\ \A s \in Secrets : AtRisk(d, s)' => AtRisk(d, s) \/ (m = StartTx(d) /\ s = p.tx.secret)
                              /\ Lock(d).value = 0 => Lock(d)'.value = 0 \/ m = StartTx(d)
    BY <1>4, Executed DEF SecretInv
  <2>4. ASSUME NEW d \in Directions PROVE Kept(d)'
    <3>1. CASE m = StartTx(d)
      <4>1. p \in Late(d)
        BY <1>4, <3>1 DEF Late
      <4>2. Late(d)' = {}
        BY <1>1, <4>1 DEF Safe, Kept, Late, StartTx
      <4>3. \A s \in Secrets : AtRisk(d, s)' => Holds(d, s)
        BY <2>3, <4>1 DEF Safe, Kept
      <4> QED
        BY <2>2, <4>2, <4>3 DEF Kept
    <3>2. CASE m # StartTx(d)
      BY <1>2, <2>2, <2>3, <3>2 DEF Safe, Kept, NoneMoreLate
    <3> QED
      BY <3>1, <3>2
  <2>5. ASSUME NEW q \in pending, NEW d \in Directions
        PROVE  StartsWithIt(q, d)' /\ FinishesWithIt(q, d)' /\ NothingLate(q, d)'
    <3>1. StartsWithIt(q, d) /\ FinishesWithIt(q, d) /\ NothingLate(q, d)
      BY DEF Safe, Fine
    <3>2. q.tx.method = StartTx(d) => m # StartTx(d)
      BY <1>4, <3>1 DEF NothingLate, NoneLate, Late
    <3>3. StartsWithIt(q, d)'
      BY <1>1, <2>2, <2>3, <3>1, <3>2 DEF StartsWithIt, StartTx
    <3>4. NothingLate(q, d)'
      BY <1>2, <3>1 DEF NothingLate, NoneMoreLate, NoneLate, StartTx, ClaimTx
    <3> QED
      BY <1>1, <3>1, <3>3, <3>4 DEF FinishesWithIt, ClaimTx
  <2>6. \A q \in pending' : Fine(q)'
    BY <1>1, <2>5 DEF Safe, Fine
  <2> QED
    BY <2>4, <2>6 DEF Safe
<1>5. NoNewRisk \/ (p.at = "sendTx" /\ Execute(p.tx))
  BY ChainsAlone, NotaryPutsNothingAtRisk DEF servedLate, mcVars, scVars
<1> QED
  BY <1>3, <1>4, <1>5

LEMMA AnswerKeepsSecrets ==
    ASSUME IInv, SecretInv, PageRuns
    PROVE  SecretInv'
<1>1. CASE statusAnswered
  <2>1. /\ NoNewRisk /\ NoneMoreLate /\ UNCHANGED <<current, localStorage, pending, careful, underway>>
    BY <1>1, ChainsAlone, LateAlone DEF statusAnswered
  <2>2. PageShape'
    BY <2>1, ShapeLasts DEF SecretInv
  <2> SUFFICES ASSUME Safe PROVE Safe'
    BY <2>1, <2>2 DEF SecretInv
  <2>3. ASSUME NEW d \in Directions, NEW s \in Secrets, Holds(d, s) PROVE Holds(d, s)'
    <3>1. localStorage[d] # NoSecret
      BY <2>3, UnsetIsNoSecret DEF Holds
    <3>2. StartButton(d) \in disabled' /\ CancelButton(d) \notin disabled'
      BY <1>1, <3>1 DEF statusAnswered, Buttons, StartButton, CancelButton, Directions
    <3> QED
      BY <2>1, <2>3, <3>2 DEF Holds, StartButton, CancelButton
  <2>4. \A d \in Directions : Kept(d)'
    BY <2>1, <2>3 DEF Safe, Kept, NoNewRisk, NoneMoreLate
  <2>5. ASSUME NEW p \in pending PROVE Fine(p)'
    <3>1. ASSUME NEW d \in Directions PROVE StartsWithIt(p, d)' /\ FinishesWithIt(p, d)' /\ NothingLate(p, d)'
      <4>1. StartsWithIt(p, d) /\ FinishesWithIt(p, d) /\ NothingLate(p, d)
        BY DEF Safe, Fine
      <4>2. StartsWithIt(p, d)'
        BY <2>1, <2>3, <4>1 DEF StartsWithIt, NoNewRisk, StartTx, BeforeTheLock
      <4>3. NothingLate(p, d)'
        BY <2>1, <4>1 DEF NothingLate, NoneMoreLate, NoneLate, StartTx, ClaimTx
      <4> QED
        BY <2>1, <4>1, <4>2, <4>3 DEF FinishesWithIt, ClaimTx
    <3> QED
      BY <3>1 DEF Safe, Fine
  <2> QED
    BY <2>1, <2>4, <2>5 DEF Safe
<1>2. CASE statusFails
  BY <1>2, ChainsAlone, LateAlone, InformedAlone, SecretsAlone DEF statusFails, history
<1>3. ASSUME NEW p \in pending, addressKnown(p) \/ etherTransferred(p) PROVE SecretInv'
  <2>1. /\ NoNewRisk /\ NoneMoreLate /\ InformedKept /\ UNCHANGED <<current, localStorage, careful>> /\ Ends(p)
    BY <1>3, ChainsAlone, LateAlone, InformedAlone DEF addressKnown, etherTransferred, Answered
  <2> QED
    BY <2>1, EndedIsFine, SecretsAlone
<1>4. ASSUME NEW p \in pending, Fails(p), UNCHANGED <<disabled, careful, underway>> PROVE SecretInv'
  BY <1>4, FailureKeepsSecrets
<1>5. ASSUME NEW p \in pending, p.at # "pubkey2address", Fails(p), MayBeServed(p),
             UNCHANGED <<disabled, careful>>
      PROVE  SecretInv'
  BY <1>5, GivenUpKeepsSecrets DEF Fails, ComesBack, Busy
<1>6. ASSUME NEW p \in pending, helperFails(p) PROVE SecretInv'
  <2>1. Fails(p) /\ MayBeServed(p) /\ UNCHANGED <<disabled, careful>>
    BY <1>6 DEF helperFails, Answered
  <2>2. CASE p.at = "pubkey2address"
    BY <1>4, <2>1, <2>2 DEF MayBeServed
  <2> QED
    BY <1>5, <2>1, <2>2
<1>7. ASSUME NEW p \in pending, answerLost(p) PROVE SecretInv'
  <2>1. /\ UNCHANGED <<mcVars, scVars, current, localStorage, disabled, informed, careful>>
        /\ MayBeServed(p) /\ (Ends(p) \/ (p.at # "sendTx" /\ Becomes(p, "unanswered", p.tx)))
    BY <1>7 DEF answerLost, Answered, Unhandled, ComesBack
  <2>2. CASE p.at = "pubkey2address"
    <3>1. Ends(p) /\ UNCHANGED underway
      BY <1>7, <2>2 DEF answerLost, Unhandled, ComesBack, MayBeServed
    <3> QED
      BY <2>1, <3>1, ChainsAlone, LateAlone, InformedAlone, EndedIsFine, SecretsAlone
  <2>3. CASE p.at # "pubkey2address"
    BY <2>1, <2>3, GivenUpKeepsSecrets DEF Busy
  <2> QED
    BY <2>2, <2>3
<1>8. ASSUME NEW p \in pending, NEW at, NEW tx, Becomes(p, at, tx), Safe => Fine(Waiting(at, tx)),
             UNCHANGED <<mcVars, scVars, current, localStorage, disabled, underway, careful>>,
             informed' => informed
      PROVE  SecretInv'
  BY <1>8, ChainsAlone, LateAlone, InformedAlone, GoneOnIsFine, SecretsAlone
<1>9. ASSUME NEW p \in pending, blockNumberKnown(p) PROVE SecretInv'
  <2>1. PICK expiration : Becomes(p, "generateTx", [p.tx EXCEPT !.expiration = expiration])
    BY <1>9 DEF blockNumberKnown
  <2>2. Safe => Fine(Waiting("generateTx", [p.tx EXCEPT !.expiration = expiration]))
    BY <1>9 DEF blockNumberKnown, Answered, Safe, Fine, StartsWithIt, FinishesWithIt, NothingLate,
                BeforeTheLock, OfTransfers, Waiting
  <2> QED
    BY <1>8, <1>9, <2>1, <2>2 DEF blockNumberKnown, Answered
<1>10. ASSUME NEW p \in pending, txGenerated(p) PROVE SecretInv'
  <2>1. p.at = "generateTx" /\ UNCHANGED <<disabled, careful, underway>>
    BY <1>10 DEF txGenerated, Answered
  <2>2. CASE Fails(p)
    BY <1>4, <2>1, <2>2
  <2>3. CASE ~Fails(p)
    <3>1. /\ Valid(p.tx) /\ Becomes(p, "sendTx", p.tx) /\ informed' = FALSE
          /\ UNCHANGED <<mcVars, scVars, current, localStorage>>
      BY <1>10, <2>3 DEF txGenerated
    <3>2. NoNewRisk /\ NoneMoreLate /\ InformedKept
      BY <2>1, <3>1, ChainsAlone, LateAlone, InformedAlone
    <3>3. PageShape'
      BY <3>1, <3>2, ShapeLasts DEF SecretInv
    <3> SUFFICES ASSUME Safe PROVE Safe'
      BY <2>1, <3>3 DEF SecretInv
    <3>4. \A d \in Directions : Kept(d)'
      BY <3>1, <3>2, KeptLasts DEF Safe
    <3>5. \A q \in pending : Fine(q)'
      BY <3>1, <3>2, FineLasts DEF Safe
    <3>6. \A d \in Directions : p.tx.method = StartTx(d) => Lock(d)'.value = 0
      <4>1. \A d \in Directions : p.tx.method = StartTx(d) => Lock(d).value = 0
        BY <3>1 DEF Valid, StartTx, Lock, Directions
      <4> QED
        BY <3>2, <4>1 DEF NoNewRisk
    <3>7. Fine(p)'
      BY <3>5
    <3>8. \A d \in Directions : p.tx.method = StartTx(d) => Holds(d, p.tx.secret)'
      BY <2>1, <3>1, <3>7 DEF Fine, StartsWithIt, BeforeTheLock, Holds, StartTx
    <3>9. Fine(Waiting("sendTx", p.tx))'
      <4>1. Waiting("sendTx", p.tx).at = "sendTx" /\ Waiting("sendTx", p.tx).tx = p.tx
        BY DEF Waiting
      <4>2. \A d \in Directions : StartTx(d)' = StartTx(d)
        BY DEF StartTx
      <4> QED
        BY <2>1, <3>6, <3>7, <3>8, <4>1, <4>2
        DEF Fine, StartsWithIt, FinishesWithIt, NothingLate, BeforeTheLock, OfTransfers, Waiting
    <3>10. \A q \in pending' : q \in pending \/ q = Waiting("sendTx", p.tx)
      BY <3>1 DEF Becomes
    <3> QED
      BY <3>4, <3>5, <3>9, <3>10 DEF Safe
  <2> QED
    BY <2>2, <2>3
<1>11. ASSUME NEW p \in pending, notifyNotary(p) PROVE SecretInv'
  <2> DEFINE secret == current[Of(p.tx)]
  <2>1. CASE secret = NoSecret
    <3>1. NoNewRisk /\ NoneMoreLate /\ InformedKept /\ UNCHANGED <<current, localStorage, careful>> /\ Ends(p)
      BY <1>11, <2>1, ChainsAlone, LateAlone, InformedAlone DEF notifyNotary, Answered
    <3> QED
      BY <3>1, EndedIsFine, SecretsAlone
  <2>2. CASE secret # NoSecret
    <3>1. Becomes(p, "scPrepareLockin", [p.tx EXCEPT !.secret = secret])
      BY <1>11, <2>2 DEF notifyNotary
    <3>2. \A d \in Directions : p.tx.method = ClaimTx(d) => d = Of(p.tx)
      BY DEF Directions, ClaimTx, Of, Inward
    <3>0. p.at = "notify"
      BY <1>11 DEF notifyNotary, Answered
    <3>3. Safe => Fine(Waiting("scPrepareLockin", [p.tx EXCEPT !.secret = secret]))
      BY <3>0, <3>2 DEF Safe, Fine, StartsWithIt, FinishesWithIt, NothingLate, BeforeTheLock, OfTransfers, Waiting
    <3> QED
      BY <1>8, <1>11, <3>1, <3>3 DEF notifyNotary, Answered
  <2> QED
    BY <2>1, <2>2
<1>12. ASSUME NEW p \in pending, doNotifyNotary(p) PROVE SecretInv'
  <2>1. p.at = "scPrepareLockin"
    BY <1>12 DEF doNotifyNotary, Answered
  <2>2. Safe => Fine(Waiting("scpreparelockin", p.tx))
    BY <2>1 DEF Safe, Fine, StartsWithIt, FinishesWithIt, NothingLate, BeforeTheLock, OfTransfers, Waiting
  <2> QED
    BY <1>8, <1>12, <2>2 DEF doNotifyNotary, Answered
<1>13. ASSUME NEW p \in pending, notaryAnswered(p) PROVE SecretInv'
  <2>1. p.at = "scpreparelockin" /\ UNCHANGED <<disabled, careful>>
    BY <1>13 DEF notaryAnswered, Answered
  <2>2. CASE Fails(p) /\ MayBeServed(p)
    BY <1>5, <2>1, <2>2
  <2>3. CASE ~(Fails(p) /\ MayBeServed(p))
    <3>1. Safe => Fine(Waiting("claim", p.tx))
      BY <2>1 DEF Safe, Fine, StartsWithIt, FinishesWithIt, NothingLate, BeforeTheLock, OfTransfers, Waiting
    <3>2. /\ NoNewRisk /\ UNCHANGED <<current, localStorage, underway, informed>>
          /\ Becomes(p, "claim", p.tx)
      BY <1>13, <2>3, NotaryPutsNothingAtRisk DEF notaryAnswered
    <3> QED
      BY <2>1, <3>1, <3>2, LateAlone, InformedAlone, GoneOnIsFine, SecretsAlone
  <2> QED
    BY <2>2, <2>3
<1>14. ASSUME NEW p \in pending, claim(p) PROVE SecretInv'
  <2>1. CASE Ends(p)
    <3>1. NoNewRisk /\ NoneMoreLate /\ InformedKept /\ UNCHANGED <<current, localStorage, careful>>
      BY <1>14, ChainsAlone, LateAlone, InformedAlone DEF claim, Answered
    <3> QED
      BY <2>1, <3>1, EndedIsFine, SecretsAlone
  <2>2. CASE ~Ends(p)
    <3>1. PICK d \in Directions : d = Of(p.tx)
      BY DEF Of, Directions
    <3>2. PICK tx : tx = Tx(ClaimTx(d), current[d], 0, 0) /\ Becomes(p, "generateTx", tx)
      BY <1>14, <2>2, <3>1 DEF claim, ClaimTx
    <3>3. /\ tx.method = ClaimTx(d) /\ tx.secret = current[d] /\ {"method", "secret"} \subseteq DOMAIN tx
          /\ \A e \in Directions : tx.method # StartTx(e) /\ (tx.method = ClaimTx(e) => e = d)
      BY <3>2 DEF Tx, ClaimTx, StartTx, Directions
    <3>4. Safe => NoneLate(d)
      <4> SUFFICES ASSUME Safe PROVE NoneLate(d)
        OBVIOUS
      <4>1. p.tx.method \in Prepares
        BY <1>14 DEF claim, Answered, Safe, Fine, OfTransfers
      <4>2. p.tx.method = StartTx(d)
        BY <3>1, <4>1 DEF Prepares, StartTx, Of, Inward
      <4> QED
        BY <4>2 DEF Safe, Fine, NothingLate
    <3>5. Safe => Fine(Waiting("generateTx", tx))
      BY <3>3, <3>4 DEF Fine, StartsWithIt, FinishesWithIt, NothingLate, OfTransfers, Waiting
    <3> QED
      BY <1>8, <1>14, <3>2, <3>5 DEF claim, Answered
  <2> QED
    BY <2>1, <2>2
<1> QED
  BY <1>1, <1>2, <1>3, <1>6, <1>7, <1>9, <1>10, <1>11, <1>12, <1>13, <1>14, SecretGeneratedKeeps, TxSentKeeps
  DEF PageRuns

(* For a user who starts no transfer before a status has arrived since the *)
(* last transaction was sent, nothing makes the page forget the secret of  *)
(* what is locked and not out: SecretKept needs to know that the buttons   *)
(* follow localStorage once a status has arrived, that one thing is done   *)
(* at a time, what a transfer under way is going to lock with, and what    *)
(* may still be locked with after the page has given it up.                *)
LEMMA SecretsAreSafe == Spec => []SecretInv
<1>1. Init => SecretInv
  <2> SUFFICES ASSUME Init PROVE SecretInv
    OBVIOUS
  <2>1. PageShape
    BY DEF Init, PageShape, MC!Init, SC!Init, AllAccounts
  <2>2. \A d \in Directions, s \in Secrets : ~AtRisk(d, s)
    BY DEF Init, MC!Init, SC!Init, MC!Unlocked, SC!Unlocked, AtRisk, Open, Lock, AllAccounts
  <2>3. pending = {} /\ \A d \in Directions : Late(d) = {}
    BY DEF Init, Late
  <2> QED
    BY <2>1, <2>2, <2>3 DEF SecretInv, Safe, Kept
<1>2. IInv /\ SecretInv /\ [Next]_vars => SecretInv'
  <2> SUFFICES ASSUME IInv, SecretInv, [Next]_vars PROVE SecretInv'
    OBVIOUS
  <2>1. CASE UserClicks
    BY <2>1, ClickKeepsSecrets
  <2>2. CASE PageRuns
    BY <2>2, AnswerKeepsSecrets
  <2>3. ASSUME NoNewRisk, UNCHANGED <<pageVars, underway, history>> PROVE SecretInv'
    BY <2>3, SecretsAlone, LateAlone, InformedAlone DEF pageVars, history
  <2>4. ASSUME NEW p \in underway, servedLate(p) PROVE SecretInv'
    BY <2>4, ServedLateKeepsSecrets
  <2> USE DEF NoNewRisk, AtRisk, Open, Lock, Published, MC!Sha256
  <2>5. CASE MCGrows \/ SCGrows
    BY <2>3, <2>5 DEF MCGrows, SCGrows, MC!newBlock, SC!newBlock, mcVars, scVars
  <2>6. CASE notaryClaims
    <3>1. /\ DOMAIN mcLockin' = DOMAIN mcLockin /\ mcLockin'[User].value = 0
          /\ UNCHANGED <<scVars, pageVars, underway, history>> /\ mcRevealed \subseteq mcRevealed'
      BY <2>6 DEF notaryClaims, MC!lockin, MC!Unlocked, SecretInv, PageShape
    <3> QED
      BY <2>3, <3>1 DEF scVars
  <2>7. CASE notaryDestroys
    <3>1. /\ DOMAIN scLockout' = DOMAIN scLockout /\ scLockout'[User].value = 0
          /\ UNCHANGED <<mcVars, pageVars, underway, history>> /\ scRevealed \subseteq scRevealed'
      BY <2>7 DEF notaryDestroys, SC!lockout, SC!Unlocked, SecretInv, PageShape
    <3> QED
      BY <2>3, <3>1 DEF mcVars
  <2>8. CASE notaryWithdraws
    BY <2>3, <2>8 DEF notaryWithdraws, MC!cancleLockOut, SC!cancelLockin, mcVars, scVars
  <2>9. CASE UNCHANGED vars
    BY <2>3, <2>9 DEF vars, mcVars, scVars
  <2> QED
    BY <2>1, <2>2, <2>4, <2>5, <2>6, <2>7, <2>8, <2>9 DEF Next
<1> QED
  BY <1>1, <1>2, Invariance, PTL DEF Spec

(* While a careful user's ether or tokens are locked and the secret is not *)
(* out, the page holds that secret (currentLockinSecret,                   *)
(* currentLockoutSecret), whichever answers fail or are lost.              *)
THEOREM SecretIsKept == Spec => []SecretKept
<1>1. SecretInv => SecretKept
  BY DEF SecretInv, Safe, Kept, Holds, SecretKept, AtRisk, Lock, Published, Directions
<1> QED
  BY <1>1, SecretsAreSafe, PTL

(* Whenever it waits for a careful user while ether is locked that was not *)
(* brought over, and a status has arrived since the last transaction was   *)
(* sent, it offers to cancel and not to start another lockin (the buttons  *)
(* queryStatus sets).                                                      *)
THEOREM CancelIsAlwaysOffered == Spec => []CancelIsOffered
<1>1. SecretInv => CancelIsOffered
  BY DEF SecretInv, Safe, Kept, Holds, CancelIsOffered, AtRisk, Lock, Published, Directions, StartButton,
         CancelButton
<1> QED
  BY <1>1, SecretsAreSafe, PTL
-----------------------------------------------------------------------------
(* What the page reads and sends is bounded by the ether there is, and by  *)
(* what a uint256 holds.                                                   *)

\* A transaction, and what is under way: the secret of a transfer is set before
\* its transaction is asked for.
Methods == {"none", "mcancelLockin", "scancelLockOut"} \cup Prepares \cup Claims
IsTx(tx) == /\ tx \in [method : Methods, secret : made \cup {NoSecret}, amount : 0 .. UintMax, expiration : Nat]
            /\ Of(tx) = "lockin" => tx.amount <= EtherSupply
Typed(p) == /\ IsTx(p.tx)
            /\ p.tx.method \in Prepares /\ p.at # "generateSecret" => p.tx.secret \in made

\* The ether the user was promised, and the user's ether, wherever it is.
Coming == IF \E p \in pending : p.at = "transfer-to-account" THEN Gift ELSE 0
EtherTyped == /\ wallet \in Nat /\ wallet + held + Coming <= EtherSupply
              /\ mcLockin[User].value <= EtherSupply

PageTyped == /\ {myaccount, masked} \subseteq BOOLEAN /\ made \subseteq Secrets
             /\ {current, localStorage} \subseteq [Directions -> made \cup {NoSecret}]
             /\ balance["lockin"] \in 0 .. EtherSupply /\ balance["lockout"] \in 0 .. UintMax

TypeInv == /\ MC!TypeOK /\ SC!TypeOK /\ PageTyped /\ EtherTyped
           /\ \A p \in pending \cup underway : Typed(p)

-----------------------------------------------------------------------------
LEMMA TheUserOnly == User \in AllAccounts /\ Federation \in AllAccounts
BY DEF AllAccounts

LEMMA AllDirections == \A tx : Of(tx) \in Directions
BY DEF Of, Directions

\* Both contracts' digests and locks are the same.
LEMMA Digests ==
    /\ MC!Hashes = SC!Hashes /\ MC!LockRecord = SC!LockRecord /\ MC!Unlocked = SC!Unlocked
    /\ \A s : SC!Sha256(s) = MC!Sha256(s)
    /\ \A s : MC!Sha256(s) \in MC!Hashes <=> s \in Secrets
    /\ MC!Unlocked \in MC!LockRecord /\ MC!Unlocked.value = 0 /\ MC!Unlocked.value \in SC!uint256
<1>1. 0 \in SC!uint256
  BY PageNumbers DEF SC!uint256
<1> QED
  BY <1>1 DEF MC!Hashes, SC!Hashes, MC!LockRecord, SC!LockRecord, MC!Unlocked, SC!Unlocked, MC!Sha256,
              SC!Sha256, MC!EmptyHash, SC!EmptyHash

LEMMA ValuesAreNatural ==
    ASSUME TypeInv
    PROVE  /\ {mcLockin[User], scLockin[User], mcLockout[User], scLockout[User]} \subseteq MC!LockRecord
           /\ {scLockin[User].value, scLockout[User].value, balances[User]} \subseteq 0 .. UintMax
           /\ {wallet, held, Coming, mcBlock, scBlock, EtherSupply, UintMax, Gift} \subseteq Nat
<1>1. {mcLockin[User], scLockin[User], mcLockout[User], scLockout[User]} \subseteq MC!LockRecord
  BY TheUserOnly, Digests DEF TypeInv, MC!TypeOK, SC!TypeOK
<1>2. {scLockin[User].value, scLockout[User].value, balances[User]} \subseteq 0 .. UintMax
  BY TheUserOnly DEF TypeInv, SC!TypeOK, SC!uint256
<1>3. {wallet, held, Coming, mcBlock, scBlock, EtherSupply, UintMax, Gift} \subseteq Nat
  BY PageNumbers DEF TypeInv, MC!TypeOK, SC!TypeOK, EtherTyped, Coming
<1> QED
  BY <1>1, <1>2, <1>3

LEMMA TypedLasts ==
    ASSUME NEW p, Typed(p), made \subseteq made'
    PROVE  Typed(p)'
BY DEF Typed, IsTx, Of

LEMMA NothingComes ==
    ASSUME \A p \in pending' : p.at = "transfer-to-account" => p \in pending
    PROVE  Coming' \in Nat /\ Coming' <= Coming /\ Coming \in Nat
BY PageNumbers DEF Coming

\* Steps of the page alone.
LEMMA PageKeepsTypes ==
    ASSUME TypeInv, UNCHANGED <<mcVars, scVars>>, PageTyped', made \subseteq made',
           wallet' \in Nat, wallet' + held + Coming' <= EtherSupply,
           \A p \in pending' \cup underway' : p \in pending \cup underway \/ Typed(p)'
    PROVE  TypeInv'
<1> USE DEF mcVars, scVars
<1>1. MC!TypeOK' /\ SC!TypeOK'
  BY DEF TypeInv, MC!TypeOK, SC!TypeOK, MC!OwnedTypeOK, SC!OwnedTypeOK
<1>2. EtherTyped'
  BY DEF TypeInv, EtherTyped
<1>3. \A p \in pending' \cup underway' : Typed(p)'
  BY TypedLasts DEF TypeInv
<1> QED
  BY <1>1, <1>2, <1>3 DEF TypeInv

\* Steps of the chains, and of what the page waits for.
LEMMA ChainsKeepTypes ==
    ASSUME TypeInv, MC!TypeOK', SC!TypeOK', mcLockin'[User].value <= EtherSupply,
           wallet' \in Nat, wallet' + held' <= wallet + held, PageTyped', made' = made,
           \A p \in pending' : p \in pending \/ (p.at # "transfer-to-account" /\ Typed(p)),
           underway' \subseteq underway
    PROVE  TypeInv'
<1>1. Coming' \in Nat /\ Coming' <= Coming /\ Coming \in Nat
  BY NothingComes
<1>2. wallet \in Nat /\ held \in Nat /\ held' \in Nat /\ EtherSupply \in Nat
  BY ValuesAreNatural DEF MC!TypeOK
<1>3. wallet + held + Coming <= EtherSupply
  BY DEF TypeInv, EtherTyped
<1>4. wallet' + held' + Coming' <= EtherSupply
  <2>1. \A a, b, c, d, e, f, g \in Nat : a + b <= c + d /\ e <= f /\ c + d + f <= g => a + b + e <= g
    OBVIOUS
  <2> QED
    BY <1>1, <1>2, <1>3, <2>1
<1>5. \A p \in pending' \cup underway' : Typed(p)'
  BY TypedLasts DEF TypeInv
<1> QED
  BY <1>4, <1>5 DEF TypeInv, EtherTyped

-----------------------------------------------------------------------------
\* Blocks, and the notary in charge.
LEMMA BlocksKeepTypes ==
    ASSUME TypeInv, MCGrows \/ SCGrows
    PROVE  TypeInv'
<1>1. /\ UNCHANGED <<pageVars, underway, wallet, held, balances, mcRevealed, scRevealed, mcLockin, mcLockout,
                     scLockin, scLockout, allowed, totalSupply, owner, newOwner>>
      /\ mcBlock' \in {mcBlock, mcBlock + 1} /\ scBlock' \in {scBlock, scBlock + 1}
  BY DEF MCGrows, SCGrows, MC!newBlock, SC!newBlock, mcVars, scVars, MC!ownedVars, SC!ownedVars,
         SC!tokenVars
<1>2. MC!TypeOK' /\ SC!TypeOK'
  BY <1>1 DEF TypeInv, MC!TypeOK, SC!TypeOK, MC!OwnedTypeOK, SC!OwnedTypeOK
<1>3. PageTyped' /\ mcLockin'[User].value <= EtherSupply /\ wallet' \in Nat /\ wallet' + held' <= wallet + held
  BY <1>1, ValuesAreNatural DEF pageVars, TypeInv, PageTyped, EtherTyped
<1> QED
  BY <1>1, <1>2, <1>3, ChainsKeepTypes DEF pageVars

LEMMA NotaryKeepsTypes ==
    ASSUME TypeInv, notaryClaims \/ notaryDestroys \/ notaryWithdraws
    PROVE  TypeInv'
<1> USE TheUserOnly DEF TypeInv, MC!TypeOK, SC!TypeOK, MC!OwnedTypeOK, SC!OwnedTypeOK
<1>1. MC!TypeOK /\ SC!TypeOK
  OBVIOUS
<1>2. ASSUME UNCHANGED <<pageVars, underway, wallet, held>>, MC!TypeOK', SC!TypeOK',
             mcLockin'[User] \in {mcLockin[User], MC!Unlocked}
      PROVE  TypeInv'
  <2>1. PageTyped' /\ mcLockin'[User].value <= EtherSupply /\ wallet' \in Nat /\ wallet' + held' <= wallet + held
    BY <1>2, Digests, ValuesAreNatural DEF pageVars, PageTyped, EtherTyped
  <2> QED
    BY <1>2, <2>1, ChainsKeepTypes DEF pageVars
<1>3. CASE notaryClaims
  <2>1. PICK t \in scRevealed : MC!lockin(User, t)
    BY <1>3 DEF notaryClaims
  <2>2. /\ mcLockin' = [mcLockin EXCEPT ![User] = MC!Unlocked] /\ mcRevealed' = mcRevealed \cup {t}
        /\ UNCHANGED <<scVars, wallet, pageVars, underway, mcBlock, mcLockout, held, owner, newOwner>>
    BY <1>3, <2>1 DEF notaryClaims, MC!lockin, MC!ownedVars
  <2>3. MC!TypeOK' /\ SC!TypeOK' /\ mcLockin'[User] = MC!Unlocked
    BY <1>1, <2>2, Digests DEF scVars
  <2> QED
    BY <1>2, <2>2, <2>3
<1>4. CASE notaryDestroys
  <2>1. PICK t \in mcRevealed : SC!lockout(User, t)
    BY <1>4 DEF notaryDestroys
  <2> DEFINE left == (totalSupply + UintMax + 1 - scLockout[User].value) % (UintMax + 1)
  <2>2. /\ scLockout' = [scLockout EXCEPT ![User] = MC!Unlocked] /\ scRevealed' = scRevealed \cup {t}
        /\ UNCHANGED <<mcVars, wallet, pageVars, underway, scBlock, scLockin, balances, allowed, owner, newOwner>>
        /\ totalSupply' = left
    BY <1>4, <2>1, Digests DEF notaryDestroys, SC!lockout, SC!ownedVars
  <2>3. left \in SC!uint256
    BY PageNumbers, ValuesAreNatural DEF SC!uint256
  <2> HIDE DEF left
  <2>4. /\ scLockout' \in [AllAccounts -> SC!LockRecord]
        /\ \A a \in AllAccounts : scLockout'[a].value \in SC!uint256
    BY <1>1, <2>2, Digests
  <2>5. MC!TypeOK' /\ SC!TypeOK'
    BY <1>1, <2>2, <2>3, <2>4 DEF mcVars
  <2> QED
    BY <1>2, <2>2, <2>5 DEF mcVars
<1>5. CASE notaryWithdraws
  <2>1. \/ /\ mcLockout' = [mcLockout EXCEPT ![User] = MC!Unlocked] /\ scLockin' = scLockin
        \/ /\ scLockin' = [scLockin EXCEPT ![User] = MC!Unlocked] /\ mcLockout' = mcLockout
    BY <1>5, Digests DEF notaryWithdraws, MC!cancleLockOut, SC!cancelLockin, mcVars, scVars
  <2>2. UNCHANGED <<pageVars, underway, wallet, held, balances, mcLockin, scLockout, mcRevealed, scRevealed,
                    mcBlock, scBlock, allowed, totalSupply, owner, newOwner>>
    BY <1>5 DEF notaryWithdraws, MC!cancleLockOut, SC!cancelLockin, mcVars, scVars, MC!ownedVars,
                SC!ownedVars, SC!tokenVars
  <2>3. /\ mcLockout' \in [AllAccounts -> MC!LockRecord] /\ scLockin' \in [AllAccounts -> SC!LockRecord]
        /\ \A a \in AllAccounts : scLockin'[a].value \in SC!uint256
    BY <1>1, <2>1, Digests
  <2>4. MC!TypeOK' /\ SC!TypeOK'
    BY <1>1, <2>2, <2>3
  <2> QED
    BY <1>2, <2>2, <2>4
<1> QED
  BY <1>3, <1>4, <1>5

\* The other chain's lock has a value that is locked on this one.
LEMMA NotaryLocksKeepTypes ==
    ASSUME TypeInv, NEW d \in Directions, NEW secret, NotaryLocks(d, secret)
    PROVE  /\ MC!TypeOK' /\ SC!TypeOK' /\ mcLockin'[User].value <= EtherSupply
           /\ wallet' \in Nat /\ wallet' + held' <= wallet + held
<1> USE TheUserOnly
<1>1. CASE d = "lockin"
  <2> DEFINE e == scBlock + (mcLockin[User].Expiration - mcBlock) \div 2
             lock == [SecretHash |-> MC!Sha256(secret), Expiration |-> e, value |-> mcLockin[User].value]
  <2>1. /\ mcLockin[User].SecretHash = MC!Sha256(secret) /\ mcLockin[User].Expiration > mcBlock
        /\ UNCHANGED <<mcVars, wallet>>
        /\ SC!prepareLockin(Federation, User, MC!Sha256(secret), e, mcLockin[User].value)
    BY <1>1 DEF NotaryLocks
  <2>2. /\ mcLockin[User].value \in 0 .. UintMax /\ mcLockin[User].value \in Nat
        /\ mcLockin[User].value <= EtherSupply /\ mcLockin[User].SecretHash \in MC!Hashes
    BY EtherCanBeCounted, ValuesAreNatural DEF TypeInv, EtherTyped, MC!LockRecord
  <2>3. e \in Nat
    <3>1. mcLockin[User].Expiration \in Nat /\ mcBlock \in Nat /\ scBlock \in Nat
      BY ValuesAreNatural DEF MC!LockRecord
    <3> QED
      BY <2>1, <3>1
  <2>4. /\ scLockin' = [scLockin EXCEPT ![User] = lock]
        /\ UNCHANGED <<scBlock, scRevealed, scLockout, balances, allowed, totalSupply, owner, newOwner>>
    BY <2>1 DEF SC!prepareLockin, SC!tokenVars, SC!ownedVars
  <2> HIDE DEF e
  <2>5. lock \in MC!LockRecord /\ lock.value = mcLockin[User].value
    BY <2>1, <2>2, <2>3 DEF MC!LockRecord
  <2> HIDE DEF lock
  <2>6. /\ scLockin' \in [AllAccounts -> SC!LockRecord]
        /\ \A a \in AllAccounts : scLockin'[a].value \in SC!uint256
    BY <2>2, <2>4, <2>5, Digests DEF TypeInv, SC!TypeOK, SC!uint256
  <2> QED
    BY <2>1, <2>2, <2>4, <2>6, ValuesAreNatural
    DEF TypeInv, MC!TypeOK, SC!TypeOK, MC!OwnedTypeOK, SC!OwnedTypeOK, mcVars
<1>2. CASE d = "lockout"
  <2> DEFINE e == mcBlock + (scLockout[User].Expiration - scBlock) \div 2
             lock == [SecretHash |-> MC!Sha256(secret), Expiration |-> e, value |-> scLockout[User].value]
  <2>1. /\ scLockout[User].SecretHash = MC!Sha256(secret) /\ scLockout[User].Expiration > scBlock
        /\ UNCHANGED <<scVars, wallet>>
        /\ MC!prepareLockoutHTLC(Federation, User, MC!Sha256(secret), e, scLockout[User].value)
    BY <1>2 DEF NotaryLocks
  <2>2. scLockout[User].value \in Nat /\ scLockout[User].SecretHash \in MC!Hashes
    BY ValuesAreNatural DEF MC!LockRecord
  <2>3. e \in Nat
    <3>1. scLockout[User].Expiration \in Nat /\ mcBlock \in Nat /\ scBlock \in Nat
      BY ValuesAreNatural DEF MC!LockRecord
    <3> QED
      BY <2>1, <3>1
  <2>4. /\ mcLockout' = [mcLockout EXCEPT ![User] = lock]
        /\ UNCHANGED <<mcBlock, mcRevealed, mcLockin, held, owner, newOwner>>
    BY <2>1 DEF MC!prepareLockoutHTLC, MC!ownedVars
  <2> HIDE DEF e
  <2>5. lock \in MC!LockRecord
    BY <2>1, <2>2, <2>3 DEF MC!LockRecord
  <2> HIDE DEF lock
  <2>6. mcLockout' \in [AllAccounts -> MC!LockRecord]
    BY <2>4, <2>5 DEF TypeInv, MC!TypeOK
  <2> QED
    BY <2>1, <2>4, <2>6, ValuesAreNatural
    DEF TypeInv, EtherTyped, MC!TypeOK, SC!TypeOK, MC!OwnedTypeOK, SC!OwnedTypeOK, scVars
<1> QED
  BY <1>1, <1>2 DEF Directions

\* A transaction that is mined: it locks what the user has, and what it pays out
\* the contract has.
LEMMA ExecutedKeepsTypes ==
    ASSUME TypeInv, NEW p, Typed(p), p.at # "generateSecret", Valid(p.tx), Execute(p.tx)
    PROVE  /\ MC!TypeOK' /\ SC!TypeOK' /\ mcLockin'[User].value <= EtherSupply
           /\ wallet' \in Nat /\ wallet' + held' <= wallet + held
<1> DEFINE tx == p.tx
           v  == tx.amount
           lock == [SecretHash |-> MC!Sha256(tx.secret), Expiration |-> tx.expiration, value |-> v]
<1> USE TheUserOnly
<1>1. v \in 0 .. UintMax /\ v \in Nat /\ (Of(tx) = "lockin" => v <= EtherSupply)
  BY PageNumbers DEF Typed, IsTx
<1>2. tx.method \in Prepares => lock \in MC!LockRecord /\ lock.value = v
  <2>1. tx.method \in Prepares => MC!Sha256(tx.secret) \in MC!Hashes
    BY Digests DEF Typed, TypeInv, PageTyped
  <2>2. tx.expiration \in Nat
    BY DEF Typed, IsTx
  <2> QED
    BY <1>1, <2>1, <2>2 DEF MC!LockRecord
<1> HIDE DEF lock, v
<1>3. \A a \in AllAccounts : mcLockin[a].value \in Nat /\ mcLockout[a].value \in Nat
  BY DEF TypeInv, MC!TypeOK, MC!LockRecord
<1>4. CASE tx.method = "mprepareLockin"
  <2>1. /\ wallet >= v /\ mcLockin' = [mcLockin EXCEPT ![User] = lock]
        /\ held' = held + v /\ wallet' = wallet - v
        /\ UNCHANGED <<scVars, mcBlock, mcRevealed, mcLockout, owner, newOwner>>
    BY <1>4 DEF Valid, Execute, MC!prepareLockin, MC!ownedVars, v, lock
  <2>2. mcLockin' \in [AllAccounts -> MC!LockRecord] /\ mcLockin'[User].value <= EtherSupply
    BY <1>1, <1>2, <1>4, <2>1 DEF TypeInv, MC!TypeOK, Prepares, Of, Inward
  <2>3. held' \in Nat /\ wallet' \in Nat /\ wallet' + held' <= wallet + held
    BY <1>1, <2>1, ValuesAreNatural
  <2> QED
    BY <2>1, <2>2, <2>3 DEF TypeInv, MC!TypeOK, SC!TypeOK, MC!OwnedTypeOK, SC!OwnedTypeOK, scVars
<1>5. CASE tx.method = "mcancelLockin"
  <2>1. /\ held >= mcLockin[User].value /\ held' = held - mcLockin[User].value
        /\ wallet' = wallet + mcLockin[User].value
        /\ mcLockin' = [mcLockin EXCEPT ![User] = MC!Unlocked]
        /\ UNCHANGED <<scVars, mcBlock, mcRevealed, mcLockout, owner, newOwner>>
    BY <1>5 DEF Execute, MC!cancelLockin, MC!transferEther, MC!ownedVars
  <2>2. mcLockin' \in [AllAccounts -> MC!LockRecord] /\ mcLockin'[User].value <= EtherSupply
    BY <2>1, Digests, PageNumbers DEF TypeInv, MC!TypeOK
  <2>3. held' \in Nat /\ wallet' \in Nat /\ wallet' + held' <= wallet + held
    BY <1>3, <2>1, ValuesAreNatural
  <2> QED
    BY <2>1, <2>2, <2>3 DEF TypeInv, MC!TypeOK, SC!TypeOK, MC!OwnedTypeOK, SC!OwnedTypeOK, scVars
<1>6. CASE tx.method = "mlockout"
  <2>1. /\ mcLockout[User].SecretHash = MC!Sha256(tx.secret)
        /\ held >= mcLockout[User].value /\ held' = held - mcLockout[User].value
        /\ wallet' = wallet + mcLockout[User].value
        /\ mcLockout' = [mcLockout EXCEPT ![User] = MC!Unlocked] /\ mcRevealed' = mcRevealed \cup {tx.secret}
        /\ UNCHANGED <<scVars, mcBlock, mcLockin>>
    BY <1>6 DEF Execute, MC!lockout, MC!Opens, MC!transferEther, MC!ownedVars
  <2>2. tx.secret \in Secrets
    BY <2>1, Digests, ValuesAreNatural DEF MC!LockRecord
  <2>3. mcLockout' \in [AllAccounts -> MC!LockRecord] /\ mcRevealed' \subseteq Secrets
    BY <2>1, <2>2, Digests DEF TypeInv, MC!TypeOK
  <2>4. held' \in Nat /\ wallet' \in Nat /\ wallet' + held' <= wallet + held
    BY <1>3, <2>1, ValuesAreNatural
  <2> QED
    BY <2>1, <2>3, <2>4 DEF TypeInv, EtherTyped, MC!TypeOK, SC!TypeOK, MC!OwnedTypeOK, SC!OwnedTypeOK, scVars
<1>7. CASE tx.method = "slockin"
  <2> DEFINE w == scLockin[User].value
  <2>1. /\ scLockin[User].SecretHash = MC!Sha256(tx.secret)
        /\ balances' = [balances EXCEPT ![User] = SC!Plus(@, w)] /\ totalSupply' = SC!Plus(totalSupply, w)
        /\ scLockin' = [scLockin EXCEPT ![User] = MC!Unlocked] /\ scRevealed' = scRevealed \cup {tx.secret}
        /\ UNCHANGED <<mcVars, wallet, scBlock, scLockout, allowed, owner, newOwner>>
    BY <1>7, Digests DEF Execute, SC!lockin, SC!Opens, SC!ownedVars
  <2>2. tx.secret \in Secrets
    BY <2>1, Digests, ValuesAreNatural DEF MC!LockRecord
  <2>3. \A x \in SC!uint256 : SC!Plus(x, w) \in SC!uint256
    BY PageNumbers, ValuesAreNatural DEF SC!Plus, SC!uint256
  <2> HIDE DEF w
  <2>4. balances' \in [AllAccounts -> SC!uint256] /\ totalSupply' \in SC!uint256
    BY <2>1, <2>3 DEF TypeInv, SC!TypeOK
  <2>5. /\ scLockin' \in [AllAccounts -> SC!LockRecord] /\ scRevealed' \subseteq Secrets
        /\ \A a \in AllAccounts : scLockin'[a].value \in SC!uint256
    BY <2>1, <2>2, Digests DEF TypeInv, SC!TypeOK
  <2> QED
    BY <2>1, <2>4, <2>5, ValuesAreNatural
    DEF TypeInv, EtherTyped, MC!TypeOK, SC!TypeOK, MC!OwnedTypeOK, SC!OwnedTypeOK, mcVars
<1>8. CASE tx.method = "sprepareLockout"
  <2>1. /\ balances[User] >= v /\ scLockout' = [scLockout EXCEPT ![User] = lock]
        /\ balances' = [balances EXCEPT ![User] = @ - v]
        /\ UNCHANGED <<mcVars, wallet, scBlock, scRevealed, scLockin, allowed, totalSupply, owner, newOwner>>
    BY <1>8, Digests DEF Execute, SC!prepareLockout, SC!ownedVars, v, lock
  <2>2. balances[User] - v \in SC!uint256
    BY <1>1, <2>1, ValuesAreNatural DEF SC!uint256
  <2>3. balances' \in [AllAccounts -> SC!uint256]
    BY <2>1, <2>2 DEF TypeInv, SC!TypeOK
  <2>4. /\ scLockout' \in [AllAccounts -> SC!LockRecord]
        /\ \A a \in AllAccounts : scLockout'[a].value \in SC!uint256
    BY <1>1, <1>2, <1>8, <2>1, Digests DEF TypeInv, SC!TypeOK, SC!uint256, Prepares
  <2> QED
    BY <2>1, <2>3, <2>4, ValuesAreNatural
    DEF TypeInv, EtherTyped, MC!TypeOK, SC!TypeOK, MC!OwnedTypeOK, SC!OwnedTypeOK, mcVars
<1>9. tx.method \in {"mprepareLockin", "mcancelLockin", "mlockout", "slockin", "sprepareLockout"}
  BY Zenon DEF Execute
<1> QED
  BY <1>4, <1>5, <1>6, <1>7, <1>8, <1>9

-----------------------------------------------------------------------------
\* The buttons.
LEMMA PartOfTheBalance ==
    ASSUME NEW percent \in Percents, NEW of \in Nat
    PROVE  Amount(percent, of) \in Int /\ Amount(percent, of) <= of
<1>1. percent \in {0, 1, 2, 3, 4, 5, 6, 7, 8, 9, 10}
  BY PageNumbers
<1>2. percent * of \in Nat /\ percent * of <= 10 * of
  BY <1>1
<1>3. PICK product \in Nat : product = percent * of /\ product <= 10 * of
  BY <1>2
<1> QED
  BY <1>3 DEF Amount

LEMMA ClickedKeepsTypes ==
    ASSUME IInv, TypeInv, masked = FALSE, masked' \in BOOLEAN,
           UNCHANGED <<mcVars, scVars, wallet, myaccount, localStorage, balance, made, underway>>,
           current' \in [Directions -> made \cup {NoSecret}],
           NEW at, NEW tx, Typed(Waiting(at, tx)),
           pending' \in {pending, pending \cup {Waiting(at, tx)}},
           at = "transfer-to-account" => wallet + held + Gift <= EtherSupply
    PROVE  TypeInv'
<1>1. \A p \in pending : p.at = "pubkey2address"
  BY DEF IInv, Busy
<1>2. Waiting(at, tx).at = at
  BY DEF Waiting
<1>3. PageTyped'
  BY DEF TypeInv, PageTyped
<1>4. wallet' \in Nat /\ wallet' + held + Coming' <= EtherSupply
  <2>1. CASE at = "transfer-to-account"
    <3>1. Coming' \in {0, Gift}
      BY DEF Coming
    <3> QED
      BY <2>1, <3>1, ValuesAreNatural
  <2>2. CASE at # "transfer-to-account"
    <3>1. Coming' \in Nat /\ Coming' <= Coming
      BY <1>1, <1>2, <2>2, NothingComes
    <3> QED
      BY <3>1, ValuesAreNatural DEF TypeInv, EtherTyped
  <2> QED
    BY <2>1, <2>2
<1>5. Typed(Waiting(at, tx))'
  BY TypedLasts
<1> QED
  BY <1>3, <1>4, <1>5, PageKeepsTypes

LEMMA ClickKeepsTypes ==
    ASSUME IInv, TypeInv, UserClicks
    PROVE  TypeInv'
<1>1. current \in [Directions -> made \cup {NoSecret}] /\ masked \in BOOLEAN
  BY DEF TypeInv, PageTyped
<1>2. ASSUME NEW button, Click(button)
      PROVE  /\ masked = FALSE
             /\ UNCHANGED <<mcVars, scVars, wallet, myaccount, localStorage, balance, made, underway>>
  BY <1>1, <1>2 DEF Click
<1>3. Typed(Waiting("pubkey2address", NoTx)) /\ Typed(Waiting("transfer-to-account", NoTx))
  BY PageNumbers DEF Typed, IsTx, Methods, Prepares, Of, Inward, Waiting, NoTx, Tx
<1>4. CASE createKey
  BY <1>1, <1>2, <1>3, <1>4, ClickedKeepsTypes DEF createKey
<1>5. CASE transfer10Ether
  BY <1>1, <1>2, <1>3, <1>5, ClickedKeepsTypes DEF transfer10Ether, showMaskLayer
<1>6. CASE Refresh
  BY <1>1, <1>2, <1>3, <1>6, ClickedKeepsTypes DEF Refresh
<1>7. ASSUME NEW button, NEW method \in Prepares, NEW percent \in Percents, prePare(button, method, percent)
      PROVE  TypeInv'
  <2> DEFINE d == Of(Tx(method, NoSecret, 0, 0))
  <2>1. PICK bound \in Nat : balance[d] \in 0 .. bound /\ bound <= UintMax /\ (d = "lockin" => bound <= EtherSupply)
    BY PageNumbers, EtherCanBeCounted DEF Of, TypeInv, PageTyped
  <2>2. PICK amount \in Int : amount = Amount(percent, balance[d]) /\ amount <= bound
    BY <2>1, PartOfTheBalance
  <2>3. PICK tx : tx = Tx(method, NoSecret, amount, 0)
    OBVIOUS
  <2>4. [Tx(method, NoSecret, 0, 0) EXCEPT !.amount = amount] = tx
    BY <2>3 DEF Tx
  <2>5. /\ Click(button) /\ current' = [current EXCEPT ![d] = NoSecret]
        /\ \/ UNCHANGED <<masked, pending>>
           \/ /\ ~(amount <= 0) /\ masked' = TRUE
              /\ pending' = pending \cup {Waiting("generateSecret", tx)}
    BY <1>7, <2>2, <2>4 DEF prePare, showMaskLayer
  <2>6. ASSUME ~(amount <= 0) PROVE Typed(Waiting("generateSecret", tx))
    <3>1. amount \in 0 .. UintMax /\ (d = "lockin" => amount <= EtherSupply)
      BY <2>1, <2>2, <2>6, PageNumbers
    <3>2. Of(tx) = d /\ tx.amount = amount
      BY <2>3 DEF Of, Tx
    <3>3. tx \in [method : Methods, secret : made \cup {NoSecret}, amount : 0 .. UintMax, expiration : Nat]
      BY <2>3, <3>1 DEF Tx, Methods
    <3> QED
      BY <3>1, <3>2, <3>3 DEF Typed, IsTx, Waiting
  <2> HIDE DEF d
  <2>7. current' \in [Directions -> made \cup {NoSecret}]
    BY <1>1, <2>5
  <2>8. CASE UNCHANGED <<masked, pending>>
    BY <1>1, <1>2, <1>3, <2>5, <2>7, <2>8, ClickedKeepsTypes
  <2>9. CASE ~(amount <= 0) /\ masked' = TRUE /\ pending' = pending \cup {Waiting("generateSecret", tx)}
    BY <1>2, <2>5, <2>6, <2>7, <2>9, ClickedKeepsTypes
  <2> QED
    BY <2>5, <2>8, <2>9
<1>8. ASSUME NEW button, NEW method \in {"mcancelLockin", "scancelLockOut"}, cancel(button, method)
      PROVE  TypeInv'
  <2>1. PICK tx : tx = Tx(method, NoSecret, 0, 0)
    OBVIOUS
  <2>2. Typed(Waiting("generateTx", tx))
    BY <2>1, PageNumbers DEF Typed, IsTx, Methods, Prepares, Of, Inward, Waiting, Tx
  <2>3. Click(button) /\ masked' = TRUE /\ UNCHANGED current /\ pending' = pending \cup {Waiting("generateTx", tx)}
    BY <1>8, <2>1 DEF cancel, showMaskLayer
  <2> QED
    BY <1>1, <1>2, <2>2, <2>3, ClickedKeepsTypes
<1> QED
  BY <1>4, <1>5, <1>6, <1>7, <1>8
  DEF UserClicks, prePareLockin, prePareLockout, mainChainCancelLockin, sideChainCancelLockout, Prepares

-----------------------------------------------------------------------------
\* A request that ends, or whose answer never comes; ether may come with it.
LEMMA EndKeepsTypes ==
    ASSUME IInv, TypeInv, NEW p \in pending,
           Ends(p) \/ (p.at # "generateSecret" /\ Becomes(p, "unanswered", p.tx)),
           underway' \subseteq underway \cup {p}, {myaccount', masked'} \subseteq BOOLEAN,
           UNCHANGED <<mcVars, scVars, current, localStorage, balance, made>>,
           wallet' = wallet \/ (p.at = "transfer-to-account" /\ Ends(p) /\ wallet' = wallet + Gift)
    PROVE  TypeInv'
<1>1. PageTyped'
  BY DEF TypeInv, PageTyped
<1>2. p \in pending \cup underway /\ \A q \in pending' : q \in pending \/ q = Waiting("unanswered", p.tx)
  BY DEF Ends, Becomes
<1>3. Ends(p) \/ Typed(Waiting("unanswered", p.tx))
  BY DEF TypeInv, Typed, Waiting
<1>4. wallet' \in Nat /\ wallet' + held + Coming' <= EtherSupply
  <2>1. Coming' \in Nat /\ Coming' <= Coming
    BY <1>2, NothingComes DEF Waiting
  <2>2. CASE wallet' = wallet
    BY <2>1, <2>2, ValuesAreNatural DEF TypeInv, EtherTyped
  <2>3. CASE p.at = "transfer-to-account" /\ Ends(p) /\ wallet' = wallet + Gift
    <3>1. Coming = Gift
      BY <2>3 DEF Coming
    <3>2. Coming' = 0
      BY <2>3 DEF Coming, Ends, IInv, Busy
    <3> QED
      BY <2>3, <3>1, <3>2, ValuesAreNatural DEF TypeInv, EtherTyped
  <2> QED
    BY <2>2, <2>3
<1>5. \A q \in pending' \cup underway' : q \in pending \cup underway \/ Typed(q)'
  BY <1>2, <1>3, TypedLasts DEF Ends
<1> QED
  BY <1>1, <1>4, <1>5, PageKeepsTypes

LEMMA FailureKeepsTypes ==
    ASSUME IInv, TypeInv, NEW p \in pending, Fails(p), UNCHANGED balance,
           UNCHANGED underway \/ MayBeServed(p)
    PROVE  TypeInv'
<1>1. {myaccount', masked'} \subseteq BOOLEAN
  BY DEF Fails, ComesBack, hideMaskLayer, TypeInv, PageTyped
<1>2. underway' \subseteq underway \cup {p}
  BY DEF MayBeServed
<1> QED
  BY <1>1, <1>2, EndKeepsTypes DEF Fails, ComesBack

\* An answer that leads to the next request.
LEMMA GoOnKeepsTypes ==
    ASSUME TypeInv, NEW p \in pending, NEW at, at # "transfer-to-account", NEW tx, Becomes(p, at, tx),
           Typed(Waiting(at, tx))', made \subseteq made', made' \subseteq Secrets,
           UNCHANGED <<mcVars, scVars, wallet, myaccount, balance, masked, underway>>,
           {current', localStorage'} \subseteq [Directions -> made' \cup {NoSecret}]
    PROVE  TypeInv'
<1>1. \A q \in pending' : q = Waiting(at, tx) \/ q \in pending
  BY DEF Becomes
<1>2. wallet' \in Nat /\ wallet' + held + Coming' <= EtherSupply
  <2>1. Coming' \in Nat /\ Coming' <= Coming
    BY <1>1, NothingComes DEF Waiting
  <2> QED
    BY <2>1, ValuesAreNatural DEF TypeInv, EtherTyped
<1>3. PageTyped'
  BY DEF TypeInv, PageTyped
<1> QED
  BY <1>1, <1>2, <1>3, PageKeepsTypes

\* An answer after which the page knows no new secret.
LEMMA NextKeepsTypes ==
    ASSUME TypeInv, NEW p \in pending, NEW at, at # "transfer-to-account", NEW tx, Becomes(p, at, tx),
           Typed(Waiting(at, tx)),
           UNCHANGED <<mcVars, scVars, wallet, myaccount, current, localStorage, balance, masked, made, underway>>
    PROVE  TypeInv'
<1>1. Typed(Waiting(at, tx))'
  BY TypedLasts
<1>2. /\ made \subseteq made' /\ made' \subseteq Secrets
      /\ {current', localStorage'} \subseteq [Directions -> made' \cup {NoSecret}]
  BY DEF TypeInv, PageTyped
<1> QED
  BY <1>1, <1>2, GoOnKeepsTypes

LEMMA SecretGeneratedKeepsTypes ==
    ASSUME TypeInv, NEW p \in pending, secretGenerated(p)
    PROVE  TypeInv'
<1>1. PICK s \in Secrets \ made :
         /\ made' = made \cup {s} /\ current' = [current EXCEPT ![Of(p.tx)] = s]
         /\ localStorage' = [localStorage EXCEPT ![Of(p.tx)] = s]
         /\ Becomes(p, "querystatus", [p.tx EXCEPT !.secret = s])
  BY DEF secretGenerated
<1>2. UNCHANGED <<mcVars, scVars, wallet, myaccount, balance, masked, underway>>
  BY DEF secretGenerated, Answered
<1>3. PICK tx : tx = [p.tx EXCEPT !.secret = s]
  OBVIOUS
<1>4. IsTx(p.tx)
  BY DEF TypeInv, Typed
<1>5. /\ tx \in [method : Methods, secret : made' \cup {NoSecret}, amount : 0 .. UintMax, expiration : Nat]
      /\ tx.secret = s /\ tx.amount = p.tx.amount /\ tx.method = p.tx.method
  BY <1>1, <1>3, <1>4 DEF IsTx
<1>6. Typed(Waiting("querystatus", tx))'
  BY <1>1, <1>4, <1>5 DEF Typed, IsTx, Of, Waiting
<1>7. /\ made \subseteq made' /\ made' \subseteq Secrets
      /\ {current', localStorage'} \subseteq [Directions -> made' \cup {NoSecret}]
  <2>1. {current, localStorage} \subseteq [Directions -> made \cup {NoSecret}] /\ made \subseteq Secrets
    BY DEF TypeInv, PageTyped
  <2> QED
    BY <1>1, <2>1, AllDirections
<1> QED
  BY <1>1, <1>2, <1>3, <1>6, <1>7, GoOnKeepsTypes

LEMMA ClaimKeepsTypes ==
    ASSUME IInv, TypeInv, NEW p \in pending, claim(p)
    PROVE  TypeInv'
<1>1. /\ p.at = "claim"
      /\ UNCHANGED <<mcVars, scVars, wallet, myaccount, current, localStorage, balance, masked, made, underway>>
  BY DEF claim, Answered
<1>2. CASE Ends(p)
  <2>1. {myaccount', masked'} \subseteq BOOLEAN
    BY <1>1 DEF TypeInv, PageTyped
  <2> QED
    BY <1>1, <1>2, <2>1, EndKeepsTypes
<1>3. CASE ~Ends(p)
  <2>0. PICK d \in Directions :
           Becomes(p, "generateTx", Tx(IF d = "lockin" THEN "slockin" ELSE "mlockout", current[d], 0, 0))
    BY <1>3, AllDirections DEF claim
  <2> DEFINE tx == Tx(IF d = "lockin" THEN "slockin" ELSE "mlockout", current[d], 0, 0)
  <2>1. /\ tx = Tx(IF d = "lockin" THEN "slockin" ELSE "mlockout", current[d], 0, 0)
        /\ Becomes(p, "generateTx", tx)
    BY <2>0
  <2> HIDE DEF tx
  <2>2. current[d] \in made \cup {NoSecret}
    BY DEF TypeInv, PageTyped
  <2>3. Typed(Waiting("generateTx", tx))
    BY <2>1, <2>2, PageNumbers DEF Typed, IsTx, Methods, Prepares, Claims, Of, Inward, Waiting, Tx
  <2> QED
    BY <1>1, <2>1, <2>3, NextKeepsTypes
<1> QED
  BY <1>2, <1>3

LEMMA NotaryAnsweredKeepsTypes ==
    ASSUME IInv, TypeInv, NEW p \in pending, notaryAnswered(p)
    PROVE  TypeInv'
<1>1. p.at = "scpreparelockin" /\ UNCHANGED balance
  BY DEF notaryAnswered, Answered
<1>2. CASE Fails(p) /\ MayBeServed(p)
  BY <1>1, <1>2, FailureKeepsTypes
<1>3. CASE ~(Fails(p) /\ MayBeServed(p))
  <2>1. /\ NotaryLocks(Of(p.tx), p.tx.secret) /\ Becomes(p, "claim", p.tx)
        /\ UNCHANGED <<myaccount, current, localStorage, masked, made, underway>>
    BY <1>3 DEF notaryAnswered
  <2>2. PageTyped'
    BY <1>1, <2>1 DEF TypeInv, PageTyped
  <2>3. \A q \in pending' : q \in pending \/ (q.at # "transfer-to-account" /\ Typed(q))
    BY <1>1, <2>1 DEF Becomes, Waiting, TypeInv, Typed
  <2> QED
    BY <2>1, <2>2, <2>3, AllDirections, NotaryLocksKeepTypes, ChainsKeepTypes
<1> QED
  BY <1>2, <1>3

LEMMA TxSentKeepsTypes ==
    ASSUME IInv, TypeInv, NEW p \in pending, txSent(p)
    PROVE  TypeInv'
<1>1. p.at = "sendTx" /\ UNCHANGED <<balance, underway>>
  BY DEF txSent, Answered
<1>2. CASE Fails(p)
  BY <1>1, <1>2, FailureKeepsTypes
<1>3. CASE Valid(p.tx) /\ Execute(p.tx) /\ txMined(p)
  <2>1. PageTyped' /\ made' = made
    BY <1>1, <1>3 DEF txMined, hideMaskLayer, TypeInv, PageTyped
  <2>2. \A q \in pending' : q \in pending \/ (q.at # "transfer-to-account" /\ Typed(q))
    BY <1>1, <1>3 DEF txMined, Becomes, Ends, Waiting, TypeInv, Typed
  <2>3. Typed(p)
    BY DEF TypeInv
  <2> QED
    BY <1>1, <1>3, <2>1, <2>2, <2>3, ExecutedKeepsTypes, ChainsKeepTypes
<1> QED
  BY <1>2, <1>3 DEF txSent

LEMMA AnswerKeepsTypes ==
    ASSUME IInv, TypeInv, PageRuns
    PROVE  TypeInv'
<1>1. CASE statusAnswered \/ statusFails
  <2>1. UNCHANGED <<mcVars, scVars, wallet, myaccount, current, localStorage, masked, pending, made, underway>>
    BY <1>1 DEF statusAnswered, statusFails
  <2>2. balance'["lockin"] \in 0 .. EtherSupply /\ balance'["lockout"] \in 0 .. UintMax
    <3>1. wallet \in 0 .. EtherSupply /\ balances[User] \in 0 .. UintMax
      BY ValuesAreNatural DEF TypeInv, EtherTyped
    <3> QED
      BY <1>1, <3>1, PageNumbers DEF statusAnswered, statusFails, Directions, TypeInv, PageTyped
  <2>3. PageTyped'
    BY <2>1, <2>2 DEF TypeInv, PageTyped
  <2>4. wallet' \in Nat /\ wallet' + held + Coming' <= EtherSupply
    BY <2>1 DEF TypeInv, EtherTyped, Coming
  <2> QED
    BY <2>1, <2>3, <2>4, PageKeepsTypes
<1>2. ASSUME NEW p \in pending, addressKnown(p) PROVE TypeInv'
  <2>1. {myaccount', masked'} \subseteq BOOLEAN
    BY <1>2 DEF addressKnown, TypeInv, PageTyped
  <2> QED
    BY <1>2, <2>1, EndKeepsTypes DEF addressKnown, Answered
<1>3. ASSUME NEW p \in pending, etherTransferred(p) PROVE TypeInv'
  <2>1. {myaccount', masked'} \subseteq BOOLEAN
    BY <1>3 DEF etherTransferred, hideMaskLayer, TypeInv, PageTyped
  <2> QED
    BY <1>3, <2>1, EndKeepsTypes DEF etherTransferred, Answered
<1>4. ASSUME NEW p \in pending, blockNumberKnown(p) PROVE TypeInv'
  <2>1. PICK height : /\ height = (IF Of(p.tx) = "lockin" THEN mcBlock ELSE scBlock)
                      /\ Becomes(p, "generateTx", [p.tx EXCEPT !.expiration = height + Lifetime])
    BY <1>4 DEF blockNumberKnown
  <2>2. height + Lifetime \in Nat
    BY <2>1, PageNumbers, ValuesAreNatural
  <2>3. PICK tx : tx = [p.tx EXCEPT !.expiration = height + Lifetime]
    OBVIOUS
  <2>4. /\ p.at = "querystatus"
        /\ UNCHANGED <<mcVars, scVars, wallet, myaccount, current, localStorage, balance, masked, made, underway>>
    BY <1>4 DEF blockNumberKnown, Answered
  <2>5. Typed(p)
    BY DEF TypeInv
  <2>6. /\ tx \in [method : Methods, secret : made \cup {NoSecret}, amount : 0 .. UintMax, expiration : Nat]
        /\ tx.secret = p.tx.secret /\ tx.amount = p.tx.amount /\ tx.method = p.tx.method
    BY <2>2, <2>3, <2>5 DEF Typed, IsTx
  <2>7. Typed(Waiting("generateTx", tx))
    BY <2>4, <2>5, <2>6 DEF Typed, IsTx, Of, Waiting
  <2> QED
    BY <2>1, <2>3, <2>4, <2>7, NextKeepsTypes
<1>5. ASSUME NEW p \in pending, txGenerated(p) PROVE TypeInv'
  <2>1. p.at = "generateTx" /\ UNCHANGED <<balance, underway>>
    BY <1>5 DEF txGenerated, Answered
  <2>2. CASE Fails(p)
    BY <2>1, <2>2, FailureKeepsTypes
  <2>3. CASE ~Fails(p)
    <3>1. Typed(Waiting("sendTx", p.tx))
      BY <2>1 DEF TypeInv, Typed, Waiting
    <3> QED
      BY <1>5, <2>1, <2>3, <3>1, NextKeepsTypes DEF txGenerated
  <2> QED
    BY <2>2, <2>3
<1>6. ASSUME NEW p \in pending, notifyNotary(p) PROVE TypeInv'
  <2>1. /\ p.at = "notify"
        /\ UNCHANGED <<mcVars, scVars, wallet, myaccount, current, localStorage, balance, masked, made, underway>>
    BY <1>6 DEF notifyNotary, Answered
  <2>2. CASE Ends(p)
    <3>1. {myaccount', masked'} \subseteq BOOLEAN
      BY <2>1 DEF TypeInv, PageTyped
    <3> QED
      BY <2>1, <2>2, <3>1, EndKeepsTypes
  <2>3. CASE ~Ends(p)
    <3>1. PICK s : s = current[Of(p.tx)] /\ s # NoSecret
      BY <1>6, <2>3 DEF notifyNotary
    <3>2. PICK tx : tx = [p.tx EXCEPT !.secret = s] /\ Becomes(p, "scPrepareLockin", tx)
      BY <1>6, <2>3, <3>1 DEF notifyNotary
    <3>3. s \in made
      BY <3>1, AllDirections DEF TypeInv, PageTyped
    <3>4. IsTx(p.tx)
      BY DEF TypeInv, Typed
    <3>5. /\ tx \in [method : Methods, secret : made \cup {NoSecret}, amount : 0 .. UintMax, expiration : Nat]
          /\ tx.secret = s /\ tx.amount = p.tx.amount /\ tx.method = p.tx.method
      BY <3>2, <3>3, <3>4 DEF IsTx
    <3>6. Typed(Waiting("scPrepareLockin", tx))
      BY <3>3, <3>4, <3>5 DEF Typed, IsTx, Of, Waiting
    <3> QED
      BY <2>1, <3>2, <3>6, NextKeepsTypes
  <2> QED
    BY <2>2, <2>3
<1>7. ASSUME NEW p \in pending, doNotifyNotary(p) PROVE TypeInv'
  <2>1. /\ p.at = "scPrepareLockin" /\ Becomes(p, "scpreparelockin", p.tx)
        /\ UNCHANGED <<mcVars, scVars, wallet, myaccount, current, localStorage, balance, masked, made, underway>>
    BY <1>7 DEF doNotifyNotary, Answered
  <2>2. Typed(Waiting("scpreparelockin", p.tx))
    BY <2>1 DEF TypeInv, Typed, Waiting
  <2> QED
    BY <2>1, <2>2, NextKeepsTypes
<1>8. ASSUME NEW p \in pending, helperFails(p) PROVE TypeInv'
  BY <1>8, FailureKeepsTypes DEF helperFails, Answered
<1>9. ASSUME NEW p \in pending, answerLost(p) PROVE TypeInv'
  <2>1. /\ Ends(p) \/ (p.at \in Unhandled /\ Becomes(p, "unanswered", p.tx))
        /\ UNCHANGED <<mcVars, scVars, myaccount, current, localStorage, balance, made>>
        /\ masked' \in {masked, FALSE} /\ underway' \subseteq underway \cup {p}
    BY <1>9 DEF answerLost, Answered, ComesBack, hideMaskLayer, MayBeServed
  <2>2. wallet' = wallet \/ (p.at = "transfer-to-account" /\ Ends(p) /\ wallet' = wallet + Gift)
    BY <1>9, <2>1 DEF answerLost, Unhandled
  <2>3. {myaccount', masked'} \subseteq BOOLEAN
    BY <2>1 DEF TypeInv, PageTyped
  <2> QED
    BY <2>1, <2>2, <2>3, EndKeepsTypes DEF Unhandled
<1> QED
  BY <1>1, <1>2, <1>3, <1>4, <1>5, <1>6, <1>7, <1>8, <1>9, SecretGeneratedKeepsTypes, TxSentKeepsTypes,
     NotaryAnsweredKeepsTypes, ClaimKeepsTypes
  DEF PageRuns

LEMMA ServedLateKeepsTypes ==
    ASSUME TypeInv, NEW p \in underway, servedLate(p)
    PROVE  TypeInv'
<1>1. UNCHANGED pageVars /\ underway' \subseteq underway /\ Typed(p)
  BY DEF servedLate, TypeInv
<1>2. PageTyped' /\ made' = made
  BY <1>1 DEF pageVars, TypeInv, PageTyped
<1>3. /\ MC!TypeOK' /\ SC!TypeOK' /\ mcLockin'[User].value <= EtherSupply
      /\ wallet' \in Nat /\ wallet' + held' <= wallet + held
  <2>1. CASE p.at = "sendTx" /\ Valid(p.tx) /\ Execute(p.tx)
    BY <1>1, <2>1, ExecutedKeepsTypes
  <2>2. CASE UNCHANGED <<mcVars, scVars, wallet>>
    BY <2>2, ValuesAreNatural
    DEF mcVars, scVars, TypeInv, EtherTyped, MC!TypeOK, SC!TypeOK, MC!OwnedTypeOK, SC!OwnedTypeOK
  <2>3. CASE NotaryLocks(Of(p.tx), p.tx.secret)
    BY <2>3, AllDirections, NotaryLocksKeepTypes
  <2> QED
    BY <2>1, <2>2, <2>3 DEF servedLate
<1> QED
  BY <1>1, <1>2, <1>3, ChainsKeepTypes DEF pageVars

-----------------------------------------------------------------------------
LEMMA InitIsTyped ==
    ASSUME Init
    PROVE  TypeInv
<1> USE TheUserOnly, PageNumbers
<1>1. MC!TypeOK /\ SC!TypeOK
  <2>1. 0 \in SC!uint256 /\ 1 \in SC!uint256
    BY DEF SC!uint256
  <2>2. MC!OwnedTypeOK /\ SC!OwnedTypeOK
    BY DEF Init, MC!Init, SC!Init, MC!OwnedInit, SC!OwnedInit, MC!OwnedTypeOK, SC!OwnedTypeOK
  <2> QED
    BY <2>1, <2>2, Digests DEF Init, MC!Init, SC!Init, MC!TypeOK, SC!TypeOK
<1>2. EtherTyped
  <2>1. mcLockin[User].value = 0 /\ held = 0 /\ wallet = 0 /\ Coming = 0
    BY Digests DEF Init, MC!Init, Coming
  <2> QED
    BY <2>1 DEF EtherTyped
<1>3. PageTyped /\ pending = {} /\ underway = {}
  <2>1. /\ current = [d \in Directions |-> NoSecret] /\ localStorage = current
        /\ balance = [d \in Directions |-> 0] /\ myaccount = FALSE /\ masked = FALSE /\ made = {}
        /\ pending = {} /\ underway = {}
    BY DEF Init
  <2>2. balance["lockin"] = 0 /\ balance["lockout"] = 0
    BY <2>1 DEF Directions
  <2>3. {myaccount, masked} \subseteq BOOLEAN
    BY <2>1
  <2>4. {current, localStorage} \subseteq [Directions -> made \cup {NoSecret}]
    BY <2>1
  <2>5. 0 \in 0 .. EtherSupply /\ 0 \in 0 .. UintMax
    OBVIOUS
  <2> QED
    BY <2>1, <2>2, <2>3, <2>4, <2>5 DEF PageTyped
<1> QED
  BY <1>1, <1>2, <1>3 DEF TypeInv

LEMMA AlwaysTyped == Spec => []TypeInv
<1>1. IInv /\ TypeInv /\ [Next]_vars => TypeInv'
  <2> SUFFICES ASSUME IInv, TypeInv, [Next]_vars PROVE TypeInv'
    OBVIOUS
  <2>1. CASE UNCHANGED vars
    <3>1. UNCHANGED <<mcVars, scVars, wallet, pageVars, underway>>
      BY <2>1 DEF vars
    <3>2. PageTyped' /\ wallet' \in Nat /\ wallet' + held + Coming' <= EtherSupply
      BY <3>1 DEF pageVars, TypeInv, PageTyped, EtherTyped, Coming
    <3> QED
      BY <3>1, <3>2, PageKeepsTypes DEF pageVars
  <2> QED
    BY <2>1, ClickKeepsTypes, AnswerKeepsTypes, ServedLateKeepsTypes, BlocksKeepTypes, NotaryKeepsTypes DEF Next
<1> QED
  BY <1>1, InitIsTyped, Invariance, PTL DEF Spec

(* What the user has in ether, and what the page reads as the balance of   *)
(* ether and sends as an amount of it, is never more than the ether there  *)
(* is, and the tokens it sends are never more than a uint256 holds, in     *)
(* whichever order the answers come, whatever fails or is lost and however *)
(* late it is done (queryStatus, prePareLockin, prePareLockout): ether     *)
(* only moves between the user and the contract, which never pays out      *)
(* more than it has.                                                       *)
THEOREM TypeCorrectness == Spec => []TypeOK
<1>1. TypeInv => TypeOK
  <2> SUFFICES ASSUME TypeInv PROVE TypeOK
    OBVIOUS
  <2>1. wallet \in 0 .. EtherSupply
    BY ValuesAreNatural DEF TypeInv, EtherTyped
  <2>2. current \in [Directions -> Secrets \cup {NoSecret}]
    BY DEF TypeInv, PageTyped
  <2>3. \A p \in pending \cup underway : /\ p.tx.amount \in 0 .. (IF Of(p.tx) = "lockin" THEN EtherSupply ELSE UintMax)
                                         /\ p.tx.secret \in made \cup {NoSecret}
    BY PageNumbers DEF TypeInv, Typed, IsTx
  <2> QED
    BY <2>1, <2>2, <2>3 DEF TypeInv, TypeOK, PageTyped
<1> QED
  BY <1>1, AlwaysTyped, PTL
=============================================================================
