------------------------ MODULE NonceManager_proofs ------------------------
(***************************************************************************)
(* The nonce server for any number of requests, any timeout and however    *)
(* many failures and restarts.                                             *)
(***************************************************************************)
EXTENDS NonceManager, TLAPS

\* While the server has no nonceManager nothing is watched over.
IInv == TypeOK /\ OnLoan /\ (~managed => nextNonce = 0)

(* Where the goroutine of a request is, after it went on or ended.         *)
LEMMA LoopMoves ==
    ASSUME TypeOK, NEW r \in Requests, NEW p \in Places,
           Goes(r, p) \/ Ends(r)
    PROVE  /\ loop' \in [Requests -> [at : Places, age : 0 .. Timeout]]
           /\ \A s \in Requests \ {r} : loop'[s] = loop[s]
<1> USE NonceNumbers
<1>1. CASE Goes(r, p)
  BY <1>1 DEF TypeOK, Goes
<1>2. CASE Ends(r)
  BY <1>2 DEF TypeOK, Ends, Places
<1> QED
  BY <1>1, <1>2

(* Handing out the next nonce, or any nonce while nothing is watched over, *)
(* keeps the invariant (applyNonce).                                       *)
LEMMA HandedOut ==
    ASSUME IInv, NEW r \in Requests, NEW n \in Nat, n = nextNonce \/ nextNonce = 0,
           HandOut(r, n), failures' \in Nat, UNCHANGED <<cancelling, mined, pool, restarts>>
    PROVE  IInv'
<1> USE NonceNumbers DEF IInv, HandOut
<1>1. TypeOK'
  BY DEF TypeOK, Places
<1>2. /\ nonce'[r] = n /\ n < nextNonce' /\ n \in used'
      /\ \A s \in Requests \ {r} : nonce'[s] = nonce[s] /\ loop'[s] = loop[s]
  BY DEF TypeOK
<1>3. ASSUME NEW s \in Requests \ {r}, Watched(s)'
      PROVE  nonce[s] < n /\ nonce[s] < nextNonce' /\ nonce[s] \in used'
  <2>1. nonce[s] < nextNonce /\ nonce[s] \in used
    BY <1>2, <1>3 DEF OnLoan, Watched, At
  <2> QED
    BY <2>1 DEF TypeOK
<1>4. OnLoan'
  <2>1. ASSUME NEW s \in Requests, Watched(s)' PROVE nonce'[s] < nextNonce' /\ nonce'[s] \in used'
    BY <1>2, <1>3, <2>1
  <2>2. ASSUME NEW s \in Requests, NEW t \in Requests, Watched(s)', Watched(t)', s # t
        PROVE  nonce'[s] # nonce'[t]
    <3>1. CASE s # r /\ t # r
      BY <1>2, <2>2, <3>1 DEF OnLoan, Watched, At
    <3>2. CASE s = r \/ t = r
      BY <1>2, <1>3, <2>2, <3>2 DEF TypeOK
    <3> QED
      BY <3>1, <3>2
  <2> QED
    BY <2>1, <2>2 DEF OnLoan
<1> QED
  BY <1>1, <1>4

(* A goroutine that goes on, or ends and forgets its nonce, leaves the     *)
(* others' nonces alone (startLoop to cancelled).                          *)
LEMMA WentOn ==
    ASSUME TypeOK, OnLoan, NEW r \in Requests, NEW p \in Places,
           Goes(r, p) \/ Ends(r),
           ~At(r, "none"),
           used' = used \/ (Ends(r) /\ used' = used \ {nonce[r]}),
           UNCHANGED <<nonce, nextNonce>>
    PROVE  OnLoan'
<1> USE DEF OnLoan, Watched
<1>1. \A s \in Requests \ {r} : loop'[s] = loop[s]
  BY LoopMoves
<1>2. ASSUME NEW s \in Requests, Watched(s)' PROVE Watched(s)
  BY <1>1, <1>2 DEF At
<1>3. ASSUME NEW s \in Requests, Watched(s)' PROVE nonce[s] \in used'
  <2>1. CASE s # r
    BY <1>2, <1>3, <2>1
  <2>2. CASE s = r /\ Ends(r)
    BY <1>3, <2>2 DEF At, Ends, TypeOK
  <2>3. CASE s = r /\ ~Ends(r)
    BY <1>2, <1>3, <2>3
  <2> QED
    BY <2>1, <2>2, <2>3
<1> QED
  BY <1>2, <1>3

(* One step of the goroutine of a request, or of the notary it asked.      *)
LEMMA Step ==
    ASSUME IInv, NEW r \in Requests, confirmLoop(r)
    PROVE  IInv'
<1> USE NonceNumbers DEF IInv
<1>1. CASE startLoop(r)
  <2> USE <1>1 DEF startLoop
  <2>1. TypeOK'
    BY LoopMoves DEF TypeOK, Places, Ends, Fails
  <2>2. OnLoan'
    <3>1. \A s \in Requests : Watched(s)' => Watched(s)
      BY DEF TypeOK, Watched, At, Ends
    <3> QED
      BY <3>1 DEF OnLoan
  <2> QED
    BY <2>1, <2>2
<1>2. CASE checkNonce(r)
  <2> USE <1>2 DEF checkNonce
  <2>1. TypeOK'
    BY LoopMoves DEF TypeOK, Places
  <2>2. OnLoan'
    BY WentOn DEF At, Places
  <2> QED
    BY <2>1, <2>2
<1>3. CASE checkBlock(r)
  <2> USE <1>3 DEF checkBlock
  <2>1. TypeOK'
    BY LoopMoves DEF TypeOK, Places
  <2>2. OnLoan'
    BY WentOn DEF At, Places
  <2> QED
    BY <2>1, <2>2
<1>4. CASE timeOut(r)
  <2> USE <1>4 DEF timeOut
  <2>1. CASE ~LastHandedOut(nonce[r])
    <3>1. TypeOK'
      BY <2>1, LoopMoves DEF TypeOK, Places
    <3>2. OnLoan'
      BY <2>1, WentOn DEF At, Places
    <3> QED
      BY <2>1, <3>1, <3>2
  <2>2. CASE LastHandedOut(nonce[r])
    <3> USE <2>2 DEF LastHandedOut, NextAgain
    <3>1. TypeOK'
      BY LoopMoves DEF TypeOK, Places
    <3>2. /\ ~Watched(r)'
          /\ \A s \in Requests \ {r} : loop'[s] = loop[s]
      BY DEF TypeOK, Ends, Watched, At
    <3>3. ASSUME NEW s \in Requests, Watched(s)'
          PROVE  s # r /\ Watched(s) /\ nonce[s] < nextNonce' /\ nonce[s] \in used'
      <4>1. s # r /\ Watched(s) /\ Watched(r)
        BY <3>2, <3>3 DEF Watched, At
      <4>2. nonce[s] < nonce[r] + 1 /\ nonce[s] # nonce[r] /\ nonce[s] \in used
        BY <4>1 DEF OnLoan
      <4> QED
        BY <4>1, <4>2 DEF TypeOK
    <3>4. OnLoan'
      BY <3>3 DEF OnLoan
    <3>5. ~managed' => nextNonce' = 0
      BY DEF TypeOK
    <3> QED
      BY <3>1, <3>4, <3>5
  <2> QED
    BY <2>1, <2>2
<1>5. CASE cancelNonce(r)
  <2> USE <1>5 DEF cancelNonce
  <2>1. TypeOK'
    BY LoopMoves DEF TypeOK, Places, Fails
  <2>2. OnLoan'
    BY WentOn DEF At, Places
  <2> QED
    BY <2>1, <2>2
<1>6. CASE onCancelNonceRequest(r)
  <2> USE <1>6 DEF onCancelNonceRequest
  <2>1. loop' = loop \/ (At(r, "posted") /\ (Goes(r, "mining") \/ Ends(r)))
    BY Zenon
  <2>2. loop' \in [Requests -> [at : Places, age : 0 .. Timeout]]
    BY <2>1, LoopMoves DEF TypeOK, Places
  <2>3. (pool' = pool \/ pool' = pool \cup {nonce[r]}) /\ (failures' = failures \/ failures' = failures + 1)
    BY Zenon DEF Fails, useUp
  <2>4. pool' \subseteq Nat /\ failures' \in Nat
    <3>1. nonce[r] \in Nat /\ pool \subseteq Nat /\ failures \in Nat
      BY DEF TypeOK
    <3> HIDE <1>6 DEF IInv, onCancelNonceRequest
    <3>2. {nonce[r]} \subseteq Nat
      BY <3>1
    <3>3. pool' \subseteq Nat
      BY <3>1, <3>2, <2>3, Zenon
    <3> QED
      BY <3>1, <3>3, <2>3
  <2>5. cancelling' \subseteq Requests
    BY DEF TypeOK
  <2>6. UNCHANGED <<managed, nextNonce, used, nonce, owner, mined, restarts>>
    OBVIOUS
  <2> HIDE DEF onCancelNonceRequest
  <2>7. TypeOK'
    BY <2>2, <2>4, <2>5, <2>6 DEF TypeOK
  <2>8. CASE loop' = loop
    <3>1. \A s \in Requests : Watched(s)' <=> Watched(s)
      BY <2>8 DEF Watched, At
    <3>2. OnLoan'
      BY <2>6, <3>1 DEF OnLoan
    <3> QED
      BY <2>6, <2>7, <3>2
  <2>9. CASE At(r, "posted") /\ Goes(r, "mining")
    <3>1. OnLoan'
      BY <2>6, <2>9, WentOn DEF At, Places
    <3> QED
      BY <2>6, <2>7, <3>1
  <2>10. CASE At(r, "posted") /\ Ends(r)
    <3>1. OnLoan'
      BY <2>6, <2>10, WentOn DEF At, Places
    <3> QED
      BY <2>6, <2>7, <3>1
  <2> QED
    BY <2>1, <2>6, <2>7, <2>8, <2>9, <2>10
<1>7. CASE cancelled(r)
  <2> USE <1>7 DEF cancelled
  <2>1. TypeOK'
    BY LoopMoves DEF TypeOK, Places
  <2>2. OnLoan'
    BY WentOn DEF At, Places
  <2> QED
    BY <2>1, <2>2
<1> QED
  BY <1>1, <1>2, <1>3, <1>4, <1>5, <1>6, <1>7 DEF confirmLoop

(* OnLoan is inductive once it is known that a server without nonceManager *)
(* counts from 0: a nonce that is handed out is above all that are watched *)
(* over, and one that is handed out again was the highest of them.         *)
LEMMA Invariance == Spec => []IInv
<1> USE NonceNumbers
<1>1. Init => IInv
  <2> SUFFICES ASSUME Init PROVE IInv
    OBVIOUS
  <2>1. managed \in BOOLEAN
    BY Zenon DEF Init
  <2>2. loop \in [Requests -> [at : Places, age : 0 .. Timeout]]
    BY DEF Init, Places
  <2>3. /\ nonce \in [Requests -> Nat] /\ owner \in [Requests -> {"new", "holding", "done"}]
        /\ used \subseteq Nat /\ pool \subseteq Nat /\ cancelling \subseteq Requests
        /\ nextNonce \in Nat /\ mined \in Nat /\ failures \in Nat /\ restarts \in Nat
    BY DEF Init
  <2>4. TypeOK
    BY <2>1, <2>2, <2>3 DEF TypeOK
  <2>5. OnLoan
    BY DEF Init, OnLoan, Watched, At
  <2> QED
    BY <2>4, <2>5 DEF Init, IInv
<1>2. IInv /\ [Next]_vars => IInv'
  <2> SUFFICES ASSUME IInv, [Next]_vars PROVE IInv'
    OBVIOUS
  <2> USE DEF IInv
  <2>1. CASE newBlock
    <3> USE <2>1 DEF newBlock
    <3>1. mined' \in Nat
      BY DEF TypeOK, Minable
    <3>2. loop' \in [Requests -> [at : Places, age : 0 .. Timeout]]
      BY DEF TypeOK
    <3>3. \A r \in Requests : loop'[r].at = loop[r].at
      BY DEF TypeOK
    <3> QED
      BY <3>1, <3>2, <3>3 DEF TypeOK, OnLoan, Watched, At
  <2>2. CASE Restart
    <3>1. managed' \in BOOLEAN
      BY <2>2, Zenon DEF Restart
    <3>2. loop' \in [Requests -> [at : Places, age : 0 .. Timeout]]
      BY <2>2 DEF Restart, Places
    <3>3. used' \subseteq Nat /\ nextNonce' = 0 /\ restarts' \in Nat
      BY <2>2 DEF Restart, TypeOK
    <3>4. TypeOK'
      BY <2>2, <3>1, <3>2, <3>3 DEF Restart, TypeOK
    <3>5. OnLoan'
      BY <2>2 DEF Restart, OnLoan, Watched, At
    <3> QED
      BY <3>3, <3>4, <3>5
  <2>3. ASSUME NEW r \in Requests, applyNonce(r) PROVE IInv'
    <3>1. failures' \in Nat /\ UNCHANGED <<cancelling, mined, pool, restarts>>
      BY <2>3 DEF applyNonce, Fails, TypeOK
    <3>2. \E n \in Nat : (n = nextNonce \/ nextNonce = 0) /\ HandOut(r, n)
      BY <2>3 DEF applyNonce, TypeOK, Pending, Minable
    <3> QED
      BY <3>1, <3>2, HandedOut
  <2>4. ASSUME NEW r \in Requests, confirmLoop(r) PROVE IInv'
    BY <2>4, Step
  <2>5. ASSUME NEW r \in Requests, send(r) PROVE IInv'
    <3>1. owner' \in [Requests -> {"new", "holding", "done"}]
      BY <2>5 DEF send, TypeOK
    <3>2. pool' = pool \cup {nonce[r]} \/ pool' = pool
      BY <2>5, Zenon DEF send
    <3>3. pool' \subseteq Nat
      <4>1. {nonce[r]} \subseteq Nat /\ pool \subseteq Nat
        BY DEF TypeOK
      <4> HIDE DEF IInv
      <4>2. \A k \in pool' : k \in pool \/ k = nonce[r]
        BY <3>2, Zenon
      <4> QED
        BY <4>1, <4>2, Zenon
    <3>4. TypeOK'
      BY <2>5, <3>1, <3>3 DEF send, TypeOK
    <3>5. OnLoan'
      BY <2>5 DEF send, OnLoan, Watched, At
    <3> QED
      BY <2>5, <3>4, <3>5 DEF send
  <2>6. CASE UNCHANGED vars
    BY <2>6 DEF vars, TypeOK, OnLoan, Watched, At
  <2> QED
    BY <2>1, <2>2, <2>3, <2>4, <2>5, <2>6 DEF Next
<1> QED
  BY <1>1, <1>2, PTL DEF Spec

(* Type correctness: whatever fails and however often the server restarts, *)
(* every goroutine is at one of the places of confirmLoop and has waited   *)
(* for no longer than the timeout, and every nonce is a number.            *)
THEOREM TypeCorrectness == Spec => []TypeOK
<1>1. IInv => TypeOK
  BY DEF IInv
<1> QED
  BY <1>1, Invariance, PTL

(* The nonces the goroutines watch over are different, below the next one  *)
(* and known with whom to ask to use them up (applyNonce, confirmLoop).    *)
THEOREM NoncesOnLoan == Spec => []OnLoan
<1>1. IInv => OnLoan
  BY DEF IInv
<1> QED
  BY <1>1, Invariance, PTL

=============================================================================
