---------------------------- MODULE NonceManager ---------------------------
(***************************************************************************)
(* One account of the nonce server, cmd/nonce_server/nonce_manager.go: the *)
(* nonces it hands out, the goroutine that watches over each of them until *)
(* the chain has used it, the owners of the nonces, and the notaries that  *)
(* are asked to use up a nonce in place of its owner.                      *)
(*                                                                         *)
(* Heights are not kept: a goroutine counts the blocks since it started,   *)
(* up to Timeout.                                                          *)
(***************************************************************************)
EXTENDS Integers

CONSTANTS
    Requests,          \* those who ask for a nonce, once each
    Timeout,           \* defaultTimeoutBlock
    FirstNonce,        \* the account's nonce on the chain at the start
    MaxFailures,       \* bound: calls that fail
    MaxRestarts        \* bound: restarts of the server

ASSUME NonceNumbers == /\ Timeout \in Nat \ {0}
                       /\ FirstNonce \in Nat
                       /\ MaxFailures \in Nat
                       /\ MaxRestarts \in Nat

VARIABLES
    managed,           \* does the server have a nonceManager for the account?
    nextNonce,         \* 0 until it has
    used,              \* the keys of usedNonceToCancelURLMap
    loop,              \* request -> its confirmLoop: where it is, and its age in blocks
    nonce,             \* request -> the nonce it got
    owner,             \* request -> what its owner does with the nonce
    cancelling,        \* requests whose nonce a notary was asked to use up
    mined,             \* NonceAt: how many nonces the chain has used
    pool,              \* nonces of the transactions that wait for a block
    failures, restarts

vars == <<managed, nextNonce, used, loop, nonce, owner, cancelling, mined, pool, failures, restarts>>

Init ==
    /\ managed = FALSE /\ nextNonce = 0 /\ used = {}
    /\ loop = [r \in Requests |-> [at |-> "none", age |-> 0]]
    /\ nonce = [r \in Requests |-> 0]
    /\ owner = [r \in Requests |-> "new"]
    /\ cancelling = {}
    /\ mined = FirstNonce /\ pool = {}
    /\ failures = 0 /\ restarts = 0

-----------------------------------------------------------------------------
(* The chain.                                                              *)
Fails == failures < MaxFailures /\ failures' = failures + 1

\* What the account's nonce may become with a block.
Minable == {n \in {mined} \cup {k + 1 : k \in pool} :
               n >= mined /\ \A m \in mined .. n - 1 : m \in pool}
\* PendingNonceAt.
Pending == {n \in Minable : n \notin pool}

\* SendTransaction: a nonce that is used or taken is an error.
Sendable(n) == n >= mined /\ n \notin pool

newBlock ==
    /\ mined' \in Minable
    /\ pool' = {k \in pool : k >= mined'}
    /\ loop' = [r \in Requests |-> IF loop[r].at \in {"nonce", "block"} /\ loop[r].age < Timeout
                                   THEN [loop[r] EXCEPT !.age = @ + 1] ELSE loop[r]]
    /\ UNCHANGED <<managed, nextNonce, used, nonce, owner, cancelling, failures, restarts>>

-----------------------------------------------------------------------------
(* applyNonce, which the server calls for one request at a time, with      *)
(* newNonceManager for the first one.                                      *)
HandOut(r, n) ==
    /\ managed' = TRUE
    /\ nextNonce' = n + 1
    /\ used' = used \cup {n}
    /\ nonce' = [nonce EXCEPT ![r] = n]
    /\ owner' = [owner EXCEPT ![r] = "holding"]
    /\ loop' = [loop EXCEPT ![r] = [at |-> "start", age |-> 0]]

\* 0 is taken for a number that is still to be asked for, and is what is left
\* of an answer that failed.
applyNonce(r) ==
    /\ owner[r] = "new"
    /\ \/ managed /\ nextNonce # 0 /\ HandOut(r, nextNonce) /\ UNCHANGED failures
       \/ ~managed /\ mined # 0 /\ HandOut(r, mined) /\ UNCHANGED failures
       \/ /\ nextNonce = 0
          /\ \/ (managed \/ mined = 0) /\ UNCHANGED failures
             \/ ~managed /\ Fails
          /\ \E n \in Pending : HandOut(r, n)
       \/ nextNonce = 0 /\ Fails /\ HandOut(r, 0)
    /\ UNCHANGED <<cancelling, mined, pool, restarts>>

-----------------------------------------------------------------------------
(* confirmLoop: after the height it starts from, every second the chain's  *)
(* nonce and then the height; one step per call.                           *)
At(r, place)   == loop[r].at = place
Goes(r, place) == loop' = [loop EXCEPT ![r].at = place]
Ends(r)        == loop' = [loop EXCEPT ![r] = [at |-> "none", age |-> 0]]

startLoop(r) ==
    /\ At(r, "start")
    /\ \/ /\ loop' = [loop EXCEPT ![r] = [at |-> "nonce", age |-> 0]]
          /\ UNCHANGED failures
       \/ Fails /\ Ends(r)
    /\ UNCHANGED <<managed, nextNonce, used, nonce, owner, cancelling, mined, pool, restarts>>

checkNonce(r) ==
    /\ At(r, "nonce")
    /\ IF mined > nonce[r]
       THEN Ends(r) /\ used' = used \ {nonce[r]}
       ELSE Goes(r, "block") /\ UNCHANGED used
    /\ UNCHANGED <<managed, nextNonce, nonce, owner, cancelling, mined, pool, failures, restarts>>

checkBlock(r) ==
    /\ At(r, "block")
    /\ IF loop[r].age >= Timeout THEN Goes(r, "timeout") ELSE Goes(r, "nonce")
    /\ UNCHANGED <<managed, nextNonce, used, nonce, owner, cancelling, mined, pool, failures, restarts>>

\* Under the lock.  Mistakes: any nonce is handed out again, or the one before.
LastHandedOutOrNot(n) == nextNonce > n
LastHandedOut(n)      == nextNonce = n + 1

NextAgainBefore(n) == nextNonce' = n - 1
NextAgain(n)       == nextNonce' = n

timeOut(r) ==
    /\ At(r, "timeout")
    /\ IF LastHandedOut(nonce[r])
       THEN NextAgain(nonce[r]) /\ used' = used \ {nonce[r]} /\ Ends(r)
       ELSE Goes(r, "cancel") /\ UNCHANGED <<nextNonce, used>>
    /\ UNCHANGED <<managed, nonce, owner, cancelling, mined, pool, failures, restarts>>

\* cancelNonce up to its request; without an URL it panics.
cancelNonce(r) ==
    /\ At(r, "cancel")
    /\ nonce[r] \in used
    /\ \/ /\ cancelling' = cancelling \cup {r}
          /\ Goes(r, "posted")
          /\ UNCHANGED failures
       \/ Fails /\ Ends(r) /\ UNCHANGED cancelling
    /\ UNCHANGED <<managed, nextNonce, used, nonce, owner, mined, pool, restarts>>

\* The notary's onCancelNonceRequest up to its transaction.  Mistake: it is not
\* sent.
useUpNothing(n) == UNCHANGED pool
useUp(n)        == pool' = pool \cup {n}

onCancelNonceRequest(r) ==
    /\ r \in cancelling
    /\ cancelling' = cancelling \ {r}
    /\ \/ /\ Sendable(nonce[r])
          /\ useUp(nonce[r])
          /\ IF At(r, "posted") THEN Goes(r, "mining") ELSE UNCHANGED loop
          /\ UNCHANGED failures
       \/ /\ \/ ~Sendable(nonce[r]) /\ UNCHANGED failures
             \/ Fails
          /\ IF At(r, "posted") THEN Ends(r) ELSE UNCHANGED loop
          /\ UNCHANGED pool
    /\ UNCHANGED <<managed, nextNonce, used, nonce, owner, mined, restarts>>

\* WaitMined, and the answer.
cancelled(r) ==
    /\ At(r, "mining")
    /\ mined > nonce[r]
    /\ used' = used \ {nonce[r]}
    /\ Ends(r)
    /\ UNCHANGED <<managed, nextNonce, nonce, owner, cancelling, mined, pool, failures, restarts>>

confirmLoop(r) == startLoop(r) \/ checkNonce(r) \/ checkBlock(r) \/ timeOut(r) \/ cancelNonce(r)
                  \/ onCancelNonceRequest(r) \/ cancelled(r)

-----------------------------------------------------------------------------
(* The owners send their transaction at any time, or never; the server is  *)
(* killed and forgets everything.                                          *)
send(r) ==
    /\ owner[r] = "holding"
    /\ owner' = [owner EXCEPT ![r] = "done"]
    /\ IF Sendable(nonce[r]) THEN pool' = pool \cup {nonce[r]} ELSE UNCHANGED pool
    /\ UNCHANGED <<managed, nextNonce, used, loop, nonce, cancelling, mined, failures, restarts>>

Restart ==
    /\ restarts < MaxRestarts
    /\ restarts' = restarts + 1
    /\ managed' = FALSE /\ nextNonce' = 0 /\ used' = {}
    /\ loop' = [r \in Requests |-> [at |-> "none", age |-> 0]]
    /\ UNCHANGED <<nonce, owner, cancelling, mined, pool, failures>>

-----------------------------------------------------------------------------
Next == \/ newBlock \/ Restart
        \/ \E r \in Requests : applyNonce(r) \/ confirmLoop(r) \/ send(r)

Spec == Init /\ [][Next]_vars

\* Goroutines run, blocks come and take up what can be mined; owners and the
\* server's supervisor need not do anything.
FairSpec == /\ Spec
            /\ WF_vars(newBlock) /\ WF_vars(newBlock /\ mined' > mined)
            /\ \A r \in Requests : WF_vars(confirmLoop(r))

-----------------------------------------------------------------------------
Places == {"none", "start", "nonce", "block", "timeout", "cancel", "posted", "mining"}

TypeOK ==
    /\ managed \in BOOLEAN /\ nextNonce \in Nat /\ used \subseteq Nat
    /\ loop \in [Requests -> [at : Places, age : 0 .. Timeout]]
    /\ nonce \in [Requests -> Nat]
    /\ owner \in [Requests -> {"new", "holding", "done"}]
    /\ cancelling \subseteq Requests
    /\ mined \in Nat /\ pool \subseteq Nat
    /\ failures \in Nat /\ restarts \in Nat

Watched(r) == ~At(r, "none")

(* The nonces that goroutines watch over are different ones, all handed    *)
(* out, and the server knows whom to ask to use them up (the panic "never  *)
(* happen" of cancelNonce): although each goroutine decides alone, and in  *)
(* any order, whether its nonce is handed out again or used up.            *)
OnLoan ==
    /\ \A r \in Requests : Watched(r) => nonce[r] < nextNonce /\ nonce[r] \in used
    /\ \A r, s \in Requests : Watched(r) /\ Watched(s) /\ r # s => nonce[r] # nonce[s]

Forgotten(n) == n >= mined /\ n \notin pool /\ \A r \in Requests : Watched(r) => nonce[r] # n

(* No nonce blocks the ones after it for ever: again and again all nonces  *)
(* handed out are used, by their owners or by a notary, or free to be      *)
(* handed out again - unless a failed call ended the goroutine that        *)
(* watched over one (confirmLoop's waiting, reusing and cancelling).       *)
NoGapStays == []<>(nextNonce <= mined \/ \E n \in used : Forgotten(n))
=============================================================================
