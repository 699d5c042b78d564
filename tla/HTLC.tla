-------------------------------- MODULE HTLC --------------------------------
(***************************************************************************)
(* What one hash time lock promises.  Both contracts of the bridge keep    *)
(* two locks per account (lockin_htlc and lockout_htlc of                  *)
(* contracts/mainchain_erc20.sol and contracts/sidechain_erc20.sol), and   *)
(* each of those four implements this specification.                       *)
(*                                                                         *)
(* A lock is open (Unlocked) or closed on terms: the digest that opens it, *)
(* the block it expires at and the value it holds.  The terms of a closed  *)
(* lock never change.  It is opened by a published preimage while the      *)
(* chain is below the expiration, or without one once the chain is above   *)
(* it; at the expiration block itself nothing opens it.                    *)
(***************************************************************************)
EXTENDS HashLock

VARIABLES
    now,               \* height of the chain the lock lives on
    revealed,          \* preimages published on that chain
    terms              \* the terms the lock is closed on, or Unlocked

lockVars == <<now, revealed, terms>>

LockInit == /\ now \in Nat
            /\ revealed = {}
            /\ terms = Unlocked

Close == /\ terms = Unlocked
         /\ terms' \in LockRecord
         /\ terms'.value > 0
         /\ UNCHANGED <<now, revealed>>

OpenWithSecret == /\ terms # Unlocked
                  /\ now < terms.Expiration
                  /\ \E s \in revealed' : Sha256(s) = terms.SecretHash
                  /\ terms' = Unlocked
                  /\ revealed \subseteq revealed'
                  /\ UNCHANGED now

OpenAfterExpiry == /\ terms # Unlocked
                   /\ now > terms.Expiration
                   /\ terms' = Unlocked
                   /\ UNCHANGED <<now, revealed>>

\* The chain grows, or a preimage is published by another lock of it.
Elsewhere == /\ \/ now' = now + 1 /\ UNCHANGED revealed
                \/ revealed \subseteq revealed' /\ UNCHANGED now
             /\ UNCHANGED terms

LockNext == Close \/ OpenWithSecret \/ OpenAfterExpiry \/ Elsewhere

LockSpec == LockInit /\ [][LockNext]_lockVars
=============================================================================
