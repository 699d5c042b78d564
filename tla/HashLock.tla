------------------------------ MODULE HashLock ------------------------------
(***************************************************************************)
(* The data of a hash time lock: digests, the LockinInfo / LockoutInfo     *)
(* struct both contracts store per account, and how a stored struct is     *)
(* read as a lock.                                                         *)
(***************************************************************************)
EXTENDS Naturals

CONSTANT Secrets       \* the preimages users may choose

\* sha256 without collisions: a digest is the set of its only preimage,
\* and bytes32(0) is the digest of nothing.
Sha256(secret) == {secret}
EmptyHash      == {}
Hashes         == {Sha256(s) : s \in Secrets} \cup {EmptyHash}

LockRecord == [SecretHash : Hashes, Expiration : Nat, value : Nat]
Unlocked   == [SecretHash |-> EmptyHash, Expiration |-> 0, value |-> 0]

\* Every function of the contracts tests value alone: a struct of value 0 is
\* no lock, whatever its other fields hold.
TermsOf(li) == IF li.value = 0 THEN Unlocked ELSE li
=============================================================================
