-------------------------- MODULE MCLockedEthereum --------------------------
(* A small main chain: one user and the notaries' account.                 *)
EXTENDS LockedEthereum

CONSTANTS alice, notary, zero, s1

MCAccounts == {alice, notary}
MCSecrets  == {s1}
=============================================================================
