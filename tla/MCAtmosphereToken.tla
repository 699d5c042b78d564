-------------------------- MODULE MCAtmosphereToken -------------------------
(* A small side chain: one user and the notaries' account, and a uint256   *)
(* so narrow that the owner can make the supply overflow.                  *)
EXTENDS AtmosphereToken

CONSTANTS alice, notary, zero, s1

MCAccounts == {alice, notary}
MCSecrets  == {s1}
=============================================================================
