----------------------------- MODULE MCTransfer -----------------------------
(* One user, one secret, two notaries.                                     *)
EXTENDS Transfer, TLC

CONSTANTS alice, n1, n2, federation, nobody, s1, none

MCUsers    == {alice}
MCNotaries == {n1, n2}
MCSecrets  == {s1}
SameNotaries == Permutations(MCNotaries)
=============================================================================
