--------------------------- MODULE MCNonceManager --------------------------
(* Three notaries ask for a nonce of one account.                          *)
EXTENDS NonceManager

CONSTANTS a, b, c

ThreeRequests == {a, b, c}
=============================================================================
