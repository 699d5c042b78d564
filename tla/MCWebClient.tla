---------------------------- MODULE MCWebClient ----------------------------
(* One user, two secrets: two lockins, or a lockin and a lockout.          *)
EXTENDS WebClient

CONSTANTS alice, federation, nobody, s1, s2, none

MCSecrets   == {s1, s2}

\* Which secret comes first is only a matter of names.
InOrder == s2 \in made => s1 \in made
=============================================================================
