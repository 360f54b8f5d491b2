------------------------- MODULE MCIdentitySessions -------------------------
(* IdentitySessions for two signers in different failure domains.          *)
EXTENDS IdentitySessions, TLC

OwnDomain == [s \in Signers |-> s]

Symmetry ==
    Permutations(Workers) \cup Permutations(Signers) \cup Permutations(Requests)
=============================================================================
