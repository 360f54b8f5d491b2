--------------------------- MODULE MCKeyLifecycle ---------------------------
(* KeyLifecycle for two custodians in different failure domains.           *)
EXTENDS KeyLifecycle, TLC

CONSTANTS c1, c2

TwoDomains == [c \in Custodians |-> IF c = c1 THEN "west" ELSE "east"]

Symmetry ==
    Permutations(Workers) \cup Permutations(Requests) \cup Permutations(Custodians)
=============================================================================
