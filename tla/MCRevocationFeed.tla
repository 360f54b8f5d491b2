-------------------------- MODULE MCRevocationFeed --------------------------
(* RevocationFeed for one gate, one capability and three signing keys.     *)
EXTENDS RevocationFeed, TLC

CONSTANTS c1, s1, k1, q1, q2

OneSubject == c1 :> s1
OneKey     == c1 :> k1

\* Custodians sign the configurations; all versions bear the same signature,
\* or the first one has another.
OneSigner  == [v \in 1..MaxVersion |-> q1]
TwoSigners == [v \in 1..MaxVersion |-> IF v = 1 THEN q1 ELSE q2]
=============================================================================
