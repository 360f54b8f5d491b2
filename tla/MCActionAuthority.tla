-------------------------- MODULE MCActionAuthority --------------------------
(* ActionAuthority for an action, a shielded export and their batch.       *)
EXTENDS ActionAuthority, TLC

CONSTANTS c1, c2, c3, e1, i1, b1, s1, a1

\* c3 is an export that can only become c2.
Reduced  == c3 :> c2
\* One subject acts, another signs.
Actor    == [c \in Capsules |-> a1]
Exact    == e1 :> c1
Sources  == e1 :> i1
Domains  == (i1 :> 1) @@ (s1 :> 2)
Together == b1 :> {c1, c2}
Emergencies == {{}, {c1}}
=============================================================================
