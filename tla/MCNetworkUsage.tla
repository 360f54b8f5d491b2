--------------------------- MODULE MCNetworkUsage ---------------------------
(* NetworkUsage for two services and a dataset under two policies.         *)
EXTENDS NetworkUsage

CONSTANTS c1, c2, c3, erp, crm, r1, r2, r3

Resource == (c1 :> erp) @@ (c2 :> crm) @@ (c3 :> erp)

Cost == (c1 :> {1}) @@ (c2 :> {1}) @@ (c3 :> {1, 2})

\* The second policy is stricter, over a shorter window.
Limited == <<[max_cost |-> 2, rate |-> 2, fanout |-> 1,
              windows |-> <<[duration |-> 4, limit |-> 3]>>],
             [max_cost |-> 2, rate |-> 3, fanout |-> 2,
              windows |-> <<[duration |-> 3, limit |-> 2]>>]>>

Alike == Permutations(Requests)
=============================================================================
