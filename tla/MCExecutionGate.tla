-------------------------- MODULE MCExecutionGate --------------------------
(* ExecutionGate on small sets of workers, capsules and resources.         *)
EXTENDS ExecutionGate, TLC

CONSTANTS c1, c2, c3, r1, r2

\* All capsules name the same resource: they compete for its versions.
OneResource == [c \in Capsules |-> r1]

\* c1 and c3 compete, c2 has a resource of its own.
TwoResources == (c2 :> r2) @@ [c \in Capsules |-> r1]

WorkerSymmetry == Permutations(Workers)
=============================================================================
