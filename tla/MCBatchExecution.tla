-------------------------- MODULE MCBatchExecution --------------------------
(* BatchExecution on two overlapping compositions.                         *)
EXTENDS BatchExecution, TLC

CONSTANTS c1, c2, b1, b2, r1

\* c1 changes the resource, c2 exports from it; the compositions share c2.
Overlapping == (b1 :> <<c2, c1>>) @@ (b2 :> <<c2>>)
OneResource == [c \in Capsules |-> r1]
=============================================================================
