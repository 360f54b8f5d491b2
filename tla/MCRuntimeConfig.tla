--------------------------- MODULE MCRuntimeConfig ---------------------------
(* RuntimeConfig for configurations of increasing versions.                *)
EXTENDS RuntimeConfig, TLC

CONSTANTS s1, s2, s3

\* s1 is followed by s2 and, where it exists, by s3.
Increasing == [s \in Snapshots |-> IF s = s1 THEN 1 ELSE IF s = s2 THEN 2 ELSE 3]
=============================================================================
