----------------------------- MODULE MCPipeline -----------------------------
(* The constants of Pipeline for TLC. *)
EXTENDS Pipeline, TLC

CONSTANTS t1, t2, q1, q2, drop
Kinds == [x \in Queries |-> IF x = drop THEN "drop" ELSE "plain"]
Symmetry == Permutations({q1, q2})
=============================================================================
