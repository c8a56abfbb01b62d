------------------------------ MODULE MCSession ------------------------------
(* The constants of Session for TLC. *)
EXTENDS Session, TLC

CONSTANTS a, b, c
OneName == [x \in Blocks |-> IF x = a THEN -1 ELSE 0]
SameName == [x \in Blocks |-> -1]
Symmetry == Permutations({b, c})
=============================================================================
