----------------------------- MODULE MCPreflight ----------------------------
(* An instance of Preflight: a file with two mutants that fail alone and a    *)
(* pair that fails together, one with such a pair only, and one that vanishes. *)
EXTENDS Preflight

MCFileOf == [m \in 1 .. 7 |-> IF m <= 4 THEN "a" ELSE IF m <= 6 THEN "b" ELSE "c"]
MCConflicts == {{1}, {4}, {2, 3}, {5, 6}, {7}}
=============================================================================
