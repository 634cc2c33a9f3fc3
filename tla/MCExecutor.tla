----------------------------- MODULE MCExecutor -----------------------------
(* Instances of Executor for TLC: two packages, the first has two mutants.   *)
EXTENDS Executor

MCPkgOf == [m \in Mutants |-> IF m <= 2 THEN 1 ELSE 2]
MCStored == {Unset, "untested"}
=============================================================================
