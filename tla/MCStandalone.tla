---------------------------- MODULE MCStandalone ----------------------------
(* Instances of Standalone for TLC: the first package has two mutants, every *)
(* other one has one.                                                         *)
EXTENDS Standalone

MCPkgOf == [m \in Mutants |-> IF m <= 2 THEN 1 ELSE m - 1]
MCStored == {Unset, "survived"}
=============================================================================
