---------------------------- MODULE MCLifecycle ----------------------------
(* Instances of Lifecycle for TLC: the mutants are interchangeable.           *)
EXTENDS Lifecycle, TLC

CONSTANTS m1, m2

MCMutants == {m1, m2}
MutantSymmetry == Permutations(MCMutants)
=============================================================================
