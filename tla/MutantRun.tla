------------------------------ MODULE MutantRun ------------------------------
(***************************************************************************)
(* What running the test suite of a set of packages against a set of       *)
(* mutants promises, whatever the scheduling: every mutant gets exactly    *)
(* one result, a result once given is never taken back or repeated, and    *)
(* the call returns only when every mutant has its result.                 *)
(***************************************************************************)
EXTENDS Naturals, Sequences, MutantStatus

CONSTANT Mutants

VARIABLES
  allResults,  \* for each mutant, the results collected for it, in order
  returned     \* the call has returned allResults to its caller

runVars == <<allResults, returned>>

Init ==
  /\ allResults = [m \in Mutants |-> <<>>]
  /\ returned = FALSE

Settle(m) ==
  /\ ~returned
  /\ allResults[m] = <<>>
  /\ \E s \in RunStatuses : allResults' = [allResults EXCEPT ![m] = <<s>>]
  /\ UNCHANGED returned

Return ==
  /\ ~returned
  /\ \A m \in Mutants : allResults[m] # <<>>
  /\ returned' = TRUE
  /\ UNCHANGED allResults

Next == Return \/ \E m \in Mutants : Settle(m)

SafeSpec == Init /\ [][Next]_runVars

Spec == SafeSpec /\ WF_runVars(Next)

=============================================================================
