------------------------------ MODULE Promises ------------------------------
(***************************************************************************)
(* What the parts of a run promise their caller, GenerateAndRunSchemata:   *)
(* relations between what a call is given and what it hands back.  The     *)
(* actions of Lifecycle are these relations, and that each part keeps its  *)
(* own is a theorem about the module that models the part.                 *)
(***************************************************************************)
EXTENDS MutantStatus

\* What only a run of a test binary can tell.
Verdicts == {"killed", "survived", "timeout"}

\* RunPreflight: every mutant is in one of the two slices.
Sorted(given, valid, invalid) == valid \cup invalid = given /\ valid \cap invalid = {}

\* verifyAndCleanSchemata without an error: what is removed is a compile error, the
\* rest is kept as it was.
Verified(given, before, kept, removed, after) ==
  /\ kept \subseteq given
  /\ removed = given \ kept
  /\ \A m \in given : after[m] = IF m \in removed THEN "error" ELSE before[m]

\* ... with one: what is kept gets a status, and is either in both results or in
\* the first only; or it stays as it was, but for the mutants of some packages.
VerificationFailed(given, before, kept, removed, after) ==
  /\ kept \subseteq given
  /\ \/ /\ removed = given \/ (removed = given \ kept /\ removed # {})
        /\ \A m \in given : after[m] = IF m \notin kept THEN "error"
                                        ELSE IF before[m] = Unset THEN "untested" ELSE before[m]
     \/ /\ removed = given \ kept
        /\ \E failed \in SUBSET kept :
             /\ failed # {}
             /\ \A m \in given : after[m] = IF m \in removed \cup failed THEN "error" ELSE before[m]

\* compileAndRunPackages: every mutant gets one result, and a verdict only if a test
\* binary was run for it, which none is for those that came as untested or error.
UnitTested(given, before, results, ran) ==
  /\ ran \subseteq {m \in given : before[m] \notin {"untested", "error"}}
  /\ results \in [given -> RunStatuses]
  /\ \A m \in given : results[m] \in Verdicts => m \in ran

\* runStandalone, when it returns the mutants: only those without a status are run,
\* all of them get one, and it is saved unless a package failed.
RanStandalone(given, before, after, ran, failed, saved) ==
  LET todo == {m \in given : before[m] = Unset}
  IN  /\ ran \subseteq todo
      /\ \A m \in todo : after[m] \in RunStatuses /\ (after[m] \in Verdicts => m \in ran)
      /\ \A m \in given \ todo : after[m] = before[m]
      /\ saved = ~failed

=============================================================================
