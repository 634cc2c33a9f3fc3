---------------------------- MODULE MutantStatus ----------------------------
(***************************************************************************)
(* The statuses a mutant can carry, how one run of a test binary is        *)
(* classified, and the rule by which a later result may replace an earlier *)
(* one.  Pure definitions shared by every module that handles results.     *)
(***************************************************************************)
EXTENDS Naturals

\* The zero value of Mutant.Status: no phase has given a result yet.
Unset == ""

\* What one execution of a test binary can be classified as.
RunStatuses == {"killed", "survived", "timeout", "untested", "error"}

\* Every value of Mutant.Status in the core package.
Statuses == RunStatuses \cup {Unset, "invalid"}

(***************************************************************************)
(* What the executor observes of one run: whether its own hard deadline    *)
(* expired, whether the output has a "--- FAIL: " line, whether it has a   *)
(* "=== RUN   " line, and whether the process exited with an error.        *)
(***************************************************************************)
Observations ==
  [deadline : BOOLEAN, failLine : BOOLEAN, sawRun : BOOLEAN, exitErr : BOOLEAN]

classifyVerboseRun(o) ==
  IF o.deadline THEN "timeout"
  ELSE IF o.failLine THEN "killed"
  ELSE IF o.sawRun THEN (IF o.exitErr THEN "killed" ELSE "survived")
  ELSE (IF o.exitErr THEN "error" ELSE "untested")

statusRank ==
  [s \in Statuses |->
     CASE s = Unset      -> 0
       [] s = "untested" -> 1
       [] s = "survived" -> 2
       [] s = "error"    -> 3
       [] s = "timeout"  -> 4
       [] s = "killed"   -> 5
       [] s = "invalid"  -> 6]

\* killed and invalid are terminal; otherwise a result of equal or higher
\* rank replaces the current one.
shouldUpdate(current, incoming) ==
  /\ current \notin {"invalid", "killed"}
  /\ statusRank[incoming] >= statusRank[current]

\* MUTANT: the last result wins.
MergedLast(current, incoming) == incoming

\* The status after a result has been offered under shouldUpdate.
Merged(current, incoming) ==
  IF shouldUpdate(current, incoming) THEN incoming ELSE current

=============================================================================
