------------------------------ MODULE Executor ------------------------------
(***************************************************************************)
(* compileAndRunPackages: the goroutines that compile every package of the *)
(* mutated workspace, run the resulting test binary once per mutant, and   *)
(* hand each result over an unbuffered channel to one collector.           *)
(*                                                                         *)
(*   main       hands the packages, in order, to compileGroup, waits for   *)
(*              compileGroup, then for testGroup, closes the channel and   *)
(*              waits for the collector;                                   *)
(*   Worker(p)  the function given to compileGroup.Go for package p;       *)
(*   Test(m)    the function a worker gives to testGroup.Go for mutant m;  *)
(*   collector  ranges over the channel and appends to allResults.         *)
(*                                                                         *)
(* Both errgroups are limited to Concurrent goroutines; Go blocks its      *)
(* caller while the group is full.  No function given to either group      *)
(* returns an error, so their contexts are never cancelled here.           *)
(***************************************************************************)
EXTENDS Naturals, Sequences, FiniteSets, Promises

CONSTANTS
  NumPkgs,         \* number of packages; 1..NumPkgs in the order of sort.Strings
  Mutants,         \* the mutant IDs to run, a finite set of numbers
  PkgOf,           \* the package of each mutant
  Concurrent,      \* the limit given to both errgroups
  StoredStatuses   \* statuses a mutant may already carry when the call starts

ASSUME ExecutorAssumption ==
  /\ NumPkgs \in Nat
  /\ Mutants \subseteq Nat
  /\ IsFiniteSet(Mutants)
  /\ PkgOf \in [Mutants -> 1 .. NumPkgs]
  /\ Concurrent \in Nat \ {0}
  /\ StoredStatuses \subseteq RunStatuses \cup {Unset}

Pkgs == 1 .. NumPkgs
Ids(p) == {m \in Mutants : PkgOf[m] = p}

VARIABLES
  mpc,            \* where the calling goroutine is
  next,           \* the next package to give to compileGroup.Go
  wpc,            \* where the worker of each package is
  todo,           \* mutants of each package not yet reported nor given to testGroup
  perMutant,      \* mutants of each package with a compile error
  binary,         \* the package's test binary exists on disk
  tpc,            \* where the test goroutine of each mutant is
  stored,         \* Mutant.Status as the call finds it; only read here
  hand,           \* the result the collector has received and not yet appended
  allResults,     \* results appended for each mutant (the final sort by ID drops their order)
  closed,         \* close(resultsChan) has been executed
  collectorDone   \* the collector's loop has ended

mainVars == <<mpc, next>>
workerVars == <<wpc, todo, perMutant, binary>>
chanVars == <<hand, allResults, closed, collectorDone>>
vars == <<mpc, next, wpc, todo, perMutant, binary, tpc, stored,
          hand, allResults, closed, collectorDone>>

\* The zero mutantResult: the collector is waiting to receive.
NoResult == [id |-> 0, status |-> Unset]

CompileSlots == {p \in Pkgs : wpc[p] \notin {"waiting", "returned"}}
TestSlots == {m \in Mutants : tpc[m] \in {"running", "sending"}}

\* m is the first of the IDs S in the order of sort.Ints.
IsFirst(m, S) == m \in S /\ \A n \in S : m <= n

\* resultsChan <- result: a rendezvous with the waiting collector.
SendResult(m, status) ==
  /\ hand = NoResult
  /\ ~collectorDone
  /\ hand' = [id |-> m, status |-> status]
  /\ UNCHANGED <<allResults, closed, collectorDone>>

-----------------------------------------------------------------------------
Init ==
  /\ mpc = "spawn"
  /\ next = 1
  /\ wpc = [p \in Pkgs |-> "waiting"]
  /\ todo = [p \in Pkgs |-> Ids(p)]
  /\ perMutant = [p \in Pkgs |-> {}]
  /\ binary = [p \in Pkgs |-> FALSE]
  /\ tpc = [m \in Mutants |-> "none"]
  /\ stored \in [Mutants -> StoredStatuses]
  /\ hand = NoResult
  /\ allResults = [m \in Mutants |-> <<>>]
  /\ closed = FALSE
  /\ collectorDone = FALSE

(***************************************************************************)
(* The calling goroutine.                                                  *)
(***************************************************************************)
\* MUTANT: the package loop runs one iteration too many.
SpawnPackageOneTooMany ==
  /\ mpc = "spawn"
  /\ next <= NumPkgs + 1
  /\ Cardinality(CompileSlots) < Concurrent
  /\ wpc' = [p \in Pkgs |-> IF p = next THEN "list" ELSE wpc[p]]
  /\ next' = next + 1
  /\ UNCHANGED <<mpc, todo, perMutant, binary, tpc, stored, chanVars>>

SpawnPackage ==
  /\ mpc = "spawn"
  /\ next <= NumPkgs
  /\ Cardinality(CompileSlots) < Concurrent
  /\ wpc' = [wpc EXCEPT ![next] = "list"]
  /\ next' = next + 1
  /\ UNCHANGED <<mpc, todo, perMutant, binary, tpc, stored, chanVars>>

SpawnedAll ==
  /\ mpc = "spawn"
  /\ next > NumPkgs
  /\ mpc' = "compileWait"
  /\ UNCHANGED <<next, workerVars, tpc, stored, chanVars>>

CompileGroupWait ==
  /\ mpc = "compileWait"
  /\ \A p \in Pkgs : wpc[p] = "returned"
  /\ mpc' = "testWait"
  /\ UNCHANGED <<next, workerVars, tpc, stored, chanVars>>

\* MUTANT: the channel is closed without waiting for the test group.
CloseWithoutTestWait ==
  /\ mpc = "testWait"
  /\ closed' = TRUE
  /\ mpc' = "collectorWait"
  /\ UNCHANGED <<next, workerVars, tpc, stored, hand, allResults, collectorDone>>

TestGroupWaitAndClose ==
  /\ mpc = "testWait"
  /\ TestSlots = {}
  /\ closed' = TRUE
  /\ mpc' = "collectorWait"
  /\ UNCHANGED <<next, workerVars, tpc, stored, hand, allResults, collectorDone>>

ReturnResults ==
  /\ mpc = "collectorWait"
  /\ collectorDone
  /\ mpc' = "returned"
  /\ UNCHANGED <<next, workerVars, tpc, stored, chanVars>>

Main ==
  \/ SpawnPackage
  \/ SpawnedAll
  \/ CompileGroupWait
  \/ TestGroupWaitAndClose
  \/ ReturnResults

(***************************************************************************)
(* The collector.                                                          *)
(***************************************************************************)
CollectorAppend ==
  /\ hand # NoResult
  /\ allResults' = [allResults EXCEPT ![hand.id] = Append(@, hand.status)]
  /\ hand' = NoResult
  /\ UNCHANGED <<mainVars, workerVars, tpc, stored, closed, collectorDone>>

CollectorEnd ==
  /\ closed
  /\ hand = NoResult
  /\ ~collectorDone
  /\ collectorDone' = TRUE
  /\ UNCHANGED <<mainVars, workerVars, tpc, stored, hand, allResults, closed>>

Collector == CollectorAppend \/ CollectorEnd

(***************************************************************************)
(* A compile worker.  Its three reporting loops and its dispatch loop all  *)
(* go through the package's IDs in order; todo[p] is what is left of them. *)
(***************************************************************************)
WorkerAt(p, here) == wpc[p] = here

GoTo(p, there) == wpc' = [wpc EXCEPT ![p] = there]

\* The send itself: the ID leaves todo, the worker stays in its loop.
Report(p, m, status) ==
  /\ SendResult(m, status)
  /\ todo' = [todo EXCEPT ![p] = @ \ {m}]
  /\ UNCHANGED <<mainVars, wpc, perMutant, binary, tpc, stored>>

\* packageHasGoTestFiles; when `go list` itself fails the worker compiles.
ListTestFiles(p) ==
  /\ WorkerAt(p, "list")
  /\ \E hasTests \in BOOLEAN :
       GoTo(p, IF hasTests THEN "compile" ELSE "reportUntested")
  /\ UNCHANGED <<mainVars, todo, perMutant, binary, tpc, stored, chanVars>>

ReportUntested(p) ==
  /\ WorkerAt(p, "reportUntested")
  /\ \E m \in todo[p] : IsFirst(m, todo[p]) /\ Report(p, m, "untested")

(***************************************************************************)
(* compileWithAttribution.  A success may still leave no binary (a package *)
(* whose listing failed and that has no test files).  A failure gives      *)
(* every mutant of the package an error: this executor is built with       *)
(* projectRoot = tempDir, so attributeCompileErrors looks for the if-spans *)
(* in the unmutated originals, finds none, and every parsed error is       *)
(* unattributed.                                                           *)
(***************************************************************************)
Compile(p) ==
  /\ WorkerAt(p, "compile")
  /\ \/ /\ perMutant' = [perMutant EXCEPT ![p] = Ids(p)]
        /\ UNCHANGED binary
     \/ /\ \E exists \in BOOLEAN : binary' = [binary EXCEPT ![p] = exists]
        /\ UNCHANGED perMutant
  /\ GoTo(p, "reportErrors")
  /\ UNCHANGED <<mainVars, todo, tpc, stored, chanVars>>

ReportCompileError(p) ==
  /\ WorkerAt(p, "reportErrors")
  /\ \E m \in todo[p] \cap perMutant[p] :
       IsFirst(m, todo[p] \cap perMutant[p]) /\ Report(p, m, "error")

\* MUTANT: the later loops do not skip the IDs of perMutant.
StatBinaryForgetsErrors(p) ==
  /\ WorkerAt(p, "reportErrors")
  /\ todo[p] \cap perMutant[p] = {}
  /\ GoTo(p, IF binary[p] THEN "baseline" ELSE "reportMissing")
  /\ todo' = [todo EXCEPT ![p] = Ids(p)]
  /\ UNCHANGED <<mainVars, perMutant, binary, tpc, stored, chanVars>>

\* MUTANT: the binary is not looked for.
NoStatBinary(p) ==
  /\ WorkerAt(p, "reportErrors")
  /\ todo[p] \cap perMutant[p] = {}
  /\ GoTo(p, "baseline")
  /\ UNCHANGED <<mainVars, todo, perMutant, binary, tpc, stored, chanVars>>

StatBinary(p) ==
  /\ WorkerAt(p, "reportErrors")
  /\ todo[p] \cap perMutant[p] = {}
  /\ GoTo(p, IF binary[p] THEN "baseline" ELSE "reportMissing")
  /\ UNCHANGED <<mainVars, todo, perMutant, binary, tpc, stored, chanVars>>

ReportMissingBinary(p) ==
  /\ WorkerAt(p, "reportMissing")
  /\ \E m \in todo[p] : IsFirst(m, todo[p]) /\ Report(p, m, "error")

\* measureBaseline runs the unmutated binary twice, inside the compile worker.
MeasureBaseline(p) ==
  /\ WorkerAt(p, "baseline")
  /\ GoTo(p, "dispatch")
  /\ UNCHANGED <<mainVars, todo, perMutant, binary, tpc, stored, chanVars>>

\* A mutant that already is untested or error keeps that status, unrun.
ReportStored(p) ==
  /\ WorkerAt(p, "dispatch")
  /\ \E m \in todo[p] :
       /\ IsFirst(m, todo[p])
       /\ stored[m] \in {"untested", "error"}
       /\ Report(p, m, stored[m])

StartTest(p) ==
  /\ WorkerAt(p, "dispatch")
  /\ \E m \in todo[p] :
       /\ IsFirst(m, todo[p])
       /\ stored[m] \notin {"untested", "error"}
       /\ tpc' = [tpc EXCEPT ![m] = "running"]
       /\ todo' = [todo EXCEPT ![p] = @ \ {m}]
  /\ UNCHANGED <<mainVars, wpc, perMutant, binary, stored, chanVars>>

\* MUTANT: the tests are started in compileGroup itself.
SpawnTestInCompileGroup(p) ==
  /\ Cardinality(TestSlots) + Cardinality(CompileSlots) < Concurrent
  /\ StartTest(p)

\* testGroup.Go, called while holding a compileGroup slot.
SpawnTest(p) ==
  /\ Cardinality(TestSlots) < Concurrent
  /\ StartTest(p)

WorkerReturn(p) ==
  /\ wpc[p] \in {"reportUntested", "reportMissing", "dispatch"}
  /\ todo[p] = {}
  /\ GoTo(p, "returned")
  /\ UNCHANGED <<mainVars, todo, perMutant, binary, tpc, stored, chanVars>>

Worker(p) ==
  \/ ListTestFiles(p)
  \/ ReportUntested(p)
  \/ Compile(p)
  \/ ReportCompileError(p)
  \/ StatBinary(p)
  \/ ReportMissingBinary(p)
  \/ MeasureBaseline(p)
  \/ ReportStored(p)
  \/ SpawnTest(p)
  \/ WorkerReturn(p)

(***************************************************************************)
(* A test goroutine.  The run ends by itself or at its hard deadline; what *)
(* was observed of it is classified when the result is sent.               *)
(***************************************************************************)
RunMutant(m) ==
  /\ tpc[m] = "running"
  /\ tpc' = [tpc EXCEPT ![m] = "sending"]
  /\ UNCHANGED <<mainVars, workerVars, stored, chanVars>>

ReportOutcome(m) ==
  /\ tpc[m] = "sending"
  /\ \E o \in Observations : SendResult(m, classifyVerboseRun(o))
  /\ tpc' = [tpc EXCEPT ![m] = "returned"]
  /\ UNCHANGED <<mainVars, workerVars, stored>>

Test(m) == RunMutant(m) \/ ReportOutcome(m)

\* The call has returned: nothing is left to do.
Returned == mpc = "returned" /\ UNCHANGED vars

Next ==
  \/ Main
  \/ Collector
  \/ \E p \in Pkgs : Worker(p)
  \/ \E m \in Mutants : Test(m)
  \/ Returned

\* The Go scheduler runs every runnable goroutine, and a sender blocked on the
\* channel or on a full group is served once there is room: the number of sends
\* is finite, so weak fairness of each goroutine is enough.
Fairness ==
  /\ WF_vars(Main)
  /\ WF_vars(Collector)
  /\ \A p \in Pkgs : WF_vars(Worker(p))
  /\ \A m \in Mutants : WF_vars(Test(m))

SafeSpec == Init /\ [][Next]_vars

Spec == SafeSpec /\ Fairness

-----------------------------------------------------------------------------
(***************************************************************************)
(* Properties.                                                             *)
(***************************************************************************)
MainPoints == {"spawn", "compileWait", "testWait", "collectorWait", "returned"}
WorkerPoints ==
  {"waiting", "list", "reportUntested", "compile", "reportErrors",
   "reportMissing", "baseline", "dispatch", "returned"}
TestPoints == {"none", "running", "sending", "returned"}
Results == [id : Mutants, status : RunStatuses]

\* The type of every variable, and main's position relative to the channel.
TypeOK ==
  /\ mpc \in MainPoints
  /\ next \in 1 .. NumPkgs + 1
  /\ wpc \in [Pkgs -> WorkerPoints]
  /\ todo \in [Pkgs -> SUBSET Mutants]
  /\ perMutant \in [Pkgs -> SUBSET Mutants]
  /\ binary \in [Pkgs -> BOOLEAN]
  /\ tpc \in [Mutants -> TestPoints]
  /\ stored \in [Mutants -> RunStatuses \cup {Unset}]
  /\ hand \in Results \cup {NoResult}
  /\ allResults \in [Mutants -> Seq(RunStatuses)]
  /\ closed \in BOOLEAN
  /\ collectorDone \in BOOLEAN

\* What compileAndRunPackages hands back holds one result for every mutant it
\* was given, whichever of the five ways of reporting a mutant took, and no
\* mutant is ever reported twice on the way there.
ExactlyOneResult ==
  \A m \in Mutants :
    /\ Len(allResults[m]) <= 1
    /\ mpc = "returned" => Len(allResults[m]) = 1

\* Once resultsChan is closed no goroutine is left that would send on it (a
\* send on a closed channel panics), nor a result that was not appended.
NoSendAfterClose ==
  closed => /\ \A p \in Pkgs : wpc[p] = "returned"
            /\ \A m \in Mutants : tpc[m] \in {"none", "returned"}

\* Neither errgroup ever runs more goroutines than its limit, although test
\* goroutines are started from inside compile goroutines.
GroupLimits ==
  /\ Cardinality(CompileSlots) <= Concurrent
  /\ Cardinality(TestSlots) <= Concurrent

\* A verdict about behaviour is only given for a mutant whose package compiled
\* to a test binary and that was not already settled as untested or error:
\* "survived", "killed" and "timeout" never come from a run that did not happen.
VerdictsComeFromRuns ==
  \A m \in Mutants : \A i \in 1 .. Len(allResults[m]) :
    allResults[m][i] \in Verdicts =>
      /\ tpc[m] = "returned"
      /\ binary[PkgOf[m]]
      /\ m \notin perMutant[PkgOf[m]]
      /\ stored[m] \notin {"untested", "error"}

\* What Lifecycle takes the call for: with the mutants whose test goroutine has ended
\* as those that were run.
PromiseKept ==
  mpc = "returned" =>
    UnitTested(Mutants, stored, [m \in Mutants |-> allResults[m][1]],
               {m \in Mutants : tpc[m] = "returned"})

\* The call always returns: a compile worker that blocks in testGroup.Go while
\* holding its own slot, or in a send, is always released in the end.
Terminates == <>(mpc = "returned")

\* The goroutines together implement the one-result-per-mutant promise.
Abstract == INSTANCE MutantRun WITH returned <- mpc = "returned"
ImplementsMutantRun == Abstract!Spec

=============================================================================
