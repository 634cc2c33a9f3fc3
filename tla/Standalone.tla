----------------------------- MODULE Standalone -----------------------------
(***************************************************************************)
(* runStandalone: the run of a project without go.mod or go.work.  Every   *)
(* package is copied, mutated, compiled and tested by a goroutine of one   *)
(* errgroup; the goroutine of a package runs its mutants in goroutines of  *)
(* its own.                                                                *)
(*                                                                         *)
(* Unlike compileAndRunPackages, a package can fail here (its files cannot *)
(* be copied, or the schemata cannot be applied), and the first failure    *)
(* cancels the context of all others: their `go` commands and test         *)
(* binaries are killed wherever they are.                                  *)
(***************************************************************************)
EXTENDS Naturals, FiniteSets, Promises

CONSTANTS
  NumPkgs,         \* packages, 1..NumPkgs in the order of sort.Strings
  Mutants,         \* mutant IDs
  PkgOf,           \* the package of each mutant
  Concurrent,      \* the limit of the errgroup, and of the goroutines of one package
  StoredStatuses   \* statuses a mutant may have when the call starts

ASSUME StandaloneAssumption ==
  /\ NumPkgs \in Nat
  /\ Mutants \subseteq Nat
  /\ IsFiniteSet(Mutants)
  /\ PkgOf \in [Mutants -> 1 .. NumPkgs]
  /\ Concurrent \in Nat \ {0}
  /\ StoredStatuses \subseteq RunStatuses \cup {Unset}

Pkgs == 1 .. NumPkgs

VARIABLES
  mpc,        \* where the calling goroutine is
  toSpawn,    \* packages not yet given to g.Go
  wpc,        \* where the goroutine of each package is
  cancelled,  \* a goroutine has returned an error: the context is cancelled
  binary,     \* the test binary of each package exists
  testable,   \* testableIDs of each package not yet given a goroutine
  tpc,        \* where the goroutine of each mutant is
  result,     \* what it put into the buffered resultsChan
  ran,        \* history: the mutants a test process was started for
  cut,        \* history: those whose process was killed by the cancellation
  stored,     \* Mutant.Status as the call finds it: from the cache, or untested
  status,     \* Mutant.Status
  saved,      \* SaveCache has been called
  outcome     \* "running", "ok", "error", or "nil" when no mutants are returned

groupVars == <<mpc, toSpawn, saved, outcome>>
testVars == <<tpc, result, ran, cut>>
vars == <<mpc, toSpawn, wpc, cancelled, binary, testable, tpc, result, ran, cut, stored,
          status, saved, outcome>>

\* pkgToMutants: only what the cache did not answer is run.
Uncached == {m \in Mutants : stored[m] = Unset}
PkgMutants(p) == {m \in Uncached : PkgOf[m] = p}

Slots == {p \in Pkgs : wpc[p] \notin {"waiting", "returned"}}
RunSlots(p) == {m \in PkgMutants(p) : tpc[m] \in {"started", "running"}}

IsFirst(x, S) == x \in S /\ \A y \in S : x <= y

SetStatus(S, s) == status' = [m \in Mutants |-> IF m \in S THEN s ELSE status[m]]
GoTo(p, there) == wpc' = [wpc EXCEPT ![p] = there]

\* finalizeMutants
Finalized == [m \in Mutants |-> IF status[m] = Unset THEN "untested" ELSE status[m]]

-----------------------------------------------------------------------------
Init ==
  /\ mpc = "spawn"
  /\ stored \in [Mutants -> StoredStatuses]
  /\ toSpawn = {PkgOf[m] : m \in {n \in Mutants : stored[n] = Unset}}
  /\ wpc = [p \in Pkgs |-> "waiting"]
  /\ cancelled = FALSE
  /\ binary = [p \in Pkgs |-> FALSE]
  /\ testable = [p \in Pkgs |-> {}]
  /\ tpc = [m \in Mutants |-> "none"]
  /\ result = [m \in Mutants |-> Unset]
  /\ ran = {} /\ cut = {}
  /\ status = stored
  /\ saved = FALSE
  /\ outcome = "running"

(***************************************************************************)
(* The calling goroutine.                                                  *)
(***************************************************************************)
SpawnPackage ==
  /\ mpc = "spawn"
  /\ Cardinality(Slots) < Concurrent
  /\ \E p \in toSpawn : IsFirst(p, toSpawn) /\ GoTo(p, "start") /\ toSpawn' = toSpawn \ {p}
  /\ UNCHANGED <<mpc, saved, outcome, cancelled, binary, testable, testVars, stored, status>>

\* The parent directory, or that of the next package, cannot be created: the call
\* returns at once, without waiting for the goroutines, and what there is of the
\* temporary directory is removed under them.
MkdirFails ==
  /\ mpc = "spawn"
  /\ toSpawn # {} \/ \A p \in Pkgs : wpc[p] = "waiting"
  /\ mpc' = "returned"
  /\ outcome' = "nil"
  /\ UNCHANGED <<toSpawn, saved, wpc, cancelled, binary, testable, testVars, stored, status>>

SpawnedAll ==
  /\ mpc = "spawn"
  /\ toSpawn = {}
  /\ mpc' = "wait"
  /\ UNCHANGED <<toSpawn, saved, outcome, wpc, cancelled, binary, testable, testVars, stored, status>>

\* MUTANT: what there is is saved in the case of an error, too.
WaitAndSaveAlways ==
  /\ mpc = "wait"
  /\ Slots = {}
  /\ status' = Finalized
  /\ outcome' = IF cancelled THEN "error" ELSE "ok"
  /\ saved' = TRUE
  /\ mpc' = "returned"
  /\ UNCHANGED <<toSpawn, wpc, cancelled, binary, testable, testVars, stored>>

\* g.Wait, finalizeMutants and, unless a package failed, SaveCache.
WaitAndReturn ==
  /\ mpc = "wait"
  /\ Slots = {}
  /\ status' = Finalized
  /\ outcome' = IF cancelled THEN "error" ELSE "ok"
  /\ saved' = ~cancelled
  /\ mpc' = "returned"
  /\ UNCHANGED <<toSpawn, wpc, cancelled, binary, testable, testVars, stored>>

Main == SpawnPackage \/ MkdirFails \/ SpawnedAll \/ WaitAndReturn

(***************************************************************************)
(* The goroutine of a package: runStandalonePackage.                       *)
(***************************************************************************)

\* Its first statement: do nothing if another package has failed already.
Start(p) ==
  /\ wpc[p] = "start"
  /\ GoTo(p, IF cancelled THEN "returned" ELSE "prepare")
  /\ UNCHANGED <<groupVars, cancelled, binary, testable, testVars, stored, status>>

\* Copy the packages and apply the schemata.  An error is returned to the group,
\* which cancels the context.
Prepare(p) ==
  /\ wpc[p] = "prepare"
  /\ \/ GoTo(p, "list") /\ UNCHANGED cancelled
     \/ GoTo(p, "returned") /\ cancelled' = TRUE
  /\ UNCHANGED <<groupVars, binary, testable, testVars, stored, status>>

\* packageHasGoTestFiles; if `go list` fails or is killed the package is compiled.
ListTestFiles(p) ==
  /\ wpc[p] = "list"
  /\ \/ GoTo(p, "compile") /\ UNCHANGED status
     \/ GoTo(p, "returned") /\ SetStatus(PkgMutants(p), "untested")
  /\ UNCHANGED <<groupVars, cancelled, binary, testable, testVars, stored>>

\* compileWithAttribution: some mutants, or all of them, get a compile error, and
\* then there is no binary; a `go test -c` that is killed is a failure, too.
Compile(p) ==
  /\ wpc[p] = "compile"
  /\ \/ \E bad \in SUBSET PkgMutants(p) :
          bad # {} /\ SetStatus(bad, "error") /\ UNCHANGED binary
     \/ /\ ~cancelled
        /\ \E exists \in BOOLEAN : binary' = [binary EXCEPT ![p] = exists]
        /\ UNCHANGED status
  /\ GoTo(p, "stat")
  /\ UNCHANGED <<groupVars, cancelled, testable, testVars, stored>>

\* MUTANT: without a binary the package is left alone.
ForgetMissingBinary(p) ==
  /\ wpc[p] = "stat"
  /\ LET left == {m \in PkgMutants(p) : status[m] = Unset}
     IN  \/ (left = {} \/ ~binary[p]) /\ GoTo(p, "returned") /\ UNCHANGED testable
         \/ left # {} /\ binary[p] /\ GoTo(p, "baseline")
              /\ testable' = [testable EXCEPT ![p] = left]
  /\ UNCHANGED <<groupVars, cancelled, binary, testVars, stored, status>>

\* MUTANT: what cannot be run is invalid.
StatBinaryInvalid(p) ==
  /\ wpc[p] = "stat"
  /\ ~binary[p]
  /\ SetStatus({m \in PkgMutants(p) : status[m] = Unset}, "invalid")
  /\ GoTo(p, "returned")
  /\ UNCHANGED <<groupVars, cancelled, binary, testable, testVars, stored>>

\* What is left is run if there is a binary, and a compile error otherwise.
StatBinary(p) ==
  /\ wpc[p] = "stat"
  /\ LET left == {m \in PkgMutants(p) : status[m] = Unset}
     IN  IF left # {} /\ binary[p]
         THEN /\ GoTo(p, "baseline")
              /\ testable' = [testable EXCEPT ![p] = left]
              /\ UNCHANGED status
         ELSE /\ GoTo(p, "returned")
              /\ SetStatus(left, "error")
              /\ UNCHANGED testable
  /\ UNCHANGED <<groupVars, cancelled, binary, testVars, stored>>

\* measureBaseline; runs that are killed count as measurements.
MeasureBaseline(p) ==
  /\ wpc[p] = "baseline"
  /\ GoTo(p, "dispatch")
  /\ UNCHANGED <<groupVars, cancelled, binary, testable, testVars, stored, status>>

StartTestable(p) ==
  /\ wpc[p] = "dispatch"
  /\ \E m \in testable[p] :
       /\ IsFirst(m, testable[p])
       /\ testable' = [testable EXCEPT ![p] = @ \ {m}]
       /\ tpc' = [tpc EXCEPT ![m] = "started"]
  /\ UNCHANGED <<groupVars, wpc, cancelled, binary, result, ran, cut, stored, status>>

\* MUTANT: the mutants are run in the errgroup of the packages.
StartMutantInGroup(p) ==
  /\ Cardinality(Slots) + Cardinality(RunSlots(p)) < Concurrent
  /\ StartTestable(p)

\* runMutantsConcurrent: a goroutine per mutant, at most Concurrent at a time.
StartMutant(p) ==
  /\ Cardinality(RunSlots(p)) < Concurrent
  /\ StartTestable(p)

\* MUTANT: the results are stored for all mutants of the package.
CollectForAll(p) ==
  /\ wpc[p] = "dispatch"
  /\ testable[p] = {}
  /\ RunSlots(p) = {}
  /\ status' = [m \in Mutants |-> IF PkgOf[m] = p THEN result[m] ELSE status[m]]
  /\ GoTo(p, "returned")
  /\ UNCHANGED <<groupVars, cancelled, binary, testable, testVars, stored>>

\* wg.Wait has returned and the channel is closed: store the results.
CollectResults(p) ==
  /\ wpc[p] = "dispatch"
  /\ testable[p] = {}
  /\ RunSlots(p) = {}
  /\ status' = [m \in Mutants |-> IF PkgOf[m] = p /\ tpc[m] = "sent" THEN result[m] ELSE status[m]]
  /\ GoTo(p, "returned")
  /\ UNCHANGED <<groupVars, cancelled, binary, testable, testVars, stored>>

Worker(p) ==
  \/ Start(p)
  \/ Prepare(p)
  \/ ListTestFiles(p)
  \/ Compile(p)
  \/ StatBinary(p)
  \/ MeasureBaseline(p)
  \/ StartMutant(p)
  \/ CollectResults(p)

(***************************************************************************)
(* The goroutine of a mutant.                                              *)
(***************************************************************************)
Send(m, s) ==
  /\ result' = [result EXCEPT ![m] = s]
  /\ tpc' = [tpc EXCEPT ![m] = "sent"]

CheckContext(m) ==
  /\ tpc[m] = "started"
  /\ IF cancelled THEN Send(m, "error") /\ UNCHANGED ran
                  ELSE tpc' = [tpc EXCEPT ![m] = "running"] /\ ran' = ran \cup {m} /\ UNCHANGED result
  /\ UNCHANGED <<groupVars, wpc, cancelled, binary, testable, cut, stored, status>>

\* The process ends by itself or at its hard deadline.
RunEnds(m) ==
  /\ tpc[m] = "running"
  /\ \E o \in Observations : Send(m, classifyVerboseRun(o))
  /\ UNCHANGED <<groupVars, wpc, cancelled, binary, testable, ran, cut, stored, status>>

\* The cancelled context kills the process, whatever it has printed by then: an
\* exit error, and no expired deadline.
RunIsKilled(m) ==
  /\ tpc[m] = "running"
  /\ cancelled
  /\ \E o \in {x \in Observations : x.exitErr /\ ~x.deadline} : Send(m, classifyVerboseRun(o))
  /\ cut' = cut \cup {m}
  /\ UNCHANGED <<groupVars, wpc, cancelled, binary, testable, ran, stored, status>>

Test(m) == CheckContext(m) \/ RunEnds(m) \/ RunIsKilled(m)

Returned == mpc = "returned" /\ Slots = {} /\ UNCHANGED vars

Next ==
  \/ Main
  \/ \E p \in Pkgs : Worker(p)
  \/ \E m \in Mutants : Test(m)
  \/ Returned

SafeSpec == Init /\ [][Next]_vars

\* Every goroutine keeps running, and every run ends, at its hard deadline at
\* the latest.
Spec ==
  /\ SafeSpec
  /\ WF_vars(Main)
  /\ \A p \in Pkgs : WF_vars(Worker(p))
  /\ \A m \in Mutants : WF_vars(Test(m))

-----------------------------------------------------------------------------
(***************************************************************************)
(* Properties.                                                             *)
(***************************************************************************)
TypeOK ==
  /\ mpc \in {"spawn", "wait", "returned"}
  /\ toSpawn \subseteq Pkgs
  /\ wpc \in [Pkgs -> {"waiting", "start", "prepare", "list", "compile", "stat",
                       "baseline", "dispatch", "returned"}]
  /\ cancelled \in BOOLEAN
  /\ binary \in [Pkgs -> BOOLEAN]
  /\ testable \in [Pkgs -> SUBSET Mutants]
  /\ tpc \in [Mutants -> {"none", "started", "running", "sent"}]
  /\ result \in [Mutants -> RunStatuses \cup {Unset}]
  /\ ran \subseteq Mutants
  /\ cut \subseteq Mutants
  /\ stored \in [Mutants -> RunStatuses \cup {Unset}]
  /\ status \in [Mutants -> RunStatuses \cup {Unset}]
  /\ saved \in BOOLEAN
  /\ outcome \in {"running", "ok", "error", "nil"}

\* When no package has failed, every path through runStandalonePackage has given
\* every mutant a status of its own: finalizeMutants has no one to call untested.
NothingLeftToFinalize ==
  mpc = "wait" /\ Slots = {} /\ ~cancelled => \A m \in Mutants : status[m] # Unset

\* Only a run in which no process was killed by the cancellation gets into the
\* cache: a verdict of an interrupted process is never reused by later runs.
OnlyWholeRunsSaved == saved => ~cancelled /\ cut = {}

\* A status once given is final: a cached one is not run again, a compile error
\* is not overwritten by a later result of the package, and neither is changed
\* when the run returns.
StatusWrittenOnce ==
  [][\A m \in Mutants : status[m] # Unset => status'[m] = status[m]]_vars

\* When the mutants have been returned to the caller no goroutine is left that
\* would still write to them.
NoWritesAfterReturn == outcome \in {"ok", "error"} => Slots = {}

\* What Lifecycle takes the call for, unless it returns no mutants.
PromiseKept ==
  outcome \in {"ok", "error"} =>
    RanStandalone(Mutants, stored, status, ran, outcome = "error", saved)

\* runStandalone returns and its goroutines end.
Terminates == <>(mpc = "returned" /\ Slots = {})

(***************************************************************************)
(* classify.go on a killed mutant without a failed test: "(test ran, then  *)
(* the process crashed in a goroutine)".                                   *)
(***************************************************************************)
KilledByItsTests == \A m \in cut : status[m] # "killed"

=============================================================================
