--------------------------- MODULE StandaloneProofs ---------------------------
(***************************************************************************)
(* The safety properties of Standalone, for any number of packages,        *)
(* mutants and goroutines.                                                 *)
(***************************************************************************)
EXTENDS Standalone, TLAPS

\* A cached mutant is left alone.
CachedInv == \A m \in Mutants \ Uncached : status[m] = stored[m] /\ tpc[m] = "none"

\* What is known of a mutant from where the goroutine of its package is.
MutantInv(m) ==
  /\ wpc[PkgOf[m]] \in {"waiting", "start", "prepare", "list", "compile"} => status[m] = Unset
  /\ wpc[PkgOf[m]] \notin {"dispatch", "returned"} => tpc[m] = "none"
  /\ wpc[PkgOf[m]] \in {"baseline", "dispatch"} =>
       (status[m] = Unset <=> (m \in testable[PkgOf[m]] \/ tpc[m] # "none"))
  /\ m \in testable[PkgOf[m]] => tpc[m] = "none"
  /\ wpc[PkgOf[m]] = "returned" =>
       tpc[m] \in {"none", "sent"} /\ (~cancelled => status[m] # Unset)
  /\ tpc[m] = "sent" => result[m] # Unset

UncachedInv == \A m \in Uncached : MutantInv(m)

TestableInv ==
  \A p \in Pkgs :
    /\ testable[p] \subseteq PkgMutants(p)
    /\ wpc[p] \notin {"baseline", "dispatch"} => testable[p] = {}

GroupInv ==
  /\ \A p \in toSpawn : wpc[p] = "waiting"
  /\ \A m \in Uncached : wpc[PkgOf[m]] = "waiting" => PkgOf[m] \in toSpawn
  /\ mpc = "wait" => toSpawn = {}
  /\ outcome \in {"ok", "error"} => mpc = "returned" /\ toSpawn = {} /\ Slots = {}
  /\ saved => outcome = "ok"
  /\ outcome = "ok" => ~cancelled
  /\ cut # {} => cancelled

IInv == TypeOK /\ CachedInv /\ UncachedInv /\ TestableInv /\ GroupInv

\* A verdict is one of a test process, and none is started for a cached mutant; what
\* is returned has a status, and is saved unless a package failed.
RanInv ==
  /\ ran \subseteq Uncached
  /\ \A m \in Mutants : tpc[m] = "running" \/ result[m] \in Verdicts => m \in ran
  /\ \A m \in Uncached : status[m] \in Verdicts => m \in ran
  /\ saved <=> outcome = "ok"
  /\ outcome \in {"ok", "error"} => \A m \in Mutants : status[m] # Unset

USE DEF Uncached, PkgMutants, Pkgs, Slots, RunSlots

\* The step condition of StatusWrittenOnce.
StatusesKept == \A m \in Mutants : status[m] # Unset => status'[m] = status[m]

\* Every observation is classified as one of the run statuses.
LEMMA ClassifyIsTotal ==
  ASSUME NEW o \in Observations PROVE classifyVerboseRun(o) \in RunStatuses \ {Unset}
  BY DEF classifyVerboseRun, RunStatuses, Observations, Unset

\* An uncached mutant belongs to a package.
LEMMA PkgOfType == \A m \in Mutants : PkgOf[m] \in Pkgs
  BY StandaloneAssumption DEF StandaloneAssumption

LEMMA InitIInv == Init => IInv
<1> SUFFICES ASSUME Init PROVE IInv
  OBVIOUS
<1>1. TypeOK
  BY StandaloneAssumption DEF StandaloneAssumption, Init, TypeOK, RunStatuses, Unset
<1>2. CachedInv
  BY DEF Init, CachedInv
<1>3. UncachedInv
  BY PkgOfType DEF Init, UncachedInv, MutantInv
<1>4. TestableInv
  BY DEF Init, TestableInv
<1>5. GroupInv
  BY PkgOfType DEF Init, GroupInv
<1> QED
  BY <1>1, <1>2, <1>3, <1>4, <1>5 DEF IInv

\* The calling goroutine only writes statuses when every package is done.
LEMMA MainStep ==
  ASSUME IInv, Main PROVE IInv' /\ StatusesKept
<1> USE PkgOfType DEF IInv
<1>1. CASE SpawnPackage
  <2>1. PICK p \in toSpawn : wpc' = [wpc EXCEPT ![p] = "start"] /\ toSpawn' = toSpawn \ {p}
    BY <1>1 DEF SpawnPackage, GoTo
  <2>2. p \in Pkgs /\ wpc[p] = "waiting"
    BY <2>1 DEF TypeOK, GroupInv
  <2>3. TypeOK' /\ CachedInv' /\ TestableInv' /\ StatusesKept
    BY <1>1, <2>1, <2>2 DEF SpawnPackage, TypeOK, CachedInv, TestableInv, StatusesKept, testVars
  <2>4. UncachedInv'
    BY <1>1, <2>1, <2>2 DEF SpawnPackage, TypeOK, UncachedInv, MutantInv, testVars
  <2>5. GroupInv'
    BY <1>1, <2>1, <2>2 DEF SpawnPackage, TypeOK, GroupInv, testVars
  <2> QED
    BY <2>3, <2>4, <2>5
<1>2. CASE MkdirFails
  BY <1>2 DEF MkdirFails, TypeOK, CachedInv, UncachedInv, MutantInv, TestableInv, GroupInv,
              StatusesKept, testVars
<1>3. CASE SpawnedAll
  BY <1>3 DEF SpawnedAll, TypeOK, CachedInv, UncachedInv, MutantInv, TestableInv, GroupInv,
              StatusesKept, testVars
<1>4. CASE WaitAndReturn
  <2>1. \A m \in Mutants : status'[m] = (IF status[m] = Unset THEN "untested" ELSE status[m])
    BY <1>4 DEF WaitAndReturn, Finalized
  <2>2. TypeOK'
    BY <1>4 DEF WaitAndReturn, TypeOK, testVars, Finalized, RunStatuses
  <2>3. \A m \in Uncached : wpc[PkgOf[m]] = "returned"
    BY <1>4 DEF WaitAndReturn, GroupInv
  <2>4. CachedInv' /\ TestableInv' /\ StatusesKept
    BY <1>4, <2>1 DEF WaitAndReturn, CachedInv, TestableInv, StatusesKept, testVars
  <2>5. UncachedInv'
    BY <1>4, <2>1, <2>3 DEF WaitAndReturn, UncachedInv, MutantInv, testVars, Unset
  <2>6. GroupInv'
    BY <1>4 DEF WaitAndReturn, GroupInv, testVars
  <2> QED
    BY <2>2, <2>4, <2>5, <2>6
<1> QED
  BY <1>1, <1>2, <1>3, <1>4 DEF Main

\* A goroutine of a package, up to the compiled binary.
LEMMA BuildStep ==
  ASSUME IInv, NEW p \in Pkgs,
         Start(p) \/ Prepare(p) \/ ListTestFiles(p) \/ Compile(p) \/ StatBinary(p)
  PROVE  IInv' /\ StatusesKept
<1> USE PkgOfType DEF IInv
<1>1. CASE Start(p)
  BY <1>1 DEF Start, GoTo, TypeOK, CachedInv, UncachedInv, MutantInv, TestableInv, GroupInv,
              StatusesKept, groupVars, testVars
<1>2. CASE Prepare(p)
  <2>1. CASE wpc' = [wpc EXCEPT ![p] = "list"] /\ UNCHANGED cancelled
    BY <1>2, <2>1 DEF Prepare, TypeOK, CachedInv, UncachedInv, MutantInv, TestableInv, GroupInv,
                      StatusesKept, groupVars, testVars
  <2>2. CASE wpc' = [wpc EXCEPT ![p] = "returned"] /\ cancelled' = TRUE
    <3>1. TypeOK' /\ CachedInv' /\ TestableInv' /\ GroupInv' /\ StatusesKept
      BY <1>2, <2>2 DEF Prepare, TypeOK, CachedInv, TestableInv, GroupInv, StatusesKept,
                        groupVars, testVars
    <3>2. UncachedInv'
      BY <1>2, <2>2 DEF Prepare, TypeOK, UncachedInv, MutantInv, groupVars, testVars
    <3> QED
      BY <3>1, <3>2
  <2> QED
    BY <1>2, <2>1, <2>2 DEF Prepare, GoTo
<1>3. CASE ListTestFiles(p)
  <2>1. CASE wpc' = [wpc EXCEPT ![p] = "compile"] /\ UNCHANGED status
    BY <1>3, <2>1 DEF ListTestFiles, TypeOK, CachedInv, UncachedInv, MutantInv, TestableInv,
                      GroupInv, StatusesKept, groupVars, testVars
  <2>2. CASE /\ wpc' = [wpc EXCEPT ![p] = "returned"]
             /\ status' = [m \in Mutants |-> IF m \in PkgMutants(p) THEN "untested" ELSE status[m]]
    <3>1. TypeOK' /\ CachedInv' /\ TestableInv' /\ GroupInv'
      BY <1>3, <2>2 DEF ListTestFiles, TypeOK, CachedInv, TestableInv, GroupInv,
                        RunStatuses, groupVars, testVars
    <3>2. UncachedInv' /\ StatusesKept
      BY <1>3, <2>2 DEF ListTestFiles, TypeOK, UncachedInv, MutantInv, StatusesKept,
                        groupVars, testVars, Unset
    <3> QED
      BY <3>1, <3>2
  <2> QED
    BY <1>3, <2>1, <2>2 DEF ListTestFiles, GoTo, SetStatus
<1>4. CASE Compile(p)
  <2>1. TypeOK'
    BY <1>4 DEF Compile, GoTo, SetStatus, TypeOK, RunStatuses, groupVars, testVars
  <2>2. CachedInv' /\ TestableInv' /\ GroupInv'
    BY <1>4 DEF Compile, GoTo, SetStatus, TypeOK, CachedInv, TestableInv, GroupInv,
                groupVars, testVars
  <2>3. UncachedInv' /\ StatusesKept
    BY <1>4 DEF Compile, GoTo, SetStatus, TypeOK, UncachedInv, MutantInv, StatusesKept,
                groupVars, testVars
  <2> QED
    BY <2>1, <2>2, <2>3
<1>5. CASE StatBinary(p)
  <2> DEFINE left == {m \in PkgMutants(p) : status[m] = Unset}
  <2>1. CASE left # {} /\ binary[p]
    <3>1. /\ wpc' = [wpc EXCEPT ![p] = "baseline"]
          /\ testable' = [testable EXCEPT ![p] = left]
          /\ UNCHANGED status
      BY <1>5, <2>1 DEF StatBinary, GoTo
    <3> QED
      BY <1>5, <3>1 DEF StatBinary, TypeOK, CachedInv, UncachedInv, MutantInv, TestableInv,
                        GroupInv, StatusesKept, groupVars, testVars
  <2>2. CASE ~(left # {} /\ binary[p])
    <3>1. /\ wpc' = [wpc EXCEPT ![p] = "returned"]
          /\ status' = [m \in Mutants |-> IF m \in left THEN "error" ELSE status[m]]
          /\ UNCHANGED testable
      BY <1>5, <2>2 DEF StatBinary, GoTo, SetStatus
    <3>2. TypeOK' /\ CachedInv' /\ TestableInv' /\ GroupInv'
      BY <1>5, <3>1 DEF StatBinary, TypeOK, CachedInv, TestableInv, GroupInv,
                        RunStatuses, groupVars, testVars
    <3>3. UncachedInv' /\ StatusesKept
      BY <1>5, <3>1 DEF StatBinary, TypeOK, UncachedInv, MutantInv, StatusesKept,
                        groupVars, testVars, Unset
    <3> QED
      BY <3>2, <3>3
  <2> QED
    BY <2>1, <2>2
<1> QED
  BY <1>1, <1>2, <1>3, <1>4, <1>5

\* A goroutine of a package, running its mutants.
LEMMA DispatchStep ==
  ASSUME IInv, NEW p \in Pkgs, MeasureBaseline(p) \/ StartMutant(p) \/ CollectResults(p)
  PROVE  IInv' /\ StatusesKept
<1> USE PkgOfType DEF IInv
<1>1. CASE MeasureBaseline(p)
  BY <1>1 DEF MeasureBaseline, GoTo, TypeOK, CachedInv, UncachedInv, MutantInv, TestableInv,
              GroupInv, StatusesKept, groupVars, testVars
<1>2. CASE StartMutant(p)
  <2>1. PICK m \in testable[p] : /\ testable' = [testable EXCEPT ![p] = @ \ {m}]
                                 /\ tpc' = [tpc EXCEPT ![m] = "started"]
    BY <1>2 DEF StartMutant, StartTestable
  <2>2. m \in Uncached /\ PkgOf[m] = p /\ wpc[p] = "dispatch"
    BY <1>2, <2>1 DEF TestableInv, StartMutant, StartTestable
  <2>3. TypeOK' /\ CachedInv' /\ TestableInv' /\ GroupInv' /\ StatusesKept
    BY <1>2, <2>1, <2>2 DEF StartMutant, StartTestable, TypeOK, CachedInv, TestableInv, GroupInv,
                            StatusesKept, groupVars
  <2>4. UncachedInv'
    BY <1>2, <2>1, <2>2 DEF StartMutant, StartTestable, TypeOK, UncachedInv, MutantInv, groupVars
  <2> QED
    BY <2>3, <2>4
<1>3. CASE CollectResults(p)
  <2>1. \A m \in PkgMutants(p) : tpc[m] \in {"none", "sent"} /\ (tpc[m] = "sent" => status[m] = Unset)
    BY <1>3 DEF CollectResults, TypeOK, UncachedInv, MutantInv
  <2>2. TypeOK'
    BY <1>3 DEF CollectResults, GoTo, TypeOK, groupVars, testVars
  <2>3. CachedInv' /\ TestableInv' /\ GroupInv'
    BY <1>3 DEF CollectResults, GoTo, TypeOK, CachedInv, TestableInv, GroupInv, groupVars, testVars
  <2>4. UncachedInv' /\ StatusesKept
    BY <1>3, <2>1 DEF CollectResults, GoTo, TypeOK, CachedInv, UncachedInv, MutantInv, StatusesKept,
                      groupVars, testVars
  <2> QED
    BY <2>2, <2>3, <2>4
<1> QED
  BY <1>1, <1>2, <1>3

\* A goroutine of a mutant only fills its own place in the buffered channel.
LEMMA TestStep ==
  ASSUME IInv, NEW m \in Mutants, Test(m) PROVE IInv' /\ StatusesKept
<1> USE PkgOfType DEF IInv
<1>1. m \in Uncached /\ wpc[PkgOf[m]] = "dispatch"
  <2>1. tpc[m] \in {"started", "running"}
    BY DEF Test, CheckContext, RunEnds, RunIsKilled
  <2>2. m \in Uncached
    BY <2>1 DEF CachedInv
  <2> QED
    BY <2>1, <2>2 DEF UncachedInv, MutantInv, TypeOK
<1>2. /\ tpc' \in {[tpc EXCEPT ![m] = "running"], [tpc EXCEPT ![m] = "sent"]}
      /\ result' = result \/ \E s \in RunStatuses \ {Unset} : result' = [result EXCEPT ![m] = s]
      /\ tpc'[m] = "sent" => result'[m] # Unset
      /\ ran' = ran \/ ran' = ran \cup {m}
      /\ cut' = cut \/ (cancelled /\ cut' = cut \cup {m})
      /\ UNCHANGED <<groupVars, wpc, cancelled, binary, testable, stored, status>>
  <2>1. CASE CheckContext(m)
    BY <2>1 DEF CheckContext, Send, TypeOK, RunStatuses, Unset
  <2>2. CASE RunEnds(m)
    BY <2>2, ClassifyIsTotal DEF RunEnds, Send, TypeOK
  <2>3. CASE RunIsKilled(m)
    BY ZenonT(60), <2>3, ClassifyIsTotal DEF RunIsKilled, Send, TypeOK
  <2> QED
    BY <2>1, <2>2, <2>3 DEF Test
<1>3. tpc[m] # "none" /\ status[m] = Unset
  BY <1>1 DEF Test, CheckContext, RunEnds, RunIsKilled, UncachedInv, MutantInv
<1>4. TypeOK'
  BY <1>2 DEF TypeOK, groupVars
<1>5. CachedInv' /\ TestableInv' /\ StatusesKept
  BY <1>1, <1>2 DEF CachedInv, TestableInv, StatusesKept, groupVars, TypeOK
<1>6. GroupInv'
  BY <1>1, <1>2 DEF GroupInv, groupVars
<1>7. UncachedInv'
  BY <1>1, <1>2, <1>3 DEF UncachedInv, MutantInv, groupVars, TypeOK
<1> QED
  BY <1>4, <1>5, <1>6, <1>7

LEMMA NextIInv ==
  ASSUME IInv, [Next]_vars PROVE IInv' /\ StatusesKept
<1>1. CASE Main
  BY <1>1, MainStep
<1>2. ASSUME NEW p \in Pkgs, Worker(p) PROVE IInv' /\ StatusesKept
  BY <1>2, BuildStep, DispatchStep DEF Worker
<1>3. ASSUME NEW m \in Mutants, Test(m) PROVE IInv' /\ StatusesKept
  BY <1>3, TestStep
<1>4. CASE UNCHANGED vars
  BY <1>4 DEF vars, IInv, TypeOK, CachedInv, UncachedInv, MutantInv, TestableInv, GroupInv,
              StatusesKept
<1> QED
  BY <1>1, <1>2, <1>3, <1>4 DEF Next, Returned

LEMMA NextRanInv ==
  ASSUME IInv, RanInv, [Next]_vars PROVE RanInv'
<1> USE DEF RanInv
<1>0. \A m \in Mutants : status[m] # Unset => status'[m] # Unset
  BY NextIInv DEF StatusesKept
<1>1. CASE SpawnPackage \/ MkdirFails \/ SpawnedAll
  BY <1>1 DEF SpawnPackage, MkdirFails, SpawnedAll, testVars, IInv, GroupInv
<1>2. CASE WaitAndReturn
  <2>1. \A m \in Mutants : status'[m] = (IF status[m] = Unset THEN "untested" ELSE status[m])
    BY <1>2 DEF WaitAndReturn, Finalized
  <2>2. /\ saved' = ~cancelled /\ outcome' = IF cancelled THEN "error" ELSE "ok"
        /\ UNCHANGED <<tpc, result, ran, stored>>
    BY <1>2 DEF WaitAndReturn, testVars
  <2>3. (saved' <=> outcome' = "ok") /\ \A m \in Mutants : status'[m] # Unset
    BY <2>1, <2>2 DEF Unset
  <2> QED
    BY <2>1, <2>2, <2>3 DEF Verdicts
<1>3. ASSUME NEW p \in Pkgs, Worker(p) PROVE RanInv'
  <2>1. UNCHANGED <<result, ran, stored, saved, outcome>>
    BY <1>3 DEF Worker, Start, Prepare, ListTestFiles, Compile, StatBinary, MeasureBaseline,
                StartMutant, StartTestable, CollectResults, groupVars, testVars
  <2>2. \A m \in Mutants : tpc'[m] = "running" => tpc[m] = "running"
    <3>1. CASE StartMutant(p)
      BY <3>1 DEF StartMutant, StartTestable, IInv, TypeOK
    <3>2. CASE UNCHANGED tpc
      BY <3>2
    <3> QED
      BY <1>3, <3>1, <3>2 DEF Worker, Start, Prepare, ListTestFiles, Compile, StatBinary,
                              MeasureBaseline, CollectResults, testVars
  <2>3. \A m \in Mutants : status'[m] \in {status[m], result[m], "untested", "error"}
    BY <1>3 DEF Worker, Start, Prepare, ListTestFiles, Compile, StatBinary, MeasureBaseline,
                StartMutant, StartTestable, CollectResults, SetStatus
  <2> QED
    BY <1>0, <2>1, <2>2, <2>3 DEF Verdicts
<1>4. ASSUME NEW m \in Mutants, Test(m) PROVE RanInv'
  <2>1. m \in Uncached
    BY <1>4 DEF Test, CheckContext, RunEnds, RunIsKilled, IInv, CachedInv
  <2>2. CASE CheckContext(m)
    BY <2>1, <2>2 DEF CheckContext, Send, groupVars, Verdicts, IInv, TypeOK
  <2>3. CASE RunEnds(m) \/ RunIsKilled(m)
    <3>1. tpc[m] = "running" /\ tpc' = [tpc EXCEPT ![m] = "sent"]
          /\ \E s : result' = [result EXCEPT ![m] = s]
          /\ UNCHANGED <<ran, stored, status, saved, outcome>>
      BY <2>3 DEF RunEnds, RunIsKilled, Send, groupVars
    <3> QED
      BY <3>1 DEF IInv, TypeOK
  <2> QED
    BY <1>4, <2>2, <2>3 DEF Test
<1>5. CASE UNCHANGED vars
  BY <1>5 DEF vars
<1> QED
  BY <1>1, <1>2, <1>3, <1>4, <1>5 DEF Next, Main, Returned

\* The inductive invariant holds in every reachable state.
THEOREM StandaloneInvariance == SafeSpec => []IInv
<1>1. IInv /\ [Next]_vars => IInv'
  BY NextIInv
<1> QED
  BY InitIInv, <1>1, PTL DEF SafeSpec

\* The variables of runStandalone keep their types.
THEOREM StandaloneTypeCorrect == Spec => []TypeOK
<1>1. IInv => TypeOK
  BY DEF IInv
<1> QED
  BY <1>1, StandaloneInvariance, PTL DEF Spec

\* Every path through runStandalonePackage that is not an error settles all of
\* the package's mutants.
THEOREM EveryPathSettles == Spec => []NothingLeftToFinalize
<1>1. IInv => NothingLeftToFinalize
  BY PkgOfType DEF IInv, NothingLeftToFinalize, UncachedInv, MutantInv, CachedInv, GroupInv, TypeOK
<1> QED
  BY <1>1, StandaloneInvariance, PTL DEF Spec

\* A verdict of an interrupted test process never gets into the cache.
THEOREM InterruptedRunsNotSaved == Spec => []OnlyWholeRunsSaved
<1>1. IInv => OnlyWholeRunsSaved
  BY DEF IInv, OnlyWholeRunsSaved, GroupInv
<1> QED
  BY <1>1, StandaloneInvariance, PTL DEF Spec

\* runStandalone keeps the promise that the step RunStandalone of Lifecycle is.
THEOREM StandaloneKeepsPromise == Spec => []PromiseKept
<1>1. Init => RanInv
  BY StandaloneAssumption DEF Init, RanInv, Verdicts, Unset
<1>2. IInv /\ RanInv /\ [Next]_vars => RanInv'
  BY NextRanInv
<1>3. IInv /\ RanInv => PromiseKept
  <2> SUFFICES ASSUME IInv, RanInv, outcome \in {"ok", "error"}
               PROVE  RanStandalone(Mutants, stored, status, ran, outcome = "error", saved)
    BY DEF PromiseKept
  <2>1. \A m \in Uncached : status[m] # Unset
    BY DEF RanInv
  <2>2. \A m \in Mutants : status[m] \in RunStatuses \cup {Unset}
    BY DEF IInv, TypeOK
  <2>3. ran \subseteq Uncached /\ \A m \in Uncached : status[m] \in Verdicts => m \in ran
    BY DEF RanInv
  <2>4. \A m \in Mutants \ Uncached : status[m] = stored[m]
    BY DEF IInv, CachedInv
  <2>5. saved = ~(outcome = "error")
    BY DEF RanInv, IInv, TypeOK
  <2> QED
    BY <2>1, <2>2, <2>3, <2>4, <2>5 DEF RanStandalone
<1> QED
  BY <1>1, <1>2, <1>3, StandaloneInvariance, PTL DEF Spec, SafeSpec

\* The mutants returned are not written to by a goroutine left behind.
THEOREM NoGoroutineLeft == Spec => []NoWritesAfterReturn
<1>1. IInv => NoWritesAfterReturn
  BY DEF IInv, NoWritesAfterReturn, GroupInv
<1> QED
  BY <1>1, StandaloneInvariance, PTL DEF Spec

\* No status is ever overwritten by another one.
THEOREM StatusesAreFinal == Spec => StatusWrittenOnce
<1>1. IInv /\ [Next]_vars => [\A m \in Mutants : status[m] # Unset => status'[m] = status[m]]_vars
  BY NextIInv DEF StatusesKept
<1> QED
  BY <1>1, StandaloneInvariance, PTL DEF Spec, SafeSpec, StatusWrittenOnce

=============================================================================
