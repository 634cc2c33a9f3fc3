--------------------------- MODULE ExecutorProofs ---------------------------
(***************************************************************************)
(* Theorems about Executor for every set of packages and mutants, every    *)
(* assignment of mutants to packages and every limit.                      *)
(*                                                                         *)
(* The argument is one of accounting: at every moment a mutant is in       *)
(* exactly one of four places, its worker's todo, a test goroutine, the    *)
(* collector's hand, or the results.                                       *)
(***************************************************************************)
EXTENDS Executor, FiniteSetTheorems, TLAPS

One(b) == IF b THEN 1 ELSE 0

InTodo(m) == m \in todo[PkgOf[m]]
InTest(m) == tpc[m] \in {"running", "sending"}
InHand(m) == hand # NoResult /\ hand.id = m

\* Each mutant is in exactly one place.
Accounting ==
  \A m \in Mutants :
    Len(allResults[m]) + One(InHand(m)) + One(InTest(m)) + One(InTodo(m)) = 1

\* A worker holds mutants of its own package only, and none when it returns.
WorkerInv ==
  \A p \in Pkgs :
    /\ todo[p] \subseteq Ids(p)
    /\ wpc[p] = "returned" => todo[p] = {}
    /\ wpc[p] \in {"baseline", "dispatch"} => binary[p]
    /\ wpc[p] \in {"reportMissing", "baseline", "dispatch"}
         => todo[p] \cap perMutant[p] = {}

\* Packages are handed out in order: those from next on have no worker yet.
SpawnInv == \A p \in Pkgs : p >= next => wpc[p] = "waiting"

\* The order in which main waits for the groups and closes the channel.
MainInv ==
  /\ mpc \in {"testWait", "collectorWait", "returned"}
       => \A p \in Pkgs : wpc[p] = "returned"
  /\ mpc \in {"collectorWait", "returned"} <=> closed
  /\ closed => \A m \in Mutants : ~InTest(m)
  /\ collectorDone => closed /\ hand = NoResult
  /\ mpc = "returned" => collectorDone

\* A test goroutine exists only for a mutant that had to be run and could be.
TestInv ==
  \A m \in Mutants : tpc[m] # "none" =>
    /\ wpc[PkgOf[m]] \in {"dispatch", "returned"}
    /\ binary[PkgOf[m]]
    /\ m \notin perMutant[PkgOf[m]]
    /\ stored[m] \notin {"untested", "error"}

VerdictInv ==
  /\ hand.status \in Verdicts => tpc[hand.id] = "returned"
  /\ \A m \in Mutants : \A i \in 1 .. Len(allResults[m]) :
       allResults[m][i] \in Verdicts => tpc[m] = "returned"

IInv ==
  /\ TypeOK
  /\ Accounting
  /\ WorkerInv
  /\ SpawnInv
  /\ MainInv
  /\ TestInv
  /\ VerdictInv

-----------------------------------------------------------------------------
(***************************************************************************)
(* What the operators of the model guarantee.                              *)
(***************************************************************************)

\* A run is always classified as one of the five run statuses.
LEMMA ClassifyIsTotal ==
  ASSUME NEW o \in Observations
  PROVE  classifyVerboseRun(o) \in RunStatuses
  BY DEF classifyVerboseRun, RunStatuses

\* The rendezvous: the result is in the collector's hand, nothing else moved.
LEMMA SendIsRendezvous ==
  ASSUME TypeOK, NEW m \in Mutants, NEW s \in RunStatuses, SendResult(m, s)
  PROVE  /\ hand = NoResult /\ ~collectorDone
         /\ hand' = [id |-> m, status |-> s]
         /\ hand' \in Results /\ hand' # NoResult
         /\ hand'.id = m /\ hand'.status = s
         /\ UNCHANGED <<allResults, closed, collectorDone>>
  BY DEF SendResult, NoResult, Results, RunStatuses, Unset

\* A verdict in the collector's hand is the result of some mutant.
LEMMA HandWithVerdict ==
  ASSUME TypeOK, hand.status \in Verdicts
  PROVE  hand # NoResult /\ hand.id \in Mutants
<1>1. NoResult.status \notin Verdicts
  BY DEF NoResult, Verdicts, Unset
<1>2. hand # NoResult
  BY <1>1
<1>3. hand \in Results
  BY <1>2 DEF TypeOK
<1>4. QED
  BY <1>2, <1>3 DEF Results

-----------------------------------------------------------------------------
(***************************************************************************)
(* IInv is inductive.                                                      *)
(***************************************************************************)

LEMMA InitIInv == Init => IInv
<1> SUFFICES ASSUME Init PROVE IInv
  OBVIOUS
<1> USE ExecutorAssumption DEF Init, Pkgs
<1>1. TypeOK
  <2>1. mpc \in MainPoints /\ next \in 1 .. NumPkgs + 1
    BY DEF MainPoints
  <2>2. /\ wpc \in [Pkgs -> WorkerPoints]
        /\ todo \in [Pkgs -> SUBSET Mutants]
        /\ perMutant \in [Pkgs -> SUBSET Mutants]
        /\ binary \in [Pkgs -> BOOLEAN]
    BY DEF WorkerPoints, Ids
  <2>3. tpc \in [Mutants -> TestPoints] /\ stored \in [Mutants -> RunStatuses \cup {Unset}]
    BY DEF TestPoints
  <2>4. <<>> \in Seq(RunStatuses)
    OBVIOUS
  <2>5. allResults \in [Mutants -> Seq(RunStatuses)]
    BY <2>4
  <2>6. QED
    BY <2>1, <2>2, <2>3, <2>5 DEF TypeOK
<1>2. Accounting
  BY DEF Accounting, One, InHand, InTest, InTodo, Ids, NoResult
<1>3. WorkerInv
  BY DEF WorkerInv, Ids
<1>4. SpawnInv /\ MainInv /\ TestInv
  BY DEF SpawnInv, MainInv, TestInv, InTest
<1>5. VerdictInv
  <2>1. hand.status \notin Verdicts
    BY DEF Verdicts, NoResult, Unset
  <2>2. \A m \in Mutants : 1 .. Len(allResults[m]) = {}
    OBVIOUS
  <2>3. QED
    BY <2>1, <2>2 DEF VerdictInv
<1>6. QED
  BY <1>1, <1>2, <1>3, <1>4, <1>5 DEF IInv

\* A worker that reports a mutant of its todo, in any of its loops, moves it
\* from todo to the collector's hand and keeps everything else in order.
LEMMA ReportStep ==
  ASSUME IInv, NEW p \in Pkgs, NEW m \in todo[p], NEW s \in RunStatuses \ Verdicts,
         wpc[p] # "returned", Report(p, m, s)
  PROVE  IInv'
<1> USE ExecutorAssumption DEF IInv
<1>1. m \in Mutants /\ PkgOf[m] = p
  BY DEF WorkerInv, Ids
<1>2. /\ hand = NoResult /\ hand' = [id |-> m, status |-> s]
      /\ hand' \in Results /\ hand' # NoResult /\ hand'.id = m /\ hand'.status = s
      /\ UNCHANGED <<allResults, closed, collectorDone>>
  BY <1>1, SendIsRendezvous DEF Report
<1>3. /\ todo' = [todo EXCEPT ![p] = @ \ {m}]
      /\ UNCHANGED <<mpc, next, wpc, perMutant, binary, tpc, stored>>
  BY DEF Report, mainVars
<1>4. TypeOK'
  BY <1>2, <1>3 DEF TypeOK
<1>5. Accounting'
  <2> SUFFICES ASSUME NEW n \in Mutants
               PROVE  (Len(allResults[n]) + One(InHand(n)) + One(InTest(n))
                        + One(InTodo(n)) = 1)'
    BY DEF Accounting
  <2>1. Len(allResults[n]) + One(InHand(n)) + One(InTest(n)) + One(InTodo(n)) = 1
    BY DEF Accounting
  <2>2. CASE n = m
    <3>1. One(InTodo(n)) = 1 /\ One(InTodo(n)') = 0
      BY <1>1, <1>3, <2>2 DEF InTodo, TypeOK, One
    <3>2. One(InHand(n)) = 0 /\ One(InHand(n)') = 1
      BY <1>2, <2>2 DEF InHand, One
    <3>3. One(InTest(n)') = One(InTest(n)) /\ allResults' = allResults
      BY <1>2, <1>3 DEF InTest
    <3>4. Len(allResults[n]) \in Nat /\ One(InTest(n)) \in Nat
      BY DEF TypeOK, One
    <3>5. QED
      BY <2>1, <3>1, <3>2, <3>3, <3>4
  <2>3. CASE n # m
    <3>1. One(InHand(n)) = 0 /\ One(InHand(n)') = 0
      BY <1>2, <2>3 DEF InHand, One
    <3>2. One(InTodo(n)') = One(InTodo(n))
      BY <1>1, <1>3, <2>3 DEF InTodo, TypeOK, One
    <3>3. One(InTest(n)') = One(InTest(n)) /\ allResults' = allResults
      BY <1>2, <1>3 DEF InTest
    <3>4. QED
      BY <2>1, <3>1, <3>2, <3>3
  <2>4. QED
    BY <2>2, <2>3
<1>6. WorkerInv'
  <2> SUFFICES ASSUME NEW q \in Pkgs
               PROVE  /\ todo'[q] \subseteq Ids(q)
                      /\ wpc[q] = "returned" => todo'[q] = {}
                      /\ wpc[q] \in {"baseline", "dispatch"} => binary[q]
                      /\ wpc[q] \in {"reportMissing", "baseline", "dispatch"}
                           => todo'[q] \cap perMutant[q] = {}
    BY <1>3 DEF WorkerInv, Ids
  <2>1. todo'[q] \subseteq todo[q]
    BY <1>3 DEF TypeOK
  <2>2. /\ todo[q] \subseteq Ids(q)
        /\ wpc[q] = "returned" => todo[q] = {}
        /\ wpc[q] \in {"baseline", "dispatch"} => binary[q]
        /\ wpc[q] \in {"reportMissing", "baseline", "dispatch"}
             => todo[q] \cap perMutant[q] = {}
    BY DEF WorkerInv
  <2>3. QED
    BY <2>1, <2>2
<1>7. MainInv'
  BY <1>2, <1>3, SendIsRendezvous, <1>1 DEF MainInv, InTest, Report, SendResult
<1>8. SpawnInv' /\ TestInv'
  BY <1>3 DEF SpawnInv, TestInv
<1>9. VerdictInv'
  BY <1>2, <1>3 DEF VerdictInv
<1>10. QED
  BY <1>4, <1>5, <1>6, <1>7, <1>8, <1>9

\* A step that moves no mutant and no result keeps the accounting.
LEMMA AccountingFrame ==
  ASSUME Accounting, UNCHANGED <<todo, tpc, hand, allResults>>
  PROVE  Accounting'
  BY DEF Accounting, InTodo, InTest, InHand, NoResult

\* The calling goroutine keeps IInv.
LEMMA MainStep ==
  ASSUME IInv, Main
  PROVE  IInv'
<1> USE ExecutorAssumption DEF IInv
<1>1. CASE SpawnPackage
  <2> USE <1>1 DEF SpawnPackage, chanVars
  <2>1. next \in Pkgs /\ wpc' = [wpc EXCEPT ![next] = "list"]
    BY DEF TypeOK, Pkgs
  <2>2. TypeOK'
    BY <2>1 DEF TypeOK, WorkerPoints
  <2>3. Accounting'
    BY AccountingFrame
  <2>4. MainInv'
    BY DEF MainInv, InTest
  <2>5. WorkerInv'
    BY <2>1 DEF WorkerInv, TypeOK, Ids
  <2>6. TestInv'
    <3>1. wpc[next] = "waiting"
      BY <2>1 DEF SpawnInv, TypeOK
    <3>2. QED
      BY <2>1, <3>1 DEF TestInv, TypeOK
  <2>7. VerdictInv'
    BY DEF VerdictInv
  <2>8. SpawnInv'
    <3> SUFFICES ASSUME NEW p \in Pkgs, p >= next + 1 PROVE wpc'[p] = "waiting"
      BY DEF SpawnInv
    <3>1. p # next /\ p >= next
      BY <2>1 DEF Pkgs, TypeOK
    <3>2. QED
      BY <2>1, <3>1 DEF SpawnInv, TypeOK
  <2>9. QED
    BY <2>2, <2>3, <2>4, <2>5, <2>6, <2>7, <2>8
<1>2. CASE SpawnedAll \/ CompileGroupWait \/ ReturnResults
  <2> USE <1>2 DEF SpawnedAll, CompileGroupWait, ReturnResults, workerVars, chanVars
  <2>1. TypeOK'
    BY DEF TypeOK, MainPoints
  <2>2. Accounting'
    BY AccountingFrame
  <2>3. MainInv'
    BY DEF MainInv, InTest
  <2>4. WorkerInv' /\ SpawnInv' /\ TestInv' /\ VerdictInv'
    BY DEF WorkerInv, SpawnInv, TestInv, VerdictInv, Ids
  <2>5. QED
    BY <2>1, <2>2, <2>3, <2>4
<1>3. CASE TestGroupWaitAndClose
  <2> USE <1>3 DEF TestGroupWaitAndClose, workerVars
  <2>1. TypeOK'
    BY DEF TypeOK, MainPoints
  <2>2. Accounting'
    BY AccountingFrame
  <2>3. MainInv'
    BY DEF MainInv, InTest, TestSlots
  <2>4. WorkerInv' /\ SpawnInv' /\ TestInv' /\ VerdictInv'
    BY DEF WorkerInv, SpawnInv, TestInv, VerdictInv, Ids
  <2>5. QED
    BY <2>1, <2>2, <2>3, <2>4
<1>4. QED
  BY <1>1, <1>2, <1>3 DEF Main

\* The collector keeps IInv: appending moves one result out of its hand.
LEMMA CollectorStep ==
  ASSUME IInv, Collector
  PROVE  IInv'
<1> USE ExecutorAssumption DEF IInv
<1>1. CASE CollectorAppend
  <2> USE <1>1 DEF CollectorAppend, mainVars, workerVars
  <2> DEFINE m == hand.id
  <2>1. m \in Mutants /\ hand.status \in RunStatuses
    BY DEF TypeOK, Results
  <2>2. /\ allResults[m] \in Seq(RunStatuses)
        /\ allResults' = [allResults EXCEPT ![m] = Append(@, hand.status)]
        /\ Append(allResults[m], hand.status) \in Seq(RunStatuses)
    <3>1. allResults[m] \in Seq(RunStatuses)
      BY <2>1 DEF TypeOK
    <3>2. Append(allResults[m], hand.status) \in Seq(RunStatuses)
      BY <2>1, <3>1
    <3>3. QED
      BY <3>1, <3>2
  <2>3. TypeOK'
    <3>1. allResults \in [Mutants -> Seq(RunStatuses)]
      BY DEF TypeOK
    <3>2. allResults' \in [Mutants -> Seq(RunStatuses)]
      BY <2>1, <2>2, <3>1
    <3>3. hand' \in Results \cup {NoResult}
      OBVIOUS
    <3>4. QED
      BY <3>2, <3>3 DEF TypeOK
  <2>4. Accounting'
    <3> SUFFICES ASSUME NEW n \in Mutants
                 PROVE  (Len(allResults[n]) + One(InHand(n)) + One(InTest(n))
                          + One(InTodo(n)) = 1)'
      BY DEF Accounting
    <3>1. Len(allResults[n]) + One(InHand(n)) + One(InTest(n)) + One(InTodo(n)) = 1
      BY DEF Accounting
    <3>2. One(InTest(n)') = One(InTest(n)) /\ One(InTodo(n)') = One(InTodo(n))
      BY DEF InTest, InTodo
    <3>3. One(InHand(n)') = 0
      BY DEF InHand, One
    <3>4. One(InTest(n)) \in Nat /\ One(InTodo(n)) \in Nat
      BY DEF One
    <3>5. CASE n = m
      <4>1. Len(allResults'[n]) = Len(allResults[n]) + 1 /\ Len(allResults[n]) \in Nat
        BY <2>2, <3>5 DEF TypeOK
      <4>2. One(InHand(n)) = 1
        BY <3>5 DEF InHand, One
      <4>3. QED
        BY <3>1, <3>2, <3>3, <3>4, <4>1, <4>2
    <3>6. CASE n # m
      <4>1. allResults'[n] = allResults[n]
        BY <2>2, <3>6 DEF TypeOK
      <4>2. One(InHand(n)) = 0
        BY <3>6 DEF InHand, One
      <4>3. QED
        BY <3>1, <3>2, <3>3, <4>1, <4>2
    <3>7. QED
      BY <3>5, <3>6
  <2>5. WorkerInv' /\ SpawnInv' /\ TestInv'
    BY DEF WorkerInv, SpawnInv, TestInv, Ids
  <2>6. MainInv'
    BY DEF MainInv, InTest
  <2>7. VerdictInv'
    <3>1. hand'.status \notin Verdicts
      BY DEF NoResult, Verdicts, Unset
    <3>2. ASSUME NEW n \in Mutants, NEW i \in 1 .. Len(allResults'[n]),
                 allResults'[n][i] \in Verdicts
          PROVE  tpc[n] = "returned"
      <4>1. CASE n = m
        <5>1. Len(allResults'[n]) = Len(allResults[n]) + 1
          BY <2>2, <4>1 DEF TypeOK
        <5>2. CASE i \in 1 .. Len(allResults[n])
          <6>1. allResults'[n][i] = allResults[n][i]
            BY <2>2, <4>1, <5>2 DEF TypeOK
          <6>2. QED
            BY <3>2, <5>2, <6>1 DEF VerdictInv
        <5>3. CASE i = Len(allResults[n]) + 1
          BY <2>2, <3>2, <4>1, <5>3 DEF VerdictInv, TypeOK
        <5>4. QED
          BY <2>2, <4>1, <5>1, <5>2, <5>3
      <4>2. CASE n # m
        BY <2>2, <3>2, <4>2 DEF VerdictInv, TypeOK
      <4>3. QED
        BY <4>1, <4>2
    <3>3. QED
      BY <3>1, <3>2 DEF VerdictInv
  <2>8. QED
    BY <2>3, <2>4, <2>5, <2>6, <2>7
<1>2. CASE CollectorEnd
  <2> USE <1>2 DEF CollectorEnd, mainVars, workerVars
  <2>1. TypeOK'
    BY DEF TypeOK
  <2>2. Accounting'
    BY AccountingFrame
  <2>3. WorkerInv' /\ SpawnInv' /\ TestInv' /\ VerdictInv'
    BY DEF WorkerInv, SpawnInv, TestInv, VerdictInv, Ids
  <2>4. MainInv'
    BY DEF MainInv, InTest
  <2>5. QED
    BY <2>1, <2>2, <2>3, <2>4
<1>3. QED
  BY <1>1, <1>2 DEF Collector

\* A compile worker keeps IInv.
LEMMA WorkerStep ==
  ASSUME IInv, NEW p \in Pkgs, Worker(p)
  PROVE  IInv'
<1> USE ExecutorAssumption DEF IInv
<1>1. "untested" \in RunStatuses \ Verdicts /\ "error" \in RunStatuses \ Verdicts
  BY DEF RunStatuses, Verdicts
<1>2. CASE ReportUntested(p)
  BY <1>1, <1>2, ReportStep DEF ReportUntested, WorkerAt, IsFirst
<1>3. CASE ReportCompileError(p)
  <2>1. PICK m \in todo[p] \cap perMutant[p] : Report(p, m, "error")
    BY <1>3 DEF ReportCompileError
  <2>2. QED
    BY <1>1, <1>3, <2>1, ReportStep DEF ReportCompileError, WorkerAt
<1>4. CASE ReportMissingBinary(p)
  BY <1>1, <1>4, ReportStep DEF ReportMissingBinary, WorkerAt, IsFirst
<1>5. CASE ReportStored(p)
  <2>1. PICK m \in todo[p] : stored[m] \in {"untested", "error"} /\ Report(p, m, stored[m])
    BY <1>5 DEF ReportStored
  <2>2. QED
    BY <1>1, <1>5, <2>1, ReportStep DEF ReportStored, WorkerAt
<1>6. CASE ListTestFiles(p) \/ StatBinary(p) \/ MeasureBaseline(p) \/ WorkerReturn(p)
  <2> USE <1>6 DEF ListTestFiles, StatBinary, MeasureBaseline, WorkerReturn,
                   WorkerAt, GoTo, mainVars, chanVars
  <2>1. PICK there \in WorkerPoints \ {"waiting"} : wpc' = [wpc EXCEPT ![p] = there]
    BY DEF WorkerPoints
  <2>2. /\ wpc[p] \notin {"waiting", "returned"}
        /\ UNCHANGED <<mpc, next, todo, perMutant, binary, tpc, stored,
                       hand, allResults, closed, collectorDone>>
    OBVIOUS
  <2>3. TypeOK'
    BY <2>1, <2>2 DEF TypeOK
  <2>4. Accounting'
    BY <2>2, AccountingFrame
  <2>5. WorkerInv'
    <3> SUFFICES ASSUME NEW q \in Pkgs
                 PROVE  /\ wpc'[q] = "returned" => todo[q] = {}
                        /\ wpc'[q] \in {"baseline", "dispatch"} => binary[q]
                        /\ wpc'[q] \in {"reportMissing", "baseline", "dispatch"}
                             => todo[q] \cap perMutant[q] = {}
      BY <2>2 DEF WorkerInv, Ids
    <3>1. CASE q # p
      BY <2>1, <3>1 DEF WorkerInv, TypeOK
    <3>2. CASE q = p
      BY <3>2 DEF WorkerInv, TypeOK
    <3>3. QED
      BY <3>1, <3>2
  <2>6. SpawnInv'
    BY <2>1, <2>2 DEF SpawnInv, TypeOK
  <2>7. MainInv'
    BY <2>1, <2>2 DEF MainInv, InTest, TypeOK
  <2>8. TestInv'
    BY <2>1, <2>2 DEF TestInv, TypeOK
  <2>9. VerdictInv'
    BY <2>2 DEF VerdictInv
  <2>10. QED
    BY <2>3, <2>4, <2>5, <2>6, <2>7, <2>8, <2>9
<1>7. CASE Compile(p)
  <2> USE <1>7 DEF Compile, WorkerAt, GoTo, mainVars, chanVars
  <2>1. TypeOK'
    BY DEF TypeOK, WorkerPoints, Ids
  <2>2. Accounting'
    BY AccountingFrame
  <2>3. WorkerInv'
    <3> SUFFICES ASSUME NEW q \in Pkgs
                 PROVE  /\ todo'[q] \subseteq Ids(q)
                        /\ wpc'[q] = "returned" => todo'[q] = {}
                        /\ wpc'[q] \in {"baseline", "dispatch"} => binary'[q]
                        /\ wpc'[q] \in {"reportMissing", "baseline", "dispatch"}
                             => todo'[q] \cap perMutant'[q] = {}
      BY DEF WorkerInv, Ids
    <3>1. CASE q # p
      BY <3>1 DEF WorkerInv, TypeOK
    <3>2. CASE q = p
      BY <3>2 DEF WorkerInv, TypeOK
    <3>3. QED
      BY <3>1, <3>2
  <2>4. SpawnInv'
    BY DEF SpawnInv, TypeOK
  <2>5. MainInv'
    BY DEF MainInv, InTest, TypeOK
  <2>6. TestInv'
    <3> SUFFICES ASSUME NEW m \in Mutants, tpc[m] # "none"
                 PROVE  /\ wpc'[PkgOf[m]] \in {"dispatch", "returned"}
                        /\ binary'[PkgOf[m]]
                        /\ m \notin perMutant'[PkgOf[m]]
                        /\ stored[m] \notin {"untested", "error"}
      BY DEF TestInv
    <3>1. PkgOf[m] \in Pkgs /\ PkgOf[m] # p
      BY DEF TestInv, Pkgs
    <3>2. QED
      BY <3>1 DEF TestInv, TypeOK
  <2>7. VerdictInv'
    BY DEF VerdictInv
  <2>8. QED
    BY <2>1, <2>2, <2>3, <2>4, <2>5, <2>6, <2>7
<1>8. CASE SpawnTest(p)
  <2>1. PICK m \in todo[p] :
          /\ stored[m] \notin {"untested", "error"}
          /\ tpc' = [tpc EXCEPT ![m] = "running"]
          /\ todo' = [todo EXCEPT ![p] = @ \ {m}]
    BY <1>8 DEF SpawnTest, StartTest
  <2>2. /\ wpc[p] = "dispatch"
        /\ UNCHANGED <<mpc, next, wpc, perMutant, binary, stored,
                       hand, allResults, closed, collectorDone>>
    BY <1>8 DEF SpawnTest, StartTest, WorkerAt, mainVars, chanVars
  <2>3. m \in Mutants /\ PkgOf[m] = p
    BY <2>1 DEF WorkerInv, Ids
  <2>4. TypeOK'
    BY <2>1, <2>2, <2>3 DEF TypeOK, TestPoints
  <2>5. Accounting'
    <3> SUFFICES ASSUME NEW n \in Mutants
                 PROVE  (Len(allResults[n]) + One(InHand(n)) + One(InTest(n))
                          + One(InTodo(n)) = 1)'
      BY DEF Accounting
    <3>1. Len(allResults[n]) + One(InHand(n)) + One(InTest(n)) + One(InTodo(n)) = 1
      BY DEF Accounting
    <3>2. One(InHand(n)') = One(InHand(n)) /\ allResults' = allResults
      BY <2>2 DEF InHand, NoResult
    <3>3. CASE n = m
      <4>1. One(InTodo(n)) = 1 /\ One(InTodo(n)') = 0
        BY <2>1, <2>3, <3>3 DEF InTodo, TypeOK, One
      <4>2. One(InTest(n)) \in {0, 1} /\ One(InTest(n)') = 1
        BY <2>1, <2>3, <3>3 DEF InTest, TypeOK, One
      <4>3. Len(allResults[n]) \in Nat /\ One(InHand(n)) \in Nat
        BY DEF TypeOK, One
      <4>4. QED
        BY <3>1, <3>2, <4>1, <4>2, <4>3
    <3>4. CASE n # m
      <4>1. One(InTodo(n)') = One(InTodo(n)) /\ One(InTest(n)') = One(InTest(n))
        BY <2>1, <2>3, <3>4 DEF InTodo, InTest, TypeOK, One
      <4>2. QED
        BY <3>1, <3>2, <4>1
    <3>5. QED
      BY <3>3, <3>4
  <2>6. WorkerInv'
    <3> SUFFICES ASSUME NEW q \in Pkgs
                 PROVE  /\ todo'[q] \subseteq Ids(q)
                        /\ wpc[q] = "returned" => todo'[q] = {}
                        /\ wpc[q] \in {"baseline", "dispatch"} => binary[q]
                        /\ wpc[q] \in {"reportMissing", "baseline", "dispatch"}
                             => todo'[q] \cap perMutant[q] = {}
      BY <2>2 DEF WorkerInv, Ids
    <3>1. todo'[q] \subseteq todo[q]
      BY <2>1 DEF TypeOK
    <3>2. /\ todo[q] \subseteq Ids(q)
          /\ wpc[q] = "returned" => todo[q] = {}
          /\ wpc[q] \in {"baseline", "dispatch"} => binary[q]
          /\ wpc[q] \in {"reportMissing", "baseline", "dispatch"}
               => todo[q] \cap perMutant[q] = {}
      BY DEF WorkerInv
    <3>3. QED
      BY <3>1, <3>2
  <2>7. SpawnInv'
    BY <2>2 DEF SpawnInv
  <2>8. MainInv'
    <3>1. ~closed /\ mpc \notin {"testWait", "collectorWait", "returned"}
      BY <2>2 DEF MainInv
    <3>2. QED
      BY <2>2, <3>1 DEF MainInv
  <2>9. TestInv'
    <3>1. binary[p] /\ m \notin perMutant[p]
      BY <2>1, <2>2 DEF WorkerInv
    <3>2. QED
      BY <2>1, <2>2, <2>3, <3>1 DEF TestInv, TypeOK
  <2>10. VerdictInv'
    <3>1. ~InHand(m) /\ Len(allResults[m]) = 0
      <4>1. Len(allResults[m]) + One(InHand(m)) + One(InTest(m)) + One(InTodo(m)) = 1
        BY <2>3 DEF Accounting
      <4>2. One(InTodo(m)) = 1 /\ One(InTest(m)) \in Nat /\ Len(allResults[m]) \in Nat
        BY <2>1, <2>3 DEF InTodo, One, TypeOK
      <4>3. One(InHand(m)) \in {0, 1} /\ (InHand(m) => One(InHand(m)) = 1)
        BY DEF One
      <4>4. QED
        BY <4>1, <4>2, <4>3
    <3>2. hand.status \in Verdicts => hand.id # m
      BY <3>1, HandWithVerdict DEF InHand
    <3>3. hand'.status \in Verdicts => tpc'[hand'.id] = "returned"
      <4>1. SUFFICES ASSUME hand.status \in Verdicts PROVE tpc'[hand.id] = "returned"
        BY <2>2
      <4>2. hand.id \in Mutants
        BY <4>1, HandWithVerdict
      <4>3. QED
        BY <2>1, <2>2, <3>2, <4>1, <4>2 DEF VerdictInv, TypeOK
    <3>4. ASSUME NEW n \in Mutants, NEW i \in 1 .. Len(allResults[n]),
                 allResults[n][i] \in Verdicts
          PROVE  tpc'[n] = "returned"
      <4>1. n # m
        BY <3>1, <3>4
      <4>2. QED
        BY <2>1, <3>4, <4>1 DEF VerdictInv, TypeOK
    <3>5. QED
      BY <2>2, <3>3, <3>4 DEF VerdictInv
  <2>11. QED
    BY <2>4, <2>5, <2>6, <2>7, <2>8, <2>9, <2>10
<1>9. QED
  BY <1>2, <1>3, <1>4, <1>5, <1>6, <1>7, <1>8 DEF Worker

\* A test goroutine keeps IInv.
LEMMA TestStep ==
  ASSUME IInv, NEW m \in Mutants, Test(m)
  PROVE  IInv'
<1> USE ExecutorAssumption DEF IInv
<1>1. CASE RunMutant(m)
  <2> USE <1>1 DEF RunMutant, mainVars, workerVars, chanVars
  <2>1. TypeOK'
    BY DEF TypeOK, TestPoints
  <2>2. Accounting'
    <3>1. \A n \in Mutants : InTest(n)' = InTest(n)
      BY DEF InTest, TypeOK
    <3>2. QED
      BY <3>1 DEF Accounting, InTodo, InHand, NoResult
  <2>3. WorkerInv' /\ SpawnInv'
    BY DEF WorkerInv, SpawnInv, Ids
  <2>4. MainInv'
    BY DEF MainInv, InTest, TypeOK
  <2>5. TestInv'
    BY DEF TestInv, TypeOK
  <2>6. VerdictInv'
    <3>1. hand.status \in Verdicts => hand.id \in Mutants
      BY HandWithVerdict
    <3>2. QED
      BY <3>1 DEF VerdictInv, TypeOK
  <2>7. QED
    BY <2>1, <2>2, <2>3, <2>4, <2>5, <2>6
<1>2. CASE ReportOutcome(m)
  <2>1. PICK o \in Observations : SendResult(m, classifyVerboseRun(o))
    BY <1>2 DEF ReportOutcome
  <2>2. PICK s \in RunStatuses : s = classifyVerboseRun(o) /\ SendResult(m, s)
    BY <2>1, ClassifyIsTotal
  <2>3. /\ hand = NoResult /\ ~collectorDone /\ hand' = [id |-> m, status |-> s]
        /\ hand' \in Results /\ hand' # NoResult /\ hand'.id = m /\ hand'.status = s
        /\ UNCHANGED <<allResults, closed, collectorDone>>
    BY <2>2, SendIsRendezvous
  <2>4. /\ tpc[m] = "sending" /\ tpc' = [tpc EXCEPT ![m] = "returned"]
        /\ UNCHANGED <<mpc, next, wpc, todo, perMutant, binary, stored>>
    BY <1>2 DEF ReportOutcome, mainVars, workerVars
  <2>5. TypeOK'
    BY <2>3, <2>4 DEF TypeOK, TestPoints
  <2>6. Accounting'
    <3> SUFFICES ASSUME NEW n \in Mutants
                 PROVE  (Len(allResults[n]) + One(InHand(n)) + One(InTest(n))
                          + One(InTodo(n)) = 1)'
      BY DEF Accounting
    <3>1. Len(allResults[n]) + One(InHand(n)) + One(InTest(n)) + One(InTodo(n)) = 1
      BY DEF Accounting
    <3>2. One(InTodo(n)') = One(InTodo(n)) /\ allResults' = allResults
      BY <2>3, <2>4 DEF InTodo
    <3>3. CASE n = m
      <4>1. One(InTest(n)) = 1 /\ One(InTest(n)') = 0
        BY <2>4, <3>3 DEF InTest, TypeOK, One
      <4>2. One(InHand(n)) = 0 /\ One(InHand(n)') = 1
        BY <2>3, <3>3 DEF InHand, One
      <4>3. Len(allResults[n]) \in Nat /\ One(InTodo(n)) \in Nat
        BY DEF TypeOK, One
      <4>4. QED
        BY <3>1, <3>2, <4>1, <4>2, <4>3
    <3>4. CASE n # m
      <4>1. One(InTest(n)') = One(InTest(n))
        BY <2>4, <3>4 DEF InTest, TypeOK
      <4>2. One(InHand(n)) = 0 /\ One(InHand(n)') = 0
        BY <2>3, <3>4 DEF InHand, One
      <4>3. QED
        BY <3>1, <3>2, <4>1, <4>2
    <3>5. QED
      BY <3>3, <3>4
  <2>7. WorkerInv' /\ SpawnInv'
    BY <2>4 DEF WorkerInv, SpawnInv, Ids
  <2>8. MainInv'
    <3>1. ~closed
      BY <2>4 DEF MainInv, InTest
    <3>2. QED
      BY <2>3, <2>4, <3>1 DEF MainInv
  <2>9. TestInv'
    BY <2>4 DEF TestInv, TypeOK
  <2>10. VerdictInv'
    BY <2>3, <2>4 DEF VerdictInv, TypeOK
  <2>11. QED
    BY <2>5, <2>6, <2>7, <2>8, <2>9, <2>10
<1>3. QED
  BY <1>1, <1>2 DEF Test

LEMMA NextIInv == IInv /\ [Next]_vars => IInv'
<1> SUFFICES ASSUME IInv, [Next]_vars PROVE IInv'
  OBVIOUS
<1>1. CASE UNCHANGED vars
  <2> USE <1>1 DEF vars
  <2>1. TypeOK' /\ Accounting'
    BY AccountingFrame DEF IInv, TypeOK
  <2>2. WorkerInv' /\ SpawnInv' /\ MainInv' /\ TestInv' /\ VerdictInv'
    BY DEF IInv, WorkerInv, SpawnInv, MainInv, TestInv, VerdictInv, InTest, Ids
  <2>3. QED
    BY <2>1, <2>2 DEF IInv
<1>2. CASE Next
  BY <1>1, <1>2, MainStep, CollectorStep, WorkerStep, TestStep DEF Next, Returned
<1>3. QED
  BY <1>1, <1>2

\* The accounting invariant holds in every reachable state.
THEOREM Invariance == SafeSpec => []IInv
  BY InitIInv, NextIInv, PTL DEF SafeSpec

-----------------------------------------------------------------------------
(***************************************************************************)
(* What follows from the invariant.                                        *)
(***************************************************************************)

\* Every variable of compileAndRunPackages keeps its type.
THEOREM TypeCorrect == SafeSpec => []TypeOK
<1>1. IInv => TypeOK
  BY DEF IInv
<1>2. QED
  BY <1>1, Invariance, PTL

\* For any packages, mutants and limit, no mutant is reported twice, and when
\* compileAndRunPackages returns every mutant has been reported.
THEOREM EveryMutantReportedOnce == SafeSpec => []ExactlyOneResult
<1>1. IInv => ExactlyOneResult
  <2> SUFFICES ASSUME IInv, NEW m \in Mutants
               PROVE  /\ Len(allResults[m]) <= 1
                      /\ mpc = "returned" => Len(allResults[m]) = 1
    BY DEF ExactlyOneResult
  <2>1. Len(allResults[m]) + One(InHand(m)) + One(InTest(m)) + One(InTodo(m)) = 1
    BY DEF IInv, Accounting
  <2>2. /\ Len(allResults[m]) \in Nat
        /\ One(InHand(m)) \in Nat /\ One(InTest(m)) \in Nat /\ One(InTodo(m)) \in Nat
    BY DEF IInv, TypeOK, One
  <2>3. ASSUME mpc = "returned"
        PROVE  One(InHand(m)) = 0 /\ One(InTest(m)) = 0 /\ One(InTodo(m)) = 0
    <3>1. ~InHand(m) /\ ~InTest(m)
      BY <2>3 DEF IInv, MainInv, InHand
    <3>2. PkgOf[m] \in Pkgs /\ todo[PkgOf[m]] = {}
      BY <2>3, ExecutorAssumption DEF IInv, MainInv, WorkerInv, Pkgs
    <3>3. QED
      BY <3>1, <3>2 DEF InTodo, One
  <2>4. Len(allResults[m]) <= 1
    BY <2>1, <2>2
  <2>5. mpc = "returned" => Len(allResults[m]) = 1
    BY <2>1, <2>2, <2>3
  <2>6. QED
    BY <2>4, <2>5
<1>2. QED
  BY <1>1, Invariance, PTL

\* resultsChan is closed only when nothing can be sent on it any more.
THEOREM ChannelClosedLast == SafeSpec => []NoSendAfterClose
<1>1. IInv => NoSendAfterClose
  BY DEF IInv, MainInv, NoSendAfterClose, InTest, TypeOK, TestPoints
<1>2. QED
  BY <1>1, Invariance, PTL

\* No mutant is called survived, killed or timed out without a run of a binary
\* that was really built.
THEOREM VerdictsAreEarned == SafeSpec => []VerdictsComeFromRuns
<1>1. IInv => VerdictsComeFromRuns
  BY DEF IInv, VerdictsComeFromRuns, VerdictInv, TestInv, Verdicts
<1>2. QED
  BY <1>1, Invariance, PTL

\* compileAndRunPackages keeps the promise that the unit phase of Lifecycle is.
THEOREM UnitPhaseKeepsPromise == SafeSpec => []PromiseKept
<1>1. IInv /\ ExactlyOneResult => PromiseKept
  <2> SUFFICES ASSUME IInv, ExactlyOneResult, mpc = "returned"
               PROVE  UnitTested(Mutants, stored, [m \in Mutants |-> allResults[m][1]],
                                 {m \in Mutants : tpc[m] = "returned"})
    BY DEF PromiseKept
  <2>1. ASSUME NEW m \in Mutants
        PROVE  1 \in 1 .. Len(allResults[m]) /\ allResults[m][1] \in RunStatuses
    <3>1. Len(allResults[m]) = 1 /\ allResults[m] \in Seq(RunStatuses)
      BY DEF ExactlyOneResult, IInv, TypeOK
    <3>2. QED
      BY <3>1
  <2>2. \A m \in Mutants : tpc[m] = "returned" => stored[m] \notin {"untested", "error"}
    BY DEF IInv, TestInv
  <2>3. \A m \in Mutants : allResults[m][1] \in Verdicts => tpc[m] = "returned"
    BY <2>1 DEF IInv, VerdictInv
  <2>4. QED
    BY <2>1, <2>2, <2>3 DEF UnitTested
<1>2. QED
  BY <1>1, Invariance, EveryMutantReportedOnce, PTL

-----------------------------------------------------------------------------
(***************************************************************************)
(* The limits of the two errgroups.                                        *)
(***************************************************************************)

\* A finite group that loses members, or gains one while it is not full, stays
\* within its limit.
LEMMA GroupStaysWithin ==
  ASSUME NEW S, IsFiniteSet(S), NEW N \in Nat, Cardinality(S) <= N,
         NEW x, NEW T,
         T \subseteq S \/ (T \subseteq S \cup {x} /\ Cardinality(S) < N)
  PROVE  Cardinality(T) <= N
<1>1. CASE T \subseteq S
  <2>1. Cardinality(T) <= Cardinality(S) /\ IsFiniteSet(T)
    BY <1>1, FS_Subset
  <2>2. QED
    BY <2>1, FS_CardinalityType
<1>2. CASE T \subseteq S \cup {x} /\ Cardinality(S) < N
  <2>1. /\ IsFiniteSet(S \cup {x})
        /\ Cardinality(S \cup {x}) <= Cardinality(S) + 1
    BY FS_AddElement, FS_CardinalityType
  <2>2. Cardinality(T) <= Cardinality(S \cup {x}) /\ IsFiniteSet(T)
    BY <1>2, <2>1, FS_Subset
  <2>3. Cardinality(T) \in Nat /\ Cardinality(S) \in Nat /\ Cardinality(S \cup {x}) \in Nat
    BY <2>1, <2>2, FS_CardinalityType
  <2>4. QED
    BY <1>2, <2>1, <2>2, <2>3
<1>3. QED
  BY <1>1, <1>2

\* Every step leaves each group alone, shrinks it, or adds one goroutine to a
\* group that is not full.
LEMMA GroupStep ==
  ASSUME IInv, [Next]_vars
  PROVE  /\ \/ CompileSlots' \subseteq CompileSlots
            \/ \E p \in Pkgs : /\ CompileSlots' \subseteq CompileSlots \cup {p}
                               /\ Cardinality(CompileSlots) < Concurrent
         /\ \/ TestSlots' \subseteq TestSlots
            \/ \E m \in Mutants : /\ TestSlots' \subseteq TestSlots \cup {m}
                                  /\ Cardinality(TestSlots) < Concurrent
<1> USE DEF vars, mainVars, workerVars, chanVars
<1>1. CASE UNCHANGED <<wpc, tpc>>
  BY <1>1 DEF CompileSlots, TestSlots
<1>2. CASE SpawnPackage
  <2>1. /\ next \in Pkgs /\ Cardinality(CompileSlots) < Concurrent
        /\ wpc' = [wpc EXCEPT ![next] = "list"] /\ tpc' = tpc
    BY <1>2, ExecutorAssumption DEF SpawnPackage, IInv, TypeOK, Pkgs
  <2>2. CompileSlots' \subseteq CompileSlots \cup {next}
    BY <2>1 DEF CompileSlots, IInv, TypeOK
  <2>3. TestSlots' = TestSlots
    BY <2>1 DEF TestSlots
  <2>4. QED
    BY <2>1, <2>2, <2>3
<1>3. CASE \E p \in Pkgs : SpawnTest(p)
  <2>1. PICK p \in Pkgs : SpawnTest(p)
    BY <1>3
  <2>2. PICK m \in todo[p] : tpc' = [tpc EXCEPT ![m] = "running"]
    BY <2>1 DEF SpawnTest, StartTest
  <2>3. m \in Mutants /\ wpc' = wpc /\ Cardinality(TestSlots) < Concurrent
    BY <2>1, <2>2 DEF SpawnTest, StartTest, IInv, TypeOK
  <2>4. TestSlots' \subseteq TestSlots \cup {m}
    BY <2>2, <2>3 DEF TestSlots, IInv, TypeOK
  <2>5. CompileSlots' = CompileSlots
    BY <2>3 DEF CompileSlots
  <2>6. QED
    BY <2>3, <2>4, <2>5
<1>4. ASSUME NEW p \in Pkgs, NEW there \in WorkerPoints, p \in CompileSlots,
             GoTo(p, there), tpc' = tpc
      PROVE  CompileSlots' \subseteq CompileSlots /\ TestSlots' = TestSlots
  BY <1>4 DEF GoTo, CompileSlots, TestSlots, IInv, TypeOK
<1>5. ASSUME NEW p \in Pkgs, Worker(p), ~SpawnTest(p)
      PROVE  CompileSlots' \subseteq CompileSlots /\ TestSlots' = TestSlots
  <2>1. CASE ReportUntested(p) \/ ReportCompileError(p) \/ ReportMissingBinary(p) \/ ReportStored(p)
    <3>1. wpc' = wpc /\ tpc' = tpc
      BY <2>1 DEF ReportUntested, ReportCompileError, ReportMissingBinary, ReportStored, Report
    <3>2. QED
      BY <3>1 DEF CompileSlots, TestSlots
  <2>2. CASE ListTestFiles(p)
    BY <2>2, <1>4 DEF ListTestFiles, WorkerAt, CompileSlots, WorkerPoints
  <2>3. CASE Compile(p)
    BY <2>3, <1>4 DEF Compile, WorkerAt, CompileSlots, WorkerPoints
  <2>4. CASE StatBinary(p)
    BY <2>4, <1>4 DEF StatBinary, WorkerAt, CompileSlots, WorkerPoints
  <2>5. CASE MeasureBaseline(p)
    BY <2>5, <1>4 DEF MeasureBaseline, WorkerAt, CompileSlots, WorkerPoints
  <2>6. CASE WorkerReturn(p)
    BY <2>6, <1>4 DEF WorkerReturn, CompileSlots, WorkerPoints
  <2>7. QED
    BY <1>5, <2>1, <2>2, <2>3, <2>4, <2>5, <2>6 DEF Worker
<1>6. ASSUME NEW m \in Mutants, Test(m)
      PROVE  CompileSlots' = CompileSlots /\ TestSlots' \subseteq TestSlots
  BY <1>6 DEF Test, RunMutant, ReportOutcome, CompileSlots, TestSlots, IInv, TypeOK
<1>7. CASE SpawnedAll \/ CompileGroupWait \/ TestGroupWaitAndClose \/ ReturnResults \/ Collector
  BY <1>1, <1>7 DEF SpawnedAll, CompileGroupWait, TestGroupWaitAndClose, ReturnResults,
                    Collector, CollectorAppend, CollectorEnd
<1>8. QED
  BY <1>1, <1>2, <1>3, <1>5, <1>6, <1>7 DEF Next, Main, Returned

\* Neither errgroup ever holds more goroutines than its limit.
THEOREM LimitsRespected == SafeSpec => []GroupLimits
<1> USE ExecutorAssumption
<1>1. IsFiniteSet(Pkgs) /\ IsFiniteSet(CompileSlots) /\ IsFiniteSet(TestSlots)
  BY FS_Interval, FS_Subset DEF Pkgs, CompileSlots, TestSlots
<1>2. Init => GroupLimits
  <2> SUFFICES ASSUME Init PROVE GroupLimits
    OBVIOUS
  <2>1. CompileSlots = {} /\ TestSlots = {}
    BY DEF Init, CompileSlots, TestSlots
  <2>2. Cardinality({}) = 0
    BY FS_EmptySet
  <2>3. QED
    BY <2>1, <2>2 DEF GroupLimits
<1>3. IInv /\ GroupLimits /\ [Next]_vars => GroupLimits'
  <2> SUFFICES ASSUME IInv, GroupLimits, [Next]_vars PROVE GroupLimits'
    OBVIOUS
  <2>1. Cardinality(CompileSlots') <= Concurrent
    BY <1>1, GroupStep, GroupStaysWithin DEF GroupLimits
  <2>2. Cardinality(TestSlots') <= Concurrent
    BY <1>1, GroupStep, GroupStaysWithin DEF GroupLimits
  <2>3. QED
    BY <2>1, <2>2 DEF GroupLimits
<1>4. QED
  BY <1>2, <1>3, Invariance, PTL DEF SafeSpec

-----------------------------------------------------------------------------
(***************************************************************************)
(* The goroutines implement MutantRun.                                     *)
(***************************************************************************)

\* When the collector has finished, every mutant has exactly one result.
LEMMA CollectedAll ==
  ASSUME IInv, collectorDone, NEW m \in Mutants
  PROVE  Len(allResults[m]) = 1
<1>1. Len(allResults[m]) + One(InHand(m)) + One(InTest(m)) + One(InTodo(m)) = 1
  BY DEF IInv, Accounting
<1>2. closed /\ hand = NoResult /\ \A p \in Pkgs : wpc[p] = "returned"
  BY DEF IInv, MainInv
<1>3. PkgOf[m] \in Pkgs /\ todo[PkgOf[m]] = {}
  BY <1>2, ExecutorAssumption DEF IInv, WorkerInv, Pkgs
<1>4. ~InHand(m) /\ ~InTest(m) /\ ~InTodo(m)
  BY <1>2, <1>3 DEF IInv, MainInv, InHand, InTodo
<1>5. One(InHand(m)) = 0 /\ One(InTest(m)) = 0 /\ One(InTodo(m)) = 0
  BY <1>4 DEF One
<1>6. Len(allResults[m]) \in Nat
  BY DEF IInv, TypeOK
<1>7. QED
  BY <1>1, <1>5, <1>6

\* What the collector appends is the first result of its mutant.
LEMMA AppendSettles ==
  ASSUME IInv, CollectorAppend
  PROVE  \E m \in Mutants : Abstract!Settle(m)
<1>1. hand \in Results
  BY DEF IInv, TypeOK, CollectorAppend
<1>2. PICK m \in Mutants : m = hand.id /\ hand.status \in RunStatuses
  BY <1>1 DEF Results
<1>3. Len(allResults[m]) = 0
  <2>1. Len(allResults[m]) + One(InHand(m)) + One(InTest(m)) + One(InTodo(m)) = 1
    BY DEF IInv, Accounting
  <2>2. One(InHand(m)) = 1
    BY <1>2 DEF CollectorAppend, InHand, One
  <2>3. One(InTest(m)) \in Nat /\ One(InTodo(m)) \in Nat /\ Len(allResults[m]) \in Nat
    BY DEF IInv, TypeOK, One
  <2>4. QED
    BY <2>1, <2>2, <2>3
<1>4. allResults[m] = <<>>
  BY <1>3 DEF IInv, TypeOK
<1>5. Append(allResults[m], hand.status) = <<hand.status>>
  BY <1>4
<1>6. allResults' = [allResults EXCEPT ![m] = <<hand.status>>]
  BY <1>2, <1>5 DEF CollectorAppend
<1>7. mpc # "returned" /\ mpc' = mpc
  BY DEF CollectorAppend, mainVars, IInv, MainInv
<1>8. QED
  BY <1>2, <1>4, <1>6, <1>7 DEF Abstract!Settle, Abstract!RunStatuses, RunStatuses

\* compileAndRunPackages, whatever its goroutines do, is a MutantRun: a step of
\* it either settles one unsettled mutant, returns with all of them settled, or
\* is invisible to the caller.
THEOREM ExecutorImplementsMutantRun == SafeSpec => Abstract!SafeSpec
<1>1. Init => Abstract!Init
  BY DEF Init, Abstract!Init
<1>2. IInv /\ [Next]_vars => [Abstract!Next]_(Abstract!runVars)
  <2> SUFFICES ASSUME IInv, [Next]_vars PROVE [Abstract!Next]_(Abstract!runVars)
    OBVIOUS
  <2> USE DEF vars, mainVars, workerVars, chanVars
  <2>1. CASE CollectorAppend
    BY <2>1, AppendSettles DEF Abstract!Next
  <2>2. CASE ReturnResults
    <3>1. \A m \in Mutants : allResults[m] # <<>>
      BY <2>2, CollectedAll DEF ReturnResults
    <3>2. Abstract!Return
      BY <2>2, <3>1 DEF ReturnResults, Abstract!Return
    <3>3. QED
      BY <3>2 DEF Abstract!Next
  <2>3. ASSUME allResults' = allResults, mpc' = mpc \/ {mpc, mpc'} \cap {"returned"} = {}
        PROVE  UNCHANGED Abstract!runVars
    BY <2>3 DEF Abstract!runVars
  <2>4. CASE SpawnPackage \/ SpawnedAll \/ CompileGroupWait \/ TestGroupWaitAndClose
    BY <2>3, <2>4 DEF SpawnPackage, SpawnedAll, CompileGroupWait, TestGroupWaitAndClose
  <2>5. CASE CollectorEnd \/ UNCHANGED vars
    BY <2>3, <2>5 DEF CollectorEnd
  <2>6. CASE \E p \in Pkgs : Worker(p)
    BY <2>3, <2>6 DEF Worker, ListTestFiles, ReportUntested, Compile, ReportCompileError,
         StatBinary, ReportMissingBinary, MeasureBaseline, ReportStored, SpawnTest, StartTest,
         WorkerReturn, Report, SendResult
  <2>7. CASE \E m \in Mutants : Test(m)
    BY <2>3, <2>7 DEF Test, RunMutant, ReportOutcome, SendResult
  <2>8. QED
    BY <2>1, <2>2, <2>4, <2>5, <2>6, <2>7 DEF Next, Main, Collector, Returned
<1>3. QED
  BY <1>1, <1>2, Invariance, PTL DEF SafeSpec, Abstract!SafeSpec

=============================================================================
