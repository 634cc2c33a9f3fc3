--------------------------- MODULE LifecycleProofs ---------------------------
(***************************************************************************)
(* Theorems about Lifecycle, for any set of mutants and any number of      *)
(* runs and binaries.  The strengthening says where the mutants of a run   *)
(* are in every phase, not only when it returns, and follows a verdict     *)
(* through the cache back to the run that it comes from.                   *)
(***************************************************************************)
EXTENDS Lifecycle, TLAPS

\* The mutants of a run are kept or invalid, and never both.
Partition ==
  pc # "idle" /\ ~partial => kept \cup invalid = Mutants /\ kept \cap invalid = {}

\* Every copy set aside has a status.
InvalidHaveStatus == \A m \in invalid : invStatus[m] # Unset

\* What is returned has a status.
ReturnedHaveStatus ==
  /\ answer # "none" => pc = "returned"
  /\ answer = "invalid" => kept = {}
  /\ answer = "both" => \A m \in kept : status[m] # Unset

\* Every verdict, in a mutant or in the cache, is one of a mutant that was run.
Earned ==
  \A m \in Mutants : /\ status[m] \in Verdicts => m \in executed
                     /\ cache[m] \in Verdicts => m \in executed

IInv ==
  /\ TypeOK
  /\ Partition
  /\ InvalidHaveStatus
  /\ ReturnedHaveStatus
  /\ Earned

-----------------------------------------------------------------------------
(***************************************************************************)
(* The ranks, and the merging of two results.                              *)
(***************************************************************************)
LEMMA Ranks ==
  /\ statusRank[Unset] = 0
  /\ statusRank["untested"] = 1
  /\ statusRank["survived"] = 2
  /\ statusRank["error"] = 3
  /\ statusRank["timeout"] = 4
  /\ statusRank["killed"] = 5
BY DEF statusRank, Statuses, RunStatuses, Unset

\* Every status a mutant is given has a rank.
LEMMA RanksAreNumbers ==
  ASSUME NEW s \in RunStatuses \cup {Unset}
  PROVE  statusRank[s] \in Nat
BY Ranks DEF RunStatuses

\* A merge gives one of the two statuses, and never one of a lower rank.
LEMMA MergeGrows ==
  ASSUME NEW c \in RunStatuses \cup {Unset}, NEW i \in RunStatuses
  PROVE  /\ Merged(c, i) \in {c, i}
         /\ statusRank[Merged(c, i)] >= statusRank[c]
<1>1. Merged(c, i) \in {c, i}
  BY DEF Merged
<1>2. CASE shouldUpdate(c, i)
  BY <1>1, <1>2 DEF Merged, shouldUpdate
<1>3. CASE ~shouldUpdate(c, i)
  <2>1. Merged(c, i) = c
    BY <1>3 DEF Merged
  <2>2. statusRank[c] >= statusRank[c]
    BY RanksAreNumbers
  <2> QED BY <1>1, <2>1, <2>2
<1> QED BY <1>2, <1>3

\* So does a result of an external suite, whichever way it is merged.
LEMMA ExternalMergeGrows ==
  ASSUME NEW c \in RunStatuses \cup {Unset}, NEW i \in RunStatuses
  PROVE  /\ ExternalMerged(c, i) \in {c, i}
         /\ statusRank[ExternalMerged(c, i)] >= statusRank[c]
<1>1. CASE phase # "cached"
  <2>1. ExternalMerged(c, i) = Merged(c, i)
    BY <1>1 DEF ExternalMerged
  <2> QED BY <2>1, MergeGrows
<1>2. CASE phase = "cached" /\ i = "killed"
  <2>1. ExternalMerged(c, i) = i
    BY <1>2 DEF ExternalMerged
  <2>2. statusRank[i] >= statusRank[c]
    BY <1>2, Ranks DEF RunStatuses
  <2> QED BY <2>1, <2>2
<1>3. CASE phase = "cached" /\ i = "survived" /\ c \in {Unset, "untested"}
  <2>1. ExternalMerged(c, i) = i
    BY <1>3 DEF ExternalMerged
  <2>2. statusRank[i] >= statusRank[c]
    BY <1>3, Ranks
  <2> QED BY <2>1, <2>2
<1>4. CASE /\ phase = "cached"
           /\ ~(i = "killed" \/ (i = "survived" /\ c \in {Unset, "untested"}))
  <2>1. ExternalMerged(c, i) = c
    BY <1>4 DEF ExternalMerged
  <2>2. statusRank[c] >= statusRank[c]
    BY RanksAreNumbers
  <2> QED BY <2>1, <2>2
<1> QED BY <1>1, <1>2, <1>3, <1>4

-----------------------------------------------------------------------------
(***************************************************************************)
(* What the helpers do to the statuses and to the cache.                   *)
(***************************************************************************)
LEMMA FinalizeSettles ==
  ASSUME NEW st \in [Mutants -> RunStatuses \cup {Unset}]
  PROVE  /\ Finalize(st) \in [Mutants -> RunStatuses \cup {Unset}]
         /\ \A m \in kept \cap Mutants : Finalize(st)[m] # Unset
         /\ \A m \in Mutants : Finalize(st)[m] \in {st[m], "untested"}
         /\ \A m \in Mutants : st[m] # Unset => Finalize(st)[m] = st[m]
BY DEF Finalize, RunStatuses, Unset

LEMMA SavedFromKept ==
  ASSUME NEW st \in [Mutants -> RunStatuses \cup {Unset}],
         cache \in [Mutants -> RunStatuses \cup {Unset}]
  PROVE  /\ Saved(st) \in [Mutants -> RunStatuses \cup {Unset}]
         /\ \A m \in Mutants : \/ Saved(st)[m] = cache[m]
                               \/ m \in kept /\ Saved(st)[m] = st[m]
BY DEF Saved

LEMMA LookedUpFromCache ==
  ASSUME status \in [Mutants -> RunStatuses \cup {Unset}],
         cache \in [Mutants -> RunStatuses \cup {Unset}]
  PROVE  /\ LookedUp \in [Mutants -> RunStatuses \cup {Unset}]
         /\ \A m \in Mutants : LookedUp[m] \in {cache[m], status[m]}
BY DEF LookedUp

\* The results of a binary, merged in.
LEMMA MergedInto ==
  ASSUME NEW S \in SUBSET Mutants, NEW r \in [S -> RunStatuses],
         status \in [Mutants -> RunStatuses \cup {Unset}]
  PROVE  /\ [m \in Mutants |-> IF m \in S THEN ExternalMerged(status[m], r[m]) ELSE status[m]]
              \in [Mutants -> RunStatuses \cup {Unset}]
         /\ [m \in Mutants |-> IF m \in S THEN Merged(status[m], r[m]) ELSE status[m]]
              \in [Mutants -> RunStatuses \cup {Unset}]
<1>1. \A m \in S : /\ ExternalMerged(status[m], r[m]) \in {status[m], r[m]}
                   /\ Merged(status[m], r[m]) \in {status[m], r[m]}
  BY ExternalMergeGrows, MergeGrows
<1> QED BY <1>1

-----------------------------------------------------------------------------
(***************************************************************************)
(* Types.                                                                  *)
(***************************************************************************)
LEMMA InitTypeOK == Init => TypeOK
<1> SUFFICES ASSUME Init PROVE TypeOK
  OBVIOUS
<1>1. /\ cache \in [Mutants -> RunStatuses \cup {Unset}]
      /\ status \in [Mutants -> RunStatuses \cup {Unset}]
      /\ invStatus \in [Mutants -> Statuses]
  BY DEF Init, Statuses
<1>2. runs \in 0 .. MaxRuns /\ binaries \in 0 .. MaxBinaries
  BY LifecycleAssumption DEF Init, LifecycleAssumption
<1> QED BY <1>1, <1>2 DEF Init, TypeOK

LEMMA NextTypeOK == TypeOK /\ [Next]_vars => TypeOK'
<1> SUFFICES ASSUME TypeOK, [Next]_vars PROVE TypeOK'
  OBVIOUS
<1> USE LifecycleAssumption DEF LifecycleAssumption, options, externalVars, answerVars, history
<1>1. CASE StartRun
  <2>1. /\ cache' \in [Mutants -> RunStatuses \cup {Unset}]
        /\ status' \in [Mutants -> RunStatuses \cup {Unset}]
        /\ invStatus' \in [Mutants -> Statuses]
    BY <1>1 DEF StartRun, TypeOK, Statuses
  <2>2. runs' \in 0 .. MaxRuns /\ binaries' \in 0 .. MaxBinaries
    BY <1>1 DEF StartRun, TypeOK
  <2> QED BY <1>1, <2>1, <2>2 DEF StartRun, TypeOK
<1>2. CASE Filter
  BY <1>2 DEF Filter, TypeOK, RunStatuses
<1>3. CASE Preflight
  <2>1. PICK s \in [invalid' -> {"invalid", "error"}] :
          invStatus' = [m \in Mutants |-> IF m \in invalid' THEN s[m] ELSE Unset]
    BY <1>3 DEF Preflight
  <2>2. invStatus' \in [Mutants -> Statuses]
    BY <2>1 DEF Statuses, RunStatuses
  <2>3. /\ pc' \in {"cache", "returned"}
        /\ answer' \in {"none", "both", "kept", "invalid", "nil"}
        /\ err' \in BOOLEAN
    BY <1>3 DEF Preflight, Return, TypeOK
  <2>4. kept' \in SUBSET Mutants /\ invalid' \in SUBSET Mutants
    BY <1>3 DEF Preflight
  <2>5. UNCHANGED <<runs, options, cache, status, externalVars, history>>
    BY <1>3 DEF Preflight
  <2>6. UNCHANGED <<runs, mode, unitTests, external, cacheOn, cache, status, phase, targets,
                    binaries, executed, partial>>
    BY <2>5
  <2> QED BY <2>2, <2>3, <2>4, <2>6 DEF TypeOK
<1>4. CASE ResolveCache
  BY <1>4, LookedUpFromCache DEF ResolveCache, TypeOK
<1>5. CASE ReturnAllCached
  BY <1>5, LookedUpFromCache, FinalizeSettles DEF ReturnAllCached, TypeOK, Return
<1>6. CASE CachedExternal
  BY <1>6, LookedUpFromCache, FinalizeSettles DEF CachedExternal, BinaryCounts, TypeOK, Return
<1>7. CASE RunStandalone
  BY <1>7, SavedFromKept DEF RunStandalone, Rewrites, TypeOK, Return
<1>8. CASE StandaloneFails
  BY <1>8 DEF StandaloneFails, TypeOK, Return
<1>9. CASE SetupFails
  BY <1>9 DEF SetupFails, TypeOK, Errors, RunStatuses, Return
<1>10. CASE Setup
  BY <1>10 DEF Setup, TypeOK
<1>11. CASE Verify
  BY <1>11 DEF Verify, Rewrites, TypeOK, AppendInvalid, Statuses
<1>12. CASE VerifyFails
  <2>1. /\ status' \in [Mutants -> RunStatuses \cup {Unset}]
        /\ kept' \in SUBSET Mutants
        /\ \E S \in SUBSET Mutants : AppendInvalid(S, status')
    BY <1>12 DEF VerifyFails, Rewrites, TypeOK
  <2>2. invalid' \in SUBSET Mutants /\ invStatus' \in [Mutants -> Statuses]
    BY <2>1 DEF AppendInvalid, TypeOK, Statuses
  <2>3. /\ pc' \in {"binaries", "returned"}
        /\ answer' \in {answer, "invalid"}
        /\ err' \in {err, TRUE}
        /\ partial' = TRUE
        /\ UNCHANGED <<runs, options, cache, externalVars, executed>>
    BY <1>12 DEF VerifyFails, Return
  <2> QED BY ZenonT(60), <2>1, <2>2, <2>3 DEF TypeOK
<1>13. CASE BuildBinaries
  BY <1>13 DEF BuildBinaries, BinaryCounts, TypeOK
<1>14. CASE RunBinary
  BY <1>14, MergedInto DEF RunBinary, AgainstBinary, TypeOK
<1>15. CASE ExternalDone
  BY ZenonT(60), <1>15, FinalizeSettles DEF ExternalDone, TypeOK, Return
<1>16. CASE RunUnitTests
  <2>1. PICK r \in [UnitIds -> RunStatuses], ran \in SUBSET UnitIds :
          /\ status' = [m \in Mutants |-> IF m \in UnitIds THEN Merged(status[m], r[m])
                                                        ELSE status[m]]
          /\ executed' = executed \cup ran
    BY <1>16 DEF RunUnitTests
  <2>2. UnitIds \in SUBSET Mutants
    BY DEF UnitIds, TypeOK
  <2>3. status' \in [Mutants -> RunStatuses \cup {Unset}] /\ executed' \in SUBSET Mutants
    BY <2>1, <2>2, MergedInto DEF TypeOK
  <2> QED BY <1>16, <2>3 DEF RunUnitTests, TypeOK
<1>17. CASE NoUnitTests
  BY <1>17 DEF NoUnitTests, TypeOK
<1>18. CASE StartExternal
  BY <1>18 DEF StartExternal, TypeOK
<1>19. CASE Finish
  BY <1>19, FinalizeSettles, SavedFromKept DEF Finish, TypeOK, Return
<1>20. CASE UNCHANGED vars \/ NoMoreRuns
  BY <1>20 DEF NoMoreRuns, vars, TypeOK
<1> QED
  BY <1>1, <1>2, <1>3, <1>4, <1>5, <1>6, <1>7, <1>8, <1>9, <1>10, <1>11, <1>12, <1>13, <1>14, <1>15, <1>16, <1>17, <1>18, <1>19, <1>20 DEF Next

-----------------------------------------------------------------------------
(***************************************************************************)
(* Where the mutants are.  Only three actions move a mutant: Preflight,    *)
(* Verify and VerifyFails; the last gives up the partition.                *)
(***************************************************************************)
LEMMA NextPartition ==
  TypeOK /\ Partition /\ InvalidHaveStatus /\ [Next]_vars => Partition' /\ InvalidHaveStatus'
<1> SUFFICES ASSUME TypeOK, Partition, InvalidHaveStatus, [Next]_vars
             PROVE  Partition' /\ InvalidHaveStatus'
  OBVIOUS
<1> USE DEF Partition, InvalidHaveStatus, TypeOK
<1>1. CASE StartRun
  BY <1>1 DEF StartRun
<1>2. CASE Preflight
  <2>1. PICK s \in [invalid' -> {"invalid", "error"}] :
          invStatus' = [m \in Mutants |-> IF m \in invalid' THEN s[m] ELSE Unset]
    BY <1>2 DEF Preflight
  <2>2. kept' \cup invalid' = Mutants /\ kept' \cap invalid' = {}
    BY <1>2 DEF Preflight, Sorted
  <2>3. InvalidHaveStatus'
    BY <2>1, <2>2 DEF Unset
  <2> QED BY <2>2, <2>3
<1>3. CASE Verify
  <2>1. PICK removed \in SUBSET kept :
          /\ Verified(kept, status, kept', removed, status')
          /\ AppendInvalid(removed, status')
    BY <1>3 DEF Verify
  <2>2. /\ kept' \subseteq kept /\ removed = kept \ kept' /\ invalid' = invalid \cup removed
        /\ \A m \in removed : status'[m] = "error"
    BY <2>1 DEF Verified, AppendInvalid
  <2>3. pc # "idle" /\ partial' = partial
    BY <1>3 DEF Verify, history
  <2>4. Partition'
    BY <2>2, <2>3
  <2>5. InvalidHaveStatus'
    BY <2>1, <2>2 DEF AppendInvalid, Unset
  <2> QED BY <2>4, <2>5
<1>4. CASE VerifyFails
  <2>1. Partition'
    BY <1>4 DEF VerifyFails
  <2>2. PICK removed \in SUBSET kept :
          /\ VerificationFailed(kept, status, kept', removed, status')
          /\ AppendInvalid(removed, status')
    BY <1>4 DEF VerifyFails
  <2>3. \A m \in removed : status'[m] # Unset
    BY <2>2 DEF VerificationFailed, Unset
  <2>4. InvalidHaveStatus'
    BY <2>2, <2>3 DEF AppendInvalid
  <2> QED BY <2>1, <2>4
<1>5. CASE UNCHANGED <<kept, invalid, invStatus, partial>> /\ pc # "idle"
  BY <1>5
<1>6. CASE UNCHANGED vars
  BY <1>6 DEF vars
<1>7. ASSUME Next, ~StartRun, ~Preflight, ~Verify, ~VerifyFails
      PROVE  UNCHANGED <<kept, invalid, invStatus, partial>> /\ pc # "idle"
  BY <1>7 DEF Next, history, vars, NoMoreRuns,
       Filter, ResolveCache, ReturnAllCached, CachedExternal, RunStandalone, StandaloneFails,
       SetupFails, Setup, BuildBinaries, RunBinary, ExternalDone, RunUnitTests,
       NoUnitTests, StartExternal, Finish
<1> QED
  BY <1>1, <1>2, <1>3, <1>4, <1>5, <1>6, <1>7 DEF Next

-----------------------------------------------------------------------------
(***************************************************************************)
(* What is returned.  Only the actions with a Return can disturb it; all   *)
(* others start before the return and leave the answer alone.              *)
(***************************************************************************)
LEMMA NextReturned ==
  TypeOK /\ TypeOK' /\ ReturnedHaveStatus /\ [Next]_vars => ReturnedHaveStatus'
<1> SUFFICES ASSUME TypeOK, TypeOK', ReturnedHaveStatus, [Next]_vars
             PROVE  ReturnedHaveStatus'
  OBVIOUS
<1> USE DEF ReturnedHaveStatus, answerVars
<1>1. CASE StartRun
  BY <1>1 DEF StartRun
<1>2. CASE Preflight
  BY <1>2 DEF Preflight, Return
<1>3. CASE ReturnAllCached
  BY <1>3, LookedUpFromCache, FinalizeSettles DEF ReturnAllCached, Return, TypeOK
<1>4. CASE CachedExternal
  BY <1>4, LookedUpFromCache, FinalizeSettles DEF CachedExternal, Return, TypeOK
<1>5. CASE RunStandalone
  BY <1>5 DEF RunStandalone, Return
<1>6. CASE StandaloneFails
  BY <1>6 DEF StandaloneFails, Return
<1>7. CASE SetupFails
  BY <1>7 DEF SetupFails, Return, Errors, TypeOK, Unset
<1>8. CASE VerifyFails
  BY <1>8 DEF VerifyFails, Return
<1>9. CASE ExternalDone
  BY <1>9, FinalizeSettles DEF ExternalDone, Return, TypeOK
<1>10. CASE Finish
  BY <1>10, FinalizeSettles DEF Finish, Return, TypeOK
<1>11. CASE \/ Filter \/ ResolveCache \/ Setup \/ Verify \/ BuildBinaries
           \/ RunBinary \/ RunUnitTests \/ NoUnitTests \/ StartExternal
  <2>1. UNCHANGED answerVars /\ pc # "returned"
    BY <1>11 DEF Filter, ResolveCache, Setup, Verify, BuildBinaries, RunBinary,
       RunUnitTests, NoUnitTests, StartExternal
  <2> QED BY <2>1
<1>12. CASE UNCHANGED vars \/ NoMoreRuns
  BY <1>12 DEF NoMoreRuns, vars
<1> QED
  BY <1>1, <1>2, <1>3, <1>4, <1>5, <1>6, <1>7, <1>8, <1>9, <1>10, <1>11, <1>12 DEF Next

-----------------------------------------------------------------------------
(***************************************************************************)
(* Verdicts.  The actions that run a binary add its mutants to executed;   *)
(* no other gives a mutant a verdict that neither it nor its cache entry   *)
(* had before.                                                             *)
(***************************************************************************)
LEMMA NextEarned == TypeOK /\ TypeOK' /\ Earned /\ [Next]_vars => Earned'
<1> SUFFICES ASSUME TypeOK, TypeOK', Earned, [Next]_vars
             PROVE  Earned'
  OBVIOUS
<1> USE DEF Earned, history
<1>1. CASE StartRun
  BY <1>1 DEF StartRun, Verdicts, Unset, TypeOK
<1>2. CASE Filter
  BY <1>2 DEF Filter, Verdicts, TypeOK
<1>3. CASE Preflight
  BY <1>3 DEF Preflight
<1>4. CASE ResolveCache
  BY <1>4, LookedUpFromCache DEF ResolveCache, TypeOK
<1>5. CASE ReturnAllCached
  BY <1>5, LookedUpFromCache, FinalizeSettles DEF ReturnAllCached, Verdicts, TypeOK
<1>6. CASE CachedExternal
  BY <1>6, LookedUpFromCache, FinalizeSettles DEF CachedExternal, Verdicts, TypeOK
<1>7. CASE RunStandalone
  <2>1. PICK ran \in SUBSET kept, failed \in BOOLEAN, saved \in BOOLEAN :
          /\ RanStandalone(kept, status, status', ran, failed, saved)
          /\ executed' = executed \cup ran
          /\ cache' = IF saved THEN Saved(status') ELSE cache
    BY <1>7 DEF RunStandalone
  <2>2. \A m \in Mutants : status'[m] \in Verdicts => m \in executed'
    BY <1>7, <2>1 DEF RunStandalone, Rewrites, RanStandalone
  <2>3. \A m \in Mutants : cache'[m] \in {cache[m], status'[m]}
    BY <2>1, SavedFromKept DEF TypeOK
  <2> QED BY <2>1, <2>2, <2>3
<1>8. CASE SetupFails
  BY <1>8 DEF SetupFails, Errors, Verdicts, TypeOK
<1>9. CASE Verify
  BY <1>9 DEF Verify, Rewrites, Verified, Verdicts
<1>10. CASE VerifyFails
  BY <1>10 DEF VerifyFails, Rewrites, VerificationFailed, Verdicts
<1>11. CASE RunBinary
  BY <1>11, ExternalMergeGrows DEF RunBinary, AgainstBinary, TypeOK
<1>12. CASE ExternalDone
  BY <1>12, FinalizeSettles DEF ExternalDone, Verdicts, TypeOK
<1>13. CASE RunUnitTests
  <2>1. PICK r \in [UnitIds -> RunStatuses], ran \in SUBSET UnitIds :
          /\ UnitTested(UnitIds, status, r, ran)
          /\ status' = [m \in Mutants |-> IF m \in UnitIds THEN Merged(status[m], r[m])
                                                        ELSE status[m]]
          /\ executed' = executed \cup ran
    BY <1>13 DEF RunUnitTests
  <2>2. \A m \in UnitIds \cap Mutants : Merged(status[m], r[m]) \in {status[m], r[m]}
    BY MergeGrows DEF TypeOK
  <2>3. UNCHANGED cache
    BY <1>13 DEF RunUnitTests
  <2> QED BY <2>1, <2>2, <2>3 DEF UnitTested
<1>14. CASE Finish
  BY <1>14, FinalizeSettles, SavedFromKept DEF Finish, Verdicts, TypeOK
<1>15. CASE StandaloneFails \/ Setup \/ BuildBinaries \/ NoUnitTests \/ StartExternal
  BY <1>15 DEF StandaloneFails, Setup, BuildBinaries, NoUnitTests, StartExternal
<1>16. CASE UNCHANGED vars \/ NoMoreRuns
  BY <1>16 DEF NoMoreRuns, vars
<1> QED
  BY <1>1, <1>2, <1>3, <1>4, <1>5, <1>6, <1>7, <1>8, <1>9, <1>10, <1>11, <1>12,
     <1>13, <1>14, <1>15, <1>16 DEF Next

-----------------------------------------------------------------------------
(***************************************************************************)
(* The theorems.                                                           *)
(***************************************************************************)
LEMMA InductiveInvariant == Spec => []IInv
<1>1. Init => IInv
  BY InitTypeOK DEF Init, IInv, Partition, InvalidHaveStatus, ReturnedHaveStatus, Earned,
     Verdicts, Unset
<1>2. IInv /\ [Next]_vars => IInv'
  BY NextTypeOK, NextPartition, NextReturned, NextEarned DEF IInv
<1> QED BY <1>1, <1>2, PTL DEF Spec

\* Every variable keeps its type over any number of runs: in particular a status is
\* only ever "invalid" in the copies that preflight sets aside.
THEOREM LifecycleTypeCorrect == Spec => []TypeOK
BY InductiveInvariant, PTL DEF IInv

\* Every mutant is handed back exactly once and with a status by every return of a
\* run in a module whose verification did not fail.
THEOREM EveryMutantIsReturned == Spec => []EveryMutantReturned
<1>1. IInv => EveryMutantReturned
  BY DEF IInv, TypeOK, Partition, InvalidHaveStatus, ReturnedHaveStatus, EveryMutantReturned
<1> QED BY <1>1, InductiveInvariant, PTL

\* A returned verdict, also one from the cache, is one of a mutant that was run.
THEOREM ReturnedVerdictsAreEarned == Spec => []VerdictsAreEarned
<1>1. IInv => VerdictsAreEarned
  BY DEF IInv, TypeOK, Earned, VerdictsAreEarned
<1> QED BY <1>1, InductiveInvariant, PTL

\* No step after the verification weakens the status of a kept mutant.
THEOREM StatusesOnlyStrengthen == Spec => StatusNeverWeakens
<1>1. ASSUME IInv, [Next]_vars, AfterVerification
      PROVE  \A m \in kept : statusRank[status'[m]] >= statusRank[status[m]]
  <2> SUFFICES ASSUME NEW m \in kept
               PROVE  statusRank[status'[m]] >= statusRank[status[m]]
    OBVIOUS
  <2>t. /\ m \in Mutants /\ status \in [Mutants -> RunStatuses \cup {Unset}]
        /\ status[m] \in RunStatuses \cup {Unset}
    BY <1>1 DEF IInv, TypeOK
  <2>s. statusRank[status[m]] >= statusRank[status[m]]
    BY <2>t, RanksAreNumbers
  <2>f. ASSUME status' = Finalize(status)
        PROVE  statusRank[status'[m]] >= statusRank[status[m]]
    <3>1. CASE status[m] = Unset
      <4>1. status'[m] = "untested"
        BY <2>t, <2>f, <3>1 DEF Finalize
      <4> QED BY <3>1, <4>1, Ranks
    <3>2. CASE status[m] # Unset
      <4>1. status'[m] = status[m]
        BY <2>t, <2>f, <3>2, FinalizeSettles
      <4> QED BY <4>1, <2>s
    <3> QED BY <3>1, <3>2
  <2>1. CASE RunBinary
    <3> DEFINE alive == {x \in targets : status[x] # "killed"}
    <3>1. PICK r \in [alive -> RunStatuses] :
            status' = [x \in Mutants |-> IF x \in alive THEN ExternalMerged(status[x], r[x])
                                                        ELSE status[x]]
      BY <2>1 DEF RunBinary, AgainstBinary
    <3>2. CASE m \in alive
      BY <2>t, <3>1, <3>2, ExternalMergeGrows
    <3>3. CASE m \notin alive
      BY <2>t, <2>s, <3>1, <3>3
    <3> QED BY <3>2, <3>3
  <2>2. CASE RunUnitTests
    <3>1. PICK r \in [UnitIds -> RunStatuses] :
            status' = [x \in Mutants |-> IF x \in UnitIds THEN Merged(status[x], r[x])
                                                          ELSE status[x]]
      BY <2>2 DEF RunUnitTests
    <3>2. CASE m \in UnitIds
      BY <2>t, <3>1, <3>2, MergeGrows
    <3>3. CASE m \notin UnitIds
      BY <2>t, <2>s, <3>1, <3>3
    <3> QED BY <3>2, <3>3
  <2>3. CASE ExternalDone
    BY <2>3, <2>f, <2>s DEF ExternalDone
  <2>4. CASE Finish
    BY <2>4, <2>f DEF Finish
  <2>5. CASE BuildBinaries \/ NoUnitTests \/ StartExternal \/ UNCHANGED vars
    BY <2>5, <2>s DEF BuildBinaries, NoUnitTests, StartExternal, vars
  <2> QED
    BY <1>1, <2>1, <2>2, <2>3, <2>4, <2>5
    DEF AfterVerification, Next, StartRun, Filter, Preflight, ResolveCache, ReturnAllCached,
        CachedExternal, RunStandalone, StandaloneFails, SetupFails, Setup, Verify, VerifyFails,
        NoMoreRuns
<1> QED BY <1>1, InductiveInvariant, PTL DEF Spec, StatusNeverWeakens

\* An entry is only written to the cache with a status that the same call returns
\* for the same mutant, without an error.
THEOREM CacheHoldsWhatWasReturned == Spec => SavedAsReturned
<1>1. ASSUME IInv, [Next]_vars
      PROVE  \A m \in Mutants : cache'[m] # cache[m] =>
               /\ pc' = "returned" /\ answer' \in {"both", "kept"} /\ ~err'
               /\ m \in kept'
               /\ cache'[m] = status'[m]
  <2>1. status \in [Mutants -> RunStatuses \cup {Unset}]
        /\ cache \in [Mutants -> RunStatuses \cup {Unset}]
        /\ status' \in [Mutants -> RunStatuses \cup {Unset}]
    BY <1>1, NextTypeOK DEF IInv, TypeOK
  <2>2. CASE RunStandalone
    <3>1. PICK failed \in BOOLEAN, saved \in BOOLEAN :
            /\ saved = ~failed
            /\ cache' = IF saved THEN Saved(status') ELSE cache
            /\ Return("kept", failed)
      BY <2>2 DEF RunStandalone, RanStandalone
    <3> QED BY <2>1, <2>2, <3>1, SavedFromKept DEF RunStandalone, Return
  <2>3. CASE Finish
    BY <2>1, <2>3, SavedFromKept DEF Finish, Return
  <2>4. CASE UNCHANGED cache
    BY <2>4
  <2> QED
    BY <1>1, <2>2, <2>3, <2>4
    DEF Next, vars, history, options, StartRun, Filter, Preflight, ResolveCache, ReturnAllCached,
        CachedExternal, StandaloneFails, SetupFails, Setup, Verify, VerifyFails, BuildBinaries,
        RunBinary, ExternalDone, RunUnitTests, NoUnitTests, StartExternal, NoMoreRuns
<1> QED BY <1>1, InductiveInvariant, PTL DEF Spec, SavedAsReturned

=============================================================================
