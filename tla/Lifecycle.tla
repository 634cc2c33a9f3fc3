----------------------------- MODULE Lifecycle -----------------------------
(***************************************************************************)
(* GenerateAndRunSchemata: the phases every mutant goes through, the       *)
(* statuses each phase writes, and what each of its returns hands back.    *)
(* Runs follow each other and share the result cache; the source files do  *)
(* not change between them, the options and the selected tests may.        *)
(*                                                                         *)
(* The parts that have a module of their own are steps here, each with any *)
(* outcome that it promises (Promises, kept by the modules of the parts):  *)
(* RunPreflight (Preflight), the verification (SchemataVerify), the unit   *)
(* phase (Executor) and the standalone run (Standalone).                   *)
(***************************************************************************)
EXTENDS Naturals, FiniteSets, Promises

CONSTANTS
  Mutants,      \* the mutants of the sites, the same in every run
  MaxBinaries,  \* bound on the binaries the external suites build to
  MaxRuns       \* bound on the number of runs

ASSUME LifecycleAssumption ==
  /\ IsFiniteSet(Mutants)
  /\ Mutants # {}
  /\ MaxBinaries \in Nat
  /\ MaxRuns \in Nat \ {0}

VARIABLES
  pc,          \* the phase of the current run
  runs,        \* runs started
  mode,        \* "workspace" if there is a go.mod or a go.work, else "standalone"
  unitTests,   \* unitTestsEnabled
  external,    \* "off", "after" (any run mode but before_unit) or "before"
  cacheOn,     \* a cache was given
  cache,       \* its entries: a status, or Unset for none
  kept,        \* the slice mutants
  status,      \* Mutant.Status
  invalid,     \* the slice invalidMutants: no mutant is in it twice
  invStatus,   \* the statuses of these copies
  phase,       \* which external phase runs: "none", "before", "after" or "cached"
  targets,     \* its targets
  binaries,    \* its binaries still to be run
  answer,      \* the slices returned: "none", "both", "kept", "invalid" or "nil"
  err,         \* an error is returned
  executed,    \* history: the mutants a test binary was run against, in any run
  partial      \* history: the verification of this run returned an error

options == <<mode, unitTests, external, cacheOn>>
externalVars == <<phase, targets, binaries>>
answerVars == <<answer, err>>
history == <<executed, partial>>
vars == <<pc, runs, mode, unitTests, external, cacheOn, cache, kept, status, invalid,
          invStatus, phase, targets, binaries, answer, err, executed, partial>>

\* The statuses that make an external phase after the unit tests run a mutant.
Unsettled == {"survived", Unset, "untested", "error"}

Finalize(st) == [m \in Mutants |-> IF m \in kept /\ st[m] = Unset THEN "untested" ELSE st[m]]

\* setMutantErrors
Errors == [m \in Mutants |-> IF m \in kept THEN "error" ELSE status[m]]

\* MUTANT: the mutants that are not kept are saved, too.
SavedWithInvalid(st) ==
  IF cacheOn THEN [m \in Mutants |-> IF st[m] # Unset THEN st[m] ELSE cache[m]] ELSE cache

\* SaveCache: the entries of the mutants that are kept.
Saved(st) ==
  IF cacheOn THEN [m \in Mutants |-> IF m \in kept THEN st[m] ELSE cache[m]] ELSE cache

\* resolveSuitePaths and buildExternalSuiteBinaries: packages that cannot be
\* listed or built are left out, so that any number of binaries may be there.
BinaryCounts == 0 .. MaxBinaries

\* runMutantsAgainstBinary: each of the mutants is run once, at most concurrent
\* at a time, and the results are looked at when all are there.
AgainstBinary(S) == [S -> RunStatuses]

\* A call gives the mutants S any statuses, the others keep theirs.
Rewrites(S) ==
  /\ status' \in [Mutants -> RunStatuses \cup {Unset}]
  /\ \A m \in Mutants \ S : status'[m] = status[m]

Return(what, failed) == pc' = "returned" /\ answer' = what /\ err' = failed

-----------------------------------------------------------------------------
\* No run yet, and no cache.
Init ==
  /\ pc = "idle"
  /\ runs = 0
  /\ mode \in {"workspace", "standalone"}
  /\ unitTests = TRUE /\ external = "off" /\ cacheOn = FALSE
  /\ cache = [m \in Mutants |-> Unset]
  /\ kept = {} /\ status = [m \in Mutants |-> Unset]
  /\ invalid = {} /\ invStatus = [m \in Mutants |-> Unset]
  /\ phase = "none" /\ targets = {} /\ binaries = 0
  /\ answer = "none" /\ err = FALSE
  /\ executed = {} /\ partial = FALSE

\* The command is run, with any options: GenerateMutants finds the mutants again;
\* only the cache stays.
StartRun ==
  /\ pc \in {"idle", "returned"}
  /\ runs < MaxRuns
  /\ runs' = runs + 1
  /\ pc' = "filter"
  /\ unitTests' \in BOOLEAN
  /\ external' \in {"off", "after", "before"}
  /\ cacheOn' \in BOOLEAN
  /\ kept' = Mutants /\ status' = [m \in Mutants |-> Unset]
  /\ invalid' = {} /\ invStatus' = [m \in Mutants |-> Unset]
  /\ phase' = "none" /\ targets' = {} /\ binaries' = 0
  /\ answer' = "none" /\ err' = FALSE
  /\ partial' = FALSE
  /\ UNCHANGED <<mode, cache, executed>>

\* MUTANT: the mutants without tests are marked as invalid.
FilterInvalid ==
  /\ pc = "filter"
  /\ \E skip \in SUBSET Mutants :
       status' = [m \in Mutants |-> IF m \in skip THEN "invalid" ELSE status[m]]
  /\ pc' = "preflight"
  /\ UNCHANGED <<runs, options, cache, kept, invalid, invStatus, externalVars, answerVars, history>>

\* MUTANT: what the README says of the mutants outside of the selected tests: they
\* are marked as survived.
FilterSurvived ==
  /\ pc = "filter"
  /\ \E skip \in SUBSET Mutants :
       status' = [m \in Mutants |-> IF m \in skip THEN "survived" ELSE status[m]]
  /\ pc' = "preflight"
  /\ UNCHANGED <<runs, options, cache, kept, invalid, invStatus, externalVars, answerVars, history>>

\* filterMutantsByTestPackages or filterMutantsWithoutTests: the mutants of any
\* packages, those without (selected) tests, or of none.
Filter ==
  /\ pc = "filter"
  /\ \E skip \in SUBSET Mutants :
       status' = [m \in Mutants |-> IF m \in skip THEN "untested" ELSE status[m]]
  /\ pc' = "preflight"
  /\ UNCHANGED <<runs, options, cache, kept, invalid, invStatus, externalVars, answerVars, history>>

\* RunPreflight splits the mutants; copies of the invalid ones are set aside.
Preflight ==
  /\ pc = "preflight"
  /\ kept' \in SUBSET Mutants /\ invalid' \in SUBSET Mutants
  /\ Sorted(Mutants, kept', invalid')
  /\ \E s \in [invalid' -> {"invalid", "error"}] :
       invStatus' = [m \in Mutants |-> IF m \in invalid' THEN s[m] ELSE Unset]
  /\ IF kept' = {} THEN Return("invalid", FALSE) ELSE pc' = "cache" /\ UNCHANGED answerVars
  /\ UNCHANGED <<runs, options, cache, status, externalVars, history>>

\* ResolveCache: an entry replaces whatever status the mutant has.
LookedUp ==
  [m \in Mutants |-> IF cacheOn /\ m \in kept /\ cache[m] # Unset THEN cache[m] ELSE status[m]]

AllCached == cacheOn /\ \A m \in kept : cache[m] # Unset

ResolveCache ==
  /\ pc = "cache"
  /\ ~AllCached
  /\ status' = LookedUp
  /\ pc' = IF mode = "standalone" THEN "standalone" ELSE "setup"
  /\ UNCHANGED <<runs, options, cache, kept, invalid, invStatus, externalVars, answerVars, history>>

ReturnAllCached ==
  /\ pc = "cache"
  /\ AllCached
  /\ external = "off"
  /\ status' = Finalize(LookedUp)
  /\ Return("both", FALSE)
  /\ UNCHANGED <<runs, options, cache, kept, invalid, invStatus, externalVars, history>>

\* With external suites an all-cached run still runs these: unless there is no
\* module, the workspace cannot be made (an error), or the suites not be copied.
CachedExternal ==
  /\ pc = "cache"
  /\ AllCached
  /\ external # "off"
  /\ \/ /\ status' = Finalize(LookedUp)
        /\ \E failed \in BOOLEAN : Return("both", failed)
        /\ UNCHANGED externalVars
     \/ /\ status' = LookedUp
        /\ phase' = "cached"
        /\ binaries' \in BinaryCounts
        /\ targets' = {m \in kept : external = "before" \/ status'[m] \in Unsettled}
        /\ pc' = "external"
        /\ UNCHANGED answerVars
  /\ UNCHANGED <<runs, options, cache, kept, invalid, invStatus, history>>

(***************************************************************************)
(* runStandalone: only mutants without a status are run; the cache is      *)
(* written when no package failed; invalidMutants is not given to it, and  *)
(* the caller returns what it returns.                                     *)
(***************************************************************************)
RunStandalone ==
  /\ pc = "standalone"
  /\ Rewrites(kept)
  /\ \E ran \in SUBSET kept : \E failed, saved \in BOOLEAN :
       /\ RanStandalone(kept, status, status', ran, failed, saved)
       /\ executed' = executed \cup ran
       /\ cache' = IF saved THEN Saved(status') ELSE cache
       /\ Return("kept", failed)
  /\ UNCHANGED <<runs, options, kept, invalid, invStatus, externalVars, partial>>

\* A temporary directory cannot be made: nil is returned.
StandaloneFails ==
  /\ pc = "standalone"
  /\ Return("nil", TRUE)
  /\ UNCHANGED <<runs, options, cache, kept, status, invalid, invStatus, externalVars, history>>

(***************************************************************************)
(* The module workspace.                                                   *)
(***************************************************************************)
SetupFails ==
  /\ pc = "setup"
  /\ status' = Errors
  /\ Return("both", TRUE)
  /\ UNCHANGED <<runs, options, cache, kept, invalid, invStatus, externalVars, history>>

Setup ==
  /\ pc = "setup"
  /\ pc' = "verify"
  /\ UNCHANGED <<runs, options, cache, kept, status, invalid, invStatus, externalVars, answerVars, history>>

\* invalidMutants = append(invalidMutants, S...), with the statuses st
AppendInvalid(S, st) ==
  /\ invalid' = invalid \cup S
  /\ invStatus' = [m \in Mutants |-> IF m \in S THEN st[m] ELSE invStatus[m]]

\* MUTANT: the mutants that verification has removed are not reported.
VerifyForgets ==
  /\ pc = "verify"
  /\ \E bad \in SUBSET kept : kept' = kept \ bad
  /\ pc' = "binaries"
  /\ UNCHANGED <<runs, options, cache, status, invalid, invStatus, externalVars, answerVars, history>>

\* verifyAndCleanSchemata without an error.
Verify ==
  /\ pc = "verify"
  /\ Rewrites(kept)
  /\ kept' \in SUBSET kept
  /\ \E removed \in SUBSET kept :
       /\ Verified(kept, status, kept', removed, status')
       /\ AppendInvalid(removed, status')
  /\ pc' = "binaries"
  /\ UNCHANGED <<runs, options, cache, externalVars, answerVars, history>>

\* ... with one: a run with nothing left to do returns it, any other goes on.
VerifyFails ==
  /\ pc = "verify"
  /\ Rewrites(kept)
  /\ kept' \in SUBSET kept
  /\ \E removed \in SUBSET kept :
       /\ VerificationFailed(kept, status, kept', removed, status')
       /\ AppendInvalid(removed, status')
  /\ partial' = TRUE
  /\ IF kept' = {} THEN Return("invalid", TRUE) ELSE pc' = "binaries" /\ UNCHANGED answerVars
  /\ UNCHANGED <<runs, options, cache, externalVars, executed>>

\* The binaries of the external suites; none if they cannot be copied or built.
BuildBinaries ==
  /\ pc = "binaries"
  /\ binaries' \in IF external = "off" THEN {0} ELSE BinaryCounts
  /\ IF external = "before" /\ binaries' > 0
     THEN pc' = "external" /\ phase' = "before" /\ targets' = kept
     ELSE pc' = "unit" /\ UNCHANGED <<phase, targets>>
  /\ UNCHANGED <<runs, options, cache, kept, status, invalid, invStatus, answerVars, history>>

\* How a result of a binary changes a status: runExternalPhaseWithBinaries, or
\* runExternalPhase when all mutants are cached.
ExternalMerged(current, incoming) ==
  IF phase # "cached" THEN Merged(current, incoming)
  ELSE IF incoming = "killed" \/ (incoming = "survived" /\ current \in {Unset, "untested"})
       THEN incoming ELSE current

\* One binary, against the targets that are not killed.
RunBinary ==
  /\ pc = "external"
  /\ binaries > 0
  /\ binaries' = binaries - 1
  /\ LET stillAlive == {m \in targets : status[m] # "killed"}
     IN \E r \in AgainstBinary(stillAlive) :
          /\ status' = [m \in Mutants |-> IF m \in stillAlive THEN ExternalMerged(status[m], r[m])
                                                              ELSE status[m]]
          /\ executed' = executed \cup stillAlive
  /\ UNCHANGED <<pc, runs, options, cache, kept, invalid, invStatus, phase, targets, answerVars, partial>>

ExternalDone ==
  /\ pc = "external"
  /\ binaries = 0
  /\ \/ phase = "before" /\ pc' = "unit" /\ UNCHANGED <<status, answerVars>>
     \/ phase = "after" /\ pc' = "finish" /\ UNCHANGED <<status, answerVars>>
     \/ phase = "cached" /\ status' = Finalize(status) /\ Return("both", FALSE)
  /\ UNCHANGED <<runs, options, cache, kept, invalid, invStatus, externalVars, history>>

\* The IDs given to compileAndRunPackages: filterKilledFromPkgMap.
UnitIds == IF phase = "before" THEN {m \in kept : status[m] # "killed"} ELSE kept

\* compileAndRunPackages, whose results collectResults merges in.
RunUnitTests ==
  /\ pc = "unit"
  /\ unitTests
  /\ \E r \in [UnitIds -> RunStatuses] : \E ran \in SUBSET UnitIds :
       /\ UnitTested(UnitIds, status, r, ran)
       /\ status' = [m \in Mutants |-> IF m \in UnitIds THEN Merged(status[m], r[m]) ELSE status[m]]
       /\ executed' = executed \cup ran
  /\ pc' = "unitDone"
  /\ UNCHANGED <<runs, options, cache, kept, invalid, invStatus, externalVars, answerVars, partial>>

NoUnitTests ==
  /\ pc = "unit"
  /\ ~unitTests
  /\ pc' = "unitDone"
  /\ UNCHANGED <<runs, options, cache, kept, status, invalid, invStatus, externalVars, answerVars, history>>

\* The external suites after the unit tests, unless they ran before.
StartExternal ==
  /\ pc = "unitDone"
  /\ IF phase = "none" /\ binaries > 0
     THEN /\ pc' = "external"
          /\ phase' = "after"
          /\ targets' = {m \in kept : status[m] \in Unsettled}
     ELSE pc' = "finish" /\ UNCHANGED <<phase, targets>>
  /\ UNCHANGED <<runs, options, cache, kept, status, invalid, invStatus, binaries, answerVars, history>>

\* finalizeMutants, SaveCache and the return.
Finish ==
  /\ pc = "finish"
  /\ status' = Finalize(status)
  /\ cache' = Saved(status')
  /\ Return("both", FALSE)
  /\ UNCHANGED <<runs, options, kept, invalid, invStatus, externalVars, history>>

NoMoreRuns == pc = "returned" /\ runs = MaxRuns /\ UNCHANGED vars

Next ==
  \/ StartRun
  \/ Filter
  \/ Preflight
  \/ ResolveCache
  \/ ReturnAllCached
  \/ CachedExternal
  \/ RunStandalone
  \/ StandaloneFails
  \/ SetupFails
  \/ Setup
  \/ Verify
  \/ VerifyFails
  \/ BuildBinaries
  \/ RunBinary
  \/ ExternalDone
  \/ RunUnitTests
  \/ NoUnitTests
  \/ StartExternal
  \/ Finish
  \/ NoMoreRuns

Spec == Init /\ [][Next]_vars

-----------------------------------------------------------------------------
(***************************************************************************)
(* Properties.                                                             *)
(***************************************************************************)
TypeOK ==
  /\ pc \in {"idle", "filter", "preflight", "cache", "standalone", "setup", "verify",
             "binaries", "external", "unit", "unitDone", "finish", "returned"}
  /\ runs \in 0 .. MaxRuns
  /\ mode \in {"workspace", "standalone"}
  /\ unitTests \in BOOLEAN
  /\ external \in {"off", "after", "before"}
  /\ cacheOn \in BOOLEAN
  /\ cache \in [Mutants -> RunStatuses \cup {Unset}]
  /\ kept \in SUBSET Mutants
  /\ status \in [Mutants -> RunStatuses \cup {Unset}]
  /\ invalid \in SUBSET Mutants
  /\ invStatus \in [Mutants -> Statuses]
  /\ phase \in {"none", "before", "after", "cached"}
  /\ targets \in SUBSET Mutants
  /\ binaries \in 0 .. MaxBinaries
  /\ answer \in {"none", "both", "kept", "invalid", "nil"}
  /\ err \in BOOLEAN
  /\ executed \in SUBSET Mutants
  /\ partial \in BOOLEAN

\* Whichever return a run in a module takes, with an error or without, every
\* mutant that was generated is handed back exactly once and has a status; unless
\* the verification failed, whose two results overlap.
EveryMutantReturned ==
  pc = "returned" /\ answer \in {"both", "invalid"} /\ ~partial =>
    /\ kept \cup invalid = Mutants
    /\ kept \cap invalid = {}
    /\ answer = "invalid" => kept = {}
    /\ \A m \in kept : status[m] # Unset
    /\ \A m \in invalid : invStatus[m] # Unset

\* From the end of the verification on, no later phase weakens what an earlier one
\* has found, in whatever order unit tests and external suites run: a kill, by a
\* test or in the cache, stays a kill, and a run is not undone by a skip.
AfterVerification == pc \in {"binaries", "external", "unit", "unitDone", "finish"}

StatusNeverWeakens ==
  [][AfterVerification =>
       \A m \in kept : statusRank[status'[m]] >= statusRank[status[m]]]_vars

\* The cache only gets statuses that the same call returns for the same mutants,
\* and only when it returns without an error.
SavedAsReturned ==
  [][\A m \in Mutants : cache'[m] # cache[m] =>
       /\ pc' = "returned" /\ answer' \in {"both", "kept"} /\ ~err'
       /\ m \in kept'
       /\ cache'[m] = status'[m]]_vars

\* A returned mutant that is killed, survived or timed out has been run at some
\* time, in this run or in the one that its cache entry is from: no filter, merge
\* or default turns into such a verdict.
VerdictsAreEarned ==
  pc = "returned" => \A m \in kept : status[m] \in Verdicts => m \in executed

=============================================================================
