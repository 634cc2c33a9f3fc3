# Gorgon: a verification project

Gorgon is a mutation-testing tool for Go. It finds mutation sites in a source tree, generates mutants,
inlines all mutants of a file into one transformed copy (the *schemata*, guarded by `if activeMutantID ==
N`), compiles each package's test binary once, and runs that binary once per mutant. This directory holds
TLA+ models of it, from the configuration to the gates that accept a run, the TLC runs that check them on
small instances, and theorems about them checked by TLAPS.

All source references are to files under `src/`; `executor.go`, `schemata.go` and so on are in
`src/internal/core/`, packages like `engine/` in `src/internal/`.

## 1. The system

| Part | State it keeps | Operations | Hard behaviour |
|---|---|---|---|
| Runner (`runner/runner.go`) | one run | calls all that follows in order | when the policy applies; stale directories of other processes |
| Sub-configurations, policy (`subconfig/`, `orgpolicy/`) | chain of configuration files | resolve operators, filters, thresholds; floors, locks | precedence |
| Sites and suppressions (`engine/`, `suppressions/`) | sites, ignore directives | traverse, filter, write back | two representations kept in step while people edit both |
| Diff (`diff/diff.go`) | none | lines that a diff adds | counting lines |
| Run lifecycle (`schemata.go` `GenerateAndRunSchemata`, `mutants.go`) | the slice of mutants and their `Status`, `invalidMutants`, cache entries | filter, preflight, cache lookup, verification, unit phase, external phase, finalise, save | twelve returns, each must hand back every mutant once; the phases overwrite each other's statuses |
| Preflight (`preflight.go`) | valid and invalid mutants | three levels of checks, bisection of a failing group | two-way partition of the mutants |
| Transformation (`transform.go`, `schemata_nodes/`) | syntax trees, helper files | inline mutants, write helpers | nodes are looked up by positions that replacements take away; silent restore |
| Schemata verification (`schemata.go` `verifyAndCleanSchemata`) | the files of the workspace, kept and removed lists | build, tight scan, bisect, quarantine, re-apply | it edits the workspace while it searches; every step can fail; one overall deadline |
| Executor, module workspace (`executor.go` `compileAndRunPackages`) | two errgroups, an unbuffered channel, the collected results | compile a package, report without running, run a mutant | nested bounded groups and a rendezvous channel: deadlock, send after close, double report |
| Executor, standalone (`schemata.go` `runStandalone`, `executor.go` `runStandalonePackage`) | one errgroup, a cancellable context, statuses written in place | the same per package, with failures | cancellation in the middle of other packages' runs; early return without waiting |
| External suites (`executor.go`, `schemata.go`) | test binaries of other packages | build once, run the surviving mutants | a second source of statuses, before or after the unit phase |
| Cache (`cache/cache.go`), baseline (`baseline/baseline.go`) | two JSON files | load, look up, save | several processes, crashes, stale entries |
| Reporter and gates (`reporter/`) | statistics, score | report, thresholds, baseline check | order of saving and comparing |
| Workspace (`workspace.go`, `gowork/`) | a temporary copy of the module(s) | setup, apply, clean up | goroutines that outlive an early return |
| Operators, formats, CLI, logger, badge | none | pure functions | none |

`Run` reads the configuration, lets the engine traverse the targets, filters the sites, and calls
`GenerateAndRunSchemata`, which calls the preflight, the cache, the workspace, the verification and one of
the executors; the executors hand results back through a channel (module workspace) or write them into the
mutants in place (standalone). The report and the gates read the returned slice; after a run without an
error the comments of the sources are merged into the configuration file. Nothing else is shared between
components; between processes the cache, the baseline and the system's temporary directory are.

What makes each part correct: every mutant gets exactly one verdict and none is lost or reported twice
(executor, verification, lifecycle); a verdict about behaviour comes from a run that took place (executor,
lifecycle); a failure or a cancellation does not turn into a verdict or a cache entry (standalone); the
search for the mutants that break a build finds them, blames no more than its errors allow, and ends
(verification, preflight); a mutant is inlined at one place, and found whatever was replaced before it
(transformation); the goroutines neither deadlock nor leak (both executors); what is excluded or suppressed
stays so, and a subtree's settings hold in it (selection); the stores survive crashes, the baseline is a
ratchet, and no run is accepted below its bar (gates).

## 2. Modules

| Module | Models | State and actions |
|---|---|---|
| `MutantStatus` | `Mutant.Status`, `classifyVerboseRun`, `statusRank`, `shouldUpdate` | pure definitions used by all others |
| `Promises` | what `RunPreflight`, `verifyAndCleanSchemata`, `compileAndRunPackages` and `runStandalone` promise their caller | relations between what a call is given and what it returns: the actions of `Lifecycle`, and `PromiseKept` in the module of each part |
| `MutantRun` | the promise of a test run: each mutant settled once, return when all are | abstract specification |
| `Executor` | `compileAndRunPackages` | program counters of the caller, of each package's worker and of each mutant's test goroutine; the collector's hand; an action per statement that another goroutine can see |
| `Standalone` | `runStandalone`, `runStandalonePackage`, `runMutantsConcurrent` | as `Executor`, plus the cancelled context and the statuses written in place |
| `SchemataVerify` | `verifyAndCleanSchemata` and its helpers | the content of each file (`embedded`), the helper files, the kept and removed lists, an explicit stack for the recursive bisection; an action per build or per branch |
| `Schemata` | `applySchemataToAST`, the handlers, the walk over loop variables | the node visited next and, per node, the mutants its replacement chooses between; an action per visit, one for the rest |
| `Preflight` | `RunPreflight` with its three levels and `bisectMutants` | the slices as counts per mutant, the calls of each file's bisection to come; an action per file of level 2, per start and end of a goroutine, per call of the bisection |
| `Lifecycle` | `GenerateAndRunSchemata`, `ResolveCache`, `SaveCache`, the external phases | the kept and the invalid mutants with their statuses, the cache, the slices returned; an action per phase and per return, over several runs |
| `Configuration` | `subconfig.Resolver`, `orgpolicy.Apply`, `ParseOperators`, `dir_rules` | pure definitions used by the next two |
| `Selection` | `Run` up to the mutants, `engine.Traverse`, `FilterSites`, `diff`, `GenerateMutants`, `SyncSuppressions` | suppressions in the configuration file and in the sources, the engine's directives and sites; an action per file traversed, per phase, and per edit |
| `Gates` | `cache.Load`/`Save`, `baseline.Save`/`CheckRegression`, `reporter.Report`, `cleanStaleTempDirs` | per process the point of `Run` it is at, the two files and the inodes behind the second; an action per system call |
| `MC*` | instances for TLC | values of the constants only |
| `*Proofs` | the theorems about the module of that name | |

Conventions. An action is as large as the code lets other goroutines or processes see: everything between
two sends, two waits or two system calls. Definitions commented `MUTANT` are plausible bugs; none is part of
a specification. `PROJECT.json` names for each property the mutated definition that must break it.

### Executor
A worker's position (`wpc`) says which of its loops it is in, `todo[p]` which IDs are left in it;
`testGroup.Go` (`SpawnTest`) needs a free slot of `testGroup`, `compileGroup.Go` (`SpawnPackage`) one of
`compileGroup`. A send is a rendezvous: it needs the collector to be waiting (`hand` empty). A test run is
two steps, the process and the send. What is observed of a process is any member of `Observations`,
classified by the code's rules. What `go list`, `go test -c` and `stat` answer is any answer. Times are left
out, except that a run may end at its hard deadline. `attributeCompileErrors` is modelled by what it does
here: this executor is built with the workspace as its project root, so it looks for spans in files without
schemata, and every compile error is attributed to all mutants of the package.

### Standalone
`Prepare` may fail and cancels the context; from then on every `go` command and every test process may be
killed at any point, and new work sees the context. `MkdirFails` is the return that does not wait. `ran`
and `cut` are history variables: the mutants a process was started for, and those whose process was killed
by the cancellation.

### SchemataVerify
A *conflict* is a compile error that is reported at a file when all mutants it needs are inlined. These may
be in the file, in others of its package or in a package that it imports, as may the cause of an error in a
test file, which no mutant is in; a conflict that needs none is an error of its own. The compiler reports
every active conflict, except in packages that cannot be loaded or that import a broken package. The tight
scan finds any of the mutants inlined in a failing file (which are within five lines of the error is
layout). The bisection is the code's recursion with an explicit stack, in the code's order; the failing
files are taken in any order (a Go map). `Init` chooses in `faults` what may go wrong in this call: nothing,
or all of `FaultKinds` (failing reads and writes, files that cannot be formatted, which `ApplySchemataToAST`
silently restores, and the expiry of the 120 seconds).

Whose errors a bisection sees is where it goes wrong: a build reports at the searched file also what mutants
of other files cause. `Guilty` mutants break their file whatever else is in it; `Suspect` are those for
which the file has an error that needs no other mutant of the file. `BisectionFindsCulprits` says that all
of the first and only the second are blamed; a suspect may be innocent (section 6).

### Schemata
The tree is a constant: the parent of each node in post-order, its sort as far as the handlers tell sorts
apart, and the node at which its first token is. `Key` is `GetNodePosition` with the node's type. A
replacement has no position, so every node that began with the replaced one's first token has none from then
on (`Lost`); chained calls share a key from the start. `plan` is chosen at `Init`: where each mutant is,
what its operator yields there, and at which of the nodes with its key it yields nothing. `Guarded` puts the
handlers' rules in one place, and what `isValidReplacement` and the type of a field (`Typed`: `safeReplace`
recovers from the panic) refuse. `HandleReturnStmt` would return a single mutant that is not a return with a
result as it is (`schemata_nodes/handlers.go:422`); no operator yields one there, since `ApplyOperator`
passes no parent and `early_return_removal` needs one, so that has no counterpart. `Finish` is the rest: the
walk that assigns the variables of emptied loops to `_` and the write, a silent restore, or an error. Types
of closures and text are left out: what they do to a build is a conflict of `SchemataVerify`.

### Preflight
Level 1 may reject any mutants, level 2 any mutants of a file, and of those it leaves either none or, if
there are two or more, all of them. Level 3 runs at most `Slots` goroutines. What the type checker rejects,
beyond the errors of the unmodified file, is a family of *conflicts*: a set of mutants fails when it
includes one (so with a mutant, every set that holds it fails, and a set may fail of which each half
passes). A panic of the checker counts as a failure: the code treats both alike. The groups are maps, so
files are taken in any order; the bisection of a file goes left to right. A file of `Vanishing` may have
become unreadable since level 2, and its mutants then pass unchecked.

### Lifecycle
The modules above are steps of this one: `Preflight`, `Verify`, `VerifyFails`, `RunUnitTests` and
`RunStandalone` take any result that `Promises` allows (`Sorted`, `Verified`, `VerificationFailed`,
`UnitTested`, `RanStandalone`), and each of these modules proves that it returns no other (`PromiseKept`).
The one that does not wait, `runStandalone` without a directory, is `StandaloneFails`.
`invalidMutants` holds copies, so it has statuses of its own (`invStatus`). The external suites are
`BinaryCounts` binaries, one at a time; `AgainstBinary` is one of them run for each mutant. A run starts
with `StartRun`: the source is the same, so are the mutants; options, test selection and the use of the
cache may change. The error branch after `compileAndRunPackages` (`schemata.go:344`) and the one after
`buildPkgMap` (`schemata.go:235`) are not modelled because they cannot be taken: no function given to
`testGroup` returns an error, and a path that `buildPkgMap` cannot resolve has made `applySchemata` fail
before. `executed` and `partial` are history variables; no action reads them.

### Configuration
A tree of directories is given by `Above`. A list of operators is a set of names, of operators, of
categories, `"all"` and `"typo"` (any that is not known); the root's list expands a category
(`GetCategory`), the resolver takes it for an unknown name, as the code does. A list of patterns is the set
of what it matches; a rule of `dir_rules` names a directory or a file. `chain` is the levels that count for
a file in the modes merge, replace and isolate; the effective operators, threshold, filters and rules are
folds over it in the code, and here the deepest level that says something, or the union. Locks empty a
level's settings before all that, as `ApplyToSubConfig` does.

### Selection
A node is a place in a file where operators apply; `KeyOf` is what `GenerateMutants` tells nodes apart by.
`Start` does what `Run` does before the traversal, in its order: operators are parsed first, then the policy
changes the configuration. `Traversed` follows the engine's three ways to find files (one file, packages
below a directory without a `go.mod`, modules). The targets are traversed one after the other (`InTurn`);
`ProcessFile` is one file of one target by the goroutine of its package, so the files of a target come in
any order, and one that two targets cover is read twice, maybe with other comments. Files that a build
constraint leaves out of a module (`constrained`) are not found by the third way, but by the other two. A
diff is a sequence of hunks, whose lines are told apart by what they begin with (`Kinds`); `parse` counts
along them as the code does, line by line. `FinishAndSync` reads the configuration file again, merges what
the run has collected, and writes it. People (`Edit`) add entries and add or remove comments at any step.
`began` and `read` are history variables.

### Gates
A process goes through `loadCache`, `makeWorkspace`, `tests`, the two system calls of `Cache.Save`, those of
`baseline.Save`, the comparison and the gate. What its tests find is any of a set of results per file; an
error of `GenerateAndRunSchemata` leaves any result, since mutants come back with it. The baseline's names
point to inodes, so that a process may write a temporary file that another has renamed. A write over what
somebody else wrote meanwhile is whole or `Torn`. Every system call may fail, a full disk may cut off a
write, and `Crash` may happen at any point. Scores are whole per cent. `met`, `cut` and `saved` are history
variables.

## 3. Runs

| Run | Instance | What it shows |
|---|---|---|
| `executor` | 2 packages, 3 mutants, limit 2, a mutant may come as untested | one result per mutant, no send after close, verdicts only from runs, termination, refinement of `MutantRun` |
| `standalone` | 3 packages, 4 mutants, limit 2 | statuses final, nothing left to finalise, interrupted runs not cached, termination |
| `verify` | 5 mutants in 3 files of 2 packages, 3 rounds, any set of conflicts, with no faults and with all | no mutant lost, statuses and lists agree, the call keeps its promise to the lifecycle, the bisection finds the culprits, the workspace holds no removed mutant, termination |
| `schemata` | any three mutants on a tree of twenty-two nodes | each inlined once, closures do not nest, operators are found |
| `preflight` | 7 mutants in 3 files, 2 slots | only the guilty rejected, what is kept is clean, termination |
| `lifecycle` | 2 mutants, 2 external binaries, 2 runs that share the cache | each mutant returned once with a status, verdicts come from runs, results are never weakened, the cache holds what was returned |
| `selection` | 3 directories, 2 files, 3 nodes, 2 operators | targets traversed whole, filters hold, a subtree owns its operators, comments keep mutants off, synchronisation loses no suppression |
| `gates` | 2 processes, 3 runs, a crash; 360 combinations of thresholds in one run | the baseline is a ratchet, a readable cache keeps what was saved, no run is accepted below the documented bars but for two named exceptions |
| `standalone_kill`, `schemata_dropped`, `selection_forbidden`, `selection_entries` | | a statement of a comment or of the README that the code does not keep (section 6) |

Bounds. Executors: two packages are enough for every interaction of two workers, with two mutants in one of
them so that a worker's loops have a first and a last element; a limit of two is below the number of
mutants, so that both groups fill up, and equal to the number of workers, so that all of them can be blocked
in `testGroup.Go` at once. Standalone has one package more than the limit, so that one is still to be
spawned when another fails.

Verification: eight conflicts, of which any set holds: a mutant that breaks its file alone, pairs that only
conflict together in one file and across two, an error that a file has for a mutant of another file of its
package and one that it has for mutants of two packages, and errors in an untracked file, with and without a
mutant. These are the reasons for which its searches come up empty or blame an innocent mutant. The test
file may mention an ID, which the scan then takes for a mutant's. Rounds are bounded by `MaxRounds` (5 in
the code, 3 here: each round does the same, and the last one is distinguished). Mutants come without a
status; that they may come with one is covered by the theorems.

Schemata: the tree has a constant declaration, chained calls with one first token, a selector, a labelled
and an unlabelled loop, a field incremented and compared, a case clause and a return; three mutants can be
at one key, at a node and its parent, or at two nodes that share a token and one beside them.

Preflight: a file of four mutants, which is split twice, with a mutant that fails alone at each end and a
pair that fails together across the halves; a file with such a pair only, whose halves both pass; a file
that may vanish with a mutant that would fail. Three files for two slots.

Lifecycle: it treats mutants one by one, and only its returns look at all of them: two mutants are one that
takes a branch and one that does not, which is what a partition, an all-cached test or an empty remainder
needs. They are interchangeable, and nothing about liveness is checked there, so the symmetry is sound; so
it is in the runs of `Schemata`, whose mutants differ by their plans only. Of two runs the first can fill
the cache and the second use it; of two binaries the second sees what the first has changed.

Selection: three nested directories are a root, a level and one below it, which is what merge, replace and
isolate differ in. Three sets of projects: about five hundred combinations of root (a category among its
operators), sub-configurations, rules, policy and mode for one run; every choice of targets (a directory, a
file, two directories of which one holds the other), of directories with a `go.mod`, of skipped names and of
a file left out by a build constraint; and one project with two runs and three edits at any step, with and
without a diff, and with two edits around a file that is read for two targets. The four other diffs have a
removed line, one that looks like a header, two hunks, and a deleted file.

Gates: three runs of two processes, so that one can run twice around the other's; with a cache, around a
baseline with save, with a tolerance and with both options. All the values that a threshold is told from
(none, 0, below and above the root's and the floor) on two levels, for nine results, in one run.

Fairness. Weak fairness of each goroutine: the Go scheduler runs every runnable one, and a blocked send or
`Go` call is served when there is room. A process ends by itself or at its deadline (`hardTimeoutMargin`);
`measureBaseline` has no such deadline, so its ending is an assumption on the unmutated test suite. In the
verification there is one goroutine. `standalone_kill` uses `SafeSpec`, without fairness. `Lifecycle`,
`Schemata`, `Selection` and `Gates` assume none: only safety is checked of them. Selection and Gates say
`CHECK_DEADLOCK FALSE`, since there is nothing to do once the bounded runs and edits are used up.

## 4. Proofs

The proofs hold for any number of packages, mutants, processes and goroutines, any tree, configuration, diff
and placement of mutants and any conflicts, under the named assumptions of the modules: finite sets of IDs,
files and processes, a positive limit, children before parents, directories above a directory in a line and
none of them a file, no file with more killed mutants than scored ones, and markers for the states of a
stored file that are no contents. TLC evaluates the assumptions in the runs. 35 of the 40 properties of the
passing runs are theorems.

`ExecutorProofs`. The properties are not inductive: that a mutant has at most one result follows only from
where each mutant's result still is. The inductive invariant adds, for every mutant, that it is in exactly
one place (still in `todo`, with a test goroutine, in the collector's hand, or appended), what the position
of the caller says about the workers, and what each loop of a worker has left. From it: type correctness,
`ExactlyOneResult`, `NoSendAfterClose`, `VerdictsComeFromRuns`, `GroupLimits`; and that each step is a step
or a stutter of `MutantRun`.

`StandaloneProofs`. The strengthening says which mutants a package still has without a status at each
position, that cached mutants never enter the run, and that killed processes only exist once the context is
cancelled. From it: type correctness, `NothingLeftToFinalize`, `OnlyWholeRunsSaved`, `NoWritesAfterReturn`
and the action property `StatusWrittenOnce`.

`SchemataVerifyProofs`. A first strengthening (`VInv`) counts each mutant in the two lists, ties the
statuses to them at every position, and says that the pending and blamed sets of a bisection consist of kept
mutants. From it: type correctness, `NoMutantLost`, `StatusesMatch`. A second (`SInv`) is about the
workspace: what the files hold at each position, which is what `NoRemovedCodeLeft` needs; and during a
bisection that each set on the stack belongs to one failing file, that what was blamed is suspect, and that
a guilty mutant of a failing file is blamed, on the stack, or in a file still to be searched. The step that
matters is `BuildOfCandidates`: the compiler says nothing of a package that imports a broken one, so a
search could miss its culprits because of what another file holds at the time. It cannot: the errors of the
failing files were all reported by one build, so none of their packages imports another of them, and a build
with other candidates in one file leaves those packages loadable. Hence an active conflict at the file is
reported (`ActiveAtFile`), and a guilty mutant among the candidates makes its file fail. The other way round
an error shows less, since it may need mutants of other files: only that none of this file besides the
candidates is needed, so that a single candidate is suspect. From it: `BisectionFindsCulprits`.

`SchemataProofs`. A visited node that is replaced takes the key from all that begin with its token; so of
the nodes with one key at most one has been replaced, and the parent of a replaced expression has lost its
key or had no mutants under it. From it: type correctness, `EachInlinedOnce`, `NoNestedInlining`,
`OperatorsAreFound`, for any tree and mutants.

`PreflightProofs`. `DecidedOnce` speaks of the return, and two facts carry it there: at every level, which
slice of `RunPreflight` a mutant is in already; and in level 3, that a mutant is in a slice of its goroutine
exactly when the goroutine has decided on it, that is when no call to come has it, with the calls of a file
pairwise disjoint. One lemma says what a step of a goroutine may do, and each of its actions is an instance
of it. What the slices hold has been checked (`Checked`): a set that passes passes for each of its members.
From it: type correctness, `DecidedOnce`, `RejectedAreGuilty`, `KeptAreClean`, for any conflicts, files and
number of slots.

`LifecycleProofs`. What a return hands back follows from where the mutants are before it, so the inductive
invariant says so in every phase: kept and invalid mutants are disjoint and make up all of them (until a
verification fails), copies set aside have a status, and every verdict, in a mutant or in the cache, is one
of a mutant that was run; the last is what carries `VerdictsAreEarned` over a cache entry to the run it
comes from. A lemma on `shouldUpdate` (a merge gives one of the two statuses, and never the weaker) gives
`StatusNeverWeakens`. Proved: type correctness, `EveryMutantReturned`, `VerdictsAreEarned`, and the action
properties `StatusNeverWeakens` and `SavedAsReturned`, for any number of mutants, runs and binaries.

Composition. The proofs about `Lifecycle` use of its steps only what `Promises` says, and each part is
proved to keep its own promise: `PreflightKeepsPromise` and `UnitPhaseKeepsPromise` follow from the
invariants above. `VerificationKeepsPromise` needs more, since `NoMutantLost` and `StatusesMatch` except the
returns with an error: `FailedInv` says what these return, in which of the lists a mutant is, at most once
in the removed ones, and with what status. `StandaloneKeepsPromise` adds to its invariant which mutants a
process was started for (`RanInv`): the verdicts come from them, and none is a cached mutant. What is left
to argument is the data that connects the modules: the mutants a call is given are `Mutants` of its module,
and what they come with is `stored`.

`SelectionProofs`. The invariant follows a suppression through the run: what the engine has collected
includes what the run began with and what it has read, each recorded site was left by one of the readings of
its file, sites are recorded ones, and mutants are of sites. From it: `IgnoredLinesHaveNoMutants` and
`SyncKeepsSuppressions`. `SubtreeOwnsItsOperators` rests on lemmas on chains: directories above a file are
linearly ordered, so of any set of them at most one is the deepest, and a finite one that is not empty has
it.

`FiltersHold` needs one more invariant, that from its start on a run works with the configuration that the
policy has changed (`PolicyApplied`): each filter only leaves sites that passed the one before it, and the
policy can only add to what is skipped (`SkipMonotone`). Its part on diffs is that `parse` finds exactly the
lines that a hunk adds, at their numbers in the new file. It is the one result here about a recursion over
data. The library's induction theorems cannot be instantiated, but its theorem that `<` is well founded on
the numbers quantifies over a set, not over an operator: from it follow induction for a set of numbers
(`Induction`) and that a recursive function of a number exists and obeys its equation (`Recursion`). With
these, `HunkRuns` carries through a hunk that the counter is its start plus the added and context lines so
far (`Counted`), `DiffRuns` that through the diff, and `ParseAdds` is the result. `TargetsAreTraversed`
follows from `Traversing` (of a file of the targets that is done and may not be skipped, every site is
recorded whose line had no comment in some reading, and no other file has any) and from
`ModulesAreTraversed`: of the directories with a `go.mod` between a target and a file below it, the deepest
leads the engine to the file.

`GatesProofs`. For the cache: while no two processes are on it at a time, what a process carries includes
all that was saved, and after a write that was cut off the file stays unreadable, so that no process with
the cache gets past it (`CutOff`). For the baseline: while no two processes meet in `Report`, a process that
has opened the temporary file is the only one that holds it, and what it renames is what it wrote; a crash
leaves a temporary file that nobody holds, which the next run truncates. From it: `CacheKeepsEntries` and
`BaselineMoves`, for any number of processes and crashes. `FullInv` adds the types and, for
`AcceptedRunsPass`, that a process about to compare its score with the baseline, while no two have met, has
a baseline that its score is not below by more than the tolerance (`WithinTolerance`). The scores are
counted: the mutants of the files are a finite set, which the killed ones are part of (`FiniteMutants`,
`Counting`), so a score is a number up to 100 (`ScoreIsPerCent`), which the type invariant needs; and what
the resolver compares a file with is the threshold of the nearest level that sets one (`NearestExists`), or
the root's raised to the policy's floor, which is the documented bar unless that level is below the floor
(`ThresholdIsHigher`, `BarIsEffective`).

Proved although no run checks them: `GroupLimits`, `NoWritesAfterReturn`, `DecidedOnce`, and `PromiseKept`
of three modules (that of the verification is checked). Only model-checked are the four termination
properties and the liveness of `Executor`'s refinement of `MutantRun`: liveness under fairness is out of the
prover's reach. The step part of that refinement is proved.

## 5. Not modelled

* The workspace (`workspace.go`, `gowork/`): copying of files and rewriting of `go.mod` is input and output;
  its failures are inputs of the modules that call it. That `Setup` returns from its loop without waiting
  for its goroutines is a hazard in `PROJECT.json`, without a property.
* The operators: some forty functions from a node to a node, without state; the repository's table tests
  exercise them.
* `go` itself, `git`, the type checker: their answers are inputs. `tree.go`, the output formats, badge,
  logger and progress bar: layout.
* `EffectiveTests` and test selection, beyond the fact that it leaves some mutants untested (`Lifecycle`);
  parsing of YAML and flags.
* `min_concurrent` of the policy: `Concurrent` is parsed before the policy is applied, so that it has no
  effect on a run.

## 6. Where the code and its documentation disagree

Four are runs that TLC finds violated; `PROJECT.json` quotes the text.

* `standalone_kill`: a test process killed because another package failed counts as a killed mutant.
* `schemata_dropped`: a single mutant of an assignment, `++`, branch or loop is replaced by an `if`, which
  `isValidReplacement` refuses: it is never inlined, and its run is one of the original program.
* `selection_forbidden`: the operators of a run are parsed before the policy is applied, so forbidden
  operators have mutants and required ones need not.
* `selection_entries`: sites are looked up in the comments of their file only, so an entry of the
  configuration file does not suppress anything.

The following were met on the way and have no run. In the verification and the lifecycle:

* A file that fails only for what mutants of another file do, or for an error without mutants, fails with
  any candidates: the bisection blames every mutant of it, down to single ones, though its comment says that
  it identifies those that cause errors in that file (`schemata.go:921-923`), and another that for errors
  "from a sibling file we don't track, or from a cross-file interaction" it finds no culprit
  (`schemata.go:1083-1085`). `BisectionFindsCulprits` allows for it (`Suspect`).
* A bisection that blames nobody in a file leaves in it the half that was tried last (`schemata.go:952`). If
  the next build passes, the other half is kept, never inlined, and survives without having been run
  (README.md:636).
* The helper of a package all of whose affected files lost their mutants is written with the directory's
  name as package clause (`transform.go:342`). A package named otherwise stops compiling.
* On its error returns `verifyAndCleanSchemata` also appends the mutants it keeps to the removed ones,
  without the compile-error status its comment (`schemata.go:1006`) promises. `NoMutantLost` and
  `EveryMutantReturned` except these returns.
* The check of the combined schemata (`preflight.go:278`) runs `go build` in the original directory, whose
  files do not hold them: it fails only if the unmodified package does not build, and then rejects all
  mutants of the file, though `preflight.go:303-306` promises otherwise.
* Standalone mode returns the kept mutants only (`schemata.go:168`). What preflight found invalid is in no
  category of the report, though it is in `lastTotalMutants` (`schemata.go:81`).
* `SaveCache` also saves the `untested` of a test selection (`mutants.go:259`), and a later run without the
  selection takes it for the result.
* With `before_unit`, a mutant that an external suite left as `error` or `untested` is skipped by the unit
  phase (`executor.go:578`).
* A single `empty_body` mutant of a function is inlined without a guard (`schemata_nodes/handlers.go:228`),
  in every mutant's run.

In selection and gates:

* A threshold of a sub-configuration below the policy's floor is not raised to it: `orgpolicy.Apply` raises
  the root's only, though README.md:948 says that "sub-configs setting lower thresholds are raised to this
  value", README.md:1011 that teams cannot bypass the gates with `threshold: 0`, and
  `config/orgpolicy.go:14-15` that any threshold below is raised. The thresholds of packages are only looked
  at if the root has one and the total misses it (`reporter.go:382-385`), though README.md:1081 says that
  they are checked whenever there are sub-configurations. `AcceptedRunsPass` takes the documented bar
  (`Bar`), and names both as its exceptions (`NotRaised`, and the total that reaches the root's bar).
* A required operator is added to the root's list after that has been parsed, and to no list of a
  sub-configuration, so in a subtree with a list of its own it has no mutants; README.md:918 and 949 and
  `config/orgpolicy.go:18-19` say that it runs everywhere. That a program may obey them is left open by
  `SubtreeOwnsItsOperators`, which says nothing of required operators.
* A root's `dir_rules` win a tie with a level's rule for the same directory; a rule or a `skip` for `.`
  matches nothing. The operators of a sub-configuration only apply at sites that some operator of the root
  has recorded.
* The walk over packages does not look below a directory with Go files, nor below a target `.`; a single
  `go.mod` strictly below a target is not entered (the target itself is loaded). `gorgon ./...`
  (README.md:21) fails in `os.Stat`.
* A comment like `//gorgon:ignore :9` is written back as an entry for all operators; an entry for all
  operators that is added during a run, on a line with a comment for one, is narrowed to it (README.md:569);
  entries of comments that were removed stay.
* A removed line whose text begins with `--` is taken for a header of the diff, and moves the lines that
  follow it by one.
* With save and no_regression the baseline is overwritten before it is compared with; without one the score
  of a run that failed becomes the baseline. `cleanStaleTempDirs` removes the workspaces of running
  processes.

## 7. Plan

Done: the executors, verification, transformation, preflight, lifecycle, configuration, selection, stores
and gates. What would come next:

1. The workspace's errgroup as a module of its own, with the early return that does not wait.
2. An abstract search for culprits that both the preflight's bisection and that of `SchemataVerify`
   implement.
3. The rest of the composition: that what the tests of `Gates` find is what a run of `Lifecycle` returns,
   and that the mutants it starts with are those of `Selection`.
