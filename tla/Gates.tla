------------------------------- MODULE Gates -------------------------------
(***************************************************************************)
(* What runs leave to each other and what they are measured by: the        *)
(* result cache, the baseline, the temporary workspaces and the gates of   *)
(* reporter.Report.  Several gorgon processes share one project directory; *)
(* each may crash at any step, and a process that ended may run again.     *)
(***************************************************************************)
EXTENDS Configuration, FiniteSetsExt

CONSTANTS
  Procs,     \* the processes
  Keys,      \* the keys of cache entries
  Setups,    \* the projects to look at: root, subs, policy, mode, what each
             \* process is asked to do, what tests may find (per file, of how
             \* many mutants with a verdict how many were killed), and bounds on
             \* runs and crashes
  Missing,   \* no file of that name
  Empty,     \* a file that was truncated and not, or not wholly, written yet
  Torn       \* a file with bytes of two writes

Option == [cache : BOOLEAN, keys : SUBSET Keys, save : BOOLEAN, noRegression : BOOLEAN,
           tolerance : Nat]

ASSUME GatesAssumption ==
  /\ IsFiniteSet(Procs) /\ IsFiniteSet(Files)
  /\ \A s \in Setups :
       /\ s.root \in SubConfig /\ s.root.threshold \in Nat /\ s.policy \in Policy
       /\ DOMAIN s.subs \subseteq Dirs /\ \A d \in DOMAIN s.subs : s.subs[d] \in SubConfig
       /\ s.mode \in Modes /\ s.options \in [Procs -> Option]
       /\ \A r \in s.results : /\ r \in [Files -> [killed : Nat, scored : Nat]]
                               /\ \A f \in Files : r[f].killed <= r[f].scored
       /\ s.runs \in Nat /\ s.crashes \in Nat

\* Contents of the baseline's files; a process may hold one that has no name.
Inodes == 1 .. 2 + Cardinality(Procs)

\* The markers are neither a cache nor an inode nor a score.
ASSUME MarkersAssumption ==
  /\ \A keys \in SUBSET Keys : keys \notin {Missing, Empty, Torn}
  /\ \A i \in Inodes \cup (0 .. 100) : i \notin {Missing, Empty, Torn}

VARIABLES
  setup,
  pc,          \* where Run is, in each process: "idle" before and after
  outcome,     \* how the last run ended: "none", "ok" or "failed"
  result,      \* the statuses of its mutants, as far as they are counted
  failed,      \* GenerateAndRunSchemata returned an error
  entries,     \* the keys in the cache that was loaded and added to
  fd,          \* the file that baseline.Save writes to
  workspaces,  \* the processes with a directory gorgon-schemata-*
  cacheFile,   \* the cache: Missing, Empty, Torn or a set of keys
  data,        \* per inode Empty, Torn or a score
  base, tmp,   \* the inodes of the baseline and of its temporary file
  runs, crashes,  \* counters, for the bounds
  met,         \* history: of "cache" and "baseline" those that two processes
               \* worked on at a time
  cut,         \* history: a write of the cache was cut off
  saved        \* history: the keys that completed saves of the cache wrote

runVars == <<outcome, result, failed>>
cacheVars == <<entries, cacheFile, cut, saved>>
baseVars == <<fd, data, base, tmp>>
bounds == <<setup, runs, crashes>>
vars == <<bounds, pc, runVars, workspaces, cacheVars, baseVars, met>>

Asked(p) == setup.options[p]
UsesCache(p) == Asked(p).cache \/ setup.policy.requireCache

OnCache == {"makeWorkspace", "tests", "openCache", "writeCache"}
OnBaseline == {"load", "open", "write", "rename", "gate"}

\* p goes to point, or ends its run.
Goto(p, point) ==
  /\ pc' = [pc EXCEPT ![p] = point]
  /\ met' = met \cup {what \in {"cache", "baseline"} :
                        \E q \in Procs \ {p} :
                          LET on == IF what = "cache" THEN OnCache ELSE OnBaseline
                          IN  point \in on /\ pc[q] \in on}
End(p, how) == Goto(p, "idle") /\ outcome' = [outcome EXCEPT ![p] = how]

-----------------------------------------------------------------------------
(* Statistics.                                                              *)

\* computeStats and CalculateScore, over the files of some packages, whose mutants
\* are counted; a score is in per cent, and whole.
Killed(r, F) == Cardinality(UNION {{f} \X (1 .. r[f].killed) : f \in F})
Scored(r, F) == Cardinality(UNION {{f} \X (1 .. r[f].scored) : f \in F})
CalculateScore(r, F) == IF Scored(r, F) = 0 THEN 0 ELSE (100 * Killed(r, F)) \div Scored(r, F)
Score(p) == CalculateScore(result[p], Files)

\* Config.Threshold of the run.
Threshold == Apply(setup.root, setup.policy).threshold

\* checkPerPackageThresholds finds nothing to complain of.
checkPerPackageThresholds(r) ==
  \A d \in Dirs :
    LET F == {f \in Files : DirOf[f] = d}
        effective(f) == EffectiveThreshold(setup.subs, setup.mode, setup.policy.locked, f, Threshold)
    IN  Scored(r, F) > 0 => \E f \in F : CalculateScore(r, F) >= effective(f)

\* The last part of Report: the packages matter when the total does not do.
MeetsThreshold(r) ==
  \/ Threshold = 0
  \/ Scored(r, Files) = 0
  \/ CalculateScore(r, Files) >= Threshold
  \/ DOMAIN setup.subs # {} /\ checkPerPackageThresholds(r)

-----------------------------------------------------------------------------
(* The run up to the report.                                                *)

Unscored == [f \in Files |-> [killed |-> 0, scored |-> 0]]

Init ==
  /\ setup \in Setups
  /\ pc = [p \in Procs |-> "idle"] /\ outcome = [p \in Procs |-> "none"]
  /\ result = [p \in Procs |-> Unscored] /\ failed = [p \in Procs |-> FALSE]
  /\ entries = [p \in Procs |-> {}] /\ fd = [p \in Procs |-> Missing]
  /\ workspaces = {}
  /\ cacheFile = Missing /\ data = [i \in Inodes |-> Empty]
  /\ base = Missing /\ tmp = Missing
  /\ runs = 0 /\ crashes = 0
  /\ met = {} /\ cut = FALSE /\ saved = {}

\* cleanStaleTempDirs does not ask whose directories it removes.
Start(p) ==
  /\ pc[p] = "idle" /\ runs < setup.runs
  /\ runs' = runs + 1
  /\ Goto(p, "loadCache")
  /\ outcome' = [outcome EXCEPT ![p] = "none"]
  /\ result' = [result EXCEPT ![p] = Unscored]
  /\ failed' = [failed EXCEPT ![p] = FALSE]
  /\ workspaces' = {}
  /\ UNCHANGED <<setup, crashes, cacheVars, baseVars>>

\* MUTANT: every run starts with an empty cache.
LoadNothing(p) ==
  /\ pc[p] = "loadCache"
  /\ entries' = [entries EXCEPT ![p] = {}]
  /\ IF UsesCache(p) /\ cacheFile \in {Empty, Torn}
     THEN End(p, "failed")
     ELSE Goto(p, "makeWorkspace") /\ UNCHANGED outcome
  /\ UNCHANGED <<bounds, result, failed, workspaces, cacheFile, cut, saved, baseVars>>

\* cache.Load: no file is an empty cache, one that cannot be parsed an error.
LoadCache(p) ==
  /\ pc[p] = "loadCache"
  /\ entries' = [entries EXCEPT ![p] = IF UsesCache(p) /\ cacheFile \notin {Missing, Empty, Torn}
                                       THEN cacheFile ELSE {}]
  /\ IF UsesCache(p) /\ cacheFile \in {Empty, Torn}
     THEN End(p, "failed")
     ELSE Goto(p, "makeWorkspace") /\ UNCHANGED outcome
  /\ UNCHANGED <<bounds, result, failed, workspaces, cacheFile, cut, saved, baseVars>>

\* NewModuleWorkspace.
MakeWorkspace(p) ==
  /\ pc[p] = "makeWorkspace"
  /\ Goto(p, "tests")
  /\ workspaces' = workspaces \cup {p}
  /\ UNCHANGED <<bounds, runVars, cacheVars, baseVars>>

\* Run reports when GenerateAndRunSchemata has returned mutants.
Return(p) ==
  Goto(p, IF Asked(p).save THEN "open" ELSE IF Asked(p).noRegression THEN "load" ELSE "gate")

\* Sites without mutants, a dry run, or an error that leaves none to report.
NothingToReport(p, how) ==
  /\ pc[p] \in {"makeWorkspace", "tests"}
  /\ End(p, how)
  /\ workspaces' = workspaces \ {p}
  /\ UNCHANGED <<bounds, result, failed, cacheVars, baseVars>>

\* GenerateAndRunSchemata without SaveCache: no cache, or an error, among them
\* that another process has removed the workspace.  The mutants come back with
\* the statuses they have so far, and are reported all the same.
Run(p, r, error) ==
  /\ pc[p] = "tests"
  /\ error \/ ~UsesCache(p)
  /\ result' = [result EXCEPT ![p] = r]
  /\ failed' = [failed EXCEPT ![p] = error]
  /\ workspaces' = workspaces \ {p}
  /\ Return(p)
  /\ UNCHANGED <<bounds, outcome, cacheVars, baseVars>>

\* ... and with it: what was found is added to the cache.
RunAndSet(p, r, error) ==
  /\ pc[p] = "tests" /\ UsesCache(p)
  /\ result' = [result EXCEPT ![p] = r]
  /\ failed' = [failed EXCEPT ![p] = error]
  /\ entries' = [entries EXCEPT ![p] = @ \cup Asked(p).keys]
  /\ Goto(p, "openCache")
  /\ UNCHANGED <<bounds, outcome, workspaces, cacheFile, cut, saved, baseVars>>

\* Cache.Save: os.WriteFile truncates the file when it opens it ...
OpenCache(p) ==
  /\ pc[p] = "openCache"
  /\ cacheFile' = Empty
  /\ Goto(p, "writeCache")
  /\ UNCHANGED <<bounds, runVars, workspaces, entries, cut, saved, baseVars>>

\* ... and writes from the start of what is there by then; Cleanup is deferred.
WriteCache(p) ==
  /\ pc[p] = "writeCache"
  /\ cacheFile' \in {entries[p]} \cup (IF cacheFile = Empty THEN {} ELSE {Torn})
  /\ saved' = saved \cup entries[p]
  /\ workspaces' = workspaces \ {p}
  /\ Return(p)
  /\ UNCHANGED <<bounds, runVars, entries, cut, baseVars>>

\* The disk is full, or the file may not be written: nobody is told.
SaveCacheFails(p) ==
  /\ pc[p] \in {"openCache", "writeCache"}
  /\ cut' = (cut \/ pc[p] = "writeCache")
  /\ workspaces' = workspaces \ {p}
  /\ Return(p)
  /\ UNCHANGED <<bounds, runVars, entries, cacheFile, saved, baseVars>>

-----------------------------------------------------------------------------
(* Report.                                                                  *)

\* MUTANT: the baseline is written in place.
OpenBaseline(p) ==
  /\ pc[p] = "open"
  /\ \E i \in Inodes :
       /\ IF tmp # Missing THEN i = tmp
          ELSE IF base # Missing THEN i = base
          ELSE \A q \in Procs : fd[q] # i
       /\ tmp' = i
       /\ fd' = [fd EXCEPT ![p] = i]
       /\ data' = [data EXCEPT ![i] = Empty]
  /\ Goto(p, "write")
  /\ UNCHANGED <<bounds, runVars, workspaces, cacheVars, base>>

\* baseline.Save opens the temporary file: the one that is there, or a new one.
OpenTmp(p) ==
  /\ pc[p] = "open"
  /\ \E i \in Inodes :
       /\ IF tmp # Missing THEN i = tmp
          ELSE i # base /\ \A q \in Procs : fd[q] # i
       /\ tmp' = i
       /\ fd' = [fd EXCEPT ![p] = i]
       /\ data' = [data EXCEPT ![i] = Empty]
  /\ Goto(p, "write")
  /\ UNCHANGED <<bounds, runVars, workspaces, cacheVars, base>>

\* ... writes it ...
WriteTmp(p) ==
  /\ pc[p] = "write"
  /\ \E score \in {Score(p)} \cup (IF data[fd[p]] = Empty THEN {} ELSE {Torn}) :
       data' = [data EXCEPT ![fd[p]] = score]
  /\ fd' = [fd EXCEPT ![p] = Missing]
  /\ Goto(p, "rename")
  /\ UNCHANGED <<bounds, runVars, workspaces, cacheVars, base, tmp>>

\* MUTANT: the temporary file is linked to the baseline's name and kept.
LinkTmp(p) ==
  /\ pc[p] = "rename"
  /\ IF tmp = Missing
     THEN End(p, "failed") /\ UNCHANGED <<base, tmp>>
     ELSE /\ base' = tmp /\ UNCHANGED tmp
          /\ Goto(p, IF Asked(p).save /\ Asked(p).noRegression THEN "load" ELSE "gate")
          /\ UNCHANGED outcome
  /\ UNCHANGED <<bounds, result, failed, workspaces, cacheVars, fd, data>>

\* ... and renames it, unless another process has done so.
Rename(p) ==
  /\ pc[p] = "rename"
  /\ IF tmp = Missing
     THEN End(p, "failed") /\ UNCHANGED <<base, tmp>>
     ELSE /\ base' = tmp /\ tmp' = Missing
          /\ Goto(p, IF Asked(p).save /\ Asked(p).noRegression THEN "load" ELSE "gate")
          /\ UNCHANGED outcome
  /\ UNCHANGED <<bounds, result, failed, workspaces, cacheVars, fd, data>>

\* MkdirAll, WriteFile or Rename fails, a report cannot be written: an error.
ReportFails(p) ==
  /\ pc[p] \in OnBaseline
  /\ End(p, "failed")
  /\ fd' = [fd EXCEPT ![p] = Missing]
  /\ UNCHANGED <<bounds, result, failed, workspaces, cacheVars, data, base, tmp>>

\* NoRegression: without a baseline this score becomes it; CheckRegression.
Compare(p) ==
  /\ pc[p] = "load"
  /\ IF base = Missing THEN Goto(p, "open") /\ UNCHANGED outcome
     ELSE IF data[base] \in {Empty, Torn} \/ Score(p) + Asked(p).tolerance < data[base]
     THEN End(p, "failed")
     ELSE Goto(p, "gate") /\ UNCHANGED outcome
  /\ UNCHANGED <<bounds, result, failed, workspaces, cacheVars, baseVars>>

\* The reports, the threshold, and what Run makes of both errors.
Gate(p) ==
  /\ pc[p] = "gate"
  /\ End(p, IF MeetsThreshold(result[p]) /\ ~failed[p] THEN "ok" ELSE "failed")
  /\ UNCHANGED <<bounds, result, failed, workspaces, cacheVars, baseVars>>

\* The process is killed: what it has on disk stays.
Crash(p) ==
  /\ pc[p] # "idle" /\ crashes < setup.crashes
  /\ crashes' = crashes + 1
  /\ End(p, "failed")
  /\ fd' = [fd EXCEPT ![p] = Missing]
  /\ cut' = (cut \/ pc[p] = "writeCache")
  /\ UNCHANGED <<setup, runs, result, failed, workspaces, entries, cacheFile, saved, data, base,
                 tmp>>

Next ==
  \E p \in Procs :
    \/ Start(p) \/ LoadCache(p) \/ MakeWorkspace(p)
    \/ \E how \in {"ok", "failed"} : NothingToReport(p, how)
    \/ \E r \in setup.results \cup {Unscored}, error \in BOOLEAN : Run(p, r, error) \/ RunAndSet(p, r, error)
    \/ OpenCache(p) \/ WriteCache(p) \/ SaveCacheFails(p)
    \/ OpenTmp(p) \/ WriteTmp(p) \/ Rename(p) \/ ReportFails(p) \/ Compare(p) \/ Gate(p)
    \/ Crash(p)

Spec == Init /\ [][Next]_vars

-----------------------------------------------------------------------------
(* Properties.                                                              *)

IsContent(c) == c \in {Empty, Torn} \/ c \in 0 .. 100

\* Every variable has its type; a process that writes a baseline has a file of
\* its own choice open, the temporary one when no other process renamed it.
TypeOK ==
  /\ setup \in Setups
  /\ \A p \in Procs :
       /\ pc[p] \in {"idle", "loadCache"} \cup OnCache \cup OnBaseline
       /\ outcome[p] \in {"none", "ok", "failed"}
       /\ outcome[p] = "none" \/ pc[p] = "idle"
       /\ result[p] \in setup.results \cup {Unscored} /\ failed[p] \in BOOLEAN
       /\ entries[p] \subseteq Keys
       /\ IF pc[p] = "write" THEN fd[p] \in Inodes ELSE fd[p] = Missing
  /\ workspaces \subseteq Procs
  /\ cacheFile \in {Missing, Empty, Torn} \/ cacheFile \subseteq Keys
  /\ \A i \in Inodes : IsContent(data[i])
  /\ base = Missing \/ base \in Inodes
  /\ tmp = Missing \/ tmp \in Inodes \ {base}
  /\ runs \in 0 .. setup.runs /\ crashes \in 0 .. setup.crashes
  /\ met \subseteq {"cache", "baseline"} /\ cut \in BOOLEAN /\ saved \subseteq Keys

\* What a reader finds in the baseline: nothing, or a content.
Found == IF base = Missing THEN Missing ELSE data[base]

\* The ratchet: as long as runs do not meet in Report, and wherever they crash,
\* the baseline only changes into the whole score of the run that moves it, and
\* one that is there only by a run with save.
BaselineMoves ==
  [][Found' # Found /\ "baseline" \notin met' =>
       \E p \in Procs : /\ pc[p] = "rename"
                        /\ Found' = Score(p)
                        /\ Found = Missing \/ Asked(p).save]_vars

\* The sub-configurations whose threshold may hold for a package: those that set
\* one on README's chain, with merge, replace and isolate, and without a lock.
Saying(f) ==
  {d \in DOMAIN setup.subs \cap Above[DirOf[f]] :
     /\ setup.mode = "isolate" => d = DirOf[f]
     /\ setup.mode = "replace" => \A e \in DOMAIN setup.subs \cap Above[DirOf[f]] : e \in Above[d]
     /\ "threshold" \notin setup.policy.locked /\ setup.subs[d].threshold # Unset}

\* The threshold of the nearest of them, or of the root, and the bar of the
\* package as documented: a threshold below the policy's floor is raised to it.
Level(f) == IF Saying(f) = {} THEN setup.root.threshold
            ELSE setup.subs[CHOOSE d \in Saying(f) : Saying(f) \subseteq Above[d]].threshold
Bar(f) == Max({Level(f), setup.policy.floor})

\* Where the code does not do what is documented: the threshold of a
\* sub-configuration stays below the floor.
NotRaised(f) == Saying(f) # {} /\ Level(f) < setup.policy.floor

\* Whatever a run is given, and whoever ran before it, it is only accepted if its
\* tests ran, if with no_regression it is within the tolerance of the baseline,
\* and if every package reaches its documented bar, with two exceptions, both
\* against the documents: no package is looked at when the total reaches the bar
\* of the root, and one that is not raised only has to reach its own threshold.
AcceptedRunsPass ==
  [][\A p \in Procs : outcome[p] = "none" /\ outcome'[p] = "ok" /\ pc[p] = "gate" =>
       LET r == result[p]
       IN  /\ ~failed[p]
           /\ \/ Scored(r, Files) = 0
              \/ Score(p) >= Max({setup.root.threshold, setup.policy.floor})
              \/ /\ DOMAIN setup.subs # {}
                 /\ \A f \in Files :
                      LET F == {g \in Files : DirOf[g] = DirOf[f]}
                      IN  Scored(r, F) > 0 =>
                            CalculateScore(r, F) >= IF NotRaised(f) THEN Level(f) ELSE Bar(f)
           /\ Asked(p).noRegression /\ "baseline" \notin met =>
                IsContent(Found) /\ Found \notin {Empty, Torn}
                /\ Score(p) + Asked(p).tolerance >= Found]_vars

\* As long as runs do not overlap, and wherever a write is cut off, what can be
\* read of the cache when nobody writes it is what every run with it has saved:
\* a write that was cut off loses all of it, for every later run with the cache
\* fails on it, but is never taken for a cache with fewer entries.
CacheKeepsEntries ==
  "cache" \notin met /\ (\A p \in Procs : pc[p] # "writeCache") =>
    \/ cacheFile = Missing /\ saved = {}
    \/ cacheFile \notin {Missing, Empty, Torn} /\ saved \subseteq cacheFile
    \/ cacheFile = Empty /\ cut

=============================================================================
