----------------------------- MODULE Selection -----------------------------
(***************************************************************************)
(* From configuration to mutants, and back: a run reads the suppressions   *)
(* of the configuration file and the ignore comments of the sources,       *)
(* records mutation sites, filters them, generates mutants, and after a    *)
(* run without an error merges the comments into the configuration file.   *)
(* Runs follow each other; people edit both files at any time.             *)
(***************************************************************************)
EXTENDS Configuration, SequencesExt

CONSTANTS
  Nodes,     \* the syntax nodes that some operator applies to
  FileOf,    \* the file of a node
  LineOf,    \* its line: the file and the number
  ColOf,     \* its column
  KeyOf,     \* file, line, column and type of the node
  FuncOf,    \* the function it is in
  Applies,   \* for each operator the nodes it applies to
  Setups     \* the projects to look at: root, subs, policy, mode; targets, the
             \* directories with a go.mod and those with a name that the walk
             \* skips, the files that build constraints exclude; the diff, or Unset; dry; and as bounds the number of runs
             \* and of edits of the configuration file or of comments

Lines == {LineOf[n] : n \in Nodes}

\* What is suppressed on a line: an operator, at a column or (0) at all of them.
\* The operator "" stands for every one.
All == <<"", 0>>
Directives == {All} \cup (Ops \X ({0} \cup {ColOf[n] : n \in Nodes}))

\* A line of a hunk, by what it starts with: +, -, --- (a removed line that starts
\* with two dashes more), a space, or the backslash of a remark.  An added line
\* that starts with two more + is not looked at: it is taken for a header, too.
Kinds == {"added", "removed", "dashes", "context", "remark"}

\* A hunk of a diff: its file, where it starts in the new file, its lines.
Hunk == [file : Files \cup {Unset}, start : Nat, body : Seq(Kinds)]

ASSUME SelectionAssumption ==
  /\ IsFiniteSet(Nodes)
  /\ FileOf \in [Nodes -> Files]
  /\ LineOf \in [Nodes -> Files \X Nat] /\ \A n \in Nodes : LineOf[n][1] = FileOf[n]
  /\ ColOf \in [Nodes -> Nat \ {0}]
  /\ \A m, n \in Nodes : KeyOf[m] = KeyOf[n] => LineOf[m] = LineOf[n]
  /\ Applies \in [Ops -> SUBSET Nodes]
  /\ "" \notin Ops
  /\ \A s \in Setups :
       /\ s.root \in SubConfig /\ s.policy \in Policy
       /\ DOMAIN s.subs \subseteq Dirs /\ \A d \in DOMAIN s.subs : s.subs[d] \in SubConfig
       /\ s.mode \in Modes /\ s.dry \in BOOLEAN
       /\ s.targets \subseteq Dirs \cup Files /\ s.modules \cup s.hidden \subseteq Dirs
       /\ s.constrained \subseteq Files
       /\ s.diff = Unset \/ s.diff \in Seq(Hunk)
       /\ s.runs \in Nat /\ s.edits \in Nat

VARIABLES
  setup,     \* the project: its configuration, its policy and the run's flags
  disk,      \* suppress: in the configuration file: per line the operators of
             \* its entry, with a column or 0, and none for all of them
  comments,  \* the ignore comments in the sources: what stands above which line
  pc,        \* "idle", "traverse", "generate" or "test"
  cfg,       \* the root configuration in memory
  ops,       \* the operators of the run
  ignore,    \* Engine.ignoreDirectives
  todo,      \* the targets' files that Traverse has not processed: <<target, file>>
  recorded,  \* Engine.sites
  sites,     \* what filtering leaves of them
  mutants,   \* the mutants: a node and an operator
  runs, edits,  \* counters, for the bounds
  began, read   \* history: the suppressions of the configuration file when this
                \* run read it, and what each reading of a source found there: the
                \* file and its directives

runVars == <<cfg, ops, ignore, todo, recorded, sites, mutants>>
vars == <<setup, disk, comments, pc, cfg, ops, ignore, todo, recorded, sites, mutants,
          runs, edits, began, read>>

\* A map from lines to sets of directives: Go's nested maps.  A line may be in
\* it with the empty set.
None == [l \in {} |-> {}]
At(map, l) == IF l \in DOMAIN map THEN map[l] ELSE {}
Merged(a, b) == [l \in DOMAIN a \cup DOMAIN b |-> At(a, l) \cup At(b, l)]
In(map, f) == [l \in {x \in DOMAIN map : x[1] = f} |-> map[l]]

\* SetSuppressEntries
SetSuppressEntries(entries) ==
  [l \in DOMAIN entries |-> IF entries[l] = {} THEN {All} ELSE entries[l]]

\* parseIgnoreComments: a comment with a column only enters its line, and
\* nothing for it.
parseIgnoreComments(texts) == [l \in DOMAIN texts |-> {texts[l]} \cap Directives]
Texts == Directives \cup {<<"", 1>>}

\* MUTANT: a comment without an operator is looked up as if it had one.
isIgnoredByName(directives, n, op) ==
  At(directives, LineOf[n]) \cap {<<op, 0>>, <<op, ColOf[n]>>} # {}

\* isIgnored
isIgnored(directives, n, op) ==
  At(directives, LineOf[n]) \cap {All, <<op, 0>>, <<op, ColOf[n]>>} # {}

Init ==
  /\ setup \in Setups
  /\ disk = None /\ comments = None
  /\ pc = "idle"
  /\ cfg = setup.root
  /\ ops = {} /\ ignore = None /\ todo = {}
  /\ recorded = {} /\ sites = {} /\ mutants = {}
  /\ runs = 0 /\ edits = 0
  /\ began = None /\ read = {}

-----------------------------------------------------------------------------
(* What Traverse finds.                                                     *)

Below(d) == {e \in Dirs : d \in Above[e]}
HasGo(d) == \E f \in Files : DirOf[f] = d

\* The walk does not come to e when it starts below d.
Skipped(d, e) == setup.hidden \cap Above[e] \cap (Below(d) \ {d}) # {}

\* findGoModFiles
findGoModFiles(d) == Below(d) \cap setup.modules

\* findGoPackages: below a directory with Go files it does not look, nor below
\* the target itself if that is "." or has another skipped name.
findGoPackages(d) ==
  {e \in Below(d) : /\ HasGo(e) /\ ~Skipped(d, e) /\ d \notin setup.hidden
                    /\ \A g \in Above[e] \cap Below(d) : HasGo(g) => g = e}

\* traverseModule: what packages.Load finds for ./... in d, the files below it
\* that belong to d's module and are built; nothing, if d belongs to none.
ModuleOf(d) == Deepest(setup.modules \cap Above[d])
traverseModule(d) ==
  {f \in Files \ setup.constrained :
                 /\ DirOf[f] \in Below(d) /\ ~Skipped(d, DirOf[f])
                 /\ ModuleOf(d) # {} /\ ModuleOf(DirOf[f]) = ModuleOf(d)}

\* MUTANT: modules are not looked for below the target.
TraversedAsOne(t) ==
  IF t \in Files THEN {t}
  ELSE IF findGoModFiles(t) = {} THEN {f \in Files : DirOf[f] \in findGoPackages(t)}
  ELSE traverseModule(t)

\* Traverse
Traversed(t) ==
  IF t \in Files THEN {t}
  ELSE IF findGoModFiles(t) = {} THEN {f \in Files : DirOf[f] \in findGoPackages(t)}
  ELSE IF Cardinality(findGoModFiles(t)) = 1 THEN traverseModule(t)
  ELSE UNION {traverseModule(d) : d \in findGoModFiles(t)}

-----------------------------------------------------------------------------
(* What the diff selects.                                                   *)

\* A line of a diff; headers start with +++ and @@, and the old name with dashes.
Line(kind) == [kind |-> kind, file |-> Unset, start |-> 0]

\* parse for one line.  What starts with --- is taken for a line that is there.
parseLine(s, line) ==
  LET counts == line.kind = "added" \/ (line.kind \in {"context", "dashes"} /\ s.file # Unset)
  IN  [file |-> IF line.kind = "newFile" THEN line.file ELSE s.file,
       newLine |-> IF line.kind = "hunk" THEN line.start
                   ELSE IF counts THEN s.newLine + 1 ELSE s.newLine,
       result |-> IF line.kind = "added" THEN s.result \cup ({s.file} \ {Unset}) \X {s.newLine}
                  ELSE s.result]

\* What stands above a hunk; above a second hunk of a file the names are missing,
\* but say nothing new.
parseHeader(s, hunk) ==
  parseLine(parseLine(parseLine(s, Line("dashes")), [Line("newFile") EXCEPT !.file = hunk.file]),
            [Line("hunk") EXCEPT !.start = hunk.start])

\* parse: from line to line, and from hunk to hunk.
parseHunk(s, hunk) ==
  LET after[j \in 0 .. Len(hunk.body)] ==
        IF j = 0 THEN parseHeader(s, hunk) ELSE parseLine(after[j - 1], Line(hunk.body[j]))
  IN  after[Len(hunk.body)]

parse(hunks) ==
  LET after[i \in 0 .. Len(hunks)] ==
        IF i = 0 THEN [file |-> Unset, newLine |-> 0, result |-> {}]
        ELSE parseHunk(after[i - 1], hunks[i])
  IN  after[Len(hunks)].result

-----------------------------------------------------------------------------
(* The run.                                                                 *)

\* MUTANT: the engine is not given the suppressions of the configuration file.
StartWithoutEntries ==
  /\ pc = "idle" /\ runs < setup.runs
  /\ runs' = runs + 1
  /\ ~Unparsable(setup.root.operators)
  /\ ops' = ParseOperators(setup.root.operators)
  /\ cfg' = Apply(setup.root, setup.policy)
  /\ ignore' = None
  /\ began' = SetSuppressEntries(disk) /\ read' = {}
  /\ todo' = UNION {{t} \X Traversed(t) : t \in setup.targets}
  /\ recorded' = {} /\ sites' = {} /\ mutants' = {}
  /\ pc' = "traverse"
  /\ UNCHANGED <<setup, disk, comments, edits>>

\* main and Run up to Traverse.  The operators are parsed before the policy is
\* applied, and SetSuppressEntries fills ignoreDirectives.
Start ==
  /\ pc = "idle" /\ runs < setup.runs
  /\ runs' = runs + 1
  /\ ~Unparsable(setup.root.operators)
  /\ ops' = ParseOperators(setup.root.operators)
  /\ cfg' = Apply(setup.root, setup.policy)
  /\ ignore' = SetSuppressEntries(disk)
  /\ began' = SetSuppressEntries(disk) /\ read' = {}
  /\ todo' = UNION {{t} \X Traversed(t) : t \in setup.targets}
  /\ recorded' = {} /\ sites' = {} /\ mutants' = {}
  /\ pc' = "traverse"
  /\ UNCHANGED <<setup, disk, comments, edits>>

\* Run returns at once: an operator is unknown.
StartFails ==
  /\ pc = "idle" /\ runs < setup.runs
  /\ runs' = runs + 1
  /\ Unparsable(setup.root.operators)
  /\ mutants' = {}
  /\ UNCHANGED <<setup, disk, comments, pc, cfg, ops, ignore, todo, recorded, sites, edits,
                 began, read>>

\* The targets are traversed one after the other: no other one is half done.
InTurn(t) ==
  \A u \in setup.targets \ {t} : (\E f \in Files : <<u, f>> \in todo) => {u} \X Traversed(u) \subseteq todo

\* processFiles on one file, by the goroutine of its package: the comments are
\* merged into ignoreDirectives, but only they decide what is ignored.  A file of
\* two targets is processed for each.
ProcessFile(t, f) ==
  /\ pc = "traverse" /\ <<t, f>> \in todo /\ InTurn(t)
  /\ todo' = todo \ {<<t, f>>}
  /\ LET ignoreMap == parseIgnoreComments(In(comments, f))
     IN  /\ ignore' = Merged(ignore, ignoreMap)
         /\ read' = read \cup {<<f, ignoreMap>>}
         /\ recorded' = recorded \cup
              {n \in Nodes : /\ FileOf[n] = f
                             /\ \E op \in ops : n \in Applies[op] /\ ~isIgnored(ignoreMap, n, op)}
  /\ UNCHANGED <<setup, disk, comments, pc, cfg, ops, sites, mutants, runs, edits, began>>

\* traverseSinglePkgDir: a file that cannot be parsed is left out.
SkipFile(t, f) ==
  /\ pc = "traverse" /\ <<t, f>> \in todo /\ InTurn(t)
  /\ t \in Dirs /\ findGoModFiles(t) = {}
  /\ todo' = todo \ {<<t, f>>}
  /\ UNCHANGED <<setup, disk, comments, pc, cfg, ops, ignore, recorded, sites, mutants, runs,
                 edits, began, read>>

\* The policy or a sub-configuration cannot be read, a target not be parsed, the
\* cache not be loaded, the diff not be resolved; or the tests fail to run, the
\* report cannot be written, or a gate is missed: Run returns the error.  Nor is
\* anything written when SyncSuppressions cannot read or save the file.
RunFails ==
  /\ pc # "idle"
  /\ pc' = "idle"
  /\ UNCHANGED <<setup, disk, comments, runVars, runs, edits, began, read>>

\* shouldSkip, and matchParentDirs: a pattern names a file or a directory above
\* it, which . is for no path.
shouldSkip(f, patterns) == patterns \cap ({f} \cup {d \in Above[DirOf[f]] : Above[d] # {d}}) # {}

\* shouldSkipFunc
shouldSkipFunc(n, patterns) == FuncOf[n] \in patterns

\* matchesAny
matchesAny(f, patterns) == f \in patterns

\* MUTANT: the filters of the root configuration as it was before the policy.
SelectedBeforePolicy(n) ==
  LET f == FileOf[n]
      filters == EffectiveFilters(setup.subs, setup.mode, setup.policy.locked, f, setup.root)
  IN  /\ ~shouldSkip(f, filters.skip)
      /\ ~shouldSkipFunc(n, filters.skip_func)
      /\ filters.include = {} \/ matchesAny(f, filters.include)
      /\ ~matchesAny(f, filters.exclude)

\* FilterSites for one site.
Selected(n) ==
  LET f == FileOf[n]
      filters == EffectiveFilters(setup.subs, setup.mode, setup.policy.locked, f, cfg)
  IN  /\ ~shouldSkip(f, filters.skip)
      /\ ~shouldSkipFunc(n, filters.skip_func)
      /\ filters.include = {} \/ matchesAny(f, filters.include)
      /\ ~matchesAny(f, filters.exclude)

\* FilterSitesByDiff
InDiff(n) == setup.diff # Unset => LineOf[n] \in parse(setup.diff)

\* FilterSites, then FilterSitesByDiff.
SelectSites ==
  /\ pc = "traverse" /\ todo = {}
  /\ sites' = {n \in recorded : Selected(n) /\ InDiff(n)}
  /\ pc' = "generate"
  /\ UNCHANGED <<setup, disk, comments, cfg, ops, ignore, todo, recorded, mutants, runs, edits,
                 began, read>>

\* The operators for a site: sub-configurations, then dir_rules.
OperatorsAt(n) ==
  LET f == FileOf[n]
      locked == setup.policy.locked
  IN  effectiveOperators(setup.subs, setup.mode, locked, f, cfg.dir_rules,
        EffectiveOperators(setup.subs, setup.mode, locked, f, ops))

\* canApply
MutantsAt(n) == {<<n, op>> : op \in {o \in OperatorsAt(n) : n \in Applies[o]}}

\* A site without operators is skipped before its key is looked at.
FirstOf(S) == {n \in S : OperatorsAt(n) # {}}

\* Of the sites with one key the first is taken: which, is up to an unstable sort.
Firsts(S) == {T \in SUBSET FirstOf(S) :
                \A n \in FirstOf(S) : \E m \in T : {x \in T : KeyOf[x] = KeyOf[n]} = {m}}

GenerateMutants ==
  /\ pc = "generate"
  /\ \E T \in Firsts(sites) : mutants' = UNION {MutantsAt(n) : n \in T}
  /\ pc' = IF setup.dry THEN "idle" ELSE "test"
  /\ UNCHANGED <<setup, disk, comments, cfg, ops, ignore, todo, recorded, sites, runs, edits,
                 began, read>>

\* mergeInlineDirectives: operators are added to those of the line's entry.
mergeInlineDirectives(existing, directives) == Merged(existing, directives)

\* buildSuppressEntries: what has "" among its operators gets none, and so has
\* what has none.
buildSuppressEntries(suppressMap) ==
  [l \in DOMAIN suppressMap |-> IF All \in suppressMap[l] THEN {} ELSE suppressMap[l]]

\* GenerateAndRunSchemata and the report, without an error, then SyncSuppressions.
FinishAndSync ==
  /\ pc = "test"
  /\ disk' = buildSuppressEntries(mergeInlineDirectives(disk, ignore))
  /\ pc' = "idle"
  /\ UNCHANGED <<setup, comments, runVars, runs, edits, began, read>>

Run ==
  \/ Start \/ StartFails \/ RunFails
  \/ \E t \in setup.targets, f \in Files : ProcessFile(t, f) \/ SkipFile(t, f)
  \/ SelectSites \/ GenerateMutants
  \/ FinishAndSync

-----------------------------------------------------------------------------
(* People edit, between runs or while one is under way.                     *)

\* A new entry under suppress:, for operators or, without any, for all.
AddEntry(l, d) ==
  /\ edits < setup.edits /\ edits' = edits + 1
  /\ l \notin DOMAIN disk
  /\ disk' = Merged(disk, [x \in {l} |-> {d} \ {All}])
  /\ UNCHANGED <<setup, comments, pc, runVars, runs, began, read>>

AddComment(l, text) ==
  /\ edits < setup.edits /\ edits' = edits + 1
  /\ l \notin DOMAIN comments
  /\ comments' = [x \in DOMAIN comments \cup {l} |-> IF x = l THEN text ELSE comments[x]]
  /\ UNCHANGED <<setup, disk, pc, runVars, runs, began, read>>

RemoveComments(l) ==
  /\ edits < setup.edits /\ edits' = edits + 1
  /\ l \in DOMAIN comments
  /\ comments' = [x \in DOMAIN comments \ {l} |-> comments[x]]
  /\ UNCHANGED <<setup, disk, pc, runVars, runs, began, read>>

Edit ==
  \E l \in Lines :
    \/ \E d \in Directives : AddEntry(l, d)
    \/ \E text \in Texts : AddComment(l, text)
    \/ RemoveComments(l)

Next == Run \/ Edit

Spec == Init /\ [][Next]_vars

-----------------------------------------------------------------------------
(* Properties.                                                              *)

\* The sub-configuration of d has a say about f: merge takes all above the file,
\* replace the nearest only, isolate the file's own directory only.
Governs(d, f) ==
  /\ d \in DOMAIN setup.subs /\ d \in Above[DirOf[f]]
  /\ setup.mode = "isolate" => d = DirOf[f]
  /\ setup.mode = "replace" =>
       ~ \E e \in DOMAIN setup.subs \cap Above[DirOf[f]] : e # d /\ d \in Above[e]

Locked(setting) == setting \in setup.policy.locked

\* The lines that a diff adds: those of the new file are counted in each hunk.
AddedLines(hunks) ==
  UNION {LET h == hunks[i]
             line(j) == h.start + Cardinality({k \in 1 .. j - 1 : h.body[k] \in {"added", "context"}})
         IN  {<<h.file, line(j)>> : j \in {k \in DOMAIN h.body : h.body[k] = "added"}} : i \in DOMAIN hunks}

\* Nothing un-skips: a site is kept by FilterSites only if the root, the policy's
\* forced paths and every level that has a say, as far as the setting is not
\* locked, let it pass; and each of them may leave out what the others keep.
\* What the diff does not add is left out, whatever else asks for it; this is
\* said of diffs without removed lines that look like a header, ---.
FiltersHold ==
  \A n \in sites :
    LET f == FileOf[n]
    IN  /\ ~shouldSkip(f, setup.root.skip \cup setup.policy.forcedSkip)
        /\ f \notin setup.root.exclude \cup setup.policy.forcedExclude
        /\ FuncOf[n] \notin setup.root.skip_func
        /\ setup.diff # Unset /\ (\A i \in DOMAIN setup.diff : "dashes" \notin Range(setup.diff[i].body)) =>
             LineOf[n] \in AddedLines(setup.diff)
        /\ \A d \in Dirs : Governs(d, f) =>
             /\ ~Locked("skip") => ~shouldSkip(f, setup.subs[d].skip)
             /\ ~Locked("exclude") => f \notin setup.subs[d].exclude
             /\ ~Locked("skip_func") => FuncOf[n] \notin setup.subs[d].skip_func

\* Sites are recorded in the targets only.  A target that is a file or the root
\* of a module is traversed whole, with the modules below it, up to names that
\* are skipped and files that are not built: nothing there lacks its sites but
\* lines above which a comment was read.
TargetsAreTraversed ==
  pc = "generate" =>
    \A n \in Nodes :
      LET f == FileOf[n]
          up == Above[DirOf[f]]
      IN  /\ n \in recorded => setup.targets \cap ({f} \cup up) # {}
          /\ /\ \/ f \in setup.targets
                \/ /\ f \notin setup.constrained
                   /\ \E t \in setup.targets \cap setup.modules \cap up :
                        up \cap Below(t) \cap setup.hidden \subseteq {t}
             /\ \A r \in read : LineOf[n] \notin DOMAIN r[2]
             /\ \E op \in ops : n \in Applies[op]
             => n \in recorded

\* A subtree owns its operators: a mutant's operator is in the list of the
\* nearest level that has a say and names operators, or, if there is none or
\* the setting is locked, in the root's; unless the policy requires it, for such
\* an operator would have to run whatever the levels say.
SubtreeOwnsItsOperators ==
  \A m \in {x \in mutants : x[2] \notin setup.policy.required} :
    LET f == FileOf[m[1]]
        owners == {d \in Dirs : Governs(d, f) /\ ~Locked("operators")
                                 /\ setup.subs[d].operators \cap (Ops \cup {"all"}) # {}}
    IN  IF owners = {} THEN m[2] \in ops
        ELSE \E d \in owners : /\ owners \subseteq Above[d]
                                /\ setup.subs[d].operators \cap {m[2], "all"} # {}

\* A line has no mutant if a comment without an operator stood above it whenever the
\* run read the file, whatever configuration selects operators.
IgnoredLinesHaveNoMutants ==
  \A m \in mutants : \E r \in read : r[1] = FileOf[m[1]] /\ All \notin At(r[2], LineOf[m[1]])

\* What the configuration file or a comment suppressed when the run read it is
\* suppressed by the configuration file when the run has written it, whatever
\* was edited in between.
Suppresses(map, l, d) == At(map, l) \cap {All, d, <<d[1], 0>>} # {}
SyncKeepsSuppressions ==
  [][pc = "test" /\ disk' # disk /\ edits' = edits =>
       \A l \in Lines, d \in Directives :
         Suppresses(began, l, d) \/ (\E r \in read : Suppresses(r[2], l, d))
           => Suppresses(SetSuppressEntries(disk'), l, d)]_vars

\* orgpolicy.go: forbidden_operators "lists operators that must never run".
ForbiddenNeverRun == \A m \in mutants : m[2] \notin setup.policy.forbidden

\* README: an entry under suppress: without operators suppresses all of them.
EntriesSuppress == \A m \in mutants : All \notin At(began, LineOf[m[1]])
=============================================================================
