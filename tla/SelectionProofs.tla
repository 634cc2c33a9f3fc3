--------------------------- MODULE SelectionProofs ---------------------------
(***************************************************************************)
(* Theorems about Selection, for any project, sources and edits.           *)
(***************************************************************************)
EXTENDS Selection, FiniteSetTheorems, WellFoundedInduction, TLAPS

\* A site is recorded by a reading of its file that found not all of its line ignored.
RecordedIsRead ==
  \A n \in recorded :
    n \in Nodes /\ \E r \in read : r[1] = FileOf[n] /\ All \notin At(r[2], LineOf[n])

\* The mutants are at selected sites, the selected sites recorded ones; there is
\* nothing of either before the step that makes it.
FromRecorded ==
  /\ sites \subseteq recorded
  /\ \A m \in mutants : m[1] \in sites
  /\ pc = "traverse" => sites = {}
  /\ pc \in {"traverse", "generate"} => mutants = {}

\* What was suppressed when the run read it is in the engine's directives.
ReadIsIgnored ==
  pc # "idle" => \A l : /\ At(began, l) \subseteq At(ignore, l)
                        /\ \A r \in read : At(r[2], l) \subseteq At(ignore, l)

IInv ==
  /\ setup \in Setups
  /\ pc \in {"idle", "traverse", "generate", "test"}
  /\ ops \subseteq Ops /\ edits \in Nat
  /\ RecordedIsRead /\ FromRecorded /\ ReadIsIgnored
  /\ SubtreeOwnsItsOperators

-----------------------------------------------------------------------------
(* Maps of directives.                                                      *)

LEMMA MergedAt == ASSUME NEW a, NEW b, NEW l PROVE At(Merged(a, b), l) = At(a, l) \cup At(b, l)
BY DEF At, Merged

\* SyncSuppressions writes what its reading back suppresses again.
LEMMA BuildKeeps ==
  ASSUME NEW map, NEW l, NEW d, Suppresses(map, l, d)
  PROVE  Suppresses(SetSuppressEntries(buildSuppressEntries(map)), l, d)
<1>1. l \in DOMAIN map
  BY DEF Suppresses, At
<1>2. PICK x \in {All, d, <<d[1], 0>>} : x \in map[l]
  BY <1>1 DEF Suppresses, At
<1>3. At(SetSuppressEntries(buildSuppressEntries(map)), l)
        = IF All \in map[l] THEN {All} ELSE map[l]
  BY <1>1, <1>2 DEF SetSuppressEntries, buildSuppressEntries, At
<1> QED BY <1>2, <1>3 DEF Suppresses

-----------------------------------------------------------------------------
(* Precedence.                                                              *)

\* The levels whose operators count for a file are those that have a say.
LEMMA ChainGoverns ==
  ASSUME setup \in Setups, NEW f \in Files, NEW d
  PROVE  d \in chain(setup.subs, setup.mode, f) <=> Governs(d, f)
<1> DEFINE above == Above[DirOf[f]] \cap DOMAIN setup.subs
<1>1. DirOf[f] \in Dirs
  BY ConfigurationAssumption
<1>2. \A e, g \in above : e \in Above[g] \/ g \in Above[e]
  BY <1>1, ConfigurationAssumption
<1>3. \A e \in above : e \in Above[e]
  BY <1>1, ConfigurationAssumption
<1>4. \A e, g \in above : e \in Above[g] /\ g \in Above[e] => e = g
  BY <1>1, ConfigurationAssumption
<1>5. ASSUME d \in above
      PROVE  d \in Deepest(above) <=> ~ \E e \in above : e # d /\ d \in Above[e]
  <2>1. d \in Deepest(above) <=> above \subseteq Above[d]
    BY <1>5 DEF Deepest
  <2> QED BY <1>2, <1>3, <1>4, <1>5, <2>1
<1>6. d \in chain(setup.subs, setup.mode, f) <=>
        d \in above /\ (setup.mode = "isolate" => d = DirOf[f])
                    /\ (setup.mode = "replace" => d \in Deepest(above))
  BY DEF chain
<1>7. Governs(d, f) <=>
        d \in above /\ (setup.mode = "isolate" => d = DirOf[f])
                    /\ (setup.mode = "replace" => ~ \E e \in above : e # d /\ d \in Above[e])
  BY DEF Governs
<1> QED BY <1>5, <1>6, <1>7

\* A rule never adds an operator.
LEMMA RulesRestrict ==
  ASSUME NEW f, NEW rules, NEW base, NEW locked
  PROVE  effectiveOperators(setup.subs, setup.mode, locked, f, rules, base) \subseteq base
<1>1. \A rule : Restricted(base, rule) \subseteq base
  BY DEF Restricted
<1> QED BY <1>1 DEF effectiveOperators

\* The property SubtreeOwnsItsOperators, for an operator at a site.
LEMMA OwnedOperators ==
  ASSUME setup \in Setups, ops \subseteq Ops, NEW n \in Nodes, NEW op \in OperatorsAt(n)
  PROVE  LET f == FileOf[n]
             owners == {d \in Dirs : Governs(d, f) /\ ~Locked("operators")
                                      /\ setup.subs[d].operators \cap (Ops \cup {"all"}) # {}}
         IN  IF owners = {} THEN op \in ops
             ELSE \E d \in owners : /\ owners \subseteq Above[d]
                                     /\ setup.subs[d].operators \cap {op, "all"} # {}
<1> DEFINE f == FileOf[n]
           locked == setup.policy.locked
           owners == {d \in Dirs : Governs(d, f) /\ ~Locked("operators")
                                    /\ setup.subs[d].operators \cap (Ops \cup {"all"}) # {}}
           named == {d \in chain(setup.subs, setup.mode, f) :
                       resolveOperatorNames(Said(setup.subs, locked, d).operators) # {}}
<1>1. f \in Files
  BY SelectionAssumption
<1>2. op \in EffectiveOperators(setup.subs, setup.mode, locked, f, ops)
  BY RulesRestrict DEF OperatorsAt
<1>3. \A d : Said(setup.subs, locked, d).operators
               = IF Locked("operators") THEN {} ELSE setup.subs[d].operators
  BY DEF Said, ApplyToSubConfig, Locked
<1>4. \A names : resolveOperatorNames(names) # {} => names \cap (Ops \cup {"all"}) # {}
  BY DEF resolveOperatorNames
<1>5. \A names : op \in resolveOperatorNames(names) => names \cap {op, "all"} # {}
  BY DEF resolveOperatorNames
<1>6. \A d : Governs(d, f) => d \in Dirs
  BY SelectionAssumption DEF Governs
<1>7. named \subseteq owners
  BY <1>1, <1>3, <1>4, <1>6, ChainGoverns
<1>8. CASE named = {}
  <2>1. op \in ops
    BY <1>2, <1>8 DEF EffectiveOperators
  <2>2. owners = {}
    <3> SUFFICES ASSUME NEW d \in owners PROVE FALSE
      OBVIOUS
    <3>1. d \in chain(setup.subs, setup.mode, f)
      BY <1>1, ChainGoverns
    <3>2. resolveOperatorNames(setup.subs[d].operators) = {}
      BY <1>3, <1>8, <3>1
    <3> QED BY <2>1, <3>2 DEF resolveOperatorNames
  <2> QED BY <2>1, <2>2
<1>9. CASE named # {}
  <2>1. PICK d \in Deepest(named) :
          op \in resolveOperatorNames(Said(setup.subs, locked, d).operators)
    BY <1>2, <1>9 DEF EffectiveOperators
  <2>2. d \in owners /\ named \subseteq Above[d]
    BY <1>7, <2>1 DEF Deepest
  <2>3. setup.subs[d].operators \cap {op, "all"} # {}
    BY <1>3, <1>5, <2>1, <2>2
  <2>4. owners \subseteq Above[d]
    <3> SUFFICES ASSUME NEW e \in owners PROVE e \in Above[d]
      OBVIOUS
    <3>1. e \in named
      <4>1. e \in chain(setup.subs, setup.mode, f)
        BY <1>1, ChainGoverns
      <4>2. Said(setup.subs, locked, e).operators = setup.subs[e].operators
        BY <1>3
      <4>3. Ops # {}
        BY <2>1 DEF resolveOperatorNames
      <4> QED BY <4>1, <4>2, <4>3 DEF resolveOperatorNames
    <3> QED BY <2>2, <3>1
  <2> QED BY <1>9, <2>2, <2>3, <2>4
<1> QED BY <1>8, <1>9

-----------------------------------------------------------------------------
(* The invariant.                                                           *)

LEMMA Initially == Init => IInv
BY DEF Init, None, IInv, RecordedIsRead, FromRecorded, ReadIsIgnored,
       SubtreeOwnsItsOperators

\* A step that leaves a run's state alone.
LEMMA Unmoved ==
  ASSUME IInv, UNCHANGED <<setup, pc, runVars, began, read>>, edits' \in Nat
  PROVE  IInv'
BY DEF runVars, IInv, RecordedIsRead, FromRecorded, ReadIsIgnored,
       SubtreeOwnsItsOperators, Governs, Locked

LEMMA StartStep == ASSUME IInv, Start PROVE IInv'
<1>1. (ops \subseteq Ops)'
  <2>1. \A name \in Ops \cup DOMAIN categoryMap : GetCategory(name) \subseteq Ops
    BY ConfigurationAssumption DEF GetCategory
  <2> QED BY <2>1 DEF Start, Unparsable, ParseOperators
<1>2. ReadIsIgnored'
  <2>1. \A l : At(None, l) = {}
    BY DEF At, None
  <2> QED BY <2>1 DEF Start, ReadIsIgnored, At
<1> QED BY <1>1, <1>2 DEF Start, IInv, RecordedIsRead, FromRecorded, SubtreeOwnsItsOperators

\* The new sites of a file are on lines whose comments let an operator pass.
LEMMA ProcessFileStep ==
  ASSUME IInv, NEW t \in setup.targets, NEW f \in Files, ProcessFile(t, f)
  PROVE  IInv'
<1> DEFINE ignoreMap == parseIgnoreComments(In(comments, f))
<1>1. /\ pc = "traverse"
      /\ ignore' = Merged(ignore, ignoreMap) /\ read' = read \cup {<<f, ignoreMap>>}
      /\ recorded' = recorded \cup
           {n \in Nodes : FileOf[n] = f /\ \E op \in ops : n \in Applies[op] /\ ~isIgnored(ignoreMap, n, op)}
      /\ UNCHANGED <<setup, disk, comments, pc, cfg, ops, sites, mutants, runs, edits, began>>
  BY DEF ProcessFile
<1>2. \A l : At(ignore', l) = At(ignore, l) \cup At(ignoreMap, l)
  BY <1>1, MergedAt
<1> HIDE DEF ignoreMap
<1>3. ReadIsIgnored'
  BY <1>1, <1>2 DEF IInv, ReadIsIgnored
<1>4. ASSUME NEW n \in recorded'
      PROVE  n \in Nodes /\ \E r \in read' : r[1] = FileOf[n] /\ All \notin At(r[2], LineOf[n])
  <2>1. CASE n \in recorded
    BY <1>1, <2>1 DEF IInv, RecordedIsRead
  <2>2. CASE n \notin recorded
    <3>1. n \in Nodes /\ FileOf[n] = f /\ \E op \in ops : ~isIgnored(ignoreMap, n, op)
      BY <1>1, <2>2
    <3>2. All \notin At(ignoreMap, LineOf[n])
      BY <3>1 DEF isIgnored
    <3>3. <<f, ignoreMap>> \in read' /\ <<f, ignoreMap>>[1] = f /\ <<f, ignoreMap>>[2] = ignoreMap
      BY <1>1
    <3> QED BY <3>1, <3>2, <3>3
  <2> QED BY <2>1, <2>2
<1>5. RecordedIsRead'
  BY <1>4 DEF RecordedIsRead
<1>6. FromRecorded'
  BY <1>1 DEF IInv, FromRecorded
<1>7. SubtreeOwnsItsOperators'
  BY <1>1 DEF IInv, SubtreeOwnsItsOperators, Governs, Locked
<1> QED BY <1>1, <1>3, <1>5, <1>6, <1>7 DEF IInv

\* Each mutant is at a selected site, with an operator that the levels allow.
LEMMA GenerateMutantsStep == ASSUME IInv, GenerateMutants PROVE IInv'
<1>1. PICK T \in Firsts(sites) : mutants' = UNION {MutantsAt(n) : n \in T}
  BY DEF GenerateMutants
<1>2. /\ pc = "generate" /\ pc' \in {"idle", "test"}
      /\ UNCHANGED <<setup, disk, comments, cfg, ops, ignore, todo, recorded, sites, runs, edits, began, read>>
  BY DEF GenerateMutants
<1>3. T \subseteq FirstOf(sites) /\ T \subseteq sites
  BY DEF Firsts, FirstOf
<1>4. \A m \in mutants' : m[1] \in T /\ m[2] \in OperatorsAt(m[1])
  BY <1>1 DEF MutantsAt
<1>6. SubtreeOwnsItsOperators'
  <2> SUFFICES ASSUME NEW m \in mutants'
               PROVE (LET f == FileOf[m[1]]
                          owners == {d \in Dirs : Governs(d, f) /\ ~Locked("operators")
                                          /\ setup.subs[d].operators \cap (Ops \cup {"all"}) # {}}
                      IN  IF owners = {} THEN m[2] \in ops
                          ELSE \E d \in owners : /\ owners \subseteq Above[d]
                                                  /\ setup.subs[d].operators \cap {m[2], "all"} # {})
    BY <1>2 DEF SubtreeOwnsItsOperators, Governs, Locked
  <2>1. m[1] \in Nodes
    BY <1>3, <1>4 DEF IInv, FromRecorded, RecordedIsRead
  <2> QED BY <1>4, <2>1, OwnedOperators DEF IInv
<1>7. FromRecorded'
  BY <1>2, <1>3, <1>4 DEF IInv, FromRecorded
<1>8. RecordedIsRead' /\ ReadIsIgnored'
  BY <1>2 DEF IInv, RecordedIsRead, ReadIsIgnored
<1> QED BY <1>2, <1>6, <1>7, <1>8 DEF IInv

LEMMA Inductive == IInv /\ [Next]_vars => IInv'
<1> SUFFICES ASSUME IInv, [Next]_vars PROVE IInv'
  OBVIOUS
<1> USE DEF IInv, RecordedIsRead, FromRecorded, ReadIsIgnored
<1>1. CASE Start
  BY <1>1, StartStep
<1>2. CASE StartFails
  BY <1>2 DEF StartFails, SubtreeOwnsItsOperators
<1>3. CASE RunFails
  BY <1>3 DEF RunFails, runVars, SubtreeOwnsItsOperators, Governs, Locked
<1>4. ASSUME NEW t \in setup.targets, NEW f \in Files, ProcessFile(t, f) PROVE IInv'
  BY <1>4, ProcessFileStep
<1>5. ASSUME NEW t \in setup.targets, NEW f \in Files, SkipFile(t, f) PROVE IInv'
  BY <1>5 DEF SkipFile, SubtreeOwnsItsOperators, Governs, Locked
<1>6. CASE SelectSites
  BY <1>6 DEF SelectSites, SubtreeOwnsItsOperators, Governs, Locked
<1>7. CASE GenerateMutants
  BY <1>7, GenerateMutantsStep
<1>8. CASE FinishAndSync
  BY <1>8 DEF FinishAndSync, runVars, SubtreeOwnsItsOperators, Governs, Locked
<1>9. CASE Edit
  <2>1. edits' \in Nat /\ UNCHANGED <<setup, pc, runVars, began, read>>
    BY <1>9 DEF Edit, AddEntry, AddComment, RemoveComments
  <2> QED BY <2>1, Unmoved
<1>10. CASE UNCHANGED vars
  BY <1>10, Unmoved DEF vars, runVars
<1> QED BY <1>1, <1>2, <1>3, <1>4, <1>5, <1>6, <1>7, <1>8, <1>9, <1>10 DEF Next, Run

LEMMA Invariant == Spec => []IInv
<1>1. Init => IInv
  BY Initially
<1>2. IInv /\ [Next]_vars => IInv'
  BY Inductive
<1> QED BY <1>1, <1>2, PTL DEF Spec

-----------------------------------------------------------------------------
(* Natural numbers and recursion.                                           *)

\* Among natural numbers there is a least one.
LEMMA SmallestNat ==
  ASSUME NEW T \in SUBSET Nat, T # {}
  PROVE  \E n \in T : \A m \in T : n <= m
<1> DEFINE R == OpToRel(<, Nat)
<1>1. IsWellFoundedOn(R, Nat)
  BY NatLessThanWellFounded, Zenon
<1>2. \A m, n \in Nat : m < n => <<m, n>> \in R
  BY DEF OpToRel
<1> HIDE DEF R
<1>3. PICK n \in T : \A m \in T : ~(<<m, n>> \in R)
  BY <1>1, WFMin
<1>4. ASSUME NEW m \in T PROVE n <= m
  <2>1. m \in Nat /\ n \in Nat /\ ~(m < n)
    BY <1>2, <1>3
  <2> QED BY <2>1
<1> QED BY <1>4

\* Induction, for a set instead of a predicate: so stated it can be cited.
LEMMA Induction ==
  ASSUME NEW T, 0 \in T, \A n \in Nat : n \in T => n + 1 \in T
  PROVE  Nat \subseteq T
<1> SUFFICES ASSUME Nat \ T # {} PROVE FALSE
  OBVIOUS
<1>1. PICK n \in Nat \ T : \A m \in Nat \ T : n <= m
  BY SmallestNat
<1>2. n - 1 \in Nat /\ n - 1 \notin T
  BY <1>1
<1> QED BY <1>1, <1>2

\* A step function on X, and n steps from first on.
IsStep(step, X, n) == step \in [X \X (1 .. n) -> X]
IsRun(f, X, first, n, step) ==
  f \in [0 .. n -> X] /\ f[0] = first /\ \A j \in 1 .. n : f[j] = step[<<f[j - 1], j>>]

\* What is defined from step to step exists.
LEMMA Recursion ==
  ASSUME NEW X, NEW first, NEW n, NEW step, IsStep(step, X, n), n \in Nat, first \in X
  PROVE  \E f : IsRun(f, X, first, n, step)
<1> DEFINE T == {k \in Nat : k <= n => \E f : IsRun(f, X, first, k, step)}
<1> USE DEF IsStep, IsRun
<1>1. 0 \in T
  <2>1. IsRun([j \in {0} |-> first], X, first, 0, step)
    OBVIOUS
  <2> QED BY <2>1
<1>2. ASSUME NEW k \in Nat, k \in T PROVE k + 1 \in T
  <2> SUFFICES ASSUME k + 1 <= n PROVE \E f : IsRun(f, X, first, k + 1, step)
    OBVIOUS
  <2>1. PICK f : IsRun(f, X, first, k, step)
    BY <1>2
  <2>2. f[k] \in X /\ k + 1 \in 1 .. n
    BY <2>1
  <2> DEFINE last == step[<<f[k], k + 1>>]
             g == [j \in 0 .. k + 1 |-> IF j = k + 1 THEN last ELSE f[j]]
  <2>3. last \in X
    BY <2>2
  <2>4. \A j \in 0 .. k : g[j] = f[j] /\ f[j] \in X
    BY <2>1
  <2>5. g[k + 1] = last
    OBVIOUS
  <2>6. g \in [0 .. k + 1 -> X] /\ g[0] = first
    BY <2>1, <2>3, <2>4
  <2>7. ASSUME NEW j \in 1 .. k + 1 PROVE g[j] = step[<<g[j - 1], j>>]
    <3>1. CASE j = k + 1
      <4>1. j - 1 = k /\ k \in 0 .. k
        BY <3>1
      <4>2. g[j - 1] = f[k]
        BY <2>4, <4>1
      <4> QED BY <2>5, <3>1, <4>2
    <3>2. CASE j # k + 1
      <4>1. j \in 1 .. k /\ j - 1 \in 0 .. k /\ j \in 0 .. k
        BY <3>2
      <4> HIDE DEF g
      <4> QED BY <2>1, <2>4, <4>1
    <3> QED BY <3>1, <3>2
  <2> HIDE DEF g
  <2> QED BY <2>6, <2>7
<1>3. n \in T
  <2> HIDE DEF T
  <2> QED BY <1>1, <1>2, Induction
<1> QED BY <1>3

-----------------------------------------------------------------------------
(* The diff.                                                                *)

\* What the fields of a hunk are.
LEMMA HunkFields ==
  ASSUME NEW h \in Hunk
  PROVE  /\ h.start \in Nat /\ h.file \in Files \cup {Unset}
         /\ Len(h.body) \in Nat /\ DOMAIN h.body = 1 .. Len(h.body)
         /\ \A j \in 1 .. Len(h.body) : h.body[j] \in Kinds
BY DEF Hunk

\* Where parse is in a diff.
DiffState == [file : Files \cup {Unset}, newLine : Nat, result : SUBSET (Files \X Nat)]

\* What a line that is no header does.
LEMMA LineStep ==
  ASSUME NEW s \in DiffState, NEW kind, kind \notin {"newFile", "hunk"},
         NEW t, t = parseLine(s, Line(kind))
  PROVE  /\ t \in DiffState
         /\ t.file = s.file
         /\ t.newLine = IF kind = "added" \/ (kind \in {"context", "dashes"} /\ s.file # Unset)
                        THEN s.newLine + 1 ELSE s.newLine
         /\ t.result = IF kind = "added" THEN s.result \cup ({s.file} \ {Unset}) \X {s.newLine}
                       ELSE s.result
<1>1. /\ t.file = s.file
      /\ t.newLine = IF kind = "added" \/ (kind \in {"context", "dashes"} /\ s.file # Unset)
                     THEN s.newLine + 1 ELSE s.newLine
      /\ t.result = IF kind = "added" THEN s.result \cup ({s.file} \ {Unset}) \X {s.newLine} ELSE s.result
  BY DEF parseLine, Line
<1>2. t = [file |-> t.file, newLine |-> t.newLine, result |-> t.result]
  BY DEF parseLine
<1>3. t.file \in Files \cup {Unset} /\ t.newLine \in Nat
  BY <1>1 DEF DiffState
<1>4. t.result \in SUBSET (Files \X Nat)
  BY <1>1 DEF DiffState
<1>5. t \in DiffState
  BY <1>2, <1>3, <1>4 DEF DiffState
<1> QED BY <1>1, <1>5

\* After the header of a hunk its file and its first line are known.
LEMMA HeaderStep ==
  ASSUME NEW s \in DiffState, NEW h \in Hunk
  PROVE  LET t == parseHeader(s, h)
         IN  t \in DiffState /\ t.file = h.file /\ t.newLine = h.start /\ t.result = s.result
<1> DEFINE t == parseHeader(s, h)
<1>1. t = [file |-> h.file, newLine |-> h.start, result |-> s.result]
  BY DEF parseHeader, parseLine, Line
<1> QED BY <1>1 DEF DiffState, Hunk

\* The lines up to the j-th that the new file has, and the added lines of a hunk.
Counted(h, j) == {k \in 1 .. j : h.body[k] \in {"added", "context"}}
Added(h) ==
  {<<h.file, h.start + Cardinality(Counted(h, j - 1))>> : j \in {k \in DOMAIN h.body : h.body[k] = "added"}}

\* One line more is one more in the new file, or none.
LEMMA CountedStep ==
  ASSUME NEW h \in Hunk, NEW j \in 1 .. Len(h.body)
  PROVE  /\ Cardinality(Counted(h, j - 1)) \in Nat
         /\ Cardinality(Counted(h, j)) = Cardinality(Counted(h, j - 1))
              + IF h.body[j] \in {"added", "context"} THEN 1 ELSE 0
<1>0. Len(h.body) \in Nat
  BY HunkFields
<1>1. j \in Nat /\ j > 0 /\ 1 \in Int /\ j - 1 \in Int
  BY <1>0
<1>2. IsFiniteSet(1 .. j - 1)
  BY <1>1, FS_Interval
<1>3. Counted(h, j - 1) \in SUBSET (1 .. j - 1)
  BY DEF Counted
<1>4. IsFiniteSet(Counted(h, j - 1))
  BY <1>2, <1>3, FS_Subset
<1>5. Cardinality(Counted(h, j - 1)) \in Nat
  BY <1>4, FS_CardinalityType
<1>6. j \notin Counted(h, j - 1)
  BY <1>1, <1>3
<1>7. 1 .. j = (1 .. j - 1) \cup {j}
  BY <1>1
<1>8. Counted(h, j) = IF h.body[j] \in {"added", "context"} THEN Counted(h, j - 1) \cup {j}
                      ELSE Counted(h, j - 1)
  BY <1>7 DEF Counted
<1> DEFINE c == Cardinality(Counted(h, j - 1))
<1>9. CASE h.body[j] \in {"added", "context"}
  <2>1. Cardinality(Counted(h, j - 1) \cup {j}) = Cardinality(Counted(h, j - 1)) + 1
    BY <1>4, <1>6, FS_AddElement
  <2> QED BY <1>5, <1>8, <1>9, <2>1
<1>10. CASE h.body[j] \notin {"added", "context"}
  BY <1>5, <1>8, <1>10
<1> QED BY <1>9, <1>10

\* The states between the lines of a hunk.
LEMMA HunkRuns ==
  ASSUME NEW s \in DiffState, NEW h \in Hunk
  PROVE  \E after \in [0 .. Len(h.body) -> DiffState] :
           /\ after[0] = parseHeader(s, h)
           /\ \A j \in 1 .. Len(h.body) : after[j] = parseLine(after[j - 1], Line(h.body[j]))
           /\ parseHunk(s, h) = after[Len(h.body)]
<1> DEFINE n == Len(h.body)
           first == parseHeader(s, h)
           Step(x, j) == parseLine(x, Line(h.body[j]))
           Body(g) == [j \in 0 .. n |-> IF j = 0 THEN first ELSE Step(g[j - 1], j)]
           after == CHOOSE g : g = Body(g)
           step == [x \in DiffState \X (1 .. n) |-> Step(x[1], x[2])]
<1>1. n \in Nat /\ \A j \in 1 .. n : h.body[j] \notin {"newFile", "hunk"}
  BY HunkFields DEF Kinds
<1>2. first \in DiffState
  BY HeaderStep
<1>3. \A x \in DiffState, j \in 1 .. n : Step(x, j) \in DiffState
  BY <1>1, LineStep
<1>4. parseHunk(s, h) = after[n]
  BY DEF parseHunk
<1> HIDE DEF n, first, Step
<1>5. step \in [DiffState \X (1 .. n) -> DiffState]
  BY <1>3
<1>6. \A x \in DiffState, j \in 1 .. n : step[<<x, j>>] = Step(x, j)
  OBVIOUS
<1> HIDE DEF step
<1>7. PICK f : IsRun(f, DiffState, first, n, step)
  <2>1. n \in Nat /\ first \in DiffState /\ IsStep(step, DiffState, n)
    BY <1>1, <1>2, <1>5 DEF IsStep
  <2> QED BY <2>1, Recursion
<1>8. f = Body(f)
  <2>1. ASSUME NEW j \in 0 .. n PROVE f[j] = IF j = 0 THEN first ELSE Step(f[j - 1], j)
    <3>1. CASE j = 0
      BY <1>7, <3>1 DEF IsRun
    <3>2. CASE j # 0
      <4>1. j \in 1 .. n /\ j - 1 \in 0 .. n
        BY <1>1, <3>2
      <4>2. f[j - 1] \in DiffState
        BY <1>7, <4>1 DEF IsRun
      <4> QED BY <1>6, <1>7, <3>2, <4>1, <4>2 DEF IsRun
    <3> QED BY <3>1, <3>2
  <2>2. DOMAIN f = 0 .. n /\ f = [j \in DOMAIN f |-> f[j]]
    BY <1>7 DEF IsRun
  <2> QED BY <2>1, <2>2
<1>9. after = Body(after)
  BY <1>8
<1> HIDE DEF after
<1>10. DOMAIN after = 0 .. n /\ after[0] = first /\ \A j \in 1 .. n : after[j] = Step(after[j - 1], j)
  BY <1>1, <1>9
<1>11. \A j \in 0 .. n : after[j] \in DiffState
  <2> DEFINE T == {j \in Nat : j <= n => after[j] \in DiffState}
  <2>1. 0 \in T
    BY <1>2, <1>10
  <2>2. ASSUME NEW j \in Nat, j \in T PROVE j + 1 \in T
    <3> SUFFICES ASSUME j + 1 <= n PROVE after[j + 1] \in DiffState
      OBVIOUS
    <3>1. j + 1 \in 1 .. n /\ after[j] \in DiffState /\ (j + 1) - 1 = j
      BY <1>1, <2>2
    <3> QED BY <1>3, <1>10, <3>1
  <2>3. Nat \subseteq T
    <3> HIDE DEF T
    <3> QED BY <2>1, <2>2, Induction
  <2> QED BY <1>1, <2>3
<1>12. after \in [0 .. n -> DiffState]
  BY <1>9, <1>11
<1> QED BY <1>4, <1>10, <1>12 DEF n, first, Step

\* A hunk adds nothing but its added lines, at the numbers they have in the new file.
LEMMA HunkAdds ==
  ASSUME NEW s \in DiffState, NEW h \in Hunk
  PROVE  /\ parseHunk(s, h) \in DiffState
         /\ "dashes" \notin Range(h.body) => parseHunk(s, h).result \subseteq s.result \cup Added(h)
<1> DEFINE n == Len(h.body)
<1>1. PICK after \in [0 .. n -> DiffState] :
           /\ after[0] = parseHeader(s, h)
           /\ \A j \in 1 .. n : after[j] = parseLine(after[j - 1], Line(h.body[j]))
           /\ parseHunk(s, h) = after[n]
  BY HunkRuns
<1>2. n \in Nat /\ DOMAIN h.body = 1 .. n /\ h.start \in Nat
      /\ \A j \in 1 .. n : h.body[j] \in Kinds
  BY HunkFields
<1>3. parseHunk(s, h) \in DiffState
  BY <1>1, <1>2
<1> SUFFICES ASSUME "dashes" \notin Range(h.body)
             PROVE  parseHunk(s, h).result \subseteq s.result \cup Added(h)
  BY <1>3
<1>4. \A j \in 1 .. n : h.body[j] # "dashes"
  BY <1>2 DEF Range
<1> DEFINE Sound(j) == /\ after[j].file = h.file
                       /\ h.file # Unset => after[j].newLine = h.start + Cardinality(Counted(h, j))
                       /\ after[j].result \subseteq s.result \cup Added(h)
           T == {j \in Nat : j <= n => Sound(j)}
<1>5. Sound(0)
  <2>1. Counted(h, 0) = {}
    BY DEF Counted
  <2>2. Cardinality(Counted(h, 0)) = 0
    BY <2>1, FS_EmptySet
  <2> QED BY <1>1, <1>2, <2>2, HeaderStep
<1>6. ASSUME NEW j \in Nat, j + 1 <= n, Sound(j) PROVE Sound(j + 1)
  <2> DEFINE i == j + 1
             kind == h.body[i]
             c == Cardinality(Counted(h, j))
  <2>1. i \in 1 .. n /\ i - 1 = j /\ j \in 0 .. n
    BY <1>2, <1>6
  <2>2. after[j] \in DiffState /\ after[i] = parseLine(after[j], Line(kind))
    BY <1>1, <2>1
  <2>3. kind \in Kinds \ {"dashes"}
    BY <1>2, <1>4, <2>1
  <2>4. /\ after[i].file = after[j].file
        /\ after[i].newLine = IF kind = "added" \/ (kind \in {"context", "dashes"} /\ after[j].file # Unset)
                              THEN after[j].newLine + 1 ELSE after[j].newLine
        /\ after[i].result = IF kind = "added"
                             THEN after[j].result \cup ({after[j].file} \ {Unset}) \X {after[j].newLine}
                             ELSE after[j].result
    <3>1. kind \notin {"newFile", "hunk"}
      BY <2>3 DEF Kinds
    <3> DEFINE x == after[j]
               y == after[i]
    <3>2. x \in DiffState /\ y = parseLine(x, Line(kind))
      BY <2>2
    <3> HIDE DEF kind, i, x, y
    <3>3. /\ y.file = x.file
          /\ y.newLine = IF kind = "added" \/ (kind \in {"context", "dashes"} /\ x.file # Unset)
                         THEN x.newLine + 1 ELSE x.newLine
          /\ y.result = IF kind = "added" THEN x.result \cup ({x.file} \ {Unset}) \X {x.newLine}
                        ELSE x.result
      BY <3>1, <3>2, LineStep
    <3> QED BY <3>3 DEF x, y
  <2>5. c \in Nat /\ Cardinality(Counted(h, i)) = c + IF kind \in {"added", "context"} THEN 1 ELSE 0
    BY <2>1, CountedStep
  <2>6. h.file # Unset => after[i].newLine = h.start + Cardinality(Counted(h, i))
    <3> HIDE DEF kind, i, c
    <3> SUFFICES ASSUME h.file # Unset PROVE after[i].newLine = h.start + Cardinality(Counted(h, i))
      OBVIOUS
    <3>1. after[j].newLine = h.start + c /\ after[j].file # Unset
      BY <1>6 DEF c
    <3>2. CASE kind \in {"added", "context"}
      <4>1. after[i].newLine = after[j].newLine + 1
        BY <2>4, <3>1, <3>2
      <4> QED BY <1>2, <2>5, <3>1, <3>2, <4>1
    <3>3. CASE kind \notin {"added", "context"}
      <4>1. after[i].newLine = after[j].newLine
        BY <2>3, <2>4, <3>3
      <4> QED BY <1>2, <2>5, <3>1, <3>3, <4>1
    <3> QED BY <3>2, <3>3
  <2>7. after[i].result \subseteq s.result \cup Added(h)
    <3>1. CASE kind = "added" /\ h.file # Unset
      <4>1. <<h.file, h.start + Cardinality(Counted(h, i - 1))>> \in Added(h)
        BY <1>2, <2>1, <3>1 DEF Added
      <4>2. after[i].result = after[j].result \cup {<<h.file, h.start + c>>}
        BY <1>6, <2>4, <3>1
      <4> QED BY <1>6, <2>1, <4>1, <4>2
    <3>2. CASE ~(kind = "added" /\ h.file # Unset)
      BY <1>6, <2>4, <3>2
    <3> QED BY <3>1, <3>2
  <2> QED BY <1>6, <2>4, <2>6, <2>7
<1>7. Nat \subseteq T
  <2> HIDE DEF Sound
  <2>1. 0 \in T /\ \A j \in Nat : j \in T => j + 1 \in T
    BY <1>2, <1>5, <1>6
  <2> HIDE DEF T
  <2> QED BY <2>1, Induction
<1>8. Sound(n)
  <2> HIDE DEF Sound
  <2> QED BY <1>2, <1>7
<1> QED BY <1>1, <1>8

\* The states between the hunks of a diff.
LEMMA DiffRuns ==
  ASSUME NEW hunks \in Seq(Hunk)
  PROVE  \E after \in [0 .. Len(hunks) -> DiffState] :
           /\ after[0].result = {}
           /\ \A i \in 1 .. Len(hunks) : after[i] = parseHunk(after[i - 1], hunks[i])
           /\ parse(hunks) = after[Len(hunks)].result
<1> DEFINE n == Len(hunks)
           first == [file |-> Unset, newLine |-> 0, result |-> {}]
           Step(x, i) == parseHunk(x, hunks[i])
           Body(g) == [i \in 0 .. n |-> IF i = 0 THEN first ELSE Step(g[i - 1], i)]
           after == CHOOSE g : g = Body(g)
           step == [x \in DiffState \X (1 .. n) |-> Step(x[1], x[2])]
<1>1. n \in Nat /\ \A i \in 1 .. n : hunks[i] \in Hunk
  OBVIOUS
<1>2. first \in DiffState /\ first.result = {}
  BY DEF DiffState
<1>3. \A x \in DiffState, i \in 1 .. n : Step(x, i) \in DiffState
  BY <1>1, HunkAdds
<1>4. parse(hunks) = after[n].result
  BY DEF parse
<1> HIDE DEF n, first, Step
<1>5. step \in [DiffState \X (1 .. n) -> DiffState]
  BY <1>3
<1>6. \A x \in DiffState, i \in 1 .. n : step[<<x, i>>] = Step(x, i)
  OBVIOUS
<1> HIDE DEF step
<1>7. PICK f : IsRun(f, DiffState, first, n, step)
  <2>1. n \in Nat /\ first \in DiffState /\ IsStep(step, DiffState, n)
    BY <1>1, <1>2, <1>5 DEF IsStep
  <2> QED BY <2>1, Recursion
<1>8. f = Body(f)
  <2>1. ASSUME NEW i \in 0 .. n PROVE f[i] = IF i = 0 THEN first ELSE Step(f[i - 1], i)
    <3>1. CASE i = 0
      BY <1>7, <3>1 DEF IsRun
    <3>2. CASE i # 0
      <4>1. i \in 1 .. n /\ i - 1 \in 0 .. n
        BY <1>1, <3>2
      <4>2. f[i - 1] \in DiffState
        BY <1>7, <4>1 DEF IsRun
      <4> QED BY <1>6, <1>7, <3>2, <4>1, <4>2 DEF IsRun
    <3> QED BY <3>1, <3>2
  <2>2. DOMAIN f = 0 .. n /\ f = [i \in DOMAIN f |-> f[i]]
    BY <1>7 DEF IsRun
  <2> QED BY <2>1, <2>2
<1>9. after = Body(after)
  BY <1>8
<1> HIDE DEF after
<1>10. DOMAIN after = 0 .. n /\ after[0] = first /\ \A i \in 1 .. n : after[i] = Step(after[i - 1], i)
  BY <1>1, <1>9
<1>11. \A i \in 0 .. n : after[i] \in DiffState
  <2> DEFINE T == {i \in Nat : i <= n => after[i] \in DiffState}
  <2>1. 0 \in T
    BY <1>2, <1>10
  <2>2. ASSUME NEW i \in Nat, i \in T PROVE i + 1 \in T
    <3> SUFFICES ASSUME i + 1 <= n PROVE after[i + 1] \in DiffState
      OBVIOUS
    <3>1. i + 1 \in 1 .. n /\ after[i] \in DiffState /\ (i + 1) - 1 = i
      BY <1>1, <2>2
    <3> QED BY <1>3, <1>10, <3>1
  <2>3. Nat \subseteq T
    <3> HIDE DEF T
    <3> QED BY <2>1, <2>2, Induction
  <2> QED BY <1>1, <2>3
<1>12. after \in [0 .. n -> DiffState]
  BY <1>9, <1>11
<1> QED BY <1>2, <1>4, <1>10, <1>12 DEF n, Step

\* The lines of a diff are those that its hunks add.
LEMMA ParseAdds ==
  ASSUME NEW hunks \in Seq(Hunk), \A i \in DOMAIN hunks : "dashes" \notin Range(hunks[i].body)
  PROVE  parse(hunks) \subseteq AddedLines(hunks)
<1> DEFINE n == Len(hunks)
<1>1. PICK after \in [0 .. n -> DiffState] :
           /\ after[0].result = {}
           /\ \A i \in 1 .. n : after[i] = parseHunk(after[i - 1], hunks[i])
           /\ parse(hunks) = after[n].result
  BY DiffRuns
<1>2. n \in Nat /\ DOMAIN hunks = 1 .. n /\ \A i \in 1 .. n : hunks[i] \in Hunk
  OBVIOUS
<1>3. \A i \in 1 .. n : Added(hunks[i]) \subseteq AddedLines(hunks)
  BY <1>2 DEF AddedLines, Added, Counted
<1> DEFINE T == {i \in Nat : i <= n => after[i].result \subseteq AddedLines(hunks)}
<1>4. 0 \in T
  BY <1>1
<1>5. ASSUME NEW i \in Nat, i \in T PROVE i + 1 \in T
  <2> SUFFICES ASSUME i + 1 <= n PROVE after[i + 1].result \subseteq AddedLines(hunks)
    OBVIOUS
  <2> DEFINE j == i + 1
  <2>1. j \in 1 .. n /\ j - 1 = i /\ i \in 0 .. n /\ i <= n
    BY <1>2
  <2>2. after[i].result \subseteq AddedLines(hunks)
    BY <1>5, <2>1
  <2>3. after[i] \in DiffState /\ hunks[j] \in Hunk /\ after[j] = parseHunk(after[i], hunks[j])
    BY <1>1, <1>2, <2>1
  <2>4. "dashes" \notin Range(hunks[j].body)
    BY <1>2, <2>1
  <2> HIDE DEF j
  <2>5. after[j].result \subseteq after[i].result \cup Added(hunks[j])
    BY <2>3, <2>4, HunkAdds
  <2>6. after[j].result \subseteq AddedLines(hunks)
    BY <1>3, <2>1, <2>2, <2>5
  <2> QED BY <2>6 DEF j
<1>6. Nat \subseteq T
  <2> HIDE DEF T
  <2> QED BY <1>4, <1>5, Induction
<1> QED BY <1>1, <1>2, <1>6

-----------------------------------------------------------------------------
(* The filters.                                                             *)

\* What a level adds to the patterns, the patterns keep.
LEMMA SkipMonotone ==
  ASSUME NEW f, NEW P, NEW Q, P \subseteq Q, ~shouldSkip(f, Q)
  PROVE  ~shouldSkip(f, P)
BY DEF shouldSkip

\* FiltersHold for one site.
Passed(n) ==
  LET f == FileOf[n]
  IN  /\ ~shouldSkip(f, setup.root.skip \cup setup.policy.forcedSkip)
      /\ f \notin setup.root.exclude \cup setup.policy.forcedExclude
      /\ FuncOf[n] \notin setup.root.skip_func
      /\ setup.diff # Unset /\ (\A i \in DOMAIN setup.diff : "dashes" \notin Range(setup.diff[i].body)) =>
           LineOf[n] \in AddedLines(setup.diff)
      /\ \A d \in Dirs : Governs(d, f) =>
           /\ ~Locked("skip") => ~shouldSkip(f, setup.subs[d].skip)
           /\ ~Locked("exclude") => f \notin setup.subs[d].exclude
           /\ ~Locked("skip_func") => FuncOf[n] \notin setup.subs[d].skip_func

\* A site that passes the filters and the diff is kept out by none of the patterns that
\* govern its file.
LEMMA SelectedIsHeld ==
  ASSUME setup \in Setups, cfg = Apply(setup.root, setup.policy),
         NEW n \in Nodes, Selected(n), InDiff(n)
  PROVE  Passed(n)
<1> DEFINE f == FileOf[n]
           locked == setup.policy.locked
           levels == {cfg} \cup {Said(setup.subs, locked, d) : d \in chain(setup.subs, setup.mode, f)}
           filters == EffectiveFilters(setup.subs, setup.mode, locked, f, cfg)
<1>1. f \in Files
  BY SelectionAssumption
<1>2. /\ filters.skip = UNION {c.skip : c \in levels}
      /\ filters.exclude = UNION {c.exclude : c \in levels}
      /\ filters.skip_func = UNION {c.skip_func : c \in levels}
  BY DEF EffectiveFilters
<1>3. ~shouldSkip(f, filters.skip) /\ FuncOf[n] \notin filters.skip_func /\ f \notin filters.exclude
  BY DEF Selected, shouldSkipFunc, matchesAny
<1> HIDE DEF filters, levels
<1>4. \A c \in levels : /\ c.skip \subseteq filters.skip
                        /\ c.exclude \subseteq filters.exclude
                        /\ c.skip_func \subseteq filters.skip_func
  BY <1>2
<1>5. /\ cfg.skip = setup.root.skip \cup setup.policy.forcedSkip
      /\ cfg.exclude = setup.root.exclude \cup setup.policy.forcedExclude
      /\ cfg.skip_func = setup.root.skip_func
  <2>1. {"skip", "exclude", "skip_func"} \subseteq DOMAIN setup.root
    BY SelectionAssumption DEF SubConfig
  <2> QED BY <2>1 DEF Apply
<1>6. cfg \in levels
  BY DEF levels
<1>7. ~shouldSkip(f, cfg.skip) /\ FuncOf[n] \notin cfg.skip_func /\ f \notin cfg.exclude
  BY <1>3, <1>4, <1>6, SkipMonotone
<1>8. ASSUME setup.diff # Unset, \A i \in DOMAIN setup.diff : "dashes" \notin Range(setup.diff[i].body)
      PROVE  LineOf[n] \in AddedLines(setup.diff)
  <2>1. setup.diff \in Seq(Hunk)
    BY <1>8, SelectionAssumption
  <2>2. LineOf[n] \in parse(setup.diff)
    BY <1>8 DEF InDiff
  <2> QED BY <1>8, <2>1, <2>2, ParseAdds
<1>9. ASSUME NEW d \in Dirs, Governs(d, f)
      PROVE  /\ ~Locked("skip") => ~shouldSkip(f, setup.subs[d].skip)
             /\ ~Locked("exclude") => f \notin setup.subs[d].exclude
             /\ ~Locked("skip_func") => FuncOf[n] \notin setup.subs[d].skip_func
  <2> DEFINE c == Said(setup.subs, locked, d)
  <2>1. c \in levels
    BY <1>1, <1>9, ChainGoverns DEF levels
  <2>2. /\ ~Locked("skip") => c.skip = setup.subs[d].skip
        /\ ~Locked("exclude") => c.exclude = setup.subs[d].exclude
        /\ ~Locked("skip_func") => c.skip_func = setup.subs[d].skip_func
    BY DEF Said, ApplyToSubConfig, Locked
  <2> HIDE DEF c
  <2>3. ~shouldSkip(f, c.skip) /\ FuncOf[n] \notin c.skip_func /\ f \notin c.exclude
    BY <1>3, <1>4, <2>1, SkipMonotone
  <2> QED BY <2>2, <2>3
<1> QED BY <1>5, <1>7, <1>8, <1>9 DEF Passed

\* The configuration of a run under way, and of the sites it has left behind.
PolicyApplied == pc # "idle" \/ sites # {} => cfg = Apply(setup.root, setup.policy)

\* The sites are filtered with the configuration of this run, and kept while it lasts.
LEMMA FilterStep ==
  ASSUME IInv, PolicyApplied, FiltersHold, [Next]_vars
  PROVE  PolicyApplied' /\ FiltersHold'
<1> USE DEF PolicyApplied
<1>1. CASE SelectSites
  <2>1. sites' = {n \in recorded : Selected(n) /\ InDiff(n)} /\ cfg' = cfg /\ setup' = setup /\ pc = "traverse"
    BY <1>1 DEF SelectSites
  <2>2. cfg = Apply(setup.root, setup.policy) /\ setup \in Setups /\ recorded \subseteq Nodes
    BY <2>1 DEF IInv, RecordedIsRead
  <2>3. PolicyApplied'
    BY <2>1, <2>2
  <2>4. FiltersHold'
    <3>0. setup' = setup => \A n : Passed(n)' = Passed(n)
      BY DEF Passed, Governs, Locked
    <3> SUFFICES ASSUME NEW n \in sites' PROVE Passed(n)
      BY <2>1, <3>0 DEF FiltersHold, Passed
    <3>1. n \in Nodes /\ Selected(n) /\ InDiff(n)
      BY <2>1, <2>2
    <3> QED BY <2>2, <3>1, SelectedIsHeld
  <2> QED BY <2>3, <2>4
<1>2. CASE ~SelectSites
  <2>1. \/ setup' = setup /\ sites' = {} /\ cfg' = Apply(setup.root, setup.policy)
        \/ setup' = setup /\ sites' = sites /\ cfg' = cfg /\ (pc' # "idle" => pc # "idle")
    BY <1>2 DEF Next, Run, Start, StartFails, RunFails, ProcessFile, SkipFile, GenerateMutants, FinishAndSync,
       Edit, AddEntry, AddComment, RemoveComments, runVars, vars
  <2>2. PolicyApplied'
    BY <2>1
  <2>3. CASE sites' = {}
    BY <2>2, <2>3 DEF FiltersHold
  <2>4. CASE sites' = sites /\ setup' = setup
    BY <2>2, <2>4 DEF FiltersHold, Governs, Locked
  <2> QED BY <2>1, <2>2, <2>3, <2>4
<1> QED BY <1>1, <1>2

-----------------------------------------------------------------------------
(* What is traversed.                                                       *)

\* Directories above one of them are in a line: some are below all the others.
LEMMA DeepestExists ==
  ASSUME NEW D, D # {}, NEW b \in Dirs, D \subseteq Above[b]
  PROVE  \E m \in D : D \subseteq Above[m]
<1> DEFINE left == [m \in D |-> Cardinality(D \ Above[m])]
           T == {left[m] : m \in D}
<1>1. /\ D \subseteq Dirs /\ IsFiniteSet(Dirs)
      /\ \A d \in D : d \in Above[d] /\ \A e \in Above[d] : Above[e] \subseteq Above[d]
      /\ \A d, e \in D : d \in Above[e] \/ e \in Above[d]
  BY ConfigurationAssumption
<1>2. \A m \in D : D \ Above[m] \in SUBSET Dirs
  BY <1>1
<1>3. \A m \in D : IsFiniteSet(D \ Above[m])
  BY <1>1, <1>2, FS_Subset
<1>4. \A m \in D : Cardinality(D \ Above[m]) \in Nat
  BY <1>3, FS_CardinalityType
<1>5. T \in SUBSET Nat /\ T # {}
  BY <1>4
<1>6. PICK least \in T : \A other \in T : least <= other
  <2> HIDE DEF T
  <2> QED BY <1>5, SmallestNat
<1>7. PICK m \in D : least = Cardinality(D \ Above[m])
  OBVIOUS
<1>8. ASSUME NEW e \in D, e \notin Above[m] PROVE FALSE
  <2>1. m \in Above[e] /\ Above[m] \subseteq Above[e] /\ e \in Above[e]
    BY <1>1, <1>8
  <2>2. /\ D \ Above[e] \in SUBSET (D \ Above[m])
        /\ D \ Above[e] # D \ Above[m]
    BY <1>8, <2>1
  <2>3. Cardinality(D \ Above[e]) <= Cardinality(D \ Above[m]) /\ Cardinality(D \ Above[e]) # Cardinality(D \ Above[m])
    BY <1>3, <2>2, FS_Subset
  <2>4. Cardinality(D \ Above[m]) <= Cardinality(D \ Above[e])
    BY <1>6, <1>7
  <2>5. Cardinality(D \ Above[m]) \in Nat /\ Cardinality(D \ Above[e]) \in Nat
    BY <1>4
  <2> QED BY <2>3, <2>4, <2>5
<1> QED BY <1>8

\* One that is below all the others is the only one.
LEMMA DeepestIs ==
  ASSUME NEW D \in SUBSET Dirs, NEW m \in D, D \subseteq Above[m]
  PROVE  Deepest(D) = {m}
<1>1. m \in Deepest(D)
  BY DEF Deepest
<1>2. ASSUME NEW d \in Deepest(D) PROVE d = m
  <2>1. d \in D /\ m \in Above[d] /\ d \in Above[m]
    BY DEF Deepest
  <2> QED BY <2>1, ConfigurationAssumption
<1> QED BY <1>1, <1>2

\* Traverse looks into its target only.
LEMMA TraversedIsBelow ==
  ASSUME NEW t, NEW f \in Traversed(t)
  PROVE  f \in Files /\ (t = f \/ t \in Above[DirOf[f]])
<1>1. CASE t \in Files
  BY <1>1 DEF Traversed
<1>2. CASE t \notin Files
  <2>1. PICK d \in {t} \cup findGoModFiles(t) :
          f \in Files /\ (DirOf[f] \in findGoPackages(t) \/ f \in traverseModule(d))
    <3>1. CASE findGoModFiles(t) = {}
      BY <1>2, <3>1 DEF Traversed
    <3>2. CASE findGoModFiles(t) # {} /\ f \in traverseModule(t)
      BY <3>2 DEF traverseModule
    <3>3. CASE findGoModFiles(t) # {} /\ \E d \in findGoModFiles(t) : f \in traverseModule(d)
      BY <3>3 DEF traverseModule
    <3> QED BY <1>2, <3>1, <3>2, <3>3 DEF Traversed
  <2>2. f \in Files /\ (DirOf[f] \in Below(t) \/ DirOf[f] \in Below(d))
    BY <2>1 DEF findGoPackages, traverseModule
  <2>3. d = t \/ (d \in Dirs /\ t \in Above[d])
    BY <2>1 DEF findGoModFiles, Below
  <2> QED BY <2>2, <2>3, ConfigurationAssumption DEF Below
<1> QED BY <1>1, <1>2

\* A target with a go.mod is traversed whole, up to names that are skipped and files
\* that are not built.
LEMMA ModulesAreTraversed ==
  ASSUME setup \in Setups, NEW f \in Files \ setup.constrained, NEW t \in setup.targets \cap setup.modules \cap Above[DirOf[f]],
         Above[DirOf[f]] \cap Below(t) \cap setup.hidden \subseteq {t}
  PROVE  f \in Traversed(t) /\ findGoModFiles(t) # {} /\ t \in Dirs
<1> DEFINE up == Above[DirOf[f]]
           D == setup.modules \cap up \cap Below(t)
<1>1. /\ DirOf[f] \in Dirs /\ up \subseteq Dirs /\ t \in Dirs /\ t \notin Files
      /\ t \in Above[t] /\ t \in up
  BY ConfigurationAssumption
<1>2. t \in D /\ t \in findGoModFiles(t) /\ D \subseteq findGoModFiles(t)
  BY <1>1 DEF Below, findGoModFiles
<1>3. PICK m \in D : D \subseteq Above[m]
  <2>1. D # {} /\ DirOf[f] \in Dirs /\ D \subseteq Above[DirOf[f]]
    BY <1>1, <1>2
  <2> HIDE DEF D, up
  <2> QED BY <2>1, DeepestExists
<1>4. m \in Dirs /\ t \in Above[m] /\ m \in up /\ m \in Above[m]
  BY <1>1, <1>3, ConfigurationAssumption DEF Below
<1>5. Deepest(setup.modules \cap up) = {m}
  <2>1. setup.modules \cap up \subseteq Above[m]
    <3> SUFFICES ASSUME NEW e \in setup.modules \cap up PROVE e \in Above[m]
      OBVIOUS
    <3>1. e \in Dirs /\ (e \in Above[t] \/ t \in Above[e])
      BY <1>1, ConfigurationAssumption
    <3>2. CASE e \in Above[t]
      BY <1>4, <3>2, ConfigurationAssumption
    <3>3. CASE t \in Above[e]
      BY <1>3, <3>1, <3>3 DEF Below
    <3> QED BY <3>1, <3>2, <3>3
  <2> QED BY <1>1, <1>3, <2>1, DeepestIs
<1>6. Deepest(setup.modules \cap Above[m]) = {m}
  BY <1>3, <1>4, ConfigurationAssumption, DeepestIs
<1>7. f \in traverseModule(m)
  <2>1. DirOf[f] \in Below(m)
    BY <1>1, <1>4 DEF Below
  <2>2. ~Skipped(m, DirOf[f])
    <3> SUFFICES ASSUME NEW x \in setup.hidden \cap up, x \in Below(m) \ {m} PROVE FALSE
      BY DEF Skipped
    <3>1. x \in Dirs /\ m \in Above[x] /\ x # m
      BY DEF Below
    <3>2. t \in Above[x]
      BY <1>4, <3>1, ConfigurationAssumption
    <3>3. x = t
      BY <3>1, <3>2 DEF Below
    <3> QED BY <1>4, <3>1, <3>3, ConfigurationAssumption
  <2> QED BY <1>5, <1>6, <2>1, <2>2 DEF traverseModule, ModuleOf
<1>8. CASE Cardinality(findGoModFiles(t)) = 1
  <2>1. findGoModFiles(t) \in SUBSET Dirs
    BY DEF findGoModFiles, Below
  <2>2. IsFiniteSet(findGoModFiles(t))
    BY <2>1, ConfigurationAssumption, FS_Subset
  <2>3. \E x : findGoModFiles(t) = {x}
    BY <1>8, <2>2, FS_Singleton
  <2>4. m = t
    BY <1>2, <1>3, <2>3
  <2> QED BY <1>1, <1>2, <1>7, <1>8, <2>4 DEF Traversed
<1>9. CASE Cardinality(findGoModFiles(t)) # 1
  BY <1>1, <1>2, <1>3, <1>7, <1>9 DEF Traversed
<1> QED BY <1>8, <1>9

\* The files that Traverse finds.
Targeted == UNION {Traversed(t) : t \in setup.targets}

\* Below a target without a go.mod, a file that cannot be parsed may be left out.
MayBeSkipped(t) == t \in Dirs /\ findGoModFiles(t) = {}

\* The files of the targets are still to do, or they may be skipped, or all their
\* sites are recorded but for lines with a comment; and no others are.
Traversing ==
  pc \in {"traverse", "generate"} =>
    /\ \A p \in todo : p[1] \in setup.targets /\ p[2] \in Traversed(p[1])
    /\ pc = "generate" => todo = {}
    /\ \A n \in recorded : FileOf[n] \in Targeted
    /\ \A n \in Nodes, t \in setup.targets :
         /\ FileOf[n] \in Traversed(t) /\ <<t, FileOf[n]>> \notin todo /\ ~MayBeSkipped(t)
         /\ \A r \in read : LineOf[n] \notin DOMAIN r[2]
         /\ \E op \in ops : n \in Applies[op]
         => n \in recorded

\* A file that is done is recorded, whichever package comes first.
LEMMA TraversingStep == ASSUME IInv, Traversing, [Next]_vars PROVE Traversing'
<1>0. setup' = setup => /\ Targeted' = Targeted
                        /\ \A t : Traversed(t)' = Traversed(t) /\ (MayBeSkipped(t)' <=> MayBeSkipped(t))
  BY DEF Targeted, MayBeSkipped, Traversed, findGoModFiles, findGoPackages, traverseModule, ModuleOf, Skipped, Below
<1> HIDE DEF Targeted, MayBeSkipped
<1>1. CASE Start
  <2>1. /\ setup' = setup /\ pc' = "traverse" /\ recorded' = {}
        /\ todo' = UNION {{t} \X Traversed(t) : t \in setup.targets}
    BY <1>1 DEF Start
  <2> QED BY <1>0, <2>1 DEF Traversing
<1>2. ASSUME NEW u \in setup.targets, NEW f \in Files, ProcessFile(u, f) PROVE Traversing'
  <2> DEFINE ignoreMap == parseIgnoreComments(In(comments, f))
  <2>1. /\ pc = "traverse" /\ <<u, f>> \in todo /\ todo' = todo \ {<<u, f>>}
        /\ pc' = pc /\ ops' = ops /\ setup' = setup
        /\ read' = read \cup {<<f, ignoreMap>>}
        /\ recorded' = recorded \cup
             {n \in Nodes : FileOf[n] = f /\ \E op \in ops : n \in Applies[op] /\ ~isIgnored(ignoreMap, n, op)}
    BY <1>2 DEF ProcessFile
  <2>2. \A n, op : LineOf[n] \notin DOMAIN ignoreMap => ~isIgnored(ignoreMap, n, op)
    BY DEF isIgnored, At
  <2> HIDE DEF ignoreMap
  <2>3. f \in Targeted /\ \A p \in todo' : p[1] \in setup'.targets /\ p[2] \in Traversed(p[1])'
    BY <1>0, <2>1 DEF Traversing, Targeted
  <2>4. \A n \in recorded' : FileOf[n] \in Targeted'
    BY <1>0, <2>1, <2>3 DEF Traversing
  <2>5. ASSUME NEW n \in Nodes, NEW t \in setup'.targets, FileOf[n] \in Traversed(t)',
               <<t, FileOf[n]>> \notin todo', ~MayBeSkipped(t)',
               \A r \in read' : LineOf[n] \notin DOMAIN r[2], \E op \in ops' : n \in Applies[op]
        PROVE  n \in recorded'
    <3>1. CASE FileOf[n] = f
      <4>1. LineOf[n] \notin DOMAIN ignoreMap
        <5>1. <<f, ignoreMap>> \in read' /\ <<f, ignoreMap>>[2] = ignoreMap
          BY <2>1
        <5> QED BY <2>5, <5>1
      <4> QED BY <2>1, <2>2, <2>5, <3>1, <4>1
    <3>2. CASE FileOf[n] # f
      <4>1. <<t, FileOf[n]>> \notin todo
        BY <2>1, <2>5, <3>2
      <4> QED BY <1>0, <2>1, <2>5, <4>1 DEF Traversing
    <3> QED BY <3>1, <3>2
  <2> QED BY <2>1, <2>3, <2>4, <2>5 DEF Traversing
<1>3. ASSUME NEW u \in setup.targets, NEW f \in Files, SkipFile(u, f) PROVE Traversing'
  <2>1. /\ MayBeSkipped(u) /\ pc = "traverse" /\ todo' = todo \ {<<u, f>>}
        /\ UNCHANGED <<setup, pc, ops, recorded, read>>
    BY <1>3 DEF SkipFile, MayBeSkipped
  <2>2. \A t \in setup.targets : \A g : <<t, g>> \notin todo' => <<t, g>> \notin todo \/ MayBeSkipped(t)
    BY <2>1
  <2> QED BY <1>0, <2>1, <2>2 DEF Traversing
<1>4. CASE SelectSites
  BY <1>0, <1>4 DEF SelectSites, Traversing
<1>5. CASE pc' \notin {"traverse", "generate"}
  BY <1>5 DEF Traversing
<1>6. CASE UNCHANGED <<setup, pc, ops, todo, recorded, read>>
  BY <1>0, <1>6 DEF Traversing
<1> QED BY <1>1, <1>2, <1>3, <1>4, <1>5, <1>6 DEF Next, Run, StartFails, RunFails, GenerateMutants, FinishAndSync,
          Edit, AddEntry, AddComment, RemoveComments, runVars, vars

-----------------------------------------------------------------------------
(* The theorems.                                                            *)

\* No mutant of a run is on a line above which every reading of the file found an
\* ignore comment without an operator, whatever people edit and whatever selects.
THEOREM IgnoredLines == Spec => []IgnoredLinesHaveNoMutants
<1>1. IInv => IgnoredLinesHaveNoMutants
  BY DEF IInv, FromRecorded, RecordedIsRead, IgnoredLinesHaveNoMutants
<1> QED BY <1>1, Invariant, PTL

\* For every tree of directories, chain of sub-configurations, mode and locks, the
\* nearest level that has a say owns the operators of a mutant, but for those that the
\* policy requires.
THEOREM SubtreesOwnOperators == Spec => []SubtreeOwnsItsOperators
<1>1. IInv => SubtreeOwnsItsOperators
  BY DEF IInv
<1> QED BY <1>1, Invariant, PTL

\* What a run has read as suppressed, from the configuration file or a comment, is
\* suppressed by the configuration file that the run writes.
THEOREM SyncKeeps == Spec => SyncKeepsSuppressions
<1>1. ASSUME IInv, [Next]_vars
      PROVE  [pc = "test" /\ disk' # disk /\ edits' = edits =>
                \A l \in Lines, d \in Directives :
                  Suppresses(began, l, d) \/ (\E r \in read : Suppresses(r[2], l, d))
                    => Suppresses(SetSuppressEntries(disk'), l, d)]_vars
  <2> SUFFICES ASSUME pc = "test", disk' # disk, edits' = edits, NEW l \in Lines, NEW d \in Directives,
                      Suppresses(began, l, d) \/ \E r \in read : Suppresses(r[2], l, d)
               PROVE  Suppresses(SetSuppressEntries(disk'), l, d)
    OBVIOUS
  <2>1. ~Edit
    <3>1. Edit => edits' = edits + 1
      BY DEF Edit, AddEntry, AddComment, RemoveComments
    <3>2. edits \in Nat
      BY <1>1 DEF IInv
    <3> QED BY <3>1, <3>2
  <2>2. FinishAndSync
    BY <1>1, <2>1 DEF Next, Run, vars, Start, StartFails, RunFails, ProcessFile, SkipFile, SelectSites, GenerateMutants
  <2>3. Suppresses(ignore, l, d)
    BY <1>1 DEF IInv, ReadIsIgnored, Suppresses
  <2>4. Suppresses(Merged(disk, ignore), l, d)
    BY <2>3, MergedAt DEF Suppresses
  <2> QED BY <2>2, <2>4, BuildKeeps DEF FinishAndSync, mergeInlineDirectives
<1> QED BY <1>1, Invariant, PTL DEF Spec, SyncKeepsSuppressions

\* No site is left on which a pattern of the root, of the policy or of a level that has
\* a say keeps mutants off, nor one outside the lines that the diff adds: for every
\* tree of levels, every policy, and every diff without a removed line that starts with
\* two dashes.
THEOREM FiltersAlwaysHold == Spec => []FiltersHold
<1>1. Init => IInv /\ PolicyApplied /\ FiltersHold
  BY Initially DEF Init, PolicyApplied, FiltersHold
<1>2. IInv /\ PolicyApplied /\ FiltersHold /\ [Next]_vars => (IInv /\ PolicyApplied /\ FiltersHold)'
  BY Inductive, FilterStep
<1> QED BY <1>1, <1>2, PTL DEF Spec

\* Once Traverse is through, in whichever order, every node of a file below a target
\* with a go.mod, or of a target that is a file, is recorded unless a comment stands
\* above its line; and no node of another file is.
THEOREM TargetsAreCovered == Spec => []TargetsAreTraversed
<1>1. Init => IInv /\ Traversing
  BY Initially DEF Init, Traversing
<1>2. IInv /\ Traversing /\ [Next]_vars => (IInv /\ Traversing)'
  BY Inductive, TraversingStep
<1>3. ASSUME IInv, Traversing PROVE TargetsAreTraversed
  <2> SUFFICES ASSUME pc = "generate", NEW n \in Nodes
               PROVE  LET f == FileOf[n]
                          up == Above[DirOf[f]]
                      IN  /\ n \in recorded => setup.targets \cap ({f} \cup up) # {}
                          /\ /\ \/ f \in setup.targets
                                \/ /\ f \notin setup.constrained
                                   /\ \E t \in setup.targets \cap setup.modules \cap up :
                                        up \cap Below(t) \cap setup.hidden \subseteq {t}
                             /\ \A r \in read : LineOf[n] \notin DOMAIN r[2]
                             /\ \E op \in ops : n \in Applies[op]
                             => n \in recorded
    BY DEF TargetsAreTraversed
  <2> DEFINE f == FileOf[n]
             up == Above[DirOf[f]]
  <2>1. f \in Files /\ setup \in Setups
    BY <1>3, SelectionAssumption DEF IInv
  <2>2. ASSUME n \in recorded PROVE setup.targets \cap ({f} \cup up) # {}
    <3>1. PICK t \in setup.targets : f \in Traversed(t)
      BY <1>3, <2>2 DEF Traversing, Targeted
    <3> QED BY <3>1, TraversedIsBelow
  <2>3. ASSUME \A r \in read : LineOf[n] \notin DOMAIN r[2], \E op \in ops : n \in Applies[op],
               NEW t \in setup.targets, f \in Traversed(t), ~MayBeSkipped(t)
        PROVE  n \in recorded
    BY <1>3, <2>3 DEF Traversing
  <2>4. ASSUME f \in setup.targets PROVE f \in Traversed(f) /\ ~MayBeSkipped(f)
    BY <2>1, ConfigurationAssumption DEF Traversed, MayBeSkipped
  <2>5. ASSUME NEW t \in setup.targets \cap setup.modules \cap up, up \cap Below(t) \cap setup.hidden \subseteq {t},
               f \notin setup.constrained
        PROVE  f \in Traversed(t) /\ ~MayBeSkipped(t)
    BY <2>1, <2>5, ModulesAreTraversed DEF MayBeSkipped
  <2> QED BY <2>2, <2>3, <2>4, <2>5
<1> QED BY <1>1, <1>2, <1>3, PTL DEF Spec
=============================================================================
