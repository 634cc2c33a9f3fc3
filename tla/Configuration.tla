--------------------------- MODULE Configuration ---------------------------
(***************************************************************************)
(* The configuration that holds for a file: the root's, the gorgon.yml of  *)
(* directories above the file (subconfig.Resolver), dir_rules, and the     *)
(* organisation's policy (orgpolicy).                                      *)
(*                                                                         *)
(* A list of operators is the set of its names: order and repetition are   *)
(* left out.  A pattern of exclude or include is the set of files that it   *)
(* matches, one of skip a file or a directory, and of skip_func a function *)
(* of a file or of every file; a list of patterns is the union.             *)
(***************************************************************************)
EXTENDS Integers, FiniteSets

CONSTANTS
  Dirs,      \* the directories with Go files
  Above,     \* for a directory, itself and the directories above it
  Files,     \* the Go files
  DirOf,     \* the directory of each file
  Funcs,     \* the functions, as skip_func names them: file and name
  Ops,       \* the registered operators
  categoryMap,  \* the operators of each category
  Unset      \* stands for a rule or a threshold that is not there

ASSUME ConfigurationAssumption ==
  /\ IsFiniteSet(Dirs) /\ Files \cap Dirs = {}
  /\ Above \in [Dirs -> SUBSET Dirs]
  /\ \A d \in Dirs :
       /\ d \in Above[d]
       /\ \A e \in Above[d] : Above[e] \subseteq Above[d]
       /\ \A e, g \in Above[d] : e \in Above[g] \/ g \in Above[e]
       /\ \A e \in Above[d] : d \in Above[e] => e = d
  /\ DirOf \in [Files -> Dirs]
  /\ categoryMap \in [DOMAIN categoryMap -> SUBSET Ops]
  /\ "all" \notin Ops \cup DOMAIN categoryMap

\* What a configuration may call an operator; "typo" stands for unknown names.
Names == Ops \cup DOMAIN categoryMap \cup {"all", "typo"}

\* The settings that this module knows of, by their names in locked_settings.
Settings == {"operators", "threshold", "skip", "exclude", "include", "skip_func", "dir_rules"}

\* dir_rules: per directory, or file, the first rule for it, if there is one.
Rule == [whitelist : SUBSET Names, blacklist : SUBSET Names]

\* SubConfig, and the fields that Config shares with it.  A root always has a
\* threshold: 0 stands for none.
SubConfig ==
  [operators : SUBSET Names, threshold : Nat \cup {Unset},
   skip : SUBSET (Files \cup Dirs), exclude : SUBSET Files, include : SUBSET Files,
   skip_func : SUBSET Funcs, dir_rules : [Dirs \cup Files -> Rule \cup {Unset}]]

Policy ==
  [required : SUBSET Names, forbidden : SUBSET Names, locked : SUBSET Settings,
   forcedSkip : SUBSET (Files \cup Dirs), forcedExclude : SUBSET Files,
   floor : Nat, requireCache : BOOLEAN]

Modes == {"merge", "replace", "isolate"}

-----------------------------------------------------------------------------
(* subconfig.Resolver.  subs maps directories with a gorgon.yml to it.      *)

\* ApplyToSubConfig: a locked setting loses its value.
ApplyToSubConfig(sc, locked) ==
  [operators |-> IF "operators" \in locked THEN {} ELSE sc.operators,
   threshold |-> IF "threshold" \in locked THEN Unset ELSE sc.threshold,
   skip |-> IF "skip" \in locked THEN {} ELSE sc.skip,
   exclude |-> IF "exclude" \in locked THEN {} ELSE sc.exclude,
   include |-> IF "include" \in locked THEN {} ELSE sc.include,
   skip_func |-> IF "skip_func" \in locked THEN {} ELSE sc.skip_func,
   dir_rules |-> IF "dir_rules" \in locked THEN [p \in Dirs \cup Files |-> Unset] ELSE sc.dir_rules]

\* The last of the directories D above one file, when sorted by length.
Deepest(D) == {d \in D : D \subseteq Above[d]}
Shallowest(D) == {d \in D : \A e \in D : d \in Above[e]}

\* MUTANT: replace takes the first level it finds.
chainFromTheTop(subs, mode, f) ==
  LET above == Above[DirOf[f]] \cap DOMAIN subs
  IN  {d \in above : /\ mode = "isolate" => d = DirOf[f]
                     /\ mode = "replace" => d \in Shallowest(above)}

\* chain: the directories whose sub-configuration counts for file f.
chain(subs, mode, f) ==
  LET above == Above[DirOf[f]] \cap DOMAIN subs
  IN  {d \in above : /\ mode = "isolate" => d = DirOf[f]
                     /\ mode = "replace" => d \in Deepest(above)}

\* chain's values: what the sub-configuration of d says once locks are applied.
Said(subs, locked, d) == ApplyToSubConfig(subs[d], locked)

\* resolveOperatorNames: unknown names are ignored, and categories are unknown here.
resolveOperatorNames(names) == IF "all" \in names THEN Ops ELSE names \cap Ops

\* EffectiveOperators: the deepest list that names an operator replaces base.
EffectiveOperators(subs, mode, locked, f, base) ==
  LET named == {d \in chain(subs, mode, f) :
                  resolveOperatorNames(Said(subs, locked, d).operators) # {}}
  IN  IF named = {} THEN base
      ELSE UNION {resolveOperatorNames(Said(subs, locked, d).operators) : d \in Deepest(named)}

\* EffectiveThreshold: the deepest threshold that is set, a 0 included.
EffectiveThreshold(subs, mode, locked, f, root) ==
  LET saying == {d \in chain(subs, mode, f) : Said(subs, locked, d).threshold # Unset}
  IN  IF saying = {} THEN root
      ELSE Said(subs, locked, CHOOSE d \in Deepest(saying) : TRUE).threshold

\* EffectiveFilters: every level adds to the root's.
EffectiveFilters(subs, mode, locked, f, root) ==
  LET levels == {root} \cup {Said(subs, locked, d) : d \in chain(subs, mode, f)}
  IN  [skip |-> UNION {c.skip : c \in levels}, exclude |-> UNION {c.exclude : c \in levels},
       include |-> UNION {c.include : c \in levels},
       skip_func |-> UNION {c.skip_func : c \in levels}]

\* EffectiveDirRules, as a relation: the places, directories or files, for which the
\* root, or a level of the chain, has a rule; the first in the merged list wins a tie.
RuleFor(subs, mode, locked, f, rootRules, place) ==
  LET levels == {d \in chain(subs, mode, f) : Said(subs, locked, d).dir_rules[place] # Unset}
  IN  IF rootRules[place] # Unset THEN {rootRules[place]}
      ELSE {Said(subs, locked, d).dir_rules[place] : d \in Shallowest(levels)}

-----------------------------------------------------------------------------
(* mutants.go                                                               *)

\* effectiveOperators: what one rule leaves of base.
Restricted(base, rule) ==
  IF rule.whitelist # {} THEN base \cap rule.whitelist
  ELSE IF "all" \in rule.blacklist THEN {}
  ELSE base \ rule.blacklist

\* effectiveOperators: the longest path with a rule decides, that of the file itself
\* or of a directory above it.  A rule for the project root, ".", is a prefix of no
\* relative path.
effectiveOperators(subs, mode, locked, f, rootRules, base) ==
  LET rules(place) == RuleFor(subs, mode, locked, f, rootRules, place)
      ruled == {d \in Above[DirOf[f]] : Above[d] # {d} /\ rules(d) # {}}
      places == IF rules(f) # {} THEN {f} ELSE Deepest(ruled)
  IN  IF rules(f) = {} /\ ruled = {} THEN base
      ELSE UNION {Restricted(base, rule) : rule \in UNION {rules(p) : p \in places}}

-----------------------------------------------------------------------------
(* orgpolicy and cli                                                        *)

\* GetCategory, or else the operator of that name.
GetCategory(name) == IF name \in DOMAIN categoryMap THEN categoryMap[name] ELSE {name}

\* ParseOperators: an empty list and the list "all" stand for every operator.
ParseOperators(names) ==
  IF names \in {{}, {"all"}} THEN Ops ELSE UNION {GetCategory(name) : name \in names}

\* ParseOperators fails on a name it does not know; "all" beside others is one.
Unparsable(names) == names # {"all"} /\ ~(names \subseteq Ops \cup DOMAIN categoryMap)

\* enforceRequiredOperators
enforceRequiredOperators(names, required) ==
  IF "all" \in names THEN names ELSE names \cup (required \cap Ops)

\* enforceForbiddenOperators
enforceForbiddenOperators(names, forbidden) ==
  IF forbidden = {} THEN names
  ELSE (IF "all" \in names THEN Ops ELSE names) \ forbidden

\* MUTANT: the floor is only for a root that has a threshold.
ApplyFloorToSet(cfg, policy) ==
  [cfg EXCEPT
     !.threshold = IF @ > 0 /\ @ < policy.floor THEN policy.floor ELSE @,
     !.operators = enforceForbiddenOperators(
                     enforceRequiredOperators(@, policy.required), policy.forbidden),
     !.skip = @ \cup policy.forcedSkip,
     !.exclude = @ \cup policy.forcedExclude]

\* Apply: the root configuration after the policy.  require_cache and
\* min_concurrent are for the modules that have a cache or goroutines.
Apply(cfg, policy) ==
  [cfg EXCEPT
     !.threshold = IF @ < policy.floor THEN policy.floor ELSE @,
     !.operators = enforceForbiddenOperators(
                     enforceRequiredOperators(@, policy.required), policy.forbidden),
     !.skip = @ \cup policy.forcedSkip,
     !.exclude = @ \cup policy.forcedExclude]
=============================================================================
