----------------------------- MODULE MCSelection -----------------------------
(***************************************************************************)
(* A project with the directories r, r/a and r/a/b, a file in each of the  *)
(* last two, and on one line of the second a chain of two calls.           *)
(***************************************************************************)
EXTENDS Selection

MCDirs == {"r", "a", "b"}
MCAbove == [d \in MCDirs |-> CASE d = "r" -> {"r"} [] d = "a" -> {"r", "a"} [] OTHER -> MCDirs]
MCFiles == {"a.go", "b.go"}
MCDirOf == [f \in MCFiles |-> IF f = "a.go" THEN "a" ELSE "b"]
MCFuncs == {"F"}
MCOps == {"x", "y"}
MCcategoryMap == [c \in {"cat"} |-> {"y"}]

MCNodes == 1 .. 3
MCFileOf == <<"a.go", "b.go", "b.go">>
MCLineOf == <<<<"a.go", 1>>, <<"b.go", 3>>, <<"b.go", 3>>>>
MCColOf == <<1, 1, 1>>
MCKeyOf == <<1, 2, 2>>
MCFuncOf == <<"G", "F", "F">>
MCApplies == [o \in MCOps |-> IF o = "x" THEN MCNodes ELSE {1, 3}]

NoRules == [p \in MCDirs \cup MCFiles |-> Unset]
Plain == [operators |-> {}, threshold |-> 0, skip |-> {}, exclude |-> {}, include |-> {}, skip_func |-> {},
          dir_rules |-> NoRules]
Rules == [NoRules EXCEPT !["b"] = [whitelist |-> {}, blacklist |-> {"y"}]]
OnlyX == [Plain EXCEPT !.operators = {"x"}]

Roots == {Plain, OnlyX,
          [Plain EXCEPT !.operators = {"all", "x"}],
          [Plain EXCEPT !.operators = {"cat"}],
          [Plain EXCEPT !.operators = {"cat", "typo"}],
          [Plain EXCEPT !.include = {"b.go"}, !.dir_rules = Rules]}
Upper == {OnlyX, [Plain EXCEPT !.skip = {"b.go"}, !.operators = {"y", "typo"}]}
Lower == {[Plain EXCEPT !.operators = {"all"}, !.include = {"b.go"}],
          [Plain EXCEPT !.operators = {"cat"}, !.skip_func = {"F"}],
          [Plain EXCEPT !.operators = {"y"}, !.exclude = {"a.go"},
                        !.dir_rules = [NoRules EXCEPT !["b.go"] = [whitelist |-> {"y"}, blacklist |-> {}]]]}
Subs == {<<>>} \cup {[d \in {"a"} |-> u] : u \in Upper}
          \cup {[d \in {"a", "b"} |-> IF d = "a" THEN u ELSE l] : u \in Upper, l \in Lower}

NoPolicy == [required |-> {}, forbidden |-> {}, locked |-> {}, forcedSkip |-> {},
             forcedExclude |-> {}, floor |-> 0, requireCache |-> FALSE]
Policies == {NoPolicy,
             [NoPolicy EXCEPT !.locked = {"operators", "skip", "skip_func", "exclude", "include"}],
             [NoPolicy EXCEPT !.forbidden = {"x"}, !.required = {"y", "typo"}, !.forcedSkip = {"a.go"}]}

\* A diff that adds line 3 of b.go, one that has a removed line "---" before it,
\* one that adds lines next to it and all of a.go, and one that deletes a file.
Diffs == {<<[file |-> "b.go", start |-> 2, body |-> <<"context", "removed", "added">>]>>,
          <<[file |-> "b.go", start |-> 2, body |-> <<"context", "dashes", "added">>]>>,
          <<[file |-> "b.go", start |-> 1, body |-> <<"added", "added", "removed", "context", "added">>],
            [file |-> "a.go", start |-> 1, body |-> <<"added", "remark">>]>>,
          <<[file |-> Unset, start |-> 3, body |-> <<"removed", "added">>],
            [file |-> "b.go", start |-> 3, body |-> <<"removed", "added">>]>>}

\* Every question of precedence in one run; every choice of targets, modules and
\* skipped names; diffs; edits, two runs and a diff on one project; and edits around a
\* file that is read twice, for two targets.
Simple == [root |-> Plain, subs |-> <<>>, policy |-> NoPolicy, mode |-> "merge",
           targets |-> {"r"}, modules |-> {"r"}, hidden |-> {}, constrained |-> {},
           diff |-> Unset, dry |-> TRUE, runs |-> 1, edits |-> 0]
MCSetups ==
  {[Simple EXCEPT !.root = r, !.subs = s, !.policy = p, !.mode = m] :
     r \in Roots, s \in Subs, p \in Policies, m \in Modes}
  \cup {[Simple EXCEPT !.targets = t, !.modules = m, !.hidden = h, !.constrained = c] :
           t \in {{"r"}, {"a"}, {"b.go"}, {"a", "b"}}, m \in SUBSET MCDirs, h \in SUBSET MCDirs,
           c \in {{}, {"b.go"}}}
  \cup {[Simple EXCEPT !.diff = d] : d \in Diffs}
  \cup {[Simple EXCEPT !.diff = d, !.dry = FALSE, !.runs = 2, !.edits = 3] :
           d \in {Unset, <<[file |-> "b.go", start |-> 3, body |-> <<"added">>]>>}}
  \cup {[Simple EXCEPT !.targets = {"b", "b.go"}, !.dry = FALSE, !.edits = 2]}
=============================================================================
