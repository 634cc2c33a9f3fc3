------------------------------ MODULE MCGates ------------------------------
(***************************************************************************)
(* Two processes on a project with the directories r, r/a and r/a/b: with  *)
(* sub-configurations one run, without them several, and a crash.          *)
(***************************************************************************)
EXTENDS Gates

MCDirs == {"r", "a", "b"}
MCAbove == [d \in MCDirs |-> CASE d = "r" -> {"r"} [] d = "a" -> {"r", "a"} [] OTHER -> MCDirs]
MCFiles == {"a.go", "b.go"}
NoCategories == [c \in {} |-> {}]
MCDirOf == [f \in MCFiles |-> IF f = "a.go" THEN "a" ELSE "b"]

\* Of two mutants in each file none, one or both are killed, or a file has none.
Verdicts(F) == {[f \in MCFiles |-> [killed |-> k[f], scored |-> n[f]]] :
                  k \in [MCFiles -> 0 .. 2], n \in [MCFiles -> F]}
MCResults == {r \in Verdicts({0, 2}) : \A f \in MCFiles : r[f].killed <= r[f].scored}

Plain == [operators |-> {}, threshold |-> 0, skip |-> {}, exclude |-> {}, include |-> {},
          skip_func |-> {}, dir_rules |-> [p \in MCDirs \cup MCFiles |-> Unset]]
At(t) == [Plain EXCEPT !.threshold = t]
Levels == {At(Unset), At(0), At(40), At(90)}
Subs == {[d \in {"a", "b"} |-> IF d = "a" THEN u ELSE l] : u, l \in Levels}
          \cup {[d \in {"b"} |-> l] : l \in Levels}

NoPolicy == [required |-> {}, forbidden |-> {}, locked |-> {}, forcedSkip |-> {},
             forcedExclude |-> {}, floor |-> 0, requireCache |-> FALSE]
Policies == {NoPolicy, [NoPolicy EXCEPT !.floor = 60], [NoPolicy EXCEPT !.locked = {"threshold"}]}

\* Of two mutants in a.go k are killed.
Total(k) == [f \in MCFiles |-> IF f = "a.go" THEN [killed |-> k, scored |-> 2]
                                            ELSE [killed |-> 0, scored |-> 0]]

MCProcs == {"p", "q"}
Quiet == [cache |-> FALSE, keys |-> {}, save |-> FALSE, noRegression |-> FALSE, tolerance |-> 0]
Cached(k) == [Quiet EXCEPT !.cache = TRUE, !.keys = {k}]
Saves == [Quiet EXCEPT !.save = TRUE]
Holds(t) == [Quiet EXCEPT !.noRegression = TRUE, !.tolerance = t]
Both == [Holds(0) EXCEPT !.save = TRUE]

\* Every question of thresholds for one run; and three runs of two processes
\* with a crash: with a cache, and around a baseline.  Then all of it.
MCSetups ==
  [root : {At(0), At(50)}, subs : Subs, policy : Policies, mode : Modes,
   options : {[p \in MCProcs |-> Quiet]}, results : {MCResults}, runs : {1}, crashes : {0}]
  \cup [root : {At(0)}, subs : {<<>>}, policy : {NoPolicy}, mode : {"merge"},
        options : {[p \in MCProcs |-> IF p = "p" THEN Cached("k1") ELSE Cached("k2")]},
        results : {{Total(1)}}, runs : {3}, crashes : {1}]
  \cup [root : {At(0)}, subs : {<<>>}, policy : {NoPolicy}, mode : {"merge"},
        options : {[p \in MCProcs |-> IF p = "p" THEN Saves ELSE q] : q \in {Holds(0), Both}}
                     \cup {[p \in MCProcs |-> IF p = "p" THEN Holds(50) ELSE Holds(0)]},
        results : {{Total(1)}}, runs : {3}, crashes : {1}]
  \cup [root : {At(50)}, subs : {<<>>}, policy : {[NoPolicy EXCEPT !.requireCache = TRUE]},
        mode : {"merge"}, options : {[p \in MCProcs |-> Both]}, results : {{Total(2)}},
        runs : {2}, crashes : {1}]
=============================================================================
