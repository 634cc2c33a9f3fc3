-------------------------- MODULE MCSchemataVerify --------------------------
(* Instances of SchemataVerify for TLC: package a has two files of mutants,   *)
(* package b imports it and has one, and a test file.                         *)
EXTENDS SchemataVerify, TLC

MCUnset == {Unset}

MCFileOf == [m \in Mutants |-> <<"a1", "a1", "a2", "b1", "b1">>[m]]
MCPkgOf == ("a1" :> "a") @@ ("a2" :> "a") @@ ("b1" :> "b") @@ ("b_test" :> "b")
MCImportsOf == ("a" :> {}) @@ ("b" :> {"a"})

\* A test file about the mutation tool itself may mention an ID.
MCMentions == [f \in Files \cup Untracked |-> IF f = "b_test" THEN {4} ELSE {}]

\* Two mutants that break a1 together, one of them also alone; one of a2 that breaks
\* a2, or a1 instead, or b1 with a mutant of it; one that breaks b1; a test file broken
\* from the start, or by a mutant.
AllConflicts ==
  { [needs |-> {1, 2}, at |-> "a1"], [needs |-> {2}, at |-> "a1"],
    [needs |-> {3}, at |-> "a2"], [needs |-> {3}, at |-> "a1"], [needs |-> {3, 5}, at |-> "b1"],
    [needs |-> {4}, at |-> "b1"],
    [needs |-> {}, at |-> "b_test"], [needs |-> {5}, at |-> "b_test"] }
MCConflicts == {c \in AllConflicts : c.needs \subseteq Mutants}
=============================================================================
