------------------------------ MODULE MCSchemata ------------------------------
(***************************************************************************)
(* const c = 1                                                             *)
(* func F() { a.f().g(x); outer: for i.k < n { i.k++ }                     *)
(*            switch { case b: for range r { }; return -y } }              *)
(***************************************************************************)
EXTENDS Schemata, Sequences, TLC

Tree ==
  << <<2, "leaf", 1>>,      \*  1  a
     <<3, "sel", 1>>,       \*  2  a.f
     <<5, "call", 1>>,      \*  3  a.f()
     <<5, "leaf", 4>>,      \*  4  g
     <<7, "sel", 1>>,       \*  5  a.f().g
     <<7, "leaf", 6>>,      \*  6  x
     <<8, "call", 1>>,      \*  7  a.f().g(x)
     <<20, "first", 1>>,    \*  8  the statement
     <<10, "leaf", 9>>,     \*  9  i
     <<11, "sel", 9>>,      \* 10  i.k
     <<13, "op", 9>>,       \* 11  i.k < n
     <<13, "tok", 12>>,     \* 12  i.k++
     <<14, "loop", 13>>,    \* 13  for
     <<20, "label", 14>>,   \* 14  outer:
     <<16, "leaf", 15>>,    \* 15  r
     <<19, "loop", 16>>,    \* 16  for range
     <<18, "op", 17>>,      \* 17  -y
     <<19, "return", 18>>,  \* 18  return
     <<20, "case", 19>>,    \* 19  case
     <<22, "func", 20>>,    \* 20  F
     <<22, "leaf", 21>>,    \* 21  1
     <<0, "other", 22>> >>  \* 22  the file

MCN == Len(Tree)
MCParent == [n \in 1 .. MCN |-> Tree[n][1]]
MCKind == [n \in 1 .. MCN |-> Tree[n][2]]
MCFirstToken == [n \in 1 .. MCN |-> Tree[n][3]]
MCFixed == {15, 21}
MCTyped == {4}
MCNilFits == {}

Symmetry == Permutations(Mutants)
=============================================================================
