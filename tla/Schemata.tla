------------------------------- MODULE Schemata -------------------------------
(***************************************************************************)
(* Inlining the mutants of one file (internal/core/transform.go and        *)
(* internal/core/schemata_nodes/).  astutil.Apply leaves the nodes of the  *)
(* syntax tree in post-order and calls applySchemataVisitor on each, which *)
(* finds mutants by the position of the node's key token and its type, and *)
(* replaces the node by one that chooses between its mutated forms and the *)
(* original by the value of activeMutantID.  A replaced node has no        *)
(* position, nor has any node whose first token it held.                   *)
(***************************************************************************)
EXTENDS Naturals, FiniteSets

CONSTANTS
  N,           \* the tree has the nodes 1..N, in post-order
  Parent,      \* the parent of a node, 0 for the file
  Kind,        \* the sort of a node, see Kinds
  FirstToken,  \* the node at which the first token of a node is
  Fixed,       \* nodes the visitor passes by: see below
  Typed,       \* leaves in a field that holds only a name or a literal, as a
               \* selector, a label, the name of a declaration, the tag of a field
  NilFits,     \* return statements of a function whose result can be nil
  Mutants

Nodes == 1 .. N

(***************************************************************************)
(* Node types, as far as the transformation tells them apart.              *)
(*   op    binary or unary expression      call  call expression           *)
(*   leaf  identifier or basic literal     sel   any other expression      *)
(*   tok   ++, assignment, break           if    if statement              *)
(*   loop  for or range statement          stmt  other statement           *)
(*   first expression or send statement    label labelled statement        *)
(*   return, case, func                    other declarations, the file    *)
(* Fixed holds the children of an import, the operand of a range and what  *)
(* is below a constant declaration.                                        *)
(***************************************************************************)
Exprs == {"op", "call", "leaf", "sel"}
Stmts == {"tok", "if", "loop", "stmt", "first", "label"}
Kinds == Exprs \cup Stmts \cup {"return", "case", "func", "other"}

\* GetNodePosition: these are found by the position of their operator, the others by their first token.
OwnToken == {"op", "tok"}

\* Kinds whose replacement keeps its first token: HandleCaseClause copies it, a mutated function has it.
KeepsToken == {"case", "func"}

ASSUME TreeAssumption ==
  /\ N \in Nat
  /\ Parent \in [Nodes -> 0 .. N]
  /\ \A n \in Nodes : Parent[n] # 0 => Parent[n] > n
  /\ Kind \in [Nodes -> Kinds]
  /\ FirstToken \in [Nodes -> Nodes]
  /\ \A n \in Nodes : Kind[n] \in KeepsToken => FirstToken[n] = n
  /\ Fixed \subseteq Nodes
  /\ Typed \subseteq {n \in Nodes : Kind[n] = "leaf"}

\* posKey of the node as it was parsed
Key(n) == <<IF Kind[n] \in OwnToken THEN n ELSE FirstToken[n], Kind[n]>>

NoKey == <<0, "other">>

VARIABLES
  plan,     \* of each mutant: its site, what its operator yields, and where it yields nothing
  next,     \* the node visited next, N + 1 when all have been
  guards,   \* of each node: the mutants its replacement chooses between
  bare,     \* the nodes replaced without a guard
  blanked,  \* the mutated loops that got an assignment of their variable to _
  written   \* what became of the file

vars == <<plan, next, guards, bare, blanked, written>>

(***************************************************************************)
(* What the operator of a mutant yields at a node: a node of the same      *)
(* sort; a return of nil; a loop with an empty body.  It may yield nothing *)
(* at some of the nodes that share the key of its site.                    *)
(***************************************************************************)
Yields(n) ==
  {"same"} \cup {y \in {"nil"} : Kind[n] = "return"} \cup {y \in {"empty"} : Kind[n] = "loop"}

SameKey(n) == {o \in Nodes : Key(o) = Key(n)}

Plans ==
  UNION {[site : {n}, yield : Yields(n), declines : SUBSET SameKey(n)] :
           n \in {o \in Nodes : Kind[o] # "other"}}

\* GenerateMutants takes operators at the first site of a key only.
OneSitePerKey(p) ==
  \A m1, m2 \in Mutants : Key(p[m1].site) = Key(p[m2].site) => p[m1].site = p[m2].site

Replaced(n) == guards[n] # {} \/ n \in bare

\* The first token of a node went away with a replaced node below it.
Lost(n) ==
  \E r \in 1 .. (n - 1) : FirstToken[r] = FirstToken[n] /\ Replaced(r) /\ Kind[r] \notin KeepsToken

\* MUTANT: a replacement that keeps the position of what it replaces
CurrentKeyKept(n) == Key(n)

\* MUTANT: operators are looked for at their first token
CurrentKeyFirst(n) == IF Lost(n) THEN NoKey ELSE Key(n)

CurrentKey(n) == IF Kind[n] \notin OwnToken /\ Lost(n) THEN NoKey ELSE Key(n)

\* buildPositionToMutantsMap
MutantsAt(key) == {m \in Mutants : Key(plan[m].site) = key}

\* MUTANT: the check of the parent is missing
ShieldedFixedOnly(n) == n \in Fixed

\* A child of an expression that has mutants of its own is left alone.
Shielded(n) ==
  \/ n \in Fixed
  \/ Parent[n] # 0 /\ Kind[Parent[n]] \in Exprs /\ MutantsAt(CurrentKey(Parent[n])) # {}

-------------------------------------------------------------------------------
\* The mutants of a set whose operators yield something at the node
Mutable(n, ms) == {m \in ms : n \notin plan[m].declines}

\* Every mutant of an expression fits into its closure, and the closure where the expression was; if not,
\* Replace panics, and safeReplace leaves the node as it is.
ExprFits(n) == Kind[n] \in {"op", "call", "leaf"} /\ n \notin Typed

\* A single mutant of a statement becomes an if statement, which isValidReplacement accepts for an if statement
\* only; several become a block, which it accepts for any.
StmtFits(n, ms) == Kind[n] \in Stmts /\ (Cardinality(ms) = 1 => Kind[n] = "if")

\* HandleReturnStmt skips a nil that the result type cannot hold.  What it would return as it is, a single
\* mutant that is no return with a result, no operator yields for a return.
ReturnFits(n, m) == Kind[n] = "return" /\ (plan[m].yield = "nil" => n \in NilFits)

\* HandleCaseClause takes a single mutant only.
CaseFits(n, ms) == Kind[n] = "case" /\ Cardinality(ms) = 1

\* The mutants that the replacement of a node chooses between
Guarded(n, ms) ==
  {m \in Mutable(n, ms) : ExprFits(n) \/ StmtFits(n, ms) \/ ReturnFits(n, m) \/ CaseFits(n, ms)}

\* wrapWithSchemata has no form for a function: it returns the mutated one.
Unguarded(n, ms) == Kind[n] = "func" /\ Cardinality(ms) = 1 /\ Mutable(n, ms) # {}

Init ==
  /\ plan \in {p \in [Mutants -> Plans] : OneSitePerKey(p)}
  /\ next = 1
  /\ guards = [n \in Nodes |-> {}]
  /\ bare = {}
  /\ blanked = {}
  /\ written = "original"

\* applySchemataVisitor
Visit ==
  /\ next \in Nodes
  /\ next' = next + 1
  /\ LET ms == IF Shielded(next) THEN {} ELSE MutantsAt(CurrentKey(next))
     IN  /\ guards' = [guards EXCEPT ![next] = Guarded(next, ms)]
         /\ bare' = IF Unguarded(next, ms) THEN bare \cup {next} ELSE bare
  /\ UNCHANGED <<plan, blanked, written>>
-------------------------------------------------------------------------------
(***************************************************************************)
(* fixUnusedLoopVarsAfterMutationFast walks statement lists from the       *)
(* bodies of functions and closures, through every statement that holds a  *)
(* list (the if statements and blocks of the transformation too) but not   *)
(* through a label.                                                        *)
(***************************************************************************)
Walked == {"if", "loop", "stmt", "case"}

Ancestors[n \in Nodes] ==
  IF Parent[n] = 0 THEN {} ELSE {Parent[n]} \cup Ancestors[Parent[n]]

WalkReaches(n) ==
  \E f \in Ancestors[n] :
    /\ Kind[f] \in {"func", "sel"}   \* a closure is one of the other expressions
    /\ \A a \in Ancestors[n] : a < f => Kind[a] \in Walked

\* A loop with an emptied body no longer uses its variable.
EmptiedLoops == {l \in Nodes \X Mutants : l[2] \in guards[l[1]] /\ plan[l[2]].yield = "empty"}

\* MUTANT: the check for an empty buffer is missing
FinishUnchecked ==
  /\ next = N + 1
  /\ written = "original"
  /\ blanked' = {l \in EmptiedLoops : WalkReaches(l[1])}
  /\ written' \in {"schemata", "restored", "error", "empty"}
  /\ UNCHANGED <<plan, next, guards, bare>>

\* The rest of applySchemataToAST, or its end if the formatter fails: then the source is put back, and
\* the caller gets no error and no positions.
Finish ==
  /\ next = N + 1
  /\ written = "original"
  /\ blanked' = {l \in EmptiedLoops : WalkReaches(l[1])}
  /\ written' \in {"schemata", "restored", "error"}
  /\ UNCHANGED <<plan, next, guards, bare>>

Done == written # "original" /\ UNCHANGED vars

Next == Visit \/ Finish \/ Done

Spec == Init /\ [][Next]_vars
-------------------------------------------------------------------------------
(***************************************************************************)
(* Properties.                                                             *)
(***************************************************************************)

\* The type of the state: every mutant has a plan, and replacements hold mutants.
TypeOK ==
  /\ plan \in [Mutants -> Plans]
  /\ next \in 1 .. (N + 1)
  /\ guards \in [Nodes -> SUBSET Mutants]
  /\ bare \subseteq Nodes
  /\ blanked \subseteq Nodes \X Mutants
  /\ written \in {"original", "schemata", "restored", "error"}

\* Two calls may start at the same token and share a key (f().g()): a mutant of that key is still inlined
\* in one of them only, since replacing the inner one takes the position of the outer one away.
EachInlinedOnce ==
  \A m \in Mutants : \A n1, n2 \in Nodes : m \in guards[n1] /\ m \in guards[n2] => n1 = n2

\* No closure of an expression is the operand of an expression that has one (the visitor's check of the
\* parent), even when the parent's key changes between the visits of two of its children.
NoNestedInlining ==
  \A n \in Nodes :
    Parent[n] # 0 /\ Kind[n] \in Exprs /\ Kind[Parent[n]] \in Exprs /\ guards[n] # {}
      => guards[Parent[n]] = {}

\* A mutant of an operator expression is found whatever was replaced around it: only a parent that has
\* mutants itself, or a place the visitor passes by, leaves it out.
OperatorsAreFound ==
  \A m \in Mutants :
    LET n == plan[m].site
    IN  /\ next > n
        /\ Kind[n] = "op"
        /\ n \notin plan[m].declines
        /\ n \notin Fixed
        /\ Parent[n] # 0 => MutantsAt(Key(Parent[n])) = {}
        => m \in guards[n]

\* README.md:636 says that every mutant is inlined: here, every one of an assignment, an increment, a branch or a
\* loop whose operator yields something there.
StatementsAreInlined ==
  \A m \in Mutants :
    LET n == plan[m].site
    IN  /\ next > n
        /\ Kind[n] \in {"tok", "loop"}
        /\ n \notin plan[m].declines
        => m \in guards[n]

=============================================================================
