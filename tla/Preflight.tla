----------------------------- MODULE Preflight -----------------------------
(***************************************************************************)
(* RunPreflight: three levels of checks sort the mutants into valid and    *)
(* invalid before a workspace exists.  Level 1 looks at each mutant, level *)
(* 2 at each file in turn; level 3 type-checks the files in goroutines, at *)
(* most two at a time, and bisects the mutants of a file that fails.       *)
(*                                                                         *)
(* The slices of valid and of invalid mutants are counted per mutant, so   *)
(* that a mutant appended twice is seen.                                   *)
(***************************************************************************)
EXTENDS Naturals, FiniteSets, Promises

CONSTANTS
  Mutants,    \* the IDs of the mutants: numbers
  Files,      \* the files with mutants
  FileOf,     \* the file of each mutant
  Conflicts,  \* sets of mutants of one file that the type checker rejects, or
              \* panics on, if all of them are inlined: beyond the baseline
  Vanishing,  \* files that may become unreadable between two levels
  Slots       \* capacity of sem: 2

ASSUME PreflightAssumption ==
  /\ Mutants \subseteq Nat
  /\ IsFiniteSet(Mutants)
  /\ Mutants # {}
  /\ FileOf \in [Mutants -> Files]
  /\ Conflicts \subseteq (SUBSET Mutants) \ {{}}
  /\ Vanishing \subseteq Files
  /\ Slots \in Nat \ {0}

VARIABLES
  pc,        \* the level of RunPreflight: "level1", "level2", "level3", "returned"
  pending,   \* mutants that the levels so far have not decided on
  todo,      \* files that the loop over groups has not reached
  valid,     \* how often each mutant is in the valid slice of the last level
  invalid,   \* how often each mutant is in the slice invalid
  wpc,       \* per file its goroutine: "none", "check", "bisect", "leave" or "left"
  stack,     \* per file the arguments of the calls of bisectMutants to come
  wValid,    \* how often each mutant is in the valid slice of its file's goroutine
  wInvalid   \* ... and in its invalid slice

mainVars == <<pc, pending, todo, valid, invalid>>
workerVars == <<wpc, stack, wValid, wInvalid>>
vars == <<pc, pending, todo, valid, invalid, wpc, stack, wValid, wInvalid>>

None == [m \in Mutants |-> 0]

\* append(slice, S...)
Added(slice, S) == [m \in Mutants |-> IF m \in S THEN slice[m] + 1 ELSE slice[m]]

\* append(slice, result...), for the result of every goroutine that sent one
AddedAll(slice, results) == [m \in Mutants |-> slice[m] + results[m]]

MutantsOf(f) == {m \in pending : FileOf[m] = f}

\* runTypeCheck: errors beyond the baseline, or a panic.
Fails(S) == \E c \in Conflicts : c \subseteq S

Init ==
  /\ pc = "level1"
  /\ pending = Mutants
  /\ todo = {}
  /\ valid = None /\ invalid = None
  /\ wpc = [f \in Files |-> "none"]
  /\ stack = [f \in Files |-> {}]
  /\ wValid = None /\ wInvalid = None

-----------------------------------------------------------------------------
\* What a level leaves: the files of the next one, or the return.
EnterLevel(level, left) ==
  /\ pending' = left
  /\ todo' = {FileOf[m] : m \in left}
  /\ pc' = IF left = {} THEN "returned" ELSE level

\* quickStaticFilter: which sites an operator declares unsafe is its own business.
QuickStaticFilter ==
  /\ pc = "level1"
  /\ \E unsafe \in SUBSET Mutants :
       /\ invalid' = Added(invalid, unsafe)
       /\ EnterLevel("level2", Mutants \ unsafe)
  /\ UNCHANGED <<valid, workerVars>>

\* checkFileWithSchemata: any mutants fail alone, all of them if the file cannot be
\* read; of two or more that are left, all or none fail together, by the schemata
\* or by a build of the package, which is the unmodified one.
CheckFile(f) ==
  /\ pc = "level2"
  /\ f \in todo
  /\ \E bad \in SUBSET MutantsOf(f) :
       \E together \in {{}, IF Cardinality(MutantsOf(f) \ bad) > 1 THEN MutantsOf(f) \ bad ELSE {}} :
         /\ invalid' = Added(invalid, bad \cup together)
         /\ valid' = Added(valid, MutantsOf(f) \ (bad \cup together))
  /\ todo' = todo \ {f}
  /\ UNCHANGED <<pc, pending, workerVars>>

Level2Done ==
  /\ pc = "level2"
  /\ todo = {}
  /\ EnterLevel("level3", {m \in Mutants : valid[m] > 0})
  /\ valid' = None
  /\ UNCHANGED <<invalid, workerVars>>

(***************************************************************************)
(* Level 3: the loop takes a slot of sem before it starts a goroutine.     *)
(***************************************************************************)
Running == {f \in Files : wpc[f] \in {"check", "bisect", "leave"}}

StartFile(f) ==
  /\ pc = "level3"
  /\ f \in todo
  /\ Cardinality(Running) < Slots
  /\ todo' = todo \ {f}
  /\ wpc' = [wpc EXCEPT ![f] = "check"]
  /\ UNCHANGED <<pc, pending, valid, invalid, stack, wValid, wInvalid>>

\* typeCheckFileGroup: the check of all mutants of the file.
TypeCheckFile(f) ==
  /\ wpc[f] = "check"
  /\ IF Fails(MutantsOf(f))
     THEN /\ stack' = [stack EXCEPT ![f] = {MutantsOf(f)}]
          /\ wpc' = [wpc EXCEPT ![f] = "bisect"]
          /\ UNCHANGED <<wValid, wInvalid>>
     ELSE /\ wValid' = Added(wValid, MutantsOf(f))
          /\ wpc' = [wpc EXCEPT ![f] = "leave"]
          /\ UNCHANGED <<stack, wInvalid>>
  /\ UNCHANGED mainVars

\* The file can no longer be read: its mutants pass unchecked.
CannotRead(f) ==
  /\ wpc[f] = "check"
  /\ f \in Vanishing
  /\ wValid' = Added(wValid, MutantsOf(f))
  /\ wpc' = [wpc EXCEPT ![f] = "leave"]
  /\ UNCHANGED <<mainVars, stack, wInvalid>>

\* The order of the slice is that of the IDs: mutants[:mid], mid = len(mutants)/2.
LeftHalf(S) == {m \in S : Cardinality({n \in S : n < m}) < Cardinality(S) \div 2}

\* The call whose turn it is: the left half is bisected before the right one.
IsNext(S, f) ==
  /\ S \in stack[f]
  /\ \A T \in stack[f] \ {S} : \E m \in S : \A n \in T : m < n

\* MUTANT: a single mutant is passed through, as the comment on a panic says.
PassThrough(f, S) ==
  /\ stack' = [stack EXCEPT ![f] = @ \ {S}]
  /\ wValid' = Added(wValid, S)
  /\ UNCHANGED wInvalid

\* The check of a single mutant.
DecideOn(f, S) ==
  /\ stack' = [stack EXCEPT ![f] = @ \ {S}]
  /\ IF Fails(S) THEN wInvalid' = Added(wInvalid, S) /\ UNCHANGED wValid
                 ELSE wValid' = Added(wValid, S) /\ UNCHANGED wInvalid

\* The checks of two halves: a half that fails is bisected in its turn.
Split(f, S, left, right) ==
  LET failing == {H \in {left, right} : Fails(H)}
  IN /\ stack' = [stack EXCEPT ![f] = (@ \ {S}) \cup failing]
     /\ wValid' = AddedAll(Added(wValid, IF Fails(left) THEN {} ELSE left),
                           Added(None, IF Fails(right) THEN {} ELSE right))
     /\ UNCHANGED wInvalid

\* MUTANT: the halves overlap, mutants[:mid] and mutants[mid-1:].
BisectOverlapping(f, S) ==
  IF Cardinality(S) = 1
  THEN DecideOn(f, S)
  ELSE \E m \in LeftHalf(S) :
         /\ \A n \in LeftHalf(S) : n <= m
         /\ Split(f, S, LeftHalf(S), (S \ LeftHalf(S)) \cup {m})

\* MUTANT: the base case is the empty slice only.
BisectToEmpty(f, S) == Split(f, S, LeftHalf(S), S \ LeftHalf(S))

\* MUTANT: a pair is not split.
BisectToPairs(f, S) ==
  IF Cardinality(S) <= 2 THEN DecideOn(f, S) ELSE Split(f, S, LeftHalf(S), S \ LeftHalf(S))

\* One call: a single mutant is decided on, of more each half is checked.
BisectCall(f, S) ==
  IF Cardinality(S) = 1 THEN DecideOn(f, S) ELSE Split(f, S, LeftHalf(S), S \ LeftHalf(S))

BisectMutants(f) ==
  /\ wpc[f] = "bisect"
  /\ \E S \in stack[f] : IsNext(S, f) /\ BisectCall(f, S)
  /\ wpc' = [wpc EXCEPT ![f] = IF stack'[f] = {} THEN "leave" ELSE "bisect"]
  /\ UNCHANGED mainVars

\* The result is sent, which never blocks; the slot is freed, then wg.Done.
Leave(f) ==
  /\ wpc[f] = "leave"
  /\ wpc' = [wpc EXCEPT ![f] = "left"]
  /\ UNCHANGED <<mainVars, stack, wValid, wInvalid>>

\* wg.Wait, the results in the channel, and the return.
Collect ==
  /\ pc = "level3"
  /\ todo = {}
  /\ \A f \in Files : wpc[f] \in {"none", "left"}
  /\ valid' = AddedAll(valid, wValid)
  /\ invalid' = AddedAll(invalid, wInvalid)
  /\ pending' = {}
  /\ pc' = "returned"
  /\ UNCHANGED <<todo, workerVars>>

Returned == pc = "returned" /\ UNCHANGED vars

Main == QuickStaticFilter \/ (\E f \in Files : CheckFile(f) \/ StartFile(f)) \/ Level2Done \/ Collect

Worker(f) == TypeCheckFile(f) \/ CannotRead(f) \/ BisectMutants(f) \/ Leave(f)

Next == Main \/ (\E f \in Files : Worker(f)) \/ Returned

\* The goroutine of the caller and those of the files are scheduled when they can go on.
Spec == Init /\ [][Next]_vars /\ WF_vars(Main) /\ \A f \in Files : WF_vars(Worker(f))

-----------------------------------------------------------------------------
(***************************************************************************)
(* Properties.                                                             *)
(***************************************************************************)
\* No slice ever holds a mutant twice.
TypeOK ==
  /\ pc \in {"level1", "level2", "level3", "returned"}
  /\ pending \in SUBSET Mutants
  /\ todo \in SUBSET Files
  /\ valid \in [Mutants -> 0 .. 1]
  /\ invalid \in [Mutants -> 0 .. 1]
  /\ wpc \in [Files -> {"none", "check", "bisect", "leave", "left"}]
  /\ stack \in [Files -> SUBSET SUBSET Mutants]
  /\ wValid \in [Mutants -> 0 .. 1]
  /\ wInvalid \in [Mutants -> 0 .. 1]

\* Whatever level decides, and however the goroutines are interleaved, RunPreflight
\* hands back every mutant in exactly one of its slices, and there once: its caller
\* appends a copy of the mutant for each entry of the second.
DecidedOnce == pc = "returned" => \A m \in Mutants : valid[m] + invalid[m] = 1

\* What Lifecycle takes the call for.
PromiseKept ==
  pc = "returned" =>
    Sorted(Mutants, {m \in Mutants : valid[m] > 0}, {m \in Mutants : invalid[m] > 0})

\* The bisection only blames mutants that the type checker rejects by themselves,
\* not those that were checked together with one.
RejectedAreGuilty == \A m \in Mutants : wInvalid[m] > 0 => Fails({m})

\* A mutant that goes on to the workspace type-checks by itself, unless its file
\* could not be read again: also when it was only ever checked with others.
KeptAreClean ==
  pc = "returned" => \A m \in Mutants :
    valid[m] > 0 /\ FileOf[m] \notin Vanishing => ~Fails({m})

\* The bisection gets to single mutants, a slot is always freed, and the call returns.
Terminates == <>(pc = "returned")

=============================================================================
