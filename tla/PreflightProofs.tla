--------------------------- MODULE PreflightProofs ---------------------------
(***************************************************************************)
(* Theorems about Preflight, for any mutants, files, conflicts and number  *)
(* of goroutines.  DecidedOnce speaks of the return only; the              *)
(* strengthening says for every mutant, at every level, which slice it is  *)
(* in already, or that a call that is still to come has it.                *)
(***************************************************************************)
EXTENDS Preflight, FiniteSetTheorems, TLAPS

\* The mutant is in one of two slices, once.
InOneOf(v, i, m) == (v[m] = 1 /\ i[m] = 0) \/ (v[m] = 0 /\ i[m] = 1)

InNone(v, i, m) == v[m] = 0 /\ i[m] = 0

\* Where a mutant is in the slices of RunPreflight.
Placed ==
  \A m \in Mutants :
    /\ pc = "level1" => m \in pending /\ InNone(valid, invalid, m)
    /\ pc = "level2" /\ m \notin pending => valid[m] = 0 /\ invalid[m] = 1
    /\ pc = "level2" /\ m \in pending =>
         IF FileOf[m] \in todo THEN InNone(valid, invalid, m) ELSE InOneOf(valid, invalid, m)
    /\ pc = "level3" => valid[m] = 0 /\ invalid[m] = IF m \in pending THEN 0 ELSE 1
    /\ pc = "returned" => InOneOf(valid, invalid, m)

\* The goroutine of its file has decided on the mutant.
Settled(m) ==
  \/ wpc[FileOf[m]] \in {"leave", "left"}
  \/ wpc[FileOf[m]] = "bisect" /\ \A S \in stack[FileOf[m]] : m \notin S

\* ... and in the slices of the goroutines.
PlacedByWorkers ==
  pc # "returned" =>
    \A m \in Mutants : IF m \in pending /\ Settled(m) THEN InOneOf(wValid, wInvalid, m)
                                                      ELSE InNone(wValid, wInvalid, m)

\* A file of the loop has no goroutine yet, and at level 3 every other one has had one.
Started ==
  /\ pc # "level3" /\ pc # "returned" => \A f \in Files : wpc[f] = "none"
  /\ pc = "returned" => \A f \in Files : wpc[f] \in {"none", "left"}
  /\ \A f \in todo : wpc[f] = "none"
  /\ pc = "level3" => \A m \in pending : wpc[FileOf[m]] = "none" => FileOf[m] \in todo

\* The calls that are to come share no mutant, and only have their file's.
Calls ==
  \A f \in Files :
    /\ wpc[f] # "bisect" => stack[f] = {}
    /\ \A S \in stack[f] : S \subseteq MutantsOf(f)
    /\ \A S, T \in stack[f] : S = T \/ S \cap T = {}

\* What the checks have shown of the mutants in the slices.
Checked ==
  \A m \in Mutants : /\ wInvalid[m] > 0 => Fails({m})
                     /\ wValid[m] > 0 /\ FileOf[m] \notin Vanishing => ~Fails({m})
                     /\ pc = "returned" /\ valid[m] > 0 => wValid[m] > 0

IInv ==
  /\ TypeOK
  /\ Placed
  /\ PlacedByWorkers
  /\ Started
  /\ Calls
  /\ Checked

-----------------------------------------------------------------------------
(***************************************************************************)
(* The helpers.                                                            *)
(***************************************************************************)
LEMMA AddedOnce ==
  ASSUME NEW v \in [Mutants -> 0 .. 1], NEW S \in SUBSET Mutants, \A m \in S : v[m] = 0
  PROVE  /\ Added(v, S) \in [Mutants -> 0 .. 1]
         /\ \A m \in Mutants : Added(v, S)[m] = IF m \in S THEN 1 ELSE v[m]
BY DEF Added

\* What passes together passes alone.
LEMMA PassesAlone ==
  ASSUME NEW S \in SUBSET Mutants, NEW m \in S, ~Fails(S)
  PROVE  ~Fails({m})
BY DEF Fails

LEMMA SingleMutant ==
  ASSUME NEW S \in SUBSET Mutants, Cardinality(S) = 1
  PROVE  \A m \in S : S = {m}
<1>1. IsFiniteSet(S)
  BY PreflightAssumption, FS_Subset DEF PreflightAssumption
<1> QED BY <1>1, FS_Singleton

LEMMA FileOfType == \A m \in Mutants : FileOf[m] \in Files
BY PreflightAssumption DEF PreflightAssumption

LEMMA InitInvariant == Init => IInv
<1> SUFFICES ASSUME Init PROVE IInv
  OBVIOUS
<1> USE DEF Init, None
<1>1. TypeOK
  BY DEF TypeOK
<1>2. Placed /\ PlacedByWorkers /\ Started
  BY FileOfType DEF Placed, PlacedByWorkers, Started, InNone, Settled
<1>3. Calls /\ Checked
  BY FileOfType DEF Calls, Checked
<1> QED BY <1>1, <1>2, <1>3 DEF IInv

-----------------------------------------------------------------------------
(***************************************************************************)
(* Levels 1 and 2: no goroutine runs.                                      *)
(***************************************************************************)
LEMMA QuickStaticFilterStep == IInv /\ QuickStaticFilter => IInv'
<1> SUFFICES ASSUME IInv, QuickStaticFilter PROVE IInv'
  OBVIOUS
<1> USE DEF IInv
<1>1. PICK unsafe \in SUBSET Mutants : /\ invalid' = Added(invalid, unsafe)
                                       /\ EnterLevel("level2", Mutants \ unsafe)
  BY DEF QuickStaticFilter
<1>2. /\ pc = "level1" /\ UNCHANGED <<valid, wpc, stack, wValid, wInvalid>>
      /\ pending' = Mutants \ unsafe
      /\ todo' = {FileOf[m] : m \in Mutants \ unsafe}
      /\ pc' \in {"level2", "returned"}
      /\ pc' = "returned" => Mutants \ unsafe = {}
  BY <1>1 DEF QuickStaticFilter, workerVars, EnterLevel
<1>3. /\ invalid' \in [Mutants -> 0 .. 1]
      /\ \A m \in Mutants : invalid'[m] = IF m \in unsafe THEN 1 ELSE 0
  BY <1>1, <1>2, AddedOnce DEF TypeOK, Placed, InNone
<1>4. TypeOK'
  BY <1>2, <1>3, FileOfType DEF TypeOK
<1>5. Placed'
  BY <1>2, <1>3 DEF Placed, InNone, InOneOf
<1>6. Started'
  BY <1>2, FileOfType DEF Started
<1>7. PlacedByWorkers' /\ Calls'
  BY <1>2, FileOfType DEF PlacedByWorkers, Calls, Started, Settled, MutantsOf, Placed
<1>8. Checked'
  BY <1>2 DEF Checked, Placed, InNone
<1> QED BY <1>4, <1>5, <1>6, <1>7, <1>8

LEMMA CheckFileStep == ASSUME NEW f \in Files PROVE IInv /\ CheckFile(f) => IInv'
<1> SUFFICES ASSUME IInv, CheckFile(f) PROVE IInv'
  OBVIOUS
<1> USE DEF IInv
<1>1. PICK good \in SUBSET MutantsOf(f) : /\ invalid' = Added(invalid, MutantsOf(f) \ good)
                                          /\ valid' = Added(valid, good)
  <2>1. PICK bad \in SUBSET MutantsOf(f) :
          \E together \in {{}, IF Cardinality(MutantsOf(f) \ bad) > 1 THEN MutantsOf(f) \ bad ELSE {}} :
            /\ invalid' = Added(invalid, bad \cup together)
            /\ valid' = Added(valid, MutantsOf(f) \ (bad \cup together))
    BY DEF CheckFile
  <2>2. PICK together \in SUBSET (MutantsOf(f) \ bad) :
            /\ invalid' = Added(invalid, bad \cup together)
            /\ valid' = Added(valid, MutantsOf(f) \ (bad \cup together))
    BY <2>1
  <2>3. bad \cup together = MutantsOf(f) \ (MutantsOf(f) \ (bad \cup together))
    OBVIOUS
  <2> QED BY <2>2, <2>3
<1>2. /\ pc = "level2" /\ f \in todo /\ todo' = todo \ {f}
      /\ UNCHANGED <<pc, pending, wpc, stack, wValid, wInvalid>>
  BY DEF CheckFile, workerVars
<1>3. \A m \in MutantsOf(f) : m \in Mutants /\ InNone(valid, invalid, m)
  BY <1>2 DEF Placed, MutantsOf, TypeOK
<1>4. /\ invalid' \in [Mutants -> 0 .. 1]
      /\ valid' \in [Mutants -> 0 .. 1]
      /\ \A m \in Mutants :
           /\ invalid'[m] = IF m \in MutantsOf(f) \ good THEN 1 ELSE invalid[m]
           /\ valid'[m] = IF m \in good THEN 1 ELSE valid[m]
  BY <1>1, <1>3, AddedOnce DEF TypeOK, InNone
<1>5. TypeOK'
  BY <1>2, <1>4 DEF TypeOK
<1>6. Placed'
  BY <1>2, <1>3, <1>4 DEF Placed, InNone, InOneOf, MutantsOf
<1>7. PlacedByWorkers' /\ Calls' /\ Started'
  BY <1>2 DEF PlacedByWorkers, Calls, Started, Settled, MutantsOf
<1>8. Checked'
  BY <1>2 DEF Checked
<1> QED BY <1>5, <1>6, <1>7, <1>8

LEMMA Level2DoneStep == IInv /\ Level2Done => IInv'
<1> SUFFICES ASSUME IInv, Level2Done PROVE IInv'
  OBVIOUS
<1> USE DEF IInv
<1> DEFINE left == {m \in Mutants : valid[m] > 0}
<1>1. /\ pc = "level2" /\ todo = {} /\ valid' = None
      /\ UNCHANGED <<invalid, wpc, stack, wValid, wInvalid>>
      /\ pending' = left
      /\ todo' = {FileOf[m] : m \in left}
      /\ pc' \in {"level3", "returned"}
      /\ pc' = "returned" => left = {}
  BY DEF Level2Done, workerVars, EnterLevel
<1>2. \A m \in Mutants : invalid[m] = IF m \in left THEN 0 ELSE 1
  BY <1>1 DEF Placed, InOneOf
<1>3. TypeOK'
  BY <1>1, FileOfType DEF TypeOK, None
<1>4. Placed'
  BY <1>1, <1>2 DEF Placed, InOneOf, None
<1>5. \A g \in Files : wpc[g] = "none"
  BY <1>1 DEF Started
<1>6. Started'
  BY <1>1, <1>5, FileOfType DEF Started
<1>7. \A m \in Mutants : InNone(wValid, wInvalid, m)
  BY <1>1, <1>5, FileOfType DEF PlacedByWorkers, Settled
<1>8. PlacedByWorkers' /\ Calls'
  BY <1>1, <1>5, <1>7, FileOfType DEF PlacedByWorkers, Calls, Settled, InNone
<1>9. Checked'
  BY <1>1 DEF Checked, None
<1> QED BY <1>3, <1>4, <1>6, <1>8, <1>9

-----------------------------------------------------------------------------
(***************************************************************************)
(* Level 3.                                                                *)
(***************************************************************************)
LEMMA StartFileStep == ASSUME NEW f \in Files PROVE IInv /\ StartFile(f) => IInv'
<1> SUFFICES ASSUME IInv, StartFile(f) PROVE IInv'
  OBVIOUS
<1> USE DEF IInv
<1>1. /\ pc = "level3" /\ f \in todo /\ todo' = todo \ {f}
      /\ wpc' = [wpc EXCEPT ![f] = "check"]
      /\ UNCHANGED <<pc, pending, valid, invalid, stack, wValid, wInvalid>>
  BY DEF StartFile
<1>2. TypeOK'
  BY <1>1 DEF TypeOK
<1>3. wpc[f] = "none"
  BY <1>1 DEF Started
<1>4. Placed' /\ Checked'
  BY <1>1 DEF Placed, Checked, InNone, InOneOf
<1>5. Started'
  BY <1>1, FileOfType DEF Started, TypeOK
<1>6. Calls'
  BY <1>1, <1>3 DEF Calls, TypeOK, MutantsOf
<1>7. \A m \in Mutants : Settled(m)' <=> Settled(m)
  BY <1>1, <1>3, FileOfType DEF Settled, TypeOK
<1>8. PlacedByWorkers'
  BY <1>1, <1>7 DEF PlacedByWorkers, InNone, InOneOf
<1> QED BY <1>2, <1>4, <1>5, <1>6, <1>8

\* A goroutine runs at level 3 only, and after its file has left the loop.
LEMMA WorkerRuns ==
  ASSUME IInv, NEW f \in Files, wpc[f] \in {"check", "bisect", "leave"}
  PROVE  pc = "level3" /\ f \notin todo
BY DEF IInv, Started, TypeOK

\* A step of a goroutine leaves the rest alone, if it leaves its own mutants in order.
LEMMA WorkerStep ==
  ASSUME IInv, NEW f \in Files, wpc[f] \in {"check", "bisect", "leave"}, UNCHANGED mainVars,
         NEW p \in {"bisect", "leave", "left"}, wpc' = [wpc EXCEPT ![f] = p],
         NEW calls \in SUBSET SUBSET Mutants, stack' = [stack EXCEPT ![f] = calls],
         wValid' \in [Mutants -> 0 .. 1], wInvalid' \in [Mutants -> 0 .. 1],
         \A m \in Mutants \ MutantsOf(f) : wValid'[m] = wValid[m] /\ wInvalid'[m] = wInvalid[m],
         p # "bisect" => calls = {},
         \A S \in calls : S \subseteq MutantsOf(f),
         \A S, T \in calls : S = T \/ S \cap T = {},
         \A m \in MutantsOf(f) : IF \A S \in calls : m \notin S THEN InOneOf(wValid', wInvalid', m)
                                                               ELSE InNone(wValid', wInvalid', m),
         \A m \in MutantsOf(f) : /\ wInvalid'[m] > 0 => Fails({m})
                                 /\ wValid'[m] > 0 /\ f \notin Vanishing => ~Fails({m})
  PROVE  IInv'
<1> USE DEF IInv
<1>1. /\ pc = "level3" /\ f \notin todo
      /\ UNCHANGED <<pc, pending, todo, valid, invalid>>
  BY WorkerRuns DEF mainVars
<1>2. TypeOK'
  BY <1>1 DEF TypeOK
<1>3. Placed'
  BY <1>1 DEF Placed, InNone, InOneOf
<1>4. Started'
  BY <1>1, FileOfType DEF Started, TypeOK
<1>5. Calls'
  <2> SUFFICES ASSUME NEW g \in Files
               PROVE  /\ wpc'[g] # "bisect" => stack'[g] = {}
                      /\ \A S \in stack'[g] : S \subseteq MutantsOf(g)
                      /\ \A S, T \in stack'[g] : S = T \/ S \cap T = {}
    BY <1>1 DEF Calls, MutantsOf
  <2>1. CASE g = f
    BY <2>1 DEF TypeOK
  <2>2. CASE g # f
    BY <2>2 DEF TypeOK, Calls
  <2> QED BY <2>1, <2>2
<1>6. PlacedByWorkers'
  <2> SUFFICES ASSUME NEW m \in Mutants
               PROVE  IF m \in pending /\ Settled(m)' THEN InOneOf(wValid', wInvalid', m)
                                                      ELSE InNone(wValid', wInvalid', m)
    BY <1>1 DEF PlacedByWorkers, InNone, InOneOf
  <2>1. CASE m \in MutantsOf(f)
    <3>1. FileOf[m] = f /\ m \in pending
      BY <2>1 DEF MutantsOf
    <3>2. Settled(m)' <=> \A S \in calls : m \notin S
      BY <3>1 DEF Settled, TypeOK
    <3> QED BY <2>1, <3>1, <3>2
  <2>2. CASE m \notin MutantsOf(f) /\ m \in pending
    <3>1. FileOf[m] # f /\ FileOf[m] \in Files
      BY <2>2, FileOfType DEF MutantsOf
    <3>2. Settled(m)' <=> Settled(m)
      BY <3>1 DEF Settled, TypeOK
    <3> QED BY <1>1, <2>2, <3>2 DEF PlacedByWorkers, InNone, InOneOf
  <2>3. CASE m \notin pending
    <3>1. m \notin MutantsOf(f)
      BY <2>3 DEF MutantsOf
    <3> QED BY <1>1, <2>3, <3>1 DEF PlacedByWorkers, InNone
  <2> QED BY <2>1, <2>2, <2>3
<1>7. Checked'
  <2> SUFFICES ASSUME NEW m \in Mutants
               PROVE  /\ wInvalid'[m] > 0 => Fails({m})
                      /\ wValid'[m] > 0 /\ FileOf[m] \notin Vanishing => ~Fails({m})
    BY <1>1 DEF Checked, Fails
  <2>1. CASE m \in MutantsOf(f)
    BY <2>1 DEF MutantsOf
  <2>2. CASE m \notin MutantsOf(f)
    BY <2>2 DEF Checked
  <2> QED BY <2>1, <2>2
<1> QED BY <1>2, <1>3, <1>4, <1>5, <1>6, <1>7

LEMMA TypeCheckFileStep == ASSUME NEW f \in Files PROVE IInv /\ TypeCheckFile(f) => IInv'
<1> SUFFICES ASSUME IInv, TypeCheckFile(f) PROVE IInv'
  OBVIOUS
<1> DEFINE group == MutantsOf(f)
<1>1. /\ wpc[f] = "check" /\ UNCHANGED mainVars /\ stack[f] = {}
      /\ group \in SUBSET Mutants
      /\ wValid \in [Mutants -> 0 .. 1] /\ wInvalid \in [Mutants -> 0 .. 1]
      /\ stack \in [Files -> SUBSET SUBSET Mutants]
  BY DEF TypeCheckFile, IInv, Calls, TypeOK, MutantsOf
<1>2. \A m \in group : m \in Mutants /\ InNone(wValid, wInvalid, m)
  BY <1>1, WorkerRuns DEF IInv, PlacedByWorkers, Settled, MutantsOf
<1>3. CASE Fails(group)
  <2>1. /\ stack' = [stack EXCEPT ![f] = {group}] /\ wpc' = [wpc EXCEPT ![f] = "bisect"]
        /\ UNCHANGED <<wValid, wInvalid>>
    BY <1>3 DEF TypeCheckFile
  <2>2. \A m \in group : /\ InNone(wValid', wInvalid', m)
                         /\ ~(wInvalid'[m] > 0) /\ ~(wValid'[m] > 0)
    BY <1>2, <2>1 DEF InNone
  <2>3. /\ {group} \in SUBSET SUBSET Mutants
        /\ \A S \in {group} : S \subseteq MutantsOf(f)
        /\ \A S, T \in {group} : S = T \/ S \cap T = {}
        /\ \A m \in MutantsOf(f) :
             IF \A S \in {group} : m \notin S THEN InOneOf(wValid', wInvalid', m)
                                              ELSE InNone(wValid', wInvalid', m)
        /\ wValid' \in [Mutants -> 0 .. 1] /\ wInvalid' \in [Mutants -> 0 .. 1]
    BY <1>1, <2>1, <2>2
  <2> QED BY <1>1, <2>1, <2>2, <2>3, WorkerStep
<1>4. CASE ~Fails(group)
  <2>1. /\ stack' = [stack EXCEPT ![f] = {}] /\ wpc' = [wpc EXCEPT ![f] = "leave"]
        /\ wValid' = Added(wValid, group) /\ wInvalid' = wInvalid
    BY <1>1, <1>4 DEF TypeCheckFile
  <2>2. /\ wValid' \in [Mutants -> 0 .. 1]
        /\ \A m \in Mutants : wValid'[m] = IF m \in group THEN 1 ELSE wValid[m]
    BY <1>1, <1>2, <2>1, AddedOnce DEF InNone
  <2>3. \A m \in group : /\ InOneOf(wValid', wInvalid', m)
                         /\ ~(wInvalid'[m] > 0) /\ ~Fails({m})
    <3> SUFFICES ASSUME NEW m \in group
                 PROVE  /\ InOneOf(wValid', wInvalid', m)
                        /\ ~(wInvalid'[m] > 0) /\ ~Fails({m})
      OBVIOUS
    <3>1. wValid'[m] = 1 /\ wInvalid'[m] = 0
      BY <1>2, <2>1, <2>2 DEF InNone
    <3>2. ~Fails({m})
      BY <1>1, <1>4, PassesAlone
    <3> QED BY <3>1, <3>2 DEF InOneOf
  <2>4. /\ wInvalid' \in [Mutants -> 0 .. 1]
        /\ \A m \in Mutants \ group : wValid'[m] = wValid[m] /\ wInvalid'[m] = wInvalid[m]
    BY <1>1, <2>1, <2>2
  <2> QED BY <1>1, <2>1, <2>2, <2>3, <2>4, WorkerStep
<1> QED BY <1>3, <1>4

LEMMA CannotReadStep == ASSUME NEW f \in Files PROVE IInv /\ CannotRead(f) => IInv'
<1> SUFFICES ASSUME IInv, CannotRead(f) PROVE IInv'
  OBVIOUS
<1> DEFINE group == MutantsOf(f)
<1>1. /\ wpc[f] = "check" /\ f \in Vanishing /\ UNCHANGED mainVars
      /\ stack[f] = {} /\ group \in SUBSET Mutants
      /\ wValid \in [Mutants -> 0 .. 1] /\ wInvalid \in [Mutants -> 0 .. 1]
      /\ stack \in [Files -> SUBSET SUBSET Mutants]
      /\ stack' = stack /\ wInvalid' = wInvalid /\ wValid' = Added(wValid, group)
      /\ wpc' = [wpc EXCEPT ![f] = "leave"]
  BY DEF CannotRead, IInv, Calls, TypeOK, MutantsOf
<1>2. \A m \in group : m \in Mutants /\ InNone(wValid, wInvalid, m)
  BY <1>1, WorkerRuns DEF IInv, PlacedByWorkers, Settled, MutantsOf
<1>3. stack' = [stack EXCEPT ![f] = {}]
  BY <1>1
<1>4. /\ wValid' \in [Mutants -> 0 .. 1]
      /\ \A m \in Mutants : wValid'[m] = IF m \in group THEN 1 ELSE wValid[m]
  BY <1>1, <1>2, AddedOnce DEF InNone
<1>5. \A m \in group : InOneOf(wValid', wInvalid', m) /\ ~(wInvalid'[m] > 0)
  BY <1>1, <1>2, <1>4 DEF InNone, InOneOf
<1>6. \A m \in Mutants \ group : wValid'[m] = wValid[m] /\ wInvalid'[m] = wInvalid[m]
  BY <1>1, <1>4
<1> QED BY <1>1, <1>3, <1>4, <1>5, <1>6, WorkerStep

LEMMA LeaveStep == ASSUME NEW f \in Files PROVE IInv /\ Leave(f) => IInv'
<1> SUFFICES ASSUME IInv, Leave(f) PROVE IInv'
  OBVIOUS
<1>1. /\ wpc[f] = "leave" /\ UNCHANGED mainVars
      /\ stack[f] = {} /\ MutantsOf(f) \in SUBSET Mutants
      /\ wValid \in [Mutants -> 0 .. 1] /\ wInvalid \in [Mutants -> 0 .. 1]
      /\ stack \in [Files -> SUBSET SUBSET Mutants]
      /\ UNCHANGED <<stack, wValid, wInvalid>>
      /\ wpc' = [wpc EXCEPT ![f] = "left"]
  BY DEF Leave, IInv, Calls, TypeOK, MutantsOf
<1>2. \A m \in MutantsOf(f) : InOneOf(wValid', wInvalid', m)
  BY <1>1, WorkerRuns DEF IInv, PlacedByWorkers, Settled, MutantsOf, InOneOf
<1>3. stack' = [stack EXCEPT ![f] = {}]
  BY <1>1
<1>4. \A m \in MutantsOf(f) : /\ wInvalid'[m] > 0 => Fails({m})
                              /\ wValid'[m] > 0 /\ f \notin Vanishing => ~Fails({m})
  BY <1>1 DEF IInv, Checked, MutantsOf
<1> QED BY <1>1, <1>2, <1>3, <1>4, WorkerStep

\* The bisection: a call of which nothing is decided yet becomes a decision, or
\* two calls for its parts.
LEMMA BisectMutantsStep == ASSUME NEW f \in Files PROVE IInv /\ BisectMutants(f) => IInv'
<1> SUFFICES ASSUME IInv, BisectMutants(f) PROVE IInv'
  OBVIOUS
<1>1. PICK S \in stack[f] : BisectCall(f, S)
  BY DEF BisectMutants
<1>2. /\ wpc[f] = "bisect" /\ UNCHANGED mainVars
      /\ wpc' = [wpc EXCEPT ![f] = IF stack'[f] = {} THEN "leave" ELSE "bisect"]
      /\ MutantsOf(f) \in SUBSET Mutants
      /\ wValid \in [Mutants -> 0 .. 1] /\ wInvalid \in [Mutants -> 0 .. 1]
      /\ stack \in [Files -> SUBSET SUBSET Mutants]
      /\ S \in SUBSET Mutants /\ S \subseteq MutantsOf(f)
      /\ \A T \in stack[f] : T \subseteq MutantsOf(f) /\ (T = S \/ S \cap T = {})
  BY DEF BisectMutants, IInv, Calls, TypeOK, MutantsOf
<1>3. pc # "returned"
  BY <1>2, WorkerRuns
<1>4. \A m \in MutantsOf(f) : IF \A T \in stack[f] : m \notin T THEN InOneOf(wValid, wInvalid, m)
                                                               ELSE InNone(wValid, wInvalid, m)
  BY <1>2, <1>3 DEF IInv, PlacedByWorkers, Settled, MutantsOf
<1>5. \A m \in MutantsOf(f) : /\ wInvalid[m] > 0 => Fails({m})
                              /\ wValid[m] > 0 /\ f \notin Vanishing => ~Fails({m})
  <2>1. \A m \in MutantsOf(f) : m \in Mutants /\ FileOf[m] = f
    BY <1>2 DEF MutantsOf
  <2>2. Checked
    BY DEF IInv
  <2> QED BY <2>1, <2>2 DEF Checked
<1>6. \A m \in S : m \in MutantsOf(f) /\ InNone(wValid, wInvalid, m)
  BY <1>2, <1>4
<1>7. \A T, U \in stack[f] : T = U \/ T \cap U = {}
  BY DEF IInv, Calls
<1>8. ASSUME NEW calls \in SUBSET SUBSET S, stack' = [stack EXCEPT ![f] = (@ \ {S}) \cup calls],
             \A T, U \in calls : T = U \/ T \cap U = {},
             wValid' \in [Mutants -> 0 .. 1], wInvalid' \in [Mutants -> 0 .. 1],
             \A m \in Mutants \ S : wValid'[m] = wValid[m] /\ wInvalid'[m] = wInvalid[m],
             \A m \in S : IF \A T \in calls : m \notin T THEN InOneOf(wValid', wInvalid', m)
                                                        ELSE InNone(wValid', wInvalid', m),
             \A m \in S : (wInvalid'[m] > 0 => Fails({m})) /\ (wValid'[m] > 0 => ~Fails({m}))
      PROVE  IInv'
  <2> DEFINE all == (stack[f] \ {S}) \cup calls
  <2>1. /\ stack' = [stack EXCEPT ![f] = all] /\ stack'[f] = all
        /\ all \in SUBSET SUBSET Mutants
        /\ \A T \in all : T \subseteq MutantsOf(f)
    BY <1>2, <1>8
  <2>2. \A T \in stack[f] \ {S} : S \cap T = {}
    BY <1>2
  <2>3. \A T, U \in all : T = U \/ T \cap U = {}
    BY <1>7, <1>8, <2>2
  <2>4. \A m \in MutantsOf(f) : IF \A T \in all : m \notin T THEN InOneOf(wValid', wInvalid', m)
                                                            ELSE InNone(wValid', wInvalid', m)
    <3> SUFFICES ASSUME NEW m \in MutantsOf(f)
                 PROVE  IF \A T \in all : m \notin T THEN InOneOf(wValid', wInvalid', m)
                                                    ELSE InNone(wValid', wInvalid', m)
      OBVIOUS
    <3>1. CASE m \in S
      <4>1. (\A T \in all : m \notin T) <=> (\A T \in calls : m \notin T)
        BY <2>2, <3>1
      <4> QED BY <1>8, <3>1, <4>1
    <3>2. CASE m \notin S
      <4>1. (\A T \in all : m \notin T) <=> (\A T \in stack[f] : m \notin T)
        BY <1>8, <3>2
      <4>2. wValid'[m] = wValid[m] /\ wInvalid'[m] = wInvalid[m]
        BY <1>2, <1>8, <3>2
      <4> QED BY <1>4, <4>1, <4>2 DEF InOneOf, InNone
    <3> QED BY <3>1, <3>2
  <2>5. \A m \in MutantsOf(f) : /\ wInvalid'[m] > 0 => Fails({m})
                                /\ wValid'[m] > 0 /\ f \notin Vanishing => ~Fails({m})
    BY <1>2, <1>5, <1>8
  <2>6. \A m \in Mutants \ MutantsOf(f) : wValid'[m] = wValid[m] /\ wInvalid'[m] = wInvalid[m]
    BY <1>2, <1>8
  <2>7. CASE all = {}
    <3>1. wpc' = [wpc EXCEPT ![f] = "leave"]
      BY <1>2, <2>1, <2>7
    <3> QED BY ZenonT(60), <1>2, <1>8, <2>1, <2>3, <2>4, <2>5, <2>6, <2>7, <3>1, WorkerStep
  <2>8. CASE all # {}
    <3>1. wpc' = [wpc EXCEPT ![f] = "bisect"]
      BY <1>2, <2>1, <2>8
    <3>2. wpc[f] \in {"check", "bisect", "leave"} /\ "bisect" \in {"bisect", "leave", "left"}
      BY <1>2
    <3>3. UNCHANGED mainVars /\ wValid' \in [Mutants -> 0 .. 1] /\ wInvalid' \in [Mutants -> 0 .. 1]
      BY <1>2, <1>8
    <3> HIDE DEF all
    <3> QED BY <2>1, <2>3, <2>4, <2>5, <2>6, <3>1, <3>2, <3>3, WorkerStep
  <2> QED BY <2>7, <2>8
<1>9. CASE Cardinality(S) = 1
  <2>1. DecideOn(f, S)
    BY <1>1, <1>9 DEF BisectCall
  <2>2. PICK calls \in SUBSET SUBSET S : calls = {}
    OBVIOUS
  <2>6. /\ stack' = [stack EXCEPT ![f] = (@ \ {S}) \cup calls]
        /\ \A T, U \in calls : T = U \/ T \cap U = {}
        /\ \A m \in S : \A T \in calls : m \notin T
    BY <2>1, <2>2 DEF DecideOn
  <2>3. \A m \in S : S = {m}
    BY <1>2, <1>9, SingleMutant
  <2>4. CASE Fails(S)
    <3>1. wInvalid' = Added(wInvalid, S) /\ wValid' = wValid
      BY <2>1, <2>4 DEF DecideOn
    <3>2. /\ wInvalid' \in [Mutants -> 0 .. 1]
          /\ \A m \in Mutants : wInvalid'[m] = IF m \in S THEN 1 ELSE wInvalid[m]
      BY <1>2, <1>6, <3>1, AddedOnce DEF InNone
    <3>3. \A m \in S : Fails({m})
      BY <2>3, <2>4
    <3>4. \A m \in S : wInvalid'[m] = 1 /\ wValid'[m] = 0
      BY <1>2, <1>6, <3>1, <3>2 DEF InNone
    <3>5. \A m \in S : InOneOf(wValid', wInvalid', m) /\ ~(wValid'[m] > 0)
      BY <3>4 DEF InOneOf
    <3>6. \A m \in Mutants \ S : wValid'[m] = wValid[m] /\ wInvalid'[m] = wInvalid[m]
      BY <3>1, <3>2
    <3>7. wValid' \in [Mutants -> 0 .. 1] /\ wInvalid' \in [Mutants -> 0 .. 1]
      BY <1>2, <3>1, <3>2
    <3>8. \A m \in S : IF \A T \in calls : m \notin T THEN InOneOf(wValid', wInvalid', m)
                                                      ELSE InNone(wValid', wInvalid', m)
      BY <2>6, <3>5
    <3>9. \A m \in S : (wInvalid'[m] > 0 => Fails({m})) /\ (wValid'[m] > 0 => ~Fails({m}))
      BY <3>3, <3>5
    <3> QED BY <1>8, <2>6, <3>6, <3>7, <3>8, <3>9
  <2>5. CASE ~Fails(S)
    <3>1. wValid' = Added(wValid, S) /\ wInvalid' = wInvalid
      BY <2>1, <2>5 DEF DecideOn
    <3>2. /\ wValid' \in [Mutants -> 0 .. 1]
          /\ \A m \in Mutants : wValid'[m] = IF m \in S THEN 1 ELSE wValid[m]
      BY <1>2, <1>6, <3>1, AddedOnce DEF InNone
    <3>3. \A m \in S : ~Fails({m})
      BY <2>3, <2>5
    <3>4. \A m \in S : wValid'[m] = 1 /\ wInvalid'[m] = 0
      BY <1>2, <1>6, <3>1, <3>2 DEF InNone
    <3>5. \A m \in S : InOneOf(wValid', wInvalid', m) /\ ~(wInvalid'[m] > 0)
      BY <3>4 DEF InOneOf
    <3>6. \A m \in Mutants \ S : wValid'[m] = wValid[m] /\ wInvalid'[m] = wInvalid[m]
      BY <3>1, <3>2
    <3>7. wValid' \in [Mutants -> 0 .. 1] /\ wInvalid' \in [Mutants -> 0 .. 1]
      BY <1>2, <3>1, <3>2
    <3>8. \A m \in S : IF \A T \in calls : m \notin T THEN InOneOf(wValid', wInvalid', m)
                                                      ELSE InNone(wValid', wInvalid', m)
      BY <2>6, <3>5
    <3>9. \A m \in S : (wInvalid'[m] > 0 => Fails({m})) /\ (wValid'[m] > 0 => ~Fails({m}))
      BY <3>3, <3>5
    <3> QED BY <1>8, <2>6, <3>6, <3>7, <3>8, <3>9
  <2> QED BY <2>4, <2>5
<1>10. CASE Cardinality(S) # 1
  <2> DEFINE left == LeftHalf(S)
             right == S \ left
             failing == {H \in {left, right} : Fails(H)}
  <2>1. /\ stack' = [stack EXCEPT ![f] = (@ \ {S}) \cup failing]
        /\ wInvalid' = wInvalid
        /\ wValid' = AddedAll(Added(wValid, IF Fails(left) THEN {} ELSE left),
                              Added(None, IF Fails(right) THEN {} ELSE right))
    BY <1>1, <1>10 DEF BisectCall, Split
  <2>2. left \subseteq S
    BY DEF LeftHalf
  <2> HIDE DEF left
  <2>3. \A m \in Mutants :
          wValid'[m] = (IF m \in left /\ ~Fails(left) THEN wValid[m] + 1 ELSE wValid[m])
                       + (IF m \in right /\ ~Fails(right) THEN 1 ELSE 0)
    BY <1>2, <2>1 DEF AddedAll, Added, None
  <2>4. \A m \in Mutants \ S : wValid'[m] = wValid[m] /\ wInvalid'[m] = wInvalid[m]
    <3> SUFFICES ASSUME NEW m \in Mutants \ S
                 PROVE  wValid'[m] = wValid[m] /\ wInvalid'[m] = wInvalid[m]
      OBVIOUS
    <3>1. m \notin left /\ m \notin right /\ wValid[m] \in 0 .. 1
      BY <1>2, <2>2
    <3> HIDE DEF right
    <3>2. wValid'[m] = wValid[m] + 0
      BY <2>3, <3>1
    <3> QED BY <2>1, <3>1, <3>2
  <2>5. \A m \in S : wInvalid'[m] = 0 /\
          wValid'[m] = IF (m \in left /\ Fails(left)) \/ (m \in right /\ Fails(right)) THEN 0 ELSE 1
    <3> SUFFICES ASSUME NEW m \in S
                 PROVE  /\ wInvalid'[m] = 0
                        /\ wValid'[m] = IF (m \in left /\ Fails(left)) \/ (m \in right /\ Fails(right))
                                       THEN 0 ELSE 1
      OBVIOUS
    <3>1. m \in Mutants /\ wValid[m] = 0 /\ wInvalid'[m] = 0
      BY <1>2, <1>6, <2>1 DEF InNone
    <3>2. m \in right <=> m \notin left
      OBVIOUS
    <3> HIDE DEF right
    <3> QED BY <2>3, <3>1, <3>2
  <2>6. wValid' \in [Mutants -> 0 .. 1] /\ wInvalid' \in [Mutants -> 0 .. 1]
    <3>1. \A m \in Mutants : wValid'[m] \in 0 .. 1
      BY <1>2, <2>4, <2>5
    <3>2. wValid' = [m \in Mutants |-> wValid'[m]]
      BY <2>1 DEF AddedAll
    <3> QED BY <1>2, <2>1, <3>1, <3>2
  <2>7. \A m \in S : (\A T \in failing : m \notin T)
                     <=> ~((m \in left /\ Fails(left)) \/ (m \in right /\ Fails(right)))
    OBVIOUS
  <2>8. \A m \in S : IF \A T \in failing : m \notin T THEN InOneOf(wValid', wInvalid', m)
                                                     ELSE InNone(wValid', wInvalid', m)
    BY <2>5, <2>7 DEF InOneOf, InNone
  <2>9. \A m \in S : (wInvalid'[m] > 0 => Fails({m})) /\ (wValid'[m] > 0 => ~Fails({m}))
    <3> SUFFICES ASSUME NEW m \in S, wValid'[m] > 0 PROVE ~Fails({m})
      BY <2>5
    <3>1. CASE m \in left
      <4>1. ~Fails(left)
        BY <2>5, <3>1
      <4> QED BY <1>2, <2>2, <3>1, <4>1, PassesAlone
    <3>2. CASE m \in right
      <4>1. ~Fails(right)
        BY <2>5, <3>2
      <4> QED BY <1>2, <3>2, <4>1, PassesAlone
    <3> QED BY <3>1, <3>2
  <2>10. /\ failing \in SUBSET SUBSET S
         /\ \A T, U \in failing : T = U \/ T \cap U = {}
    BY <2>2
  <2> HIDE DEF failing
  <2> QED BY <1>8, <2>1, <2>4, <2>6, <2>8, <2>9, <2>10
<1> QED BY <1>9, <1>10

LEMMA CollectStep == IInv /\ Collect => IInv'
<1> SUFFICES ASSUME IInv, Collect PROVE IInv'
  OBVIOUS
<1> USE DEF IInv
<1>1. /\ pc = "level3" /\ todo = {} /\ \A f \in Files : wpc[f] \in {"none", "left"}
      /\ valid' = AddedAll(valid, wValid) /\ invalid' = AddedAll(invalid, wInvalid)
      /\ pending' = {} /\ pc' = "returned"
      /\ UNCHANGED <<todo, wpc, stack, wValid, wInvalid>>
  BY DEF Collect, workerVars
<1>2. \A m \in Mutants : IF m \in pending THEN InOneOf(wValid, wInvalid, m)
                                         ELSE InNone(wValid, wInvalid, m)
  <2>1. \A m \in pending : wpc[FileOf[m]] = "left"
    BY <1>1, FileOfType DEF Started, TypeOK
  <2> QED BY <1>1, <2>1 DEF PlacedByWorkers, Settled
<1>3. \A m \in Mutants : valid'[m] = wValid[m] /\ InOneOf(valid', invalid', m)
  BY <1>1, <1>2 DEF Placed, AddedAll, InOneOf, InNone, TypeOK
<1>4. TypeOK'
  <2>1. \A m \in Mutants : valid'[m] \in 0 .. 1 /\ invalid'[m] \in 0 .. 1
    BY <1>3 DEF InOneOf
  <2>2. valid' \in [Mutants -> 0 .. 1] /\ invalid' \in [Mutants -> 0 .. 1]
    BY <1>1, <2>1 DEF AddedAll
  <2> QED BY <1>1, <2>2 DEF TypeOK
<1>5. Placed' /\ PlacedByWorkers'
  BY <1>1, <1>3 DEF Placed, PlacedByWorkers
<1>6. Started' /\ Calls'
  BY <1>1 DEF Started, Calls
<1>7. Checked'
  BY <1>1, <1>3 DEF Checked
<1> QED BY <1>4, <1>5, <1>6, <1>7

-----------------------------------------------------------------------------
(***************************************************************************)
(* The theorems.                                                           *)
(***************************************************************************)
LEMMA InductiveInvariant == Spec => []IInv
<1>1. IInv /\ [Next]_vars => IInv'
  <2> SUFFICES ASSUME IInv, [Next]_vars PROVE IInv'
    OBVIOUS
  <2>1. CASE UNCHANGED vars
    BY <2>1 DEF vars, IInv, TypeOK, Placed, PlacedByWorkers, Started, Calls, Checked, Settled,
                MutantsOf, InNone, InOneOf
  <2> QED
    BY <2>1, QuickStaticFilterStep, CheckFileStep, Level2DoneStep, StartFileStep, CollectStep,
       TypeCheckFileStep, CannotReadStep, BisectMutantsStep, LeaveStep
    DEF Next, Main, Worker, Returned
<1> QED BY <1>1, InitInvariant, PTL DEF Spec

\* The types; and no slice, of any level or goroutine, ever holds a mutant twice.
THEOREM PreflightTypeCorrect == Spec => []TypeOK
BY InductiveInvariant, PTL DEF IInv

\* RunPreflight hands back every mutant in exactly one of its slices, once.
THEOREM EveryMutantDecidedOnce == Spec => []DecidedOnce
<1>1. IInv => DecidedOnce
  BY DEF IInv, Placed, InOneOf, DecidedOnce
<1> QED BY <1>1, InductiveInvariant, PTL

\* RunPreflight keeps the promise that the step Preflight of Lifecycle is.
THEOREM PreflightKeepsPromise == Spec => []PromiseKept
<1>1. TypeOK /\ DecidedOnce => PromiseKept
  BY DEF TypeOK, DecidedOnce, PromiseKept, Sorted
<1> QED BY <1>1, PreflightTypeCorrect, EveryMutantDecidedOnce, PTL

\* The bisection blames nobody but mutants that the type checker rejects alone.
THEOREM OnlyTheGuiltyRejected == Spec => []RejectedAreGuilty
<1>1. IInv => RejectedAreGuilty
  BY DEF IInv, Checked, RejectedAreGuilty
<1> QED BY <1>1, InductiveInvariant, PTL

\* What goes on to the workspace type-checks alone, unless its file vanished.
THEOREM KeptTypeCheck == Spec => []KeptAreClean
<1>1. IInv => KeptAreClean
  BY DEF IInv, Checked, KeptAreClean
<1> QED BY <1>1, InductiveInvariant, PTL

=============================================================================
