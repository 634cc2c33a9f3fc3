------------------------ MODULE SchemataVerifyProofs ------------------------
(***************************************************************************)
(* Theorems about SchemataVerify for every workspace, every set of         *)
(* conflicts, every fault and every number of rounds: no mutant is lost or *)
(* returned twice, the removed ones are the compile errors, their code is  *)
(* gone from the workspace, and the bisection finds the culprits.          *)
(***************************************************************************)
EXTENDS SchemataVerify, FiniteSetTheorems, TLAPS

One(b) == IF b THEN 1 ELSE 0

\* The call is over exactly when it has an outcome.
OutcomeInv == pc # "returned" <=> outcome = "running"

\* A bisection happens in a round, and searches kept mutants only.
BisectInv ==
  pc = "bisect" => /\ round < MaxRounds
                   /\ badSet \subseteq mutants
                   /\ stack \in Seq(SUBSET mutants)

CountInv ==
  \A m \in Mutants :
    /\ removed[m] + One(m \in mutants) >= 1
    /\ outcome # "error" => removed[m] + One(m \in mutants) = 1

\* The mutants removed, and those that the bisection under way has blamed, are
\* errors; the others have the status they came with.
StatusInv ==
  outcome # "error" =>
    \A m \in Mutants :
      status[m] = IF removed[m] > 0 \/ (pc = "bisect" /\ m \in badSet)
                    THEN "error" ELSE stored[m]

VInv ==
  /\ TypeOK
  /\ OutcomeInv
  /\ BisectInv
  /\ CountInv
  /\ StatusInv

-----------------------------------------------------------------------------
\* The workspace keeps its type whatever is written to it.
LEMMA WorkspaceType ==
  ASSUME TypeOK,
         \/ \E bad, kept : kept \subseteq Mutants /\ (ReapplyAffectedFiles(bad, kept) \/ ReapplyFails(bad, kept))
         \/ \E files : Restore(files)
         \/ \E pkgs : ResetFails(pkgs)
  PROVE  embedded' \in [Files -> SUBSET Mutants] /\ helper' \in [Pkgs -> BOOLEAN]
<1>1. ASSUME NEW bad, NEW kept, kept \subseteq Mutants, ReapplyAffectedFiles(bad, kept)
      PROVE  embedded' \in [Files -> SUBSET Mutants] /\ helper' \in [Pkgs -> BOOLEAN]
  <2>1. embedded' \in [Files -> SUBSET Mutants]
    <3>1. PICK lost, affected : embedded' = Contents(lost, affected, kept)
      BY <1>1, Zenon DEF ReapplyAffectedFiles
    <3>2. QED
      BY <1>1, <3>1 DEF Contents, TypeOK
  <2>2. helper' \in [Pkgs -> BOOLEAN]
    BY <1>1 DEF ReapplyAffectedFiles, TypeOK
  <2>3. QED
    BY <2>1, <2>2
<1>2. CASE \E bad, kept : kept \subseteq Mutants /\ ReapplyFails(bad, kept)
  BY <1>2 DEF ReapplyFails, Contents, TypeOK
<1>3. CASE (\E files : Restore(files)) \/ \E pkgs : ResetFails(pkgs)
  BY <1>3 DEF Restore, ResetFails, TypeOK
<1>4. QED
  BY <1>1, <1>2, <1>3

\* Removing kept mutants moves each of them from one list to the other.
LEMMA RemoveStep ==
  ASSUME VInv, outcome = "running", NEW S, S \subseteq mutants, Remove(S),
         pc = "bisect" => badSet \subseteq S
  PROVE  /\ mutants' \in SUBSET Mutants
         /\ removed' \in [Mutants -> Nat]
         /\ status' \in [Mutants -> StoredStatuses \cup {"untested", "error"}]
         /\ \A m \in Mutants : removed'[m] + One(m \in mutants') = 1
         /\ \A m \in Mutants : status'[m] = IF removed'[m] > 0 THEN "error" ELSE stored[m]
<1> USE DEF VInv
<1>1. /\ mutants' = mutants \ S
      /\ removed' = [m \in Mutants |-> IF m \in S THEN removed[m] + 1 ELSE removed[m]]
      /\ status' = [m \in Mutants |-> IF m \in S THEN "error" ELSE status[m]]
  BY DEF Remove, AppendRemoved
<1>2. ASSUME NEW m \in Mutants
      PROVE  /\ removed'[m] \in Nat
             /\ removed'[m] + One(m \in mutants') = 1
             /\ status'[m] = IF removed'[m] > 0 THEN "error" ELSE stored[m]
  <2>1. removed[m] \in Nat /\ removed[m] + One(m \in mutants) = 1
    BY DEF CountInv, TypeOK
  <2>2. CASE m \in S
    <3>1. removed[m] = 0 /\ removed'[m] = 1 /\ m \notin mutants'
      BY <1>1, <2>1, <2>2 DEF One
    <3>2. QED
      BY <1>1, <2>2, <3>1 DEF One
  <2>3. CASE m \notin S
    <3>1. removed'[m] = removed[m] /\ (m \in mutants' <=> m \in mutants) /\ status'[m] = status[m]
      BY <1>1, <2>3
    <3>2. status[m] = IF removed[m] > 0 THEN "error" ELSE stored[m]
      BY <2>3 DEF StatusInv
    <3>3. One(m \in mutants') = One(m \in mutants)
      BY <3>1 DEF One
    <3>4. QED
      BY <2>1, <3>1, <3>2, <3>3
  <2>4. QED
    BY <2>2, <2>3
<1>3. mutants' \in SUBSET Mutants /\ removed' \in [Mutants -> Nat]
  BY <1>1, <1>2 DEF TypeOK
<1>4. status' \in [Mutants -> StoredStatuses \cup {"untested", "error"}]
  BY <1>1 DEF TypeOK
<1>5. QED
  BY <1>2, <1>3, <1>4

\* A return with an error still hands back every mutant, removed or kept.
LEMMA GiveUpStep ==
  ASSUME VInv, outcome = "running", NEW S, S \subseteq mutants, RemoveAndGiveUpOn(S),
         NEW T, S \subseteq T, T \subseteq mutants, AppendRemoved(T)
  PROVE  /\ mutants' \in SUBSET Mutants
         /\ removed' \in [Mutants -> Nat]
         /\ status' \in [Mutants -> StoredStatuses \cup {"untested", "error"}]
         /\ \A m \in Mutants : removed'[m] + One(m \in mutants') >= 1
<1> USE DEF VInv
<1>1. /\ mutants' = mutants \ S
      /\ removed' = [m \in Mutants |-> IF m \in T THEN removed[m] + 1 ELSE removed[m]]
  BY DEF RemoveAndGiveUpOn, AppendRemoved
<1>2. ASSUME NEW m \in Mutants
      PROVE  removed'[m] \in Nat /\ removed'[m] + One(m \in mutants') >= 1
  <2>1. removed[m] \in Nat /\ removed[m] + One(m \in mutants) >= 1
    BY DEF CountInv, TypeOK
  <2>2. CASE m \in T
    BY <1>1, <2>1, <2>2 DEF One
  <2>3. CASE m \notin T
    <3>1. removed'[m] = removed[m] /\ (m \in mutants' <=> m \in mutants)
      BY <1>1, <2>3
    <3>2. QED
      BY <2>1, <3>1 DEF One
  <2>4. QED
    BY <2>2, <2>3
<1>3. mutants' \in SUBSET Mutants /\ removed' \in [Mutants -> Nat]
  BY <1>1, <1>2 DEF TypeOK
<1>4. status' \in [Mutants -> StoredStatuses \cup {"untested", "error"}]
  BY DEF RemoveAndGiveUpOn, TypeOK
<1>5. QED
  BY <1>2, <1>3, <1>4

-----------------------------------------------------------------------------
LEMMA InitVInv == Init => VInv
<1> SUFFICES ASSUME Init PROVE VInv
  OBVIOUS
<1> USE SchemataVerifyAssumption DEF Init
<1>1. embedded \in [Files -> SUBSET Mutants]
  BY DEF MutantsOf
<1>2. TypeOK
  <2>1. stack \in Seq(SUBSET Mutants) /\ round \in 0 .. MaxRounds
    OBVIOUS
  <2>2. removed \in [Mutants -> Nat] /\ status \in [Mutants -> StoredStatuses \cup {"untested", "error"}]
    OBVIOUS
  <2>3. helper \in [Pkgs -> BOOLEAN]
    OBVIOUS
  <2>4. QED
    BY <1>1, <2>1, <2>2, <2>3 DEF TypeOK
<1>3. OutcomeInv /\ BisectInv
  BY DEF OutcomeInv, BisectInv
<1>4. CountInv /\ StatusInv
  BY DEF CountInv, StatusInv, One, Statuses
<1>5. QED
  BY <1>2, <1>3, <1>4 DEF VInv

\* Building, and returning what is kept, change no mutant.
LEMMA QuietStep ==
  ASSUME VInv, Build \/ BuildClean \/ DeferUntracked \/ FinalDefer
  PROVE  VInv'
<1> USE DEF VInv
<1>1. /\ pc \in {"build", "inspect"} /\ pc' \in {"inspect", "returned"}
      /\ outcome' = (IF pc' = "returned" THEN outcome' ELSE "running")
      /\ outcome' \in {"running", "verified", "unverified"}
      /\ (pc' # "returned" <=> outcome' = "running")
      /\ UNCHANGED <<round, conflicts, stored, faults, mutants, removed, status, embedded, helper, failing, stack, badSet>>
  BY DEF given, Build, VerifyBuild, VerifyBuildKilled, BuildClean, DeferUntracked, FinalDefer,
         Return, InRound, AfterLastRound, workspace, bisectVars, OutcomeInv
<1>2. expired' \in BOOLEAN /\ buildOK' \in BOOLEAN /\ output' \in SUBSET Conflicts
  BY DEF given, Build, VerifyBuild, VerifyBuildKilled, BuildClean, DeferUntracked, FinalDefer,
         buildVars, TypeOK, Reported, Active, WorkspaceBuilds
<1>3. TypeOK'
  BY <1>1, <1>2 DEF TypeOK
<1>4. OutcomeInv' /\ BisectInv'
  BY <1>1 DEF OutcomeInv, BisectInv
<1>5. CountInv' /\ StatusInv'
  BY <1>1 DEF CountInv, StatusInv, OutcomeInv
<1>6. QED
  BY <1>3, <1>4, <1>5

\* The steps of a bisection only add kept mutants to those blamed.
LEMMA BisectStep ==
  ASSUME VInv, StartBisection \/ BisectFile \/ BisectCandidates \/ BisectApplyFails
  PROVE  VInv'
<1> USE DEF VInv
<1>1. CASE StartBisection
  <2>1. TypeOK'
    BY <1>1 DEF given, TypeOK, StartBisection, failingFiles, workspace, buildVars
  <2>2. OutcomeInv' /\ BisectInv'
    BY <1>1 DEF OutcomeInv, BisectInv, StartBisection, InRound
  <2>3. CountInv' /\ StatusInv'
    BY <1>1 DEF given, CountInv, StatusInv, OutcomeInv, StartBisection, InRound
  <2>4. QED
    BY <2>1, <2>2, <2>3
<1>2. CASE BisectFile
  <2>1. PICK f \in failing : failing' = failing \ {f} /\ stack' = <<KeptOf(f)>>
    BY <1>2 DEF BisectFile
  <2>2. stack' \in Seq(SUBSET mutants) /\ stack' \in Seq(SUBSET Mutants)
    BY <2>1 DEF KeptOf, TypeOK
  <2>3. TypeOK'
    BY <1>2, <2>1, <2>2 DEF given, TypeOK, BisectFile, workspace, buildVars
  <2>4. OutcomeInv' /\ BisectInv' /\ CountInv' /\ StatusInv'
    BY <1>2, <2>2 DEF given, OutcomeInv, BisectInv, CountInv, StatusInv, BisectFile
  <2>5. QED
    BY <2>3, <2>4
<1>3. CASE BisectCandidates \/ BisectApplyFails
  <2>1. /\ pc = "bisect" /\ stack # <<>>
        /\ UNCHANGED <<pc, round, conflicts, stored, faults, mutants, removed, helper, expired, buildOK, output,
                       failing, outcome>>
    BY <1>3 DEF given, BisectCandidates, BisectApplyFails, buildVars
  <2>2. Head(stack) \in SUBSET mutants /\ Tail(stack) \in Seq(SUBSET mutants)
    BY <2>1 DEF BisectInv
  <2>3. embedded' \in [Files -> SUBSET Mutants]
    <3>1. PICK f, W : embedded' = [embedded EXCEPT ![f] = W] /\ W \in {{}, Head(stack), embedded[f]}
      <4>1. CASE BisectCandidates
        BY <4>1 DEF BisectCandidates
      <4>2. CASE BisectApplyFails
        BY <4>2 DEF BisectApplyFails
      <4>3. QED
        BY <1>3, <4>1, <4>2
    <3>2. CASE f \in Files
      <4>1. W \in SUBSET Mutants
        BY <2>2, <3>1, <3>2 DEF TypeOK
      <4>2. QED
        BY <3>1, <4>1 DEF TypeOK
    <3>3. CASE f \notin Files
      BY <3>1, <3>3 DEF TypeOK
    <3>4. QED
      BY <3>2, <3>3
  <2>4. <<FirstHalf(Head(stack)), Head(stack) \ FirstHalf(Head(stack))>> \o Tail(stack)
          \in Seq(SUBSET mutants)
    BY <2>2 DEF FirstHalf
  <2>5. stack' \in Seq(SUBSET mutants)
    BY <1>3, <2>2, <2>4 DEF BisectCandidates, BisectApplyFails
  <2>6. \/ UNCHANGED <<badSet, status>>
        \/ Blame(Head(stack))
    BY <1>3 DEF BisectCandidates, BisectApplyFails
  <2>7. badSet' \subseteq mutants
    BY <2>1, <2>2, <2>6 DEF Blame, BisectInv
  <2>8. status' \in [Mutants -> StoredStatuses \cup {"untested", "error"}]
    BY <2>6 DEF Blame, TypeOK
  <2>9. \A m \in Mutants :
           status'[m] = IF removed[m] > 0 \/ m \in badSet' THEN "error" ELSE stored[m]
    BY <2>1, <2>6 DEF Blame, StatusInv, OutcomeInv, TypeOK
  <2>10. TypeOK'
    <3>1. mutants \subseteq Mutants
      BY DEF TypeOK
    <3>2. stack' \in Seq(SUBSET Mutants) /\ badSet' \in SUBSET Mutants
      BY <2>5, <2>7, <3>1
    <3>3. QED
      BY <2>1, <2>3, <2>8, <3>2 DEF TypeOK
  <2>11. OutcomeInv' /\ BisectInv' /\ CountInv'
    BY <2>1, <2>5, <2>7 DEF OutcomeInv, BisectInv, CountInv
  <2>12. StatusInv'
    BY <2>1, <2>9 DEF StatusInv
  <2>13. QED
    BY <2>10, <2>11, <2>12
<1>4. QED
  BY <1>1, <1>2, <1>3

\* What a step must show that ends a round or the call.
LEMMA RoundEnds ==
  ASSUME VInv, pc # "returned",
         UNCHANGED <<conflicts, stored, faults, expired, buildOK, output, failing, stack, badSet>>,
         embedded' \in [Files -> SUBSET Mutants], helper' \in [Pkgs -> BOOLEAN],
         mutants' \in SUBSET Mutants, removed' \in [Mutants -> Nat],
         status' \in [Mutants -> StoredStatuses \cup {"untested", "error"}],
         \A m \in Mutants : removed'[m] + One(m \in mutants') >= 1,
         \/ /\ (round < MaxRounds /\ NextRound) \/ Return("unverified")
            /\ \A m \in Mutants : removed'[m] + One(m \in mutants') = 1
            /\ \A m \in Mutants : status'[m] = IF removed'[m] > 0 THEN "error" ELSE stored[m]
         \/ Return("error")
  PROVE  VInv'
<1> USE DEF VInv
<1>1. round' \in 0 .. MaxRounds /\ pc' \in {"build", "returned"}
  BY SchemataVerifyAssumption DEF NextRound, Return, TypeOK
<1>2. outcome' \in {"running", "unverified", "error"} /\ (pc' # "returned" <=> outcome' = "running")
  BY DEF NextRound, Return, OutcomeInv
<1>3. TypeOK'
  BY <1>1, <1>2 DEF TypeOK
<1>4. OutcomeInv' /\ BisectInv'
  BY <1>1, <1>2 DEF OutcomeInv, BisectInv
<1>5. CountInv'
  BY DEF CountInv, NextRound, Return
<1>6. StatusInv'
  BY <1>1 DEF StatusInv, NextRound, Return
<1>7. QED
  BY <1>3, <1>4, <1>5, <1>6

\* The steps that remove mutants, or give up.
LEMMA RemovalStep ==
  ASSUME VInv, RemoveNearErrors \/ NoneMatched \/ RemoveBlamed \/ Quarantine \/ FinalQuarantine
  PROVE  VInv'
<1> USE DEF VInv, InRound, AfterLastRound, BisectionDone
<1>1. CASE RemoveNearErrors
  <2>1. PICK badIDs \in SUBSET NearErrors :
          \/ /\ Remove(badIDs \cap mutants)
             /\ ReapplyAffectedFiles(badIDs, mutants \ badIDs)
             /\ NextRound
          \/ /\ RemoveAndGiveUpOn(badIDs \cap mutants)
             /\ AppendRemoved(mutants)
             /\ ReapplyFails(badIDs, mutants \ badIDs)
             /\ Return("error")
    BY <1>1 DEF RemoveNearErrors
  <2>2. /\ pc = "inspect" /\ round < MaxRounds /\ outcome = "running"
        /\ UNCHANGED <<conflicts, stored, faults, expired, buildOK, output, failing, stack, badSet>>
    BY <1>1 DEF RemoveNearErrors, OutcomeInv, given, buildVars, bisectVars, TypeOK
  <2>3. embedded' \in [Files -> SUBSET Mutants] /\ helper' \in [Pkgs -> BOOLEAN]
    <3>1. mutants \ badIDs \subseteq Mutants
      BY DEF TypeOK
    <3>2. QED
      BY <2>1, <3>1, WorkspaceType
  <2>4. CASE Remove(badIDs \cap mutants) /\ NextRound
    <3>1. badIDs \cap mutants \subseteq mutants
      OBVIOUS
    <3>2. /\ mutants' \in SUBSET Mutants
          /\ removed' \in [Mutants -> Nat]
          /\ status' \in [Mutants -> StoredStatuses \cup {"untested", "error"}]
          /\ \A m \in Mutants : removed'[m] + One(m \in mutants') = 1
          /\ \A m \in Mutants : status'[m] = IF removed'[m] > 0 THEN "error" ELSE stored[m]
      BY <2>2, <2>4, <3>1, RemoveStep
    <3>3. \A m \in Mutants : removed'[m] + One(m \in mutants') >= 1
      BY <3>2
    <3>4. QED
      BY <2>2, <2>3, <2>4, <3>2, <3>3, RoundEnds
  <2>5. CASE RemoveAndGiveUpOn(badIDs \cap mutants) /\ AppendRemoved(mutants) /\ Return("error")
    <3>1. badIDs \cap mutants \subseteq mutants
      OBVIOUS
    <3>2. /\ mutants' \in SUBSET Mutants
          /\ removed' \in [Mutants -> Nat]
          /\ status' \in [Mutants -> StoredStatuses \cup {"untested", "error"}]
          /\ \A m \in Mutants : removed'[m] + One(m \in mutants') >= 1
      BY <2>2, <2>5, <3>1, GiveUpStep
    <3>3. QED
      BY <2>2, <2>3, <2>5, <3>2, RoundEnds
  <2>6. QED
    BY <2>1, <2>4, <2>5
<1>2. CASE NoneMatched
  <2>1. /\ pc = "inspect" /\ outcome = "running"
        /\ RemoveAndGiveUpOn({}) /\ AppendRemoved(mutants) /\ Return("error")
        /\ UNCHANGED <<conflicts, stored, faults, expired, buildOK, output, failing, stack, badSet, embedded, helper>>
    BY <1>2 DEF NoneMatched, OutcomeInv, given, buildVars, bisectVars, workspace
  <2>2. /\ mutants' \in SUBSET Mutants
        /\ removed' \in [Mutants -> Nat]
        /\ status' \in [Mutants -> StoredStatuses \cup {"untested", "error"}]
        /\ \A m \in Mutants : removed'[m] + One(m \in mutants') >= 1
    BY <2>1, GiveUpStep
  <2>3. embedded' \in [Files -> SUBSET Mutants] /\ helper' \in [Pkgs -> BOOLEAN]
    BY <2>1 DEF TypeOK
  <2>4. QED
    BY <2>1, <2>2, <2>3, RoundEnds
<1>3. CASE RemoveBlamed
  <2>1. /\ pc = "bisect" /\ round < MaxRounds /\ outcome = "running" /\ badSet \subseteq mutants
        /\ UNCHANGED <<conflicts, stored, faults, expired, buildOK, output, failing, stack, badSet>>
    BY <1>3 DEF RemoveBlamed, OutcomeInv, BisectInv, given, buildVars, bisectVars
  <2>2. embedded' \in [Files -> SUBSET Mutants] /\ helper' \in [Pkgs -> BOOLEAN]
    <3>1. mutants \ badSet \subseteq Mutants
      BY DEF TypeOK
    <3>2. ReapplyAffectedFiles(badSet, mutants \ badSet) \/ ReapplyFails(badSet, mutants \ badSet)
      BY <1>3 DEF RemoveBlamed
    <3>3. QED
      BY <3>1, <3>2, WorkspaceType
  <2>3. CASE Remove(badSet) /\ NextRound
    <3>1. /\ mutants' \in SUBSET Mutants
          /\ removed' \in [Mutants -> Nat]
          /\ status' \in [Mutants -> StoredStatuses \cup {"untested", "error"}]
          /\ \A m \in Mutants : removed'[m] + One(m \in mutants') = 1
          /\ \A m \in Mutants : status'[m] = IF removed'[m] > 0 THEN "error" ELSE stored[m]
      BY <2>1, <2>3, RemoveStep
    <3>2. \A m \in Mutants : removed'[m] + One(m \in mutants') >= 1
      BY <3>1
    <3>3. QED
      BY <2>1, <2>2, <2>3, <3>1, <3>2, RoundEnds
  <2>4. CASE RemoveAndGiveUpOn(badSet) /\ AppendRemoved(badSet) /\ Return("error")
    <3>1. /\ mutants' \in SUBSET Mutants
          /\ removed' \in [Mutants -> Nat]
          /\ status' \in [Mutants -> StoredStatuses \cup {"untested", "error"}]
          /\ \A m \in Mutants : removed'[m] + One(m \in mutants') >= 1
      BY <2>1, <2>4, GiveUpStep
    <3>2. QED
      BY <2>1, <2>2, <2>4, <3>1, RoundEnds
  <2>5. QED
    BY <1>3, <2>3, <2>4 DEF RemoveBlamed
<1>4. CASE Quarantine
  <2> DEFINE failed == {m \in mutants : PkgOf[FileOf[m]] \in failingPkgs}
  <2>1. /\ pc = "bisect" /\ round < MaxRounds /\ outcome = "running" /\ badSet = {}
        /\ UNCHANGED <<conflicts, stored, faults, expired, buildOK, output, failing, stack, badSet>>
        /\ Remove(failed)
        /\ NextRound \/ Return("unverified")
    BY <1>4 DEF Quarantine, OutcomeInv, BisectInv, given, buildVars, bisectVars
  <2>2. embedded' \in [Files -> SUBSET Mutants] /\ helper' \in [Pkgs -> BOOLEAN]
    BY <1>4, WorkspaceType DEF Quarantine
  <2>3. failed \subseteq mutants /\ badSet \subseteq failed
    BY <2>1
  <2> HIDE DEF failed
  <2>4. /\ mutants' \in SUBSET Mutants
        /\ removed' \in [Mutants -> Nat]
        /\ status' \in [Mutants -> StoredStatuses \cup {"untested", "error"}]
        /\ \A m \in Mutants : removed'[m] + One(m \in mutants') = 1
        /\ \A m \in Mutants : status'[m] = IF removed'[m] > 0 THEN "error" ELSE stored[m]
    BY <2>1, <2>3, RemoveStep
  <2>5. \A m \in Mutants : removed'[m] + One(m \in mutants') >= 1
    BY <2>4
  <2>6. QED
    BY <2>1, <2>2, <2>4, <2>5, RoundEnds
<1>5. CASE FinalQuarantine
  <2> DEFINE failed == {m \in mutants : PkgOf[FileOf[m]] \in failingPkgs}
  <2>1. /\ pc = "inspect" /\ outcome = "running"
        /\ UNCHANGED <<conflicts, stored, faults, expired, buildOK, output, failing, stack, badSet>>
    BY <1>5 DEF FinalQuarantine, OutcomeInv, given, buildVars, bisectVars
  <2>2. embedded' \in [Files -> SUBSET Mutants] /\ helper' \in [Pkgs -> BOOLEAN]
    BY <1>5, WorkspaceType DEF FinalQuarantine
  <2>3. CASE Remove(failed) /\ Return("unverified")
    <3>1. failed \subseteq mutants
      OBVIOUS
    <3> HIDE DEF failed
    <3>2. /\ mutants' \in SUBSET Mutants
          /\ removed' \in [Mutants -> Nat]
          /\ status' \in [Mutants -> StoredStatuses \cup {"untested", "error"}]
          /\ \A m \in Mutants : removed'[m] + One(m \in mutants') = 1
          /\ \A m \in Mutants : status'[m] = IF removed'[m] > 0 THEN "error" ELSE stored[m]
      BY <2>1, <2>3, <3>1, RemoveStep
    <3>3. \A m \in Mutants : removed'[m] + One(m \in mutants') >= 1
      BY <3>2
    <3>4. QED
      BY <2>1, <2>2, <2>3, <3>2, <3>3, RoundEnds
  <2>4. CASE /\ status' = [m \in Mutants |-> IF m \in failed THEN "error" ELSE status[m]]
             /\ Return("error")
             /\ UNCHANGED <<mutants, removed>>
    <3>1. status' \in [Mutants -> StoredStatuses \cup {"untested", "error"}]
      BY <2>4 DEF TypeOK
    <3>2. mutants' \in SUBSET Mutants /\ removed' \in [Mutants -> Nat]
      BY <2>4 DEF TypeOK
    <3>3. \A m \in Mutants : removed'[m] + One(m \in mutants') >= 1
      BY <2>4 DEF CountInv
    <3>4. QED
      BY <2>1, <2>2, <2>4, <3>1, <3>2, <3>3, RoundEnds
  <2>5. QED
    BY <1>5, <2>3, <2>4 DEF FinalQuarantine
<1>6. QED
  BY <1>1, <1>2, <1>3, <1>4, <1>5

LEMMA NextVInv == VInv /\ [Next]_vars => VInv'
<1> SUFFICES ASSUME VInv, [Next]_vars PROVE VInv'
  OBVIOUS
<1>1. CASE UNCHANGED vars
  BY <1>1 DEF vars, VInv, TypeOK, OutcomeInv, BisectInv, CountInv, StatusInv
<1>2. CASE Step
  BY <1>2, QuietStep, BisectStep, RemovalStep DEF Step
<1>3. QED
  BY <1>1, <1>2 DEF Next, Returned

\* The invariant holds in every reachable state.
THEOREM VerifyInvariance == SafeSpec => []VInv
  BY InitVInv, NextVInv, PTL DEF SafeSpec

-----------------------------------------------------------------------------
\* Every variable of verifyAndCleanSchemata keeps its type.
THEOREM VerifyTypeCorrect == SafeSpec => []TypeOK
<1>1. VInv => TypeOK
  BY DEF VInv
<1>2. QED
  BY <1>1, VerifyInvariance, PTL

\* Whatever fails, no mutant is missing from what verifyAndCleanSchemata returns,
\* and without an error none is returned twice.
THEOREM EveryMutantReturned == SafeSpec => []NoMutantLost
<1>1. VInv => NoMutantLost
  BY DEF VInv, CountInv, One, NoMutantLost, ReturnedMutants
<1>2. QED
  BY <1>1, VerifyInvariance, PTL

\* Between rounds and after a return without an error, removed mutants are compile
\* errors and kept ones have the status they came with.
THEOREM RemovedAreTheErrors == SafeSpec => []StatusesMatch
<1>1. VInv => StatusesMatch
  BY DEF VInv, OutcomeInv, StatusInv, StatusesMatch, TypeOK
<1>2. QED
  BY <1>1, VerifyInvariance, PTL

-----------------------------------------------------------------------------
(***************************************************************************)
(* What the caller is promised.  Without an error it follows from VInv; a  *)
(* return with one is a step from a state in which each mutant is in one   *)
(* list and the statuses match.                                            *)
(***************************************************************************)
FailedInv ==
  outcome = "error" => /\ \A m \in Mutants : removed[m] <= 1
                       /\ VerificationFailed(Mutants, stored, mutants, Removed, status)

\* The lists and the statuses before the call returns.
LEMMA BeforeTheReturn ==
  ASSUME VInv, outcome = "running"
  PROVE  /\ mutants \subseteq Mutants
         /\ \A m \in Mutants : removed[m] = IF m \in mutants THEN 0 ELSE 1
         /\ \A m \in Mutants \ mutants : status[m] = "error"
         /\ \A m \in mutants : status[m] = stored[m] \/ (pc = "bisect" /\ m \in badSet)
<1>1. mutants \subseteq Mutants
  BY DEF VInv, TypeOK
<1>2. ASSUME NEW m \in Mutants PROVE removed[m] = IF m \in mutants THEN 0 ELSE 1
  <2>1. removed[m] \in Nat /\ removed[m] + One(m \in mutants) = 1
    BY DEF VInv, TypeOK, CountInv
  <2>2. QED
    BY <2>1 DEF One
<1>3. \A m \in Mutants : status[m] = IF removed[m] > 0 \/ (pc = "bisect" /\ m \in badSet)
                                       THEN "error" ELSE stored[m]
  BY DEF VInv, StatusInv
<1>4. QED
  BY <1>1, <1>2, <1>3

\* Giving up with the kept mutants in both lists, or with those that leave.
LEMMA GiveUpReturns ==
  ASSUME VInv, outcome = "running", NEW S, S \subseteq mutants, RemoveAndGiveUpOn(S),
         pc = "bisect" => badSet \subseteq S,
         NEW T, AppendRemoved(T), T = mutants \/ (T = S /\ S # {}), UNCHANGED stored
  PROVE  FailedInv'
<1>1. /\ mutants \subseteq Mutants
      /\ \A m \in Mutants : removed[m] = IF m \in mutants THEN 0 ELSE 1
      /\ \A m \in Mutants \ mutants : status[m] = "error"
      /\ \A m \in mutants : status[m] = stored[m] \/ (pc = "bisect" /\ m \in badSet)
  BY BeforeTheReturn
<1>2. mutants' = mutants \ S /\ stored' = stored
  BY DEF RemoveAndGiveUpOn
<1>3. \A m \in Mutants : removed'[m] = IF m \in T \/ m \notin mutants THEN 1 ELSE 0
  BY <1>1 DEF AppendRemoved
<1>4. Removed' = T \cup (Mutants \ mutants)
  BY <1>1, <1>3 DEF Removed
<1>5. Removed' = Mutants \/ (Removed' = Mutants \ mutants' /\ Removed' # {})
  BY <1>1, <1>2, <1>4
<1>6. \A m \in Mutants : status'[m] = IF m \notin mutants' THEN "error"
                                       ELSE IF stored[m] = Unset THEN "untested" ELSE stored[m]
  BY <1>1, <1>2 DEF RemoveAndGiveUpOn
<1>7. VerificationFailed(Mutants, stored, mutants, Removed, status)'
  BY <1>1, <1>2, <1>5, <1>6 DEF VerificationFailed
<1>8. \A m \in Mutants : removed'[m] <= 1
  BY <1>3
<1>9. QED
  BY <1>7, <1>8 DEF FailedInv

LEMMA NextFailedInv == ASSUME VInv, FailedInv, [Next]_vars PROVE FailedInv'
<1> USE DEF given
<1>1. CASE RemoveNearErrors
  <2>1. PICK badIDs \in SUBSET NearErrors :
          \/ NextRound
          \/ RemoveAndGiveUpOn(badIDs \cap mutants) /\ AppendRemoved(mutants)
    BY <1>1 DEF RemoveNearErrors
  <2>2. pc = "inspect" /\ outcome = "running" /\ UNCHANGED stored
    BY <1>1 DEF RemoveNearErrors, InRound, VInv, OutcomeInv
  <2>3. CASE NextRound
    BY <2>2, <2>3 DEF NextRound, FailedInv
  <2>4. CASE RemoveAndGiveUpOn(badIDs \cap mutants) /\ AppendRemoved(mutants)
    <3>1. badIDs \cap mutants \subseteq mutants
      OBVIOUS
    <3>2. QED
      BY <2>2, <2>4, <3>1, GiveUpReturns
  <2>5. QED
    BY <2>1, <2>3, <2>4
<1>2. CASE NoneMatched
  <2>1. /\ pc = "inspect" /\ outcome = "running" /\ UNCHANGED stored
        /\ RemoveAndGiveUpOn({}) /\ AppendRemoved(mutants)
    BY <1>2 DEF NoneMatched, InRound, VInv, OutcomeInv
  <2>2. QED
    BY <2>1, GiveUpReturns
<1>3. CASE RemoveBlamed
  <2>1. /\ pc = "bisect" /\ outcome = "running" /\ UNCHANGED stored
        /\ badSet \subseteq mutants /\ badSet # {}
    BY <1>3 DEF RemoveBlamed, BisectionDone, VInv, OutcomeInv, BisectInv
  <2>2. NextRound \/ (RemoveAndGiveUpOn(badSet) /\ AppendRemoved(badSet))
    BY <1>3 DEF RemoveBlamed
  <2>3. CASE NextRound
    BY <2>1, <2>3 DEF NextRound, FailedInv
  <2>4. CASE RemoveAndGiveUpOn(badSet) /\ AppendRemoved(badSet)
    BY <2>1, <2>4, GiveUpReturns
  <2>5. QED
    BY <2>2, <2>3, <2>4
<1>4. CASE FinalQuarantine
  <2> DEFINE failed == {m \in mutants : PkgOf[FileOf[m]] \in failingPkgs}
  <2>1. pc = "inspect" /\ outcome = "running" /\ UNCHANGED stored
    BY <1>4 DEF FinalQuarantine, AfterLastRound, VInv, OutcomeInv
  <2>2. CASE Return("unverified")
    BY <2>2 DEF Return, FailedInv
  <2>3. CASE /\ status' = [m \in Mutants |-> IF m \in failed THEN "error" ELSE status[m]]
             /\ ResetFails(failingPkgs)
             /\ UNCHANGED <<mutants, removed>>
    <3>1. /\ mutants \subseteq Mutants
          /\ \A m \in Mutants : removed[m] = IF m \in mutants THEN 0 ELSE 1
          /\ \A m \in Mutants \ mutants : status[m] = "error"
          /\ \A m \in mutants : status[m] = stored[m]
      BY <2>1, BeforeTheReturn
    <3>2. failed # {} /\ failed \subseteq mutants
      \* A package that cannot be restored has a file with kept mutants.
      <4>1. PICK f \in Files : PkgOf[f] \in failingPkgs /\ KeptOf(f) # {}
        BY <2>3 DEF ResetFails, FilesToReset
      <4>2. QED
        BY <4>1 DEF KeptOf
    <3>3. Removed' = Mutants \ mutants'
      BY <2>3, <3>1 DEF Removed
    <3>4. \A m \in Mutants :
             status'[m] = IF m \in Removed' \cup failed THEN "error" ELSE stored'[m]
      BY <2>1, <2>3, <3>1, <3>3
    <3> HIDE DEF failed
    <3>5. VerificationFailed(Mutants, stored, mutants, Removed, status)'
      BY <2>3, <3>1, <3>2, <3>3, <3>4 DEF VerificationFailed
    <3>6. QED
      BY <2>3, <3>1, <3>5 DEF FailedInv
  <2>4. QED
    BY <1>4, <2>2, <2>3 DEF FinalQuarantine
<1>5. CASE \/ Build \/ BuildClean \/ DeferUntracked \/ StartBisection \/ BisectFile
           \/ BisectCandidates \/ BisectApplyFails \/ Quarantine \/ FinalDefer
  <2>1. outcome' # "error"
    BY <1>5 DEF Build, VerifyBuild, VerifyBuildKilled, BuildClean, DeferUntracked, StartBisection,
                BisectFile, BisectCandidates, BisectApplyFails, Quarantine, FinalDefer, Return,
                NextRound, InRound, AfterLastRound, BisectionDone, VInv, OutcomeInv
  <2>2. QED
    BY <2>1 DEF FailedInv
<1>6. CASE UNCHANGED vars
  BY <1>6 DEF vars, FailedInv, Removed, VerificationFailed
<1>7. QED
  BY <1>1, <1>2, <1>3, <1>4, <1>5, <1>6 DEF Next, Step, Returned

\* verifyAndCleanSchemata keeps the promises that the steps Verify and VerifyFails of
\* Lifecycle are, whatever fails and at whatever point.
THEOREM VerificationKeepsPromise == SafeSpec => []PromiseKept
<1>1. Init => FailedInv
  BY DEF Init, FailedInv
<1>2. VInv /\ FailedInv /\ [Next]_vars => FailedInv'
  BY NextFailedInv
<1>3. VInv /\ FailedInv => PromiseKept
  <2> SUFFICES ASSUME VInv, FailedInv, pc = "returned" PROVE PromiseKept
    BY DEF PromiseKept
  <2>1. CASE outcome = "error"
    BY <2>1 DEF FailedInv, PromiseKept
  <2>2. CASE outcome # "error"
    <3>1. ASSUME NEW m \in Mutants
          PROVE  removed[m] = IF m \in mutants THEN 0 ELSE 1
      <4>1. removed[m] \in Nat /\ removed[m] + One(m \in mutants) = 1
        BY <2>2 DEF VInv, TypeOK, CountInv
      <4>2. QED
        BY <4>1 DEF One
    <3>2. mutants \subseteq Mutants /\ Removed = Mutants \ mutants
      BY <3>1 DEF Removed, VInv, TypeOK
    <3>3. \A m \in Mutants : status[m] = IF m \in Removed THEN "error" ELSE stored[m]
      BY <2>2, <3>1, <3>2 DEF VInv, StatusInv
    <3>4. QED
      BY <2>2, <3>1, <3>2, <3>3 DEF PromiseKept, Verified
  <2>3. QED
    BY <2>1, <2>2
<1>4. QED
  BY <1>1, <1>2, <1>3, VerifyInvariance, PTL DEF SafeSpec

-----------------------------------------------------------------------------
(***************************************************************************)
(* The workspace, and what a build of it shows.                            *)
(***************************************************************************)

\* The files hold kept mutants of their own, if all of them can be written.
WorkspaceInv ==
  pc # "returned" /\ "io" \notin faults => \A f \in Files : embedded[f] \subseteq KeptOf(f)

\* The candidates of a call are kept mutants of one file.
StackInv == pc = "bisect" => \A i \in DOMAIN stack : \E f \in Files : stack[i] \subseteq KeptOf(f)

\* Until the files are changed, their errors are the ones reported.
InspectInv == pc = "inspect" => output \subseteq Reported

\* The candidates that are blamed, or are still to be searched, include the guilty
\* mutants of the failing files.  No package of a failing file imports another, as
\* its errors would not have been reported; and as what it imports needs no mutants of
\* another either, it stays possible to report them while the other files are edited.
SearchInv ==
  pc = "bisect" /\ faults \cap {"io", "format"} = {} =>
    /\ \A m \in badSet : Suspect(m)
    /\ failing \subseteq failingFiles
    /\ \A f \in failingFiles, g \in failingFiles : PkgOf[g] \notin ImportsOf[PkgOf[f]]
    /\ \A f \in failingFiles : helper[PkgOf[f]] /\ ImportsOf[PkgOf[f]] \cap Broken = {}
    /\ \A i \in DOMAIN stack : \E f \in failingFiles : stack[i] \subseteq KeptOf(f)
    /\ \A m \in mutants :
         FileOf[m] \in failingFiles /\ Guilty(m) =>
           FileOf[m] \in failing \/ m \in badSet \/ \E i \in DOMAIN stack : m \in stack[i]

SInv == WorkspaceInv /\ StackInv /\ InspectInv /\ SearchInv

\* A conflict that needs no mutant of a file is the same whatever that file holds.
LEMMA ActiveElsewhere ==
  ASSUME TypeOK, UNCHANGED conflicts, NEW f \in Files,
         \A h \in Files : embedded[h] \subseteq MutantsOf(h) /\ embedded'[h] \subseteq MutantsOf(h),
         \A h \in Files : h # f => embedded'[h] = embedded[h],
         NEW c \in conflicts, \A m \in c.needs : FileOf[m] # f
  PROVE  c \in Active <=> c \in Active'
<1>1. \A m \in c.needs : m \in Inlined <=> m \in Inlined'
  BY DEF Inlined, MutantsOf
<1> QED BY <1>1 DEF Active

\* The files that a removal has not written again did not hold the removed mutants.
LEMMA ReapplyClears ==
  ASSUME VInv, WorkspaceInv, pc # "returned", "io" \notin faults, NEW bad,
         ReapplyAffectedFiles(bad, mutants \ bad), mutants' = mutants \ bad
  PROVE  \A f \in Files : embedded'[f] \subseteq {m \in mutants' : FileOf[m] = f}
<1> DEFINE affected == {FileOf[m] : m \in mutants \cap bad}
<1>1. PICK lost : embedded' = Contents(lost, affected, mutants \ bad)
  BY Zenon DEF ReapplyAffectedFiles
<1> SUFFICES ASSUME NEW f \in Files, NEW m \in embedded'[f] PROVE m \in mutants' /\ FileOf[m] = f
  OBVIOUS
<1>2. embedded'[f] = IF f \in lost THEN {}
                     ELSE IF f \in affected THEN {n \in mutants \ bad : FileOf[n] = f} ELSE embedded[f]
  BY <1>1 DEF Contents
<1>3. CASE f \in affected
  BY <1>2, <1>3
<1>4. CASE f \notin affected
  <2>1. m \in KeptOf(f)
    BY <1>2, <1>4 DEF WorkspaceInv
  <2>2. m \notin bad
    BY <1>4, <2>1 DEF KeptOf
  <2> QED BY <2>1, <2>2 DEF KeptOf
<1> QED BY <1>3, <1>4

LEMMA InitSInv == Init => SInv
BY DEF Init, SInv, WorkspaceInv, StackInv, InspectInv, SearchInv, KeptOf, MutantsOf

\* Steps that leave the files and the mutants alone.
LEMMA QuietSInv ==
  ASSUME VInv, SInv, Build \/ BuildClean \/ DeferUntracked \/ FinalDefer \/ NoneMatched
  PROVE  SInv'
<1> USE DEF SInv, given, workspace
<1>1. CASE Build
  <2>1. /\ pc = "build" /\ pc' = "inspect"
        /\ UNCHANGED <<conflicts, faults, embedded, helper, mutants>>
    BY <1>1 DEF Build, VerifyBuild, VerifyBuildKilled
  <2>2. Reported' = Reported
    BY <2>1 DEF Reported, Active, Broken, Inlined
  <2>3. output' \subseteq Reported
    BY <1>1 DEF Build, VerifyBuild, VerifyBuildKilled
  <2>4. WorkspaceInv'
    BY <2>1 DEF WorkspaceInv, KeptOf
  <2> QED BY <2>1, <2>2, <2>3, <2>4 DEF StackInv, InspectInv, SearchInv
<1>2. CASE BuildClean \/ DeferUntracked \/ FinalDefer \/ NoneMatched
  <2>1. pc' = "returned"
    BY <1>2 DEF BuildClean, DeferUntracked, FinalDefer, NoneMatched, Return
  <2> QED BY <2>1 DEF WorkspaceInv, StackInv, InspectInv, SearchInv
<1> QED BY <1>1, <1>2

\* The end of a round: what matters is which mutants the files hold.
LEMMA RemovalSInv ==
  ASSUME VInv, SInv, RemoveNearErrors \/ RemoveBlamed \/ Quarantine \/ FinalQuarantine
  PROVE  SInv'
<1> USE DEF SInv, InRound, AfterLastRound, BisectionDone, OutcomeInv, VInv
<1>1. pc' \in {"build", "returned"} /\ pc # "returned" /\ faults' = faults
  BY DEF RemoveNearErrors, RemoveBlamed, Quarantine, FinalQuarantine, Return, NextRound, given
<1>2. ASSUME pc' = "build", "io" \notin faults
      PROVE  \A f \in Files : embedded'[f] \subseteq {m \in mutants' : FileOf[m] = f}
  <2>1. CASE RemoveNearErrors
    <3>1. PICK badIDs : Remove(badIDs \cap mutants) /\ ReapplyAffectedFiles(badIDs, mutants \ badIDs)
      BY <1>2, <2>1 DEF RemoveNearErrors, ReapplyFails
    <3>2. mutants' = mutants \ badIDs
      BY <3>1 DEF Remove
    <3> QED BY <1>1, <1>2, <3>1, <3>2, ReapplyClears
  <2>2. CASE RemoveBlamed
    <3>1. Remove(badSet) /\ ReapplyAffectedFiles(badSet, mutants \ badSet)
      BY <1>2, <2>2 DEF RemoveBlamed, ReapplyFails
    <3> QED BY <1>1, <1>2, <3>1, ReapplyClears DEF Remove
  <2>3. CASE Quarantine
    <3> DEFINE failed == {m \in mutants : PkgOf[FileOf[m]] \in failingPkgs}
    <3>1. mutants' = mutants \ failed /\ Restore(FilesToReset(failingPkgs))
      BY <1>2, <2>3 DEF Quarantine, Remove, ResetFails
    <3>2. \A f \in Files : embedded'[f] = IF f \in FilesToReset(failingPkgs) THEN {} ELSE embedded[f]
      BY <3>1 DEF Restore
    <3>3. ASSUME NEW f \in Files, NEW m \in embedded'[f] PROVE m \in mutants' /\ FileOf[m] = f
      <4>1. f \notin FilesToReset(failingPkgs) /\ m \in embedded[f]
        BY <3>2, <3>3
      <4>2. m \in mutants /\ FileOf[m] = f /\ KeptOf(f) # {}
        BY <1>1, <1>2, <4>1 DEF WorkspaceInv, KeptOf
      <4>3. m \notin failed
        BY <4>1, <4>2 DEF FilesToReset
      <4> QED BY <3>1, <4>2, <4>3
    <3> QED BY <3>3
  <2>4. CASE FinalQuarantine
    BY <1>2, <2>4 DEF FinalQuarantine, Return
  <2> QED BY <2>1, <2>2, <2>3, <2>4
<1> QED BY <1>1, <1>2 DEF WorkspaceInv, StackInv, InspectInv, SearchInv, KeptOf

\* The search starts with files whose errors were reported.
LEMMA StartSInv == ASSUME VInv, SInv, StartBisection PROVE SInv'
<1>1. /\ pc = "inspect" /\ pc' = "bisect" /\ badSet' = {} /\ stack' = <<>> /\ failing' = failingFiles
      /\ UNCHANGED <<conflicts, faults, mutants, embedded, helper, output>>
  BY DEF StartBisection, InRound, given, workspace, buildVars
<1>2. failingFiles' = failingFiles /\ Broken' = Broken
  BY <1>1 DEF failingFiles, KeptOf, Broken, Active, Inlined
<1>3. ASSUME NEW f \in failingFiles
      PROVE  /\ helper[PkgOf[f]] /\ ImportsOf[PkgOf[f]] \cap Broken = {}
             /\ PkgOf[f] \in Broken
  <2>1. PICK c \in output : c.at = f /\ f \in Files
    BY DEF failingFiles
  <2>2. c \in Reported
    BY <1>1, <2>1 DEF SInv, InspectInv
  <2> QED BY <2>1, <2>2 DEF Reported, Broken
<1>4. SearchInv'
  BY <1>1, <1>2, <1>3 DEF SearchInv
<1>5. WorkspaceInv' /\ StackInv' /\ InspectInv'
  BY <1>1 DEF SInv, WorkspaceInv, KeptOf, StackInv, InspectInv
<1> QED BY <1>4, <1>5 DEF SInv

LEMMA FileSInv == ASSUME VInv, SInv, BisectFile PROVE SInv'
<1>1. PICK f \in failing : failing' = failing \ {f} /\ stack' = <<KeptOf(f)>>
  BY DEF BisectFile
<1>2. /\ pc = "bisect" /\ pc' = "bisect" /\ stack = <<>> /\ f \in Files
      /\ UNCHANGED <<conflicts, faults, mutants, embedded, helper, output, badSet>>
  BY <1>1 DEF BisectFile, given, workspace, buildVars, VInv, TypeOK
<1>3. failingFiles' = failingFiles /\ Broken' = Broken /\ \A g : KeptOf(g)' = KeptOf(g)
  BY <1>2 DEF failingFiles, KeptOf, Broken, Active, Inlined
<1>4. \A m : (Guilty(m)' <=> Guilty(m)) /\ (Suspect(m)' <=> Suspect(m))
  BY <1>2 DEF Guilty, Suspect, MutantsOf
<1>5. DOMAIN stack' = {1} /\ stack'[1] = KeptOf(f)
  BY <1>1
<1>6. ASSUME faults \cap {"io", "format"} = {} PROVE SearchInv'
  <2>1. SearchInv
    BY DEF SInv
  <2>2. ASSUME NEW m \in mutants, FileOf[m] \in failingFiles, Guilty(m)
        PROVE  FileOf[m] \in failing' \/ m \in badSet \/ \E i \in DOMAIN stack' : m \in stack'[i]
    <3>1. FileOf[m] \in failing \/ m \in badSet
      BY <1>2, <1>6, <2>1, <2>2 DEF SearchInv
    <3>2. FileOf[m] = f => m \in stack'[1]
      BY <1>5 DEF KeptOf
    <3> QED BY <1>1, <1>5, <3>1, <3>2
  <2>3. f \in failingFiles
    BY <1>1, <1>2, <1>6, <2>1 DEF SearchInv
  <2> QED BY <1>1, <1>2, <1>3, <1>4, <1>5, <1>6, <2>1, <2>2, <2>3 DEF SearchInv
<1>7. WorkspaceInv' /\ StackInv' /\ InspectInv'
  BY <1>2, <1>3, <1>5 DEF SInv, WorkspaceInv, StackInv, InspectInv
<1>8. SearchInv'
  BY <1>2, <1>6 DEF SearchInv
<1> QED BY <1>7, <1>8 DEF SInv

\* What comes first on the stack, and what is behind it, when a call is done or split.
LEMMA Popped ==
  ASSUME VInv, stack # <<>>, pc = "bisect", stack' = Tail(stack)
  PROVE  /\ \A i \in DOMAIN stack' : i + 1 \in DOMAIN stack /\ stack'[i] = stack[i + 1]
         /\ \A i \in DOMAIN stack : i = 1 \/ (i - 1 \in DOMAIN stack' /\ stack'[i - 1] = stack[i])
BY DEF VInv, TypeOK

LEMMA SplitStack ==
  ASSUME VInv, stack # <<>>, pc = "bisect", NEW A, NEW B, stack' = <<A, B>> \o Tail(stack)
  PROVE  /\ {1, 2} \subseteq DOMAIN stack' /\ stack'[1] = A /\ stack'[2] = B
         /\ \A i \in DOMAIN stack' : i \in {1, 2} \/ (i - 1 \in DOMAIN stack /\ stack'[i] = stack[i - 1])
         /\ \A i \in DOMAIN stack : i = 1 \/ (i + 1 \in DOMAIN stack' /\ stack'[i + 1] = stack[i])
<1> DEFINE n == Len(stack)
<1>1. n \in Nat /\ n >= 1 /\ DOMAIN stack = 1 .. n /\ Tail(stack) \in Seq(SUBSET Mutants) /\ Len(Tail(stack)) = n - 1
      /\ \A i \in 1 .. n - 1 : Tail(stack)[i] = stack[i + 1]
  BY DEF VInv, TypeOK
<1>2. Len(stack') = n + 1 /\ DOMAIN stack' = 1 .. n + 1
  BY <1>1
<1>3. \A i \in 1 .. n + 1 : stack'[i] = IF i <= 2 THEN <<A, B>>[i] ELSE Tail(stack)[i - 2]
  BY <1>1
<1>4. \A i \in 3 .. n + 1 : stack'[i] = stack[i - 1]
  BY <1>1, <1>3
<1>5. stack'[1] = A /\ stack'[2] = B
  BY <1>1, <1>3
<1>6. n \in Nat /\ n >= 1 /\ DOMAIN stack = 1 .. n /\ DOMAIN stack' = 1 .. n + 1
  BY <1>1, <1>2
<1> HIDE DEF n
<1>7. {1, 2} \subseteq DOMAIN stack'
  BY <1>6
<1>8. ASSUME NEW i \in DOMAIN stack'
      PROVE  i \in {1, 2} \/ (i - 1 \in DOMAIN stack /\ stack'[i] = stack[i - 1])
  <2>1. i \in 1 .. n + 1 /\ n \in Nat
    BY <1>6
  <2>2. i \in {1, 2} \/ i \in 3 .. n + 1
    BY <2>1
  <2>3. i \in 3 .. n + 1 => i - 1 \in 1 .. n
    BY <2>1
  <2> QED BY <1>4, <1>6, <2>2, <2>3
<1>9. ASSUME NEW i \in DOMAIN stack
      PROVE  i = 1 \/ (i + 1 \in DOMAIN stack' /\ stack'[i + 1] = stack[i])
  <2>1. i \in 1 .. n /\ n \in Nat
    BY <1>6
  <2>2. i = 1 \/ i + 1 \in 3 .. n + 1
    BY <2>1
  <2>3. i + 1 \in 1 .. n + 1 /\ (i + 1) - 1 = i
    BY <2>1
  <2> QED BY <1>4, <1>6, <2>2, <2>3
<1> QED BY <1>5, <1>7, <1>8, <1>9

\* The stack of kept mutants of one file each stays one.
LEMMA StackStep ==
  ASSUME VInv, SInv, pc = "bisect", pc' = "bisect", mutants' = mutants, stack # <<>>,
         \/ stack' = Tail(stack)
         \/ stack' = <<FirstHalf(Head(stack)), Head(stack) \ FirstHalf(Head(stack))>> \o Tail(stack)
  PROVE  /\ StackInv'
         /\ 1 \in DOMAIN stack /\ Head(stack) = stack[1]
         /\ \E f \in Files : Head(stack) \subseteq KeptOf(f)
<1>1. 1 \in DOMAIN stack /\ Head(stack) = stack[1]
  BY DEF VInv, TypeOK
<1>2. \A i \in DOMAIN stack : \E f \in Files : stack[i] \subseteq KeptOf(f)
  BY DEF SInv, StackInv
<1>3. \A f : KeptOf(f)' = KeptOf(f)
  BY DEF KeptOf
<1>4. CASE stack' = Tail(stack)
  <2>1. \A i \in DOMAIN stack' : i + 1 \in DOMAIN stack /\ stack'[i] = stack[i + 1]
    BY <1>4, Popped
  <2> QED BY <1>1, <1>2, <1>3, <2>1 DEF StackInv
<1>5. CASE stack' = <<FirstHalf(Head(stack)), Head(stack) \ FirstHalf(Head(stack))>> \o Tail(stack)
  <2>1. stack'[1] = FirstHalf(Head(stack)) /\ stack'[2] = Head(stack) \ FirstHalf(Head(stack))
    BY <1>5, SplitStack
  <2>2. stack'[1] \subseteq stack[1] /\ stack'[2] \subseteq stack[1]
    BY <1>1, <2>1 DEF FirstHalf
  <2>3. \A i \in DOMAIN stack' : i \in {1, 2} \/ (i - 1 \in DOMAIN stack /\ stack'[i] = stack[i - 1])
    BY <1>5, SplitStack
  <2>4. ASSUME NEW i \in DOMAIN stack' PROVE \E f \in Files : stack'[i] \subseteq KeptOf(f)
    BY <1>1, <1>2, <2>2, <2>3
  <2> QED BY <1>1, <1>2, <1>3, <2>4 DEF StackInv
<1> QED BY <1>1, <1>2, <1>4, <1>5

\* A build with the candidates of one file finds errors at it if there is a guilty mutant
\* among them, and, for a single candidate, only if it is suspect.
LEMMA BuildOfCandidates ==
  ASSUME VInv, SInv, pc = "bisect", faults \cap {"io", "format"} = {},
         NEW f \in Files, f \in failingFiles, NEW C, C \subseteq KeptOf(f),
         embedded' = [embedded EXCEPT ![f] = C], UNCHANGED <<conflicts, helper>>
  PROVE  /\ \A g \in failingFiles : helper'[PkgOf[g]] /\ ImportsOf[PkgOf[g]] \cap Broken' = {}
         /\ (\E m \in C : Guilty(m)) => \E c \in Reported' : c.at = f
         /\ \A m : C = {m} /\ (\E c \in Reported' : c.at = f) => Suspect(m)
<1>1. \A g \in Files : embedded[g] \subseteq KeptOf(g)
  BY DEF SInv, WorkspaceInv
<1>2. embedded'[f] = C /\ \A g \in Files : g # f => embedded'[g] = embedded[g]
  BY DEF VInv, TypeOK
<1>3. \A g \in Files : embedded'[g] \subseteq KeptOf(g)
  BY <1>1, <1>2
<1>4. \A g \in Files : embedded[g] \subseteq MutantsOf(g) /\ embedded'[g] \subseteq MutantsOf(g)
  BY <1>1, <1>3 DEF KeptOf, MutantsOf, VInv, TypeOK
<1>5. ASSUME NEW g \in failingFiles PROVE helper'[PkgOf[g]] /\ ImportsOf[PkgOf[g]] \cap Broken' = {}
  <2>1. helper[PkgOf[g]] /\ ImportsOf[PkgOf[g]] \cap Broken = {} /\ PkgOf[f] \notin ImportsOf[PkgOf[g]]
    BY DEF SInv, SearchInv
  <2> SUFFICES ASSUME NEW p \in ImportsOf[PkgOf[g]], p \in Broken' PROVE FALSE
    BY <2>1
  <2>2. PkgOf[g] \in Pkgs /\ p \in Pkgs
    <3>1. g \in Files
      BY DEF failingFiles
    <3>2. PkgOf[g] \in Pkgs
      BY <3>1, SchemataVerifyAssumption
    <3> QED BY <3>2, SchemataVerifyAssumption
  <2>3. helper'[p]
    BY <2>1, <2>2 DEF Broken
  <2>4. PICK c \in Active' : c.at \in Files /\ PkgOf[c.at] = p
    BY <2>3 DEF Broken
  <2>5. c \in conflicts /\ c \in Conflicts
    BY <2>4 DEF Active, VInv, TypeOK
  <2>6. \A m \in c.needs : FileOf[m] # f
    <3>1. ImportsOf[p] \subseteq ImportsOf[PkgOf[g]]
      BY <2>2, SchemataVerifyAssumption
    <3>2. \A m \in c.needs : PkgOf[FileOf[m]] \in ImportsOf[PkgOf[g]]
      BY <2>4, <2>5, <3>1, SchemataVerifyAssumption
    <3> QED BY <2>1, <3>2
  <2>7. c \in Active
    BY <1>2, <1>4, <2>4, <2>5, <2>6, ActiveElsewhere DEF VInv
  <2> QED BY <2>1, <2>4, <2>7 DEF Broken
<1>6. ASSUME NEW m \in C, Guilty(m) PROVE \E c \in Reported' : c.at = f
  <2>1. FileOf[m] = f
    BY DEF KeptOf
  <2>2. PICK c \in conflicts : c.at = f /\ c.needs \subseteq {m}
    BY <1>6, <2>1 DEF Guilty
  <2>3. c \in Active'
    BY <1>2, <2>2 DEF Active, Inlined
  <2> QED BY <1>5, <2>2, <2>3 DEF Reported
<1>7. ASSUME NEW m, C = {m}, NEW c \in Reported', c.at = f PROVE Suspect(m)
  <2>1. c \in conflicts /\ c.needs \subseteq Inlined'
    BY DEF Reported, Active
  <2>2. c.needs \subseteq mutants
    BY <1>3, <2>1 DEF Inlined, KeptOf
  <2>3. c.needs \cap MutantsOf(f) \subseteq {m}
    BY <1>2, <1>4, <1>7, <2>1 DEF Inlined, MutantsOf
  <2>4. FileOf[m] = f
    BY <1>7 DEF KeptOf
  <2> QED BY <1>7, <2>1, <2>2, <2>3, <2>4 DEF Suspect
<1> QED BY <1>5, <1>6, <1>7

LEMMA CandidatesSInv == ASSUME VInv, SInv, BisectCandidates PROVE SInv'
<1>1. PICK f \in {FileOf[m] : m \in Head(stack)}, W \in {{}, Head(stack)} :
        /\ embedded' = [embedded EXCEPT ![f] = W]
        /\ "format" \notin faults => W = Head(stack)
        /\ \/ /\ ~fileHasCompileErrors(f)
              /\ stack' = Tail(stack)
              /\ UNCHANGED <<badSet, status>>
           \/ /\ fileHasCompileErrors(f)
              /\ Cardinality(Head(stack)) = 1
              /\ stack' = Tail(stack)
              /\ Blame(Head(stack))
           \/ /\ fileHasCompileErrors(f)
              /\ Cardinality(Head(stack)) > 1
              /\ stack' = <<FirstHalf(Head(stack)), Head(stack) \ FirstHalf(Head(stack))>> \o Tail(stack)
              /\ UNCHANGED <<badSet, status>>
  BY DEF BisectCandidates, Unformattable
<1>2. /\ pc = "bisect" /\ pc' = "bisect" /\ stack # <<>>
      /\ UNCHANGED <<conflicts, faults, mutants, helper, output, failing>>
  BY DEF BisectCandidates, given, buildVars
<1>3. /\ StackInv' /\ 1 \in DOMAIN stack /\ Head(stack) = stack[1]
      /\ \E g \in Files : Head(stack) \subseteq KeptOf(g)
  BY <1>1, <1>2, StackStep
<1>4. f \in Files /\ Head(stack) \subseteq KeptOf(f)
  BY <1>1, <1>3 DEF KeptOf
<1>5. WorkspaceInv'
  <2> SUFFICES ASSUME "io" \notin faults, NEW g \in Files PROVE embedded'[g] \subseteq KeptOf(g)
    BY <1>2 DEF WorkspaceInv, KeptOf
  <2>1. embedded[g] \subseteq KeptOf(g)
    BY <1>2 DEF SInv, WorkspaceInv
  <2> QED BY <1>1, <1>4, <2>1 DEF VInv, TypeOK
<1>6. ASSUME faults \cap {"io", "format"} = {} PROVE SearchInv'
  <2>1. SearchInv
    BY DEF SInv
  <2>2. f \in failingFiles
    <3>1. PICK g \in failingFiles : stack[1] \subseteq KeptOf(g)
      BY <1>2, <1>3, <1>6, <2>1 DEF SearchInv
    <3> QED BY <1>1, <1>3, <3>1 DEF KeptOf
  <2>3. embedded' = [embedded EXCEPT ![f] = Head(stack)]
    BY <1>1, <1>6
  <2>4. /\ \A g \in failingFiles : helper'[PkgOf[g]] /\ ImportsOf[PkgOf[g]] \cap Broken' = {}
        /\ (\E m \in Head(stack) : Guilty(m)) => fileHasCompileErrors(f)
        /\ \A m : Head(stack) = {m} /\ fileHasCompileErrors(f) => Suspect(m)
    BY <1>2, <1>4, <1>6, <2>2, <2>3, BuildOfCandidates DEF fileHasCompileErrors
  <2>5. failingFiles' = failingFiles /\ (\A g : KeptOf(g)' = KeptOf(g)) /\ \A m : Guilty(m)' <=> Guilty(m)
    BY <1>2 DEF failingFiles, KeptOf, Guilty
  <2>11. \A m : Suspect(m)' <=> Suspect(m)
    BY <1>2 DEF Suspect, MutantsOf
  <2>6. badSet \subseteq badSet' /\ badSet' \subseteq badSet \cup Head(stack)
    BY <1>1 DEF Blame
  <2>7. \A m \in badSet' : Suspect(m)
    <3>1. CASE Cardinality(Head(stack)) = 1 /\ fileHasCompileErrors(f)
      <4>1. IsFiniteSet(Head(stack))
        BY <1>4, FS_Subset, SchemataVerifyAssumption DEF KeptOf, VInv, TypeOK
      <4>2. PICK m : Head(stack) = {m}
        BY <3>1, <4>1, FS_Singleton
      <4> QED BY <1>2, <1>6, <2>1, <2>4, <2>6, <3>1, <4>2 DEF SearchInv
    <3>2. CASE badSet' = badSet
      BY <1>2, <1>6, <2>1, <3>2 DEF SearchInv
    <3> QED BY <1>1, <3>1, <3>2
  <2>8. ASSUME NEW m \in mutants, FileOf[m] \in failingFiles, Guilty(m)
        PROVE  FileOf[m] \in failing' \/ m \in badSet' \/ \E i \in DOMAIN stack' : m \in stack'[i]
    <3>1. FileOf[m] \in failing \/ m \in badSet \/ \E i \in DOMAIN stack : m \in stack[i]
      BY <1>2, <1>6, <2>1, <2>8 DEF SearchInv
    <3>2. ASSUME NEW i \in DOMAIN stack, m \in stack[i], i # 1 PROVE \E j \in DOMAIN stack' : m \in stack'[j]
      <4>1. CASE stack' = Tail(stack)
        <5>1. i - 1 \in DOMAIN stack' /\ stack'[i - 1] = stack[i]
          BY <1>2, <3>2, <4>1, Popped
        <5> QED BY <3>2, <5>1
      <4>2. CASE stack' = <<FirstHalf(Head(stack)), Head(stack) \ FirstHalf(Head(stack))>> \o Tail(stack)
        <5>1. i + 1 \in DOMAIN stack' /\ stack'[i + 1] = stack[i]
          BY <1>2, <3>2, <4>2, SplitStack
        <5> QED BY <3>2, <5>1
      <4> QED BY <1>1, <4>1, <4>2
    <3>3. ASSUME m \in Head(stack) PROVE m \in badSet' \/ \E j \in DOMAIN stack' : m \in stack'[j]
      <4>1. fileHasCompileErrors(f)
        BY <2>4, <2>8, <3>3
      <4>2. CASE Blame(Head(stack))
        BY <3>3, <4>2 DEF Blame
      <4>3. CASE stack' = <<FirstHalf(Head(stack)), Head(stack) \ FirstHalf(Head(stack))>> \o Tail(stack)
        <5>1. /\ {1, 2} \subseteq DOMAIN stack'
              /\ stack'[1] = FirstHalf(Head(stack)) /\ stack'[2] = Head(stack) \ FirstHalf(Head(stack))
          BY <1>2, <4>3, SplitStack
        <5> QED BY <3>3, <5>1
      <4> QED BY <1>1, <4>1, <4>2, <4>3
    <3> QED BY <1>2, <1>3, <2>6, <3>1, <3>2, <3>3
  <2>9. \A i \in DOMAIN stack' : \E g \in failingFiles : stack'[i] \subseteq KeptOf(g)
    <3>1. \A i \in DOMAIN stack : \E g \in failingFiles : stack[i] \subseteq KeptOf(g)
      BY <1>2, <1>6, <2>1 DEF SearchInv
    <3>2. CASE stack' = Tail(stack)
      <4>1. \A i \in DOMAIN stack' : i + 1 \in DOMAIN stack /\ stack'[i] = stack[i + 1]
        BY <1>2, <3>2, Popped
      <4> QED BY <3>1, <4>1
    <3>3. CASE stack' = <<FirstHalf(Head(stack)), Head(stack) \ FirstHalf(Head(stack))>> \o Tail(stack)
      <4>1. stack'[1] = FirstHalf(Head(stack)) /\ stack'[2] = Head(stack) \ FirstHalf(Head(stack))
        BY <1>2, <3>3, SplitStack
      <4>2. stack'[1] \subseteq KeptOf(f) /\ stack'[2] \subseteq KeptOf(f)
        BY <1>4, <4>1 DEF FirstHalf
      <4>3. \A i \in DOMAIN stack' : i \in {1, 2} \/ (i - 1 \in DOMAIN stack /\ stack'[i] = stack[i - 1])
        BY <1>2, <3>3, SplitStack
      <4>4. ASSUME NEW i \in DOMAIN stack' PROVE \E g \in failingFiles : stack'[i] \subseteq KeptOf(g)
        BY <2>2, <3>1, <4>2, <4>3
      <4> QED BY <4>4
    <3> QED BY <1>1, <3>2, <3>3
  <2>10. failing' \subseteq failingFiles /\ \A g \in failingFiles, h \in failingFiles : PkgOf[h] \notin ImportsOf[PkgOf[g]]
    BY <1>2, <1>6, <2>1 DEF SearchInv
  <2> QED BY <1>2, <2>4, <2>5, <2>7, <2>8, <2>9, <2>10, <2>11 DEF SearchInv
<1>7. SearchInv'
  BY <1>2, <1>6 DEF SearchInv
<1>8. InspectInv'
  BY <1>2 DEF InspectInv
<1> QED BY <1>3, <1>5, <1>7, <1>8 DEF SInv

LEMMA ApplyFailsSInv == ASSUME VInv, SInv, BisectApplyFails PROVE SInv'
<1>1. /\ pc = "bisect" /\ pc' = "bisect" /\ stack # <<>> /\ "io" \in faults' /\ stack' = Tail(stack)
      /\ mutants' = mutants
  BY DEF BisectApplyFails, given
<1>2. StackInv'
  BY <1>1, StackStep
<1> QED BY <1>1, <1>2 DEF SInv, WorkspaceInv, InspectInv, SearchInv

LEMMA NextSInv == VInv /\ SInv /\ [Next]_vars => SInv'
<1> SUFFICES ASSUME VInv, SInv, [Next]_vars PROVE SInv'
  OBVIOUS
<1>1. CASE UNCHANGED vars
  <2>1. /\ UNCHANGED <<pc, conflicts, faults, mutants, embedded, helper, output, failing, stack, badSet>>
    BY <1>1 DEF vars
  <2>2. /\ failingFiles' = failingFiles /\ Broken' = Broken /\ Reported' = Reported
        /\ \A g : KeptOf(g)' = KeptOf(g)
        /\ \A m : (Guilty(m)' <=> Guilty(m)) /\ (Suspect(m)' <=> Suspect(m))
    BY <2>1 DEF failingFiles, KeptOf, Broken, Reported, Active, Inlined, Guilty, Suspect, MutantsOf
  <2> QED BY <2>1, <2>2 DEF SInv, WorkspaceInv, StackInv, InspectInv, SearchInv
<1>2. CASE Step
  BY <1>2, QuietSInv, RemovalSInv, StartSInv, FileSInv, CandidatesSInv, ApplyFailsSInv DEF Step
<1> QED BY <1>1, <1>2 DEF Next, Returned

LEMMA SearchInvariance == SafeSpec => []SInv
  BY InitSInv, NextSInv, VerifyInvariance, PTL DEF SafeSpec

\* Between rounds no removed mutant is left in any file, whatever conflicts the program
\* has, if files can be written.
THEOREM RemovedCodeIsGone == SafeSpec => []NoRemovedCodeLeft
<1>1. SInv => NoRemovedCodeLeft
  BY DEF SInv, WorkspaceInv, NoRemovedCodeLeft, KeptOf
<1> QED BY <1>1, SearchInvariance, PTL

\* The bisection blames every mutant that breaks a failing file on its own, and no
\* mutant unless no other of its file is needed for an error there, for any program
\* and number of mutants, wherever the mutants are that its errors need.
THEOREM CulpritsAreFound == SafeSpec => []BisectionFindsCulprits
<1>1. VInv /\ SInv => BisectionFindsCulprits
  <2> SUFFICES ASSUME VInv, SInv, pc = "bisect", faults \cap {"io", "format"} = {}
               PROVE  /\ \A m \in badSet : Suspect(m)
                      /\ BisectionDone =>
                           \A m \in mutants : FileOf[m] \in failingFiles /\ Guilty(m) => m \in badSet
    BY DEF BisectionFindsCulprits
  <2> QED BY DEF SInv, SearchInv, BisectionDone
<1> QED BY <1>1, SearchInvariance, VerifyInvariance, PTL

=============================================================================
