--------------------------- MODULE SchemataVerify ---------------------------
(***************************************************************************)
(* verifyAndCleanSchemata: after every mutant has been inlined into the    *)
(* workspace, build it, and remove the mutants that do not compile.        *)
(*                                                                         *)
(* A round builds the whole workspace and, if that fails, removes mutants  *)
(* in one of three ways: those whose `activeMutantID ==` line lies close   *)
(* to an error; else those that a bisection of each failing file blames;   *)
(* else every mutant of the failing packages (the quarantine).  It is      *)
(* sequential: what makes it hard is that it edits the workspace as it     *)
(* searches, and that each step can fail.                                  *)
(*                                                                         *)
(* A conflict is a compile error waiting to happen: it occurs at a file    *)
(* when all the mutants it needs are inlined.  They may be mutants of that *)
(* file, of others of its package, or of a package it imports; and it      *)
(* needs none when the code is broken without mutants (go vet runs here,   *)
(* and test files are compiled too).                                       *)
(***************************************************************************)
EXTENDS Naturals, Sequences, FiniteSets, Promises

CONSTANTS
  Mutants,     \* IDs of the mutants given, numbered in the order of the slice
  Files,       \* the source files that have mutants
  Untracked,   \* other files an error can be reported at, such as test files
  Pkgs,        \* the packages of the workspace
  FileOf,      \* the source file of each mutant
  PkgOf,       \* the package of each file
  ImportsOf,   \* the packages each package imports, transitively
  DirNamed,    \* packages whose name is the name of their directory
  Conflicts,   \* the conflicts that may be present
  Mentions,    \* mutant IDs each file has in an `activeMutantID ==` text of its own
  StoredStatuses, \* statuses the mutants may come with
  FaultKinds,  \* what can go wrong besides: "io", "format", "expire"
  MaxRounds    \* maxRounds, 5 in the code

ASSUME SchemataVerifyAssumption ==
  /\ Mutants \subseteq Nat /\ IsFiniteSet(Mutants)
  /\ FileOf \in [Mutants -> Files]
  /\ PkgOf \in [Files \cup Untracked -> Pkgs]
  /\ ImportsOf \in [Pkgs -> SUBSET Pkgs]
  /\ DirNamed \subseteq Pkgs
  /\ Conflicts \subseteq [needs : SUBSET Mutants, at : Files \cup Untracked]
  /\ \A p \in Pkgs : \A q \in ImportsOf[p] : ImportsOf[q] \subseteq ImportsOf[p]
  /\ \A c \in Conflicts : \A m \in c.needs :
       c.at \in Files => PkgOf[FileOf[m]] \in {PkgOf[c.at]} \cup ImportsOf[PkgOf[c.at]]
  /\ Mentions \in [Files \cup Untracked -> SUBSET Nat]
  /\ StoredStatuses \subseteq Statuses \ {"invalid"}
  /\ FaultKinds \subseteq {"io", "format", "expire"}
  /\ MaxRounds \in Nat

VARIABLES
  pc,         \* "build", "inspect", "bisect" or "returned"
  round,      \* rounds completed
  conflicts,  \* the conflicts of this program; constant after Init
  stored,     \* Mutant.Status as the call finds it; constant after Init
  faults,     \* what can go wrong besides, this time; constant after Init
  mutants,    \* the mutants still kept
  removed,    \* how many times each mutant was appended to removed
  status,     \* Mutant.Status
  embedded,   \* the mutants inlined into each file of the workspace
  helper,     \* the package's gorgon_schemata.go has the right package name
  expired,    \* the 120 seconds of verifyCtx are over
  buildOK,    \* the last verification build succeeded
  output,     \* the errors it reported
  failing,    \* failing files still to be bisected
  stack,      \* pending calls of bisectFileMutants, the next one at the head
  badSet,     \* what the bisections of this round have blamed
  outcome     \* "running"; returned without an error "verified" by a build or
              \* "unverified"; or returned with an "error"

given == <<conflicts, stored, faults>>
buildVars == <<expired, buildOK, output>>
bisectVars == <<failing, stack, badSet>>
workspace == <<embedded, helper>>
vars == <<pc, round, conflicts, stored, faults, mutants, removed, status, embedded, helper,
          expired, buildOK, output, failing, stack, badSet, outcome>>

MutantsOf(f) == {m \in Mutants : FileOf[m] = f}
KeptOf(f) == {m \in mutants : FileOf[m] = f}
Inlined == UNION {embedded[f] : f \in Files}

-----------------------------------------------------------------------------
(***************************************************************************)
(* The build, as the code's parser of its output sees it.                  *)
(***************************************************************************)
Active == {c \in conflicts : c.needs \subseteq Inlined}

\* Packages that cannot be imported: a misnamed helper, or an error in a source file.
Broken == {p \in Pkgs : ~helper[p]} \cup {PkgOf[c.at] : c \in {d \in Active : d.at \in Files}}

\* Nothing is reported with a position for a package that cannot be loaded, nor
\* for one that imports a broken package.
Reported ==
  {c \in Active : helper[PkgOf[c.at]] /\ ImportsOf[PkgOf[c.at]] \cap Broken = {}}

WorkspaceBuilds == Active = {} /\ \A p \in Pkgs : helper[p]

failingPkgs == {PkgOf[c.at] : c \in output}

-----------------------------------------------------------------------------
(***************************************************************************)
(* Editing the workspace.                                                  *)
(***************************************************************************)

\* Which of some files ApplySchemataToAST may be unable to format: it then writes
\* the original back and returns no error.
Unformattable(files) == IF "format" \in faults THEN SUBSET files ELSE {{}}

\* The files after ApplySchemataToAST: some lost their mutants, some hold the kept ones.
Contents(lost, done, kept) ==
  [f \in Files |-> IF f \in lost THEN {}
                  ELSE IF f \in done THEN {m \in kept : FileOf[m] = f} ELSE embedded[f]]

\* MUTANT: the affected files are written again with the mutants still kept before
\* the removal.
ReapplyWithAll(bad, kept) ==
  LET affected == {FileOf[m] : m \in mutants \cap bad}
  IN  /\ embedded' = [f \in Files |-> IF f \in affected THEN KeptOf(f) ELSE embedded[f]]
      /\ UNCHANGED helper

\* reapplyAffectedFiles for the mutants bad, on success.  The helper of a package
\* is rewritten; its package clause comes from a kept mutant of an affected file
\* and, when there is none, from the name of the directory.
ReapplyAffectedFiles(bad, kept) ==
  LET affected == {FileOf[m] : m \in mutants \cap bad}
      named(p) == \E m \in kept : FileOf[m] \in affected /\ PkgOf[FileOf[m]] = p
  IN  /\ \E lost \in Unformattable(affected) :
           embedded' = Contents(lost, affected, kept)
      /\ helper' = [p \in Pkgs |-> IF \E f \in affected : PkgOf[f] = p
                                     THEN named(p) \/ p \in DirNamed ELSE helper[p]]

\* ... and when it gives up: some affected files are done, the one it failed at
\* holds the original source, the helpers were not rewritten.
ReapplyFails(bad, kept) ==
  LET affected == {FileOf[m] : m \in mutants \cap bad}
  IN  /\ "io" \in faults
      /\ \E done \in SUBSET affected : \E restored \in SUBSET (affected \ done) :
           /\ Cardinality(restored) <= 1
           /\ embedded' = Contents(restored, done, kept)
      /\ UNCHANGED helper

\* resetMutatedFilesInPkgs restores the files of the packages; a failure stops it
\* half-way.
FilesToReset(pkgs) == {f \in Files : PkgOf[f] \in pkgs /\ KeptOf(f) # {}}

Restore(files) ==
  /\ embedded' = [f \in Files |-> IF f \in files THEN {} ELSE embedded[f]]
  /\ UNCHANGED helper

ResetFails(pkgs) ==
  /\ "io" \in faults
  /\ \E done \in SUBSET FilesToReset(pkgs) : done # FilesToReset(pkgs) /\ Restore(done)

\* removed = append(removed, S...)
AppendRemoved(S) == removed' = [m \in Mutants |-> IF m \in S THEN removed[m] + 1 ELSE removed[m]]

\* MUTANT: the status is not set.
RemoveWithoutStatus(S) ==
  /\ mutants' = mutants \ S
  /\ AppendRemoved(S)
  /\ UNCHANGED status

\* The mutants S leave the kept list as compile errors.
Remove(S) ==
  /\ mutants' = mutants \ S
  /\ AppendRemoved(S)
  /\ status' = [m \in Mutants |-> IF m \in S THEN "error" ELSE status[m]]

\* MUTANT: the kept mutants are returned without a status.
RemoveAndLeave(S) ==
  /\ mutants' = mutants \ S
  /\ status' = [m \in Mutants |-> IF m \in S THEN "error" ELSE status[m]]

\* ... and the rest, in a return with an error, becomes untested unless it has a status.
RemoveAndGiveUpOn(S) ==
  /\ mutants' = mutants \ S
  /\ status' = [m \in Mutants |-> IF m \in S THEN "error"
                                 ELSE IF m \in mutants /\ status[m] = Unset THEN "untested"
                                 ELSE status[m]]

Return(how) == pc' = "returned" /\ outcome' = how /\ UNCHANGED round

NextRound == pc' = "build" /\ round' = round + 1 /\ UNCHANGED outcome

-----------------------------------------------------------------------------
Init ==
  /\ pc = "build"
  /\ round = 0
  /\ conflicts \in SUBSET Conflicts
  /\ mutants = Mutants
  /\ removed = [m \in Mutants |-> 0]
  /\ stored \in [Mutants -> StoredStatuses]
  /\ status = stored
  /\ faults \in {{}, FaultKinds}
  /\ \E lost \in Unformattable(Files) :
       embedded = [f \in Files |-> IF f \in lost THEN {} ELSE MutantsOf(f)]
  /\ helper = [p \in Pkgs |-> TRUE]
  /\ expired = FALSE
  /\ buildOK = FALSE
  /\ output = {}
  /\ failing = {}
  /\ stack = <<>>
  /\ badSet = {}
  /\ outcome = "running"

\* verifyBuildSequential, at the start of a round and once after the last.
VerifyBuild ==
  /\ pc = "build"
  /\ ~expired
  /\ buildOK' = WorkspaceBuilds
  /\ output' = Reported
  /\ pc' = "inspect"
  /\ UNCHANGED <<round, given, mutants, removed, status, workspace, expired, bisectVars, outcome>>

\* verifyCtx expires: the build is killed, what it had printed by then is all
\* there is, and a later build does not start.
VerifyBuildKilled ==
  /\ pc = "build"
  /\ "expire" \in faults
  /\ expired' = TRUE
  /\ buildOK' = FALSE
  /\ \E printed \in SUBSET Reported : output' = IF expired THEN {} ELSE printed
  /\ pc' = "inspect"
  /\ UNCHANGED <<round, given, mutants, removed, status, workspace, bisectVars, outcome>>

Build == VerifyBuild \/ VerifyBuildKilled

\* MUTANT: one round too many.
InRoundOffByOne == pc = "inspect" /\ ~buildOK /\ round <= MaxRounds

InRound == pc = "inspect" /\ ~buildOK /\ round < MaxRounds
AfterLastRound == pc = "inspect" /\ ~buildOK /\ round = MaxRounds

\* The build is clean: return what is kept.
BuildClean ==
  /\ pc = "inspect"
  /\ buildOK
  /\ Return("verified")
  /\ UNCHANGED <<given, mutants, removed, status, workspace, buildVars, bisectVars>>

(***************************************************************************)
(* The tight scan: IDs in an `activeMutantID ==` text within five lines of *)
(* an error.  Which they are depends on the layout of the file: any of     *)
(* those inlined there, or that its own text mentions.                     *)
(***************************************************************************)
NearErrors ==
  LET failed == {c.at : c \in output}
  IN  UNION {embedded[f] : f \in failed \cap Files} \cup UNION {Mentions[f] : f \in failed}

RemoveNearErrors ==
  /\ InRound
  /\ \E badIDs \in SUBSET NearErrors :
       /\ badIDs \cap mutants # {}
       /\ \/ /\ Remove(badIDs \cap mutants)
             /\ ReapplyAffectedFiles(badIDs, mutants \ badIDs)
             /\ NextRound
          \/ /\ RemoveAndGiveUpOn(badIDs \cap mutants)
             /\ AppendRemoved(mutants)
             /\ ReapplyFails(badIDs, mutants \ badIDs)
             /\ Return("error")
  /\ UNCHANGED <<given, buildVars, bisectVars>>

\* IDs were found in the files, but none of a mutant that is still kept.
NoneMatched ==
  /\ InRound
  /\ NearErrors \ mutants # {}
  /\ RemoveAndGiveUpOn({})
  /\ AppendRemoved(mutants)
  /\ Return("error")
  /\ UNCHANGED <<given, workspace, buildVars, bisectVars>>

(***************************************************************************)
(* The scan found no ID.                                                   *)
(***************************************************************************)
failingFiles == {f \in {c.at : c \in output} \cap Files : KeptOf(f) # {}}

\* No error is in a file with mutants: leave them to the per-package compile.
DeferUntracked ==
  /\ InRound
  /\ failingFiles = {}
  /\ Return("unverified")
  /\ UNCHANGED <<given, mutants, removed, status, workspace, buildVars, bisectVars>>

StartBisection ==
  /\ InRound
  /\ failingFiles # {}
  /\ failing' = failingFiles
  /\ badSet' = {}
  /\ stack' = <<>>
  /\ pc' = "bisect"
  /\ UNCHANGED <<round, given, mutants, removed, status, workspace, buildVars, outcome>>

\* MUTANT: a loop over the files that are left, and the file is not taken off them.
BisectFileAgain ==
  /\ pc = "bisect"
  /\ stack = <<>>
  /\ \E f \in failing : stack' = <<KeptOf(f)>>
  /\ UNCHANGED <<pc, round, given, mutants, removed, status, workspace, buildVars, badSet,
                 failing, outcome>>

\* The next failing file, in the order of a Go map: any.
BisectFile ==
  /\ pc = "bisect"
  /\ stack = <<>>
  /\ \E f \in failing : failing' = failing \ {f} /\ stack' = <<KeptOf(f)>>
  /\ UNCHANGED <<pc, round, given, mutants, removed, status, workspace, buildVars, badSet, outcome>>

\* candidates[:mid] and candidates[mid:]
FirstHalf(S) == {m \in S : Cardinality({n \in S : n < m}) < Cardinality(S) \div 2}

Blame(S) ==
  /\ badSet' = badSet \cup S
  /\ status' = [m \in Mutants |-> IF m \in S THEN "error" ELSE status[m]]

\* MUTANT: any error counts.
anyCompileErrors(f) == Reported' # {}

\* Of the build after the candidates were written.
fileHasCompileErrors(f) == \E c \in Reported' : c.at = f

\* One call of bisectFileMutants: inline the candidates alone into their file,
\* build, and look for errors in that file only.
BisectCandidates ==
  /\ pc = "bisect"
  /\ stack # <<>>
  /\ \E f \in {FileOf[m] : m \in Head(stack)} : \E lost \in Unformattable({f}) :
       /\ embedded' = [embedded EXCEPT ![f] = IF f \in lost THEN {} ELSE Head(stack)]
       /\ UNCHANGED <<given, helper>>
       /\ LET fails == fileHasCompileErrors(f)
          IN  \/ /\ ~fails
                 /\ stack' = Tail(stack)
                 /\ UNCHANGED <<badSet, status>>
              \/ /\ fails
                 /\ Cardinality(Head(stack)) = 1
                 /\ stack' = Tail(stack)
                 /\ Blame(Head(stack))
              \/ /\ fails
                 /\ Cardinality(Head(stack)) > 1
                 /\ stack' = <<FirstHalf(Head(stack)), Head(stack) \ FirstHalf(Head(stack))>>
                                \o Tail(stack)
                 /\ UNCHANGED <<badSet, status>>
  /\ UNCHANGED <<pc, round, mutants, removed, buildVars, failing, outcome>>

\* applySingleFile fails, before or after it restored the file: all candidates
\* are blamed.
BisectApplyFails ==
  /\ pc = "bisect"
  /\ stack # <<>>
  /\ "io" \in faults
  /\ \E f \in {FileOf[m] : m \in Head(stack)} :
       \E left \in {embedded[f], {}} : embedded' = [embedded EXCEPT ![f] = left]
  /\ stack' = Tail(stack)
  /\ Blame(Head(stack))
  /\ UNCHANGED <<pc, round, given, mutants, removed, helper, buildVars, failing, outcome>>

BisectionDone == pc = "bisect" /\ stack = <<>> /\ failing = {}

\* The blamed mutants are removed and their files written anew.
RemoveBlamed ==
  /\ BisectionDone
  /\ badSet # {}
  /\ \/ /\ Remove(badSet)
        /\ ReapplyAffectedFiles(badSet, mutants \ badSet)
        /\ NextRound
     \/ /\ RemoveAndGiveUpOn(badSet)
        /\ AppendRemoved(badSet)
        /\ ReapplyFails(badSet, mutants \ badSet)
        /\ Return("error")
  /\ UNCHANGED <<given, buildVars, bisectVars>>

\* MUTANT: the mutants of the failing packages are kept nowhere.
QuarantineForgets ==
  /\ BisectionDone
  /\ badSet = {}
  /\ LET failed == {m \in mutants : PkgOf[FileOf[m]] \in failingPkgs}
     IN  /\ mutants' = mutants \ failed
         /\ status' = [m \in Mutants |-> IF m \in failed THEN "error" ELSE status[m]]
         /\ Restore(FilesToReset(failingPkgs))
         /\ IF failed = mutants THEN Return("unverified") ELSE NextRound
  /\ UNCHANGED <<removed, given, buildVars, bisectVars>>

\* Nobody is blamed: every mutant of the failing packages is a compile error.
\* A failure to restore their files is only logged.
Quarantine ==
  /\ BisectionDone
  /\ badSet = {}
  /\ LET failed == {m \in mutants : PkgOf[FileOf[m]] \in failingPkgs}
     IN  /\ Remove(failed)
         /\ Restore(FilesToReset(failingPkgs)) \/ ResetFails(failingPkgs)
         /\ IF failed = mutants THEN Return("unverified") ELSE NextRound
  /\ UNCHANGED <<given, buildVars, bisectVars>>

(***************************************************************************)
(* maxRounds rounds were not enough.                                       *)
(***************************************************************************)
FinalDefer ==
  /\ AfterLastRound
  /\ output = {}
  /\ Return("unverified")
  /\ UNCHANGED <<given, mutants, removed, status, workspace, buildVars, bisectVars>>

\* When the files cannot be restored the quarantined mutants have their status,
\* but are returned as kept.
FinalQuarantine ==
  /\ AfterLastRound
  /\ output # {}
  /\ LET failed == {m \in mutants : PkgOf[FileOf[m]] \in failingPkgs}
     IN  \/ /\ Remove(failed)
            /\ Restore(FilesToReset(failingPkgs))
            /\ Return("unverified")
         \/ /\ status' = [m \in Mutants |-> IF m \in failed THEN "error" ELSE status[m]]
            /\ ResetFails(failingPkgs)
            /\ Return("error")
            /\ UNCHANGED <<mutants, removed>>
  /\ UNCHANGED <<given, buildVars, bisectVars>>

Returned == pc = "returned" /\ UNCHANGED vars

Step ==
  \/ Build
  \/ BuildClean
  \/ RemoveNearErrors
  \/ NoneMatched
  \/ DeferUntracked
  \/ StartBisection
  \/ BisectFile
  \/ BisectCandidates
  \/ BisectApplyFails
  \/ RemoveBlamed
  \/ Quarantine
  \/ FinalDefer
  \/ FinalQuarantine

Next == Step \/ Returned

SafeSpec == Init /\ [][Next]_vars

\* One goroutine, which never waits for anything but its own builds.
Spec == SafeSpec /\ WF_vars(Step)

-----------------------------------------------------------------------------
(***************************************************************************)
(* Properties.                                                             *)
(***************************************************************************)
TypeOK ==
  /\ pc \in {"build", "inspect", "bisect", "returned"}
  /\ round \in 0 .. MaxRounds
  /\ conflicts \in SUBSET Conflicts
  /\ stored \in [Mutants -> StoredStatuses]
  /\ faults \subseteq FaultKinds
  /\ mutants \in SUBSET Mutants
  /\ removed \in [Mutants -> Nat]
  /\ status \in [Mutants -> StoredStatuses \cup {"untested", "error"}]
  /\ embedded \in [Files -> SUBSET Mutants]
  /\ helper \in [Pkgs -> BOOLEAN]
  /\ expired \in BOOLEAN
  /\ buildOK \in BOOLEAN
  /\ output \in SUBSET Conflicts
  /\ failing \in SUBSET Files
  /\ stack \in Seq(SUBSET Mutants)
  /\ badSet \in SUBSET Mutants
  /\ outcome \in {"running", "verified", "unverified", "error"}

\* "kept mutants, removed mutants": what the call hands back has every mutant at
\* least once whatever fails, and exactly once unless it returns an error.
ReturnedMutants(m) == removed[m] + (IF m \in mutants THEN 1 ELSE 0)

NoMutantLost ==
  \A m \in Mutants :
    /\ ReturnedMutants(m) >= 1
    /\ outcome # "error" => ReturnedMutants(m) = 1

\* Between rounds, and after a return without an error, the removed mutants have
\* the compile-error status, and the kept ones the status they came with: none is
\* dropped without a verdict, and none that still has to run is given one.
StatusesMatch ==
  pc = "build" \/ outcome \in {"verified", "unverified"} =>
    \A m \in Mutants : status[m] = IF removed[m] > 0 THEN "error" ELSE stored[m]

\* What Lifecycle takes the call for: a return with an error, after which the external
\* tests still run, leaves no mutant without a status, and none in the removed list
\* twice, of which the caller would append two copies.
Removed == {m \in Mutants : removed[m] > 0}

PromiseKept ==
  pc = "returned" =>
    /\ \A m \in Mutants : removed[m] <= 1
    /\ IF outcome = "error" THEN VerificationFailed(Mutants, stored, mutants, Removed, status)
                            ELSE Verified(Mutants, stored, mutants, Removed, status)

\* The bisection of a file misses no mutant that breaks it alone, whatever it holds
\* besides and whatever was done to the other files before; and it blames a mutant
\* only if, of this file, no other is needed for an error in it.  It is so blamed for
\* what mutants of other files do, or for code that is broken anyway: among the errors
\* of one file, the search cannot tell which are its own.
Guilty(m) == \E c \in conflicts : c.at = FileOf[m] /\ c.needs \subseteq {m}

Suspect(m) ==
  \E c \in conflicts : /\ c.at = FileOf[m]
                       /\ c.needs \subseteq mutants
                       /\ c.needs \cap MutantsOf(c.at) \subseteq {m}

BisectionFindsCulprits ==
  pc = "bisect" /\ faults \cap {"io", "format"} = {} =>
    /\ \A m \in badSet : Suspect(m)
    /\ BisectionDone =>
         \A m \in mutants : FileOf[m] \in failingFiles /\ Guilty(m) => m \in badSet

\* Between rounds no removed mutant is still inlined anywhere, so that it cannot
\* break the next build or be found by the next scan.
NoRemovedCodeLeft ==
  pc = "build" /\ "io" \notin faults =>
    \A f \in Files : embedded[f] \subseteq mutants

\* The call returns: the bisection always gets to smaller sets of candidates.
Terminates == <>(pc = "returned")

=============================================================================
