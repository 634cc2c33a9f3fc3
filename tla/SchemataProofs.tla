---------------------------- MODULE SchemataProofs ----------------------------
(***************************************************************************)
(* Theorems about Schemata, for any tree and any mutants.                  *)
(***************************************************************************)
EXTENDS Schemata, TLAPS

\* A node that is still to be visited has not been replaced.
Unvisited == \A n \in Nodes : n >= next => guards[n] = {} /\ n \notin bare

\* Where a mutant is inlined, its key is the node's.
ByKey == \A n \in Nodes : \A m \in guards[n] : Key(n) = Key(plan[m].site)

\* A replaced expression has a parent at whose present key there is no mutant.
ParentIsBare ==
  \A n \in Nodes :
    Parent[n] # 0 /\ Kind[n] \in Exprs /\ Kind[Parent[n]] \in Exprs /\ guards[n] # {}
      => MutantsAt(CurrentKey(Parent[n])) = {}

IInv == TypeOK /\ Unvisited /\ ByKey /\ EachInlinedOnce /\ ParentIsBare /\ NoNestedInlining /\ OperatorsAreFound

\* The sites of a plan are nodes.
LEMMA PlanSites == ASSUME TypeOK PROVE \A m \in Mutants : plan[m].site \in Nodes
BY DEF TypeOK, Plans, Yields

\* No mutant is at the key of a node without a position.
LEMMA NoKeyIsEmpty == ASSUME TypeOK PROVE MutantsAt(NoKey) = {}
<1>1. \A n \in Nodes : Key(n) # NoKey
  <2> SUFFICES ASSUME NEW n \in Nodes PROVE Key(n) # NoKey
    OBVIOUS
  <2> DEFINE t == IF Kind[n] \in OwnToken THEN n ELSE FirstToken[n]
  <2>1. t \in Nodes
    BY TreeAssumption
  <2>2. t # 0
    BY <2>1 DEF Nodes
  <2>3. Key(n) = <<t, Kind[n]>>
    BY DEF Key
  <2> HIDE DEF t
  <2> QED BY <2>2, <2>3 DEF NoKey
<1> QED BY <1>1, PlanSites DEF MutantsAt

\* The replacement of a node chooses between mutants found at it.
LEMMA GuardedSubset == \A n, ms : Guarded(n, ms) \subseteq ms
BY DEF Guarded, Mutable

\* Two nodes with one key are one node, or the later one starts at the token of the earlier one.
LEMMA KeysMeet ==
  ASSUME NEW n1 \in Nodes, NEW n2 \in Nodes, Key(n1) = Key(n2), n1 # n2
  PROVE  /\ FirstToken[n1] = FirstToken[n2]
         /\ Kind[n1] = Kind[n2]
         /\ Kind[n1] \notin OwnToken
         /\ Kind[n1] \notin KeepsToken
BY TreeAssumption DEF Key

\* What a visit does, with the keys of its first state.
LEMMA VisitStep ==
  ASSUME IInv, Visit
  PROVE  /\ next \in Nodes
         /\ next' = next + 1
         /\ plan' = plan
         /\ \A n \in Nodes : n # next => guards'[n] = guards[n] /\ (n \in bare' <=> n \in bare)
         /\ guards'[next] \subseteq MutantsAt(CurrentKey(next))
         /\ guards'[next] # {} => ~Shielded(next)
         /\ guards'[next] = Guarded(next, IF Shielded(next) THEN {} ELSE MutantsAt(CurrentKey(next)))
<1> DEFINE ms == IF Shielded(next) THEN {} ELSE MutantsAt(CurrentKey(next))
<1>1. guards'[next] = Guarded(next, ms) /\ next \in Nodes
  BY DEF Visit, IInv, TypeOK
<1>2. Guarded(next, ms) \subseteq ms
  BY GuardedSubset
<1>3. \A n \in Nodes : n # next => guards'[n] = guards[n] /\ (n \in bare' <=> n \in bare)
  BY DEF Visit, IInv, TypeOK
<1> HIDE DEF ms
<1>4. next' = next + 1 /\ plan' = plan
  BY DEF Visit
<1>5. ms \subseteq MutantsAt(CurrentKey(next)) /\ (Shielded(next) => ms = {})
  BY DEF ms
<1> QED BY <1>1, <1>2, <1>3, <1>4, <1>5 DEF ms

\* A key only ever gets lost.
LEMMA KeysOnlyGetLost ==
  ASSUME IInv, Visit, NEW n \in Nodes
  PROVE  CurrentKey(n)' = CurrentKey(n) \/ CurrentKey(n)' = NoKey
<1>1. Lost(n) => Lost(n)'
  <2> SUFFICES ASSUME NEW r \in 1 .. (n - 1), FirstToken[r] = FirstToken[n], Replaced(r), Kind[r] \notin KeepsToken
               PROVE  Replaced(r)'
    BY DEF Lost
  <2>1. r \in Nodes
    BY TreeAssumption DEF Nodes
  <2>2. r # next
    BY <2>1, TreeAssumption DEF IInv, Unvisited, Replaced, Nodes, TypeOK
  <2> QED BY <2>1, <2>2, VisitStep DEF Replaced
<1> QED BY <1>1 DEF CurrentKey, Key

\* The mutants found at a key do not change.
LEMMA MutantsStay == ASSUME plan' = plan, NEW k PROVE MutantsAt(k)' = MutantsAt(k)
BY DEF MutantsAt, Key

\* Every variable keeps its type.
LEMMA TypeStep == ASSUME TypeOK, [Next]_vars PROVE TypeOK'
<1>1. CASE Visit
  <2> DEFINE ms == IF Shielded(next) THEN {} ELSE MutantsAt(CurrentKey(next))
  <2>1. ms \subseteq Mutants
    BY DEF MutantsAt
  <2>2. Guarded(next, ms) \subseteq ms
    BY GuardedSubset
  <2>3. guards' = [guards EXCEPT ![next] = Guarded(next, ms)]
    BY <1>1 DEF Visit
  <2>4. bare' \subseteq bare \cup {next} /\ next \in Nodes
    BY <1>1 DEF Visit
  <2> HIDE DEF ms
  <2>5. guards' \in [Nodes -> SUBSET Mutants]
    BY <2>1, <2>2, <2>3 DEF TypeOK
  <2>6. next' \in 1 .. (N + 1)
    BY <1>1, TreeAssumption DEF Visit, Nodes
  <2>7. UNCHANGED <<plan, blanked, written>>
    BY <1>1 DEF Visit
  <2> QED BY <2>4, <2>5, <2>6, <2>7 DEF TypeOK
<1>2. CASE Finish
  <2>1. blanked' \subseteq Nodes \X Mutants
    BY <1>2 DEF Finish, EmptiedLoops
  <2> QED BY <1>2, <2>1 DEF Finish, TypeOK
<1>3. CASE UNCHANGED vars
  BY <1>3 DEF vars, TypeOK
<1> QED BY <1>1, <1>2, <1>3 DEF Next, Done

\* A visit preserves the invariant, one conjunct at a time.
LEMMA VisitPreserves == ASSUME IInv, Visit PROVE IInv'
<1>1. TypeOK'
  BY TypeStep DEF IInv, Next
<1>2. /\ next \in Nodes
      /\ next' = next + 1
      /\ plan' = plan
      /\ \A n \in Nodes : n # next => guards'[n] = guards[n] /\ (n \in bare' <=> n \in bare)
      /\ guards'[next] \subseteq MutantsAt(CurrentKey(next))
      /\ guards'[next] # {} => ~Shielded(next)
      /\ guards'[next] = Guarded(next, IF Shielded(next) THEN {} ELSE MutantsAt(CurrentKey(next)))
  BY VisitStep
<1>a. N \in Nat /\ next \in Nat /\ next' = next + 1 /\ next <= N
  BY <1>2, TreeAssumption DEF Nodes
<1>b. \A n \in Nodes : n \in Nat
  BY DEF Nodes
<1>c. Unvisited
  BY DEF IInv
<1>3. Unvisited'
  <2> SUFFICES ASSUME NEW n \in Nodes, n >= next + 1 PROVE guards'[n] = {} /\ n \notin bare'
    BY <1>a DEF Unvisited
  <2>1. n # next /\ n >= next
    BY <1>a, <1>b
  <2> QED BY <2>1, <1>2, <1>c DEF Unvisited
<1>4. \A m \in guards'[next] : CurrentKey(next) = Key(plan[m].site) /\ CurrentKey(next) = Key(next)
  <2> SUFFICES ASSUME NEW m \in guards'[next]
               PROVE  CurrentKey(next) = Key(plan[m].site) /\ CurrentKey(next) = Key(next)
    OBVIOUS
  <2>1. m \in Mutants /\ CurrentKey(next) = Key(plan[m].site)
    BY <1>2 DEF MutantsAt
  <2>2. CurrentKey(next) # NoKey
    BY <1>2, NoKeyIsEmpty DEF IInv
  <2> QED BY <2>1, <2>2 DEF CurrentKey
<1>5. ByKey'
  <2> SUFFICES ASSUME NEW n \in Nodes, NEW m \in guards'[n] PROVE Key(n) = Key(plan[m].site)
    BY <1>2 DEF ByKey, Key
  <2>1. CASE n = next
    BY <2>1, <1>4
  <2>2. CASE n # next
    BY <2>2, <1>2 DEF IInv, ByKey
  <2> QED BY <2>1, <2>2
<1>6. EachInlinedOnce'
  <2>1. ASSUME NEW m \in Mutants, NEW n \in Nodes, n # next, m \in guards[n], m \in guards'[next]
        PROVE  FALSE
    <3>1. n < next
      BY <2>1, <1>a, <1>b, <1>c DEF Unvisited
    <3>2. Key(n) = Key(next)
      BY <2>1, <1>4 DEF IInv, ByKey
    <3>3. /\ FirstToken[n] = FirstToken[next]
          /\ Kind[n] = Kind[next]
          /\ Kind[n] \notin OwnToken
          /\ Kind[n] \notin KeepsToken
      BY <2>1, <3>2, <1>2, KeysMeet
    <3>4. Lost(next)
      <4>1. n \in 1 .. (next - 1)
        BY <3>1, <1>a, <1>b DEF Nodes
      <4>2. Replaced(n)
        BY <2>1 DEF Replaced
      <4> QED BY <4>1, <4>2, <3>3 DEF Lost
    <3>5. CurrentKey(next) = NoKey
      BY <3>3, <3>4 DEF CurrentKey
    <3> QED BY <3>5, <2>1, <1>2, NoKeyIsEmpty DEF IInv
  <2> QED BY <2>1, <1>2 DEF IInv, EachInlinedOnce
<1>7. ParentIsBare'
  <2> SUFFICES ASSUME NEW n \in Nodes, Parent[n] # 0, Kind[n] \in Exprs, Kind[Parent[n]] \in Exprs, guards'[n] # {}
               PROVE  MutantsAt(CurrentKey(Parent[n]))' = {}
    BY DEF ParentIsBare
  <2>1. Parent[n] \in Nodes
    BY TreeAssumption DEF Nodes
  <2>2. MutantsAt(CurrentKey(Parent[n])) = {}
    BY <1>2 DEF IInv, ParentIsBare, Shielded
  <2>3. CurrentKey(Parent[n])' = CurrentKey(Parent[n]) \/ CurrentKey(Parent[n])' = NoKey
    BY <2>1, KeysOnlyGetLost
  <2>4. \A k : {m \in Mutants : Key(plan'[m].site) = k} = MutantsAt(k)
    BY <1>2 DEF MutantsAt
  <2>5. MutantsAt(CurrentKey(Parent[n]))' = MutantsAt(CurrentKey(Parent[n])')
    BY <2>4, <1>2 DEF MutantsAt, Key
  <2> QED BY <2>2, <2>3, <2>5, NoKeyIsEmpty DEF IInv
<1>8. NoNestedInlining'
  <2> SUFFICES ASSUME NEW n \in Nodes, Parent[n] # 0, Kind[n] \in Exprs, Kind[Parent[n]] \in Exprs, guards'[n] # {}
               PROVE  guards'[Parent[n]] = {}
    BY DEF NoNestedInlining
  <2>1. Parent[n] \in Nodes /\ Parent[n] > n
    BY TreeAssumption DEF Nodes
  <2>2. CASE n = next
    <3>1. Parent[n] >= next /\ Parent[n] # next
      BY <2>1, <2>2, <1>a, <1>b
    <3>2. guards'[Parent[n]] = guards[Parent[n]]
      BY <3>1, <2>1, <1>2
    <3> QED BY <3>1, <3>2, <2>1, <1>c DEF Unvisited
  <2>3. CASE n # next /\ Parent[n] # next
    BY <2>1, <2>3, <1>2 DEF IInv, NoNestedInlining
  <2>4. CASE n # next /\ Parent[n] = next
    <3>1. MutantsAt(CurrentKey(next)) = {}
      BY <2>4, <1>2 DEF IInv, ParentIsBare
    <3> QED BY <3>1, <2>4, <1>2
  <2> QED BY <2>2, <2>3, <2>4
<1>9. OperatorsAreFound'
  <2> SUFFICES ASSUME NEW m \in Mutants, NEW n, n = plan[m].site, next + 1 > n, Kind[n] = "op",
                      n \notin plan[m].declines, n \notin Fixed, Parent[n] # 0 => MutantsAt(Key(Parent[n])) = {}
               PROVE  m \in guards'[n]
    BY <1>2, MutantsStay DEF OperatorsAreFound, Key
  <2>1. n \in Nodes
    BY PlanSites DEF IInv
  <2>2. CASE n # next
    <3>1. next > n
      BY <2>1, <2>2, <1>a, <1>b
    <3> QED BY <3>1, <2>1, <2>2, <1>2 DEF IInv, OperatorsAreFound
  <2>3. CASE n = next
    <3>1. CurrentKey(next) = Key(next)
      BY <2>3 DEF CurrentKey, OwnToken
    <3>2. m \in MutantsAt(Key(next))
      BY <2>3 DEF MutantsAt
    <3>3. ~Shielded(next)
      BY <2>3, NoKeyIsEmpty DEF Shielded, CurrentKey, IInv
    <3>4. guards'[next] = Guarded(next, MutantsAt(Key(next)))
      BY <1>2, <3>1, <3>3
    <3>5. guards'[next] = Mutable(next, MutantsAt(Key(next)))
      BY <3>4, <2>3, TreeAssumption DEF Guarded, ExprFits
    <3> QED BY <3>5, <3>2, <2>3 DEF Mutable
  <2> QED BY <2>2, <2>3
<1> QED BY <1>1, <1>3, <1>5, <1>6, <1>7, <1>8, <1>9 DEF IInv

\* The invariant is inductive.
LEMMA IndInv == IInv /\ [Next]_vars => IInv'
<1> SUFFICES ASSUME IInv, [Next]_vars PROVE IInv'
  OBVIOUS
<1>1. TypeOK'
  BY TypeStep DEF IInv
<1>2. CASE Visit
  BY <1>2, VisitPreserves
<1>3. CASE UNCHANGED <<plan, next, guards, bare>>
  <2>1. Unvisited' /\ ByKey' /\ EachInlinedOnce' /\ NoNestedInlining'
    BY <1>3 DEF IInv, Unvisited, ByKey, EachInlinedOnce, NoNestedInlining, Key
  <2>2. ParentIsBare'
    BY <1>3 DEF IInv, ParentIsBare, MutantsAt, CurrentKey, Lost, Replaced, Key, NoKey
  <2>3. OperatorsAreFound'
    BY <1>3 DEF IInv, OperatorsAreFound, MutantsAt, Key
  <2> QED BY <1>1, <2>1, <2>2, <2>3 DEF IInv
<1>4. Finish => UNCHANGED <<plan, next, guards, bare>>
  BY DEF Finish
<1>5. UNCHANGED vars => UNCHANGED <<plan, next, guards, bare>>
  BY DEF vars
<1> QED BY <1>2, <1>3, <1>4, <1>5 DEF Next, Done

\* Nothing has been visited at the start.
LEMMA InitInv == Init => IInv
<1> SUFFICES ASSUME Init PROVE IInv
  OBVIOUS
<1>1. TypeOK
  BY TreeAssumption DEF Init, TypeOK
<1>2. \A n \in Nodes : guards[n] = {} /\ n \notin bare
  BY DEF Init
<1>3. Unvisited /\ ByKey /\ EachInlinedOnce /\ ParentIsBare /\ NoNestedInlining
  BY <1>2, TreeAssumption DEF Unvisited, ByKey, EachInlinedOnce, ParentIsBare, NoNestedInlining, Nodes
<1>4. OperatorsAreFound
  BY <1>1, PlanSites, TreeAssumption DEF OperatorsAreFound, Init, Nodes
<1> QED BY <1>1, <1>3, <1>4 DEF IInv

\* The invariant holds in every state of every tree.
THEOREM Invariant == Spec => []IInv
BY InitInv, IndInv, PTL DEF Spec

\* Type correctness of the traversal.
THEOREM TypeCorrect == Spec => []TypeOK
<1>1. IInv => TypeOK
  BY DEF IInv
<1> QED BY <1>1, Invariant, PTL

\* A mutant is inlined in at most one node, whatever keys coincide.
THEOREM InlinedOnce == Spec => []EachInlinedOnce
<1>1. IInv => EachInlinedOnce
  BY DEF IInv
<1> QED BY <1>1, Invariant, PTL

\* A closure of an expression is never the direct operand of another.
THEOREM NotNested == Spec => []NoNestedInlining
<1>1. IInv => NoNestedInlining
  BY DEF IInv
<1> QED BY <1>1, Invariant, PTL

\* The mutants of operator expressions are not lost by what was replaced before.
THEOREM OperatorsFound == Spec => []OperatorsAreFound
<1>1. IInv => OperatorsAreFound
  BY DEF IInv
<1> QED BY <1>1, Invariant, PTL
=============================================================================
