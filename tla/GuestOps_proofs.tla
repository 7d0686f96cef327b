--------------------------- MODULE GuestOps_proofs ---------------------------
(***************************************************************************)
(* Proofs about the operations on whole guests and about the breaker that  *)
(* stands in front of their restores.  The two have no variable in common: *)
(* each theorem is about one of the two specifications.                    *)
(*   RollbackBreaker, for every limit, window, set of targets, services    *)
(*   and concurrent updates: the bound on admitted rollbacks, the bound on *)
(*   what concurrent updates can add, and the forgiving window.            *)
(*   GuestOps, for every cap, set of calls and number of failures: what    *)
(*   retention keeps, what it leaves, and what a success means.            *)
(***************************************************************************)
EXTENDS RollbackBreaker, GuestOps, FiniteSetTheorems, WellFoundedInduction, TLAPS

----------------------------------------------------------------------------
(* Facts about windows and cardinalities *)

\* A window of a finite set is finite and no larger than any finite superset.
LEMMA WindowFinite ==
    ASSUME NEW A, IsFiniteSet(A)
    PROVE  /\ IsFiniteSet(InWindow(A))
           /\ Cardinality(InWindow(A)) \in Nat
  <1>1. InWindow(A) \in SUBSET A
    BY DEF InWindow
  <1>2. IsFiniteSet(InWindow(A))
    BY <1>1, FS_Subset
  <1> QED
    BY <1>2, FS_CardinalityType

\* A set inside a finite set has no more elements.
LEMMA SmallerSet ==
    ASSUME NEW S, NEW T, IsFiniteSet(S), T \subseteq S
    PROVE  /\ IsFiniteSet(T)
           /\ Cardinality(T) \in Nat /\ Cardinality(S) \in Nat
           /\ Cardinality(T) <= Cardinality(S)
  <1>1. T \in SUBSET S
    OBVIOUS
  <1>2. IsFiniteSet(T) /\ Cardinality(T) <= Cardinality(S)
    BY <1>1, FS_Subset
  <1> QED
    BY <1>2, FS_CardinalityType

\* Recording one attempt adds at most one.
LEMMA OneMore ==
    ASSUME NEW S, NEW x, NEW T, IsFiniteSet(S), T \subseteq S \cup {x}
    PROVE  /\ IsFiniteSet(T)
           /\ Cardinality(T) \in Nat /\ Cardinality(S) \in Nat
           /\ Cardinality(T) <= Cardinality(S) + 1
  <1>1. IsFiniteSet(S \cup {x}) /\ Cardinality(S) \in Nat
        /\ Cardinality(S \cup {x}) <= Cardinality(S) + 1
    <2>1. Cardinality(S) \in Nat
      BY FS_CardinalityType
    <2> QED
      BY <2>1, FS_AddElement
  <1>2. IsFiniteSet(T) /\ Cardinality(T) \in Nat /\ Cardinality(S \cup {x}) \in Nat
        /\ Cardinality(T) <= Cardinality(S \cup {x})
    BY <1>1, SmallerSet
  <1> QED
    BY <1>1, <1>2

\* An update that leaves the set of those in flight makes it one smaller.
LEMMA OneLess ==
    ASSUME NEW S, NEW x \in S, IsFiniteSet(S)
    PROVE  Cardinality(S \ {x}) = Cardinality(S) - 1
  BY FS_RemoveElement

----------------------------------------------------------------------------
(* The initial states *)

\* A fresh breaker satisfies the inductive invariant.
LEMMA InitIInv == Init => IInv
  <1> SUFFICES ASSUME Init PROVE IInv
    OBVIOUS
  <1> USE BreakerAssumption
  <1>1. TypeOK
    BY DEF Init, TypeOK
  <1>2. FiniteHistories
    BY FS_EmptySet DEF Init, FiniteHistories, BreakerKeys
  <1>3. Remembered
    BY DEF Init, Remembered, InWindow, BreakerKeys
  <1>4. FewerThanLimitAdmitted
    <2>1. \A k \in Targets : InWindow(admitted[k]) = {}
      BY DEF Init, InWindow
    <2> QED
      BY <2>1, FS_EmptySet DEF FewerThanLimitAdmitted
  <1>5. OvershootBudget
    <2>1. \A k \in UpdateKeys : InWindow(rolled[k]) = {} /\ PastGate(k) = {}
      BY DEF Init, InWindow, PastGate
    <2>2. Cardinality(Updates) \in Nat /\ Limit - 1 \in Nat
      BY FS_CardinalityType
    <2>3. 0 + 0 <= Limit - 1 + Cardinality(Updates)
      BY <2>2
    <2>4. Cardinality({}) = 0
      BY FS_EmptySet
    <2> QED
      BY <2>1, <2>3, <2>4, Zenon DEF OvershootBudget
  <1> QED
    BY <1>1, <1>2, <1>3, <1>4, <1>5 DEF IInv

----------------------------------------------------------------------------
(* One lemma per action *)

\* check records this attempt under one key and leaves the others alone.
LEMMA CheckRecords ==
    ASSUME IInv, NEW k \in BreakerKeys, Check(k)
    PROVE  /\ ThisAttempt \in Attempt
           /\ attempts' \in 0 .. MaxAttempts
           /\ history' \in [BreakerKeys -> SUBSET Attempt]
           /\ asked' \in [BreakerKeys -> SUBSET Attempt]
           /\ \A j \in BreakerKeys : IsFiniteSet(history'[j])
           /\ Enabled => \A j \in BreakerKeys : history'[j] \subseteq asked'[j]
           /\ Enabled => /\ history'[k] = InWindow(history[k]) \cup {ThisAttempt}
                         /\ \A j \in BreakerKeys \ {k} : history'[j] = history[j]
  <1> USE BreakerAssumption
  <1>1. ThisAttempt \in Attempt /\ attempts' \in 0 .. MaxAttempts
    BY DEF IInv, TypeOK, Check, ThisAttempt, Attempt
  <1>2. InWindow(history[k]) \subseteq history[k] /\ history[k] \subseteq Attempt
    BY DEF IInv, TypeOK, InWindow
  <1>3. Recorded(k) \subseteq Attempt /\ IsFiniteSet(Recorded(k))
    <2>1. IsFiniteSet(InWindow(history[k]))
      BY WindowFinite DEF IInv, FiniteHistories
    <2> QED
      BY <1>1, <1>2, <2>1, FS_AddElement DEF Recorded
  <1>4. history' \in [BreakerKeys -> SUBSET Attempt] /\ asked' \in [BreakerKeys -> SUBSET Attempt]
    BY <1>1, <1>3 DEF IInv, TypeOK, Check
  <1>5. /\ Enabled => history'[k] = Recorded(k)
        /\ ~Enabled => history' = history
        /\ \A j \in BreakerKeys \ {k} : history'[j] = history[j]
        /\ asked'[k] = asked[k] \cup {ThisAttempt}
        /\ \A j \in BreakerKeys \ {k} : asked'[j] = asked[j]
    BY DEF IInv, TypeOK, Check
  <1>6. \A j \in BreakerKeys : IsFiniteSet(history'[j])
    BY <1>3, <1>5 DEF IInv, FiniteHistories
  <1>7. Enabled => \A j \in BreakerKeys : history'[j] \subseteq asked'[j]
    BY <1>2, <1>5 DEF IInv, Remembered, Recorded
  <1> QED
    BY <1>1, <1>4, <1>5, <1>6, <1>7 DEF Recorded

\* A rollback verb keeps the invariant: it is let through only when its own
\* attempt, counted with the remembered ones, stays under the limit.
LEMMA RollbackVerbStep ==
    ASSUME IInv, NEW k \in Targets, RollbackVerb(k)
    PROVE  IInv'
  <1> USE BreakerAssumption
  <1>0. k \in BreakerKeys /\ Check(k)
    BY DEF BreakerKeys, RollbackVerb
  <1> DEFINE fires == ~(Enabled /\ Tripped(Recorded(k)))
  <1>1. /\ now' = now /\ updating' = updating /\ rolled' = rolled
        /\ fires => admitted' = [admitted EXCEPT ![k] = @ \cup {ThisAttempt}]
        /\ ~fires => admitted' = admitted
    BY DEF RollbackVerb
  <1>2. TypeOK'
    BY <1>0, <1>1, CheckRecords DEF IInv, TypeOK
  <1>3. /\ admitted'[k] \in {admitted[k], admitted[k] \cup {ThisAttempt}}
        /\ ~fires => admitted'[k] = admitted[k]
        /\ \A j \in Targets \ {k} : admitted'[j] = admitted[j]
    BY <1>1 DEF IInv, TypeOK
  <1>4. FiniteHistories'
    <2>1. \A j \in Targets : IsFiniteSet(admitted[j])
      BY DEF IInv, FiniteHistories
    <2>2. IsFiniteSet(admitted[k] \cup {ThisAttempt})
      BY <2>1, FS_AddElement
    <2>3. \A j \in Targets : IsFiniteSet(admitted'[j])
      BY <1>3, <2>1, <2>2
    <2> QED
      BY <1>0, <1>1, <2>3, CheckRecords DEF IInv, FiniteHistories
  <1>5. Remembered'
    <2> SUFFICES ASSUME Enabled
                 PROVE  /\ \A j \in Targets : InWindow(admitted'[j]) \subseteq history'[j]
                        /\ \A j \in UpdateKeys : InWindow(rolled'[j]) \subseteq history'[j]
                        /\ \A j \in BreakerKeys : history'[j] \subseteq asked'[j]
      BY <1>1 DEF Remembered, InWindow
    <2>1. \A j \in Targets \ {k} : InWindow(admitted'[j]) \subseteq history'[j]
      BY <1>0, <1>3, CheckRecords DEF IInv, Remembered, BreakerKeys
    <2>2. InWindow(admitted'[k]) \subseteq history'[k]
      <3>1. InWindow(admitted[k]) \subseteq InWindow(history[k])
        BY DEF IInv, Remembered, InWindow
      <3> QED
        BY <1>0, <1>3, <3>1, CheckRecords DEF InWindow
    <2>3. \A j \in UpdateKeys : InWindow(rolled'[j]) \subseteq history'[j]
      BY <1>0, <1>1, CheckRecords DEF IInv, Remembered, BreakerKeys
    <2> QED
      BY <1>0, <2>1, <2>2, <2>3, CheckRecords
  <1>6. FewerThanLimitAdmitted'
    <2> SUFFICES ASSUME Enabled, NEW j \in Targets
                 PROVE  Cardinality(InWindow(admitted'[j])) < Limit
      BY <1>1 DEF FewerThanLimitAdmitted, InWindow
    <2>1. CASE j # k \/ ~fires
      BY <1>3, <2>1 DEF IInv, FewerThanLimitAdmitted
    <2>2. CASE j = k /\ fires
      <3>1. InWindow(admitted'[k]) \subseteq InWindow(Recorded(k))
        <4>1. InWindow(admitted[k]) \subseteq InWindow(history[k])
          BY DEF IInv, Remembered, InWindow
        <4> QED
          BY <1>3, <4>1 DEF Recorded, InWindow
      <3>2. IsFiniteSet(InWindow(Recorded(k)))
        BY <1>0, CheckRecords, WindowFinite DEF Recorded
      <3>3. ~(Cardinality(InWindow(Recorded(k))) >= Limit)
        BY <2>2 DEF Tripped
      <3> HIDE DEF fires
      <3> QED
        BY <2>2, <3>1, <3>2, <3>3, SmallerSet
    <2> QED
      BY <2>1, <2>2
  <1>7. OvershootBudget'
    BY <1>1 DEF IInv, OvershootBudget, InWindow, PastGate
  <1> QED
    BY <1>2, <1>4, <1>5, <1>6, <1>7 DEF IInv

\* compose_update's gate keeps the invariant: behind it at most limit - 1
\* rollbacks are in the window, and at most all updates are in flight.
LEMMA UpdateBeginStep ==
    ASSUME IInv, NEW u \in Updates, NEW k \in UpdateKeys, UpdateBegin(u, k)
    PROVE  IInv'
  <1> USE BreakerAssumption
  <1>1. /\ now' = now /\ history' = history /\ attempts' = attempts
        /\ asked' = asked /\ admitted' = admitted /\ rolled' = rolled
        /\ updating' = [updating EXCEPT ![u] = k]
        /\ updating[u] = NotUpdating
    BY DEF UpdateBegin
  <1>2. TypeOK'
    BY <1>1 DEF IInv, TypeOK
  <1>3. FiniteHistories'
    BY <1>1 DEF IInv, FiniteHistories
  <1>4. Remembered' /\ FewerThanLimitAdmitted'
    BY <1>1 DEF IInv, Remembered, FewerThanLimitAdmitted, InWindow
  <1>5. OvershootBudget'
    <2> SUFFICES ASSUME Enabled, NEW j \in UpdateKeys
                 PROVE  Cardinality(InWindow(rolled[j])) + Cardinality(PastGate(j)')
                            <= Limit - 1 + Cardinality(Updates)
      BY <1>1 DEF OvershootBudget, InWindow
    <2>1. CASE j # k
      <3>1. PastGate(j)' = PastGate(j)
        BY <1>1, <2>1 DEF IInv, TypeOK, PastGate
      <3> QED
        BY <3>1 DEF IInv, OvershootBudget
    <2>2. CASE j = k
      <3>1. PastGate(k)' \subseteq Updates
        BY DEF PastGate
      <3>2. /\ Cardinality(PastGate(k)') \in Nat /\ Cardinality(Updates) \in Nat
            /\ Cardinality(PastGate(k)') <= Cardinality(Updates)
        BY <3>1, SmallerSet
      <3>3. /\ IsFiniteSet(InWindow(history[k]))
            /\ InWindow(rolled[k]) \subseteq InWindow(history[k])
        BY WindowFinite DEF IInv, FiniteHistories, Remembered, BreakerKeys, InWindow
      <3>4. /\ Cardinality(InWindow(rolled[k])) \in Nat
            /\ Cardinality(InWindow(history[k])) \in Nat
            /\ Cardinality(InWindow(rolled[k])) <= Cardinality(InWindow(history[k]))
        BY <3>3, SmallerSet
      <3>5. ~(Cardinality(InWindow(history[k])) >= Limit)
        BY DEF UpdateBegin, Tripped
      <3> QED
        BY <2>2, <3>2, <3>4, <3>5
    <2> QED
      BY <2>1, <2>2
  <1> QED
    BY <1>2, <1>3, <1>4, <1>5 DEF IInv

\* A rollback by compose_update moves one from the updates in flight to the
\* rollbacks recorded.
LEMMA UpdateRollsBackStep ==
    ASSUME IInv, NEW u \in Updates, UpdateRollsBack(u)
    PROVE  IInv'
  <1> USE BreakerAssumption
  <1>p. PICK k \in UpdateKeys : k = updating[u]
    BY DEF IInv, TypeOK, UpdateRollsBack
  <1>0. k \in BreakerKeys /\ Check(k)
    BY <1>p DEF UpdateRollsBack, BreakerKeys
  <1>1. /\ now' = now /\ admitted' = admitted
        /\ updating' = [updating EXCEPT ![u] = NotUpdating]
        /\ rolled' = [rolled EXCEPT ![k] = @ \cup {ThisAttempt}]
    BY <1>p DEF UpdateRollsBack
  <1>2. TypeOK'
    BY <1>0, <1>1, CheckRecords DEF IInv, TypeOK
  <1>3. /\ rolled'[k] = rolled[k] \cup {ThisAttempt}
        /\ \A j \in UpdateKeys \ {k} : rolled'[j] = rolled[j]
    BY <1>0, <1>1 DEF IInv, TypeOK
  <1>4. FiniteHistories'
    <2>1. \A j \in UpdateKeys : IsFiniteSet(rolled[j])
      BY DEF IInv, FiniteHistories
    <2>2. IsFiniteSet(rolled[k] \cup {ThisAttempt})
      BY <1>0, <2>1, FS_AddElement
    <2>3. \A j \in UpdateKeys : IsFiniteSet(rolled'[j])
      BY <1>3, <2>1, <2>2
    <2> QED
      BY <1>0, <1>1, <2>3, CheckRecords DEF IInv, FiniteHistories
  <1>5. Remembered'
    <2> SUFFICES ASSUME Enabled
                 PROVE  /\ \A j \in Targets : InWindow(admitted'[j]) \subseteq history'[j]
                        /\ \A j \in UpdateKeys : InWindow(rolled'[j]) \subseteq history'[j]
                        /\ \A j \in BreakerKeys : history'[j] \subseteq asked'[j]
      BY <1>1 DEF Remembered, InWindow
    <2>1. \A j \in UpdateKeys \ {k} : InWindow(rolled'[j]) \subseteq history'[j]
      BY <1>0, <1>3, CheckRecords DEF IInv, Remembered, BreakerKeys
    <2>2. InWindow(rolled'[k]) \subseteq history'[k]
      <3>1. InWindow(rolled[k]) \subseteq InWindow(history[k])
        BY <1>0 DEF IInv, Remembered, InWindow
      <3> QED
        BY <1>0, <1>3, <3>1, CheckRecords DEF InWindow
    <2>3. \A j \in Targets : InWindow(admitted'[j]) \subseteq history'[j]
      BY <1>0, <1>1, CheckRecords DEF IInv, Remembered, BreakerKeys
    <2> QED
      BY <1>0, <2>1, <2>2, <2>3, CheckRecords
  <1>6. FewerThanLimitAdmitted'
    BY <1>1 DEF IInv, FewerThanLimitAdmitted, InWindow
  <1>7. OvershootBudget'
    <2> SUFFICES ASSUME Enabled, NEW j \in UpdateKeys
                 PROVE  Cardinality(InWindow(rolled'[j])) + Cardinality(PastGate(j)')
                            <= Limit - 1 + Cardinality(Updates)
      BY <1>1 DEF OvershootBudget, InWindow
    <2>1. CASE j # k
      <3>1. PastGate(j)' = PastGate(j)
        BY <1>p, <1>1, <2>1 DEF IInv, TypeOK, PastGate
      <3> QED
        BY <1>3, <2>1, <3>1 DEF IInv, OvershootBudget
    <2>2. CASE j = k
      <3>1. PastGate(k)' = PastGate(k) \ {u} /\ u \in PastGate(k) /\ PastGate(k) \subseteq Updates
        BY <1>p, <1>1 DEF IInv, TypeOK, PastGate
      <3>2. /\ Cardinality(PastGate(k)) \in Nat
            /\ Cardinality(PastGate(k)') = Cardinality(PastGate(k)) - 1
        BY <3>1, SmallerSet, OneLess
      <3>3. IsFiniteSet(InWindow(rolled[k]))
        BY <1>0, WindowFinite DEF IInv, FiniteHistories
      <3>4. InWindow(rolled'[k]) \subseteq InWindow(rolled[k]) \cup {ThisAttempt}
        BY <1>3 DEF InWindow
      <3>5. /\ Cardinality(InWindow(rolled'[k])) \in Nat /\ Cardinality(InWindow(rolled[k])) \in Nat
            /\ Cardinality(InWindow(rolled'[k])) <= Cardinality(InWindow(rolled[k])) + 1
        BY <3>3, <3>4, OneMore
      <3>6. Cardinality(InWindow(rolled[k])) + Cardinality(PastGate(k))
              <= Limit - 1 + Cardinality(Updates)
        BY <1>0 DEF IInv, OvershootBudget
      <3>7. Cardinality(Updates) \in Nat
        BY FS_CardinalityType
      <3> QED
        BY <2>2, <3>2, <3>5, <3>6, <3>7
    <2> QED
      BY <2>1, <2>2
  <1> QED
    BY <1>2, <1>4, <1>5, <1>6, <1>7 DEF IInv

\* An overridden update only adds to what the breaker remembers.
LEMMA OverriddenRollsBackStep ==
    ASSUME IInv, NEW k \in UpdateKeys, OverriddenRollsBack(k)
    PROVE  IInv'
  <1> USE BreakerAssumption
  <1>0. k \in BreakerKeys /\ Check(k)
    BY DEF OverriddenRollsBack, BreakerKeys
  <1>1. now' = now /\ updating' = updating /\ admitted' = admitted /\ rolled' = rolled
    BY DEF OverriddenRollsBack
  <1>2. TypeOK'
    BY <1>0, <1>1, CheckRecords DEF IInv, TypeOK
  <1>3. FiniteHistories'
    BY <1>0, <1>1, CheckRecords DEF IInv, FiniteHistories
  <1>4. Remembered'
    <2> SUFFICES ASSUME Enabled
                 PROVE  /\ \A j \in Targets : InWindow(admitted[j]) \subseteq history'[j]
                        /\ \A j \in UpdateKeys : InWindow(rolled[j]) \subseteq history'[j]
                        /\ \A j \in BreakerKeys : history'[j] \subseteq asked'[j]
      BY <1>1 DEF Remembered, InWindow
    <2>1. \A j \in Targets : InWindow(admitted[j]) \subseteq history'[j]
      BY <1>0, CheckRecords DEF IInv, Remembered, BreakerKeys
    <2>2. InWindow(rolled[k]) \subseteq history'[k]
      <3>1. InWindow(rolled[k]) \subseteq InWindow(history[k])
        BY DEF IInv, Remembered, InWindow
      <3> QED
        BY <1>0, <3>1, CheckRecords
    <2>3. \A j \in UpdateKeys \ {k} : InWindow(rolled[j]) \subseteq history'[j]
      BY <1>0, CheckRecords DEF IInv, Remembered, BreakerKeys
    <2> QED
      BY <1>0, <2>1, <2>2, <2>3, CheckRecords
  <1>5. FewerThanLimitAdmitted'
    BY <1>1 DEF IInv, FewerThanLimitAdmitted, InWindow
  <1>6. OvershootBudget'
    BY <1>1 DEF IInv, OvershootBudget, InWindow, PastGate
  <1> QED
    BY <1>2, <1>3, <1>4, <1>5, <1>6 DEF IInv

\* An update that ends without rolling back only frees budget.
LEMMA UpdateEndsStep ==
    ASSUME IInv, NEW u \in Updates, UpdateEnds(u)
    PROVE  IInv'
  <1> USE BreakerAssumption
  <1>1. /\ now' = now /\ history' = history /\ attempts' = attempts
        /\ asked' = asked /\ admitted' = admitted /\ rolled' = rolled
        /\ updating' = [updating EXCEPT ![u] = NotUpdating]
    BY DEF UpdateEnds
  <1>2. TypeOK'
    BY <1>1 DEF IInv, TypeOK
  <1>3. FiniteHistories'
    BY <1>1 DEF IInv, FiniteHistories
  <1>4. Remembered' /\ FewerThanLimitAdmitted'
    BY <1>1 DEF IInv, Remembered, FewerThanLimitAdmitted, InWindow
  <1>5. OvershootBudget'
    <2> SUFFICES ASSUME Enabled, NEW j \in UpdateKeys
                 PROVE  Cardinality(InWindow(rolled[j])) + Cardinality(PastGate(j)')
                            <= Limit - 1 + Cardinality(Updates)
      BY <1>1 DEF OvershootBudget, InWindow
    <2>1. PastGate(j)' \subseteq PastGate(j) /\ PastGate(j) \subseteq Updates
      BY <1>1 DEF IInv, TypeOK, PastGate
    <2>2. /\ Cardinality(PastGate(j)') \in Nat /\ Cardinality(PastGate(j)) \in Nat
          /\ Cardinality(PastGate(j)') <= Cardinality(PastGate(j))
      BY <2>1, SmallerSet
    <2>3. Cardinality(InWindow(rolled[j])) \in Nat /\ Cardinality(Updates) \in Nat
      BY WindowFinite, FS_CardinalityType DEF IInv, FiniteHistories
    <2>4. Cardinality(InWindow(rolled[j])) + Cardinality(PastGate(j))
            <= Limit - 1 + Cardinality(Updates)
      BY DEF IInv, OvershootBudget
    <2> QED
      BY <2>2, <2>3, <2>4
  <1> QED
    BY <1>2, <1>3, <1>4, <1>5 DEF IInv

\* When time passes a window can only lose attempts.
LEMMA TickStep ==
    ASSUME IInv, Tick
    PROVE  IInv'
  <1> USE BreakerAssumption
  <1>1. /\ now \in Nat /\ now' = now + 1 /\ now' \in 0 .. MaxNow
        /\ history' = history /\ updating' = updating /\ attempts' = attempts
        /\ asked' = asked /\ admitted' = admitted /\ rolled' = rolled
    BY DEF IInv, TypeOK, Tick
  <1>2. TypeOK'
    BY <1>1 DEF IInv, TypeOK
  <1>3. FiniteHistories'
    BY <1>1 DEF IInv, FiniteHistories
  <1> DEFINE later(A) == {a \in A : a.t + WindowMs >= now + 1}
  <1>4. \A A \in SUBSET Attempt : later(A) \subseteq InWindow(A)
    BY <1>1 DEF InWindow, Attempt
  <1>5. /\ \A k \in Targets : admitted[k] \in SUBSET Attempt /\ IsFiniteSet(admitted[k])
        /\ \A k \in UpdateKeys : rolled[k] \in SUBSET Attempt /\ IsFiniteSet(rolled[k])
    BY DEF IInv, TypeOK, FiniteHistories
  <1>6. /\ \A k \in Targets : InWindow(admitted[k])' = later(admitted[k])
        /\ \A k \in UpdateKeys : InWindow(rolled[k])' = later(rolled[k])
    BY <1>1 DEF InWindow
  <1> HIDE DEF later
  <1>7. Remembered'
    <2>1. Enabled => /\ \A k \in Targets : InWindow(admitted[k])' \subseteq history[k]
                     /\ \A k \in UpdateKeys : InWindow(rolled[k])' \subseteq history[k]
                     /\ \A k \in BreakerKeys : history[k] \subseteq asked[k]
      BY <1>4, <1>5, <1>6 DEF IInv, Remembered
    <2> QED
      BY <1>1, <2>1 DEF Remembered
  <1>8. FewerThanLimitAdmitted'
    <2> SUFFICES ASSUME Enabled, NEW k \in Targets
                 PROVE  Cardinality(InWindow(admitted[k])') < Limit
      BY <1>1 DEF FewerThanLimitAdmitted
    <2>1. IsFiniteSet(InWindow(admitted[k])) /\ InWindow(admitted[k])' \subseteq InWindow(admitted[k])
      BY <1>4, <1>5, <1>6, WindowFinite
    <2>2. Cardinality(InWindow(admitted[k])) < Limit
      BY DEF IInv, FewerThanLimitAdmitted
    <2> QED
      BY <2>1, <2>2, SmallerSet
  <1>9. OvershootBudget'
    <2> SUFFICES ASSUME Enabled, NEW k \in UpdateKeys
                 PROVE  Cardinality(InWindow(rolled[k])') + Cardinality(PastGate(k))
                            <= Limit - 1 + Cardinality(Updates)
      BY <1>1 DEF OvershootBudget, PastGate
    <2>1. IsFiniteSet(InWindow(rolled[k])) /\ InWindow(rolled[k])' \subseteq InWindow(rolled[k])
      BY <1>4, <1>5, <1>6, WindowFinite
    <2>2. PastGate(k) \subseteq Updates
      BY DEF PastGate
    <2>3. Cardinality(PastGate(k)) \in Nat /\ Cardinality(Updates) \in Nat
      BY <2>2, SmallerSet
    <2>4. Cardinality(InWindow(rolled[k])) + Cardinality(PastGate(k))
            <= Limit - 1 + Cardinality(Updates)
      BY DEF IInv, OvershootBudget
    <2>5. /\ Cardinality(InWindow(rolled[k])') \in Nat /\ Cardinality(InWindow(rolled[k])) \in Nat
          /\ Cardinality(InWindow(rolled[k])') <= Cardinality(InWindow(rolled[k]))
      BY <2>1, SmallerSet
    <2> QED
      BY <2>3, <2>4, <2>5
  <1> QED
    BY <1>2, <1>3, <1>7, <1>8, <1>9 DEF IInv

\* A restart forgets everything, what was admitted before it included.
LEMMA RestartStep ==
    ASSUME IInv, Restart
    PROVE  IInv'
  <1> USE BreakerAssumption
  <1>1. TypeOK'
    BY DEF IInv, TypeOK, Restart
  <1>2. FiniteHistories'
    BY FS_EmptySet DEF Restart, FiniteHistories, BreakerKeys
  <1>3. Remembered'
    BY DEF Restart, Remembered, InWindow, BreakerKeys
  <1>4. FewerThanLimitAdmitted'
    <2>1. \A k \in Targets : InWindow(admitted[k])' = {}
      BY DEF Restart, InWindow
    <2> QED
      BY <2>1, FS_EmptySet DEF FewerThanLimitAdmitted
  <1>5. OvershootBudget'
    <2> SUFFICES ASSUME NEW k \in UpdateKeys
                 PROVE  Cardinality(InWindow(rolled[k])') + Cardinality(PastGate(k)')
                            <= Limit - 1 + Cardinality(Updates)
      BY DEF OvershootBudget
    <2>1. InWindow(rolled[k])' = {} /\ PastGate(k)' = {}
      BY DEF Restart, InWindow, PastGate
    <2>2. Cardinality(Updates) \in Nat
      BY FS_CardinalityType
    <2>3. Cardinality({}) = 0
      BY FS_EmptySet
    <2> QED
      BY <2>1, <2>2, <2>3
  <1> QED
    BY <1>1, <1>2, <1>3, <1>4, <1>5 DEF IInv

----------------------------------------------------------------------------
(* The invariant and what follows from it *)

\* Every step of the breaker, and a step that changes nothing, keeps IInv.
LEMMA NextIInv == IInv /\ [Next]_vars => IInv'
  <1> SUFFICES ASSUME IInv, [Next]_vars PROVE IInv'
    OBVIOUS
  <1>1. CASE \E k \in Targets : RollbackVerb(k)
    BY <1>1, RollbackVerbStep
  <1>2. CASE \E u \in Updates, k \in UpdateKeys : UpdateBegin(u, k)
    BY <1>2, UpdateBeginStep
  <1>3. CASE \E u \in Updates : UpdateRollsBack(u) \/ UpdateEnds(u)
    BY <1>3, UpdateRollsBackStep, UpdateEndsStep
  <1>4. CASE \E k \in UpdateKeys : OverriddenRollsBack(k)
    BY <1>4, OverriddenRollsBackStep
  <1>5. CASE Tick
    BY <1>5, TickStep
  <1>6. CASE Restart
    BY <1>6, RestartStep
  <1>7. CASE UNCHANGED vars
    BY <1>7 DEF vars, IInv, TypeOK, FiniteHistories, Remembered, FewerThanLimitAdmitted,
                OvershootBudget, InWindow, PastGate
  <1> QED
    BY <1>1, <1>2, <1>3, <1>4, <1>5, <1>6, <1>7 DEF Next

\* IInv holds in every reachable state of rollbackBreaker.ts and its callers.
THEOREM Invariance == Spec => []IInv
  BY InitIInv, NextIInv, PTL DEF Spec

\* The breaker's map and the calls in flight always have their types.
THEOREM TypeCorrect == Spec => []TypeOK
  <1>1. IInv => TypeOK
    BY DEF IInv
  <1> QED
    BY <1>1, Invariance, PTL

\* createRollbackBreaker.check lets fewer than limit rollbacks of one target
\* through in any window, for every limit, window and interleaving of callers.
THEOREM AdmissionBound == Spec => []FewerThanLimitAdmitted
  <1>1. IInv => FewerThanLimitAdmitted
    BY DEF IInv
  <1> QED
    BY <1>1, Invariance, PTL

\* compose_update's peek-then-check lets at most limit - 1 rollbacks of one
\* service through in any window, plus one for each update in flight together.
THEOREM OvershootBound == Spec => []ConcurrentUpdatesOvershoot
  <1>1. IInv => ConcurrentUpdatesOvershoot
    <2> SUFFICES ASSUME IInv, Enabled, NEW k \in UpdateKeys
                 PROVE  Cardinality(InWindow(rolled[k])) <= Limit - 1 + Cardinality(Updates)
      BY DEF ConcurrentUpdatesOvershoot
    <2> USE BreakerAssumption
    <2>1. PastGate(k) \subseteq Updates
      BY DEF PastGate
    <2>2. Cardinality(PastGate(k)) \in Nat /\ Cardinality(Updates) \in Nat
      BY <2>1, SmallerSet
    <2>3. Cardinality(InWindow(rolled[k])) \in Nat
      BY WindowFinite DEF IInv, FiniteHistories
    <2>4. Cardinality(InWindow(rolled[k])) + Cardinality(PastGate(k))
            <= Limit - 1 + Cardinality(Updates)
      BY DEF IInv, OvershootBudget
    <2> QED
      BY <2>2, <2>3, <2>4
  <1> QED
    BY <1>1, Invariance, PTL

\* After a quiet window check does not trip on a target, whatever its history.
THEOREM Forgiveness == Spec => []QuietTargetIsForgiven
  <1>1. IInv => QuietTargetIsForgiven
    <2> SUFFICES ASSUME IInv, NEW k \in Targets, Limit > 1, Enabled,
                        \A a \in asked[k] : a.t + WindowMs < now
                 PROVE  ~(Cardinality(InWindow(Recorded(k))) >= Limit)
      BY DEF QuietTargetIsForgiven, Tripped
    <2> USE BreakerAssumption
    <2>1. history[k] \subseteq asked[k] /\ asked[k] \subseteq Attempt /\ now \in Nat
      BY DEF IInv, TypeOK, Remembered, BreakerKeys
    <2>2. InWindow(history[k]) = {}
      BY <2>1 DEF InWindow, Attempt
    <2>3. InWindow(Recorded(k)) \subseteq {} \cup {ThisAttempt}
      BY <2>2 DEF InWindow, Recorded
    <2>4. IsFiniteSet({}) /\ Cardinality({}) = 0
      BY FS_EmptySet
    <2>5. /\ Cardinality(InWindow(Recorded(k))) \in Nat
          /\ Cardinality(InWindow(Recorded(k))) <= Cardinality({}) + 1
      BY <2>3, <2>4, OneMore
    <2> QED
      BY <2>4, <2>5
  <1> QED
    BY <1>1, Invariance, PTL
----------------------------------------------------------------------------
(* Guest operations: what retention keeps *)

\* A set of numbers that is not empty has a least one.
LEMMA LeastNumber ==
    ASSUME NEW T, T \subseteq Nat, T # {}
    PROVE  \E m \in T : \A k \in T : m <= k
  <1> DEFINE R == OpToRel(<, Nat)
  <1>1. PICK m \in T : \A k \in T : ~(<<k, m>> \in R)
    <2>1. IsWellFoundedOn(R, Nat)
      BY NatLessThanWellFounded
    <2> HIDE DEF R
    <2> QED
      BY <2>1, WFMin
  <1>2. \A k \in T : ~(k < m)
    BY <1>1 DEF OpToRel
  <1> QED
    BY <1>2

\* Of the elements of a finite set, numbered without repetition, at most n have fewer than n
\* above them.
LEMMA FewOnTop ==
    ASSUME NEW S, IsFiniteSet(S), NEW f \in [S -> Nat], \A p, q \in S : f[p] = f[q] => p = q,
           NEW n \in Nat, NEW Top \in SUBSET S,
           \A p \in Top : Cardinality({q \in S : f[q] > f[p]}) < n
    PROVE  IsFiniteSet(Top) /\ Cardinality(Top) \in Nat /\ Cardinality(Top) <= n
  <1>1. IsFiniteSet(Top) /\ Cardinality(Top) \in Nat
    BY SmallerSet
  <1>2. CASE Top = {}
    <2>1. Cardinality({}) = 0
      BY FS_EmptySet
    <2> QED
      BY <1>1, <1>2, <2>1
  <1>3. CASE Top # {}
    <2> DEFINE numbers == {f[p] : p \in Top}
    <2>1. numbers \subseteq Nat /\ numbers # {}
      BY <1>3
    <2>2. PICK k \in numbers : \A j \in numbers : k <= j
      <3> HIDE DEF numbers
      <3> QED
        BY <2>1, LeastNumber
    <2>3. PICK m \in Top : \A p \in Top : f[m] <= f[p]
      BY <2>2
    <2> DEFINE above == {q \in S : f[q] > f[m]}
    <2>4. m \in S /\ Cardinality(above) < n
      BY <2>3
    <2>5. Top \subseteq above \cup {m}
      <3>1. ASSUME NEW p \in Top, p # m PROVE f[p] > f[m]
        <4>1. p \in S /\ f[p] # f[m] /\ f[p] \in Nat /\ f[m] \in Nat /\ f[m] <= f[p]
          BY <2>3, <2>4, <3>1
        <4> QED
          BY <4>1
      <3> QED
        BY <3>1
    <2>6. IsFiniteSet(above)
      BY SmallerSet
    <2> HIDE DEF above
    <2>7. Cardinality(Top) <= Cardinality(above) + 1 /\ Cardinality(above) \in Nat
      BY <2>5, <2>6, OneMore
    <2> QED
      BY <1>1, <2>4, <2>7
  <1> QED
    BY <1>2, <1>3

\* What planSnapshotEviction does not remove, and what planArchiveEviction does not.
LEMMA SnapshotsKept ==
    ASSUME NEW points \in SUBSET Point, IsFiniteSet(points), NEW cap \in Nat,
           \A s, t \in Owned(points) : s.name = t.name => s = t
    PROVE  LET kept == Owned(points) \ PlanSnapshotEviction(points, cap)
           IN IsFiniteSet(kept) /\ Cardinality(kept) \in Nat /\ Cardinality(kept) <= Allowed(cap)
  <1> DEFINE S == Owned(points)
             f == [p \in S |-> p.name]
             Top == {p \in S : Cardinality({q \in S : f[q] > f[p]}) < Allowed(cap)}
  <1>1. IsFiniteSet(S) /\ S \subseteq Point
    BY SmallerSet DEF Owned
  <1>2. f \in [S -> Nat] /\ \A p, q \in S : f[p] = f[q] => p = q
    BY <1>1 DEF Point
  <1>3. Allowed(cap) \in Nat
    BY DEF Allowed
  <1>4. S \ PlanSnapshotEviction(points, cap) = Top
    <2>1. ASSUME NEW p \in S PROVE {q \in S : f[q] > f[p]} = {q \in S : q.name > p.name}
      OBVIOUS
    <2>2. S \ PlanSnapshotEviction(points, cap)
            = {p \in S : Cardinality({q \in S : q.name > p.name}) < Allowed(cap)}
      BY DEF PlanSnapshotEviction, NewestSnapshots
    <2> QED
      BY <2>1, <2>2
  <1>5. Top \in SUBSET S /\ \A p \in Top : Cardinality({q \in S : f[q] > f[p]}) < Allowed(cap)
    OBVIOUS
  <1> HIDE DEF f, S, Top
  <1>6. IsFiniteSet(Top) /\ Cardinality(Top) \in Nat /\ Cardinality(Top) <= Allowed(cap)
    BY <1>1, <1>2, <1>3, <1>5, FewOnTop
  <1> QED
    BY <1>4, <1>6 DEF S

LEMMA ArchivesKept ==
    ASSUME NEW points \in SUBSET Point, IsFiniteSet(points), NEW cap \in Nat,
           \A a, b \in points : a.at = b.at => a = b
    PROVE  LET kept == Owned(points) \ PlanArchiveEviction(points, cap)
           IN IsFiniteSet(kept) /\ Cardinality(kept) \in Nat /\ Cardinality(kept) <= Allowed(cap)
  <1> DEFINE S == Owned(points)
             f == [p \in S |-> p.at]
             Top == {p \in S : Cardinality({q \in S : f[q] > f[p]}) < Allowed(cap)}
  <1>1. IsFiniteSet(S) /\ S \subseteq Point
    BY SmallerSet DEF Owned
  <1>2. f \in [S -> Nat] /\ \A p, q \in S : f[p] = f[q] => p = q
    BY <1>1 DEF Point, Owned
  <1>3. Allowed(cap) \in Nat
    BY DEF Allowed
  <1>4. S \ PlanArchiveEviction(points, cap) = Top
    <2>1. ASSUME NEW p \in S PROVE {q \in S : f[q] > f[p]} = {q \in S : q.at > p.at}
      OBVIOUS
    <2>2. S \ PlanArchiveEviction(points, cap)
            = {p \in S : Cardinality({q \in S : q.at > p.at}) < Allowed(cap)}
      BY DEF PlanArchiveEviction, NewestArchives
    <2> QED
      BY <2>1, <2>2
  <1>5. Top \in SUBSET S /\ \A p \in Top : Cardinality({q \in S : f[q] > f[p]}) < Allowed(cap)
    OBVIOUS
  <1> HIDE DEF f, S, Top
  <1>6. IsFiniteSet(Top) /\ Cardinality(Top) \in Nat /\ Cardinality(Top) <= Allowed(cap)
    BY <1>1, <1>2, <1>3, <1>5, FewOnTop
  <1> QED
    BY <1>4, <1>6 DEF S

----------------------------------------------------------------------------
(* Guest operations: a step of one call *)

\* The calls that are alone have the node for themselves: while another call acts, there is none.
LEMMA NobodyElseIsAlone ==
    ASSUME OpsIInv, NEW c \in CallIds, NEW d \in CallIds \ {c},
           InFlight(c) \/ vzdump[c] = "running" \/ \E t \in tasks : t[1] = c
    PROVE  ~call[d].alone
  BY DEF OpsIInv, AloneFits, NodeIsOwn

\* No step but snapshot_delete's leaves a snapshot without a newer one that had one.
NewerStays ==
    ~dropped' => /\ ~dropped
                 /\ \A p \in Point : NewerIn(snapshots, p) => NewerIn(snapshots', p)

\* What must hold of a call for the others to keep what they know.
LEMMA OthersFit ==
    ASSUME OpsIInv, NEW c \in CallIds, InFlight(c) \/ vzdump[c] = "running" \/ \E t \in tasks : t[1] = c,
           \A d \in CallIds \ {c} : call'[d] = call[d] /\ vzdump'[d] = vzdump[d],
           stamp' \in Nat, stamp' >= stamp, NewerStays
    PROVE  \A d \in CallIds \ {c} : CallFits(d)' /\ AloneFits(d)'
  <1> SUFFICES ASSUME NEW d \in CallIds \ {c}
               PROVE  CallFits(d)' /\ AloneFits(d)'
    OBVIOUS
  <1>1. call'[d] = call[d] /\ vzdump'[d] = vzdump[d]
    OBVIOUS
  <1>2. call[d] \in Calling /\ CallFits(d) /\ stamp \in Nat
    BY DEF OpsIInv, OpsTypeOK, NodeTypeOK
  <1>3. call[d].todo \subseteq Point
    BY <1>2 DEF Calling
  <1>4. \A p \in call[d].todo : p.mcp /\ p.at < stamp'
    <2>1. ASSUME NEW p \in call[d].todo PROVE p.mcp /\ p.at < stamp'
      <3>1. p.at \in Nat /\ p.at < stamp /\ p.mcp
        BY <1>2, <1>3 DEF Point, CallFits
      <3> QED
        BY <1>2, <3>1
    <2> QED
      BY <2>1
  <1>5. At(d, "snapshot_create", "evict") /\ ~dropped' =>
            \A s \in call[d].todo : NewerIn(snapshots', s)
    BY <1>2, <1>3 DEF NewerStays, CallFits
  <1>6. CallFits(d)'
    BY <1>1, <1>2, <1>4, <1>5 DEF CallFits, InFlight, At
  <1>7. ~call'[d].alone
    BY <1>1, NobodyElseIsAlone
  <1> QED
    BY <1>6, <1>7 DEF AloneFits

\* A part of a small set is small.
LEMMA FewerIn ==
    ASSUME NEW S, IsFiniteSet(S), NEW T \in SUBSET S, NEW n \in Nat, Cardinality(S) <= n
    PROVE  Cardinality(T) <= n
  <1>1. /\ IsFiniteSet(T) /\ Cardinality(T) <= Cardinality(S)
        /\ Cardinality(T) \in Nat /\ Cardinality(S) \in Nat
    BY FS_Subset, FS_CardinalityType
  <1> QED
    BY <1>1

\* A step that deletes nothing and queues no deletion.
LEMMA DeletionsStay ==
    ASSUME OpsIInv, NEW c \in CallIds, call[c].alone, call'[c].early = call[c].early,
           archives \ Deleting \subseteq archives', \A t \in tasks' : t \in tasks \/ t[2] # "delete"
    PROVE  DeletionsFit(c)'
  <1>1. Deleting' \subseteq Deleting
    BY DEF Deleting
  <1>2. DeletionsFit(c)
    BY DEF OpsIInv, AloneFits
  <1> HIDE DEF Deleting
  <1> QED
    BY <1>1, <1>2 DEF DeletionsFit, NewerIn

\* What each stage of a call claims of it, once the call is r.
Own(c, r) ==
    /\ <<r.op, r.stage>> \in Course
    /\ r.stage = "early" => r.early
    /\ At(c, "snapshot_create", "evict")' /\ ~dropped' => \A s \in r.todo : NewerIn(snapshots', s)
    /\ r.op = "guest_backup" /\ r.stage \in {"relist", "evict"} => vzdump'[c] = "ok"
    /\ r.alone /\ r.op = "snapshot_create" => CreateFits(c)'
    /\ r.alone /\ r.op = "guest_backup" => BackupFits(c)'
    /\ r.alone /\ r.op \in Restores /\ Blocks(c) => RestoreFits(c)'

\* One await of a handler.
LEMMA HandlerStep ==
    ASSUME OpsIInv, NEW c \in CallIds, InFlight(c), NEW r \in Calling,
           call' = [call EXCEPT ![c] = r], r.alone = call[c].alone, r.op = call[c].op,
           r.early = call[c].early, r.stage # "idle", r.alone => DeletionsFit(c)',
           call[c].stage = "evict" => r.stage \in Over \cup {"evict"} /\ vzdump'[c] = vzdump[c],
           \A p \in r.todo : p.mcp /\ p.at < stamp',
           NodeTypeOK', backend' = backend, PointsDiffer', stamp' >= stamp, NewerStays,
           \A d \in CallIds \ {c} : vzdump'[d] = vzdump[d],
           \A t \in tasks' : t \in tasks \/ (t[1] = c /\ TaskFits(t)'),
           r.stage \notin Over => Own(c, r)
    PROVE  OpsIInv'
  <1>1. call \in [CallIds -> Calling] /\ call'[c] = r
        /\ \A d \in CallIds \ {c} : call'[d] = call[d]
    BY DEF OpsIInv, OpsTypeOK
  <1>2. OpsTypeOK'
    BY <1>1 DEF OpsTypeOK
  <1>3. stamp' \in Nat
    BY DEF NodeTypeOK
  <1>4. \A d \in CallIds \ {c} : CallFits(d)' /\ AloneFits(d)'
    BY <1>1, <1>3, OthersFit
  <1>5. InFlight(c)' => Own(c, r)
    BY <1>1 DEF InFlight
  <1>6. CallFits(c)'
    BY <1>1, <1>5 DEF CallFits, Own, At, InFlight, Over
  <1>7. call[c].alone => NodeIsOwn(c)'
    BY <1>1 DEF OpsIInv, AloneFits, NodeIsOwn, InFlight
  <1>8. Blocks(c)' <=> Blocks(c)
    BY <1>1 DEF Blocks
  <1>9. AloneFits(c)'
    BY <1>1, <1>5, <1>7, <1>8 DEF AloneFits, Own
  <1>10. ASSUME NEW t \in tasks', t \in tasks PROVE TaskFits(t)'
    <2>1. TaskFits(t) /\ t[1] \in CallIds /\ t[3] \in Point /\ stamp \in Nat
      BY <1>10 DEF OpsIInv, OpsTypeOK, NodeTypeOK
    <2>2. t[3].at < stamp => t[3].at < stamp'
      BY <1>3, <2>1 DEF Point
    <2>3. CASE t[1] = c
      BY <1>1, <2>1, <2>2, <2>3 DEF TaskFits, InFlight
    <2>4. CASE t[1] # c
      BY <1>1, <2>1, <2>2, <2>4 DEF TaskFits
    <2> QED
      BY <2>3, <2>4
  <1> QED
    BY <1>2, <1>4, <1>6, <1>9, <1>10 DEF OpsIInv

\* A call that goes on to another stage and keeps the rest.
LEMMA StageStep ==
    ASSUME OpsIInv, NEW c \in CallIds, InFlight(c),
           NEW stage \in {"create", "poll", "relist", "evict", "restore", "start", "wait"} \cup Over,
           call' = [call EXCEPT ![c].stage = stage],
           NodeTypeOK', backend' = backend, PointsDiffer', stamp' >= stamp, NewerStays,
           \A d \in CallIds \ {c} : vzdump'[d] = vzdump[d],
           archives' = archives, \A t \in tasks' : t \in tasks \/ (t[1] = c /\ t[2] # "delete"),
           call[c].stage = "evict" => stage \in Over /\ vzdump'[c] = vzdump[c],
           stage \notin Over => Own(c, [call[c] EXCEPT !.stage = stage])
    PROVE  OpsIInv'
  <1>1. call[c] \in Calling /\ CallFits(c) /\ stamp \in Nat /\ stamp' \in Nat
    BY DEF OpsIInv, OpsTypeOK, NodeTypeOK
  <1> DEFINE r == [call[c] EXCEPT !.stage = stage]
  <1>2. r \in Calling /\ r.alone = call[c].alone /\ r.op = call[c].op /\ r.todo = call[c].todo
        /\ r.stage = stage /\ r.early = call[c].early
    BY <1>1 DEF Calling
  <1>3. call' = [call EXCEPT ![c] = r] /\ (r.stage \notin Over => Own(c, r)) /\ r.stage # "idle"
    BY <1>2 DEF Over
  <1> HIDE DEF r
  <1>4. \A p \in r.todo : p.mcp /\ p.at < stamp'
    <2>1. ASSUME NEW p \in r.todo PROVE p.mcp /\ p.at < stamp'
      <3>1. p.at \in Nat /\ p.at < stamp /\ p.mcp
        BY <1>1, <1>2 DEF Calling, Point, CallFits
      <3> QED
        BY <1>1, <3>1
    <2> QED
      BY <2>1
  <1>5. call'[c] = r
    BY <1>3 DEF OpsIInv, OpsTypeOK
  <1>6. r.alone => DeletionsFit(c)'
    BY <1>2, <1>5, DeletionsStay
  <1>7. \A t \in tasks' : t \in tasks \/ (t[1] = c /\ TaskFits(t)')
    BY DEF TaskFits
  <1> QED
    BY <1>2, <1>3, <1>4, <1>6, <1>7, HandlerStep

\* Steps that leave the points as they are.
LEMMA PointsStay ==
    ASSUME OpsIInv, UNCHANGED <<snapshots, archives, stamp, dropped>>
    PROVE  PointsDiffer' /\ NewerStays /\ stamp' >= stamp
  <1>1. stamp \in Nat
    BY DEF OpsIInv, OpsTypeOK, NodeTypeOK
  <1> QED
    BY <1>1 DEF OpsIInv, PointsDiffer, NewerStays, Owned, NewerIn

LEMMA ChargeIsTyped ==
    ASSUME OpsIInv, NEW bad, Charge(bad)
    PROVE  events' \in Nat
  <1>1. events \in Nat
    BY DEF OpsIInv, OpsTypeOK, NodeTypeOK
  <1>2. CASE bad
    BY <1>1, <1>2 DEF Charge
  <1>3. CASE ~bad
    BY <1>1, <1>3 DEF Charge
  <1> QED
    BY <1>2, <1>3

----------------------------------------------------------------------------
(* Guest operations: snapshots *)

\* A snapshot is made when its name is free; it is newer than all that were to be removed.
LEMMA SnapshotTakenStep ==
    ASSUME OpsIInv, NEW c \in CallIds, NEW outcome \in Outcomes, SnapshotTaken(c, outcome)
    PROVE  OpsIInv'
  <1> DEFINE s == [at |-> stamp, name |-> call[c].name, mcp |-> TRUE]
             taken == \E t \in snapshots : t.mcp /\ t.name = s.name
  <1>1. /\ At(c, "snapshot_create", "create") /\ Charge(outcome # "done")
        /\ IF taken \/ outcome = "failed"
           THEN UNCHANGED <<snapshots, stamp>> /\ Goes(c, "failed")
           ELSE /\ snapshots' = snapshots \cup {s} /\ stamp' = stamp + 1
                /\ Goes(c, IF outcome = "done" THEN "evict" ELSE "failed")
        /\ UNCHANGED <<backend, power, disk, archives, vzdump, tasks, dropped, clock>>
    BY DEF SnapshotTaken
  <1>2. call[c] \in Calling /\ CallFits(c) /\ AloneFits(c) /\ InFlight(c) /\ NodeTypeOK /\ PointsDiffer
    BY <1>1 DEF OpsIInv, OpsTypeOK, At, InFlight, Over
  <1>3. events' \in Nat
    BY <1>1, ChargeIsTyped
  <1>4. CASE taken \/ outcome = "failed"
    <2>1. UNCHANGED <<snapshots, stamp>> /\ Goes(c, "failed")
      BY <1>1, <1>4
    <2>2. PointsDiffer' /\ NewerStays /\ stamp' >= stamp
      BY <1>1, <2>1, PointsStay
    <2>3. NodeTypeOK'
      BY <1>1, <1>2, <1>3, <2>1 DEF NodeTypeOK
    <2> QED
      BY <1>1, <1>2, <2>1, <2>2, <2>3, StageStep DEF Goes, Over
  <1>5. CASE ~(taken \/ outcome = "failed")
    <2>1. /\ snapshots' = snapshots \cup {s} /\ stamp' = stamp + 1
          /\ Goes(c, IF outcome = "done" THEN "evict" ELSE "failed")
      BY <1>1, <1>5
    <2>2. /\ stamp \in Nat /\ snapshots \subseteq Point /\ IsFiniteSet(snapshots)
          /\ call[c].name \in Nat /\ call[c].todo \subseteq Point
      BY <1>2 DEF NodeTypeOK, Calling
    <2>3. s \in Point /\ s.at = stamp /\ s.mcp /\ s.name = call[c].name
      BY <2>2 DEF Point
    <2>4. \A t \in snapshots : t.mcp => t.name # s.name
      BY <1>5
    <2> HIDE DEF s, taken
    <2>5. NodeTypeOK'
      <3>1. IsFiniteSet(snapshots') /\ snapshots' \subseteq Point
        BY <2>1, <2>2, <2>3, FS_AddElement
      <3> QED
        BY <1>1, <1>2, <1>3, <2>1, <2>2, <3>1 DEF NodeTypeOK
    <2>6. \A p \in snapshots \cup archives : p.at \in Nat /\ p.at < stamp /\ p.at < stamp + 1
      <3>1. ASSUME NEW p \in snapshots \cup archives
            PROVE  p.at \in Nat /\ p.at < stamp /\ p.at < stamp + 1
        <4>1. p.at \in Nat /\ p.at < stamp
          BY <1>2 DEF PointsDiffer, NodeTypeOK, Point
        <4> QED
          BY <2>2, <4>1
      <3> QED
        BY <3>1
    <2>7. PointsDiffer'
      <3>1. \A p \in snapshots' \cup archives' : p.at < stamp'
        BY <1>1, <2>1, <2>2, <2>3, <2>6
      <3>2. \A t, u \in Owned(snapshots') : t.name = u.name => t = u
        BY <1>2, <2>1, <2>3, <2>4 DEF Owned, PointsDiffer
      <3> QED
        BY <1>1, <1>2, <3>1, <3>2 DEF PointsDiffer
    <2>8. NewerStays /\ stamp' >= stamp
      BY <1>1, <2>1, <2>2 DEF NewerStays, NewerIn
    <2>9. \A p \in call[c].todo : NewerIn(snapshots', p)
      <3>1. s \in snapshots'
        BY <2>1
      <3>2. ASSUME NEW p \in call[c].todo PROVE s.at > p.at
        <4>1. p.at \in Nat /\ p.at < stamp
          BY <1>2, <2>2 DEF CallFits, Point
        <4> QED
          BY <2>2, <2>3, <4>1
      <3> QED
        BY <2>3, <3>1, <3>2 DEF NewerIn
    <2> DEFINE r == [call[c] EXCEPT !.stage = "evict"]
    <2>10. /\ r.op = "snapshot_create" /\ r.stage = "evict" /\ r.todo = call[c].todo
           /\ r.alone = call[c].alone /\ r.clean = call[c].clean
      BY <1>1, <1>2 DEF At, Calling
    <2> HIDE DEF r
    <2>11. ASSUME call' = [call EXCEPT ![c] = r], r.alone, r.clean
           PROVE  /\ r.todo \subseteq snapshots'
                  /\ Cardinality(Owned(snapshots') \ r.todo) <= AtLeastOne(SnapshotCap)
      <3>1. call[c].todo = PlanSnapshotEviction(snapshots, SnapshotCap)
        BY <1>1, <1>2, <2>10, <2>11 DEF AloneFits, CreateFits, At
      <3> DEFINE kept == Owned(snapshots) \ PlanSnapshotEviction(snapshots, SnapshotCap)
      <3>2. /\ IsFiniteSet(kept) /\ Cardinality(kept) \in Nat
            /\ Cardinality(kept) <= Allowed(SnapshotCap)
        BY <1>2, <2>2, SnapshotsKept, GuestOpsAssumption DEF PointsDiffer
      <3>3. r.todo \subseteq snapshots'
        BY <2>1, <2>10, <3>1 DEF PlanSnapshotEviction, Owned
      <3>4. Owned(snapshots') \ r.todo \subseteq kept \cup {s}
        BY <2>1, <2>10, <3>1 DEF Owned
      <3> HIDE DEF kept
      <3>5. Cardinality(Owned(snapshots') \ r.todo) <= Cardinality(kept) + 1
            /\ Cardinality(Owned(snapshots') \ r.todo) \in Nat
        BY <3>2, <3>4, OneMore
      <3>6. Allowed(SnapshotCap) + 1 = AtLeastOne(SnapshotCap) /\ Allowed(SnapshotCap) \in Nat
        BY GuestOpsAssumption DEF Allowed, AtLeastOne
      <3> QED
        BY <3>2, <3>3, <3>5, <3>6
    <2>12. ASSUME call' = [call EXCEPT ![c] = r] PROVE Own(c, r)
      <3>1. call'[c] = r
        BY <2>12 DEF OpsIInv, OpsTypeOK
      <3>2. r.alone => CreateFits(c)'
        BY <2>10, <2>11, <2>12, <3>1 DEF CreateFits
      <3> QED
        BY <2>9, <2>10, <3>1, <3>2 DEF Own, Course, Restores
    <2>13. CASE outcome = "done"
      <3>1. call' = [call EXCEPT ![c].stage = "evict"]
        BY <2>1, <2>13 DEF Goes
      <3>2. Own(c, [call[c] EXCEPT !.stage = "evict"])
        BY <2>12, <3>1 DEF r
      <3> QED
        BY <1>1, <1>2, <2>5, <2>7, <2>8, <3>1, <3>2, StageStep DEF At
    <2>14. CASE outcome # "done"
      <3>1. call' = [call EXCEPT ![c].stage = "failed"]
        BY <2>1, <2>14 DEF Goes
      <3> QED
        BY <1>1, <1>2, <2>5, <2>7, <2>8, <3>1, StageStep DEF Over
    <2> QED
      BY <2>13, <2>14
  <1> QED
    BY <1>4, <1>5

\* What snapshot_create removes is older than a snapshot that stays.
LEMMA SnapshotEvictedStep ==
    ASSUME OpsIInv, NEW c \in CallIds, NEW outcome \in Outcomes, SnapshotEvicted(c, outcome)
    PROVE  OpsIInv'
  <1>1. /\ At(c, "snapshot_create", "evict") /\ Charge(outcome # "done")
        /\ UNCHANGED <<backend, power, disk, archives, vzdump, tasks, stamp, dropped, clock>>
    BY DEF SnapshotEvicted
  <1>2. PICK s \in call[c].todo :
          /\ snapshots' = IF outcome = "failed" THEN snapshots ELSE snapshots \ {s}
          /\ call' = [call EXCEPT ![c].todo = @ \ {s},
                                  ![c].clean = @ /\ outcome = "done" /\ s \in snapshots]
    BY DEF SnapshotEvicted
  <1>3. call[c] \in Calling /\ CallFits(c) /\ AloneFits(c) /\ InFlight(c) /\ NodeTypeOK /\ PointsDiffer
        /\ call \in [CallIds -> Calling]
    BY <1>1 DEF OpsIInv, OpsTypeOK, At, InFlight, Over
  <1>4. /\ events' \in Nat /\ stamp \in Nat
        /\ call[c].op = "snapshot_create" /\ call[c].stage = "evict" /\ call[c].todo \subseteq Point
        /\ snapshots \subseteq Point /\ IsFiniteSet(snapshots) /\ snapshots' \subseteq snapshots
    BY <1>1, <1>2, <1>3, ChargeIsTyped DEF At, NodeTypeOK, Calling
  <1> DEFINE clean == call[c].clean /\ outcome = "done" /\ s \in snapshots
             r == [call[c] EXCEPT !.todo = call[c].todo \ {s}, !.clean = clean]
  <1>5. /\ r \in Calling /\ r.op = "snapshot_create" /\ r.stage = "evict"
        /\ r.todo = call[c].todo \ {s} /\ r.alone = call[c].alone /\ r.clean = clean
        /\ r.early = call[c].early
    BY <1>3, <1>4 DEF Calling
  <1>6. call' = [call EXCEPT ![c] = r] /\ call'[c] = r
    BY <1>2, <1>3
  <1> HIDE DEF r
  <1>7. NodeTypeOK'
    <2>1. IsFiniteSet(snapshots')
      BY <1>4, SmallerSet
    <2> QED
      BY <1>1, <1>3, <1>4, <2>1 DEF NodeTypeOK
  <1>8. PointsDiffer'
    BY <1>1, <1>3, <1>4 DEF PointsDiffer, Owned
  <1>9. NewerStays
    <2> SUFFICES ASSUME ~dropped, NEW p \in Point, NewerIn(snapshots, p)
                 PROVE  NewerIn(snapshots', p)
      BY <1>1 DEF NewerStays
    <2>1. PICK q \in snapshots : q.mcp /\ q.at > p.at
      BY DEF NewerIn
    <2>2. PICK t \in snapshots : t.mcp /\ t.at > s.at
      BY <1>1, <1>3 DEF CallFits, NewerIn
    <2>3. p.at \in Nat /\ q.at \in Nat /\ t.at \in Nat /\ s.at \in Nat
      BY <1>2, <1>4 DEF Point
    <2>4. CASE q = s
      <3>1. t # s /\ t.at > p.at
        BY <2>1, <2>2, <2>3, <2>4
      <3> QED
        BY <1>2, <2>2, <3>1 DEF NewerIn
    <2>5. CASE q # s
      BY <1>2, <2>1, <2>5 DEF NewerIn
    <2> QED
      BY <2>4, <2>5
  <1>10. ~dropped' => \A p \in r.todo : NewerIn(snapshots', p)
    <2>1. ASSUME ~dropped, NEW p \in r.todo PROVE NewerIn(snapshots', p)
      <3>1. p \in Point /\ NewerIn(snapshots, p)
        BY <1>1, <1>3, <1>4, <1>5, <2>1 DEF CallFits
      <3> QED
        BY <1>1, <1>9, <2>1, <3>1 DEF NewerStays
    <2> QED
      BY <1>1, <2>1
  <1>11. ASSUME r.alone, r.clean
         PROVE  /\ r.todo \subseteq snapshots'
                /\ Cardinality(Owned(snapshots') \ r.todo) <= AtLeastOne(SnapshotCap)
    <2>1. s \in snapshots /\ outcome = "done" /\ call[c].clean
      BY <1>5, <1>11
    <2>2. /\ call[c].todo \subseteq snapshots
          /\ Cardinality(Owned(snapshots) \ call[c].todo) <= AtLeastOne(SnapshotCap)
      BY <1>3, <1>4, <1>5, <1>11, <2>1 DEF AloneFits, CreateFits
    <2>3. snapshots' = snapshots \ {s}
      BY <1>2, <2>1
    <2>4. Owned(snapshots') \ r.todo = Owned(snapshots) \ call[c].todo
      BY <1>2, <1>5, <2>3 DEF Owned
    <2> QED
      BY <1>5, <2>2, <2>3, <2>4
  <1>12. Own(c, r)
    <2>1. r.alone => CreateFits(c)'
      BY <1>5, <1>6, <1>11 DEF CreateFits
    <2> QED
      BY <1>5, <1>10, <2>1 DEF Own, Course, Restores
  <1>13. \A p \in r.todo : p.mcp /\ p.at < stamp'
    BY <1>1, <1>3, <1>5 DEF CallFits
  <1>14. stamp' >= stamp
    BY <1>1, <1>4
  <1>15. r.alone => DeletionsFit(c)'
    BY <1>1, <1>5, <1>6, DeletionsStay
  <1> QED
    BY <1>1, <1>3, <1>4, <1>5, <1>6, <1>7, <1>8, <1>9, <1>12, <1>13, <1>14, <1>15, HandlerStep

\* snapshot_delete takes any snapshot of the server, and says so in the history.
LEMMA SnapshotDeletedStep ==
    ASSUME OpsIInv, NEW c \in CallIds, NEW outcome \in Outcomes, SnapshotDeleted(c, outcome)
    PROVE  OpsIInv'
  <1>1. /\ At(c, "snapshot_delete", "create") /\ Charge(outcome # "done")
        /\ snapshots' = IF outcome = "failed" THEN snapshots ELSE snapshots \ {call[c].point}
        /\ dropped' = (dropped \/ (outcome # "failed" /\ call[c].point \in snapshots))
        /\ UNCHANGED <<backend, power, disk, archives, vzdump, tasks, stamp, clock>>
    BY DEF SnapshotDeleted
  <1>2. PICK stage \in Over : call' = [call EXCEPT ![c].stage = stage]
    BY DEF SnapshotDeleted, Goes, Over
  <1>3. InFlight(c) /\ NodeTypeOK /\ PointsDiffer /\ events' \in Nat /\ stamp \in Nat
    BY <1>1, ChargeIsTyped DEF OpsIInv, OpsTypeOK, NodeTypeOK, At, InFlight, Over
  <1>4. snapshots' \subseteq snapshots /\ IsFiniteSet(snapshots')
    BY <1>1, <1>3, SmallerSet DEF NodeTypeOK
  <1>5. dropped' \in BOOLEAN
    BY <1>1, <1>3 DEF NodeTypeOK
  <1>6. NodeTypeOK'
    BY <1>1, <1>3, <1>4, <1>5 DEF NodeTypeOK
  <1>7. PointsDiffer'
    BY <1>1, <1>3, <1>4 DEF PointsDiffer, Owned
  <1>8. ~dropped' => ~dropped /\ snapshots' = snapshots
    BY <1>1
  <1>9. NewerStays /\ stamp' >= stamp
    BY <1>1, <1>3, <1>8 DEF NewerStays
  <1> QED
    BY <1>1, <1>2, <1>3, <1>6, <1>7, <1>9, StageStep DEF Over

\* The report of what was evicted.
LEMMA EvictionsDoneStep ==
    ASSUME OpsIInv, NEW c \in CallIds, EvictionsDone(c)
    PROVE  OpsIInv'
  <1>1. call[c].stage = "evict" /\ Goes(c, "ok") /\ UNCHANGED <<backend, node, dropped, clock, events>>
    BY DEF EvictionsDone
  <1>2. InFlight(c) /\ NodeTypeOK
    BY <1>1 DEF OpsIInv, OpsTypeOK, InFlight, Over
  <1>3. PointsDiffer' /\ NewerStays /\ stamp' >= stamp /\ NodeTypeOK'
    BY <1>1, <1>2, PointsStay DEF node, NodeTypeOK
  <1> QED
    BY <1>1, <1>2, <1>3, StageStep DEF Goes, Over, node

----------------------------------------------------------------------------
(* Guest operations: guest_backup *)

\* An archive is deleted, in either order; the newer one that retention kept stays.
LEMMA ArchiveEvictedStep ==
    ASSUME OpsIInv, NEW c \in CallIds, NEW outcome \in Outcomes, ArchiveEvicted(c, outcome)
    PROVE  OpsIInv'
  <1>1. /\ call[c].op = "guest_backup" /\ call[c].stage \in {"early", "evict"}
        /\ Charge(outcome # "done")
        /\ UNCHANGED <<backend, power, disk, snapshots, vzdump, stamp, dropped, clock>>
    BY DEF ArchiveEvicted
  <1>2. PICK a \in call[c].todo :
          /\ archives' = IF outcome = "failed" \/ backend = "api" THEN archives ELSE archives \ {a}
          /\ tasks' = IF outcome = "failed" \/ backend = "ssh" THEN tasks
                      ELSE tasks \cup {<<c, "delete", a>>}
          /\ call' = [call EXCEPT ![c].todo = @ \ {a},
                                  ![c].clean = @ /\ outcome = "done" /\ (backend = "ssh" => a \in archives)]
    BY DEF ArchiveEvicted
  <1>3. call[c] \in Calling /\ CallFits(c) /\ AloneFits(c) /\ InFlight(c) /\ NodeTypeOK /\ PointsDiffer
        /\ call \in [CallIds -> Calling]
    BY <1>1 DEF OpsIInv, OpsTypeOK, InFlight, Over
  <1>4. /\ events' \in Nat /\ stamp \in Nat /\ call[c].todo \subseteq Point
        /\ archives \subseteq Point /\ IsFiniteSet(archives) /\ archives' \subseteq archives
        /\ backend \in {"api", "ssh"} /\ outcome \in {"done", "failed", "lost"}
    BY <1>1, <1>2, <1>3, ChargeIsTyped DEF NodeTypeOK, Calling, Outcomes
  <1> DEFINE clean == call[c].clean /\ outcome = "done" /\ (backend = "ssh" => a \in archives)
             r == [call[c] EXCEPT !.todo = call[c].todo \ {a}, !.clean = clean]
  <1>5. /\ r \in Calling /\ r.op = "guest_backup" /\ r.stage = call[c].stage
        /\ r.todo = call[c].todo \ {a} /\ r.alone = call[c].alone /\ r.clean = clean
        /\ r.early = call[c].early /\ r.kept = call[c].kept
    BY <1>1, <1>3, <1>4 DEF Calling
  <1>6. call' = [call EXCEPT ![c] = r] /\ call'[c] = r
    BY <1>2, <1>3
  <1> HIDE DEF r
  <1>7. NodeTypeOK'
    <2>1. IsFiniteSet(archives')
      BY <1>4, SmallerSet
    <2>2. tasks' \in SUBSET (CallIds \X {"stop", "start", "restore", "reboot", "delete"} \X Point)
      BY <1>2, <1>3, <1>4 DEF NodeTypeOK
    <2> QED
      BY <1>1, <1>3, <1>4, <2>1, <2>2 DEF NodeTypeOK
  <1>8. PointsDiffer' /\ NewerStays /\ stamp' >= stamp
    BY <1>1, <1>3, <1>4 DEF PointsDiffer, Owned, NewerStays
  <1>9. /\ Deleting \subseteq Deleting' /\ Deleting' \subseteq Deleting \cup {a}
        /\ archives' = archives \/ (Deleting' = Deleting /\ archives' = archives \ {a})
        /\ outcome = "failed" => archives' = archives /\ Deleting' = Deleting
        /\ outcome # "failed" => a \in Deleting' \/ archives' = archives \ {a}
    <2>1. CASE outcome = "failed" \/ backend = "ssh"
      <3>1. Deleting' = Deleting
        BY <1>2, <2>1 DEF Deleting
      <3> QED
        BY <1>2, <1>4, <2>1, <3>1
    <2>2. CASE outcome # "failed" /\ backend = "api"
      <3>1. tasks' = tasks \cup {<<c, "delete", a>>} /\ archives' = archives
        BY <1>2, <2>2
      <3>2. Deleting' = Deleting \cup {a}
        <4>1. ASSUME NEW x \in Deleting' PROVE x \in Deleting \cup {a}
          <5>1. PICK t \in tasks' : t[2] = "delete" /\ x = t[3]
            BY DEF Deleting
          <5> QED
            BY <3>1, <5>1 DEF Deleting
        <4>2. Deleting \subseteq Deleting'
          BY <3>1 DEF Deleting
        <4>3. a \in Deleting'
          <5>1. <<c, "delete", a>> \in tasks' /\ <<c, "delete", a>>[2] = "delete"
                /\ <<c, "delete", a>>[3] = a
            BY <3>1
          <5> QED
            BY <5>1 DEF Deleting
        <4> QED
          BY <4>1, <4>2, <4>3
      <3> QED
        BY <2>2, <3>1, <3>2
    <2> QED
      BY <1>4, <2>1, <2>2
  <1>10. Doomed(c)' = r.todo \cup Deleting' /\ Doomed(c) = call[c].todo \cup Deleting
    BY <1>6 DEF Doomed
  <1> HIDE DEF Deleting
  <1>11. /\ Doomed(c)' \subseteq Doomed(c)
         /\ archives \ Doomed(c) \subseteq archives' \ Doomed(c)'
         /\ outcome # "failed" => Owned(archives') \ Doomed(c)' \subseteq Owned(archives) \ Doomed(c)
    BY <1>2, <1>4, <1>5, <1>9, <1>10 DEF Owned
  <1>12. ASSUME r.alone, r.stage = "evict"
         PROVE  BackupFits(c)'
    <2>1. BackupFits(c) /\ call[c].stage = "evict" /\ (Early(c)' <=> Early(c))
      BY <1>1, <1>3, <1>5, <1>6, <1>12 DEF AloneFits, Early
    <2>2. ~Early(c)' => \A b \in Doomed(c)' : NewerIn(archives' \ Doomed(c)', b)
      BY <1>11, <2>1 DEF BackupFits, NewerIn
    <2>3. ASSUME r.clean, ~r.kept
          PROVE  Cardinality(Owned(archives') \ Doomed(c)') <= AtLeastOne(ArchiveCap)
      <3>1. outcome = "done" /\ call[c].clean /\ ~call[c].kept
        BY <1>5, <2>3
      <3>2. Cardinality(Owned(archives) \ Doomed(c)) <= AtLeastOne(ArchiveCap)
        BY <2>1, <3>1 DEF BackupFits
      <3>3. Owned(archives') \ Doomed(c)' = Owned(archives) \ Doomed(c)
        BY <1>11, <3>1 DEF Owned
      <3> QED
        BY <3>2, <3>3
    <2> QED
      BY <1>5, <1>6, <1>12, <2>2, <2>3 DEF BackupFits
  <1>13. r.stage = "early" => BackupFits(c)'
    BY <1>6 DEF BackupFits
  <1>14. Own(c, r)
    BY <1>1, <1>3, <1>5, <1>6, <1>12, <1>13 DEF Own, Course, Restores, CallFits, At
  <1>15. \A p \in r.todo : p.mcp /\ p.at < stamp'
    BY <1>1, <1>3, <1>5 DEF CallFits
  <1>16. r.alone => DeletionsFit(c)'
    <2> SUFFICES ASSUME r.alone, ~r.early, NEW b \in Deleting'
                 PROVE  NewerIn(archives' \ Deleting', b)
      BY <1>6 DEF DeletionsFit
    <2>1. CASE call[c].stage = "evict"
      <3>1. ~Early(c)' /\ BackupFits(c)'
        BY <1>5, <1>6, <1>12, <2>1 DEF Early
      <3>2. NewerIn(archives' \ Doomed(c)', b)
        BY <1>5, <1>6, <1>10, <2>1, <3>1 DEF BackupFits
      <3> QED
        BY <1>10, <3>2 DEF NewerIn
    <2>2. CASE call[c].stage = "early"
      BY <1>3, <1>5, <2>2 DEF CallFits
    <2> QED
      BY <1>1, <2>1, <2>2
  <1>17. \A t \in tasks' : t \in tasks \/ (t[1] = c /\ TaskFits(t)')
    <2>1. \A t \in tasks' : t \in tasks \/ (backend = "api" /\ t = <<c, "delete", a>>)
      BY <1>2, <1>4
    <2>2. /\ a.mcp /\ a.at < stamp' /\ backend' = backend
          /\ ~r.early => r.stage = "evict" /\ vzdump'[c] = "ok"
      BY <1>1, <1>2, <1>3, <1>5 DEF CallFits
    <2>3. backend = "api" => TaskFits(<<c, "delete", a>>)'
      BY <1>1, <1>5, <1>6, <2>2 DEF TaskFits
    <2> QED
      BY <2>1, <2>3
  <1> QED
    BY <1>1, <1>3, <1>4, <1>5, <1>6, <1>7, <1>8, <1>14, <1>15, <1>16, <1>17, HandlerStep DEF Over

LEMMA EarlyEvictionsDoneStep ==
    ASSUME OpsIInv, NEW c \in CallIds, EarlyEvictionsDone(c)
    PROVE  OpsIInv'
  <1>1. PICK stage \in {"create", "failed"} :
          /\ call[c].stage = "early" /\ call' = [call EXCEPT ![c].stage = stage]
          /\ UNCHANGED <<backend, node, dropped, clock, events>>
    BY DEF EarlyEvictionsDone, Goes
  <1>2. InFlight(c) /\ NodeTypeOK /\ CallFits(c) /\ call[c] \in Calling
    BY <1>1 DEF OpsIInv, OpsTypeOK, InFlight, Over
  <1>3. PointsDiffer' /\ NewerStays /\ stamp' >= stamp /\ NodeTypeOK'
    BY <1>1, <1>2, PointsStay DEF node, NodeTypeOK
  <1>4. call[c].op = "guest_backup"
    BY <1>1, <1>2 DEF CallFits, Course
  <1> DEFINE r == [call[c] EXCEPT !.stage = stage]
  <1>5. r \in Calling /\ r.op = "guest_backup" /\ r.stage = stage
    BY <1>1, <1>2, <1>4 DEF Calling, Over
  <1>6. call'[c] = r
    BY <1>1 DEF OpsIInv, OpsTypeOK
  <1> HIDE DEF r
  <1>7. stage = "create" => Own(c, r)
    BY <1>5, <1>6 DEF Own, Course, Restores, BackupFits, At
  <1>8. stage \notin Over => Own(c, [call[c] EXCEPT !.stage = stage])
    BY <1>1, <1>7 DEF r, Over
  <1> QED
    BY <1>1, <1>2, <1>3, <1>8, StageStep DEF Over, node

LEMMA CreateBackupStep ==
    ASSUME OpsIInv, NEW c \in CallIds, NEW outcome \in Outcomes, CreateBackup(c, outcome)
    PROVE  OpsIInv'
  <1>1. PICK stage \in {"poll", "failed"} :
          /\ At(c, "guest_backup", "create") /\ Charge(outcome # "done")
          /\ stage = "poll" => outcome = "done"
          /\ vzdump' = [vzdump EXCEPT ![c] = IF outcome = "failed" THEN "none" ELSE "running"]
          /\ call' = [call EXCEPT ![c].stage = stage]
          /\ UNCHANGED <<backend, power, disk, snapshots, archives, tasks, stamp, dropped, clock>>
    BY DEF CreateBackup, Goes
  <1>2. InFlight(c) /\ NodeTypeOK /\ call[c] \in Calling /\ events' \in Nat
    BY <1>1, ChargeIsTyped DEF OpsIInv, OpsTypeOK, InFlight, Over, At
  <1>3. vzdump' \in [CallIds -> {"none", "running", "ok", "failed"}]
        /\ \A d \in CallIds \ {c} : vzdump'[d] = vzdump[d]
    BY <1>1, <1>2 DEF NodeTypeOK
  <1>4. NodeTypeOK'
    BY <1>1, <1>2, <1>3 DEF NodeTypeOK
  <1>5. PointsDiffer' /\ NewerStays /\ stamp' >= stamp
    BY <1>1, PointsStay
  <1> DEFINE r == [call[c] EXCEPT !.stage = stage]
  <1>6. r \in Calling /\ r.op = "guest_backup" /\ r.stage = stage
    BY <1>1, <1>2 DEF Calling, Over, At
  <1>7. call'[c] = r
    BY <1>1 DEF OpsIInv, OpsTypeOK
  <1> HIDE DEF r
  <1>8. stage = "poll" => vzdump'[c] = "running"
    BY <1>1, <1>2 DEF NodeTypeOK
  <1>9. stage = "poll" => Own(c, r)
    BY <1>6, <1>7, <1>8 DEF Own, Course, Restores, BackupFits, At
  <1>10. stage \notin Over => Own(c, [call[c] EXCEPT !.stage = stage])
    BY <1>1, <1>9 DEF r, Over
  <1> QED
    BY <1>1, <1>2, <1>3, <1>4, <1>5, <1>10, StageStep DEF Over, At

\* The task has ended; when the backup is alone its archive is the newest.
LEMMA TaskStoppedStep ==
    ASSUME OpsIInv, NEW c \in CallIds, TaskStopped(c)
    PROVE  OpsIInv'
  <1>1. PICK stage \in {"relist", "failed"} :
          /\ At(c, "guest_backup", "poll")
          /\ stage = "relist" => vzdump[c] = "ok"
          /\ call' = [call EXCEPT ![c].stage = stage]
          /\ UNCHANGED <<backend, node, dropped, clock, events>>
    BY DEF TaskStopped, Goes
  <1>2. InFlight(c) /\ NodeTypeOK /\ AloneFits(c) /\ call[c] \in Calling
    BY <1>1 DEF OpsIInv, OpsTypeOK, InFlight, Over, At
  <1>3. PointsDiffer' /\ NewerStays /\ stamp' >= stamp /\ NodeTypeOK'
    BY <1>1, <1>2, PointsStay DEF node, NodeTypeOK
  <1> DEFINE r == [call[c] EXCEPT !.stage = stage]
  <1>4. r \in Calling /\ r.op = "guest_backup" /\ r.stage = stage /\ r.name = call[c].name
        /\ r.alone = call[c].alone
    BY <1>1, <1>2 DEF Calling, Over, At
  <1>5. call'[c] = r
    BY <1>1 DEF OpsIInv, OpsTypeOK
  <1> HIDE DEF r
  <1>6. stage = "relist" /\ r.alone => BackupFits(c)'
    BY <1>1, <1>2, <1>4, <1>5 DEF AloneFits, BackupFits, At, node, Deleting
  <1>7. stage = "relist" => Own(c, r)
    BY <1>1, <1>4, <1>5, <1>6 DEF Own, Course, Restores, At, node
  <1>8. stage \notin Over => Own(c, [call[c] EXCEPT !.stage = stage])
    BY <1>1, <1>7 DEF r, Over
  <1> QED
    BY <1>1, <1>2, <1>3, <1>8, StageStep DEF Over, node, At

LEMMA TaskDeadlineStep ==
    ASSUME OpsIInv, NEW c \in CallIds, TaskDeadline(c)
    PROVE  OpsIInv'
  <1>1. PICK stage \in {"pending", "failed"} :
          /\ At(c, "guest_backup", "poll")
          /\ call' = [call EXCEPT ![c].stage = stage]
          /\ vzdump' = [vzdump EXCEPT ![c] = IF backend = "api" THEN @ ELSE "failed"]
          /\ UNCHANGED <<backend, power, disk, snapshots, archives, tasks, stamp, dropped, clock, events>>
    BY DEF TaskDeadline, Goes
  <1>2. InFlight(c) /\ NodeTypeOK
    BY <1>1 DEF OpsIInv, OpsTypeOK, InFlight, Over, At
  <1>3. vzdump' \in [CallIds -> {"none", "running", "ok", "failed"}]
        /\ \A d \in CallIds \ {c} : vzdump'[d] = vzdump[d]
    BY <1>1, <1>2 DEF NodeTypeOK
  <1>4. NodeTypeOK'
    BY <1>1, <1>2, <1>3 DEF NodeTypeOK
  <1>5. PointsDiffer' /\ NewerStays /\ stamp' >= stamp
    BY <1>1, PointsStay
  <1> QED
    BY <1>1, <1>2, <1>3, <1>4, <1>5, StageStep DEF Over, At

\* The new archive is found by its note and kept; of the others the cap less one.
LEMMA RelistStep ==
    ASSUME OpsIInv, NEW c \in CallIds, NEW fails \in BOOLEAN, Relist(c, fails)
    PROVE  OpsIInv'
  <1> DEFINE mine == {a \in archives : a.mcp /\ a.name = call[c].name}
             found == ~fails /\ mine # {}
             new == CHOOSE a \in mine : \A b \in mine : b.at <= a.at
             todo == IF found THEN PlanPostCreateEviction(archives, new, ArchiveCap) ELSE {}
             clean == call[c].clean /\ found
             r == [call[c] EXCEPT !.stage = "evict", !.clean = clean, !.todo = todo]
  <1>1. /\ At(c, "guest_backup", "relist") /\ Charge(fails)
        /\ call' = [call EXCEPT ![c].stage = "evict", ![c].clean = clean, ![c].todo = todo]
        /\ UNCHANGED <<backend, node, dropped, clock>>
    BY DEF Relist
  <1>2. call[c] \in Calling /\ CallFits(c) /\ AloneFits(c) /\ InFlight(c) /\ NodeTypeOK /\ PointsDiffer
        /\ call \in [CallIds -> Calling]
    BY <1>1 DEF OpsIInv, OpsTypeOK, InFlight, Over, At
  <1>3. /\ events' \in Nat /\ stamp \in Nat /\ archives \in SUBSET Point /\ IsFiniteSet(archives)
        /\ call[c].op = "guest_backup" /\ call[c].stage = "relist" /\ vzdump[c] = "ok"
    BY <1>1, <1>2, ChargeIsTyped DEF NodeTypeOK, At, CallFits
  <1>4. \A a \in todo : a \in archives /\ a.mcp /\ (found => a # new)
    <2> HIDE DEF mine, new, found
    <2> QED
      BY DEF PlanPostCreateEviction, PlanArchiveEviction, Owned
  <1>5. call[c].alone /\ found =>
          /\ new \in archives /\ new.mcp /\ \A b \in archives : b.at <= new.at
    <2> SUFFICES ASSUME call[c].alone, found
                 PROVE  new \in archives /\ new.mcp /\ \A b \in archives : b.at <= new.at
      OBVIOUS
    <2>1. PICK a \in archives : a.mcp /\ a.name = call[c].name /\ \A b \in archives : b.at <= a.at
      BY <1>2, <1>3 DEF AloneFits, BackupFits
    <2>2. a \in mine /\ \A b \in mine : b.at <= a.at
      BY <2>1
    <2>3. new \in mine /\ \A b \in mine : b.at <= new.at
      <3> HIDE DEF mine
      <3> QED
        BY <2>2
    <2> HIDE DEF new
    <2>4. ASSUME NEW b \in archives PROVE b.at <= new.at
      <3>1. b.at \in Nat /\ a.at \in Nat /\ new.at \in Nat
        BY <1>3, <2>3 DEF Point
      <3>2. b.at <= a.at /\ a.at <= new.at
        BY <2>1, <2>2, <2>3
      <3> QED
        BY <3>1, <3>2
    <2> QED
      BY <2>3, <2>4
  <1> HIDE DEF mine, new, found
  <1>6. ASSUME call[c].alone
        PROVE  /\ \A a \in todo : NewerIn(archives \ todo, a)
               /\ clean => /\ todo \subseteq archives
                           /\ Cardinality(Owned(archives) \ todo) <= AtLeastOne(ArchiveCap)
    <2>1. CASE ~found
      BY <2>1
    <2>2. CASE found
      <3>1. todo = PlanArchiveEviction(archives \ {new}, AtLeastOne(ArchiveCap))
        BY <2>2 DEF PlanPostCreateEviction
      <3>2. new \in archives /\ new.mcp /\ new \notin todo /\ \A b \in archives : b.at <= new.at
        BY <1>4, <1>5, <1>6, <2>2
      <3>3. ASSUME NEW a \in todo PROVE NewerIn(archives \ todo, a)
        <4>1. a \in archives /\ a.at # new.at
          BY <1>2, <1>4, <2>2, <3>2 DEF PointsDiffer
        <4>2. a.at \in Nat /\ new.at \in Nat /\ a.at <= new.at
          BY <1>3, <3>2, <4>1 DEF Point
        <4>3. new.at > a.at
          BY <4>1, <4>2
        <4> HIDE DEF todo
        <4> QED
          BY <3>2, <4>3 DEF NewerIn
      <3> DEFINE others == archives \ {new}
                 kept == Owned(others) \ PlanArchiveEviction(others, AtLeastOne(ArchiveCap))
      <3>4. AtLeastOne(ArchiveCap) \in Nat /\ Allowed(AtLeastOne(ArchiveCap)) \in Nat
            /\ Allowed(AtLeastOne(ArchiveCap)) + 1 = AtLeastOne(ArchiveCap)
        BY GuestOpsAssumption DEF AtLeastOne, Allowed
      <3>5. others \in SUBSET Point /\ IsFiniteSet(others)
            /\ \A a, b \in others : a.at = b.at => a = b
        BY <1>2, <1>3, SmallerSet DEF PointsDiffer
      <3> HIDE DEF others
      <3>6. /\ IsFiniteSet(kept) /\ Cardinality(kept) \in Nat
            /\ Cardinality(kept) <= Allowed(AtLeastOne(ArchiveCap))
        BY <3>4, <3>5, ArchivesKept
      <3>7. Owned(archives) \ todo \subseteq kept \cup {new}
        BY <3>1 DEF Owned, others
      <3>8. todo \subseteq archives
        BY <1>4
      <3> HIDE DEF kept, todo
      <3>9. /\ Cardinality(Owned(archives) \ todo) \in Nat
            /\ Cardinality(Owned(archives) \ todo) <= Cardinality(kept) + 1
        BY <3>6, <3>7, OneMore
      <3>10. Cardinality(Owned(archives) \ todo) <= AtLeastOne(ArchiveCap)
        BY <3>4, <3>6, <3>9
      <3> QED
        BY <3>3, <3>8, <3>10
    <2> QED
      BY <2>1, <2>2
  <1>7. todo \in SUBSET Point /\ clean \in BOOLEAN
    BY <1>2, <1>3, <1>4 DEF Calling, found
  <1> HIDE DEF todo, clean
  <1>8. /\ r \in Calling /\ r.op = "guest_backup" /\ r.stage = "evict"
        /\ r.todo = todo /\ r.alone = call[c].alone /\ r.clean = clean /\ r.early = call[c].early
    BY <1>2, <1>3, <1>7 DEF Calling
  <1>9. call' = [call EXCEPT ![c] = r] /\ call'[c] = r
    BY <1>1, <1>2
  <1> HIDE DEF r
  <1>10. PointsDiffer' /\ NewerStays /\ stamp' >= stamp /\ NodeTypeOK'
    BY <1>1, <1>2, <1>3, PointsStay DEF node, NodeTypeOK
  <1>11. \A p \in r.todo : p.mcp /\ p.at < stamp'
    BY <1>1, <1>2, <1>4, <1>8 DEF PointsDiffer, node
  <1>12. r.alone => BackupFits(c)'
    <2> SUFFICES ASSUME r.alone PROVE BackupFits(c)'
      OBVIOUS
    <2>1. Doomed(c)' = todo \cup Deleting /\ archives' = archives /\ (Early(c)' => r.early /\ backend = "api")
      BY <1>1, <1>8, <1>9 DEF Doomed, Deleting, Early, node
    <2>2. ~(r.early /\ backend = "api") => Deleting = {}
      <3>1. ASSUME NEW t \in tasks, t[2] = "delete" PROVE r.early /\ backend = "api"
        <4>1. TaskFits(t) /\ NodeIsOwn(c)
          BY <1>2, <1>8 DEF OpsIInv, AloneFits
        <4>2. t[1] = c
          BY <4>1 DEF NodeIsOwn
        <4> QED
          BY <1>3, <1>8, <3>1, <4>1, <4>2 DEF TaskFits, Over
      <3> QED
        BY <3>1 DEF Deleting
    <2>3. Early(c)' <=> (r.early /\ backend = "api")
      BY <1>1, <1>8, <1>9 DEF Early, node
    <2> HIDE DEF Deleting
    <2>4. ~Early(c)' => \A b \in Doomed(c)' : NewerIn(archives' \ Doomed(c)', b)
      <3> SUFFICES ASSUME ~Early(c)', NEW b \in Doomed(c)' PROVE NewerIn(archives' \ Doomed(c)', b)
        OBVIOUS
      <3>1. Doomed(c)' = todo
        BY <2>1, <2>2, <2>3
      <3> QED
        BY <1>6, <1>8, <2>1, <3>1
    <2>5. r.clean => Cardinality(Owned(archives') \ Doomed(c)') <= AtLeastOne(ArchiveCap)
      <3> SUFFICES ASSUME r.clean
                   PROVE  Cardinality(Owned(archives') \ Doomed(c)') <= AtLeastOne(ArchiveCap)
        OBVIOUS
      <3>1. Cardinality(Owned(archives) \ todo) <= AtLeastOne(ArchiveCap)
        BY <1>6, <1>8
      <3>2. IsFiniteSet(Owned(archives) \ todo)
        BY <1>3, SmallerSet DEF Owned
      <3>3. Owned(archives') \ Doomed(c)' \subseteq Owned(archives) \ todo
        BY <2>1
      <3> QED
        BY <3>1, <3>2, <3>3, FewerIn, GuestOpsAssumption DEF AtLeastOne
    <2> QED
      BY <1>8, <1>9, <2>4, <2>5 DEF BackupFits
  <1>13. Own(c, r)
    BY <1>1, <1>3, <1>8, <1>9, <1>12 DEF Own, Course, Restores, At, node
  <1>14. UNCHANGED <<backend, vzdump, tasks, archives>>
    BY <1>1 DEF node
  <1>15. r.alone => DeletionsFit(c)'
    BY <1>8, <1>9, <1>14, DeletionsStay
  <1> QED
    BY <1>2, <1>3, <1>8, <1>9, <1>10, <1>11, <1>13, <1>14, <1>15, HandlerStep

----------------------------------------------------------------------------
(* Guest operations: restores and the power state *)

\* A task queued on the node is the call's own.
LEMMA QueueIsTyped ==
    ASSUME OpsIInv, NEW c \in CallIds, NEW kind \in {"stop", "start", "restore", "reboot"},
           NEW outcome, NEW next, Queue(c, kind, outcome, next)
    PROVE  /\ tasks' \in SUBSET (CallIds \X {"stop", "start", "restore", "reboot", "delete"} \X Point)
           /\ \A t \in tasks' : t \in tasks \/ (t[1] = c /\ t[2] # "delete")
  <1>1. call[c].point \in Point
    BY DEF OpsIInv, OpsTypeOK, Calling
  <1>2. tasks' \subseteq tasks \cup {<<c, kind, call[c].point>>}
    BY DEF Queue
  <1>3. tasks \in SUBSET (CallIds \X {"stop", "start", "restore", "reboot", "delete"} \X Point)
    BY DEF OpsIInv, OpsTypeOK, NodeTypeOK
  <1> QED
    BY <1>1, <1>2, <1>3

LEMMA StopGuestStep ==
    ASSUME OpsIInv, NEW c \in CallIds, NEW outcome \in Outcomes, StopGuest(c, outcome)
    PROVE  OpsIInv'
  <1>1. /\ call[c].stage = "stop" /\ Charge(outcome # "done")
        /\ UNCHANGED <<backend, disk, snapshots, archives, vzdump, stamp, dropped, clock>>
    BY DEF StopGuest
  <1>2. PICK stage \in {"ok", "failed", "restore"} :
          /\ call' = [call EXCEPT ![c].stage = stage]
          /\ stage = "restore" => outcome = "done" /\ call[c].op # "guest_stop"
    BY DEF StopGuest, Queue, Goes
  <1>3. call[c] \in Calling /\ CallFits(c) /\ AloneFits(c) /\ InFlight(c) /\ NodeTypeOK
    BY <1>1 DEF OpsIInv, OpsTypeOK, InFlight, Over
  <1>4. /\ power' \in {"running", "stopped"}
        /\ tasks' \in SUBSET (CallIds \X {"stop", "start", "restore", "reboot", "delete"} \X Point)
        /\ \A t \in tasks' : t \in tasks \/ (t[1] = c /\ t[2] # "delete")
        /\ Blocks(c) => tasks' = tasks /\ (outcome = "done" => power' = "stopped")
    <2>1. CASE Blocks(c)
      BY <1>3, <2>1 DEF StopGuest, NodeTypeOK, Outcomes
    <2>2. CASE ~Blocks(c)
      <3>1. power' = power /\ \E next : Queue(c, "stop", outcome, next)
        BY <2>2 DEF StopGuest
      <3> QED
        BY <1>3, <2>2, <3>1, QueueIsTyped DEF NodeTypeOK
    <2> QED
      BY <2>1, <2>2
  <1>5. NodeTypeOK'
    BY <1>1, <1>3, <1>4, ChargeIsTyped DEF NodeTypeOK
  <1>6. PointsDiffer' /\ NewerStays /\ stamp' >= stamp
    BY <1>1, PointsStay
  <1> DEFINE r == [call[c] EXCEPT !.stage = stage]
  <1>7. r \in Calling /\ r.op = call[c].op /\ r.stage = stage /\ r.alone = call[c].alone
    BY <1>3 DEF Calling, Over
  <1>8. call'[c] = r
    BY <1>2 DEF OpsIInv, OpsTypeOK
  <1> HIDE DEF r
  <1>9. stage = "restore" => Own(c, r)
    <2> SUFFICES ASSUME stage = "restore" PROVE Own(c, r)
      OBVIOUS
    <2>1. call[c].op \in Restores
      BY <1>1, <1>2, <1>3 DEF CallFits, Course, Restores
    <2>2. r.alone /\ Blocks(c) => RestoreFits(c)'
      BY <1>1, <1>2, <1>3, <1>4, <1>7, <1>8, <2>1 DEF AloneFits, RestoreFits
    <2> QED
      BY <1>7, <1>8, <2>1, <2>2 DEF Own, Course, Restores, At
  <1>10. stage \notin Over => Own(c, [call[c] EXCEPT !.stage = stage])
    BY <1>9 DEF r, Over
  <1> QED
    BY <1>1, <1>2, <1>3, <1>4, <1>5, <1>6, <1>10, StageStep DEF Over

LEMMA RestoreStep ==
    ASSUME OpsIInv, NEW c \in CallIds, NEW outcome \in Outcomes, Restore(c, outcome)
    PROVE  OpsIInv'
  <1>1. /\ call[c].stage = "restore" /\ Charge(outcome # "done")
        /\ UNCHANGED <<backend, power, snapshots, archives, vzdump, stamp, dropped, clock>>
    BY DEF Restore
  <1>2. call[c] \in Calling /\ CallFits(c) /\ AloneFits(c) /\ InFlight(c) /\ NodeTypeOK
    BY <1>1 DEF OpsIInv, OpsTypeOK, InFlight, Over
  <1>3. PICK stage \in {"ok", "failed", "start"} :
          /\ call' = [call EXCEPT ![c].stage = stage]
          /\ stage = "start" => call[c].was
          /\ stage = "start" /\ Blocks(c) => disk' = call[c].point
    BY DEF Restore, Queue, Goes, AfterRestore, Outcomes
  <1>4. /\ disk' \in Point
        /\ tasks' \in SUBSET (CallIds \X {"stop", "start", "restore", "reboot", "delete"} \X Point)
        /\ \A t \in tasks' : t \in tasks \/ (t[1] = c /\ t[2] # "delete")
        /\ Blocks(c) => tasks' = tasks
    <2>1. CASE Blocks(c)
      BY <1>2, <2>1 DEF Restore, NodeTypeOK, Calling
    <2>2. CASE ~Blocks(c)
      <3>1. disk' = disk /\ \E next : Queue(c, "restore", outcome, next)
        BY <2>2 DEF Restore
      <3> QED
        BY <1>2, <2>2, <3>1, QueueIsTyped DEF NodeTypeOK
    <2> QED
      BY <2>1, <2>2
  <1>5. NodeTypeOK'
    BY <1>1, <1>2, <1>4, ChargeIsTyped DEF NodeTypeOK
  <1>6. PointsDiffer' /\ NewerStays /\ stamp' >= stamp
    BY <1>1, PointsStay
  <1> DEFINE r == [call[c] EXCEPT !.stage = stage]
  <1>7. r \in Calling /\ r.op = call[c].op /\ r.stage = stage /\ r.alone = call[c].alone
        /\ r.was = call[c].was /\ r.point = call[c].point
    BY <1>2 DEF Calling, Over
  <1>8. call'[c] = r
    BY <1>3 DEF OpsIInv, OpsTypeOK
  <1> HIDE DEF r
  <1>9. stage = "start" => Own(c, r)
    <2> SUFFICES ASSUME stage = "start" PROVE Own(c, r)
      OBVIOUS
    <2>1. call[c].op \in Restores
      BY <1>1, <1>2 DEF CallFits, Course, Restores
    <2>2. r.alone /\ Blocks(c) => RestoreFits(c)'
      BY <1>1, <1>2, <1>3, <1>4, <1>7, <1>8, <2>1 DEF AloneFits, RestoreFits
    <2> QED
      BY <1>7, <1>8, <2>1, <2>2 DEF Own, Course, Restores, At
  <1>10. stage \notin Over => Own(c, [call[c] EXCEPT !.stage = stage])
    BY <1>9 DEF r, Over
  <1> QED
    BY <1>1, <1>2, <1>3, <1>4, <1>5, <1>6, <1>10, StageStep DEF Over

LEMMA StartGuestStep ==
    ASSUME OpsIInv, NEW c \in CallIds, NEW outcome \in Outcomes, StartGuest(c, outcome)
    PROVE  OpsIInv'
  <1>1. /\ call[c].stage = "start" /\ Charge(outcome # "done")
        /\ UNCHANGED <<backend, disk, snapshots, archives, vzdump, stamp, dropped, clock>>
    BY DEF StartGuest
  <1>2. call[c] \in Calling /\ CallFits(c) /\ AloneFits(c) /\ InFlight(c) /\ NodeTypeOK
    BY <1>1 DEF OpsIInv, OpsTypeOK, InFlight, Over
  <1>3. PICK stage \in {"ok", "failed", "wait"} :
          /\ call' = [call EXCEPT ![c].stage = stage]
          /\ stage = "wait" => call[c].op = "snapshot_rollback"
    BY DEF StartGuest, Queue, Goes
  <1>4. /\ power' \in {"running", "stopped"}
        /\ tasks' \in SUBSET (CallIds \X {"stop", "start", "restore", "reboot", "delete"} \X Point)
        /\ \A t \in tasks' : t \in tasks \/ (t[1] = c /\ t[2] # "delete")
        /\ call[c].op = "snapshot_rollback" => \A t \in tasks' : t \in tasks \/ t[2] = "start"
    <2>1. CASE call[c].op = "snapshot_rollback"
      <3>1. Live \in Point
        BY DEF Live, Point
      <3>2. power' \in {"running", "stopped"} /\ tasks' \subseteq tasks \cup {<<c, "start", Live>>}
        BY <1>2, <2>1 DEF StartGuest, NodeTypeOK
      <3>3. \A t \in tasks' : t \in tasks \/ t = <<c, "start", Live>>
        BY <3>2
      <3> QED
        BY <1>2, <3>1, <3>2, <3>3 DEF NodeTypeOK
    <2>2. CASE call[c].op # "snapshot_rollback" /\ Blocks(c)
      BY <1>2, <2>2 DEF StartGuest, NodeTypeOK
    <2>3. CASE call[c].op # "snapshot_rollback" /\ ~Blocks(c)
      <3>1. power' = power /\ Queue(c, "start", outcome, "ok")
        BY <2>3 DEF StartGuest
      <3> QED
        BY <1>2, <2>3, <3>1, QueueIsTyped DEF NodeTypeOK
    <2> QED
      BY <2>1, <2>2, <2>3
  <1>5. NodeTypeOK'
    BY <1>1, <1>2, <1>4, ChargeIsTyped DEF NodeTypeOK
  <1>6. PointsDiffer' /\ NewerStays /\ stamp' >= stamp
    BY <1>1, PointsStay
  <1> DEFINE r == [call[c] EXCEPT !.stage = stage]
  <1>7. r \in Calling /\ r.op = call[c].op /\ r.stage = stage /\ r.alone = call[c].alone
        /\ r.was = call[c].was /\ r.point = call[c].point
    BY <1>2 DEF Calling, Over
  <1>8. call'[c] = r
    BY <1>3 DEF OpsIInv, OpsTypeOK
  <1> HIDE DEF r
  <1>9. stage = "wait" => Own(c, r)
    <2> SUFFICES ASSUME stage = "wait" PROVE Own(c, r)
      OBVIOUS
    <2>1. call[c].op = "snapshot_rollback"
      BY <1>3
    <2>2. ASSUME r.alone, Blocks(c) PROVE RestoreFits(c)'
      <3>1. RestoreFits(c) /\ tasks = {} /\ call[c].was /\ disk = call[c].point
        BY <1>1, <1>2, <1>7, <2>1, <2>2 DEF AloneFits, RestoreFits, Restores
      <3>2. \A t \in tasks' : t[2] = "start"
        BY <1>4, <2>1, <3>1
      <3> QED
        BY <1>1, <1>7, <1>8, <3>1, <3>2 DEF RestoreFits
    <2> QED
      BY <1>7, <1>8, <2>1, <2>2 DEF Own, Course, At
  <1>10. stage \notin Over => Own(c, [call[c] EXCEPT !.stage = stage])
    BY <1>9 DEF r, Over
  <1> QED
    BY <1>1, <1>2, <1>3, <1>4, <1>5, <1>6, <1>10, StageStep DEF Over

LEMMA RebootGuestStep ==
    ASSUME OpsIInv, NEW c \in CallIds, NEW outcome \in Outcomes, RebootGuest(c, outcome)
    PROVE  OpsIInv'
  <1>1. /\ call[c].stage = "start" /\ Charge(outcome # "done")
        /\ UNCHANGED <<backend, power, disk, snapshots, archives, vzdump, stamp, dropped, clock>>
    BY DEF RebootGuest, At
  <1>2. InFlight(c) /\ NodeTypeOK
    BY <1>1 DEF OpsIInv, OpsTypeOK, InFlight, Over
  <1>3. PICK stage \in {"ok", "failed"} : call' = [call EXCEPT ![c].stage = stage]
    BY DEF RebootGuest, Queue, Goes
  <1>4. /\ tasks' \in SUBSET (CallIds \X {"stop", "start", "restore", "reboot", "delete"} \X Point)
        /\ \A t \in tasks' : t \in tasks \/ (t[1] = c /\ t[2] # "delete")
    <2>1. tasks' = tasks \/ Queue(c, "reboot", outcome, "ok")
      BY DEF RebootGuest
    <2> QED
      BY <1>2, <2>1, QueueIsTyped DEF NodeTypeOK
  <1>5. NodeTypeOK'
    BY <1>1, <1>2, <1>4, ChargeIsTyped DEF NodeTypeOK
  <1>6. PointsDiffer' /\ NewerStays /\ stamp' >= stamp
    BY <1>1, PointsStay
  <1> QED
    BY <1>1, <1>2, <1>3, <1>4, <1>5, <1>6, StageStep DEF Over

LEMMA WaitStep ==
    ASSUME OpsIInv, NEW c \in CallIds, WaitForGuestRunning(c)
    PROVE  OpsIInv'
  <1>1. PICK stage \in {"ok", "failed"} :
          /\ call[c].stage = "wait" /\ call' = [call EXCEPT ![c].stage = stage]
          /\ UNCHANGED <<backend, node, dropped, clock, events>>
    BY DEF WaitForGuestRunning, Goes, At
  <1>2. InFlight(c) /\ NodeTypeOK
    BY <1>1 DEF OpsIInv, OpsTypeOK, InFlight, Over
  <1>3. PointsDiffer' /\ NewerStays /\ stamp' >= stamp /\ NodeTypeOK'
    BY <1>1, <1>2, PointsStay DEF node, NodeTypeOK
  <1> QED
    BY <1>1, <1>2, <1>3, StageStep DEF Over, node

----------------------------------------------------------------------------
(* Guest operations: calls that begin *)

\* A call begins, and those in flight are alone no more.
LEMMA BeginStep ==
    ASSUME OpsIInv, NEW c \in CallIds, NEW rec \in Calling, Begin(c, rec),
           \A p \in rec.todo : p.mcp /\ p.at < stamp,
           rec.stage \in Over \/
             /\ <<rec.op, rec.stage>> \in Course /\ rec.stage \in {"create", "early", "stop", "restore", "start"}
             /\ rec.op = "snapshot_create" => rec.todo = PlanSnapshotEviction(snapshots, SnapshotCap)
             /\ rec.stage = "restore" => power = "stopped"
             /\ rec.stage = "stop" /\ rec.op \in Restores => rec.was
             /\ rec.stage = "start" => rec.op \notin Restores
             /\ rec.stage = "early" => rec.early
    PROVE  OpsIInv'
  <1> DEFINE alone == NodeIsQuiet /\ \A d \in CallIds : ~InFlight(d)
             r == [rec EXCEPT !.name = clock', !.alone = alone]
  <1>1. /\ call[c].stage = "idle" /\ clock' \in clock..MaxClock
        /\ call' = [Disturbed EXCEPT ![c] = r]
        /\ UNCHANGED <<backend, node, dropped, events>>
    BY DEF Begin
  <1>2. NodeTypeOK /\ call \in [CallIds -> Calling]
    BY DEF OpsIInv, OpsTypeOK
  <1>3. clock' \in Nat /\ alone \in BOOLEAN
    BY <1>1, <1>2, GuestOpsAssumption DEF NodeTypeOK
  <1> HIDE DEF alone
  <1>4. /\ r \in Calling /\ r.op = rec.op /\ r.stage = rec.stage /\ r.todo = rec.todo
        /\ r.was = rec.was /\ r.alone = alone /\ r.early = rec.early
    BY <1>3 DEF Calling
  <1> HIDE DEF r
  <1>5. ASSUME NEW d \in CallIds
        PROVE  /\ [call[d] EXCEPT !.alone = FALSE] \in Calling
               /\ [call[d] EXCEPT !.alone = FALSE].alone = FALSE
               /\ [call[d] EXCEPT !.alone = FALSE].op = call[d].op
               /\ [call[d] EXCEPT !.alone = FALSE].stage = call[d].stage
               /\ [call[d] EXCEPT !.alone = FALSE].todo = call[d].todo
               /\ [call[d] EXCEPT !.alone = FALSE].early = call[d].early
    BY <1>2 DEF Calling
  <1>6. /\ call' \in [CallIds -> Calling] /\ call'[c] = r
        /\ \A d \in CallIds \ {c} : call'[d] = [call[d] EXCEPT !.alone = FALSE]
    BY <1>1, <1>4, <1>5 DEF Disturbed
  <1>7. NodeTypeOK'
    BY <1>1, <1>2, <1>3 DEF NodeTypeOK, node
  <1>8. OpsTypeOK' /\ PointsDiffer'
    BY <1>1, <1>6, <1>7, PointsStay DEF OpsTypeOK, node
  <1>9. ASSUME NEW d \in CallIds \ {c} PROVE CallFits(d)' /\ AloneFits(d)'
    <2>1. call'[d].alone = FALSE /\ call'[d].op = call[d].op /\ call'[d].stage = call[d].stage
          /\ call'[d].todo = call[d].todo /\ call'[d].early = call[d].early
      BY <1>5, <1>6
    <2>2. CallFits(d)
      BY DEF OpsIInv
    <2>3. CallFits(d)'
      BY <1>1, <2>1, <2>2 DEF CallFits, At, InFlight, node
    <2> QED
      BY <2>1, <2>3 DEF AloneFits
  <1>10. CallFits(c)'
    BY <1>1, <1>4, <1>6 DEF CallFits, At, InFlight, Over, node
  <1>11. AloneFits(c)'
    <2> SUFFICES ASSUME call'[c].alone
                 PROVE  /\ NodeIsOwn(c)' /\ DeletionsFit(c)'
                        /\ InFlight(c)' =>
                              /\ (call[c].op = "snapshot_create")' => CreateFits(c)'
                              /\ (call[c].op = "guest_backup")' => BackupFits(c)'
                              /\ (call[c].op \in Restores /\ Blocks(c))' => RestoreFits(c)'
      BY DEF AloneFits
    <2>1. /\ InFlight(c)' => rec.stage \notin Over
          /\ tasks = {} /\ \A d \in CallIds : vzdump[d] # "running" /\ ~InFlight(d)
      BY <1>4, <1>6 DEF InFlight, NodeIsQuiet, alone
    <2>2. tasks' = {} /\ snapshots' = snapshots /\ power' = power /\ vzdump' = vzdump
      BY <1>1, <2>1 DEF node
    <2>3. NodeIsOwn(c)' /\ DeletionsFit(c)'
      BY <1>5, <1>6, <2>1, <2>2 DEF NodeIsOwn, InFlight, DeletionsFit, Deleting
    <2> SUFFICES ASSUME InFlight(c)'
                 PROVE  /\ (call[c].op = "snapshot_create")' => CreateFits(c)'
                        /\ (call[c].op = "guest_backup")' => BackupFits(c)'
                        /\ (call[c].op \in Restores /\ Blocks(c))' => RestoreFits(c)'
      BY <2>3
    <2>4. CASE rec.op = "snapshot_create"
      BY <1>4, <1>6, <2>1, <2>2, <2>3, <2>4 DEF CreateFits, Restores
    <2>5. CASE rec.op = "guest_backup"
      BY <1>4, <1>6, <2>1, <2>2, <2>3, <2>5 DEF BackupFits, Restores
    <2>6. CASE rec.op \in Restores
      BY <1>4, <1>6, <2>1, <2>2, <2>3, <2>6 DEF RestoreFits, Restores
    <2> QED
      BY <1>4, <1>6, <2>3, <2>4, <2>5, <2>6
  <1>12. ASSUME NEW t \in tasks' PROVE TaskFits(t)'
    <2>1. TaskFits(t) /\ t[1] \in CallIds
      BY <1>1, <1>12 DEF OpsIInv, OpsTypeOK, NodeTypeOK, node
    <2>2. UNCHANGED <<backend, stamp, vzdump>>
      BY <1>1 DEF node
    <2>3. CASE t[1] = c
      BY <1>1, <2>1, <2>2, <2>3 DEF TaskFits
    <2>4. CASE t[1] # c
      BY <1>5, <1>6, <2>1, <2>2, <2>4 DEF TaskFits
    <2> QED
      BY <2>3, <2>4
  <1> QED
    BY <1>8, <1>9, <1>10, <1>11, <1>12 DEF OpsIInv

LEMMA NoCallIsTyped ==
    NoCall \in Calling /\ NoCall.todo = {}
  BY DEF NoCall, Calling, Point, Live, Over

\* The tools, each with what its handler has read when the call begins.
LEMMA SnapshotCreateStep ==
    ASSUME OpsIInv, NEW c \in CallIds, SnapshotCreate(c)
    PROVE  OpsIInv'
  <1> DEFINE todo == PlanSnapshotEviction(snapshots, SnapshotCap)
             rec == [NoCall EXCEPT !.op = "snapshot_create", !.stage = "create", !.todo = todo]
  <1>1. \A p \in todo : p \in snapshots /\ p.mcp
    BY DEF PlanSnapshotEviction, Owned
  <1>2. todo \in SUBSET Point /\ \A p \in todo : p.mcp /\ p.at < stamp
    BY <1>1 DEF OpsIInv, OpsTypeOK, NodeTypeOK, PointsDiffer
  <1>3. Begin(c, rec)
    BY DEF SnapshotCreate
  <1>4. todo = PlanSnapshotEviction(snapshots, SnapshotCap)
    OBVIOUS
  <1> HIDE DEF todo
  <1>5. /\ rec \in Calling /\ rec.op = "snapshot_create" /\ rec.stage = "create"
        /\ rec.todo = todo
    BY <1>2 DEF NoCall, Calling, Point, Live
  <1> HIDE DEF rec
  <1> QED
    BY <1>2, <1>3, <1>4, <1>5, BeginStep DEF Course, Restores

LEMMA SnapshotDeleteStep ==
    ASSUME OpsIInv, NEW c \in CallIds, NEW s \in snapshots, SnapshotDelete(c, s)
    PROVE  OpsIInv'
  <1> DEFINE rec == [NoCall EXCEPT !.op = "snapshot_delete", !.stage = "create", !.point = s]
  <1>1. s \in Point
    BY DEF OpsIInv, OpsTypeOK, NodeTypeOK
  <1>2. /\ rec \in Calling /\ rec.op = "snapshot_delete" /\ rec.stage = "create" /\ rec.todo = {}
    BY <1>1 DEF NoCall, Calling, Point, Live
  <1>3. Begin(c, rec)
    BY DEF SnapshotDelete
  <1> HIDE DEF rec
  <1> QED
    BY <1>2, <1>3, BeginStep DEF Course, Restores

LEMMA GuestBackupStep ==
    ASSUME OpsIInv, NEW c \in CallIds, NEW early \in BOOLEAN, GuestBackup(c, early)
    PROVE  OpsIInv'
  <1> DEFINE todo == IF early THEN PlanArchiveEviction(archives, ArchiveCap) ELSE {}
             stage == IF early THEN "early" ELSE "create"
             rec == [NoCall EXCEPT !.op = "guest_backup", !.early = early, !.stage = stage, !.todo = todo]
  <1>1. \A p \in todo : p \in archives /\ p.mcp
    BY DEF PlanArchiveEviction, Owned
  <1>2. todo \in SUBSET Point /\ \A p \in todo : p.mcp /\ p.at < stamp
    BY <1>1 DEF OpsIInv, OpsTypeOK, NodeTypeOK, PointsDiffer
  <1>3. Begin(c, rec)
    BY DEF GuestBackup
  <1>4. stage \in {"early", "create"} /\ (stage = "early" => early)
    OBVIOUS
  <1> HIDE DEF todo, stage
  <1>5. /\ rec \in Calling /\ rec.op = "guest_backup" /\ rec.stage = stage /\ rec.todo = todo
        /\ rec.early = early
    BY <1>2, <1>4 DEF NoCall, Calling, Point, Live
  <1> HIDE DEF rec
  <1> QED
    BY <1>2, <1>3, <1>4, <1>5, BeginStep DEF Course, Restores

LEMMA RestorePointStep ==
    ASSUME OpsIInv, NEW c \in CallIds, NEW op \in Restores, NEW p \in snapshots \cup archives,
           RestorePoint(c, op, p)
    PROVE  OpsIInv'
  <1> DEFINE was == power = "running"
             stage == IF power = "running" THEN "stop" ELSE "restore"
             rec == [NoCall EXCEPT !.op = op, !.point = p, !.was = was, !.stage = stage]
  <1>1. p \in Point /\ was \in BOOLEAN /\ power \in {"running", "stopped"}
    BY DEF OpsIInv, OpsTypeOK, NodeTypeOK
  <1>2. Begin(c, rec)
    BY DEF RestorePoint
  <1>3. /\ stage \in {"stop", "restore"} /\ (stage = "stop" => was)
        /\ (stage = "restore" => power = "stopped")
    BY <1>1
  <1> HIDE DEF was, stage
  <1>4. /\ rec \in Calling /\ rec.op = op /\ rec.stage = stage /\ rec.todo = {} /\ rec.was = was
    BY <1>1, <1>3 DEF NoCall, Calling, Point, Live, Restores
  <1> HIDE DEF rec
  <1> QED
    BY <1>2, <1>3, <1>4, BeginStep DEF Course, Restores

LEMMA LifecycleStep ==
    ASSUME OpsIInv, NEW c \in CallIds, LifecycleTools(c)
    PROVE  OpsIInv'
  <1>1. ASSUME NEW op \in {"guest_start", "guest_stop", "guest_restart"},
               NEW stage \in {"ok", "start", "stop"},
               stage # "ok" => <<op, stage>> \in Course,
               Begin(c, [NoCall EXCEPT !.op = op, !.stage = stage])
        PROVE  OpsIInv'
    <2> DEFINE rec == [NoCall EXCEPT !.op = op, !.stage = stage]
    <2>1. rec \in Calling /\ rec.op = op /\ rec.stage = stage /\ rec.todo = {}
      BY DEF NoCall, Calling, Point, Live, Over
    <2>2. Begin(c, rec)
      BY <1>1
    <2> HIDE DEF rec
    <2> QED
      BY <1>1, <2>1, <2>2, BeginStep DEF Restores, Over
  <1>2. CASE GuestStart(c)
    <2> DEFINE stage == IF power = "running" THEN "ok" ELSE "start"
    <2>1. Begin(c, [NoCall EXCEPT !.op = "guest_start", !.stage = stage])
      BY <1>2 DEF GuestStart
    <2>2. stage \in {"ok", "start"}
      OBVIOUS
    <2> HIDE DEF stage
    <2> QED
      BY <1>1, <2>1, <2>2 DEF Course
  <1>3. CASE GuestStop(c)
    BY <1>1, <1>3 DEF GuestStop, Course
  <1>4. CASE GuestRestart(c)
    BY <1>1, <1>4 DEF GuestRestart, Course
  <1> QED
    BY <1>2, <1>3, <1>4 DEF LifecycleTools

----------------------------------------------------------------------------
(* Guest operations: the node and other people *)

\* A vzdump ends; one that worked has made the newest archive.
LEMMA NodeVzdumpStep ==
    ASSUME OpsIInv, NEW c \in CallIds, NEW ok \in BOOLEAN, NodeVzdump(c, ok)
    PROVE  OpsIInv'
  <1> DEFINE a == [at |-> stamp, name |-> call[c].name, mcp |-> TRUE]
  <1>1. /\ vzdump[c] = "running" /\ Charge(~ok)
        /\ vzdump' = [vzdump EXCEPT ![c] = IF ok THEN "ok" ELSE "failed"]
        /\ archives' = IF ok THEN archives \cup {a} ELSE archives
        /\ stamp' = IF ok THEN stamp + 1 ELSE stamp
        /\ UNCHANGED <<backend, power, disk, snapshots, tasks, call, dropped, clock>>
    BY DEF NodeVzdump
  <1>2. NodeTypeOK /\ call[c] \in Calling /\ CallFits(c) /\ AloneFits(c) /\ PointsDiffer
        /\ call \in [CallIds -> Calling]
    BY DEF OpsIInv, OpsTypeOK
  <1>3. /\ stamp \in Nat /\ call[c].name \in Nat /\ archives \subseteq Point /\ snapshots \subseteq Point
        /\ IsFiniteSet(archives) /\ call[c].todo \subseteq Point
    BY <1>2 DEF NodeTypeOK, Calling
  <1>4. a \in Point /\ a.at = stamp /\ a.mcp /\ a.name = call[c].name
    BY <1>3 DEF Point
  <1> HIDE DEF a
  <1>5. /\ vzdump' \in [CallIds -> {"none", "running", "ok", "failed"}]
        /\ vzdump'[c] = (IF ok THEN "ok" ELSE "failed")
        /\ \A d \in CallIds \ {c} : vzdump'[d] = vzdump[d]
    BY <1>1, <1>2 DEF NodeTypeOK
  <1>6. stamp' \in Nat /\ stamp' >= stamp /\ archives \subseteq archives'
    BY <1>1, <1>3
  <1>7. archives' \subseteq Point /\ IsFiniteSet(archives')
    BY <1>1, <1>3, <1>4, FS_AddElement
  <1>8. OpsTypeOK'
    BY <1>1, <1>2, <1>5, <1>6, <1>7, ChargeIsTyped DEF OpsTypeOK, NodeTypeOK
  <1>9. \A p \in snapshots \cup archives : p.at \in Nat /\ p.at < stamp /\ p.at < stamp'
    <2>1. ASSUME NEW p \in snapshots \cup archives
          PROVE  p.at \in Nat /\ p.at < stamp /\ p.at < stamp'
      <3>1. p.at \in Nat /\ p.at < stamp
        BY <1>2, <1>3 DEF PointsDiffer, Point
      <3> QED
        BY <1>3, <1>6, <3>1
    <2> QED
      BY <2>1
  <1>10. PointsDiffer'
    <2>1. \A p \in snapshots' \cup archives' : p.at < stamp'
      BY <1>1, <1>3, <1>4, <1>9
    <2>2. \A p, q \in archives' : p.at = q.at => p = q
      BY <1>1, <1>2, <1>3, <1>4, <1>9 DEF PointsDiffer
    <2> QED
      BY <1>1, <1>2, <2>1, <2>2 DEF PointsDiffer
  <1>11. NewerStays
    BY <1>1 DEF NewerStays
  <1>12. \A d \in CallIds \ {c} : CallFits(d)' /\ AloneFits(d)'
    BY <1>1, <1>5, <1>6, <1>11, OthersFit
  <1>13. CallFits(c)'
    <2>1. \A p \in call[c].todo : p.mcp /\ p.at < stamp'
      <3>1. ASSUME NEW p \in call[c].todo PROVE p.mcp /\ p.at < stamp'
        <4>1. p.at \in Nat /\ p.at < stamp /\ p.mcp
          BY <1>2, <1>3 DEF CallFits, Point
        <4> QED
          BY <1>3, <1>6, <4>1
      <3> QED
        BY <3>1
    <2>2. ~(call[c].op = "guest_backup" /\ call[c].stage \in {"relist", "evict"})
      BY <1>1, <1>2 DEF CallFits
    <2> QED
      BY <1>1, <1>2, <2>1, <2>2 DEF CallFits, At, InFlight
  <1>14. AloneFits(c)'
    <2> SUFFICES ASSUME call[c].alone PROVE
                 /\ NodeIsOwn(c)' /\ DeletionsFit(c)'
                 /\ InFlight(c) =>
                       /\ (call[c].op = "snapshot_create")' => CreateFits(c)'
                       /\ (call[c].op = "guest_backup")' => BackupFits(c)'
                       /\ (call[c].op \in Restores /\ Blocks(c))' => RestoreFits(c)'
      BY <1>1 DEF AloneFits, InFlight
    <2>1. NodeIsOwn(c)' /\ DeletionsFit(c)'
      BY <1>1, <1>2, <1>5, <1>6, DeletionsStay DEF AloneFits, NodeIsOwn, InFlight
    <2> SUFFICES ASSUME InFlight(c) PROVE
                 /\ (call[c].op = "snapshot_create")' => CreateFits(c)'
                 /\ (call[c].op = "guest_backup")' => BackupFits(c)'
                 /\ (call[c].op \in Restores /\ Blocks(c))' => RestoreFits(c)'
      BY <2>1
    <2>2. ~(call[c].op = "guest_backup" /\ call[c].stage \in {"relist", "evict"})
      BY <1>1, <1>2 DEF CallFits
    <2>3. call[c].op = "snapshot_create" => CreateFits(c)'
      BY <1>1, <1>2 DEF AloneFits, CreateFits
    <2>4. call[c].op \in Restores /\ Blocks(c) => RestoreFits(c)'
      BY <1>1, <1>2 DEF AloneFits, RestoreFits
    <2>5. ASSUME call[c].op = "guest_backup" PROVE BackupFits(c)'
      <3>1. ASSUME ok
            PROVE  \E n \in archives' \ Deleting' :
                      n.mcp /\ n.name = call[c].name /\ \A b \in archives' : b.at <= n.at
        <4>1. a \in archives' /\ \A b \in archives' : b.at <= a.at
          BY <1>1, <1>3, <1>4, <1>9, <3>1
        <4>2. ASSUME NEW t \in tasks, t[2] = "delete" PROVE t[3] # a
          <5>1. t[3] \in Point /\ t[3].at < stamp
            BY <1>2, <4>2 DEF OpsIInv, TaskFits, NodeTypeOK
          <5> QED
            BY <1>3, <1>4, <5>1 DEF Point
        <4>3. a \notin Deleting'
          BY <1>1, <4>2 DEF Deleting
        <4> QED
          BY <1>4, <4>1, <4>3
      <3> QED
        BY <1>1, <1>5, <2>2, <2>5, <3>1 DEF BackupFits
    <2> QED
      BY <1>1, <2>1, <2>3, <2>4, <2>5 DEF Blocks
  <1>15. ASSUME NEW t \in tasks' PROVE TaskFits(t)'
    <2>1. TaskFits(t) /\ t[1] \in CallIds /\ t[3] \in Point /\ t \in tasks
      BY <1>1, <1>2 DEF OpsIInv, NodeTypeOK
    <2>2. t[3].at < stamp => t[3].at < stamp'
      BY <1>3, <1>6, <2>1 DEF Point
    <2>3. CASE t[1] = c
      BY <1>1, <2>1, <2>2, <2>3 DEF TaskFits
    <2>4. CASE t[1] # c
      BY <1>1, <1>5, <2>1, <2>2, <2>4 DEF TaskFits
    <2> QED
      BY <2>3, <2>4
  <1> QED
    BY <1>8, <1>10, <1>12, <1>13, <1>14, <1>15 DEF OpsIInv

\* A queued task runs: what it deletes was queued for deletion, and no call that is alone in
\* waiting for its answer has another one that matters.
LEMMA NodeRunsStep ==
    ASSUME OpsIInv, NEW t \in tasks, NEW ok \in BOOLEAN, NodeRuns(t, ok)
    PROVE  OpsIInv'
  <1> DEFINE c == t[1]
  <1>1. /\ tasks' = tasks \ {t} /\ Charge(~ok)
        /\ disk' = (IF ok /\ t[2] = "restore" /\ CanRestore(t[3]) THEN t[3] ELSE disk)
        /\ archives' = (IF ok /\ t[2] = "delete" THEN archives \ {t[3]} ELSE archives)
        /\ call' = (IF ~ok /\ t[2] = "delete" THEN [call EXCEPT ![c].kept = TRUE] ELSE call)
        /\ UNCHANGED <<backend, snapshots, vzdump, dropped, clock, stamp>>
    BY DEF NodeRuns
  <1>2. NodeTypeOK /\ call \in [CallIds -> Calling]
    BY DEF OpsIInv, OpsTypeOK
  <1>3. power' \in {"running", "stopped"}
    BY <1>2 DEF NodeRuns, NodeTypeOK
  <1>4. c \in CallIds /\ t[3] \in Point /\ c = t[1]
    BY <1>2 DEF NodeTypeOK
  <1> HIDE DEF c
  <1>5. /\ call' \in [CallIds -> Calling] /\ \A d \in CallIds \ {c} : call'[d] = call[d]
        /\ \A d \in CallIds :
              /\ call'[d].op = call[d].op /\ call'[d].stage = call[d].stage
              /\ call'[d].todo = call[d].todo /\ call'[d].early = call[d].early
              /\ call'[d].alone = call[d].alone /\ call'[d].clean = call[d].clean
              /\ call'[d].name = call[d].name /\ call'[d].was = call[d].was
              /\ call'[d].point = call[d].point
    <2>1. CASE ~ok /\ t[2] = "delete"
      <3>1. call' = [call EXCEPT ![c].kept = TRUE]
        BY <1>1, <2>1
      <3>2. call[c] \in Calling
        BY <1>2, <1>4
      <3>3. [call[c] EXCEPT !.kept = TRUE] \in Calling
        BY <3>2 DEF Calling
      <3>4. call'[c] = [call[c] EXCEPT !.kept = TRUE] /\ \A d \in CallIds \ {c} : call'[d] = call[d]
        BY <1>2, <1>4, <3>1
      <3>5. call' \in [CallIds -> Calling]
        BY <1>2, <3>1, <3>3
      <3> QED
        BY <1>2, <1>4, <3>2, <3>4, <3>5 DEF Calling
    <2>2. CASE ~(~ok /\ t[2] = "delete")
      BY <1>1, <1>2, <2>2
    <2> QED
      BY <2>1, <2>2
  <1>6. archives' \subseteq archives /\ IsFiniteSet(archives') /\ IsFiniteSet(archives)
    BY <1>1, <1>2, SmallerSet DEF NodeTypeOK
  <1>7. OpsTypeOK'
    <2>1. events' \in Nat
      BY <1>1, ChargeIsTyped
    <2> QED
      BY <1>1, <1>2, <1>3, <1>4, <1>5, <1>6, <2>1 DEF OpsTypeOK, NodeTypeOK
  <1>8. PointsDiffer' /\ NewerStays /\ stamp' >= stamp /\ stamp' \in Nat
    BY <1>1, <1>2, <1>6 DEF OpsIInv, PointsDiffer, NewerStays, NodeTypeOK
  <1>9. \A d \in CallIds \ {c} : CallFits(d)' /\ AloneFits(d)'
    BY <1>1, <1>4, <1>5, <1>8, OthersFit
  <1>10. CallFits(c) /\ AloneFits(c)
    BY <1>4 DEF OpsIInv
  <1>11. CallFits(c)'
    BY <1>1, <1>4, <1>5, <1>10 DEF CallFits, At, InFlight
  <1>12. ASSUME NEW u \in tasks' PROVE TaskFits(u)'
    <2>1. TaskFits(u) /\ u[1] \in CallIds
      BY <1>1, <1>2, <1>12 DEF OpsIInv, NodeTypeOK
    <2> QED
      BY <1>1, <1>5, <2>1 DEF TaskFits
  <1>13. /\ Deleting' \subseteq Deleting /\ archives \ Deleting \subseteq archives' \ Deleting'
         /\ Doomed(c)' \subseteq Doomed(c) /\ archives \ Doomed(c) \subseteq archives' \ Doomed(c)'
    <2>1. Deleting' \subseteq Deleting
      BY <1>1 DEF Deleting
    <2>2. archives \ archives' \subseteq Deleting
      BY <1>1 DEF Deleting
    <2> HIDE DEF Deleting
    <2> QED
      BY <1>4, <1>5, <2>1, <2>2 DEF Doomed
  <1>14. ok \/ t[2] # "delete" => Owned(archives') \ Doomed(c)' \subseteq Owned(archives) \ Doomed(c)
    <2> SUFFICES ASSUME ok \/ t[2] # "delete", NEW p \in Owned(archives'), p \in Doomed(c)
                 PROVE  p \in Doomed(c)'
      BY <1>6 DEF Owned
    <2>1. CASE p \in call[c].todo
      BY <1>4, <1>5, <2>1 DEF Doomed
    <2>2. CASE p \in Deleting
      <3>1. PICK u \in tasks : u[2] = "delete" /\ u[3] = p
        BY <2>2 DEF Deleting
      <3>2. u # t
        BY <1>1, <3>1 DEF Owned
      <3> QED
        BY <1>1, <3>1, <3>2 DEF Deleting, Doomed
    <2> QED
      BY <2>1, <2>2 DEF Doomed
  <1>15. AloneFits(c)'
    <2> SUFFICES ASSUME call[c].alone PROVE
                 /\ NodeIsOwn(c)' /\ DeletionsFit(c)'
                 /\ InFlight(c) =>
                       /\ (call[c].op = "snapshot_create")' => CreateFits(c)'
                       /\ (call[c].op = "guest_backup")' => BackupFits(c)'
                       /\ (call[c].op \in Restores /\ Blocks(c))' => RestoreFits(c)'
      BY <1>4, <1>5 DEF AloneFits, InFlight
    <2>1. NodeIsOwn(c)'
      BY <1>1, <1>5, <1>10 DEF AloneFits, NodeIsOwn, InFlight
    <2>2. DeletionsFit(c)'
      BY <1>4, <1>5, <1>10, <1>13 DEF AloneFits, DeletionsFit, NewerIn
    <2> SUFFICES ASSUME InFlight(c) PROVE
                 /\ (call[c].op = "snapshot_create")' => CreateFits(c)'
                 /\ (call[c].op = "guest_backup")' => BackupFits(c)'
                 /\ (call[c].op \in Restores /\ Blocks(c))' => RestoreFits(c)'
      BY <2>1, <2>2
    <2>3. call[c].op = "snapshot_create" => CreateFits(c)'
      BY <1>1, <1>4, <1>5, <1>10 DEF AloneFits, CreateFits
    <2>4. ASSUME call[c].op = "guest_backup" PROVE BackupFits(c)'
      <3>1. BackupFits(c) /\ (Early(c)' <=> Early(c))
        BY <1>1, <1>4, <1>5, <1>10, <2>4 DEF AloneFits, Early
      <3>2. call[c].stage \in {"poll", "relist"} /\ vzdump[c] = "ok" =>
              \E a \in archives' \ Deleting' :
                 a.mcp /\ a.name = call[c].name /\ \A b \in archives' : b.at <= a.at
        BY <1>6, <1>13, <3>1 DEF BackupFits
      <3>3. call[c].stage = "evict" /\ ~Early(c) =>
              \A a \in Doomed(c)' : NewerIn(archives' \ Doomed(c)', a)
        BY <1>13, <3>1 DEF BackupFits, NewerIn
      <3>4. ASSUME call[c].stage = "evict", call[c].clean, ~call'[c].kept
            PROVE  Cardinality(Owned(archives') \ Doomed(c)') <= AtLeastOne(ArchiveCap)
        <4>1. (ok \/ t[2] # "delete") /\ ~call[c].kept
          BY <1>1, <1>2, <1>4, <3>4 DEF Calling
        <4>2. Cardinality(Owned(archives) \ Doomed(c)) <= AtLeastOne(ArchiveCap)
          BY <3>1, <3>4, <4>1 DEF BackupFits
        <4>3. IsFiniteSet(Owned(archives) \ Doomed(c)) /\ AtLeastOne(ArchiveCap) \in Nat
          BY <1>6, SmallerSet, GuestOpsAssumption DEF Owned, AtLeastOne
        <4> QED
          BY <1>14, <4>1, <4>2, <4>3, FewerIn
      <3>5. /\ call'[c].stage = call[c].stage /\ call'[c].clean = call[c].clean
            /\ call'[c].name = call[c].name /\ vzdump'[c] = vzdump[c]
        BY <1>1, <1>4, <1>5
      <3>6. (call[c].stage \in {"poll", "relist"} /\ vzdump[c] = "ok")' =>
              \E a \in archives' \ Deleting' :
                 a.mcp /\ a.name = call'[c].name /\ \A b \in archives' : b.at <= a.at
        BY <3>2, <3>5
      <3>7. (call[c].stage = "evict" /\ call[c].clean /\ ~call[c].kept)' =>
              Cardinality(Owned(archives') \ Doomed(c)') <= AtLeastOne(ArchiveCap)
        BY <3>4, <3>5
      <3>8. (call[c].stage = "evict" /\ ~Early(c))' =>
              \A a \in Doomed(c)' : NewerIn(archives' \ Doomed(c)', a)
        BY <3>1, <3>3, <3>5
      <3> QED
        BY <3>6, <3>7, <3>8 DEF BackupFits
    <2>5. ASSUME call[c].op \in Restores, Blocks(c) PROVE RestoreFits(c)'
      <3>1. RestoreFits(c) /\ call[c].stage = "wait" /\ t[2] = "start"
        BY <1>10, <2>5 DEF AloneFits, RestoreFits
      <3> QED
        BY <1>1, <3>1 DEF RestoreFits
    <2> QED
      BY <1>1, <1>4, <1>5, <2>3, <2>4, <2>5 DEF Blocks
  <1> QED
    BY <1>7, <1>8, <1>9, <1>11, <1>12, <1>15 DEF OpsIInv

LEMMA GuestTurnsStep ==
    ASSUME OpsIInv, GuestTurns
    PROVE  OpsIInv'
  <1>1. /\ Charge(TRUE) /\ power' = (IF power = "running" THEN "stopped" ELSE "running")
        /\ call' = Disturbed
        /\ UNCHANGED <<backend, disk, snapshots, archives, vzdump, tasks, dropped, clock, stamp>>
    BY DEF GuestTurns
  <1>2. NodeTypeOK /\ call \in [CallIds -> Calling]
    BY DEF OpsIInv, OpsTypeOK
  <1>3. ASSUME NEW d \in CallIds
        PROVE  /\ call'[d] \in Calling /\ call'[d].alone = FALSE /\ call'[d].op = call[d].op
               /\ call'[d].stage = call[d].stage /\ call'[d].todo = call[d].todo
               /\ call'[d].early = call[d].early
    <2>1. call'[d] = [call[d] EXCEPT !.alone = FALSE]
      BY <1>1 DEF Disturbed
    <2> QED
      BY <1>2, <2>1 DEF Calling
  <1>4. call' \in [CallIds -> Calling]
    BY <1>1, <1>3 DEF Disturbed
  <1>5. OpsTypeOK' /\ PointsDiffer'
    BY <1>1, <1>2, <1>4, ChargeIsTyped, PointsStay DEF OpsTypeOK, NodeTypeOK
  <1>6. \A d \in CallIds : CallFits(d)'
    BY <1>1, <1>3 DEF OpsIInv, CallFits, At, InFlight
  <1>7. \A d \in CallIds : AloneFits(d)'
    BY <1>3 DEF AloneFits
  <1>8. ASSUME NEW t \in tasks' PROVE TaskFits(t)'
    <2>1. TaskFits(t) /\ t[1] \in CallIds
      BY <1>1, <1>2 DEF OpsIInv, NodeTypeOK
    <2> QED
      BY <1>1, <1>3, <2>1 DEF TaskFits
  <1> QED
    BY <1>5, <1>6, <1>7, <1>8 DEF OpsIInv

----------------------------------------------------------------------------
(* Guest operations: the invariant and what follows from it *)

LEMMA OpsInitIInv == OpsInit => OpsIInv
  <1> SUFFICES ASSUME OpsInit PROVE OpsIInv
    OBVIOUS
  <1>1. /\ backend \in {"api", "ssh"} /\ power \in {"running", "stopped"} /\ disk = Live
        /\ snapshots = {Left(1, FALSE), Left(2, TRUE)} /\ archives = {Left(3, FALSE), Left(4, TRUE)}
        /\ vzdump = [c \in CallIds |-> "none"] /\ tasks = {} /\ call = [c \in CallIds |-> NoCall]
        /\ dropped = FALSE /\ clock = 1 /\ stamp = 5 /\ events = 0
    BY DEF OpsInit
  <1>2. \A n \in Nat, mcp \in BOOLEAN :
          Left(n, mcp) \in Point /\ Left(n, mcp).at = n /\ Left(n, mcp).mcp = mcp
    BY DEF Left, Point
  <1>3. /\ Left(1, FALSE) \in Point /\ Left(2, TRUE) \in Point
        /\ Left(3, FALSE) \in Point /\ Left(4, TRUE) \in Point
        /\ Left(1, FALSE).at = 1 /\ Left(2, TRUE).at = 2
        /\ Left(3, FALSE).at = 3 /\ Left(4, TRUE).at = 4
        /\ Left(1, FALSE).mcp = FALSE
    BY <1>2
  <1>4. IsFiniteSet(snapshots) /\ IsFiniteSet(archives)
    <2>1. \A x, y : IsFiniteSet({x, y})
      <3> SUFFICES ASSUME NEW x, NEW y PROVE IsFiniteSet({x, y})
        OBVIOUS
      <3>1. IsFiniteSet({x})
        BY FS_Singleton
      <3>2. IsFiniteSet({x} \cup {y})
        BY <3>1, FS_AddElement
      <3>3. {x} \cup {y} = {x, y}
        OBVIOUS
      <3> QED
        BY <3>2, <3>3
    <2> QED
      BY <1>1, <2>1
  <1>5. Live \in Point
    BY DEF Live, Point
  <1>6. OpsTypeOK
    <2>1. vzdump \in [CallIds -> {"none", "running", "ok", "failed"}]
          /\ call \in [CallIds -> Calling]
      BY <1>1, NoCallIsTyped
    <2> QED
      BY <1>1, <1>3, <1>4, <1>5, <2>1 DEF OpsTypeOK, NodeTypeOK
  <1>7. PointsDiffer
    <2>1. \A p \in snapshots \cup archives : p.at < stamp
      <3>1. Left(1, FALSE).at < 5 /\ Left(2, TRUE).at < 5
            /\ Left(3, FALSE).at < 5 /\ Left(4, TRUE).at < 5
        BY DEF Left
      <3> QED
        BY <1>1, <3>1, Zenon
    <2>2. \A a, b \in archives : a.at = b.at => a = b
      <3>1. Left(3, FALSE).at # Left(4, TRUE).at
        BY DEF Left
      <3> QED
        BY <1>1, <3>1, Zenon
    <2>3. \A s \in Owned(snapshots) : s = Left(2, TRUE)
      BY <1>1, <1>3 DEF Owned
    <2> QED
      BY <2>1, <2>2, <2>3 DEF PointsDiffer
  <1>8. \A c \in CallIds : call[c].stage = "idle" /\ call[c].todo = {} /\ ~call[c].alone
    BY <1>1 DEF NoCall
  <1>9. \A c \in CallIds : CallFits(c) /\ AloneFits(c)
    BY <1>8 DEF CallFits, AloneFits, InFlight, At
  <1> QED
    BY <1>1, <1>6, <1>7, <1>9 DEF OpsIInv

LEMMA HandlerKeeps ==
    ASSUME OpsIInv, NEW c \in CallIds, Handler(c)
    PROVE  OpsIInv'
  <1>1. ASSUME NEW outcome \in Outcomes,
               \/ SnapshotTaken(c, outcome) \/ SnapshotEvicted(c, outcome)
               \/ SnapshotDeleted(c, outcome) \/ ArchiveEvicted(c, outcome)
               \/ CreateBackup(c, outcome) \/ StopGuest(c, outcome) \/ Restore(c, outcome)
               \/ StartGuest(c, outcome) \/ RebootGuest(c, outcome)
        PROVE  OpsIInv'
    BY <1>1, SnapshotTakenStep, SnapshotEvictedStep, SnapshotDeletedStep, ArchiveEvictedStep,
       CreateBackupStep, StopGuestStep, RestoreStep, StartGuestStep, RebootGuestStep
  <1>2. CASE \E outcome \in Outcomes :
               \/ SnapshotTaken(c, outcome) \/ SnapshotEvicted(c, outcome)
               \/ SnapshotDeleted(c, outcome) \/ ArchiveEvicted(c, outcome)
               \/ CreateBackup(c, outcome) \/ StopGuest(c, outcome) \/ Restore(c, outcome)
               \/ StartGuest(c, outcome) \/ RebootGuest(c, outcome)
    BY <1>1, <1>2
  <1>3. CASE \/ EvictionsDone(c) \/ EarlyEvictionsDone(c) \/ TaskStopped(c) \/ TaskDeadline(c)
             \/ (\E fails \in BOOLEAN : Relist(c, fails)) \/ WaitForGuestRunning(c)
    BY <1>3, EvictionsDoneStep, EarlyEvictionsDoneStep, TaskStoppedStep, TaskDeadlineStep,
       RelistStep, WaitStep
  <1> QED
    BY <1>2, <1>3 DEF Handler

LEMMA ToolsKeep ==
    ASSUME OpsIInv, NEW c \in CallIds, SnapshotTools(c) \/ LifecycleTools(c) \/ BackupTools(c)
    PROVE  OpsIInv'
  <1>1. CASE SnapshotTools(c)
    <2>1. CASE SnapshotCreate(c)
      BY <2>1, SnapshotCreateStep
    <2>2. ASSUME NEW s \in snapshots, SnapshotDelete(c, s) PROVE OpsIInv'
      BY <2>2, SnapshotDeleteStep
    <2>3. ASSUME NEW s \in snapshots, RestorePoint(c, "snapshot_rollback", s) PROVE OpsIInv'
      BY <2>3, RestorePointStep DEF Restores
    <2> QED
      BY <1>1, <2>1, <2>2, <2>3 DEF SnapshotTools
  <1>2. CASE BackupTools(c)
    <2>1. ASSUME NEW a \in archives, RestorePoint(c, "guest_backup_restore", a) PROVE OpsIInv'
      BY <2>1, RestorePointStep DEF Restores
    <2> QED
      BY <1>2, <2>1, GuestBackupStep DEF BackupTools
  <1> QED
    BY <1>1, <1>2, LifecycleStep

LEMMA OpsNextIInv == OpsIInv /\ [OpsNext]_opsVars => OpsIInv'
  <1> SUFFICES ASSUME OpsIInv, [OpsNext]_opsVars PROVE OpsIInv'
    OBVIOUS
  <1>1. CASE UNCHANGED opsVars
    <2>1. UNCHANGED <<backend, power, disk, snapshots, archives, vzdump, tasks, stamp, call, dropped,
                      clock, events>>
      BY <1>1 DEF opsVars, node
    <2>2. OpsTypeOK' /\ PointsDiffer'
      BY <2>1 DEF OpsIInv, OpsTypeOK, NodeTypeOK, PointsDiffer
    <2>3. \A c \in CallIds : CallFits(c)'
      BY <2>1 DEF OpsIInv, CallFits, At, InFlight
    <2>4. \A c \in CallIds : AloneFits(c)'
      <3> SUFFICES ASSUME NEW c \in CallIds PROVE AloneFits(c)'
        OBVIOUS
      <3>1. AloneFits(c)
        BY DEF OpsIInv
      <3>2. /\ InFlight(c)' <=> InFlight(c)
            /\ NodeIsOwn(c) => NodeIsOwn(c)'
            /\ CreateFits(c) => CreateFits(c)'
            /\ RestoreFits(c) => RestoreFits(c)'
            /\ Blocks(c)' <=> Blocks(c)
        BY <2>1 DEF InFlight, NodeIsOwn, CreateFits, RestoreFits, Blocks
      <3>3. BackupFits(c) => BackupFits(c)'
        BY <2>1 DEF BackupFits, Doomed, Deleting, Early
      <3>4. DeletionsFit(c) => DeletionsFit(c)'
        BY <2>1 DEF DeletionsFit, Deleting
      <3> QED
        BY <2>1, <3>1, <3>2, <3>3, <3>4 DEF AloneFits
    <2>5. \A t \in tasks' : TaskFits(t)'
      BY <2>1 DEF OpsIInv, TaskFits
    <2> QED
      BY <2>2, <2>3, <2>4, <2>5 DEF OpsIInv
  <1>2. ASSUME NEW c \in CallIds, NEW ok \in BOOLEAN, NodeVzdump(c, ok) PROVE OpsIInv'
    BY <1>2, NodeVzdumpStep
  <1>3. ASSUME NEW t \in tasks, NEW ok \in BOOLEAN, NodeRuns(t, ok) PROVE OpsIInv'
    BY <1>3, NodeRunsStep
  <1>4. ASSUME NEW c \in CallIds,
               SnapshotTools(c) \/ LifecycleTools(c) \/ BackupTools(c) \/ Handler(c)
        PROVE  OpsIInv'
    BY <1>4, ToolsKeep, HandlerKeeps
  <1> QED
    BY <1>1, <1>2, <1>3, <1>4, GuestTurnsStep DEF OpsNext

\* OpsIInv holds in every reachable state, for every cap and any number of calls and failures.
THEOREM OpsInvariance == OpsSpec => []OpsIInv
  BY OpsInitIInv, OpsNextIInv, PTL DEF OpsSpec

\* What a step removes, and the call that does it.
LEMMA WhoRemoves ==
    ASSUME OpsIInv, OpsNext
    PROVE  \/ snapshots \subseteq snapshots' /\ archives \subseteq archives'
           \/ \E d \in CallIds, outcome \in Outcomes :
                 \/ SnapshotEvicted(d, outcome) \/ SnapshotDeleted(d, outcome)
                 \/ ArchiveEvicted(d, outcome)
           \/ \E t \in tasks, ok \in BOOLEAN : NodeRuns(t, ok)
  <1>1. ASSUME NEW c \in CallIds, SnapshotTools(c) \/ LifecycleTools(c) \/ BackupTools(c)
        PROVE  snapshots' = snapshots /\ archives' = archives
    BY <1>1 DEF SnapshotTools, LifecycleTools, BackupTools, SnapshotCreate, SnapshotDelete,
                RestorePoint, GuestStart, GuestStop, GuestRestart, GuestBackup, Begin, node
  <1>2. ASSUME NEW c \in CallIds, NEW outcome \in Outcomes,
               \/ SnapshotTaken(c, outcome) \/ CreateBackup(c, outcome) \/ StopGuest(c, outcome)
               \/ Restore(c, outcome) \/ StartGuest(c, outcome) \/ RebootGuest(c, outcome)
        PROVE  snapshots \subseteq snapshots' /\ archives' = archives
    <2>1. CASE SnapshotTaken(c, outcome)
      BY <2>1 DEF SnapshotTaken
    <2>2. CASE CreateBackup(c, outcome) \/ StopGuest(c, outcome) \/ Restore(c, outcome)
      BY <2>2 DEF CreateBackup, StopGuest, Restore
    <2>3. CASE StartGuest(c, outcome) \/ RebootGuest(c, outcome)
      BY <2>3 DEF StartGuest, RebootGuest
    <2> QED
      BY <1>2, <2>1, <2>2, <2>3
  <1>3. ASSUME NEW c \in CallIds,
               \/ EvictionsDone(c) \/ EarlyEvictionsDone(c) \/ TaskStopped(c) \/ TaskDeadline(c)
               \/ (\E fails \in BOOLEAN : Relist(c, fails)) \/ WaitForGuestRunning(c)
        PROVE  snapshots' = snapshots /\ archives' = archives
    BY <1>3 DEF EvictionsDone, EarlyEvictionsDone, TaskStopped, TaskDeadline, Relist,
                WaitForGuestRunning, node
  <1>4. ASSUME NEW c \in CallIds, Handler(c)
        PROVE  \/ snapshots \subseteq snapshots' /\ archives \subseteq archives'
               \/ \E outcome \in Outcomes :
                     \/ SnapshotEvicted(c, outcome) \/ SnapshotDeleted(c, outcome)
                     \/ ArchiveEvicted(c, outcome)
    BY <1>2, <1>3, <1>4 DEF Handler
  <1>5. ASSUME NEW c \in CallIds, NEW ok \in BOOLEAN, NodeVzdump(c, ok)
        PROVE  snapshots' = snapshots /\ archives \subseteq archives'
    BY <1>5 DEF NodeVzdump
  <1>6. GuestTurns => snapshots' = snapshots /\ archives' = archives
    BY DEF GuestTurns
  <1> QED
    BY <1>1, <1>4, <1>5, <1>6 DEF OpsNext

\* Retention removes only points the server owns, and a newer one of them remains, also when
\* the node runs the deletions later, for every cap and any number of calls that interleave
\* and fail.
THEOREM RetentionStaysSafe == OpsSpec => RetentionIsSafe
  <1>1. OpsIInv /\ [OpsNext]_opsVars =>
          [\A c \in CallIds :
              /\ call[c].op = "snapshot_create" /\ call'[c] # call[c] =>
                    \A s \in snapshots \ snapshots' :
                       s.mcp /\ (dropped \/ \E t \in snapshots' : t.mcp /\ t.at > s.at)
              /\ \A a \in Removed(c) :
                    /\ a.mcp
                    /\ ~Early(c) => vzdump[c] = "ok"
                    /\ call[c].alone /\ ~Early(c) => \E b \in archives' : b.mcp /\ b.at > a.at]_opsVars
    <2> SUFFICES ASSUME OpsIInv, OpsNext, NEW c \in CallIds
                 PROVE  /\ call[c].op = "snapshot_create" /\ call'[c] # call[c] =>
                              \A s \in snapshots \ snapshots' :
                                 s.mcp /\ (dropped \/ \E t \in snapshots' : t.mcp /\ t.at > s.at)
                        /\ \A a \in Removed(c) :
                              /\ a.mcp
                              /\ ~Early(c) => vzdump[c] = "ok"
                              /\ call[c].alone /\ ~Early(c) =>
                                    \E b \in archives' : b.mcp /\ b.at > a.at
      OBVIOUS
    <2>1. CASE snapshots \subseteq snapshots' /\ archives \subseteq archives'
      BY <2>1 DEF Removed
    <2>2. ASSUME NEW d \in CallIds, NEW outcome \in Outcomes, SnapshotEvicted(d, outcome),
                 NEW s \in snapshots \ snapshots'
          PROVE  s.mcp /\ (dropped \/ \E t \in snapshots' : t.mcp /\ t.at > s.at)
      <3>1. PICK e \in call[d].todo :
              /\ snapshots' = IF outcome = "failed" THEN snapshots ELSE snapshots \ {e}
        BY <2>2 DEF SnapshotEvicted
      <3>2. s = e /\ At(d, "snapshot_create", "evict") /\ CallFits(d)
        BY <2>2, <3>1 DEF SnapshotEvicted, OpsIInv
      <3>3. e.mcp /\ (dropped \/ \E t \in snapshots : t.mcp /\ t.at > e.at)
        BY <3>2 DEF CallFits, NewerIn
      <3>4. e \in Point /\ e.at \in Nat
        BY <3>2 DEF OpsIInv, OpsTypeOK, NodeTypeOK, Point
      <3>5. ASSUME NEW t \in snapshots, t.at > e.at PROVE t # e
        BY <3>4, <3>5
      <3> QED
        BY <3>1, <3>2, <3>3, <3>5
    <2>3. ASSUME NEW d \in CallIds, NEW outcome \in Outcomes, SnapshotEvicted(d, outcome)
          PROVE  archives' = archives
      BY <2>3 DEF SnapshotEvicted
    <2>4. ASSUME NEW d \in CallIds, NEW outcome \in Outcomes, SnapshotDeleted(d, outcome)
          PROVE  archives' = archives /\ (call'[c] # call[c] => call[c].op # "snapshot_create")
      <3>1. archives' = archives /\ At(d, "snapshot_delete", "create") /\ \E stage : Goes(d, stage)
        BY <2>4 DEF SnapshotDeleted
      <3>2. call'[c] # call[c] => d = c
        BY <3>1 DEF Goes, OpsIInv, OpsTypeOK
      <3> QED
        BY <3>1, <3>2 DEF At
    <2>5. ASSUME NEW d \in CallIds, NEW outcome \in Outcomes, ArchiveEvicted(d, outcome)
          PROVE  snapshots' = snapshots
      BY <2>5 DEF ArchiveEvicted
    <2>6. ASSUME NEW d \in CallIds, NEW outcome \in Outcomes, ArchiveEvicted(d, outcome),
                 NEW a \in Removed(c)
          PROVE  /\ a.mcp
                 /\ ~Early(c) => vzdump[c] = "ok"
                 /\ call[c].alone /\ ~Early(c) => \E b \in archives' : b.mcp /\ b.at > a.at
      <3>1. PICK e \in call[d].todo :
              /\ archives' = IF outcome = "failed" \/ backend = "api" THEN archives ELSE archives \ {e}
              /\ tasks' = IF outcome = "failed" \/ backend = "ssh" THEN tasks
                          ELSE tasks \cup {<<d, "delete", e>>}
              /\ call' = [call EXCEPT ![d].todo = @ \ {e},
                                      ![d].clean = @ /\ outcome = "done" /\ (backend = "ssh" => e \in archives)]
        BY <2>6 DEF ArchiveEvicted
      <3>2. a \in archives \ archives' /\ a = e /\ tasks \subseteq tasks'
        BY <2>6, <3>1 DEF Removed
      <3>3. call'[c] # call[c]
        BY <2>6, <3>2 DEF Removed
      <3>4. c = d
        BY <3>1, <3>3 DEF OpsIInv, OpsTypeOK
      <3>5. /\ CallFits(c) /\ AloneFits(c) /\ InFlight(c)
            /\ call[c].op = "guest_backup" /\ call[c].stage \in {"early", "evict"}
        BY <2>6, <3>4 DEF ArchiveEvicted, OpsIInv, InFlight, Over
      <3>6. a.mcp /\ (~Early(c) => call[c].stage = "evict" /\ vzdump[c] = "ok")
        BY <3>1, <3>2, <3>4, <3>5 DEF CallFits, Early
      <3>7. call[c].alone /\ ~Early(c) => NewerIn(archives \ Doomed(c), a)
        BY <3>1, <3>2, <3>4, <3>5, <3>6 DEF AloneFits, BackupFits, Doomed
      <3>8. archives \ Doomed(c) \subseteq archives'
        BY <3>1, <3>2, <3>4 DEF Doomed
      <3> QED
        BY <3>6, <3>7, <3>8 DEF NewerIn
    <2>7. ASSUME NEW t \in tasks, NEW ok \in BOOLEAN, NodeRuns(t, ok)
          PROVE  snapshots' = snapshots
      BY <2>7 DEF NodeRuns
    <2>8. ASSUME NEW t \in tasks, NEW ok \in BOOLEAN, NodeRuns(t, ok), NEW a \in Removed(c)
          PROVE  /\ a.mcp
                 /\ ~Early(c) => vzdump[c] = "ok"
                 /\ call[c].alone /\ ~Early(c) => \E b \in archives' : b.mcp /\ b.at > a.at
      <3>1. /\ tasks' = tasks \ {t}
            /\ archives' = (IF ok /\ t[2] = "delete" THEN archives \ {t[3]} ELSE archives)
            /\ call' = (IF ~ok /\ t[2] = "delete" THEN [call EXCEPT ![t[1]].kept = TRUE] ELSE call)
        BY <2>8 DEF NodeRuns
      <3>2. a \in archives \ archives' /\ (call'[c] # call[c] \/ <<c, "delete", a>> \in tasks \ tasks')
        BY <2>8 DEF Removed
      <3>3. ok /\ t[2] = "delete" /\ a = t[3] /\ archives' = archives \ {a} /\ call' = call
        BY <3>1, <3>2
      <3>4. t[1] = c
        BY <3>1, <3>2, <3>3
      <3>5. TaskFits(t) /\ AloneFits(c)
        BY DEF OpsIInv
      <3>6. a.mcp /\ (~Early(c) => ~call[c].early /\ vzdump[c] = "ok")
        BY <3>3, <3>4, <3>5 DEF TaskFits, Early
      <3>7. a \in Deleting
        BY <3>3 DEF Deleting
      <3>8. call[c].alone /\ ~Early(c) => NewerIn(archives \ Deleting, a)
        BY <3>5, <3>6, <3>7 DEF AloneFits, DeletionsFit
      <3> QED
        BY <3>3, <3>6, <3>7, <3>8 DEF NewerIn
    <2> QED
      <3>1. archives' = archives => Removed(c) = {}
        BY DEF Removed
      <3> QED
        BY <2>1, <2>2, <2>3, <2>4, <2>5, <2>6, <2>7, <2>8, <3>1, WhoRemoves
  <1> QED
    BY <1>1, OpsInvariance, PTL DEF OpsSpec, RetentionIsSafe

\* How a call comes to its end "ok".
LEMMA WhoEnds ==
    ASSUME OpsIInv, OpsNext, NEW c \in CallIds, InFlight(c), call'[c].stage = "ok"
    PROVE  \/ EvictionsDone(c) \/ WaitForGuestRunning(c)
           \/ \E outcome \in Outcomes :
                 \/ SnapshotDeleted(c, outcome) \/ StopGuest(c, outcome) \/ Restore(c, outcome)
                 \/ StartGuest(c, outcome) \/ RebootGuest(c, outcome)
  <1>1. call \in [CallIds -> Calling] /\ call[c].stage # "ok" /\ call[c].stage # "idle"
    BY DEF OpsIInv, OpsTypeOK, InFlight, Over
  <1>2. [call[c] EXCEPT !.alone = FALSE].stage # "ok"
    BY <1>1 DEF Calling
  <1>3. ASSUME NEW d \in CallIds, NEW rec, Begin(d, rec)
        PROVE  FALSE
    <2>1. d # c
      BY <1>1, <1>3 DEF Begin
    <2>2. call'[c] = [call[c] EXCEPT !.alone = FALSE]
      BY <1>3, <2>1 DEF Begin, Disturbed
    <2> QED
      BY <1>2, <2>2
  <1>4. ASSUME NEW d \in CallIds, SnapshotTools(d) \/ LifecycleTools(d) \/ BackupTools(d)
        PROVE  FALSE
    BY <1>3, <1>4 DEF SnapshotTools, LifecycleTools, BackupTools, SnapshotCreate, SnapshotDelete,
                      RestorePoint, GuestStart, GuestStop, GuestRestart, GuestBackup
  <1>5. ASSUME NEW d \in CallIds, NEW stage, Goes(d, stage)
        PROVE  c = d /\ stage = "ok"
    <2>1. call'[c] = IF c = d THEN [call[c] EXCEPT !.stage = stage] ELSE call[c]
      BY <1>1, <1>5 DEF Goes
    <2>2. [call[c] EXCEPT !.stage = stage].stage = stage
      BY <1>1 DEF Calling
    <2> QED
      BY <1>1, <2>1, <2>2
  <1>6. ASSUME NEW d \in CallIds, NEW outcome \in Outcomes,
               SnapshotTaken(d, outcome) \/ CreateBackup(d, outcome)
        PROVE  FALSE
    <2>1. CASE SnapshotTaken(d, outcome)
      <3>1. Goes(d, "failed") \/ Goes(d, "evict")
        BY <2>1 DEF SnapshotTaken
      <3> QED
        BY <1>5, <3>1
    <2>2. CASE CreateBackup(d, outcome)
      <3>1. Goes(d, "failed") \/ Goes(d, "poll")
        BY <2>2 DEF CreateBackup
      <3> QED
        BY <1>5, <3>1
    <2> QED
      BY <1>6, <2>1, <2>2
  <1>7. ASSUME NEW d \in CallIds, NEW r \in Calling, call' = [call EXCEPT ![d] = r],
               r.stage # "ok"
        PROVE  FALSE
    BY <1>1, <1>7
  <1>8. ASSUME NEW d \in CallIds, NEW outcome \in Outcomes,
               SnapshotEvicted(d, outcome) \/ ArchiveEvicted(d, outcome)
        PROVE  FALSE
    <2>1. PICK p \in call[d].todo :
            /\ call[d].stage \in {"early", "evict"}
            /\ \E done \in BOOLEAN :
                 call' = [call EXCEPT ![d].todo = @ \ {p}, ![d].clean = done]
      <3>1. CASE SnapshotEvicted(d, outcome)
        <4>1. PICK p \in call[d].todo :
                call' = [call EXCEPT ![d].todo = @ \ {p},
                                     ![d].clean = @ /\ outcome = "done" /\ p \in snapshots]
          BY <3>1 DEF SnapshotEvicted
        <4> DEFINE done == call[d].clean /\ outcome = "done" /\ p \in snapshots
        <4>2. done \in BOOLEAN /\ call' = [call EXCEPT ![d].todo = @ \ {p}, ![d].clean = done]
          BY <4>1
        <4> HIDE DEF done
        <4> QED
          BY <3>1, <4>2 DEF SnapshotEvicted, At
      <3>2. CASE ArchiveEvicted(d, outcome)
        <4>1. PICK p \in call[d].todo :
                call' = [call EXCEPT ![d].todo = @ \ {p},
                                     ![d].clean = @ /\ outcome = "done" /\ (backend = "ssh" => p \in archives)]
          BY <3>2 DEF ArchiveEvicted
        <4> DEFINE done == call[d].clean /\ outcome = "done" /\ (backend = "ssh" => p \in archives)
        <4>2. done \in BOOLEAN /\ call' = [call EXCEPT ![d].todo = @ \ {p}, ![d].clean = done]
          BY <4>1
        <4> HIDE DEF done
        <4> QED
          BY <3>2, <4>2 DEF ArchiveEvicted
      <3> QED
        BY <1>8, <3>1, <3>2
    <2>2. PICK clean \in BOOLEAN :
            call' = [call EXCEPT ![d].todo = @ \ {p}, ![d].clean = clean]
      BY <2>1
    <2> DEFINE r == [call[d] EXCEPT !.todo = call[d].todo \ {p}, !.clean = clean]
    <2>3. r \in Calling /\ r.stage = call[d].stage
      BY <1>1 DEF Calling
    <2>4. call' = [call EXCEPT ![d] = r]
      BY <2>2
    <2> HIDE DEF r
    <2> QED
      BY <1>7, <2>1, <2>3, <2>4
  <1>9. ASSUME NEW d \in CallIds,
               EarlyEvictionsDone(d) \/ TaskStopped(d) \/ TaskDeadline(d)
        PROVE  FALSE
    <2>1. \E stage \in {"create", "failed", "relist", "pending"} : Goes(d, stage)
      BY <1>9 DEF EarlyEvictionsDone, TaskStopped, TaskDeadline
    <2> QED
      BY <1>5, <2>1
  <1>10. ASSUME NEW d \in CallIds, NEW fails \in BOOLEAN, Relist(d, fails)
         PROVE  FALSE
    <2>1. \E clean, todo :
            call' = [call EXCEPT ![d].stage = "evict", ![d].clean = clean, ![d].todo = todo]
      BY <1>10 DEF Relist
    <2>2. call'[c].stage \in {call[c].stage, "evict"}
      BY <1>1, <2>1 DEF Calling
    <2> QED
      BY <1>1, <2>2
  <1>11. call' # call
    BY <1>1
  <1>12. ~\E d \in CallIds, ok \in BOOLEAN : NodeVzdump(d, ok)
    BY <1>11 DEF NodeVzdump
  <1>13. ~\E t \in tasks, ok \in BOOLEAN : NodeRuns(t, ok)
    <2>1. ASSUME NEW t \in tasks, NEW ok \in BOOLEAN, NodeRuns(t, ok) PROVE FALSE
      <3>1. call' = [call EXCEPT ![t[1]].kept = TRUE]
        BY <1>11, <2>1 DEF NodeRuns
      <3>2. call'[c] = call[c] \/ call'[c] = [call[c] EXCEPT !.kept = TRUE]
        BY <1>1, <3>1
      <3> QED
        BY <1>1, <3>2 DEF Calling
    <2> QED
      BY <2>1
  <1>14. ~GuestTurns
    <2>1. ASSUME GuestTurns PROVE call'[c] = [call[c] EXCEPT !.alone = FALSE]
      BY <2>1 DEF GuestTurns, Disturbed
    <2> QED
      BY <1>2, <2>1
  <1>15. PICK d \in CallIds : Handler(d)
    BY <1>4, <1>12, <1>13, <1>14 DEF OpsNext
  <1>16. \/ EvictionsDone(d) \/ WaitForGuestRunning(d)
         \/ \E outcome \in Outcomes :
               \/ SnapshotDeleted(d, outcome) \/ StopGuest(d, outcome) \/ Restore(d, outcome)
               \/ StartGuest(d, outcome) \/ RebootGuest(d, outcome)
    BY <1>6, <1>8, <1>9, <1>10, <1>15 DEF Handler
  <1>17. \E stage : Goes(d, stage)
    BY <1>16 DEF EvictionsDone, WaitForGuestRunning, SnapshotDeleted, StopGuest, Restore,
                 StartGuest, RebootGuest, Queue
  <1> QED
    BY <1>5, <1>16, <1>17

\* A create that is alone and whose evictions all worked leaves no more points than the cap,
\* whatever earlier creates left behind, for every cap; over the API that counts without the
\* archives whose deletion is queued, and none of the call's own may have failed.
THEOREM CapsAreRestored == OpsSpec => CapIsRestored
  <1>1. OpsIInv /\ [OpsNext]_opsVars =>
          [\A c \in CallIds :
             InFlight(c) /\ call[c].alone /\ call[c].clean /\ call'[c].stage = "ok" =>
                /\ call[c].op = "snapshot_create" =>
                      Cardinality(Owned(snapshots')) <= AtLeastOne(SnapshotCap)
                /\ call[c].op = "guest_backup" /\ ~call[c].kept =>
                      Cardinality(Owned(archives') \ Deleting') <= AtLeastOne(ArchiveCap)]_opsVars
    <2> SUFFICES ASSUME OpsIInv, OpsNext, NEW c \in CallIds, InFlight(c), call[c].alone,
                        call[c].clean, call'[c].stage = "ok",
                        call[c].op \in {"snapshot_create", "guest_backup"}
                 PROVE  /\ call[c].op = "snapshot_create" =>
                              Cardinality(Owned(snapshots')) <= AtLeastOne(SnapshotCap)
                        /\ call[c].op = "guest_backup" /\ ~call[c].kept =>
                              Cardinality(Owned(archives') \ Deleting') <= AtLeastOne(ArchiveCap)
      OBVIOUS
    <2>1. CallFits(c) /\ AloneFits(c)
      BY DEF OpsIInv
    <2>2. call[c].stage \notin {"stop", "restore", "start", "wait"}
      BY <2>1 DEF CallFits, Course, Restores
    <2>3. EvictionsDone(c)
      BY <2>2, WhoEnds DEF WaitForGuestRunning, SnapshotDeleted, StopGuest, Restore, StartGuest,
                           RebootGuest, At
    <2>4. /\ call[c].stage = "evict" /\ call[c].todo = {}
          /\ snapshots' = snapshots /\ archives' = archives /\ Deleting' = Deleting
      BY <2>3 DEF EvictionsDone, node, Deleting
    <2>5. Owned(snapshots) \ {} = Owned(snapshots) /\ Doomed(c) = Deleting
      BY <2>4 DEF Doomed
    <2> QED
      BY <2>1, <2>4, <2>5 DEF AloneFits, CreateFits, BackupFits
  <1> QED
    BY <1>1, OpsInvariance, PTL DEF OpsSpec, CapIsRestored

\* A restore that the server waited for and reports as done has put the point on the disk and
\* left the guest in the power state it found, unless somebody else interfered.
THEOREM SuccessesAreReal == OpsSpec => SuccessIsReal
  <1>1. OpsIInv /\ [OpsNext]_opsVars =>
          [\A c \in CallIds :
             /\ call[c].op \in {"snapshot_rollback", "guest_backup_restore"} /\ Blocks(c)
             /\ InFlight(c) /\ call[c].alone /\ call'[c].stage = "ok"
             => disk' = call[c].point /\ (power' = "running" <=> call[c].was)]_opsVars
    <2> SUFFICES ASSUME OpsIInv, OpsNext, NEW c \in CallIds, call[c].op \in Restores, Blocks(c),
                        InFlight(c), call[c].alone, call'[c].stage = "ok"
                 PROVE  disk' = call[c].point /\ (power' = "running" <=> call[c].was)
      BY DEF Restores
    <2>1. CallFits(c) /\ RestoreFits(c) /\ call[c] \in Calling /\ call \in [CallIds -> Calling]
          /\ NodeTypeOK
      BY DEF OpsIInv, OpsTypeOK, AloneFits
    <2>2. ASSUME NEW stage, Goes(c, stage) PROVE stage = "ok"
      BY <2>1, <2>2 DEF Goes, Calling
    <2>3. CASE WaitForGuestRunning(c)
      <3>1. call[c].stage = "wait" /\ power = "running" /\ power' = power /\ disk' = disk
        BY <2>2, <2>3 DEF WaitForGuestRunning, At, node
      <3> QED
        BY <2>1, <3>1 DEF RestoreFits
    <2>4. ASSUME NEW outcome \in Outcomes, StopGuest(c, outcome) PROVE FALSE
      <3>1. Goes(c, "restore") \/ Goes(c, "failed")
        BY <2>4 DEF StopGuest, Restores
      <3> QED
        BY <2>2, <3>1
    <2>5. ASSUME NEW outcome \in Outcomes, Restore(c, outcome)
          PROVE  disk' = call[c].point /\ (power' = "running" <=> call[c].was)
      <3>1. /\ call[c].stage = "restore" /\ power' = power
            /\ disk' = IF CanRestore(call[c].point) /\ outcome # "failed" THEN call[c].point ELSE disk
            /\ Goes(c, IF CanRestore(call[c].point) /\ outcome = "done" THEN AfterRestore(c) ELSE "failed")
        BY <2>5 DEF Restore
      <3>2. CanRestore(call[c].point) /\ outcome = "done" /\ AfterRestore(c) = "ok"
        BY <2>2, <3>1
      <3>3. ~call[c].was
        BY <3>2 DEF AfterRestore
      <3>4. power = "stopped"
        BY <2>1, <3>1 DEF RestoreFits
      <3> QED
        BY <3>1, <3>2, <3>3, <3>4
    <2>6. ASSUME NEW outcome \in Outcomes, StartGuest(c, outcome)
          PROVE  disk' = call[c].point /\ (power' = "running" <=> call[c].was)
      <3>1. call[c].stage = "start" /\ disk' = disk
        BY <2>6 DEF StartGuest
      <3>2. call[c].op # "snapshot_rollback"
        <4>1. call[c].op = "snapshot_rollback" => Goes(c, "wait")
          BY <2>6 DEF StartGuest
        <4> QED
          BY <2>2, <4>1
      <3>3. /\ power' = IF outcome = "failed" THEN power ELSE "running"
            /\ Goes(c, IF outcome = "done" THEN "ok" ELSE "failed")
        BY <2>6, <3>2 DEF StartGuest
      <3>4. power' = "running"
        BY <2>2, <3>3
      <3> QED
        BY <2>1, <3>1, <3>4 DEF RestoreFits
    <2>7. call[c].stage # "evict" /\ call[c].op # "guest_restart" /\ call[c].op # "snapshot_delete"
      BY <2>1 DEF CallFits, Course, Restores
    <2> QED
      BY <2>3, <2>4, <2>5, <2>6, <2>7, WhoEnds DEF EvictionsDone, SnapshotDeleted, RebootGuest, At
  <1> QED
    BY <1>1, OpsInvariance, PTL DEF OpsSpec, SuccessIsReal

=============================================================================
