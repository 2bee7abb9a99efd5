------------------------ MODULE CriticalSectionProofs ------------------------
(***************************************************************************)
(* Proofs about CriticalSection for every number of schedulers, task       *)
(* instances, pools and limits, when the database supports row locks: what *)
(* the sums and counts of the critical section are, which choice it makes, *)
(* the types, the limits that hold, and that priorities are kept.          *)
(***************************************************************************)
EXTENDS CriticalSection, FiniteSetTheorems, WellFoundedInduction, TLAPS

-----------------------------------------------------------------------------
(* Sums of pool slots and counts over sets of TIs.                         *)

\* A count plus nothing, beside a bound on the count.
LEMMA AddNothing == \A a, z \in Nat : \A l \in Int : a <= l /\ z = 0 => a + z <= l
  OBVIOUS

\* A part may stand in for the whole under a bound on a sum, strict or not.
LEMMA AddPart ==
  \A a, c, e \in Nat : \A l \in Int :
    /\ e + c <= l /\ a <= e => a + c <= l
    /\ c + e < l /\ a <= e => c + a < l
  OBVIOUS

\* What is within the open slots fits beside what they leave room for.
LEMMA AddOpen ==
  \A a, c \in Nat : \A o, l \in Int : o + a <= l /\ c <= o => a + c <= l
  OBVIOUS

\* A bound on a number bounds what is no larger than the number.
LEMMA BoundPart == \A a, b \in Nat : \A l \in Int : a <= b /\ b <= l => a <= l
  OBVIOUS

\* The slots of a set of TIs are finitely many, and a larger set has no fewer.
LEMMA SumSlotsMonotone ==
  ASSUME NEW S \in SUBSET TI, NEW T \in SUBSET S
  PROVE  /\ IsFiniteSet(SlotUnits(S)) /\ IsFiniteSet(SlotUnits(T))
         /\ SumSlots(S) \in Nat /\ SumSlots(T) \in Nat
         /\ SumSlots(T) <= SumSlots(S)
<1>1. IsFiniteSet(S)
  BY CSAssumption, FS_Subset
<1>2. IsFiniteSet(1..MaxPoolSlots)
  BY CSAssumption, FS_Interval
<1>3. IsFiniteSet(S \X (1..MaxPoolSlots))
  BY <1>1, <1>2, FS_Product, Zenon
<1>4. IsFiniteSet(SlotUnits(S))
  BY <1>3, FS_Subset DEF SlotUnits
<1>5. SlotUnits(T) \in SUBSET SlotUnits(S)
  BY DEF SlotUnits
<1>6. QED
  BY <1>4, <1>5, FS_Subset, FS_CardinalityType DEF SumSlots

\* The slots of two disjoint sets of TIs add up.
LEMMA SumSlotsUnion ==
  ASSUME NEW S \in SUBSET TI, NEW T \in SUBSET TI, S \cap T = {}
  PROVE  SumSlots(S \cup T) = SumSlots(S) + SumSlots(T)
<1>1. SlotUnits(S \cup T) = SlotUnits(S) \cup SlotUnits(T)
  BY DEF SlotUnits
<1>2. SlotUnits(S) \cap SlotUnits(T) = {}
  BY DEF SlotUnits
<1>3. IsFiniteSet(SlotUnits(S)) /\ IsFiniteSet(SlotUnits(T))
  BY SumSlotsMonotone
<1>4. Cardinality(SlotUnits(S)) \in Nat /\ Cardinality(SlotUnits(T)) \in Nat
  BY <1>3, FS_CardinalityType
<1>5. Cardinality(SlotUnits(S) \cup SlotUnits(T)) =
        Cardinality(SlotUnits(S)) + Cardinality(SlotUnits(T)) - Cardinality({})
  BY <1>2, <1>3, FS_Union
<1>6. Cardinality({}) = 0
  BY FS_EmptySet
<1>7. SumSlots(S \cup T) = Cardinality(SlotUnits(S) \cup SlotUnits(T))
  BY <1>1, Zenon DEF SumSlots
<1>8. QED
  BY <1>4, <1>5, <1>6, <1>7 DEF SumSlots

\* A single TI occupies its pool_slots.
LEMMA SumSlotsSingle ==
  ASSUME NEW t \in TI
  PROVE  SumSlots({t}) = pool_slots[t] /\ pool_slots[t] \in Nat
<1>1. pool_slots[t] \in 1..MaxPoolSlots /\ MaxPoolSlots \in Nat
  BY CSAssumption
<1>2. SlotUnits({t}) = {t} \X (1..pool_slots[t])
  BY <1>1 DEF SlotUnits
<1>3. IsFiniteSet({t}) /\ Cardinality({t}) = 1
  BY FS_Singleton
<1>4. IsFiniteSet(1..pool_slots[t]) /\ Cardinality(1..pool_slots[t]) = pool_slots[t]
  BY <1>1, FS_Interval
<1>5. Cardinality({t} \X (1..pool_slots[t])) =
        Cardinality({t}) * Cardinality(1..pool_slots[t])
  BY <1>3, <1>4, FS_Product, Zenon
<1>6. SumSlots({t}) = Cardinality({t}) * Cardinality(1..pool_slots[t])
  BY <1>2, <1>5, Zenon DEF SumSlots
<1>7. QED
  BY <1>1, <1>3, <1>4, <1>6

\* Counting TIs: finite, monotone, and additive on disjoint sets.
LEMMA CountMonotone ==
  ASSUME NEW S \in SUBSET TI, NEW T \in SUBSET S
  PROVE  /\ IsFiniteSet(S) /\ IsFiniteSet(T)
         /\ Cardinality(S) \in Nat /\ Cardinality(T) \in Nat
         /\ Cardinality(T) <= Cardinality(S)
  BY CSAssumption, FS_Subset, FS_CardinalityType

\* Counts of disjoint sets of TIs add up.
LEMMA CountUnion ==
  ASSUME NEW S \in SUBSET TI, NEW T \in SUBSET TI, S \cap T = {}
  PROVE  Cardinality(S \cup T) = Cardinality(S) + Cardinality(T)
<1>1. IsFiniteSet(S) /\ IsFiniteSet(T) /\ Cardinality(S) \in Nat /\ Cardinality(T) \in Nat
  BY CountMonotone
<1>2. Cardinality(S \cup T) = Cardinality(S) + Cardinality(T) - Cardinality({})
  BY <1>1, FS_Union
<1>3. QED
  BY <1>1, <1>2, FS_EmptySet

\* A nonempty set of rows has one that the loop visits last.
LEMMA LastVisited ==
  ASSUME NEW E \in SUBSET TI, NEW ord \in [E -> 1..Cardinality(E)],
         NEW C \in SUBSET E, C # {}
  PROVE  \E t \in C : \A u \in C : ord[u] <= ord[t]
<1> DEFINE N == Cardinality(E)
           left(u) == N - ord[u]
           L == {left(u) : u \in C}
           R == {ss \in Nat \X Nat : ss[1] < ss[2]}
<1>1. N \in Nat
  BY CountMonotone
<1>2. \A u \in C : ord[u] \in Int /\ left(u) \in Nat
  BY <1>1
<1>3. L \subseteq Nat /\ L # {}
  BY <1>2
<1>4. IsWellFoundedOn(R, Nat)
  BY NatLessThanWellFounded DEF OpToRel
<1>5. PICK x \in L : \A y \in L : ~(<<y, x>> \in R)
  BY <1>3, <1>4, WFMin, Zenon
<1>6. PICK t \in C : x = left(t)
  BY <1>5
<1>7. ASSUME NEW u \in C PROVE ord[u] <= ord[t]
  <2>1. left(u) \in L /\ left(u) \in Nat /\ left(t) \in Nat
    BY <1>2
  <2>2. ~(left(u) < left(t))
    BY <2>1, <1>5, <1>6, Zenon
  <2>3. QED
    BY <2>1, <2>2, <1>1, <1>2
<1>8. QED
  BY <1>7

-----------------------------------------------------------------------------
(* The loop of _executable_task_instances_to_queued.                       *)

(* What the loop chooses from a pool fits the open slots it started from,  *)
(* and what it chooses of a DAG or a task fits the limit after what is     *)
(* executing: the last TI chosen was checked against all the others.       *)
LEMMA ChoiceFits ==
  ASSUME NEW s \in Scheduler, NEW E \in SUBSET TI,
         NEW ord \in ProcessingOrders(E), NEW C \in SUBSET E,
         open[s] \in [Pool -> Int], IsExecutable(s, E, ord, C)
  PROVE  /\ \A p \in Pool : ~Infinite(p) /\ InPool(C, p) # {} =>
              SumSlots(InPool(C, p)) <= open[s][p]
         /\ \A d \in Dag : OfDag(C, d) # {} =>
              Cardinality(OfDag(Executing, d)) + Cardinality(OfDag(C, d))
                <= max_active_tasks[d]
         /\ \A k \in Task : OfTask(C, k) # {} =>
              \/ task_concurrency[k] = NoLimit
              \/ Cardinality(OfTask(Executing, k)) + Cardinality(OfTask(C, k))
                   <= task_concurrency[k]
<1> DEFINE before(t) == {u \in C : ord[u] < ord[t]}
<1>1. /\ ord \in [E -> 1..Cardinality(E)]
      /\ \A u, t \in E : u # t => ord[u] # ord[t]
  BY DEF ProcessingOrders
<1>2. Cardinality(E) \in Nat
  BY CountMonotone
<1>3. \A t \in C : ord[t] \in Int
  BY <1>1, <1>2
<1>4. \A t \in C : Fits(s, t, before(t))
  BY DEF IsExecutable
<1>5. ASSUME NEW D \in SUBSET C, D # {}
      PROVE  \E t \in D : D = (D \cap before(t)) \cup {t} /\ t \notin before(t)
  <2>1. D \in SUBSET E
    OBVIOUS
  <2>2. PICK t \in D : \A u \in D : ord[u] <= ord[t]
    BY <1>1, <2>1, <1>5, LastVisited
  <2>3. \A u \in D : u # t => ord[u] < ord[t]
    BY <2>2, <1>1, <1>3, <2>1
  <2>4. ~(ord[t] < ord[t])
    BY <1>3
  <2>5. QED
    BY <2>2, <2>3, <2>4
<1>6. ASSUME NEW p \in Pool, ~Infinite(p), InPool(C, p) # {}
      PROVE  SumSlots(InPool(C, p)) <= open[s][p]
  <2> DEFINE D == InPool(C, p)
  <2>1. D \in SUBSET C /\ D # {}
    BY <1>6 DEF InPool
  <2>2. PICK t \in D : D = (D \cap before(t)) \cup {t} /\ t \notin before(t)
    BY <2>1, <1>5
  <2>3. D \cap before(t) = InPool(before(t), p) /\ pool[t] = p /\ t \in C /\ t \in TI
    BY DEF InPool
  <2>4. D = InPool(before(t), p) \cup {t} /\ InPool(before(t), p) \cap {t} = {}
    BY <2>2, <2>3 DEF InPool
  <2>5. InPool(before(t), p) \in SUBSET TI /\ {t} \in SUBSET TI
    BY <2>3 DEF InPool
  <2>6. SumSlots(InPool(before(t), p) \cup {t}) = SumSlots(InPool(before(t), p)) + SumSlots({t})
    BY <2>4, <2>5, SumSlotsUnion
  <2>7. SumSlots(D) = SumSlots(InPool(before(t), p) \cup {t})
    BY <2>4, Zenon
  <2>8. pool_slots[t] <= open[s][p] - SumSlots(InPool(before(t), p))
    BY <1>4, <1>6, <2>3, Zenon DEF Fits
  <2>9. SumSlots({t}) = pool_slots[t] /\ pool_slots[t] \in Nat
    BY <2>3, SumSlotsSingle
  <2>10. SumSlots(InPool(before(t), p)) \in Nat /\ open[s][p] \in Int
    BY <2>5, SumSlotsMonotone
  <2> HIDE DEF D, before
  <2>11. SumSlots(D) <= open[s][p]
    BY <2>6, <2>7, <2>8, <2>9, <2>10
  <2> QED
    BY <2>11 DEF D
<1>7. ASSUME NEW d \in Dag, OfDag(C, d) # {}
      PROVE  Cardinality(OfDag(Executing, d)) + Cardinality(OfDag(C, d))
               <= max_active_tasks[d]
  <2> DEFINE D == OfDag(C, d)
  <2>1. D \in SUBSET C /\ D # {}
    BY <1>7 DEF OfDag
  <2>2. PICK t \in D : D = (D \cap before(t)) \cup {t} /\ t \notin before(t)
    BY <2>1, <1>5
  <2>3. D \cap before(t) = OfDag(before(t), d) /\ dag_id[t] = d /\ t \in C /\ t \in TI
    BY DEF OfDag
  <2>4. D = OfDag(before(t), d) \cup {t} /\ OfDag(before(t), d) \cap {t} = {}
    BY <2>2, <2>3 DEF OfDag
  <2>5. OfDag(before(t), d) \in SUBSET TI /\ {t} \in SUBSET TI
    BY <2>3 DEF OfDag
  <2>6. Cardinality(OfDag(before(t), d) \cup {t}) = Cardinality(OfDag(before(t), d)) + Cardinality({t})
    BY <2>4, <2>5, CountUnion
  <2>7. Cardinality(D) = Cardinality(OfDag(before(t), d) \cup {t})
    BY <2>4, Zenon
  <2>8. Cardinality(OfDag(Executing, d)) + Cardinality(OfDag(before(t), d)) < max_active_tasks[d]
    BY <1>4, <2>3 DEF Fits
  <2>9. Cardinality({t}) = 1
    BY FS_Singleton
  <2>10. OfDag(Executing, d) \in SUBSET TI
    BY DEF OfDag, Executing
  <2>11. Cardinality(OfDag(Executing, d)) \in Nat /\ Cardinality(OfDag(before(t), d)) \in Nat
    BY <2>5, <2>10, CountMonotone
  <2>12. max_active_tasks[d] \in Nat
    BY CSAssumption
  <2> HIDE DEF D, before
  <2>13. Cardinality(OfDag(Executing, d)) + Cardinality(D) <= max_active_tasks[d]
    BY <2>6, <2>7, <2>8, <2>9, <2>11, <2>12
  <2> QED
    BY <2>13 DEF D
<1>8. ASSUME NEW k \in Task, OfTask(C, k) # {}, task_concurrency[k] # NoLimit
      PROVE  Cardinality(OfTask(Executing, k)) + Cardinality(OfTask(C, k))
               <= task_concurrency[k]
  <2> DEFINE D == OfTask(C, k)
  <2>1. D \in SUBSET C /\ D # {}
    BY <1>8, ZenonT(40) DEF OfTask
  <2>2. PICK t \in D : D = (D \cap before(t)) \cup {t} /\ t \notin before(t)
    BY <2>1, <1>5
  <2>3. D \cap before(t) = OfTask(before(t), k) /\ task_id[t] = k /\ t \in C /\ t \in TI
    BY DEF OfTask
  <2>4. D = OfTask(before(t), k) \cup {t} /\ OfTask(before(t), k) \cap {t} = {}
    BY <2>2, <2>3 DEF OfTask
  <2>5. OfTask(before(t), k) \in SUBSET TI /\ {t} \in SUBSET TI
    BY <2>3 DEF OfTask
  <2>6. Cardinality(OfTask(before(t), k) \cup {t}) = Cardinality(OfTask(before(t), k)) + Cardinality({t})
    BY <2>4, <2>5, CountUnion
  <2>7. Cardinality(D) = Cardinality(OfTask(before(t), k) \cup {t})
    BY <2>4, Zenon
  <2>8. Cardinality(OfTask(Executing, k)) + Cardinality(OfTask(before(t), k)) < task_concurrency[k]
    BY <1>4, <1>8, <2>3 DEF Fits
  <2>9. Cardinality({t}) = 1
    BY FS_Singleton
  <2>10. OfTask(Executing, k) \in SUBSET TI
    BY DEF OfTask, Executing
  <2>11. Cardinality(OfTask(Executing, k)) \in Nat /\ Cardinality(OfTask(before(t), k)) \in Nat
    BY <2>5, <2>10, CountMonotone
  <2>12. task_concurrency[k] \in Nat
    BY <1>8, CSAssumption
  <2> HIDE DEF D, before
  <2>13. Cardinality(OfTask(Executing, k)) + Cardinality(D) <= task_concurrency[k]
    BY <2>6, <2>7, <2>8, <2>9, <2>11, <2>12
  <2> QED
    BY <2>13 DEF D
<1>9. QED
  BY <1>6, <1>7, <1>8

-----------------------------------------------------------------------------
(* The limits, as the set of booked TIs shrinks and grows.                 *)

\* The sums and counts of one pool, DAG or task: natural numbers, monotone.
LEMMA PartsMonotone ==
  ASSUME NEW S \in SUBSET TI, NEW T \in SUBSET S, NEW x
  PROVE  /\ SumSlots(InPool(S, x)) \in Nat /\ SumSlots(InPool(T, x)) \in Nat
         /\ SumSlots(InPool(T, x)) <= SumSlots(InPool(S, x))
         /\ Cardinality(OfDag(S, x)) \in Nat /\ Cardinality(OfDag(T, x)) \in Nat
         /\ Cardinality(OfDag(T, x)) <= Cardinality(OfDag(S, x))
         /\ Cardinality(OfTask(S, x)) \in Nat /\ Cardinality(OfTask(T, x)) \in Nat
         /\ Cardinality(OfTask(T, x)) <= Cardinality(OfTask(S, x))
<1>1. InPool(S, x) \in SUBSET TI /\ InPool(T, x) \in SUBSET InPool(S, x)
  BY DEF InPool
<1>2. OfDag(S, x) \in SUBSET TI /\ OfDag(T, x) \in SUBSET OfDag(S, x)
  BY DEF OfDag
<1>3. OfTask(S, x) \in SUBSET TI /\ OfTask(T, x) \in SUBSET OfTask(S, x)
  BY DEF OfTask
<1>4. QED
  BY <1>1, <1>2, <1>3, SumSlotsMonotone, CountMonotone

\* The sums and counts of disjoint sets add up, pool by pool and so on.
LEMMA PartsUnion ==
  ASSUME NEW S \in SUBSET TI, NEW T \in SUBSET TI, S \cap T = {}, NEW x
  PROVE  /\ SumSlots(InPool(S \cup T, x)) = SumSlots(InPool(S, x)) + SumSlots(InPool(T, x))
         /\ Cardinality(OfDag(S \cup T, x)) = Cardinality(OfDag(S, x)) + Cardinality(OfDag(T, x))
         /\ Cardinality(OfTask(S \cup T, x)) = Cardinality(OfTask(S, x)) + Cardinality(OfTask(T, x))
<1>1. SumSlots(InPool(S \cup T, x)) = SumSlots(InPool(S, x)) + SumSlots(InPool(T, x))
  <2>1. InPool(S \cup T, x) = InPool(S, x) \cup InPool(T, x)
    BY DEF InPool
  <2>2. InPool(S, x) \in SUBSET TI /\ InPool(T, x) \in SUBSET TI /\ InPool(S, x) \cap InPool(T, x) = {}
    BY DEF InPool
  <2>3. SumSlots(InPool(S, x) \cup InPool(T, x)) = SumSlots(InPool(S, x)) + SumSlots(InPool(T, x))
    BY <2>2, SumSlotsUnion
  <2>4. QED
    BY <2>1, <2>3, Zenon
<1>2. Cardinality(OfDag(S \cup T, x)) = Cardinality(OfDag(S, x)) + Cardinality(OfDag(T, x))
  <2>1. OfDag(S \cup T, x) = OfDag(S, x) \cup OfDag(T, x)
    BY DEF OfDag
  <2>2. OfDag(S, x) \in SUBSET TI /\ OfDag(T, x) \in SUBSET TI /\ OfDag(S, x) \cap OfDag(T, x) = {}
    BY DEF OfDag
  <2>3. Cardinality(OfDag(S, x) \cup OfDag(T, x)) = Cardinality(OfDag(S, x)) + Cardinality(OfDag(T, x))
    BY <2>2, CountUnion
  <2>4. QED
    BY <2>1, <2>3, Zenon
<1>3. Cardinality(OfTask(S \cup T, x)) = Cardinality(OfTask(S, x)) + Cardinality(OfTask(T, x))
  <2>1. OfTask(S \cup T, x) = OfTask(S, x) \cup OfTask(T, x)
    BY DEF OfTask
  <2>2. OfTask(S, x) \in SUBSET TI /\ OfTask(T, x) \in SUBSET TI /\ OfTask(S, x) \cap OfTask(T, x) = {}
    BY DEF OfTask
  <2>3. Cardinality(OfTask(S, x) \cup OfTask(T, x)) = Cardinality(OfTask(S, x)) + Cardinality(OfTask(T, x))
    BY <2>2, CountUnion
  <2>4. QED
    BY <2>1, <2>3, Zenon
<1>4. QED
  BY <1>1, <1>2, <1>3

\* Every limit is an integer.
LEMMA LimitTypes ==
  /\ \A p \in Pool : slots[p] \in Int
  /\ \A d \in Dag : max_active_tasks[d] \in Int
  /\ \A k \in Task : task_concurrency[k] \in Int
  BY CSAssumption DEF NoLimit

\* Fewer booked TIs stay within the limits, and leave what was open open.
LEMMA FewerFit ==
  ASSUME NEW B \in SUBSET TI, NEW B2 \in SUBSET B, NEW C \in SUBSET TI
  PROVE  /\ WithinLimits(B, C) => WithinLimits(B2, C)
         /\ \A o \in [Pool -> Int] : StillOpen(o, B) => StillOpen(o, B2)
<1>1. ASSUME NEW x
      PROVE  /\ SumSlots(InPool(B, x)) \in Nat /\ SumSlots(InPool(B2, x)) \in Nat
             /\ SumSlots(InPool(B2, x)) <= SumSlots(InPool(B, x))
             /\ Cardinality(OfDag(B, x)) \in Nat /\ Cardinality(OfDag(B2, x)) \in Nat
             /\ Cardinality(OfDag(B2, x)) <= Cardinality(OfDag(B, x))
             /\ Cardinality(OfTask(B, x)) \in Nat /\ Cardinality(OfTask(B2, x)) \in Nat
             /\ Cardinality(OfTask(B2, x)) <= Cardinality(OfTask(B, x))
  BY PartsMonotone
<1>2. ASSUME NEW x
      PROVE  /\ SumSlots(InPool(C, x)) \in Nat
             /\ Cardinality(OfDag(C, x)) \in Nat /\ Cardinality(OfTask(C, x)) \in Nat
  BY PartsMonotone
<1>3. ASSUME WithinLimits(B, C) PROVE WithinLimits(B2, C)
  <2>1. ASSUME NEW p \in Pool, ~Infinite(p)
        PROVE  SumSlots(InPool(B2, p)) + SumSlots(InPool(C, p)) <= slots[p]
    <3>1. SumSlots(InPool(B, p)) + SumSlots(InPool(C, p)) <= slots[p]
      BY <1>3, <2>1 DEF WithinLimits
    <3>2. /\ SumSlots(InPool(B, p)) \in Nat /\ SumSlots(InPool(B2, p)) \in Nat /\ SumSlots(InPool(C, p)) \in Nat
          /\ SumSlots(InPool(B2, p)) <= SumSlots(InPool(B, p))
      BY <1>1, <1>2
    <3>3. slots[p] \in Int
      BY LimitTypes
    <3>4. QED
      BY <3>1, <3>2, <3>3, AddPart, Zenon
  <2>2. ASSUME NEW d \in Dag
        PROVE  Cardinality(OfDag(B2, d)) + Cardinality(OfDag(C, d)) <= max_active_tasks[d]
    <3>1. Cardinality(OfDag(B, d)) + Cardinality(OfDag(C, d)) <= max_active_tasks[d]
      BY <1>3, <2>2 DEF WithinLimits
    <3>2. /\ Cardinality(OfDag(B, d)) \in Nat /\ Cardinality(OfDag(B2, d)) \in Nat /\ Cardinality(OfDag(C, d)) \in Nat
          /\ Cardinality(OfDag(B2, d)) <= Cardinality(OfDag(B, d))
      BY <1>1, <1>2
    <3>3. max_active_tasks[d] \in Int
      BY LimitTypes
    <3>4. QED
      BY <3>1, <3>2, <3>3, AddPart, Zenon
  <2>3. ASSUME NEW k \in Task, task_concurrency[k] # NoLimit
        PROVE  Cardinality(OfTask(B2, k)) + Cardinality(OfTask(C, k)) <= task_concurrency[k]
    <3>1. Cardinality(OfTask(B, k)) + Cardinality(OfTask(C, k)) <= task_concurrency[k]
      BY <1>3, <2>3 DEF WithinLimits
    <3>2. /\ Cardinality(OfTask(B, k)) \in Nat /\ Cardinality(OfTask(B2, k)) \in Nat /\ Cardinality(OfTask(C, k)) \in Nat
          /\ Cardinality(OfTask(B2, k)) <= Cardinality(OfTask(B, k))
      BY <1>1, <1>2
    <3>3. task_concurrency[k] \in Int
      BY LimitTypes
    <3>4. QED
      BY <3>1, <3>2, <3>3, AddPart, Zenon
  <2>4. QED
    BY <2>1, <2>2, <2>3 DEF WithinLimits
<1>4. \A o \in [Pool -> Int] : StillOpen(o, B) => StillOpen(o, B2)
  BY <1>1, LimitTypes DEF StillOpen
<1>5. QED
  BY <1>3, <1>4

\* Booking the chosen TIs beside the booked ones stays within the limits.
LEMMA JoinFits ==
  ASSUME NEW B \in SUBSET TI, NEW C \in SUBSET TI, B \cap C = {},
         NEW B2 \in SUBSET (B \cup C), WithinLimits(B, C)
  PROVE  /\ \A p \in Pool : ~Infinite(p) => SumSlots(InPool(B2, p)) <= slots[p]
         /\ \A d \in Dag : Cardinality(OfDag(B2, d)) <= max_active_tasks[d]
         /\ \A k \in Task : \/ task_concurrency[k] = NoLimit
                            \/ Cardinality(OfTask(B2, k)) <= task_concurrency[k]
<1>1. B \cup C \in SUBSET TI
  OBVIOUS
<1>2. ASSUME NEW p \in Pool, ~Infinite(p)
      PROVE  SumSlots(InPool(B2, p)) <= slots[p]
  <2>1. SumSlots(InPool(B, p)) + SumSlots(InPool(C, p)) <= slots[p]
    BY <1>2 DEF WithinLimits
  <2>2. SumSlots(InPool(B \cup C, p)) = SumSlots(InPool(B, p)) + SumSlots(InPool(C, p))
    BY PartsUnion
  <2>3. SumSlots(InPool(B \cup C, p)) <= slots[p]
    BY <2>1, <2>2, Zenon
  <2>4. /\ SumSlots(InPool(B2, p)) <= SumSlots(InPool(B \cup C, p))
        /\ SumSlots(InPool(B2, p)) \in Nat /\ SumSlots(InPool(B \cup C, p)) \in Nat
    BY <1>1, PartsMonotone
  <2>5. slots[p] \in Int
    BY LimitTypes
  <2>6. QED
    BY <2>3, <2>4, <2>5, BoundPart, Zenon
<1>3. ASSUME NEW d \in Dag
      PROVE  Cardinality(OfDag(B2, d)) <= max_active_tasks[d]
  <2>1. Cardinality(OfDag(B, d)) + Cardinality(OfDag(C, d)) <= max_active_tasks[d]
    BY <1>3 DEF WithinLimits
  <2>2. Cardinality(OfDag(B \cup C, d)) = Cardinality(OfDag(B, d)) + Cardinality(OfDag(C, d))
    BY PartsUnion
  <2>3. Cardinality(OfDag(B \cup C, d)) <= max_active_tasks[d]
    BY <2>1, <2>2, Zenon
  <2>4. /\ Cardinality(OfDag(B2, d)) <= Cardinality(OfDag(B \cup C, d))
        /\ Cardinality(OfDag(B2, d)) \in Nat /\ Cardinality(OfDag(B \cup C, d)) \in Nat
    BY <1>1, PartsMonotone
  <2>5. max_active_tasks[d] \in Int
    BY LimitTypes
  <2>6. QED
    BY <2>3, <2>4, <2>5, BoundPart, Zenon
<1>4. ASSUME NEW k \in Task, task_concurrency[k] # NoLimit
      PROVE  Cardinality(OfTask(B2, k)) <= task_concurrency[k]
  <2>1. Cardinality(OfTask(B, k)) + Cardinality(OfTask(C, k)) <= task_concurrency[k]
    BY <1>4 DEF WithinLimits
  <2>2. Cardinality(OfTask(B \cup C, k)) = Cardinality(OfTask(B, k)) + Cardinality(OfTask(C, k))
    BY PartsUnion
  <2>3. Cardinality(OfTask(B \cup C, k)) <= task_concurrency[k]
    BY <2>1, <2>2, Zenon
  <2>4. /\ Cardinality(OfTask(B2, k)) <= Cardinality(OfTask(B \cup C, k))
        /\ Cardinality(OfTask(B2, k)) \in Nat /\ Cardinality(OfTask(B \cup C, k)) \in Nat
    BY <1>1, PartsMonotone
  <2>5. task_concurrency[k] \in Int
    BY LimitTypes
  <2>6. QED
    BY <2>3, <2>4, <2>5, BoundPart, Zenon
<1>5. QED
  BY <1>2, <1>3, <1>4

-----------------------------------------------------------------------------
(* Type correctness, with or without row locks.                            *)

\* The number of open slots over all pools is an integer.
LEMMA SumOpenType ==
  ASSUME \A p \in Pool : ~Infinite(p)
  PROVE  SumOpen \in Int
<1> DEFINE units(p) == {p} \X (1..slots[p])
           U == {units(p) : p \in Pool}
<1>1. IsFiniteSet(U)
  <2> DEFINE f == [p \in Pool |-> units(p)]
  <2>1. f \in Surjection(Pool, U)
    BY Zenon DEF Surjection
  <2> HIDE DEF f, U
  <2>2. IsFiniteSet(Pool)
    BY CSAssumption
  <2>3. QED
    BY <2>1, <2>2, FS_Surjection
<1>2. ASSUME NEW p \in Pool PROVE IsFiniteSet(units(p))
  <2>1. slots[p] \in Nat
    BY CSAssumption DEF Infinite
  <2>2. IsFiniteSet(1..slots[p])
    BY <2>1, FS_Interval
  <2>3. IsFiniteSet({p})
    BY FS_Singleton, Zenon
  <2>4. QED
    BY <2>2, <2>3, FS_Product, Zenon
<1>3. IsFiniteSet(UNION U)
  BY <1>1, <1>2, FS_UNION, Zenon
<1>4. Cardinality(UNION U) \in Nat
  BY <1>3, FS_CardinalityType
<1>5. {t \in Executing : pool[t] \in Pool} \in SUBSET TI
  BY DEF Executing
<1>6. SumSlots({t \in Executing : pool[t] \in Pool}) \in Nat
  BY <1>5, SumSlotsMonotone
<1>7. QED
  BY <1>4, <1>6 DEF SumOpen

\* A finite pool's open slots are an integer, possibly negative.
LEMMA OpenSlotsType ==
  ASSUME NEW p \in Pool
  PROVE  open_slots(p) \in Int
<1>1. InPool(Executing, p) \in SUBSET TI
  BY DEF InPool, Executing
<1>2. SumSlots(InPool(Executing, p)) \in Nat
  BY <1>1, SumSlotsMonotone
<1>3. QED
  BY <1>2, LimitTypes DEF open_slots

\* The LIMIT a scheduler computes is a natural number.
LEMMA LimitType ==
  ASSUME TypeOK, NEW s \in Scheduler, SlotsStats(s)
  PROVE  max_tis' \in [Scheduler -> Nat]
<1>1. maxsize \in Nat
  BY CountMonotone DEF maxsize
<1>2. (\A p \in Pool : ~Infinite(p)) => SumOpen \in Int
  BY SumOpenType
<1> DEFINE unlimited == \E p \in Pool : Infinite(p)
           wanted(n) == IF max_tis_per_query = 0 THEN n ELSE Lesser(max_tis_per_query, n)
<1>3. PICK n \in 1..(IF parallelism = 0 THEN maxsize ELSE parallelism) :
        max_tis' = [max_tis EXCEPT ![s] = IF unlimited THEN wanted(n) ELSE Lesser(wanted(n), pool_slots_free)]
  BY DEF SlotsStats
<1>4. unlimited \/ pool_slots_free \in Nat
  BY <1>2 DEF pool_slots_free
<1>5. wanted(n) \in Nat
  BY <1>1, <1>3, CSAssumption DEF Lesser
<1>6. (IF unlimited THEN wanted(n) ELSE Lesser(wanted(n), pool_slots_free)) \in Nat
  <2> HIDE DEF wanted
  <2> QED
    BY <1>2, <1>4, <1>5 DEF Lesser
<1>7. QED
  BY <1>3, <1>6 DEF TypeOK

\* The states the actions write are task instance states.
LEMMA WrittenStates ==
  {"none", "scheduled", "queued", "running", "restarting"} \subseteq TaskInstanceState
  BY DEF TaskInstanceState

\* A step outside the critical section keeps the type of what that section owns.
LEMMA RowTypeStep ==
  ASSUME TypeOK, UNCHANGED <<paused, csVars>>,
         state' \in [TI -> TaskInstanceState], outside' \in SUBSET TI,
         cmd' \in SUBSET (Job \X TI), check' \in SUBSET (Job \X TI \X {"pass", "requeue"})
  PROVE  TypeOK'
  BY DEF TypeOK, csVars

\* Every step keeps every variable in its type.
LEMMA TypeStep ==
  ASSUME TypeOK, [Next]_vars
  PROVE  TypeOK'
<1> USE DEF Phases, Job
<1>1. ASSUME NEW s \in Scheduler, SlotsStats(s) PROVE TypeOK'
  <2>1. max_tis' \in [Scheduler -> Nat]
    BY <1>1, LimitType
  <2>2. open' \in [Scheduler -> [Pool -> Int]]
    <3>1. [p \in Pool |-> IF Infinite(p) THEN 0 ELSE open_slots(p)] \in [Pool -> Int]
      BY OpenSlotsType
    <3>2. QED
      BY <1>1, <3>1 DEF SlotsStats, TypeOK
  <2>3. QED
    BY <1>1, <2>1, <2>2 DEF SlotsStats, TypeOK
<1>2. ASSUME NEW s \in Scheduler, Examine(s) PROVE TypeOK'
  <2>1. PICK E \in Limited(Selectable(s), max_tis[s]) :
          \/ /\ E # {}
             /\ examined' = [examined EXCEPT ![s] = E]
             /\ phase' = [phase EXCEPT ![s] = "examined"]
             /\ UNCHANGED <<lock, open, max_tis, chosen>>
          \/ /\ E = {}
             /\ EndTransaction(s, "idle")
    BY <1>2 DEF Examine
  <2>2. E \in SUBSET TI
    BY DEF Limited, Selectable
  <2>3. UNCHANGED <<state, outside, paused, cmd, check>>
    BY <1>2, ZenonT(40) DEF Examine
  <2>4. CASE EndTransaction(s, "idle")
    BY <2>3, <2>4 DEF EndTransaction, TypeOK
  <2>5. CASE ~EndTransaction(s, "idle")
    BY <2>1, <2>2, <2>3, <2>5, Zenon DEF TypeOK
  <2>6. QED
    BY <2>4, <2>5
<1>3. ASSUME NEW s \in Scheduler, QueueExecutable(s) PROVE TypeOK'
  BY <1>3 DEF QueueExecutable, TypeOK
<1>4. ASSUME NEW s \in Scheduler, Commit(s) PROVE TypeOK'
  BY <1>4, WrittenStates DEF Commit, EndTransaction, TypeOK
<1>5. ASSUME NEW s \in Scheduler, Crash(s) PROVE TypeOK'
  BY <1>5 DEF Crash, EndTransaction, TypeOK
<1>6. ASSUME NEW t \in TI, WorkerCommit(t) PROVE TypeOK'
  <2>1. state' \in [TI -> TaskInstanceState]
    BY <1>6, WrittenStates DEF WorkerCommit, TypeOK
  <2>2. /\ outside' \in SUBSET TI /\ cmd' \in SUBSET (Job \X TI)
        /\ check' \in SUBSET (Job \X TI \X {"pass", "requeue"})
        /\ UNCHANGED <<paused, csVars>>
    BY <1>6 DEF WorkerCommit, TypeOK
  <2>3. QED
    BY <2>1, <2>2, RowTypeStep
<1>7. ASSUME NEW t \in TI, Finish(t) PROVE TypeOK'
  <2>1. state' \in [TI -> TaskInstanceState]
    BY <1>7, CSAssumption DEF Finish, TypeOK
  <2>2. /\ outside' \in SUBSET TI /\ cmd' \in SUBSET (Job \X TI)
        /\ check' \in SUBSET (Job \X TI \X {"pass", "requeue"})
        /\ UNCHANGED <<paused, csVars>>
    BY <1>7 DEF Finish, TypeOK
  <2>3. QED
    BY <2>1, <2>2, RowTypeStep
<1>8. ASSUME NEW t \in TI, ScheduleTIs(t) PROVE TypeOK'
  BY <1>8, WrittenStates DEF ScheduleTIs, TypeOK, csVars
<1>9. ASSUME NEW j \in Job, NEW t \in TI, WorkerCheck(j, t) PROVE TypeOK'
  BY <1>9 DEF WorkerCheck, TypeOK, csVars
<1>10. ASSUME NEW j \in Job, NEW t \in TI, WorkerRefuse(j, t) PROVE TypeOK'
  BY <1>10 DEF WorkerRefuse, TypeOK, csVars
<1>11. ASSUME NEW t \in TI, Clear(t) PROVE TypeOK'
  <2>1. state' \in [TI -> TaskInstanceState]
    BY <1>11, WrittenStates DEF Clear, TypeOK
  <2>2. /\ outside' \in SUBSET TI /\ cmd' \in SUBSET (Job \X TI)
        /\ check' \in SUBSET (Job \X TI \X {"pass", "requeue"})
        /\ UNCHANGED <<paused, csVars>>
    BY <1>11, ZenonT(40) DEF Clear, TypeOK
  <2>3. QED
    BY <2>1, <2>2, RowTypeStep
<1>12. ASSUME NEW t \in TI, BackfillQueue(t) PROVE TypeOK'
  <2>1. state' \in [TI -> TaskInstanceState]
    BY <1>12, WrittenStates DEF BackfillQueue, TypeOK
  <2>2. /\ outside' \in SUBSET TI /\ cmd' \in SUBSET (Job \X TI)
        /\ check' \in SUBSET (Job \X TI \X {"pass", "requeue"})
        /\ UNCHANGED <<paused, csVars>>
    <3>1. cmd' = cmd \cup {<<Backfill, t>>} /\ cmd \in SUBSET (Job \X TI)
      BY <1>12 DEF BackfillQueue, TypeOK
    <3>2. /\ outside' \in SUBSET TI /\ UNCHANGED <<paused, check, csVars>>
          /\ check \in SUBSET (Job \X TI \X {"pass", "requeue"})
      BY <1>12 DEF BackfillQueue, TypeOK
    <3>3. QED
      BY <3>1, <3>2
  <2>3. QED
    BY <2>1, <2>2, RowTypeStep
<1>13. ASSUME NEW d \in Dag, TogglePaused(d) PROVE TypeOK'
  BY <1>13 DEF TogglePaused, TypeOK, csVars
<1>14. CASE UNCHANGED vars
  BY <1>14 DEF vars, TypeOK
<1>15. QED
  BY <1>1, <1>2, <1>3, <1>4, <1>5, <1>6, <1>7, <1>8, <1>9, <1>10, <1>11,
     <1>12, <1>13, <1>14, CSAssumption DEF Next, Undisturbed

(* Type correctness: in every run of every instance the scheduler's LIMIT  *)
(* is a natural number and every variable keeps its type.                  *)
THEOREM TypeCorrect == Spec => []TypeOK
<1>1. Init => TypeOK
  BY DEF Init, TypeOK, Phases, TaskInstanceState
<1>2. TypeOK /\ [Next]_vars => TypeOK'
  BY TypeStep
<1>3. QED
  BY <1>1, <1>2, PTL DEF Spec

-----------------------------------------------------------------------------
(* The limits hold, on a database with row locks.                          *)

\* What is booked is executing, and both are sets of TIs.
LEMMA BookedType ==
  ASSUME TypeOK
  PROVE  Booked \in SUBSET TI /\ Booked \subseteq Executing /\ Executing \in SUBSET TI
  BY DEF Booked, Executing

(* A step that books nothing keeps the limits.                             *)
LEMMA NothingBooked ==
  ASSUME CSInv, TypeOK', Booked' \subseteq Booked
  PROVE  /\ PoolNotOverbooked' /\ ConcurrencyNotExceeded'
         /\ \A s \in Scheduler :
              /\ StillOpen(open[s], Booked) => StillOpen(open[s], Booked')
              /\ WithinLimits(Booked, chosen[s]) => WithinLimits(Booked', chosen[s])
<1>1. Booked \in SUBSET TI /\ Booked' \in SUBSET Booked
  BY BookedType DEF CSInv
<1>2. \A s \in Scheduler : open[s] \in [Pool -> Int] /\ chosen[s] \in SUBSET TI
  BY DEF CSInv, TypeOK
<1>3. \A s \in Scheduler :
        /\ StillOpen(open[s], Booked) => StillOpen(open[s], Booked')
        /\ WithinLimits(Booked, chosen[s]) => WithinLimits(Booked', chosen[s])
  BY <1>1, <1>2, FewerFit, Zenon
<1>4. ASSUME NEW x
      PROVE  /\ SumSlots(InPool(Booked, x)) \in Nat /\ SumSlots(InPool(Booked', x)) \in Nat
             /\ SumSlots(InPool(Booked', x)) <= SumSlots(InPool(Booked, x))
             /\ Cardinality(OfDag(Booked, x)) \in Nat /\ Cardinality(OfDag(Booked', x)) \in Nat
             /\ Cardinality(OfDag(Booked', x)) <= Cardinality(OfDag(Booked, x))
             /\ Cardinality(OfTask(Booked, x)) \in Nat /\ Cardinality(OfTask(Booked', x)) \in Nat
             /\ Cardinality(OfTask(Booked', x)) <= Cardinality(OfTask(Booked, x))
  BY <1>1, PartsMonotone
<1>5. PoolNotOverbooked'
  BY <1>4, LimitTypes, BoundPart, Zenon DEF CSInv, PoolNotOverbooked
<1>6. ConcurrencyNotExceeded'
  BY <1>4, LimitTypes, BoundPart, Zenon DEF CSInv, ConcurrencyNotExceeded
<1>7. QED
  BY <1>3, <1>5, <1>6

(* A step of a worker or a user: it books nothing, leaves the critical     *)
(* sections alone and changes no row that one of them has locked.          *)
LEMMA OutsideStep ==
  ASSUME CSInv, TypeOK', UNCHANGED csVars, Booked' \subseteq Booked,
         \A t \in TI : LockedByScheduler(t) => state'[t] = state[t],
         RowLocks
  PROVE  CSInv'
<1>1. /\ PoolNotOverbooked' /\ ConcurrencyNotExceeded'
      /\ \A s \in Scheduler :
           /\ StillOpen(open[s], Booked) => StillOpen(open[s], Booked')
           /\ WithinLimits(Booked, chosen[s]) => WithinLimits(Booked', chosen[s])
  BY NothingBooked
<1>2. ASSUME NEW s \in Scheduler
      PROVE  /\ phase'[s] \in {"stats", "examined", "updated"} => lock' = s
             /\ phase'[s] \in {"stats", "examined"} => StillOpen(open'[s], Booked')
             /\ phase'[s] \in {"examined", "updated"} =>
                  \A t \in examined'[s] : state'[t] = "scheduled"
             /\ phase'[s] = "updated" => /\ chosen'[s] \subseteq examined'[s]
                                         /\ WithinLimits(Booked', chosen'[s])
  <2>1. UNCHANGED <<lock, phase, open, examined, chosen>>
    BY DEF csVars
  <2>2. examined[s] \in SUBSET TI
    BY DEF CSInv, TypeOK
  <2>3. phase[s] \in {"examined", "updated"} => \A t \in examined[s] : LockedByScheduler(t)
    BY DEF LockedByScheduler
  <2>4. QED
    BY <1>1, <2>1, <2>2, <2>3 DEF CSInv
<1>3. QED
  BY <1>1, <1>2, Zenon DEF CSInv

(* A scheduler leaves its critical section and books nothing.              *)
LEMMA LeaveStep ==
  ASSUME CSInv, TypeOK', NEW s \in Scheduler, NEW next \in {"idle", "dead"},
         EndTransaction(s, next), UNCHANGED <<state, outside, check>>
  PROVE  CSInv'
<1>1. Booked' = Booked
  BY DEF Booked, Executing
<1>2. PoolNotOverbooked' /\ ConcurrencyNotExceeded'
  BY <1>1, NothingBooked
<1>3. /\ phase'[s] = next
      /\ \A z \in Scheduler \ {s} :
           /\ phase'[z] = phase[z] /\ open'[z] = open[z]
           /\ examined'[z] = examined[z] /\ chosen'[z] = chosen[z]
           /\ lock = z => lock' = z
  <2>1. TypeOK
    BY DEF CSInv
  <2>2. QED
    BY <2>1 DEF TypeOK, EndTransaction
<1>4. ASSUME NEW z \in Scheduler
      PROVE  /\ phase'[z] \in {"stats", "examined", "updated"} => lock' = z
             /\ phase'[z] \in {"stats", "examined"} => StillOpen(open'[z], Booked')
             /\ phase'[z] \in {"examined", "updated"} =>
                  \A t \in examined'[z] : state'[t] = "scheduled"
             /\ phase'[z] = "updated" => /\ chosen'[z] \subseteq examined'[z]
                                         /\ WithinLimits(Booked', chosen'[z])
  <2>1. CASE z = s
    BY <2>1, <1>3
  <2>2. CASE z # s
    BY <2>2, <1>1, <1>3, Zenon DEF CSInv
  <2>3. QED
    BY <2>1, <2>2, ZenonT(40)
<1>5. QED
  BY <1>2, <1>4, Zenon DEF CSInv

(* The commit: the chosen TIs, all of them SCHEDULED until now, are booked *)
(* beside the ones already booked, and the transaction is over.            *)
LEMMA CommitStep ==
  ASSUME CSInv, TypeOK', RowLocks, NEW s \in Scheduler, Commit(s)
  PROVE  CSInv'
<1>1. /\ lock = s /\ chosen[s] \subseteq examined[s]
      /\ \A t \in examined[s] : state[t] = "scheduled"
      /\ WithinLimits(Booked, chosen[s])
  BY Zenon DEF Commit, CSInv
<1>2. Booked \in SUBSET TI /\ chosen[s] \in SUBSET TI
  BY BookedType, ZenonT(40) DEF CSInv, TypeOK
<1>3. Booked \cap chosen[s] = {}
  BY <1>1, ZenonT(40) DEF Booked, Executing, EXECUTION_STATES
<1>4. Booked' \in SUBSET (Booked \cup chosen[s])
  BY DEF Commit, Booked, Executing
<1>5. PoolNotOverbooked' /\ ConcurrencyNotExceeded'
  BY <1>1, <1>2, <1>3, <1>4, JoinFits, Zenon DEF PoolNotOverbooked, ConcurrencyNotExceeded
<1>6. \A z \in Scheduler : phase'[z] \notin {"stats", "examined", "updated"}
  <2>1. \A z \in Scheduler \ {s} : phase[z] \notin {"stats", "examined", "updated"}
    BY <1>1, ZenonT(40) DEF CSInv
  <2>2. phase \in [Scheduler -> Phases] /\ phase' = [phase EXCEPT ![s] = "idle"]
    BY DEF Commit, EndTransaction, CSInv, TypeOK
  <2>3. QED
    BY <2>1, <2>2
<1>7. QED
  BY <1>5, <1>6, ZenonT(40) DEF CSInv

(* Taking the lock: the open slots are read while nobody else is in the    *)
(* critical section.                                                       *)
LEMMA SlotsStatsStep ==
  ASSUME CSInv, TypeOK', RowLocks, NEW s \in Scheduler, SlotsStats(s)
  PROVE  CSInv'
<1>1. Booked' = Booked
  BY DEF SlotsStats, Booked, Executing
<1>2. PoolNotOverbooked' /\ ConcurrencyNotExceeded'
  BY <1>1, NothingBooked, ZenonT(40)
<1>3. /\ phase'[s] = "stats" /\ lock' = s
      /\ open'[s] = [p \in Pool |-> IF Infinite(p) THEN 0 ELSE open_slots(p)]
  <2>1. TypeOK
    BY ZenonT(40) DEF CSInv
  <2>2. QED
    BY <2>1, ZenonT(40) DEF SlotsStats, TypeOK
<1>4. \A z \in Scheduler \ {s} : phase'[z] \notin {"stats", "examined", "updated"}
  <2>1. lock = None
    BY DEF SlotsStats
  <2>2. \A z \in Scheduler : lock # z
    BY <2>1, CSAssumption
  <2>3. QED
    BY <2>2 DEF SlotsStats, CSInv, TypeOK
<1>5. StillOpen(open'[s], Booked')
  <2>1. ASSUME NEW p \in Pool, ~Infinite(p)
        PROVE  open_slots(p) + SumSlots(InPool(Booked, p)) <= slots[p]
    <3>1. Booked \in SUBSET Executing /\ Executing \in SUBSET TI
      BY BookedType DEF CSInv
    <3>2. /\ SumSlots(InPool(Executing, p)) \in Nat /\ SumSlots(InPool(Booked, p)) \in Nat
          /\ SumSlots(InPool(Booked, p)) <= SumSlots(InPool(Executing, p))
      BY <3>1, PartsMonotone
    <3>3. QED
      BY <3>2, LimitTypes DEF open_slots
  <2>2. QED
    BY <1>1, <1>3, <2>1 DEF StillOpen
<1>6. QED
  BY <1>2, <1>3, <1>4, <1>5 DEF CSInv

(* Selecting rows: they are SCHEDULED and locked from here on.             *)
LEMMA ExamineStep ==
  ASSUME CSInv, TypeOK', RowLocks, NEW s \in Scheduler, Examine(s)
  PROVE  CSInv'
<1>1. UNCHANGED <<state, outside, check>> /\ phase[s] = "stats"
  BY DEF Examine
<1>2. CASE EndTransaction(s, "idle")
  BY <1>1, <1>2, LeaveStep, ZenonT(40)
<1>3. CASE ~EndTransaction(s, "idle")
  <2>1. PICK E \in Limited(Selectable(s), max_tis[s]) :
          /\ examined' = [examined EXCEPT ![s] = E]
          /\ phase' = [phase EXCEPT ![s] = "examined"]
          /\ UNCHANGED <<lock, open, max_tis, chosen>>
    BY <1>3, ZenonT(40) DEF Examine
  <2>2. \A t \in E : state[t] = "scheduled"
    BY DEF Limited, Selectable
  <2>3. Booked' = Booked
    BY <1>1 DEF Booked, Executing
  <2>4. PoolNotOverbooked' /\ ConcurrencyNotExceeded'
    BY <2>3, NothingBooked, ZenonT(40)
  <2>5. ASSUME NEW z \in Scheduler
        PROVE  /\ phase'[z] \in {"stats", "examined", "updated"} => lock' = z
               /\ phase'[z] \in {"stats", "examined"} => StillOpen(open'[z], Booked')
               /\ phase'[z] \in {"examined", "updated"} =>
                    \A t \in examined'[z] : state'[t] = "scheduled"
               /\ phase'[z] = "updated" => /\ chosen'[z] \subseteq examined'[z]
                                           /\ WithinLimits(Booked', chosen'[z])
    <3>1. CASE z = s
      <4>1. phase'[s] = "examined" /\ examined'[s] = E /\ open' = open /\ lock' = lock
        BY <2>1, Zenon DEF CSInv, TypeOK
      <4>2. lock = s /\ StillOpen(open[s], Booked)
        BY <1>1, ZenonT(40) DEF CSInv
      <4>3. QED
        BY <1>1, <2>2, <2>3, <3>1, <4>1, <4>2, ZenonT(40)
    <3>2. CASE z # s
      <4>1. phase'[z] = phase[z] /\ examined'[z] = examined[z]
        BY <2>1, <3>2 DEF CSInv, TypeOK
      <4>2. QED
        BY <1>1, <2>1, <2>3, <4>1, ZenonT(40) DEF CSInv
    <3>3. QED
      BY <3>1, <3>2, ZenonT(40)
  <2>6. QED
    BY <1>1, <2>4, <2>5 DEF CSInv
<1>4. QED
  BY <1>2, <1>3

\* No TIs occupy no slots.
LEMMA SumSlotsEmpty == SumSlots({}) = 0
<1>1. SlotUnits({}) = {}
  BY DEF SlotUnits
<1>2. SumSlots({}) = Cardinality({})
  BY <1>1, Zenon DEF SumSlots
<1>3. QED
  BY <1>2, FS_EmptySet

(* The choice: what the loop adds to what is booked respects every limit,  *)
(* since the slots it saw open are still open and it counted every         *)
(* executing TI, of which the booked ones are a part.                      *)
LEMMA ChoiceWithinLimits ==
  ASSUME CSInv, NEW s \in Scheduler, phase[s] = "examined",
         NEW ord \in ProcessingOrders(examined[s]), NEW C \in SUBSET examined[s],
         IsExecutable(s, examined[s], ord, C)
  PROVE  WithinLimits(Booked, C)
<1>1. examined[s] \in SUBSET TI /\ C \in SUBSET TI /\ open[s] \in [Pool -> Int]
  BY ZenonT(40) DEF CSInv, TypeOK
<1>2. Booked \in SUBSET Executing /\ Executing \in SUBSET TI
  BY BookedType DEF CSInv
<1>3. /\ \A p \in Pool : ~Infinite(p) /\ InPool(C, p) # {} =>
           SumSlots(InPool(C, p)) <= open[s][p]
      /\ \A d \in Dag : OfDag(C, d) # {} =>
           Cardinality(OfDag(Executing, d)) + Cardinality(OfDag(C, d)) <= max_active_tasks[d]
      /\ \A k \in Task : OfTask(C, k) # {} =>
           \/ task_concurrency[k] = NoLimit
           \/ Cardinality(OfTask(Executing, k)) + Cardinality(OfTask(C, k)) <= task_concurrency[k]
  BY <1>1, ChoiceFits, ZenonT(40)
<1>4. ASSUME NEW x
      PROVE  /\ SumSlots(InPool(Booked, x)) \in Nat
             /\ Cardinality(OfDag(Booked, x)) \in Nat /\ Cardinality(OfDag(Executing, x)) \in Nat
             /\ Cardinality(OfDag(Booked, x)) <= Cardinality(OfDag(Executing, x))
             /\ Cardinality(OfTask(Booked, x)) \in Nat /\ Cardinality(OfTask(Executing, x)) \in Nat
             /\ Cardinality(OfTask(Booked, x)) <= Cardinality(OfTask(Executing, x))
  BY <1>2, PartsMonotone, Zenon
<1>5. ASSUME NEW x
      PROVE  /\ SumSlots(InPool(C, x)) \in Nat
             /\ Cardinality(OfDag(C, x)) \in Nat /\ Cardinality(OfTask(C, x)) \in Nat
  BY <1>1, PartsMonotone, ZenonT(40)
<1>6. ASSUME NEW p \in Pool, ~Infinite(p)
      PROVE  SumSlots(InPool(Booked, p)) + SumSlots(InPool(C, p)) <= slots[p]
  <2>1. CASE InPool(C, p) = {}
    <3>1. SumSlots(InPool(C, p)) = 0
      BY <2>1, SumSlotsEmpty, Zenon
    <3>2. SumSlots(InPool(Booked, p)) <= slots[p]
      BY <1>6, ZenonT(40) DEF CSInv, PoolNotOverbooked
    <3>3. /\ SumSlots(InPool(Booked, p)) \in Nat /\ SumSlots(InPool(C, p)) \in Nat
          /\ slots[p] \in Int
      BY <1>4, <1>5, LimitTypes, Zenon
    <3>4. QED
      BY <3>1, <3>2, <3>3, AddNothing, Zenon
  <2>2. CASE InPool(C, p) # {}
    <3>1. open[s][p] + SumSlots(InPool(Booked, p)) <= slots[p] /\ open[s][p] \in Int
      BY <1>1, <1>6, ZenonT(40) DEF CSInv, StillOpen
    <3>2. SumSlots(InPool(C, p)) <= open[s][p]
      BY <1>3, <1>6, <2>2, ZenonT(40)
    <3>3. /\ SumSlots(InPool(Booked, p)) \in Nat /\ SumSlots(InPool(C, p)) \in Nat
          /\ slots[p] \in Int
      BY <1>4, <1>5, LimitTypes, Zenon
    <3>4. QED
      BY <3>1, <3>2, <3>3, AddOpen, Zenon
  <2>3. QED
    BY <2>1, <2>2, Zenon
<1>7. ASSUME NEW d \in Dag
      PROVE  Cardinality(OfDag(Booked, d)) + Cardinality(OfDag(C, d)) <= max_active_tasks[d]
  <2>1. CASE OfDag(C, d) = {}
    <3>1. Cardinality(OfDag(C, d)) = 0
      BY <2>1, FS_EmptySet, ZenonT(40)
    <3>2. Cardinality(OfDag(Booked, d)) <= max_active_tasks[d]
      BY Zenon DEF CSInv, ConcurrencyNotExceeded
    <3>3. /\ Cardinality(OfDag(Booked, d)) \in Nat /\ Cardinality(OfDag(C, d)) \in Nat
          /\ max_active_tasks[d] \in Int
      BY <1>4, <1>5, LimitTypes, Zenon
    <3>4. QED
      BY <3>1, <3>2, <3>3, AddNothing, Zenon
  <2>2. CASE OfDag(C, d) # {}
    <3>1. Cardinality(OfDag(Executing, d)) + Cardinality(OfDag(C, d)) <= max_active_tasks[d]
      BY <1>3, <2>2, ZenonT(40)
    <3>2. /\ Cardinality(OfDag(Booked, d)) \in Nat /\ Cardinality(OfDag(Executing, d)) \in Nat
          /\ Cardinality(OfDag(Booked, d)) <= Cardinality(OfDag(Executing, d))
      BY <1>4, ZenonT(40)
    <3>3. Cardinality(OfDag(C, d)) \in Nat /\ max_active_tasks[d] \in Int
      BY <1>5, LimitTypes, ZenonT(40)
    <3>4. QED
      BY <3>1, <3>2, <3>3, AddPart, Zenon
  <2>3. QED
    BY <2>1, <2>2, Zenon
<1>8. ASSUME NEW k \in Task, task_concurrency[k] # NoLimit
      PROVE  Cardinality(OfTask(Booked, k)) + Cardinality(OfTask(C, k)) <= task_concurrency[k]
  <2>1. CASE OfTask(C, k) = {}
    <3>1. Cardinality(OfTask(C, k)) = 0
      BY <2>1, FS_EmptySet, ZenonT(40)
    <3>2. Cardinality(OfTask(Booked, k)) <= task_concurrency[k]
      BY <1>8 DEF CSInv, ConcurrencyNotExceeded
    <3>3. /\ Cardinality(OfTask(Booked, k)) \in Nat /\ Cardinality(OfTask(C, k)) \in Nat
          /\ task_concurrency[k] \in Int
      BY <1>4, <1>5, LimitTypes, ZenonT(40)
    <3>4. QED
      BY <3>1, <3>2, <3>3, AddNothing, Zenon
  <2>2. CASE OfTask(C, k) # {}
    <3>1. Cardinality(OfTask(Executing, k)) + Cardinality(OfTask(C, k)) <= task_concurrency[k]
      BY <1>3, <1>8, <2>2, ZenonT(40)
    <3>2. /\ Cardinality(OfTask(Booked, k)) \in Nat /\ Cardinality(OfTask(Executing, k)) \in Nat
          /\ Cardinality(OfTask(Booked, k)) <= Cardinality(OfTask(Executing, k))
      BY <1>4
    <3>3. Cardinality(OfTask(C, k)) \in Nat /\ task_concurrency[k] \in Int
      BY <1>5, LimitTypes, ZenonT(40)
    <3>4. QED
      BY <3>1, <3>2, <3>3, AddPart, Zenon
  <2>3. QED
    BY <2>1, <2>2
<1>9. QED
  BY <1>6, <1>7, <1>8, Zenon DEF WithinLimits

\* QueueExecutable: what it chooses fits beside what is booked.
LEMMA QueueStep ==
  ASSUME CSInv, TypeOK', RowLocks, NEW s \in Scheduler, QueueExecutable(s)
  PROVE  CSInv'
<1>1. /\ phase[s] = "examined"
      /\ UNCHANGED <<state, outside, lock, open, examined, check>>
      /\ phase' = [phase EXCEPT ![s] = "updated"]
  BY DEF QueueExecutable
<1>2. PICK ord \in ProcessingOrders(examined[s]), C \in SUBSET examined[s] :
        /\ IsExecutable(s, examined[s], ord, C)
        /\ chosen' = [chosen EXCEPT ![s] = C]
  BY ZenonT(40) DEF QueueExecutable
<1>3. WithinLimits(Booked, C)
  BY <1>1, <1>2, ChoiceWithinLimits
<1>4. Booked' = Booked
  BY <1>1, ZenonT(40) DEF Booked, Executing
<1>5. PoolNotOverbooked' /\ ConcurrencyNotExceeded'
  BY <1>4, NothingBooked
<1>6. ASSUME NEW z \in Scheduler
      PROVE  /\ phase'[z] \in {"stats", "examined", "updated"} => lock' = z
             /\ phase'[z] \in {"stats", "examined"} => StillOpen(open'[z], Booked')
             /\ phase'[z] \in {"examined", "updated"} =>
                  \A t \in examined'[z] : state'[t] = "scheduled"
             /\ phase'[z] = "updated" => /\ chosen'[z] \subseteq examined'[z]
                                         /\ WithinLimits(Booked', chosen'[z])
  <2>1. CASE z = s
    <3>1. phase'[s] = "updated" /\ chosen'[s] = C
      BY <1>1, <1>2, Zenon DEF CSInv, TypeOK
    <3>2. lock = s /\ \A t \in examined[s] : state[t] = "scheduled"
      BY <1>1, ZenonT(40) DEF CSInv
    <3>3. QED
      BY <1>1, <1>2, <1>3, <1>4, <2>1, <3>1, <3>2, ZenonT(40)
  <2>2. CASE z # s
    <3>1. phase'[z] = phase[z] /\ chosen'[z] = chosen[z]
      BY <1>1, <1>2, <2>2, ZenonT(40) DEF CSInv, TypeOK
    <3>2. QED
      BY <1>1, <1>4, <3>1, ZenonT(40) DEF CSInv
  <2>3. QED
    BY <2>1, <2>2, ZenonT(40)
<1>7. QED
  BY <1>1, <1>5, <1>6, ZenonT(40) DEF CSInv

(* Every step keeps the inductive invariant.                               *)
LEMMA CSInvStep ==
  ASSUME RowLocks, CSInv, [Next]_vars
  PROVE  CSInv'
<1> USE DEF EXECUTION_STATES
<1>1. TypeOK /\ TypeOK'
  BY TypeStep DEF CSInv
<1>2. ASSUME NEW s \in Scheduler, SlotsStats(s) PROVE CSInv'
  BY <1>1, <1>2, SlotsStatsStep
<1>3. ASSUME NEW s \in Scheduler, Examine(s) PROVE CSInv'
  BY <1>1, <1>3, ExamineStep
<1>4. ASSUME NEW s \in Scheduler, QueueExecutable(s) PROVE CSInv'
  BY <1>1, <1>4, QueueStep
<1>5. ASSUME NEW s \in Scheduler, Commit(s) PROVE CSInv'
  BY <1>1, <1>5, CommitStep
<1>6. ASSUME NEW s \in Scheduler, Crash(s) PROVE CSInv'
  <2>1. EndTransaction(s, "dead") /\ UNCHANGED <<state, outside, check>>
    BY <1>6 DEF Crash
  <2>2. QED
    BY <1>1, <2>1, LeaveStep
<1>7. ASSUME NEW t \in TI, WorkerCommit(t) PROVE CSInv'
  <2>1. Booked' \subseteq Booked
    BY <1>1, <1>7 DEF WorkerCommit, Booked, Executing, TypeOK
  <2>2. \A u \in TI : LockedByScheduler(u) => state'[u] = state[u]
    BY <1>1, <1>7 DEF WorkerCommit, TypeOK
  <2>3. UNCHANGED csVars
    BY <1>7 DEF WorkerCommit
  <2>4. QED
    BY <1>1, <2>1, <2>2, <2>3, OutsideStep
<1>8. ASSUME NEW t \in TI, Finish(t) PROVE CSInv'
  <2>1. Booked' \subseteq Booked
    <3>1. PICK r \in Outcomes : state' = [state EXCEPT ![t] = r]
      BY <1>8, Zenon DEF Finish
    <3>2. r \notin EXECUTION_STATES
      BY CSAssumption
    <3>3. outside' = outside \ {t} /\ state \in [TI -> TaskInstanceState]
      BY <1>1, <1>8 DEF Finish, TypeOK
    <3>4. QED
      BY <3>1, <3>2, <3>3 DEF Booked, Executing
  <2>2. \A u \in TI : LockedByScheduler(u) => state'[u] = state[u]
    BY <1>1, <1>8 DEF Finish, TypeOK
  <2>3. UNCHANGED csVars
    BY <1>8, ZenonT(40) DEF Finish
  <2>4. QED
    BY <1>1, <2>1, <2>2, <2>3, OutsideStep
<1>9. ASSUME NEW t \in TI, ScheduleTIs(t) PROVE CSInv'
  <2>1. Booked' \subseteq Booked
    BY <1>1, <1>9 DEF ScheduleTIs, Booked, Executing, TypeOK
  <2>2. \A u \in TI : LockedByScheduler(u) => state'[u] = state[u]
    BY <1>1, <1>9 DEF ScheduleTIs, TypeOK
  <2>3. UNCHANGED csVars
    BY <1>9 DEF ScheduleTIs
  <2>4. QED
    BY <1>1, <2>1, <2>2, <2>3, OutsideStep
<1>10. ASSUME NEW j \in Job, NEW t \in TI, WorkerCheck(j, t) PROVE CSInv'
  <2>1. Booked' \subseteq Booked
    BY <1>10 DEF WorkerCheck, Booked, Executing
  <2>2. \A u \in TI : LockedByScheduler(u) => state'[u] = state[u]
    BY <1>10 DEF WorkerCheck
  <2>3. UNCHANGED csVars
    BY <1>10 DEF WorkerCheck
  <2>4. QED
    BY <1>1, <2>1, <2>2, <2>3, OutsideStep
<1>11. ASSUME NEW j \in Job, NEW t \in TI, WorkerRefuse(j, t) PROVE CSInv'
  <2>1. UNCHANGED <<state, outside, check, csVars>>
    BY <1>11 DEF WorkerRefuse
  <2>2. Booked' \subseteq Booked
    BY <2>1, ZenonT(40) DEF Booked, Executing
  <2>3. QED
    BY <1>1, <2>1, <2>2, OutsideStep
<1>12. ASSUME NEW t \in TI, Clear(t) PROVE CSInv'
  <2>1. Booked' \subseteq Booked
    BY <1>1, <1>12, ZenonT(40) DEF Clear, Booked, Executing, TypeOK
  <2>2. \A u \in TI : LockedByScheduler(u) => state'[u] = state[u]
    BY <1>1, <1>12 DEF Clear, TypeOK
  <2>3. UNCHANGED csVars
    BY <1>12, ZenonT(40) DEF Clear
  <2>4. QED
    BY <1>1, <2>1, <2>2, <2>3, OutsideStep
<1>13. ASSUME NEW t \in TI, BackfillQueue(t) PROVE CSInv'
  <2>1. Booked' \subseteq Booked
    BY <1>1, <1>13 DEF BackfillQueue, Booked, Executing, TypeOK
  <2>2. \A u \in TI : LockedByScheduler(u) => state'[u] = state[u]
    BY <1>1, <1>13, ZenonT(40) DEF BackfillQueue, TypeOK
  <2>3. UNCHANGED csVars
    BY <1>13, Zenon DEF BackfillQueue
  <2>4. QED
    BY <1>1, <2>1, <2>2, <2>3, OutsideStep
<1>14. CASE (\E d \in Dag : TogglePaused(d)) \/ UNCHANGED vars
  <2>1. UNCHANGED <<state, outside, check, csVars>>
    BY <1>14 DEF TogglePaused, vars, csVars
  <2>2. Booked' \subseteq Booked
    BY <2>1 DEF Booked, Executing
  <2>3. QED
    BY <1>1, <2>1, <2>2, OutsideStep
<1>15. (\E d \in Pausable : TogglePaused(d)) => \E d \in Dag : TogglePaused(d)
  BY CSAssumption
<1>16. QED
  BY <1>2, <1>3, <1>4, <1>5, <1>6, <1>7, <1>8, <1>9, <1>10, <1>11, <1>12,
     <1>13, <1>14, <1>15 DEF Next, Undisturbed

(* In the initial state nothing executes and nobody holds the lock.        *)
LEMMA CSInvInit == Init => CSInv
<1> SUFFICES ASSUME Init PROVE CSInv
  OBVIOUS
<1>1. TypeOK
  BY DEF Init, TypeOK, Phases, TaskInstanceState
<1>2. Booked = {}
  BY DEF Init, Booked, Executing, EXECUTION_STATES
<1>3. \A x : InPool(Booked, x) = {} /\ OfDag(Booked, x) = {} /\ OfTask(Booked, x) = {}
  BY <1>2 DEF InPool, OfDag, OfTask
<1>4. \A x : /\ SumSlots(InPool(Booked, x)) = SumSlots({})
             /\ Cardinality(OfDag(Booked, x)) = Cardinality({})
             /\ Cardinality(OfTask(Booked, x)) = Cardinality({})
  BY <1>3, Zenon
<1>5. \A x : /\ SumSlots(InPool(Booked, x)) = 0
             /\ Cardinality(OfDag(Booked, x)) = 0
             /\ Cardinality(OfTask(Booked, x)) = 0
  BY <1>4, SumSlotsEmpty, FS_EmptySet
<1>6. PoolNotOverbooked
  BY <1>5, CSAssumption DEF PoolNotOverbooked, Infinite
<1>7. ConcurrencyNotExceeded
  BY <1>5, CSAssumption DEF ConcurrencyNotExceeded
<1>8. QED
  BY <1>1, <1>6, <1>7 DEF Init, CSInv

(* The inductive invariant holds in every reachable state when the         *)
(* database takes the row locks of with_row_locks.                         *)
THEOREM CriticalSectionInvariant ==
  ASSUME RowLocks
  PROVE  Spec => []CSInv
<1>1. CSInv /\ [Next]_vars => CSInv'
  BY CSInvStep
<1>2. QED
  BY <1>1, CSInvInit, PTL DEF Spec

(* Any number of schedulers, whatever the workers, users and crashes do    *)
(* between the statements of their critical sections, never overbook a     *)
(* pool.                                                                   *)
THEOREM PoolsHold ==
  ASSUME RowLocks
  PROVE  Spec => []PoolNotOverbooked
<1>1. CSInv => PoolNotOverbooked
  BY DEF CSInv
<1>2. QED
  BY <1>1, CriticalSectionInvariant, PTL

(* Nor do they exceed a DAG's max_active_tasks or a task_concurrency.      *)
THEOREM ConcurrencyHolds ==
  ASSUME RowLocks
  PROVE  Spec => []ConcurrencyNotExceeded
<1>1. CSInv => ConcurrencyNotExceeded
  BY DEF CSInv
<1>2. QED
  BY <1>1, CriticalSectionInvariant, PTL

(* A commit of the critical section sets to QUEUED only TIs that are still *)
(* SCHEDULED: the row locks of Examine hold off workers, users and the     *)
(* other schedulers until then.                                            *)
THEOREM QueuesOnlyScheduled ==
  ASSUME RowLocks
  PROVE  Spec => QueuedFromScheduled
<1>1. CSInv => [\A s \in Scheduler : Commit(s) => \A t \in chosen[s] : state[t] = "scheduled"]_vars
  BY ZenonT(40) DEF CSInv, Commit
<1>2. QED
  BY <1>1, CriticalSectionInvariant, PTL DEF QueuedFromScheduled

-----------------------------------------------------------------------------
(* Priorities, with or without row locks.                                  *)

(* If t fits, a more urgent u of the same pool, DAG and task that needs no *)
(* more slots fits at its earlier turn.                                    *)
LEMMA MoreUrgentFits ==
  ASSUME TypeOK, NEW s \in Scheduler, NEW C \in SUBSET TI,
         NEW u \in TI, NEW t \in TI, NEW B \in SUBSET C, NEW A \in SUBSET B,
         pool[u] = pool[t], task_id[u] = task_id[t], dag_id[u] = dag_id[t],
         pool_slots[u] <= pool_slots[t], Fits(s, t, B)
  PROVE  Fits(s, u, A)
<1>1. B \in SUBSET TI /\ Executing \in SUBSET TI
  BY ZenonT(40) DEF Executing
<1>2. ASSUME NEW x
      PROVE  /\ SumSlots(InPool(A, x)) \in Nat /\ SumSlots(InPool(B, x)) \in Nat
             /\ SumSlots(InPool(A, x)) <= SumSlots(InPool(B, x))
             /\ Cardinality(OfDag(A, x)) \in Nat /\ Cardinality(OfDag(B, x)) \in Nat
             /\ Cardinality(OfDag(A, x)) <= Cardinality(OfDag(B, x))
             /\ Cardinality(OfTask(A, x)) \in Nat /\ Cardinality(OfTask(B, x)) \in Nat
             /\ Cardinality(OfTask(A, x)) <= Cardinality(OfTask(B, x))
  BY <1>1, PartsMonotone, ZenonT(40)
<1>3. ASSUME NEW x
      PROVE  Cardinality(OfDag(Executing, x)) \in Nat /\ Cardinality(OfTask(Executing, x)) \in Nat
  BY <1>1, PartsMonotone, ZenonT(40)
<1>4. /\ pool_slots[u] \in Nat /\ pool_slots[t] \in Nat
      /\ dag_id[u] \in Dag /\ task_id[u] \in Task
      /\ max_active_tasks[dag_id[u]] \in Int /\ task_concurrency[task_id[u]] \in Int
  <2>1. pool_slots[u] \in Nat /\ pool_slots[t] \in Nat
    BY CSAssumption
  <2>2. dag_id[u] \in Dag /\ task_id[u] \in Task
    BY CSAssumption
  <2>3. QED
    BY <2>1, <2>2, LimitTypes, Zenon
<1>5. pool[t] \in Pool /\ open[s][pool[t]] \in Int
  BY ZenonT(40) DEF Fits, TypeOK
<1>6. \/ Infinite(pool[t])
      \/ /\ open[s][pool[t]] - SumSlots(InPool(A, pool[t])) > 0
         /\ pool_slots[u] <= open[s][pool[t]] - SumSlots(InPool(A, pool[t]))
  <2>1. /\ SumSlots(InPool(A, pool[t])) \in Nat /\ SumSlots(InPool(B, pool[t])) \in Nat
        /\ SumSlots(InPool(A, pool[t])) <= SumSlots(InPool(B, pool[t]))
    BY <1>2, ZenonT(40)
  <2>2. \/ Infinite(pool[t])
        \/ /\ open[s][pool[t]] - SumSlots(InPool(B, pool[t])) > 0
           /\ pool_slots[t] <= open[s][pool[t]] - SumSlots(InPool(B, pool[t]))
    BY Zenon DEF Fits
  <2>3. \A o \in Int : \A m, n, x, y \in Nat :
          m <= n /\ x <= y /\ o - n > 0 /\ y <= o - n => o - m > 0 /\ x <= o - m
    OBVIOUS
  <2>4. pool_slots[u] \in Nat /\ pool_slots[t] \in Nat /\ pool_slots[u] <= pool_slots[t]
    BY <1>4
  <2>5. QED
    BY <1>5, <2>1, <2>2, <2>3, <2>4, Zenon
<1>7. Cardinality(OfDag(Executing, dag_id[u])) + Cardinality(OfDag(A, dag_id[u]))
        < max_active_tasks[dag_id[u]]
  <2>1. /\ Cardinality(OfDag(A, dag_id[u])) \in Nat /\ Cardinality(OfDag(B, dag_id[u])) \in Nat
        /\ Cardinality(OfDag(A, dag_id[u])) <= Cardinality(OfDag(B, dag_id[u]))
        /\ Cardinality(OfDag(Executing, dag_id[u])) \in Nat
    BY <1>2, <1>3, ZenonT(40)
  <2>2. Cardinality(OfDag(Executing, dag_id[u])) + Cardinality(OfDag(B, dag_id[u]))
          < max_active_tasks[dag_id[u]]
    BY Zenon DEF Fits
  <2>3. QED
    BY <1>4, <2>1, <2>2, AddPart, Zenon
<1>8. \/ task_concurrency[task_id[u]] = NoLimit
      \/ Cardinality(OfTask(Executing, task_id[u])) + Cardinality(OfTask(A, task_id[u]))
           < task_concurrency[task_id[u]]
  <2>1. /\ Cardinality(OfTask(A, task_id[u])) \in Nat /\ Cardinality(OfTask(B, task_id[u])) \in Nat
        /\ Cardinality(OfTask(A, task_id[u])) <= Cardinality(OfTask(B, task_id[u]))
        /\ Cardinality(OfTask(Executing, task_id[u])) \in Nat
    BY <1>2, <1>3, ZenonT(40)
  <2>2. \/ task_concurrency[task_id[u]] = NoLimit
        \/ Cardinality(OfTask(Executing, task_id[u])) + Cardinality(OfTask(B, task_id[u]))
             < task_concurrency[task_id[u]]
    BY Zenon DEF Fits
  <2>3. QED
    BY <1>4, <2>1, <2>2, AddPart, Zenon
<1>9. QED
  BY <1>5, <1>6, <1>7, <1>8, ZenonT(40) DEF Fits

(* No priority inversion: the loop never leaves a TI behind and takes a    *)
(* less urgent one of the same pool, DAG and task that needs as many slots.*)
THEOREM NoInversion == Spec => []NoPriorityInversion
<1>1. Init => NoPriorityInversion
  BY ZenonT(40) DEF Init, NoPriorityInversion
<1>2. ASSUME TypeOK, NoPriorityInversion, [Next]_vars
      PROVE  NoPriorityInversion'
  <2>1. ASSUME NEW s \in Scheduler, QueueExecutable(s) PROVE NoPriorityInversion'
    <3>1. PICK ord \in ProcessingOrders(examined[s]), C \in SUBSET examined[s] :
            /\ IsExecutable(s, examined[s], ord, C)
            /\ chosen' = [chosen EXCEPT ![s] = C]
      BY <2>1, ZenonT(40) DEF QueueExecutable
    <3>2. examined[s] \in SUBSET TI /\ Cardinality(examined[s]) \in Nat
      <4>1. examined[s] \in SUBSET TI
        BY <1>2 DEF TypeOK
      <4>2. QED
        BY <4>1, CountMonotone
    <3>3. /\ \A v \in examined[s] : ord[v] \in Int
          /\ \A v, w \in examined[s] :
               v # w /\ pool[v] = pool[w] /\ Higher(v, w) => ord[v] < ord[w]
      <4>1. ord \in [examined[s] -> 1..Cardinality(examined[s])]
        BY Zenon DEF ProcessingOrders
      <4>2. \A v, w \in examined[s] :
               v # w /\ pool[v] = pool[w] /\ Higher(v, w) => ord[v] < ord[w]
        BY Zenon DEF ProcessingOrders
      <4>3. QED
        BY <3>2, <4>1, <4>2
    <3>4. ASSUME NEW u \in examined[s] \ C, NEW t \in C, Higher(u, t),
                 pool[u] = pool[t], task_id[u] = task_id[t], dag_id[u] = dag_id[t],
                 pool_slots[u] <= pool_slots[t]
          PROVE  FALSE
      <4> DEFINE before(v) == {w \in C : ord[w] < ord[v]}
      <4>1. ord[u] < ord[t]
        BY <3>3, <3>4, ZenonT(40)
      <4>2. before(u) \in SUBSET before(t) /\ before(t) \in SUBSET C
        BY <3>3, <4>1
      <4>3. Fits(s, t, before(t)) /\ ~Fits(s, u, before(u))
        BY <3>1 DEF IsExecutable
      <4>4. C \in SUBSET TI /\ u \in TI /\ t \in TI
        BY <3>2
      <4> HIDE DEF before
      <4>5. QED
        BY <1>2, <3>4, <4>2, <4>3, <4>4, MoreUrgentFits, ZenonT(40)
    <3>5. \A z \in Scheduler \ {s} : chosen'[z] = chosen[z] /\ phase'[z] = phase[z]
      BY <1>2, <2>1, <3>1 DEF QueueExecutable, TypeOK
    <3>6. chosen'[s] = C /\ examined' = examined
      BY <1>2, <2>1, <3>1 DEF QueueExecutable, TypeOK
    <3>7. ASSUME NEW z \in Scheduler, phase'[z] = "updated",
                 NEW u \in examined'[z] \ chosen'[z], NEW t \in chosen'[z], Higher(u, t),
                 pool[u] = pool[t], task_id[u] = task_id[t], dag_id[u] = dag_id[t],
                 pool_slots[u] <= pool_slots[t]
          PROVE  FALSE
      <4>1. CASE z = s
        BY <4>1, <3>4, <3>6, <3>7, ZenonT(40)
      <4>2. CASE z # s
        BY <4>2, <1>2, <3>5, <3>6, <3>7, ZenonT(40) DEF NoPriorityInversion
      <4>3. QED
        BY <4>1, <4>2
    <3>8. QED
      BY <3>7 DEF NoPriorityInversion
  <2>2. ASSUME NEW s \in Scheduler,
               \/ phase' = [phase EXCEPT ![s] = "stats"] /\ UNCHANGED <<examined, chosen>>
               \/ \E E : /\ phase' = [phase EXCEPT ![s] = "examined"]
                         /\ examined' = [examined EXCEPT ![s] = E]
                         /\ UNCHANGED chosen
               \/ EndTransaction(s, "idle") \/ EndTransaction(s, "dead")
        PROVE  NoPriorityInversion'
    <3>1. /\ phase'[s] # "updated"
          /\ \A z \in Scheduler \ {s} : /\ chosen'[z] = chosen[z] /\ phase'[z] = phase[z]
                                        /\ examined'[z] = examined[z]
      BY <1>2, <2>2 DEF EndTransaction, TypeOK
    <3>2. QED
      BY <1>2, <3>1, ZenonT(40) DEF NoPriorityInversion
  <2>3. CASE \E s \in Scheduler : SlotsStats(s) \/ Examine(s) \/ Commit(s) \/ Crash(s)
    BY <2>2, <2>3, ZenonT(40) DEF SlotsStats, Examine, Commit, Crash
  <2>4. CASE UNCHANGED csVars
    BY <1>2, <2>4, Zenon DEF NoPriorityInversion, csVars
  <2>5. QED
    BY <1>2, <2>1, <2>3, <2>4, ZenonT(40) DEF Next, Undisturbed, WorkerCheck, WorkerRefuse,
       WorkerCommit, Finish, ScheduleTIs, Clear, BackfillQueue, TogglePaused, vars, csVars
<1>3. QED
  BY <1>1, <1>2, TypeCorrect, PTL DEF Spec

=============================================================================
