-------------------------- MODULE RuntimeLeasesProofs --------------------------
(***************************************************************************)
(* What one drain() does to a queue and a set of active tasks that respect *)
(* the leases, for every set of tasks, every assignment of leases and      *)
(* every capacity.                                                         *)
(***************************************************************************)
EXTENDS RuntimeLeases, FiniteSetTheorems, TLAPS

\* ahd orders q, and may mention other tasks.
Orders(ahd, q) ==
  /\ \A t, u \in q : t # u => (<<t, u>> \in ahd <=> <<u, t>> \notin ahd)
  /\ \A t \in q : <<t, t>> \notin ahd

LeaseFree(a) == \A t, u \in a : t # u => ~LeasesConflict(t, u)

\* A queue, its order and an active set that the scheduler may hold.
Lawful(q, ahd, a) ==
  /\ q \in SUBSET Tasks /\ a \in SUBSET Tasks /\ q \cap a = {}
  /\ Orders(ahd, q) /\ LeaseFree(a)
  /\ Cardinality(a) <= Capacity

-----------------------------------------------------------------------------
\* A conflict has no direction: who holds the lease first does not matter.
LEMMA ConflictSymmetric ==
  \A t, u : LeasesConflict(t, u) <=> LeasesConflict(u, t)
BY DEF LeasesConflict, SharesResource

\* What drain() admits respects the leases of the active tasks and of itself.
LEMMA AdmittedLeaseFree ==
  ASSUME NEW q, NEW ahd, NEW a, NEW S,
         Orders(ahd, q), LeaseFree(a), Drains(q, a, ahd, S)
  PROVE  LeaseFree(a \cup S)
<1>1. S \subseteq Unblocked(q, a, ahd)
  BY DEF Drains
<1> SUFFICES ASSUME NEW t \in a \cup S, NEW u \in a \cup S, t # u
             PROVE  ~LeasesConflict(t, u)
  BY DEF LeaseFree
<1>2. CASE t \in a /\ u \in a
  BY <1>2 DEF LeaseFree
<1>3. CASE t \in a /\ u \in S
  BY <1>1, <1>3 DEF Unblocked
<1>4. CASE t \in S /\ u \in a
  BY <1>1, <1>4, ConflictSymmetric DEF Unblocked
<1>5. CASE t \in S /\ u \in S
  <2>1. t \in q /\ u \in q
    BY <1>1, <1>5 DEF Unblocked
  <2>2. <<t, u>> \in ahd \/ <<u, t>> \in ahd
    BY <2>1 DEF Orders
  <2> QED
    BY <1>1, <1>5, <2>1, <2>2, ConflictSymmetric DEF Unblocked
<1> QED
  BY <1>2, <1>3, <1>4, <1>5

\* drain() fills workers, and never more than there are.
LEMMA AdmittedWithinCapacity ==
  ASSUME NEW q, NEW ahd, NEW a, NEW S,
         IsFiniteSet(q), IsFiniteSet(a), q \cap a = {},
         Cardinality(a) <= Capacity, Drains(q, a, ahd, S)
  PROVE  /\ Cardinality(a \cup S) <= Capacity
         /\ S # Unblocked(q, a, ahd) => Cardinality(a \cup S) = Capacity
<1>1. S \subseteq q
  BY DEF Drains, Unblocked
<1>2. IsFiniteSet(S) /\ a \cap S = {}
  BY <1>1, FS_Subset
<1>3. Cardinality(S) \in Nat /\ Cardinality(a) \in Nat
  BY <1>2, FS_CardinalityType
<1>4. Cardinality(a \cup S) = Cardinality(a) + Cardinality(S)
  <2>1. Cardinality(a \cap S) = 0
    BY <1>2, FS_EmptySet
  <2>2. Cardinality(a \cup S)
          = Cardinality(a) + Cardinality(S) - Cardinality(a \cap S)
    BY <1>2, FS_Union
  <2> QED
    BY <1>3, <2>1, <2>2
<1>5. Capacity \in Int
  BY CapacityAssumption
<1>6. S # {} => Cardinality(a \cup S) <= Capacity
  BY <1>3, <1>4, <1>5 DEF Drains, FreeSlots
<1>7. S = {} => Cardinality(a \cup S) <= Capacity
  OBVIOUS
<1>8. S # Unblocked(q, a, ahd) => Cardinality(a \cup S) >= Capacity
  BY <1>3, <1>4, <1>5 DEF Drains, FreeSlots
<1> QED
  BY <1>3, <1>4, <1>5, <1>6, <1>7, <1>8

\* After drain() a task that no lease blocks was left only for want of a worker:
\* admitting a task moves its conflicts, it removes none.
LEMMA NothingLeftUnblocked ==
  ASSUME NEW q, NEW ahd, NEW a, NEW S,
         Drains(q, a, ahd, S), S = Unblocked(q, a, ahd)
  PROVE  Unblocked(q \ S, a \cup S, ahd \cap ((q \ S) \X (q \ S))) = {}
<1> DEFINE rest == ahd \cap ((q \ S) \X (q \ S))
<1> SUFFICES ASSUME NEW t \in Unblocked(q \ S, a \cup S, rest)
             PROVE  FALSE
  OBVIOUS
<1>1. t \in q /\ t \notin S
  BY DEF Unblocked
<1>2. \A u \in a : ~LeasesConflict(u, t)
  BY DEF Unblocked
<1>3. ASSUME NEW u \in q, <<u, t>> \in ahd
      PROVE  ~LeasesConflict(u, t)
  <2>1. CASE u \in S
    BY <2>1 DEF Unblocked
  <2>2. CASE u \notin S
    <3>1. <<u, t>> \in rest
      BY <1>1, <1>3, <2>2
    <3> QED
      BY <1>3, <2>2, <3>1 DEF Unblocked
  <2> QED
    BY <2>1, <2>2
<1>4. t \in Unblocked(q, a, ahd)
  BY <1>1, <1>2, <1>3 DEF Unblocked
<1> QED
  BY <1>1, <1>4

\* What is left in the queue, and what is active after drain(), is lawful again.
LEMMA DrainKeepsLawful ==
  ASSUME NEW q, NEW ahd, NEW a, NEW S, Lawful(q, ahd, a), Drains(q, a, ahd, S)
  PROVE  /\ S \subseteq q
         /\ Lawful(q \ S, ahd \cap ((q \ S) \X (q \ S)), a \cup S)
<1>1. S \subseteq q
  BY DEF Drains, Unblocked
<1>2. Orders(ahd \cap ((q \ S) \X (q \ S)), q \ S)
  BY DEF Lawful, Orders
<1>3. LeaseFree(a \cup S)
  BY AdmittedLeaseFree DEF Lawful
<1>4. IsFiniteSet(q) /\ IsFiniteSet(a)
  BY TasksAssumption, FS_Subset DEF Lawful
<1>5. Cardinality(a \cup S) <= Capacity
  BY <1>4, AdmittedWithinCapacity DEF Lawful
<1> QED
  BY <1>1, <1>2, <1>3, <1>5 DEF Lawful

\* A task less in the queue, or in the active set, does no harm.
LEMMA FewerStayLawful ==
  ASSUME NEW q, NEW ahd, NEW a, NEW t, Lawful(q, ahd, a)
  PROVE  Lawful(q \ {t}, ahd, a) /\ Lawful(q, ahd, a \ {t})
<1>1. IsFiniteSet(a)
  BY TasksAssumption, FS_Subset DEF Lawful
<1>2. Cardinality(a \ {t}) <= Cardinality(a)
  BY <1>1, FS_Subset
<1>3. Cardinality(a \ {t}) \in Nat /\ Cardinality(a) \in Nat
  BY <1>1, FS_Subset, FS_CardinalityType
<1>4. Cardinality(a \ {t}) <= Capacity
  BY <1>2, <1>3, CapacityAssumption DEF Lawful
<1>5. Orders(ahd, q \ {t}) /\ LeaseFree(a \ {t})
  BY DEF Lawful, Orders, LeaseFree
<1> QED
  BY <1>4, <1>5 DEF Lawful

\* A new task goes to the end of the queue.
LEMMA PushKeepsLawful ==
  ASSUME NEW q, NEW ahd, NEW a, NEW t \in Tasks, t \notin q \cup a,
         ahd \subseteq q \X q, Lawful(q, ahd, a)
  PROVE  Lawful(q \cup {t}, ahd \cup (q \X {t}), a)
BY DEF Lawful, Orders
=============================================================================
