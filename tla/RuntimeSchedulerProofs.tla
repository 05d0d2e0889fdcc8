------------------------ MODULE RuntimeSchedulerProofs ------------------------
(***************************************************************************)
(* What RuntimeScheduler guarantees for every set of tasks, every          *)
(* assignment of leases and every capacity.  All operations end in a       *)
(* drain(), so the one lemma about Drain carries the invariant through     *)
(* each of them.                                                           *)
(***************************************************************************)
EXTENDS RuntimeScheduler, RuntimeLeasesProofs

IInv ==
  /\ TypeOK
  /\ NoConflictingLeases
  /\ WithinCapacity
  /\ NoLostWakeup

-----------------------------------------------------------------------------
\* An operation that hands drain() a lawful queue and active set leaves the
\* scheduler in a lawful state.
LEMMA DrainEstablishes ==
  ASSUME NEW q, NEW a, NEW unsettled \in SUBSET Tasks, NEW ahd,
         Lawful(q, ahd, a), Drain(q, ahd, a, unsettled)
  PROVE  IInv'
<1>1. PICK S \in SUBSET q :
        /\ Drains(q, a, ahd, S)
        /\ queue' = q \ S
        /\ ahead' = ahd \cap (queue' \X queue')
        /\ active' = a \cup S
        /\ starting' = unsettled \cup S
  BY DEF Drain
<1>2. Lawful(queue', ahead', active')
  BY <1>1, DrainKeepsLawful
<1>3. /\ ahead' \subseteq queue' \X queue'
      /\ starting' \subseteq Tasks
  BY <1>1 DEF Lawful
<1>4. TypeOK' /\ NoConflictingLeases' /\ WithinCapacity'
  BY <1>2, <1>3 DEF Lawful, Orders, LeaseFree, TypeOK, QueueIsOrdered,
     NoConflictingLeases, WithinCapacity
<1>5. NoLostWakeup'
  <2>1. IsFiniteSet(q) /\ IsFiniteSet(a)
    BY TasksAssumption, FS_Subset DEF Lawful
  <2>2. S # Unblocked(q, a, ahd) => Cardinality(active') = Capacity
    BY <1>1, <2>1, AdmittedWithinCapacity DEF Lawful
  <2>3. S = Unblocked(q, a, ahd) => Unblocked(queue', active', ahead') = {}
    BY <1>1, NothingLeftUnblocked
  <2>4. Unblocked(queue, active, ahead)' = Unblocked(queue', active', ahead')
    BY DEF Unblocked
  <2> QED
    BY <2>2, <2>3, <2>4 DEF NoLostWakeup
<1> QED
  BY <1>4, <1>5 DEF IInv

-----------------------------------------------------------------------------
\* A new scheduler is empty and lawful.
LEMMA InitIInv == Init => IInv
<1> SUFFICES ASSUME Init PROVE IInv
  OBVIOUS
<1>1. Cardinality(active) = 0
  BY FS_EmptySet DEF Init
<1>2. 0 <= Capacity
  BY CapacityAssumption
<1> QED
  BY <1>1, <1>2 DEF Init, IInv, TypeOK, QueueIsOrdered, NoConflictingLeases,
     WithinCapacity, NoLostWakeup, Unblocked

\* Every operation of the scheduler, and every outcome of a start, keeps it lawful.
LEMMA StepIInv == IInv /\ [Next]_schedVars => IInv'
<1> SUFFICES ASSUME IInv, [Next]_schedVars PROVE IInv'
  OBVIOUS
<1>0. /\ Lawful(queue, ahead, active)
      /\ starting \in SUBSET Tasks /\ ahead \subseteq queue \X queue
  BY DEF IInv, TypeOK, QueueIsOrdered, NoConflictingLeases, WithinCapacity,
     Lawful, Orders, LeaseFree
<1>1. ASSUME NEW t \in Tasks, Enqueue(t) PROVE IInv'
  <2> DEFINE q == queue \cup {t}
             ahd == ahead \cup (queue \X {t})
  <2>1. t \notin queue \cup active /\ Drain(q, ahd, active, starting)
    BY <1>1 DEF Enqueue, CanEnqueue
  <2>2. Lawful(q, ahd, active)
    BY <1>0, <2>1, PushKeepsLawful
  <2> HIDE DEF q, ahd
  <2> QED
    BY <1>0, <2>1, <2>2, DrainEstablishes
<1>2. ASSUME NEW t \in Tasks, Cancel(t) PROVE IInv'
  <2> DEFINE q == queue \ {t}
  <2>1. Drain(q, ahead, active, starting)
    BY <1>2 DEF Cancel
  <2>2. Lawful(q, ahead, active)
    BY <1>0, FewerStayLawful
  <2> HIDE DEF q
  <2> QED
    BY <1>0, <2>1, <2>2, DrainEstablishes
<1>3. ASSUME NEW t \in Tasks, Release(t) PROVE IInv'
  <2> DEFINE a == active \ {t}
  <2>1. Drain(queue, ahead, a, starting)
    BY <1>3 DEF Release
  <2>2. Lawful(queue, ahead, a)
    BY <1>0, FewerStayLawful
  <2> HIDE DEF a
  <2> QED
    BY <1>0, <2>1, <2>2, DrainEstablishes
<1>4. ASSUME UNCHANGED <<queue, ahead, active>>, starting' \subseteq starting
      PROVE  IInv'
  BY <1>4 DEF IInv, TypeOK, QueueIsOrdered, NoConflictingLeases,
     WithinCapacity, NoLostWakeup, Unblocked
<1>5. ASSUME NEW t \in Tasks, StartSettles(t) PROVE IInv'
  BY <1>4, <1>5 DEF StartSettles
<1>6. ASSUME NEW t \in Tasks, StartFails(t) PROVE IInv'
  <2>1. CASE t \in active /\ Drain(queue, ahead, active \ {t}, starting \ {t})
    <3>1. Lawful(queue, ahead, active \ {t}) /\ starting \ {t} \in SUBSET Tasks
      BY <1>0, FewerStayLawful
    <3> QED
      BY <2>1, <3>1, DrainEstablishes
  <2>2. CASE starting' = starting \ {t} /\ UNCHANGED <<queue, ahead, active>>
    BY <1>4, <2>2
  <2> QED
    BY <1>6, <2>1, <2>2 DEF StartFails
<1>7. ASSUME Reconstruct PROVE IInv'
  <2>1. Cardinality(active') = 0
    BY <1>7, FS_EmptySet DEF Reconstruct
  <2>2. 0 <= Capacity
    BY CapacityAssumption
  <2> QED
    BY <1>7, <2>1, <2>2 DEF Reconstruct, IInv, TypeOK, QueueIsOrdered,
       NoConflictingLeases, WithinCapacity, NoLostWakeup, Unblocked
<1>8. CASE UNCHANGED schedVars
  BY <1>4, <1>8 DEF schedVars
<1> QED
  BY <1>1, <1>2, <1>3, <1>5, <1>6, <1>7, <1>8 DEF Next

\* The inductive invariant holds in every state the scheduler reaches.
LEMMA Invariance == Spec => []IInv
BY InitIInv, StepIInv, PTL DEF Spec

-----------------------------------------------------------------------------
\* The scheduler's maps hold known ids, no id is queued and active at once, and
\* the queue is an array of distinct ids.
THEOREM TypeCorrect == Spec => []TypeOK
<1>1. IInv => TypeOK
  BY DEF IInv
<1> QED
  BY <1>1, Invariance, PTL

\* Writers of one workspace or repository never run together, whatever the
\* interleaving of requests, stops, ends and failed starts.
THEOREM LeasesAreExclusive == Spec => []NoConflictingLeases
<1>1. IInv => NoConflictingLeases
  BY DEF IInv
<1> QED
  BY <1>1, Invariance, PTL

\* No operation ever admits a run beyond the workers there are.
THEOREM CapacityIsRespected == Spec => []WithinCapacity
<1>1. IInv => WithinCapacity
  BY DEF IInv
<1> QED
  BY <1>1, Invariance, PTL

\* No operation forgets to wake a task that may run.
THEOREM NoWakeupIsLost == Spec => []NoLostWakeup
<1>1. IInv => NoLostWakeup
  BY DEF IInv
<1> QED
  BY <1>1, Invariance, PTL

-----------------------------------------------------------------------------
\* The step of NoOvertaking, without its subscript.
InOrder ==
  \A t \in active' \ active, u \in queue \cap queue' :
     (t \in queue => <<u, t>> \in ahead) => ~LeasesConflict(u, t)

\* One drain() admits no task past an earlier one it conflicts with.
LEMMA DrainInOrder ==
  ASSUME NEW q, NEW ahd, NEW a, NEW unsettled, Drain(q, ahd, a, unsettled),
         a \subseteq active, queue \cap queue' \subseteq q,
         \A t \in q, u \in queue \cap queue' :
            (t \in queue => <<u, t>> \in ahead) => <<u, t>> \in ahd
  PROVE  InOrder
<1>1. PICK S \in SUBSET q : Drains(q, a, ahd, S) /\ active' = a \cup S
  BY DEF Drain
<1> SUFFICES ASSUME NEW t \in active' \ active, NEW u \in queue \cap queue',
                    t \in queue => <<u, t>> \in ahead
             PROVE  ~LeasesConflict(u, t)
  BY DEF InOrder
<1>2. t \in S
  BY <1>1
<1>3. t \in Unblocked(q, a, ahd)
  BY <1>1, <1>2 DEF Drains
<1>4. <<u, t>> \in ahd /\ u \in q
  BY <1>1, <1>2
<1> QED
  BY <1>3, <1>4 DEF Unblocked

\* A task never passes an earlier queued one it conflicts with, in any step of
\* any behaviour: queued writers are not starved by later readers.
THEOREM NobodyOvertakes == Spec => NoOvertaking
<1>1. [Next]_schedVars => [InOrder]_schedVars
  <2> SUFFICES ASSUME Next PROVE InOrder
    OBVIOUS
  <2>1. ASSUME NEW t \in Tasks, Enqueue(t) PROVE InOrder
    BY <2>1, DrainInOrder DEF Enqueue
  <2>2. ASSUME NEW t \in Tasks, Cancel(t) PROVE InOrder
    <3>1. queue' \subseteq queue \ {t}
      BY <2>2 DEF Cancel, Drain
    <3> QED
      BY <2>2, <3>1, DrainInOrder DEF Cancel
  <2>3. ASSUME NEW t \in Tasks, Release(t) PROVE InOrder
    BY <2>3, DrainInOrder DEF Release
  <2>4. ASSUME NEW t \in Tasks, StartSettles(t) PROVE InOrder
    BY <2>4 DEF StartSettles, InOrder
  <2>5. ASSUME NEW t \in Tasks, StartFails(t) PROVE InOrder
    <3>1. CASE Drain(queue, ahead, active \ {t}, starting \ {t})
      BY <3>1, DrainInOrder
    <3>2. CASE UNCHANGED <<queue, ahead, active>>
      BY <3>2 DEF InOrder
    <3> QED
      BY <2>5, <3>1, <3>2 DEF StartFails
  <2>6. ASSUME Reconstruct PROVE InOrder
    BY <2>6 DEF Reconstruct, InOrder
  <2> QED
    BY <2>1, <2>2, <2>3, <2>4, <2>5, <2>6 DEF Next
<1> QED
  BY <1>1, PTL DEF Spec, NoOvertaking, InOrder
=============================================================================
