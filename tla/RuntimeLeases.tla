---------------------------- MODULE RuntimeLeases ----------------------------
(***************************************************************************)
(* Leases of agent runs and the outcome of one RuntimeScheduler.drain().   *)
(* src/main/runtime-scheduler.ts                                           *)
(*                                                                         *)
(* The scheduler's array `queue` is only pushed to at its end and spliced. *)
(* It is represented by the set of queued ids and the relation `ahead`:    *)
(* <<u, t>> is in it when u stands before t in the array.                  *)
(***************************************************************************)
EXTENDS Integers, FiniteSets

CONSTANTS Tasks,      \* turn ids
          Lease,      \* Lease[t]: workspace, gitCommonDirectory and mode of t
          NoGit,      \* gitCommonDirectory = null: a workspace outside Git
          Capacity,   \* this.capacity: how many runs may be active at a time
          MaxQueued   \* MAX_QUEUED_RUNTIMES

ASSUME TasksAssumption == IsFiniteSet(Tasks)
ASSUME CapacityAssumption == Capacity \in 1..4
ASSUME MaxQueuedAssumption == MaxQueued \in Nat

\* sharesResource and leasesConflict: two leases on one canonical workspace,
\* or on worktrees of one repository, of which at least one may write.
SharesResource(t, u) ==
  \/ Lease[t].workspace = Lease[u].workspace
  \/ /\ Lease[t].gitCommonDirectory # NoGit
     /\ Lease[t].gitCommonDirectory = Lease[u].gitCommonDirectory

LeasesConflict(t, u) ==
  /\ SharesResource(t, u)
  /\ "write" \in {Lease[t].mode, Lease[u].mode}

-----------------------------------------------------------------------------
\* Mutants: canStart compares with the queue alone, or with the active tasks
\* alone.
UnblockedInQueue(q, a, ahd) ==
  {t \in q : \A u \in q : <<u, t>> \in ahd => ~LeasesConflict(u, t)}

UnblockedByActive(q, a, ahd) ==
  {t \in q : \A u \in a : ~LeasesConflict(u, t)}

\* The lease test of canStart, over the whole queue: the queued tasks that
\* conflict neither with an active task nor with an earlier queued one.
Unblocked(q, a, ahd) ==
  {t \in q : /\ \A u \in a : ~LeasesConflict(u, t)
             /\ \A u \in q : <<u, t>> \in ahd => ~LeasesConflict(u, t)}

FreeSlots(a) == Capacity - Cardinality(a)

\* S is what drain() starts: the first unblocked tasks, in queue order, until
\* the slots or the unblocked tasks run out.  Starting a task unblocks no
\* other: its conflicts move from the queue to the active set.  (DrainLoop
\* checks this description against the loop itself.)
Drains(q, a, ahd, S) ==
  LET ready == Unblocked(q, a, ahd) IN
  /\ S \subseteq ready
  /\ \A t \in S, u \in ready : <<u, t>> \in ahd => u \in S
  /\ S # {} => Cardinality(S) <= FreeSlots(a)
  /\ S # ready => Cardinality(S) >= FreeSlots(a)
=============================================================================
