--------------------------- MODULE RuntimeScheduler ---------------------------
(***************************************************************************)
(* The admission scheduler of agent runs (src/main/runtime-scheduler.ts).  *)
(*                                                                         *)
(* Every operation runs to completion in the main process, its trailing    *)
(* drain() included.  What interleaves is the asynchronous start() of each *)
(* admitted task, whose rejection takes the task out again, with enqueue,  *)
(* cancel and release.                                                     *)
(*                                                                         *)
(* A turn id is a fresh UUID, so an id that is neither queued, nor active, *)
(* nor has an unsettled start() may stand for the next turn with its       *)
(* lease: a finite Tasks still gives an endless stream of requests.        *)
(***************************************************************************)
EXTENDS RuntimeLeases

VARIABLES
  queue,     \* ids in this.queue
  ahead,     \* their order
  active,    \* keys of this.active
  starting   \* admitted ids whose start() promise is not settled

schedVars == <<queue, ahead, active, starting>>

Init == queue = {} /\ ahead = {} /\ active = {} /\ starting = {}

\* drain(): from queue q in order ahd and active set a, as the last step of an
\* operation.  The start() of what it admits is called in a later microtask.
Drain(q, ahd, a, unsettled) ==
  \E S \in SUBSET q :
    /\ Drains(q, a, ahd, S)
    /\ queue' = q \ S
    /\ ahead' = ahd \cap (queue' \X queue')
    /\ active' = a \cup S
    /\ starting' = unsettled \cup S

-----------------------------------------------------------------------------
\* Mutant: cancel does not drain.
CancelWithoutDrain(t) ==
  /\ t \in queue
  /\ queue' = queue \ {t}
  /\ ahead' = ahead \cap (queue' \X queue')
  /\ UNCHANGED <<active, starting>>

\* enqueue throws, and changes nothing, on an id already scheduled or on a
\* full queue, even when the task could start at once.
CanEnqueue(t) ==
  /\ t \notin queue \cup active \cup starting
  /\ Cardinality(queue) < MaxQueued

Enqueue(t) ==
  /\ CanEnqueue(t)
  /\ Drain(queue \cup {t}, ahead \cup (queue \X {t}), active, starting)

\* cancel: only a queued task; an admitted one is not found.
Cancel(t) ==
  /\ t \in queue
  /\ Drain(queue \ {t}, ahead, active, starting)

\* release: the run has ended.  Its start() may still be unsettled.
Release(t) ==
  /\ t \in active
  /\ Drain(queue, ahead, active \ {t}, starting)

\* The promise of start() is fulfilled.
StartSettles(t) ==
  /\ t \in starting
  /\ starting' = starting \ {t}
  /\ UNCHANGED <<queue, ahead, active>>

\* The promise of start() is rejected: the task leaves the active set, unless
\* it was released before, in which case nothing happens.
StartFails(t) ==
  /\ t \in starting
  /\ \/ /\ t \in active
        /\ Drain(queue, ahead, active \ {t}, starting \ {t})
     \/ /\ t \notin active
        /\ starting' = starting \ {t}
        /\ UNCHANGED <<queue, ahead, active>>

\* The application ends and a new scheduler is constructed at the next start:
\* nothing of the queue is persisted.
Reconstruct ==
  /\ queue' = {}
  /\ ahead' = {}
  /\ active' = {}
  /\ starting' = {}

Next ==
  \/ \E t \in Tasks : Enqueue(t) \/ Cancel(t) \/ Release(t)
  \/ \E t \in Tasks : StartSettles(t) \/ StartFails(t)
  \/ Reconstruct

Spec == Init /\ [][Next]_schedVars

-----------------------------------------------------------------------------
\* `ahead` is the order of an array of distinct ids.
QueueIsOrdered ==
  /\ ahead \subseteq queue \X queue
  /\ \A t, u \in queue : t # u => (<<t, u>> \in ahead <=> <<u, t>> \notin ahead)
  /\ \A t \in queue : <<t, t>> \notin ahead

\* Types: queued and active ids are disjoint, and the order is one of the queue.
TypeOK ==
  /\ queue \subseteq Tasks
  /\ active \subseteq Tasks
  /\ starting \subseteq Tasks
  /\ QueueIsOrdered
  /\ queue \cap active = {}

\* Writers are serialized: no two active runs hold conflicting leases.
NoConflictingLeases ==
  \A t, u \in active : t # u => ~LeasesConflict(t, u)

\* Never more active runs than workers.
WithinCapacity == Cardinality(active) <= Capacity

\* No lost wake-up: whenever no operation is in progress, a queued task that no
\* lease blocks is waiting only for a worker.
NoLostWakeup ==
  Unblocked(queue, active, ahead) # {} => Cardinality(active) = Capacity

\* A task never overtakes an earlier queued one it conflicts with, whichever
\* operation's drain admits it: a reader does not pass a waiting writer.
NoOvertaking ==
  [][\A t \in active' \ active, u \in queue \cap queue' :
        (t \in queue => <<u, t>> \in ahead) => ~LeasesConflict(u, t)]_schedVars

-----------------------------------------------------------------------------
\* Every run ends some day: its process exits, and the exit releases the task.
FairSpec == Spec /\ \A t \in Tasks : WF_schedVars(Release(t))

\* No starvation: with an endless stream of later requests, a queued task
\* still leaves the queue, provided the runs that hold leases and workers end.
EveryQueuedTaskLeaves ==
  \A t \in Tasks : (t \in queue) ~> (t \notin queue)
=============================================================================
