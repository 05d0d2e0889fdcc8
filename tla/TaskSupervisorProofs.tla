------------------------- MODULE TaskSupervisorProofs -------------------------
(***************************************************************************)
(* What the supervisor and the scheduler keep together, for any chats,     *)
(* turns, leases and capacity, whichever of the narrow interleavings       *)
(* happen: the map entries, slots and processes belong to the same turns,  *)
(* and agents at work never share a workspace that one of them may write.  *)
(***************************************************************************)
EXTENDS TaskSupervisor, RuntimeLeasesProofs

SchedulerOK ==
  /\ Lawful(queue, ahead, active)
  /\ ahead \subseteq queue \X queue
  /\ starting \subseteq Tasks /\ queue \cap starting = {}

\* TypeOK without the lengths, and with the kinds of messages.
Statuses == {"none", "deleted"} \cup NonTerminal \cup Terminal
ThreadStatuses ==
  {"idle", "running", "awaiting_approval", "failed", "interrupted", "deleted"}

RowTypes ==
  /\ turnStatus \in [Tasks -> Statuses]
  /\ threadStatus \in [Threads -> ThreadStatuses]
  /\ approval \in [Tasks -> {"none", "pending", "allowed", "denied"}]

Requests == {"start", "stop", "decision"}
Reports == {"running", "request", "awaiting_approval"} \cup Terminal

MemoryTypes ==
  /\ up \in BOOLEAN
  /\ request \in [Tasks -> {"none", "configuration", "baseline", "lease"}]
  /\ compacting \subseteq Threads
  /\ pending \in [Threads -> Tasks \cup {None}]
  /\ runtime \in [Threads -> Tasks \cup {None}]
  /\ launch \in [Tasks -> {"none", "skills", "ready", "settled"}]
  /\ closing \subseteq Tasks /\ stopTimer \subseteq Tasks /\ stopped \subseteq Tasks
  /\ child \in [Tasks -> {"none", "exited", "gone"} \cup Alive]
  /\ post \in [Tasks -> Seq(Requests)]
  /\ mail \in [Tasks -> Seq(Reports)]

Types == RowTypes /\ MemoryTypes

\* No start request is among the messages.
NoStart(messages) == \A i \in 1 .. Len(messages) : messages[i] # "start"

\* A turn is launched once, from its admission on; until the launch settles its
\* process has no start request.
LaunchOK(t) ==
  /\ launch[t] = "none" /\ t \in active \cup starting => t \in active \cap starting
  /\ launch[t] = "skills" => t \in active \cap starting
  /\ launch[t] = "ready" => t \in starting /\ NoStart(post[t]) /\ Len(post[t]) <= MaxPost
  /\ launch[t] \in {"none", "skills"} => child[t] = "none"
  /\ launch[t] = "ready" => child[t] \in {"booting", "exited", "gone"}
  /\ launch[t] = "ready" /\ child[t] = "booting" => t \in active
  /\ launch[t] # "none" => t \notin queue

\* A process that has its start request, or may still get it, holds the slot.
ProcessOK(t) ==
  /\ child[t] \in Alive \ {"booting"} => t \in active
  /\ child[t] = "booting" /\ t \notin active => NoStart(post[t])
  /\ child[t] \notin Alive => post[t] = <<>>
  /\ Len(post[t]) <= MaxPost + 1
  /\ child[t] \in {"none", "booting", "session", "stuck", "gone"} => mail[t] = <<>>
  /\ child[t] = "working" => Len(mail[t]) <= 1
  /\ child[t] \in {"asking", "resumed"} => Len(mail[t]) <= 3
  /\ Len(mail[t]) <= 4

\* The scheduler does not know a turn before its request has ended.
RequestOK(t) ==
  /\ turnStatus[t] = "none" => request[t] \in {"none", "configuration"}
  /\ turnStatus[t] = "none" \/ request[t] # "none" =>
       launch[t] = "none" /\ t \notin queue \cup active \cup starting

TurnOK(t) ==
  /\ LaunchOK(t)
  /\ ProcessOK(t)
  /\ RequestOK(t)
  /\ t \in closing => launch[t] \in {"ready", "settled"}

MayPend(t, h) ==
  ThreadOf[t] = h /\ t \in queue \cup active /\ launch[t] \in {"none", "skills"}

MayRun(t, h) ==
  /\ ThreadOf[t] = h /\ t \in active \ closing
  /\ launch[t] \in {"ready", "settled"} /\ child[t] \notin {"none", "gone"}

MapsOK ==
  \A t \in Tasks, h \in Threads : /\ pending[h] = t => MayPend(t, h)
                                  /\ runtime[h] = t => MayRun(t, h)

TurnsOK == \A t \in Tasks : TurnOK(t)

\* The inductive invariant.
SupervisorInv == SchedulerOK /\ Types /\ TurnsOK /\ MapsOK

-----------------------------------------------------------------------------
(* What an operation of the scheduler does to each turn.                    *)

\* A turn the operation is not about is at most admitted.
AtMostAdmitted(u) ==
  /\ u \in active => u \in active'
  /\ u \in starting => u \in starting'
  /\ u \in queue' => u \in queue
  /\ u \in queue => u \in queue' \/ u \in active'
  /\ u \in active' \ active => u \in queue \cap starting'
  /\ u \in starting' \ starting => u \in queue \cap active'

OthersAtMostAdmitted(t) == \A u \in Tasks \ {t} : AtMostAdmitted(u)

\* The scheduler's own leases are the supervisor's.
LEMMA SameCardinality == \A S : Scheduler!Cardinality(S) = Cardinality(S)
BY DEF Scheduler!Cardinality, Cardinality

\* The scheduler's instance blocks as RuntimeLeases does.
LEMMA SameUnblocked ==
  ASSUME NEW q, NEW a, NEW ahd
  PROVE  Scheduler!Unblocked(q, a, ahd) = Unblocked(q, a, ahd)
BY DEF Scheduler!Unblocked, Scheduler!LeasesConflict, Scheduler!SharesResource,
  Unblocked, LeasesConflict, SharesResource

\* The scheduler's instance drains as RuntimeLeases does.
LEMMA SameDrains ==
  ASSUME NEW q, NEW a, NEW ahd, NEW S, Scheduler!Drains(q, a, ahd, S)
  PROVE  Drains(q, a, ahd, S)
BY SameCardinality, SameUnblocked
  DEF Scheduler!Drains, Scheduler!FreeSlots, Drains, FreeSlots

\* What drain() leaves is lawful, and it moves whole tasks from the queue.
LEMMA DrainSummary ==
  ASSUME NEW q, NEW ahd, NEW a, NEW unsettled \in SUBSET Tasks,
         Lawful(q, ahd, a), q \cap unsettled = {},
         Scheduler!Drain(q, ahd, a, unsettled)
  PROVE  /\ SchedulerOK'
         /\ \E S \in SUBSET q : /\ queue' = q \ S
                                /\ active' = a \cup S
                                /\ starting' = unsettled \cup S
<1>1. PICK S \in SUBSET q :
        /\ Drains(q, a, ahd, S)
        /\ queue' = q \ S
        /\ ahead' = ahd \cap (queue' \X queue')
        /\ active' = a \cup S
        /\ starting' = unsettled \cup S
  BY SameDrains DEF Scheduler!Drain
<1>2. Lawful(queue', ahead', active')
  BY <1>1, DrainKeepsLawful
<1>3. /\ ahead' \subseteq queue' \X queue'
      /\ starting' \subseteq Tasks /\ queue' \cap starting' = {}
  BY <1>1 DEF Lawful
<1> QED
  BY <1>1, <1>2, <1>3 DEF SchedulerOK

\* enqueue: the turn is new to the scheduler, and is queued or admitted.
LEMMA EnqueueSummary ==
  ASSUME SchedulerOK, NEW t \in Tasks, Scheduler!Enqueue(t)
  PROVE  /\ SchedulerOK' /\ OthersAtMostAdmitted(t)
         /\ t \notin queue \cup active \cup starting
         /\ t \in queue' \/ t \in active'
         /\ (t \in active') = (t \in starting')
<1> DEFINE q == queue \cup {t}
           ahd == ahead \cup (queue \X {t})
<1>1. /\ t \notin queue \cup active \cup starting
      /\ Scheduler!Drain(q, ahd, active, starting)
  BY DEF Scheduler!Enqueue, Scheduler!CanEnqueue
<1>2. Lawful(q, ahd, active) /\ q \cap starting = {} /\ starting \in SUBSET Tasks
  BY <1>1, PushKeepsLawful DEF SchedulerOK
<1>3. /\ SchedulerOK'
      /\ \E S \in SUBSET q : /\ queue' = q \ S
                             /\ active' = active \cup S
                             /\ starting' = starting \cup S
  <2> HIDE DEF q, ahd
  <2> QED
    BY <1>1, <1>2, DrainSummary
<1> QED
  BY <1>1, <1>3 DEF OthersAtMostAdmitted, AtMostAdmitted

\* cancel: the turn was queued, and is no longer known.
LEMMA CancelSummary ==
  ASSUME SchedulerOK, NEW t \in Tasks, Scheduler!Cancel(t)
  PROVE  /\ SchedulerOK' /\ OthersAtMostAdmitted(t)
         /\ t \in queue /\ t \notin queue' \cup active' \cup starting'
<1>1. t \in queue /\ Scheduler!Drain(queue \ {t}, ahead, active, starting)
  BY DEF Scheduler!Cancel
<1>2. /\ Lawful(queue \ {t}, ahead, active) /\ starting \in SUBSET Tasks
      /\ (queue \ {t}) \cap starting = {}
  BY FewerStayLawful DEF SchedulerOK
<1>3. /\ SchedulerOK'
      /\ \E S \in SUBSET (queue \ {t}) : /\ queue' = (queue \ {t}) \ S
                                         /\ active' = active \cup S
                                         /\ starting' = starting \cup S
  BY <1>1, <1>2, DrainSummary
<1>4. t \notin active /\ t \notin starting
  BY <1>1 DEF SchedulerOK, Lawful
<1> QED
  BY <1>1, <1>3, <1>4 DEF OthersAtMostAdmitted, AtMostAdmitted

\* release: the turn gives its slot back; its start() may still be unsettled.
LEMMA ReleaseSummary ==
  ASSUME SchedulerOK, NEW t \in Tasks, Scheduler!Release(t)
  PROVE  /\ SchedulerOK' /\ OthersAtMostAdmitted(t)
         /\ t \in active /\ t \notin active' \cup queue'
         /\ (t \in starting') = (t \in starting)
<1>1. t \in active /\ Scheduler!Drain(queue, ahead, active \ {t}, starting)
  BY DEF Scheduler!Release
<1>2. /\ Lawful(queue, ahead, active \ {t}) /\ starting \in SUBSET Tasks
      /\ queue \cap starting = {}
  BY FewerStayLawful DEF SchedulerOK
<1>3. /\ SchedulerOK'
      /\ \E S \in SUBSET queue : /\ queue' = queue \ S
                                 /\ active' = (active \ {t}) \cup S
                                 /\ starting' = starting \cup S
  BY <1>1, <1>2, DrainSummary
<1>4. t \notin queue
  BY <1>1 DEF SchedulerOK, Lawful
<1> QED
  BY <1>1, <1>3, <1>4 DEF OthersAtMostAdmitted, AtMostAdmitted

\* start() has settled: nothing else changes.
LEMMA SettleSummary ==
  ASSUME SchedulerOK, NEW t \in Tasks, Scheduler!StartSettles(t)
  PROVE  /\ SchedulerOK' /\ OthersAtMostAdmitted(t)
         /\ t \in starting /\ t \notin starting'
         /\ UNCHANGED <<queue, active>>
<1>1. t \in starting /\ starting' = starting \ {t} /\ UNCHANGED <<queue, ahead, active>>
  BY DEF Scheduler!StartSettles
<1>2. SchedulerOK'
  BY <1>1 DEF SchedulerOK
<1> QED
  BY <1>1, <1>2 DEF OthersAtMostAdmitted, AtMostAdmitted

\* start() is rejected: the turn has no slot any more, if it still had one.
LEMMA FailSummary ==
  ASSUME SchedulerOK, NEW t \in Tasks, Scheduler!StartFails(t)
  PROVE  /\ SchedulerOK' /\ OthersAtMostAdmitted(t)
         /\ t \in starting /\ t \notin starting' \cup active' \cup queue'
<1>1. t \in starting /\ t \notin queue
  BY DEF Scheduler!StartFails, SchedulerOK
<1>2. CASE t \in active /\ Scheduler!Drain(queue, ahead, active \ {t}, starting \ {t})
  <2>1. /\ Lawful(queue, ahead, active \ {t}) /\ starting \ {t} \in SUBSET Tasks
        /\ queue \cap (starting \ {t}) = {}
    BY FewerStayLawful DEF SchedulerOK
  <2>2. /\ SchedulerOK'
        /\ \E S \in SUBSET queue : /\ queue' = queue \ S
                                   /\ active' = (active \ {t}) \cup S
                                   /\ starting' = (starting \ {t}) \cup S
    BY <1>2, <2>1, DrainSummary
  <2> QED
    BY <1>1, <2>2 DEF OthersAtMostAdmitted, AtMostAdmitted
<1>3. CASE /\ t \notin active
           /\ starting' = starting \ {t}
           /\ UNCHANGED <<queue, ahead, active>>
  <2>1. SchedulerOK'
    BY <1>3 DEF SchedulerOK
  <2> QED
    BY <1>1, <1>3, <2>1 DEF OthersAtMostAdmitted, AtMostAdmitted
<1> QED
  BY <1>2, <1>3 DEF Scheduler!StartFails

\* Nothing happens in the scheduler.
LEMMA RestSummary ==
  ASSUME SchedulerOK, UNCHANGED scheduler
  PROVE  SchedulerOK' /\ \A u \in Tasks : AtMostAdmitted(u)
BY DEF SchedulerOK, scheduler, AtMostAdmitted

-----------------------------------------------------------------------------
(* The frame: what a step of one turn leaves as it was.                     *)

\* A row stays when it is written, and a request only ends or goes on.
RowsKept(u) ==
  /\ turnStatus'[u] = "none" =>
       turnStatus[u] = "none" /\ request'[u] \in {"none", request[u]}
  /\ request'[u] # "none" => request[u] # "none"

\* The step is not about the turn: it is at most admitted.
Kept(u) ==
  /\ AtMostAdmitted(u)
  /\ RowsKept(u)
  /\ launch'[u] = launch[u] /\ child'[u] = child[u]
  /\ post'[u] = post[u] /\ mail'[u] = mail[u]
  /\ u \in closing' => u \in closing

\* A turn whose launch, process and request stay, and that is at most admitted, stays
\* well.
LEMMA KeptStaysOK ==
  ASSUME SchedulerOK, NEW u \in Tasks, TurnOK(u), Kept(u)
  PROVE  TurnOK(u)'
<1>1. u \notin starting \/ u \notin queue
  BY DEF SchedulerOK
<1>2. u \notin active \/ u \notin queue
  BY DEF SchedulerOK, Lawful
<1>3. LaunchOK(u)'
  BY <1>1, <1>2 DEF TurnOK, LaunchOK, Kept, AtMostAdmitted
<1>4. ProcessOK(u)'
  BY DEF TurnOK, ProcessOK, Kept, AtMostAdmitted
<1>5. RequestOK(u)'
  BY DEF TurnOK, RequestOK, Kept, RowsKept, AtMostAdmitted
<1>6. u \in closing' => launch'[u] \in {"ready", "settled"}
  BY DEF TurnOK, Kept
<1> QED
  BY <1>3, <1>4, <1>5, <1>6 DEF TurnOK

\* Such a turn may stay where the maps have it.
LEMMA KeptStaysInMaps ==
  ASSUME NEW u \in Tasks, Kept(u), NEW h
  PROVE  /\ MayPend(u, h) => MayPend(u, h)'
         /\ MayRun(u, h) => MayRun(u, h)'
BY DEF Kept, AtMostAdmitted, MayPend, MayRun

\* A step about turn t: the other turns are kept, and the maps lose entries or
\* gain t.
LEMMA TurnStepKeepsInv ==
  ASSUME SupervisorInv, NEW t \in Tasks, SchedulerOK', Types', TurnOK(t)',
         \A u \in Tasks \ {t} : Kept(u),
         \A h \in Threads : /\ pending'[h] \in {pending[h], t, None}
                            /\ pending'[h] = t => MayPend(t, h)'
                            /\ runtime'[h] \in {runtime[h], t, None}
                            /\ runtime'[h] = t => MayRun(t, h)'
  PROVE  SupervisorInv'
<1>1. TurnsOK'
  <2> SUFFICES ASSUME NEW u \in Tasks PROVE TurnOK(u)'
    BY DEF TurnsOK
  <2> QED
    BY KeptStaysOK DEF SupervisorInv, TurnsOK
<1>2. MapsOK'
  <2> SUFFICES ASSUME NEW u \in Tasks, NEW h \in Threads
               PROVE  /\ pending'[h] = u => MayPend(u, h)'
                      /\ runtime'[h] = u => MayRun(u, h)'
    BY DEF MapsOK
  <2>1. /\ pending[h] = u => MayPend(u, h)
        /\ runtime[h] = u => MayRun(u, h)
    BY DEF SupervisorInv, MapsOK
  <2>2. u # None
    BY ThreadsAssumption
  <2>3. CASE u = t
    BY <2>3
  <2>4. CASE u # t
    <3>1. pending'[h] = u => pending[h] = u
      BY <2>2, <2>4
    <3>2. runtime'[h] = u => runtime[h] = u
      BY <2>2, <2>4
    <3>3. Kept(u)
      BY <2>4
    <3> QED
      BY <2>1, <3>1, <3>2, <3>3, KeptStaysInMaps
  <2> QED
    BY <2>3, <2>4
<1> QED
  BY <1>1, <1>2 DEF SupervisorInv

\* A step that is about no turn, or only about its rows: the maps may lose entries.
LEMMA QuietStepKeepsInv ==
  ASSUME SupervisorInv, SchedulerOK', Types', \A u \in Tasks : Kept(u),
         \A h \in Threads : /\ pending'[h] \in {pending[h], None}
                            /\ runtime'[h] \in {runtime[h], None}
  PROVE  SupervisorInv'
<1>1. TurnsOK'
  BY KeptStaysOK DEF SupervisorInv, TurnsOK
<1>2. MapsOK'
  <2> SUFFICES ASSUME NEW u \in Tasks, NEW h \in Threads
               PROVE  /\ pending'[h] = u => MayPend(u, h)'
                      /\ runtime'[h] = u => MayRun(u, h)'
    BY DEF MapsOK
  <2>1. /\ pending[h] = u => MayPend(u, h)
        /\ runtime[h] = u => MayRun(u, h)
    BY DEF SupervisorInv, MapsOK
  <2>2. u # None
    BY ThreadsAssumption
  <2> QED
    BY <2>1, <2>2, KeptStaysInMaps
<1> QED
  BY <1>1, <1>2 DEF SupervisorInv

\* Only rows, requests and the compacting chats change.
Rows == UNCHANGED <<scheduler, supervisor, process>>

\* A step that only writes rows keeps the invariant.
LEMMA RowStepKeepsInv ==
  ASSUME SupervisorInv, Types', Rows, \A u \in Tasks : RowsKept(u)
  PROVE  SupervisorInv'
<1>1. SchedulerOK' /\ \A u \in Tasks : AtMostAdmitted(u)
  BY RestSummary DEF SupervisorInv, Rows
<1>2. \A u \in Tasks : Kept(u)
  BY <1>1 DEF Kept, Rows, supervisor, process
<1> QED
  BY <1>1, <1>2, QuietStepKeepsInv DEF Rows, supervisor

\* A status written to the rows of a turn and its chat is of their types.
LEMMA StatusTypes ==
  ASSUME RowTypes, NEW t \in Tasks, NEW ofTurn \in Statuses, NEW ofThread \in ThreadStatuses,
         SetStatus(t, ofTurn, ofThread)
  PROVE  /\ turnStatus' \in [Tasks -> Statuses]
         /\ threadStatus' \in [Threads -> ThreadStatuses]
         /\ turnStatus'[t] = ofTurn
         /\ \A u \in Tasks \ {t} : turnStatus'[u] = turnStatus[u]
BY ThreadsAssumption DEF RowTypes, SetStatus

\* The statuses the code writes.
LEMMA StatusNames ==
  /\ {"none", "deleted", "queued", "preparing", "running", "awaiting_approval"}
       \subseteq Statuses
  /\ {"completed", "failed", "cancelled", "interrupted"} \subseteq Statuses
  /\ NonTerminal \subseteq Statuses /\ Terminal \subseteq Statuses
  /\ {"idle", "running", "awaiting_approval", "failed", "interrupted", "deleted"}
       \subseteq ThreadStatuses
BY DEF Statuses, ThreadStatuses, NonTerminal, Terminal

\* TaskService.start reads the configuration and creates the turn.
LEMMA CreateTurnKeepsInv ==
  ASSUME SupervisorInv, NEW t \in Tasks, CreateTurn(t) PROVE SupervisorInv'
<1>1. RowTypes'
  BY StatusNames DEF SupervisorInv, Types, RowTypes, CreateTurn
<1>2. MemoryTypes'
  BY DEF SupervisorInv, Types, MemoryTypes, CreateTurn, supervisor, process
<1>3. \A u \in Tasks : RowsKept(u)
  BY DEF SupervisorInv, Types, RowTypes, MemoryTypes, CreateTurn, RowsKept
<1> QED
  BY <1>1, <1>2, <1>3, RowStepKeepsInv DEF Types, CreateTurn, Rows

\* The Git baseline is captured.
LEMMA PrepareKeepsInv ==
  ASSUME SupervisorInv, NEW t \in Tasks, Prepare(t) PROVE SupervisorInv'
<1>1. /\ turnStatus' \in [Tasks -> Statuses]
      /\ threadStatus' \in [Threads -> ThreadStatuses]
      /\ \A u \in Tasks : turnStatus'[u] = "none" => turnStatus[u] = "none"
  <2>1. CASE UNCHANGED <<turnStatus, threadStatus>>
    BY <2>1 DEF SupervisorInv, Types, RowTypes
  <2>2. CASE SetStatus(t, "failed", "failed") \/ SetStatus(t, "preparing", "running")
    BY <2>2, StatusTypes, StatusNames DEF SupervisorInv, Types
  <2> QED
    BY <2>1, <2>2 DEF Prepare
<1>2. RowTypes'
  BY <1>1 DEF SupervisorInv, Types, RowTypes, Prepare
<1>3. MemoryTypes'
  BY DEF SupervisorInv, Types, MemoryTypes, Prepare, supervisor, process
<1>4. \A u \in Tasks : RowsKept(u)
  <2>1. turnStatus'[t] # "none"
    BY <1>1 DEF SupervisorInv, TurnsOK, TurnOK, RequestOK, Prepare
  <2> QED
    BY <1>1, <2>1 DEF SupervisorInv, Types, MemoryTypes, Prepare, RowsKept
<1> QED
  BY <1>1, <1>2, <1>3, <1>4, RowStepKeepsInv DEF Types, Prepare, Rows

\* compact() and the continuation of a chat.
LEMMA ChatStepKeepsInv ==
  ASSUME SupervisorInv, NEW h \in Threads,
         CompactBegins(h) \/ CompactWrites(h) \/ Continue(h)
  PROVE  SupervisorInv'
<1>1. RowTypes'
  BY StatusNames
     DEF SupervisorInv, Types, RowTypes, CompactBegins, CompactWrites, Continue, database
<1>2. MemoryTypes'
  BY DEF SupervisorInv, Types, MemoryTypes, CompactBegins, CompactWrites, Continue,
     supervisor, process
<1> QED
  BY <1>1, <1>2, RowStepKeepsInv
     DEF Types, Rows, RowsKept, CompactBegins, CompactWrites, Continue, database

\* threads.delete takes the rows of the chat away.
LEMMA DeleteThreadKeepsInv ==
  ASSUME SupervisorInv, NEW h \in Threads, DeleteThread(h) PROVE SupervisorInv'
<1>1. RowTypes'
  BY StatusNames DEF SupervisorInv, Types, RowTypes, DeleteThread
<1>2. MemoryTypes'
  BY DEF SupervisorInv, Types, MemoryTypes, DeleteThread, supervisor, process
<1>3. \A u \in Tasks : turnStatus'[u] = "none" => turnStatus[u] = "none"
  BY DEF DeleteThread
<1> QED
  BY <1>1, <1>2, <1>3, RowStepKeepsInv DEF Types, DeleteThread, Rows, RowsKept

\* recoverInterruptedRuns, and an end in the middle of it.
LEMMA RecoveryKeepsInv ==
  ASSUME SupervisorInv, Recover \/ RecoveryEndsEarly PROVE SupervisorInv'
<1>1. /\ turnStatus' = [t \in Tasks |-> IF turnStatus[t] \in NonTerminal
                                        THEN "interrupted" ELSE turnStatus[t]]
      /\ up' \in BOOLEAN
      /\ UNCHANGED <<scheduler, request, compacting, supervisor, process>>
  BY DEF Recover, RecoveryEndsEarly, SupervisorInv, Types, MemoryTypes
<1>2. /\ approval' \in [Tasks -> {"none", "pending", "allowed", "denied"}]
      /\ threadStatus' \in [Threads -> ThreadStatuses]
  <2>1. CASE Recover
    BY <2>1, StatusNames DEF Recover, SupervisorInv, Types, RowTypes
  <2>2. CASE RecoveryEndsEarly
    BY <2>2 DEF RecoveryEndsEarly, SupervisorInv, Types, RowTypes
  <2> QED
    BY <2>1, <2>2
<1>3. RowTypes'
  BY <1>1, <1>2, StatusNames DEF SupervisorInv, Types, RowTypes
<1>4. MemoryTypes'
  BY <1>1 DEF SupervisorInv, Types, MemoryTypes, supervisor, process
<1> QED
  BY <1>1, <1>3, <1>4, RowStepKeepsInv DEF Types, Rows, RowsKept

\* The end of the application: no turn is known to anybody.
LEMMA VolatileLostKeepsInv ==
  ASSUME SupervisorInv, RowTypes', VolatileLost PROVE SupervisorInv'
<1>1. SchedulerOK'
  <2>1. /\ queue' = {} /\ ahead' = {} /\ active' = {} /\ starting' = {}
    BY DEF VolatileLost, Scheduler!Reconstruct
  <2>2. Cardinality({}) = 0 /\ 0 <= Capacity
    BY FS_EmptySet, CapacityAssumption
  <2> QED
    BY <2>1, <2>2 DEF SchedulerOK, Lawful, Orders, LeaseFree
<1>2. \A S : <<>> \in Seq(S)
  OBVIOUS
<1>3. MemoryTypes'
  BY <1>2 DEF MemoryTypes, VolatileLost, Alive
<1>4. TurnsOK'
  <2> SUFFICES ASSUME NEW t \in Tasks PROVE TurnOK(t)'
    BY DEF TurnsOK
  <2>1. /\ launch'[t] = "none" /\ child'[t] = "none" /\ closing' = {}
        /\ post'[t] = <<>> /\ mail'[t] = <<>> /\ request'[t] = "none"
        /\ queue' = {} /\ active' = {} /\ starting' = {}
    BY DEF VolatileLost, Scheduler!Reconstruct
  <2>2. Len(<<>>) = 0 /\ MaxPost \in Nat
    BY WindowsAssumption
  <2>3. LaunchOK(t)' /\ RequestOK(t)'
    BY <2>1 DEF LaunchOK, RequestOK
  <2>4. ProcessOK(t)'
    BY <2>1, <2>2 DEF ProcessOK, Alive, Working
  <2> QED
    BY <2>1, <2>3, <2>4 DEF TurnOK
<1>5. MapsOK'
  BY ThreadsAssumption DEF VolatileLost, MapsOK
<1> QED
  BY <1>1, <1>3, <1>4, <1>5 DEF SupervisorInv, Types

\* The end of the application leaves no map, slot or process behind.
LEMMA EndsKeepInv ==
  ASSUME SupervisorInv,
         ApplicationEnds \/ \E t \in Tasks : EndsBetweenWrites(t)
  PROVE  SupervisorInv'
<1>1. RowTypes'
  <2>1. CASE ApplicationEnds
    BY <2>1 DEF SupervisorInv, Types, RowTypes, ApplicationEnds, database
  <2>2. ASSUME NEW t \in Tasks, EndsBetweenWrites(t) PROVE RowTypes'
    BY <2>2, StatusNames
       DEF SupervisorInv, Types, RowTypes, EndsBetweenWrites, RejectPendingApprovals
  <2> QED
    BY <2>1, <2>2
<1> QED
  BY <1>1, VolatileLostKeepsInv DEF ApplicationEnds, EndsBetweenWrites

-----------------------------------------------------------------------------
(* The submission of a turn, up to its admission.                           *)

LEMMA SubmitKeepsInv ==
  ASSUME SupervisorInv, NEW t \in Tasks, Submit(t) PROVE SupervisorInv'
<1>1. RowTypes' /\ MemoryTypes'
  BY DEF SupervisorInv, Types, RowTypes, MemoryTypes, Submit, database, supervisor, process
<1>2. SchedulerOK' /\ \A u \in Tasks : AtMostAdmitted(u)
  BY RestSummary DEF SupervisorInv, Submit
<1>3. \A u \in Tasks \ {t} : Kept(u)
  BY <1>2 DEF SupervisorInv, Types, MemoryTypes, Submit, Kept, RowsKept, database, supervisor, process
<1>4. TurnOK(t)'
  BY DEF SupervisorInv, TurnsOK, TurnOK, LaunchOK, ProcessOK, RequestOK, Submit, database,
     scheduler, supervisor, process
<1>5. MapsOK'
  BY DEF SupervisorInv, MapsOK, MayPend, MayRun, Submit, scheduler, supervisor, process
<1> QED
  BY <1>1, <1>2, <1>3, <1>4, <1>5, TurnStepKeepsInv DEF Types, MapsOK, Submit, supervisor

\* A row of the turn is written, and it has had one before.
LEMMA FailedRows ==
  ASSUME RowTypes, NEW t \in Tasks, NEW status \in {"failed", "cancelled"},
         \/ UNCHANGED <<turnStatus, threadStatus>>
         \/ SetStatus(t, "failed", "failed")
         \/ FinishPending(t, status)
  PROVE  /\ turnStatus' \in [Tasks -> Statuses]
         /\ threadStatus' \in [Threads -> ThreadStatuses]
         /\ \A u \in Tasks : turnStatus'[u] = "none" => turnStatus[u] = "none"
<1>1. ThreadAfter(status) \in ThreadStatuses /\ status \in Statuses /\ status # "none"
  BY DEF ThreadAfter, ThreadStatuses, Statuses, Terminal
<1>2. CASE UNCHANGED <<turnStatus, threadStatus>>
  BY <1>2 DEF RowTypes
<1>3. CASE SetStatus(t, "failed", "failed")
  BY <1>3, StatusTypes, StatusNames
<1>4. CASE FinishPending(t, status)
  <2>1. CASE turnStatus[t] \in NonTerminal
    <3>1. SetStatus(t, status, ThreadAfter(status))
      BY <1>4, <2>1 DEF FinishPending
    <3> QED
      BY <1>1, <3>1, StatusTypes
  <2>2. CASE turnStatus[t] \notin NonTerminal
    BY <1>4, <2>2 DEF FinishPending, RowTypes
  <2> QED
    BY <2>1, <2>2
<1> QED
  BY <1>2, <1>3, <1>4

\* RuntimeSupervisor.start enqueues the turn, or finds the queue full.
LEMMA EnqueueTurnKeepsInv ==
  ASSUME SupervisorInv, NEW t \in Tasks, EnqueueTurn(t) PROVE SupervisorInv'
<1>1. /\ turnStatus' \in [Tasks -> Statuses]
      /\ threadStatus' \in [Threads -> ThreadStatuses]
      /\ \A u \in Tasks : turnStatus'[u] = "none" => turnStatus[u] = "none"
  BY FailedRows DEF SupervisorInv, Types, EnqueueTurn
<1>2. RowTypes'
  BY <1>1 DEF SupervisorInv, Types, RowTypes, EnqueueTurn
<1>3. MemoryTypes'
  <2>1. /\ UNCHANGED <<up, compacting, runtime, launch, closing, stopTimer, child, stopped,
                      post, mail>>
        /\ request' = [request EXCEPT ![t] = "none"]
        /\ pending' = pending \/ pending' = [pending EXCEPT ![ThreadOf[t]] = t]
    BY DEF EnqueueTurn, process
  <2>2. MemoryTypes /\ ThreadOf[t] \in Threads
    BY ThreadsAssumption DEF SupervisorInv, Types
  <2>3. /\ request' \in [Tasks -> {"none", "configuration", "baseline", "lease"}]
        /\ pending' \in [Threads -> Tasks \cup {None}]
    BY <2>1, <2>2 DEF MemoryTypes
  <2> QED
    BY <2>1, <2>2, <2>3 DEF MemoryTypes
<1>4. /\ request[t] = "lease" /\ request' = [request EXCEPT ![t] = "none"]
      /\ UNCHANGED <<runtime, launch, closing, child, post, mail>>
  BY DEF EnqueueTurn, process
<1>5. /\ turnStatus[t] # "none" /\ launch[t] = "none"
      /\ t \notin queue \cup active \cup starting \cup closing
  BY <1>4 DEF SupervisorInv, TurnsOK, TurnOK, RequestOK
<1>6. \A u \in Tasks : RowsKept(u) /\ turnStatus'[t] # "none"
  BY <1>1, <1>4, <1>5 DEF RowsKept, SupervisorInv, Types, MemoryTypes
<1>7. request'[t] = "none"
  BY <1>4 DEF SupervisorInv, Types, MemoryTypes
<1>8. CASE Scheduler!Enqueue(t) /\ pending' = [pending EXCEPT ![ThreadOf[t]] = t]
  <2>1. /\ SchedulerOK' /\ OthersAtMostAdmitted(t)
        /\ t \in queue' \/ t \in active'
        /\ (t \in active') = (t \in starting')
    BY <1>8, EnqueueSummary DEF SupervisorInv
  <2>2. \A u \in Tasks \ {t} : Kept(u)
    BY <1>4, <1>6, <2>1 DEF Kept, OthersAtMostAdmitted
  <2>3. TurnOK(t)'
    BY <1>4, <1>5, <1>6, <1>7, <2>1
       DEF SupervisorInv, TurnsOK, TurnOK, LaunchOK, ProcessOK, RequestOK, Alive, Working
  <2>4. MayPend(t, ThreadOf[t])'
    BY <1>4, <1>5, <2>1 DEF MayPend
  <2>5. ASSUME NEW h \in Threads
        PROVE  /\ pending'[h] \in {pending[h], t}
               /\ pending'[h] = t => MayPend(t, h)'
               /\ runtime'[h] # t
    <3>1. pending[h] # t /\ runtime[h] # t
      BY <1>5 DEF SupervisorInv, MapsOK, MayPend, MayRun
    <3> QED
      BY <1>4, <1>8, <2>4, <3>1, ThreadsAssumption DEF SupervisorInv, Types, MemoryTypes
  <2> QED
    BY <1>2, <1>3, <2>1, <2>2, <2>3, <2>5, <1>4, TurnStepKeepsInv DEF Types
<1>9. CASE UNCHANGED <<scheduler, pending>>
  <2>1. SchedulerOK' /\ \A u \in Tasks : AtMostAdmitted(u)
    BY <1>9, RestSummary DEF SupervisorInv
  <2>2. \A u \in Tasks : Kept(u)
    BY <1>4, <1>6, <2>1 DEF Kept
  <2> QED
    BY <1>2, <1>3, <1>4, <1>9, <2>1, <2>2, QuietStepKeepsInv DEF Types
<1> QED
  BY <1>8, <1>9 DEF EnqueueTurn

-----------------------------------------------------------------------------
(* The launch of an admitted turn.                                          *)

LEMMA LaunchRejectedKeepsInv ==
  ASSUME SupervisorInv, NEW t \in Tasks, launch[t] \in {"none", "skills"}, LaunchRejected(t)
  PROVE  SupervisorInv'
<1>1. /\ launch' = [launch EXCEPT ![t] = "settled"]
      /\ pending' = IF IsPending(t) THEN [pending EXCEPT ![ThreadOf[t]] = None] ELSE pending
      /\ UNCHANGED <<approval, up, request, compacting, runtime, closing, stopTimer, process>>
  BY DEF LaunchRejected
<1>2. /\ turnStatus' \in [Tasks -> Statuses]
      /\ threadStatus' \in [Threads -> ThreadStatuses]
      /\ \A u \in Tasks : turnStatus'[u] = "none" => turnStatus[u] = "none"
  BY FailedRows DEF SupervisorInv, Types, LaunchRejected
<1>3. RowTypes' /\ MemoryTypes'
  BY <1>1, <1>2, ThreadsAssumption DEF SupervisorInv, Types, RowTypes, MemoryTypes, process
<1>4. /\ SchedulerOK' /\ OthersAtMostAdmitted(t)
      /\ t \in starting /\ t \notin starting' \cup active' \cup queue'
  BY FailSummary DEF LaunchRejected, SupervisorInv
<1>5. \A u \in Tasks \ {t} : Kept(u)
  BY <1>1, <1>2, <1>4 DEF Kept, RowsKept, OthersAtMostAdmitted, SupervisorInv, Types,
     MemoryTypes, process
<1>6. TurnOK(t)
  BY DEF SupervisorInv, TurnsOK
<1>7. turnStatus'[t] # "none" /\ request'[t] = "none" /\ child[t] = "none"
  BY <1>1, <1>2, <1>4, <1>6 DEF TurnOK, LaunchOK, RequestOK
<1>8. launch'[t] = "settled" /\ UNCHANGED <<child, post, mail, closing, runtime>>
  BY <1>1 DEF SupervisorInv, Types, MemoryTypes, process
<1>9. TurnOK(t)'
  BY <1>4, <1>6, <1>7, <1>8 DEF TurnOK, LaunchOK, ProcessOK, RequestOK, Alive, Working
<1>10. ASSUME NEW h \in Threads
       PROVE  pending'[h] \in {pending[h], None} /\ pending'[h] # t /\ runtime[h] # t
  <2>1. runtime[h] # t
    BY DEF SupervisorInv, MapsOK, MayRun
  <2>2. pending[h] = t => ThreadOf[t] = h
    BY DEF SupervisorInv, MapsOK, MayPend
  <2> QED
    BY <1>1, <2>1, <2>2, ThreadsAssumption
       DEF SupervisorInv, Types, MemoryTypes, IsPending
<1> QED
  BY <1>3, <1>4, <1>5, <1>8, <1>9, <1>10, TurnStepKeepsInv DEF Types

\* launch() finds its turn current, or cancelled.
LEMMA LaunchBeginsKeepsInv ==
  ASSUME SupervisorInv, NEW t \in Tasks, LaunchBegins(t) PROVE SupervisorInv'
<1>1. launch[t] = "none" /\ t \in starting
  BY DEF LaunchBegins, LaunchDue
<1>2. CASE /\ launch' = [launch EXCEPT ![t] = "skills"]
           /\ UNCHANGED <<database, scheduler, up, request, compacting, pending,
                          runtime, closing, stopTimer, process>>
  <2>1. RowTypes' /\ MemoryTypes'
    BY <1>2 DEF SupervisorInv, Types, RowTypes, MemoryTypes, database, process
  <2>2. SchedulerOK' /\ \A u \in Tasks : AtMostAdmitted(u)
    BY <1>2, RestSummary DEF SupervisorInv
  <2>3. \A u \in Tasks \ {t} : Kept(u)
    BY <1>2, <2>2 DEF Kept, RowsKept, SupervisorInv, Types, MemoryTypes, database, process
  <2>4. TurnOK(t)
    BY DEF SupervisorInv, TurnsOK
  <2>5. launch'[t] = "skills"
    BY <1>2 DEF SupervisorInv, Types, MemoryTypes
  <2>6. t \notin queue
    BY <1>1 DEF SupervisorInv, SchedulerOK
  <2>7. /\ TurnOK(t)'
        /\ \A h : MayPend(t, h) => MayPend(t, h)'
    BY <1>1, <1>2, <2>4, <2>5, <2>6 DEF TurnOK, LaunchOK, ProcessOK, RequestOK, MayPend,
       database, scheduler, process
  <2>8. \A h \in Threads : runtime[h] # t
    BY <1>1 DEF SupervisorInv, MapsOK, MayRun
  <2> QED
    BY <1>2, <2>1, <2>2, <2>3, <2>7, <2>8, TurnStepKeepsInv DEF Types, SupervisorInv, MapsOK
<1>3. CASE LaunchRejected(t)
  BY <1>1, <1>3, LaunchRejectedKeepsInv
<1> QED
  BY <1>2, <1>3 DEF LaunchBegins

\* launch() rejects before the fork.
LEMMA SkillIndexFailsKeepsInv ==
  ASSUME SupervisorInv, NEW t \in Tasks, SkillIndexFails(t) PROVE SupervisorInv'
BY LaunchRejectedKeepsInv DEF SkillIndexFails

\* launch() forks the process and displaces another runtime of the chat.
LEMMA LaunchForksKeepsInv ==
  ASSUME SupervisorInv, NEW t \in Tasks, LaunchForks(t) PROVE SupervisorInv'
<1>1. /\ launch[t] = "skills"
      /\ pending' = [pending EXCEPT ![ThreadOf[t]] = None]
      /\ runtime' = [runtime EXCEPT ![ThreadOf[t]] = t]
      /\ child' = [child EXCEPT ![t] = "booting"]
      /\ launch' = [launch EXCEPT ![t] = "ready"]
      /\ UNCHANGED <<database, scheduler, up, request, compacting,
                     closing, stopTimer, stopped, post, mail>>
  BY DEF LaunchForks
<1>2. RowTypes'
  BY <1>1 DEF SupervisorInv, Types, RowTypes, database
<1>3. MemoryTypes'
  BY <1>1, ThreadsAssumption DEF SupervisorInv, Types, MemoryTypes, Alive
<1>4. SchedulerOK' /\ \A u \in Tasks : AtMostAdmitted(u)
  BY <1>1, RestSummary DEF SupervisorInv
<1>5. \A u \in Tasks \ {t} : Kept(u)
  BY <1>1, <1>4 DEF Kept, RowsKept, SupervisorInv, Types, MemoryTypes, database
<1>6. TurnOK(t)
  BY DEF SupervisorInv, TurnsOK
<1>7. /\ t \in active \cap starting /\ child[t] = "none" /\ post[t] = <<>>
      /\ mail[t] = <<>> /\ t \notin closing
  BY <1>1, <1>6 DEF TurnOK, LaunchOK, ProcessOK, Alive, Working
<1>8. launch'[t] = "ready" /\ child'[t] = "booting" /\ runtime'[ThreadOf[t]] = t
  BY <1>1, ThreadsAssumption DEF SupervisorInv, Types, MemoryTypes
<1>9. Len(<<>>) = 0 /\ MaxPost \in Nat /\ NoStart(<<>>)
  BY WindowsAssumption DEF NoStart
<1>10. LaunchOK(t)'
  BY <1>1, <1>6, <1>7, <1>8, <1>9 DEF TurnOK, LaunchOK, scheduler
<1>11. ProcessOK(t)' /\ RequestOK(t)'
  BY <1>1, <1>6, <1>7, <1>8, <1>9
     DEF TurnOK, LaunchOK, ProcessOK, RequestOK, scheduler, database
<1>12. TurnOK(t)'
  BY <1>8, <1>10, <1>11 DEF TurnOK
<1>13. MayRun(t, ThreadOf[t])'
  BY <1>1, <1>7, <1>8 DEF MayRun, scheduler
<1>14. ASSUME NEW h \in Threads
       PROVE  /\ pending'[h] \in {pending[h], None} /\ pending'[h] # t
              /\ runtime'[h] \in {runtime[h], t}
              /\ runtime'[h] = t => MayRun(t, h)'
  <2>1. pending[h] = t => ThreadOf[t] = h
    BY DEF SupervisorInv, MapsOK, MayPend
  <2>2. runtime[h] # t
    BY <1>1 DEF SupervisorInv, MapsOK, MayRun
  <2> QED
    BY <1>1, <1>13, <2>1, <2>2, ThreadsAssumption DEF SupervisorInv, Types, MemoryTypes
<1> QED
  BY <1>2, <1>3, <1>4, <1>5, <1>12, <1>14, TurnStepKeepsInv DEF Types

\* What the sequences of messages are after one more, or one less.
LEMMA AppendEffect ==
  ASSUME NEW S, NEW s \in Seq(S), NEW e \in S
  PROVE  /\ Append(s, e) \in Seq(S) /\ Len(Append(s, e)) = Len(s) + 1
         /\ e # "start" /\ NoStart(s) => NoStart(Append(s, e))
<1>1. /\ Append(s, e) \in Seq(S) /\ Len(Append(s, e)) = Len(s) + 1 /\ Len(s) \in Nat
      /\ \A i \in 1 .. Len(s) + 1 : Append(s, e)[i] = IF i = Len(s) + 1 THEN e ELSE s[i]
  OBVIOUS
<1>2. ASSUME e # "start", NoStart(s) PROVE NoStart(Append(s, e))
  <2> SUFFICES ASSUME NEW i \in 1 .. Len(s) + 1 PROVE Append(s, e)[i] # "start"
    BY <1>1 DEF NoStart
  <2> QED
    BY <1>1, <1>2 DEF NoStart
<1> QED
  BY <1>1, <1>2

\* What receiving a message leaves of the messages.
LEMMA TailEffect ==
  ASSUME NEW S, NEW s \in Seq(S), s # <<>>
  PROVE  /\ Tail(s) \in Seq(S) /\ Len(Tail(s)) = Len(s) - 1
         /\ Len(s) \in Nat \ {0} /\ Head(s) \in S /\ Head(s) = s[1]
         /\ NoStart(s) => NoStart(Tail(s)) /\ Head(s) # "start"
<1>1. /\ Tail(s) \in Seq(S) /\ Len(Tail(s)) = Len(s) - 1
      /\ Len(s) \in Nat \ {0} /\ Head(s) \in S /\ Head(s) = s[1]
      /\ \A i \in 1 .. Len(s) - 1 : Tail(s)[i] = s[i + 1]
  OBVIOUS
<1>2. ASSUME NoStart(s) PROVE NoStart(Tail(s)) /\ Head(s) # "start"
  <2>1. Head(s) # "start"
    BY <1>1, <1>2 DEF NoStart
  <2> SUFFICES ASSUME NEW i \in 1 .. Len(s) - 1 PROVE Tail(s)[i] # "start"
    BY <1>1, <2>1 DEF NoStart
  <2>2. i + 1 \in 1 .. Len(s)
    BY <1>1
  <2> QED
    BY <1>1, <1>2, <2>2 DEF NoStart
<1> QED
  BY <1>1, <1>2

\* A message reaches the process's queue if there is a process.
LEMMA PostEffect ==
  ASSUME MemoryTypes, NEW t \in Tasks, NEW message \in Requests, Post(t, message)
  PROVE  /\ post' \in [Tasks -> Seq(Requests)]
         /\ \A u \in Tasks \ {t} : post'[u] = post[u]
         /\ child[t] \notin Alive => post'[t] = post[t]
         /\ child[t] \in Alive => Len(post'[t]) = Len(post[t]) + 1
         /\ message # "start" /\ NoStart(post[t]) => NoStart(post'[t])
         /\ Len(post[t]) \in Nat
<1>1. post \in [Tasks -> Seq(Requests)] /\ post[t] \in Seq(Requests) /\ Len(post[t]) \in Nat
  BY DEF MemoryTypes
<1>2. CASE child[t] \in Alive
  <2>1. post' = [post EXCEPT ![t] = Append(post[t], message)]
    BY <1>2 DEF Post
  <2>2. post'[t] = Append(post[t], message)
    BY <1>1, <2>1
  <2>3. Append(post[t], message) \in Seq(Requests)
    BY <1>1, AppendEffect
  <2>4. post' \in [Tasks -> Seq(Requests)] /\ \A u \in Tasks \ {t} : post'[u] = post[u]
    BY <1>1, <2>1, <2>3
  <2> QED
    BY <1>1, <1>2, <2>2, <2>4, AppendEffect
<1>3. CASE child[t] \notin Alive
  BY <1>1, <1>3 DEF Post
<1> QED
  BY <1>2, <1>3

\* The process is ready: the start request is posted.
LEMMA LaunchResolvesKeepsInv ==
  ASSUME SupervisorInv, NEW t \in Tasks, LaunchResolves(t) PROVE SupervisorInv'
<1>1. /\ launch[t] = "ready" /\ Scheduler!StartSettles(t) /\ Post(t, "start")
      /\ launch' = [launch EXCEPT ![t] = "settled"]
      /\ UNCHANGED <<database, up, request, compacting, pending, runtime,
                     closing, stopTimer, child, stopped, mail>>
  BY DEF LaunchResolves
<1>2. RowTypes'
  BY <1>1 DEF SupervisorInv, Types, RowTypes, database
<1>3. /\ post' \in [Tasks -> Seq(Requests)]
      /\ \A u \in Tasks \ {t} : post'[u] = post[u]
      /\ child[t] \notin Alive => post'[t] = post[t]
      /\ child[t] \in Alive => Len(post'[t]) = Len(post[t]) + 1
      /\ Len(post[t]) \in Nat
  BY <1>1, PostEffect DEF SupervisorInv, Types, Requests
<1>4. MemoryTypes'
  BY <1>1, <1>3 DEF SupervisorInv, Types, MemoryTypes
<1>5. /\ SchedulerOK' /\ OthersAtMostAdmitted(t)
      /\ t \in starting /\ t \notin starting'
      /\ UNCHANGED <<queue, active>>
  BY <1>1, SettleSummary DEF SupervisorInv
<1>6. \A u \in Tasks \ {t} : Kept(u)
  BY <1>1, <1>3, <1>5 DEF Kept, RowsKept, OthersAtMostAdmitted, SupervisorInv, Types,
     MemoryTypes, database
<1>7. TurnOK(t)
  BY DEF SupervisorInv, TurnsOK
<1>8. launch'[t] = "settled" /\ UNCHANGED <<child, mail, turnStatus, request, closing>>
  BY <1>1 DEF SupervisorInv, Types, MemoryTypes, database
<1>9. /\ t \notin queue /\ Len(post[t]) <= MaxPost /\ child[t] \in {"booting", "exited", "gone"}
      /\ child[t] = "booting" => t \in active
      /\ turnStatus[t] # "none" /\ request[t] = "none"
  BY <1>1, <1>7 DEF TurnOK, LaunchOK, RequestOK
<1>10. Len(post'[t]) <= MaxPost + 1
  BY <1>3, <1>9, WindowsAssumption
<1>11. TurnOK(t)'
  BY <1>3, <1>5, <1>7, <1>8, <1>9, <1>10
     DEF TurnOK, LaunchOK, ProcessOK, RequestOK, Alive, Working
<1>12. ASSUME NEW h \in Threads
       PROVE  pending[h] # t /\ (runtime[h] = t => MayRun(t, h)')
  <2>1. pending[h] # t
    BY <1>1 DEF SupervisorInv, MapsOK, MayPend
  <2>2. runtime[h] = t => MayRun(t, h)
    BY DEF SupervisorInv, MapsOK
  <2> QED
    BY <1>5, <1>8, <2>1, <2>2 DEF MayRun
<1> QED
  BY <1>1, <1>2, <1>4, <1>5, <1>6, <1>11, <1>12, TurnStepKeepsInv DEF Types

\* The rows, the map and the flags after a runtime is finished.
LEMMA FinishEffect ==
  ASSUME Types, NEW t \in Tasks, NEW status \in Terminal, Finish(t, status)
  PROVE  /\ RowTypes'
         /\ turnStatus'[t] = status /\ \A u \in Tasks \ {t} : turnStatus'[u] = turnStatus[u]
         /\ runtime' \in [Threads -> Tasks \cup {None}]
         /\ runtime'[ThreadOf[t]] = None
         /\ \A h \in Threads \ {ThreadOf[t]} : runtime'[h] = runtime[h]
         /\ closing' = closing \cup {t} /\ stopTimer' = stopTimer \ {t}
<1>1. status \in Statuses /\ ThreadAfter(status) \in ThreadStatuses
  BY StatusNames DEF ThreadAfter
<1>2. /\ turnStatus' \in [Tasks -> Statuses]
      /\ threadStatus' \in [Threads -> ThreadStatuses]
      /\ turnStatus'[t] = status /\ \A u \in Tasks \ {t} : turnStatus'[u] = turnStatus[u]
  BY <1>1, StatusTypes DEF Finish, Types
<1>3. approval' \in [Tasks -> {"none", "pending", "allowed", "denied"}]
  BY DEF Finish, RejectPendingApprovals, Types, RowTypes
<1> QED
  BY <1>2, <1>3, ThreadsAssumption DEF Finish, RowTypes, Types, MemoryTypes

\* The process is not ready within 10 s, or has exited.
LEMMA LaunchTimesOutKeepsInv ==
  ASSUME SupervisorInv, NEW t \in Tasks, LaunchTimesOut(t) PROVE SupervisorInv'
<1>1. /\ launch[t] = "ready" /\ Scheduler!StartFails(t)
      /\ launch' = [launch EXCEPT ![t] = "settled"]
      /\ UNCHANGED <<up, request, compacting, pending, process>>
  BY DEF LaunchTimesOut
<1>2. /\ SchedulerOK' /\ OthersAtMostAdmitted(t)
      /\ t \in starting /\ t \notin starting' \cup active' \cup queue'
  BY <1>1, FailSummary DEF SupervisorInv
<1>3. /\ RowTypes'
      /\ \A u \in Tasks : turnStatus'[u] = "none" => turnStatus[u] = "none"
      /\ runtime' \in [Threads -> Tasks \cup {None}]
      /\ \A h \in Threads : runtime'[h] \in {runtime[h], None} /\ runtime'[h] # t
      /\ closing' \subseteq closing \cup {t} /\ stopTimer' \subseteq stopTimer
  <2>0. /\ runtime \in [Threads -> Tasks \cup {None}] /\ t # None
        /\ \A h \in Threads : runtime[h] = t => h = ThreadOf[t] /\ t \in active
    BY ThreadsAssumption DEF SupervisorInv, Types, MemoryTypes, MapsOK, MayRun
  <2>1. CASE t \in active /\ IsCurrent(t) /\ Finish(t, "interrupted")
    <3>1. "interrupted" \in Terminal
      BY DEF Terminal
    <3>2. "interrupted" # "none"
      OBVIOUS
    <3> QED
      BY <2>0, <2>1, <3>1, <3>2, FinishEffect, ThreadsAssumption DEF SupervisorInv
  <2>2. CASE /\ t \in active /\ ~IsCurrent(t) /\ FinishPending(t, "failed")
             /\ UNCHANGED <<approval, runtime, closing, stopTimer>>
    BY <2>0, <2>2, FailedRows DEF SupervisorInv, Types, RowTypes, IsCurrent
  <2>3. CASE t \notin active /\ UNCHANGED <<database, runtime, closing, stopTimer>>
    BY <2>0, <2>3 DEF SupervisorInv, Types, RowTypes, database
  <2> QED
    BY <2>1, <2>2, <2>3 DEF LaunchTimesOut
<1>4. MemoryTypes'
  BY <1>1, <1>3 DEF SupervisorInv, Types, MemoryTypes, process
<1>5. \A u \in Tasks \ {t} : Kept(u)
  BY <1>1, <1>2, <1>3 DEF Kept, RowsKept, OthersAtMostAdmitted, SupervisorInv, Types,
     MemoryTypes, process
<1>6. TurnOK(t)
  BY DEF SupervisorInv, TurnsOK
<1>7. launch'[t] = "settled" /\ UNCHANGED <<child, post, mail, request>>
  BY <1>1 DEF SupervisorInv, Types, MemoryTypes, process
<1>8. /\ child[t] \in {"booting", "exited", "gone"} /\ NoStart(post[t])
      /\ turnStatus'[t] # "none" /\ request[t] = "none"
  BY <1>1, <1>2, <1>3, <1>6 DEF TurnOK, LaunchOK, RequestOK
<1>9. TurnOK(t)'
  BY <1>2, <1>6, <1>7, <1>8 DEF TurnOK, LaunchOK, ProcessOK, RequestOK, Alive, Working
<1>10. \A h \in Threads : pending[h] # t
  BY <1>1 DEF SupervisorInv, MapsOK, MayPend
<1> QED
  BY <1>1, <1>2, <1>3, <1>4, <1>5, <1>9, <1>10, TurnStepKeepsInv DEF Types

-----------------------------------------------------------------------------
(* The steps of a process.                                                  *)

\* A step of the process of t, which changes what is in t's two message queues.
LEMMA ChildStepKeepsInv ==
  ASSUME SupervisorInv, NEW t \in Tasks, NEW from, NEW to \in Alive \cup {"exited"},
         ChildStep(t, from, to), "none" \notin from, "gone" \notin from,
         post' \in [Tasks -> Seq(Requests)], mail' \in [Tasks -> Seq(Reports)],
         \A u \in Tasks \ {t} : post'[u] = post[u] /\ mail'[u] = mail[u],
         stopped' \subseteq Tasks,
         LaunchOK(t)', ProcessOK(t)'
  PROVE  SupervisorInv'
<1>1. /\ child[t] \in from
      /\ child' = [child EXCEPT ![t] = to]
      /\ UNCHANGED <<database, scheduler, up, request, compacting, supervisor>>
  BY DEF ChildStep
<1>2. RowTypes' /\ MemoryTypes'
  BY <1>1 DEF SupervisorInv, Types, RowTypes, MemoryTypes, database, supervisor
<1>3. SchedulerOK' /\ \A u \in Tasks : AtMostAdmitted(u)
  BY <1>1, RestSummary DEF SupervisorInv
<1>4. \A u \in Tasks \ {t} : Kept(u)
  BY <1>1, <1>3 DEF Kept, RowsKept, SupervisorInv, Types, MemoryTypes, database, supervisor
<1>5. TurnOK(t)'
  BY <1>1 DEF SupervisorInv, TurnsOK, TurnOK, RequestOK, database, scheduler, supervisor
<1>6. child'[t] = to /\ to \notin {"none", "gone"}
  BY <1>1 DEF SupervisorInv, Types, MemoryTypes, Alive, Working
<1>7. \A h : /\ MayPend(t, h) => MayPend(t, h)'
             /\ MayRun(t, h) => MayRun(t, h)'
  BY <1>1, <1>6 DEF MayPend, MayRun, scheduler, supervisor
<1> QED
  BY <1>1, <1>2, <1>3, <1>4, <1>5, <1>7, TurnStepKeepsInv
     DEF Types, SupervisorInv, MapsOK, supervisor

\* The process takes a message from its port.
LEMMA ChildReceivesKeepsInv ==
  ASSUME SupervisorInv, NEW t \in Tasks, ChildReceives(t) PROVE SupervisorInv'
<1>1. /\ post[t] # <<>>
      /\ post' = [post EXCEPT ![t] = Tail(post[t])] /\ UNCHANGED mail
  BY DEF ChildReceives
<1>2. post \in [Tasks -> Seq(Requests)] /\ post[t] \in Seq(Requests)
  BY DEF SupervisorInv, Types, MemoryTypes
<1>3. /\ Tail(post[t]) \in Seq(Requests) /\ Len(Tail(post[t])) = Len(post[t]) - 1
      /\ Len(post[t]) \in Nat \ {0}
      /\ NoStart(post[t]) => NoStart(Tail(post[t])) /\ Head(post[t]) # "start"
  BY <1>1, <1>2, TailEffect
<1>4. /\ post' \in [Tasks -> Seq(Requests)]
      /\ mail' \in [Tasks -> Seq(Reports)]
      /\ \A u \in Tasks \ {t} : post'[u] = post[u] /\ mail'[u] = mail[u]
      /\ post'[t] = Tail(post[t]) /\ mail'[t] = mail[t]
  BY <1>1, <1>2, <1>3 DEF SupervisorInv, Types, MemoryTypes
<1>5. TurnOK(t) /\ child \in [Tasks -> {"none", "exited", "gone"} \cup Alive]
  BY DEF SupervisorInv, TurnsOK, Types, MemoryTypes
<1>6. /\ Len(Tail(post[t])) <= MaxPost + 1
      /\ Len(post[t]) <= MaxPost => Len(Tail(post[t])) <= MaxPost
  BY <1>3, <1>5, WindowsAssumption DEF TurnOK, ProcessOK
<1>7. CASE /\ Head(post[t]) = "start"
           /\ ChildStep(t, {"booting"}, "session") /\ UNCHANGED stopped
  <2>1. /\ child[t] = "booting" /\ child'[t] = "session"
        /\ UNCHANGED <<scheduler, launch>>
    BY <1>5, <1>7 DEF ChildStep, supervisor
  <2>2. launch[t] = "settled" /\ t \in active
    BY <1>3, <1>5, <1>7, <2>1 DEF TurnOK, LaunchOK, ProcessOK, SupervisorInv, Types, MemoryTypes
  <2>3. LaunchOK(t)' /\ ProcessOK(t)'
    BY <1>4, <1>5, <1>6, <2>1, <2>2
       DEF TurnOK, LaunchOK, ProcessOK, scheduler, Alive, Working
  <2>4. "session" \in Alive /\ stopped' \subseteq Tasks
    BY <1>7 DEF Alive, SupervisorInv, Types, MemoryTypes
  <2> QED
    BY <1>4, <1>7, <2>3, <2>4, ChildStepKeepsInv
<1>8. ASSUME NEW from \in SUBSET Alive, NEW to \in Alive, ChildStep(t, from, to),
             to = IF child[t] = "asking" THEN "resumed" ELSE child[t],
             stopped' \subseteq Tasks, Head(post[t]) # "start"
      PROVE  SupervisorInv'
  <2>1. /\ child[t] \in Alive /\ child'[t] = to
        /\ UNCHANGED <<scheduler, launch>>
    BY <1>5, <1>8 DEF ChildStep, supervisor
  <2>2. LaunchOK(t)'
    BY <1>3, <1>4, <1>5, <1>6, <1>8, <2>1 DEF TurnOK, LaunchOK, scheduler, Alive, Working
  <2>3. ProcessOK(t)'
    BY <1>3, <1>4, <1>5, <1>6, <1>8, <2>1 DEF TurnOK, ProcessOK, scheduler, Alive, Working
  <2>4. "none" \notin Alive /\ "gone" \notin Alive
    BY DEF Alive, Working
  <2> QED
    BY <1>4, <1>8, <2>2, <2>3, <2>4, ChildStepKeepsInv
<1>9. stopped \subseteq Tasks /\ (stopped \cup {t}) \subseteq Tasks
  BY DEF SupervisorInv, Types, MemoryTypes
<1>10. {"booting"} \subseteq Alive /\ "booting" \in Alive /\ "resumed" \in Alive
  BY DEF Alive, Working
<1>11. CASE /\ Head(post[t]) = "stop" /\ child[t] = "booting"
            /\ ChildStep(t, {"booting"}, "booting") /\ UNCHANGED stopped
  BY <1>8, <1>9, <1>10, <1>11
<1>12. CASE /\ Head(post[t]) \in {"stop", "decision"}
            /\ ChildStep(t, Alive, IF child[t] = "asking" THEN "resumed" ELSE child[t])
            /\ stopped' \in {stopped, stopped \cup {t}}
  <2>1. (IF child[t] = "asking" THEN "resumed" ELSE child[t]) \in Alive
    BY <1>10, <1>12 DEF ChildStep
  <2> QED
    BY <1>8, <1>9, <1>12, <2>1
<1> QED
  BY <1>7, <1>11, <1>12 DEF ChildReceives

\* A process with its start request goes on, and reports.
LEMMA ChildReportsKeepsInv ==
  ASSUME SupervisorInv, NEW t \in Tasks, NEW messages \in Seq(Reports),
         NEW from \in SUBSET (Alive \ {"booting"}), NEW to \in {"working", "asking", "done"},
         ChildStep(t, from, to), Mail(t, messages), UNCHANGED <<stopped, post>>,
         to = "working" => Len(mail[t]) + Len(messages) <= 1,
         to = "asking" => Len(mail[t]) + Len(messages) <= 3,
         Len(mail[t]) + Len(messages) <= 4
  PROVE  SupervisorInv'
<1>1. mail \in [Tasks -> Seq(Reports)] /\ mail[t] \in Seq(Reports)
  BY DEF SupervisorInv, Types, MemoryTypes
<1>2. /\ mail[t] \o messages \in Seq(Reports)
      /\ Len(mail[t] \o messages) = Len(mail[t]) + Len(messages)
  BY <1>1
<1>3. /\ mail' = [mail EXCEPT ![t] = mail[t] \o messages]
      /\ mail' \in [Tasks -> Seq(Reports)] /\ mail'[t] = mail[t] \o messages
      /\ \A u \in Tasks \ {t} : mail'[u] = mail[u]
  BY <1>1, <1>2 DEF Mail
<1>4. TurnOK(t) /\ child \in [Tasks -> {"none", "exited", "gone"} \cup Alive]
  BY DEF SupervisorInv, TurnsOK, Types, MemoryTypes
<1>5. /\ child[t] \in Alive \ {"booting"} /\ child'[t] = to
      /\ UNCHANGED <<scheduler, launch>>
  BY <1>4 DEF ChildStep, supervisor
<1>6. t \in active /\ launch[t] = "settled"
  <2>1. t \in active
    BY <1>4, <1>5 DEF TurnOK, ProcessOK
  <2>2. launch[t] \notin {"none", "skills", "ready"}
    BY <1>4, <1>5 DEF TurnOK, LaunchOK, Alive, Working
  <2> QED
    BY <2>1, <2>2 DEF SupervisorInv, Types, MemoryTypes
<1>7. LaunchOK(t)'
  BY <1>4, <1>5, <1>6 DEF TurnOK, LaunchOK, scheduler
<1>8. ProcessOK(t)'
  BY <1>2, <1>3, <1>4, <1>5, <1>6 DEF TurnOK, ProcessOK, scheduler, Alive, Working
<1>9. /\ to \in Alive \cup {"exited"} /\ "none" \notin from /\ "gone" \notin from
      /\ post' \in [Tasks -> Seq(Requests)] /\ stopped' \subseteq Tasks
  BY DEF Alive, Working, SupervisorInv, Types, MemoryTypes
<1> QED
  BY <1>3, <1>7, <1>8, <1>9, ChildStepKeepsInv

\* The session prompts its agent.
LEMMA ChildRunsKeepsInv ==
  ASSUME SupervisorInv, NEW t \in Tasks, ChildRuns(t) PROVE SupervisorInv'
<1> DEFINE messages == <<"running">>
<1>1. ChildStep(t, {"session"}, "working") /\ Mail(t, messages) /\ UNCHANGED <<stopped, post>>
  BY DEF ChildRuns
<1>2. child[t] = "session"
  BY <1>1 DEF ChildStep
<1>3. mail[t] = <<>>
  BY <1>2 DEF SupervisorInv, TurnsOK, TurnOK, ProcessOK
<1>4. /\ messages \in Seq(Reports) /\ Len(messages) = 1 /\ Len(mail[t]) = 0
      /\ {"session"} \in SUBSET (Alive \ {"booting"})
  BY <1>3 DEF Reports, Alive
<1> HIDE DEF messages
<1>5. Len(mail[t]) + Len(messages) <= 1 /\ Len(mail[t]) + Len(messages) <= 4
  BY <1>4
<1> QED
  BY <1>1, <1>4, <1>5, ChildReportsKeepsInv

\* The agent asks for an approval.
LEMMA ChildAsksKeepsInv ==
  ASSUME SupervisorInv, NEW t \in Tasks, ChildAsks(t) PROVE SupervisorInv'
<1> DEFINE messages == <<"request", "awaiting_approval">>
<1>1. ChildStep(t, {"working"}, "asking") /\ Mail(t, messages) /\ UNCHANGED <<stopped, post>>
  BY DEF ChildAsks
<1>2. child[t] = "working"
  BY <1>1 DEF ChildStep
<1>3. Len(mail[t]) <= 1 /\ Len(mail[t]) \in Nat
  BY <1>2 DEF SupervisorInv, TurnsOK, TurnOK, ProcessOK, Types, MemoryTypes
<1>4. /\ messages \in Seq(Reports) /\ Len(messages) = 2
      /\ {"working"} \in SUBSET (Alive \ {"booting"})
  BY DEF Reports, Alive, Working
<1> HIDE DEF messages
<1>5. Len(mail[t]) + Len(messages) <= 3 /\ Len(mail[t]) + Len(messages) <= 4
  BY <1>3, <1>4
<1> QED
  BY <1>1, <1>4, <1>5, ChildReportsKeepsInv

\* The agent comes to an end.
LEMMA ChildEndsKeepsInv ==
  ASSUME SupervisorInv, NEW t \in Tasks, ChildEnds(t) PROVE SupervisorInv'
<1>1. PICK status \in Terminal : Mail(t, <<status>>)
  BY DEF ChildEnds, Terminal
<1> DEFINE messages == <<status>>
<1>2. /\ ChildStep(t, {"working", "resumed"}, "done") /\ Mail(t, messages)
      /\ UNCHANGED <<stopped, post>>
  BY <1>1 DEF ChildEnds
<1>3. child[t] \in {"working", "resumed"}
  BY <1>2 DEF ChildStep
<1>4. Len(mail[t]) <= 3 /\ Len(mail[t]) \in Nat
  BY <1>3 DEF SupervisorInv, TurnsOK, TurnOK, ProcessOK, Types, MemoryTypes
<1>5. /\ messages \in Seq(Reports) /\ Len(messages) = 1
      /\ {"working", "resumed"} \in SUBSET (Alive \ {"booting"})
  BY DEF Reports, Alive, Working
<1> HIDE DEF messages
<1>6. Len(mail[t]) + Len(messages) <= 4
  BY <1>4, <1>5
<1> QED
  BY <1>2, <1>5, <1>6, ChildReportsKeepsInv

\* run() rejects before the agent is prompted.
LEMMA ChildRunRejectsKeepsInv ==
  ASSUME SupervisorInv, NEW t \in Tasks, ChildRunRejects(t) PROVE SupervisorInv'
<1>1. ChildStep(t, {"session"}, "stuck") /\ UNCHANGED <<stopped, post, mail>>
  BY DEF ChildRunRejects
<1>2. TurnOK(t) /\ child \in [Tasks -> {"none", "exited", "gone"} \cup Alive]
  BY DEF SupervisorInv, TurnsOK, Types, MemoryTypes
<1>3. child[t] = "session" /\ child'[t] = "stuck" /\ UNCHANGED <<scheduler, launch>>
  BY <1>1, <1>2 DEF ChildStep, supervisor
<1>4. LaunchOK(t)' /\ ProcessOK(t)'
  BY <1>1, <1>2, <1>3 DEF TurnOK, LaunchOK, ProcessOK, scheduler, Alive, Working
<1>5. "stuck" \in Alive /\ "none" \notin {"session"} /\ "gone" \notin {"session"}
  BY DEF Alive
<1> QED
  BY <1>1, <1>4, <1>5, ChildStepKeepsInv DEF SupervisorInv, Types, MemoryTypes

\* The process exits by itself or is killed.
LEMMA ChildDiesKeepsInv ==
  ASSUME SupervisorInv, NEW t \in Tasks, ChildDies(t) PROVE SupervisorInv'
<1>1. /\ ChildStep(t, Alive, "exited") /\ UNCHANGED mail
      /\ post' = [post EXCEPT ![t] = <<>>] /\ stopped' = stopped \ {t}
  BY DEF ChildDies
<1>2. /\ TurnOK(t) /\ child \in [Tasks -> {"none", "exited", "gone"} \cup Alive]
      /\ post \in [Tasks -> Seq(Requests)] /\ mail \in [Tasks -> Seq(Reports)]
      /\ stopped \subseteq Tasks
  BY DEF SupervisorInv, TurnsOK, Types, MemoryTypes
<1>3. child[t] \in Alive /\ child'[t] = "exited" /\ UNCHANGED <<scheduler, launch>>
  BY <1>1, <1>2 DEF ChildStep, supervisor
<1>4. /\ post'[t] = <<>> /\ post' \in [Tasks -> Seq(Requests)]
      /\ \A u \in Tasks \ {t} : post'[u] = post[u]
      /\ Len(<<>>) = 0 /\ NoStart(<<>>) /\ MaxPost \in Nat
  BY <1>1, <1>2, WindowsAssumption DEF NoStart
<1>5. LaunchOK(t)' /\ ProcessOK(t)'
  BY <1>1, <1>2, <1>3, <1>4 DEF TurnOK, LaunchOK, ProcessOK, scheduler, Alive, Working
<1>6. "none" \notin Alive /\ "gone" \notin Alive
  BY DEF Alive, Working
<1> QED
  BY <1>1, <1>2, <1>4, <1>5, <1>6, ChildStepKeepsInv

-----------------------------------------------------------------------------
(* The event handlers and timers.                                           *)

\* The current runtime of a turn may be finished, or its rows may be written.
MayFinish(t) ==
  /\ RowTypes'
  /\ \A u \in Tasks : turnStatus'[u] = "none" => turnStatus[u] = "none"
  /\ runtime' \in [Threads -> Tasks \cup {None}]
  /\ \A h \in Threads : runtime'[h] \in {runtime[h], None}
  /\ closing' \subseteq closing \cup {t} /\ stopTimer' \subseteq stopTimer
  /\ t \in closing' => t \in closing \/ IsCurrent(t)
  /\ t \in closing' => \A h \in Threads : runtime'[h] # t

\* finish() closes the turn that is current in its chat.
LEMMA FinishMayFinish ==
  ASSUME SupervisorInv, NEW t \in Tasks, IsCurrent(t), NEW status \in Terminal, Finish(t, status)
  PROVE  MayFinish(t)
<1>1. /\ runtime \in [Threads -> Tasks \cup {None}] /\ t # None
      /\ \A h \in Threads : runtime[h] = t => h = ThreadOf[t]
      /\ ThreadOf[t] \in Threads
  BY ThreadsAssumption DEF SupervisorInv, Types, MemoryTypes, MapsOK, MayRun
<1>2. status # "none"
  BY DEF Terminal
<1>3. Types
  BY DEF SupervisorInv
<1> QED
  BY <1>1, <1>2, <1>3, FinishEffect DEF MayFinish

\* A message that finishes nothing leaves the turn as it is.
LEMMA NothingMayFinish ==
  ASSUME SupervisorInv, NEW t \in Tasks, UNCHANGED <<runtime, closing, stopTimer>>,
         RowTypes', \A u \in Tasks : turnStatus'[u] = "none" => turnStatus[u] = "none"
  PROVE  MayFinish(t)
<1>1. t \in closing => \A h \in Threads : runtime[h] # t
  BY DEF SupervisorInv, MapsOK, MayRun
<1> QED
  BY <1>1 DEF MayFinish, SupervisorInv, Types, MemoryTypes

\* A message of the process arrives.
LEMMA HandleMessageKeepsInv ==
  ASSUME SupervisorInv, NEW t \in Tasks, HandleMessage(t) PROVE SupervisorInv'
<1>1. /\ mail[t] # <<>> /\ mail' = [mail EXCEPT ![t] = Tail(mail[t])]
      /\ UNCHANGED <<scheduler, up, request, compacting, pending, launch, child, stopped, post>>
  BY DEF HandleMessage
<1>2. /\ mail \in [Tasks -> Seq(Reports)] /\ mail[t] \in Seq(Reports) /\ TurnOK(t)
  BY DEF SupervisorInv, TurnsOK, Types, MemoryTypes
<1>3. /\ Tail(mail[t]) \in Seq(Reports) /\ Len(Tail(mail[t])) = Len(mail[t]) - 1
      /\ Len(mail[t]) \in Nat \ {0} /\ Head(mail[t]) \in Reports
  BY <1>1, <1>2, TailEffect
<1>4. /\ mail' \in [Tasks -> Seq(Reports)] /\ mail'[t] = Tail(mail[t])
      /\ \A u \in Tasks \ {t} : mail'[u] = mail[u]
  BY <1>1, <1>2, <1>3
<1>5. MayFinish(t)
  <2>0. RowTypes
    BY DEF SupervisorInv, Types
  <2>1. CASE /\ UNCHANGED <<turnStatus, threadStatus, runtime, closing, stopTimer>>
             /\ approval' \in {approval, [approval EXCEPT ![t] = "pending"]}
    <3>1. RowTypes'
      BY <2>0, <2>1 DEF RowTypes
    <3> QED
      BY <2>1, <3>1, NothingMayFinish
  <2>2. CASE /\ Head(mail[t]) \in {"running", "awaiting_approval"}
             /\ SetStatus(t, Head(mail[t]), Head(mail[t]))
             /\ UNCHANGED <<approval, runtime, closing, stopTimer>>
    <3>1. Head(mail[t]) \in Statuses /\ Head(mail[t]) \in ThreadStatuses
      BY <2>2, StatusNames
    <3>2. /\ turnStatus' \in [Tasks -> Statuses]
          /\ threadStatus' \in [Threads -> ThreadStatuses]
          /\ turnStatus'[t] = Head(mail[t])
          /\ \A u \in Tasks \ {t} : turnStatus'[u] = turnStatus[u]
      BY <2>0, <2>2, <3>1, StatusTypes
    <3>3. RowTypes'
      BY <2>0, <2>2, <3>2 DEF RowTypes
    <3>4. \A u \in Tasks : turnStatus'[u] = "none" => turnStatus[u] = "none"
      BY <2>2, <3>2
    <3> QED
      BY <2>2, <3>3, <3>4, NothingMayFinish
  <2>3. CASE \E status \in Terminal : IsCurrent(t) /\ Finish(t, status)
    BY <2>3, FinishMayFinish
  <2>4. "interrupted" \in Terminal
    BY DEF Terminal
  <2> QED
    BY <2>1, <2>2, <2>3, <2>4 DEF HandleMessage, database
<1>6. MemoryTypes'
  BY <1>1, <1>4, <1>5 DEF SupervisorInv, Types, MemoryTypes, MayFinish
<1>7. SchedulerOK' /\ \A u \in Tasks : AtMostAdmitted(u)
  BY <1>1, RestSummary DEF SupervisorInv
<1>8. \A u \in Tasks \ {t} : Kept(u)
  BY <1>1, <1>4, <1>5, <1>7 DEF Kept, RowsKept, MayFinish
<1>9. IsCurrent(t) => MayRun(t, ThreadOf[t])
  BY ThreadsAssumption DEF SupervisorInv, MapsOK, IsCurrent
<1>10. t \in closing' => launch[t] \in {"ready", "settled"}
  BY <1>2, <1>5, <1>9 DEF TurnOK, MayFinish, MayRun
<1>11. LaunchOK(t)' /\ RequestOK(t)'
  BY <1>1, <1>2, <1>5 DEF TurnOK, LaunchOK, RequestOK, MayFinish, scheduler
<1>12. ProcessOK(t)'
  BY <1>1, <1>2, <1>3, <1>4 DEF TurnOK, ProcessOK, scheduler
<1>13. TurnOK(t)'
  BY <1>1, <1>10, <1>11, <1>12 DEF TurnOK
<1>14. ASSUME NEW h \in Threads
       PROVE  /\ pending'[h] = t => MayPend(t, h)'
              /\ runtime'[h] \in {runtime[h], None}
              /\ runtime'[h] = t => MayRun(t, h)'
  BY <1>1, <1>5, ThreadsAssumption
     DEF MayFinish, SupervisorInv, MapsOK, MayPend, MayRun, scheduler
<1> QED
  BY <1>1, <1>5, <1>6, <1>7, <1>8, <1>13, <1>14, TurnStepKeepsInv DEF Types, MayFinish

\* The 5 s of a stop are over.
LEMMA StopTimerFiresKeepsInv ==
  ASSUME SupervisorInv, NEW t \in Tasks, StopTimerFires(t) PROVE SupervisorInv'
<1>1. UNCHANGED <<scheduler, up, request, compacting, pending, launch, process>>
  BY DEF StopTimerFires
<1>2. MayFinish(t)
  <2>1. CASE IsCurrent(t) /\ Finish(t, "cancelled")
    BY <2>1, FinishMayFinish DEF Terminal
  <2>2. CASE /\ stopTimer' = stopTimer \ {t}
             /\ UNCHANGED <<database, runtime, closing>>
    BY <2>2, ThreadsAssumption
       DEF MayFinish, SupervisorInv, Types, RowTypes, MemoryTypes, MapsOK, MayRun, database
  <2> QED
    BY <2>1, <2>2 DEF StopTimerFires
<1>3. MemoryTypes'
  BY <1>1, <1>2 DEF SupervisorInv, Types, MemoryTypes, MayFinish, process
<1>4. SchedulerOK' /\ \A u \in Tasks : AtMostAdmitted(u)
  BY <1>1, RestSummary DEF SupervisorInv
<1>5. \A u \in Tasks \ {t} : Kept(u)
  BY <1>1, <1>2, <1>4 DEF Kept, RowsKept, MayFinish, process
<1>6. IsCurrent(t) => MayRun(t, ThreadOf[t])
  BY ThreadsAssumption DEF SupervisorInv, MapsOK, IsCurrent
<1>7. TurnOK(t)
  BY DEF SupervisorInv, TurnsOK
<1>8. TurnOK(t)'
  BY <1>1, <1>2, <1>6, <1>7
     DEF TurnOK, LaunchOK, ProcessOK, RequestOK, MayFinish, MayRun, scheduler, process
<1>9. ASSUME NEW h \in Threads
      PROVE  /\ pending'[h] = t => MayPend(t, h)'
             /\ runtime'[h] \in {runtime[h], None}
             /\ runtime'[h] = t => MayRun(t, h)'
  BY <1>1, <1>2, ThreadsAssumption
     DEF MayFinish, SupervisorInv, MapsOK, MayPend, MayRun, scheduler, process
<1> QED
  BY <1>1, <1>2, <1>3, <1>4, <1>5, <1>8, <1>9, TurnStepKeepsInv DEF Types, MayFinish

\* The exit of the process is handled: its slot is released.
LEMMA HandleExitKeepsInv ==
  ASSUME SupervisorInv, NEW t \in Tasks, HandleExit(t) PROVE SupervisorInv'
<1>1. /\ child[t] = "exited" /\ child' = [child EXCEPT ![t] = "gone"]
      /\ mail' = [mail EXCEPT ![t] = <<>>]
      /\ UNCHANGED <<up, request, compacting, pending, launch, stopped, post>>
  BY DEF HandleExit
<1>2. TurnOK(t) /\ launch[t] \in {"ready", "settled"}
  BY <1>1 DEF SupervisorInv, TurnsOK, TurnOK, LaunchOK, Types, MemoryTypes
<1>3. /\ SchedulerOK' /\ OthersAtMostAdmitted(t)
      /\ (t \in starting') = (t \in starting) /\ t \notin queue'
  <2>1. CASE Scheduler!Release(t)
    BY <2>1, ReleaseSummary DEF SupervisorInv
  <2>2. CASE UNCHANGED scheduler
    <3>1. SchedulerOK' /\ OthersAtMostAdmitted(t)
      BY <2>2, RestSummary DEF SupervisorInv, OthersAtMostAdmitted
    <3> QED
      BY <1>2, <2>2, <3>1 DEF TurnOK, LaunchOK, scheduler
  <2> QED
    BY <2>1, <2>2 DEF HandleExit
<1>4. MayFinish(t) /\ \A h \in Threads : runtime'[h] # t
  <2>1. CASE t \notin closing /\ IsCurrent(t) /\ Finish(t, "interrupted")
    <3>1. MayFinish(t)
      BY <2>1, FinishMayFinish DEF Terminal
    <3>2. t \in closing'
      BY <2>1 DEF Finish
    <3> QED
      BY <3>1, <3>2 DEF MayFinish
  <2>2. CASE /\ t \in closing \/ ~IsCurrent(t)
             /\ UNCHANGED <<database, runtime, closing, stopTimer>>
    <3>1. RowTypes' /\ UNCHANGED turnStatus
      BY <2>2 DEF SupervisorInv, Types, RowTypes, database
    <3>2. MayFinish(t)
      BY <2>2, <3>1, NothingMayFinish
    <3>3. \A h \in Threads : runtime[h] # t
      BY <2>2 DEF SupervisorInv, MapsOK, MayRun, IsCurrent
    <3> QED
      BY <2>2, <3>2, <3>3
  <2> QED
    BY <2>1, <2>2 DEF HandleExit
<1>5. /\ mail' \in [Tasks -> Seq(Reports)] /\ mail'[t] = <<>>
      /\ \A u \in Tasks \ {t} : mail'[u] = mail[u]
      /\ child' \in [Tasks -> {"none", "exited", "gone"} \cup Alive] /\ child'[t] = "gone"
      /\ \A u \in Tasks \ {t} : child'[u] = child[u]
  BY <1>1 DEF SupervisorInv, Types, MemoryTypes
<1>6. MemoryTypes'
  BY <1>1, <1>4, <1>5 DEF SupervisorInv, Types, MemoryTypes, MayFinish
<1>7. \A u \in Tasks \ {t} : Kept(u)
  BY <1>1, <1>3, <1>4, <1>5 DEF Kept, RowsKept, MayFinish, OthersAtMostAdmitted
<1>8. LaunchOK(t)' /\ RequestOK(t)'
  BY <1>1, <1>2, <1>3, <1>4, <1>5 DEF TurnOK, LaunchOK, RequestOK, MayFinish
<1>9. ProcessOK(t)'
  <2>1. Len(<<>>) = 0 /\ "gone" \notin Alive /\ "exited" \notin Alive
    BY DEF Alive, Working
  <2> QED
    BY <1>1, <1>2, <1>5, <2>1 DEF TurnOK, ProcessOK
<1>10. TurnOK(t)'
  BY <1>1, <1>2, <1>8, <1>9 DEF TurnOK
<1>11. \A h \in Threads : pending[h] # t
  BY <1>2 DEF SupervisorInv, MapsOK, MayPend
<1> QED
  BY <1>1, <1>3, <1>4, <1>6, <1>7, <1>10, <1>11, TurnStepKeepsInv DEF Types, MayFinish

-----------------------------------------------------------------------------
(* The user's requests.                                                     *)

LEMMA StopPendingKeepsInv ==
  ASSUME SupervisorInv, NEW h \in Threads, StopPending(h) PROVE SupervisorInv'
<1>1. PICK t \in Tasks : t = pending[h]
  BY DEF StopPending, SupervisorInv, Types, MemoryTypes
<1>2. /\ pending' = [pending EXCEPT ![h] = None]
      /\ FinishPending(t, "cancelled")
      /\ UNCHANGED <<approval, up, request, compacting, runtime, launch, closing,
                     stopTimer, process>>
      /\ Scheduler!Cancel(t) \/ UNCHANGED scheduler
  BY <1>1 DEF StopPending
<1>3. /\ turnStatus' \in [Tasks -> Statuses]
      /\ threadStatus' \in [Threads -> ThreadStatuses]
      /\ \A u \in Tasks : turnStatus'[u] = "none" => turnStatus[u] = "none"
  BY <1>2, FailedRows DEF SupervisorInv, Types
<1>4. RowTypes' /\ MemoryTypes'
  BY <1>2, <1>3 DEF SupervisorInv, Types, RowTypes, MemoryTypes, process
<1>5. TurnOK(t) /\ MayPend(t, h)
  BY <1>1 DEF SupervisorInv, TurnsOK, MapsOK
<1>6. /\ SchedulerOK' /\ OthersAtMostAdmitted(t)
      /\ \/ t \notin queue' \cup active' \cup starting'
         \/ UNCHANGED <<queue, active, starting>>
  <2>1. CASE Scheduler!Cancel(t)
    BY <2>1, CancelSummary DEF SupervisorInv
  <2>2. CASE UNCHANGED scheduler
    BY <2>2, RestSummary DEF SupervisorInv, OthersAtMostAdmitted, scheduler
  <2> QED
    BY <1>2, <2>1, <2>2
<1>7. \A u \in Tasks \ {t} : Kept(u)
  BY <1>2, <1>3, <1>6 DEF Kept, RowsKept, OthersAtMostAdmitted, process
<1>8. turnStatus'[t] # "none" /\ request[t] = "none" /\ launch[t] \in {"none", "skills"}
      /\ child[t] = "none"
  BY <1>3, <1>5 DEF TurnOK, LaunchOK, RequestOK, MayPend
<1>9. launch[t] = "skills" => UNCHANGED <<queue, active, starting>>
  <2>1. launch[t] = "skills" => t \notin queue
    BY <1>5 DEF TurnOK, LaunchOK
  <2> QED
    BY <1>2, <2>1 DEF Scheduler!Cancel, scheduler
<1>10. TurnOK(t)'
  BY <1>2, <1>5, <1>6, <1>8, <1>9
     DEF TurnOK, LaunchOK, ProcessOK, RequestOK, process, Alive, Working
<1>11. ASSUME NEW g \in Threads
       PROVE  /\ pending'[g] \in {pending[g], None} /\ pending'[g] # t
              /\ runtime[g] # t
  <2>1. pending[g] = t => ThreadOf[t] = g
    BY DEF SupervisorInv, MapsOK, MayPend
  <2>2. ThreadOf[t] = h
    BY <1>5 DEF MayPend
  <2>3. runtime[g] # t
    BY <1>8 DEF SupervisorInv, MapsOK, MayRun
  <2> QED
    BY <1>2, <2>1, <2>2, <2>3, ThreadsAssumption DEF SupervisorInv, Types, MemoryTypes
<1> QED
  BY <1>2, <1>4, <1>6, <1>7, <1>10, <1>11, TurnStepKeepsInv DEF Types

\* One more message, not a start request, for the process of the current runtime.
LEMMA PostKeepsInv ==
  ASSUME SupervisorInv, NEW h \in Threads, NEW t \in Tasks, t = runtime[h],
         NEW message \in {"stop", "decision"},
         Len(post[t]) < MaxPost, Post(t, message), RowTypes',
         \A u \in Tasks : turnStatus'[u] = "none" => turnStatus[u] = "none",
         stopTimer' \subseteq Tasks,
         UNCHANGED <<scheduler, up, request, compacting, pending, runtime, launch,
                     closing, child, stopped, mail>>
  PROVE  SupervisorInv'
<1>1. /\ post' \in [Tasks -> Seq(Requests)]
      /\ \A u \in Tasks \ {t} : post'[u] = post[u]
      /\ child[t] \notin Alive => post'[t] = post[t]
      /\ child[t] \in Alive => Len(post'[t]) = Len(post[t]) + 1
      /\ NoStart(post[t]) => NoStart(post'[t])
      /\ Len(post[t]) \in Nat
  BY PostEffect DEF SupervisorInv, Types, Requests
<1>2. MemoryTypes'
  BY <1>1 DEF SupervisorInv, Types, MemoryTypes
<1>3. SchedulerOK' /\ \A u \in Tasks : AtMostAdmitted(u)
  BY RestSummary DEF SupervisorInv
<1>4. \A u \in Tasks \ {t} : Kept(u)
  BY <1>1, <1>3 DEF Kept, RowsKept
<1>5. TurnOK(t)
  BY DEF SupervisorInv, TurnsOK
<1>6. Len(post'[t]) <= MaxPost
  BY <1>1, WindowsAssumption
<1>7. LaunchOK(t)' /\ RequestOK(t)'
  BY <1>1, <1>5, <1>6 DEF TurnOK, LaunchOK, RequestOK, scheduler
<1>8. Len(post'[t]) <= MaxPost + 1
  BY <1>1, <1>6, WindowsAssumption
<1>9. ProcessOK(t)'
  BY <1>1, <1>5, <1>8 DEF TurnOK, ProcessOK, scheduler
<1>10. TurnOK(t)'
  BY <1>5, <1>7, <1>9 DEF TurnOK
<1>11. MapsOK'
  BY DEF SupervisorInv, MapsOK, MayPend, MayRun, scheduler
<1> QED
  BY <1>2, <1>3, <1>4, <1>10, <1>11, TurnStepKeepsInv DEF Types, MapsOK

\* The user stops the turn of a chat.
LEMMA StopActiveKeepsInv ==
  ASSUME SupervisorInv, NEW h \in Threads, StopActive(h) PROVE SupervisorInv'
<1>1. PICK t \in Tasks : t = runtime[h]
  BY DEF StopActive, SupervisorInv, Types, MemoryTypes
<1>2. RowTypes' /\ stopTimer' \subseteq Tasks
  BY <1>1 DEF StopActive, RejectPendingApprovals, SupervisorInv, Types, RowTypes, MemoryTypes
<1> QED
  BY <1>1, <1>2, PostKeepsInv DEF StopActive

\* The user decides on an approval.
LEMMA ResolveApprovalKeepsInv ==
  ASSUME SupervisorInv, NEW h \in Threads, ResolveApproval(h) PROVE SupervisorInv'
<1>1. PICK t \in Tasks : t = runtime[h]
  BY DEF ResolveApproval, SupervisorInv, Types, MemoryTypes
<1>2. /\ turnStatus' \in [Tasks -> Statuses]
      /\ threadStatus' \in [Threads -> ThreadStatuses]
      /\ turnStatus'[t] = "running"
      /\ \A u \in Tasks \ {t} : turnStatus'[u] = turnStatus[u]
  BY <1>1, StatusTypes, StatusNames DEF ResolveApproval, SupervisorInv, Types
<1>3. RowTypes'
  BY <1>1, <1>2 DEF ResolveApproval, SupervisorInv, Types, RowTypes
<1>4. /\ stopTimer' \subseteq Tasks
      /\ UNCHANGED <<pending, runtime, launch, closing>>
  BY DEF ResolveApproval, supervisor, SupervisorInv, Types, MemoryTypes
<1> QED
  BY <1>1, <1>2, <1>3, <1>4, PostKeepsInv DEF ResolveApproval

-----------------------------------------------------------------------------
\* The application starts with empty maps and no slot taken.
LEMMA InitInv == Init => SupervisorInv
<1> SUFFICES ASSUME Init PROVE SupervisorInv
  OBVIOUS
<1>1. SchedulerOK
  <2>1. /\ queue = {} /\ ahead = {} /\ active = {} /\ starting = {}
    BY DEF Init, Scheduler!Init
  <2>2. Cardinality({}) = 0 /\ 0 <= Capacity
    BY FS_EmptySet, CapacityAssumption
  <2> QED
    BY <2>1, <2>2 DEF SchedulerOK, Lawful, Orders, LeaseFree
<1>2. \A S : <<>> \in Seq(S)
  OBVIOUS
<1>3. RowTypes
  BY DEF Init, RowTypes, Statuses, ThreadStatuses
<1>4. MemoryTypes
  BY <1>2 DEF Init, MemoryTypes
<1>5. TurnsOK
  <2> SUFFICES ASSUME NEW t \in Tasks PROVE TurnOK(t)
    BY DEF TurnsOK
  <2>1. /\ launch[t] = "none" /\ child[t] = "none" /\ closing = {}
        /\ post[t] = <<>> /\ mail[t] = <<>> /\ request[t] = "none"
        /\ queue = {} /\ active = {} /\ starting = {}
    BY DEF Init, Scheduler!Init
  <2>2. Len(<<>>) = 0 /\ MaxPost \in Nat
    BY WindowsAssumption
  <2>3. LaunchOK(t) /\ RequestOK(t)
    BY <2>1 DEF LaunchOK, RequestOK
  <2>4. ProcessOK(t)
    BY <2>1, <2>2 DEF ProcessOK, Alive, Working
  <2> QED
    BY <2>1, <2>3, <2>4 DEF TurnOK
<1>6. MapsOK
  BY ThreadsAssumption DEF Init, MapsOK
<1> QED
  BY <1>1, <1>3, <1>4, <1>5, <1>6 DEF SupervisorInv, Types

\* No step of a user, a timer, a process or the application breaks it.
LEMMA StepKeepsInv == SupervisorInv /\ [Next]_vars => SupervisorInv'
<1> SUFFICES ASSUME SupervisorInv, [Next]_vars PROVE SupervisorInv'
  OBVIOUS
<1>1. ASSUME NEW t \in Tasks, TurnStep(t) PROVE SupervisorInv'
  BY <1>1, SubmitKeepsInv, CreateTurnKeepsInv, PrepareKeepsInv, EnqueueTurnKeepsInv,
     LaunchBeginsKeepsInv, LaunchForksKeepsInv, SkillIndexFailsKeepsInv,
     LaunchResolvesKeepsInv, LaunchTimesOutKeepsInv, HandleMessageKeepsInv,
     HandleExitKeepsInv, StopTimerFiresKeepsInv DEF TurnStep
<1>2. ASSUME NEW t \in Tasks, ProcessStep(t) PROVE SupervisorInv'
  BY <1>2, ChildReceivesKeepsInv, ChildRunsKeepsInv, ChildRunRejectsKeepsInv,
     ChildAsksKeepsInv, ChildEndsKeepsInv, ChildDiesKeepsInv DEF ProcessStep
<1>3. ASSUME NEW h \in Threads, UserStep(h) PROVE SupervisorInv'
  BY <1>3, StopPendingKeepsInv, StopActiveKeepsInv, ResolveApprovalKeepsInv,
     ChatStepKeepsInv, DeleteThreadKeepsInv DEF UserStep
<1>4. CASE UNCHANGED vars
  <2>1. UNCHANGED <<database, scheduler, up, request, compacting, supervisor, process>>
    BY <1>4 DEF vars
  <2>2. RowTypes' /\ MemoryTypes'
    BY <2>1 DEF SupervisorInv, Types, RowTypes, MemoryTypes, database, supervisor, process
  <2> QED
    BY <2>1, <2>2, RowStepKeepsInv DEF Types, Rows, RowsKept, database
<1> QED
  BY <1>1, <1>2, <1>3, <1>4, EndsKeepInv, RecoveryKeepsInv DEF Next

\* The induction: one step for each action.
LEMMA Invariance == Spec => []SupervisorInv
BY InitInv, StepKeepsInv, PTL DEF Spec

\* Agents at work are never more than the capacity, and two of them never share a
\* workspace that one may write: for any chats, turns, leases and capacity, and
\* whichever of the narrow interleavings happen.
THEOREM WorkspaceIsExclusive == Spec => []ExclusiveWorkspace
<1>1. SupervisorInv => ExclusiveWorkspace
  <2> SUFFICES ASSUME SupervisorInv PROVE ExclusiveWorkspace
    OBVIOUS
  <2> DEFINE workers == {t \in Tasks : child[t] \in Working}
  <2>1. Lawful(queue, ahead, active)
    BY DEF SupervisorInv, SchedulerOK
  <2>2. workers \subseteq active
    BY DEF SupervisorInv, TurnsOK, TurnOK, ProcessOK, Alive, Working
  <2>3. IsFiniteSet(active)
    BY <2>1, TasksAssumption, FS_Subset DEF Lawful
  <2>4. Cardinality(workers) <= Cardinality(active)
    BY <2>2, <2>3, FS_Subset
  <2>5. IsFiniteSet(workers)
    BY <2>2, <2>3, FS_Subset
  <2>6. Cardinality(workers) \in Nat /\ Cardinality(active) \in Nat
    BY <2>3, <2>5, FS_CardinalityType
  <2>7. Cardinality(workers) <= Capacity
    BY <2>1, <2>4, <2>6, CapacityAssumption DEF Lawful
  <2>8. \A t, u \in workers : t # u => ~LeasesConflict(t, u)
    BY <2>1, <2>2 DEF Lawful, LeaseFree
  <2> QED
    BY <2>7, <2>8 DEF ExclusiveWorkspace
<1> QED
  BY <1>1, Invariance, PTL

-----------------------------------------------------------------------------
(* One turn of a chat at a time.                                            *)

\* A turn that waits, or whose launch has not forked yet, is the chat's pending one.
Prelaunch(t) == t \in queue \/ LaunchDue(t) \/ launch[t] = "skills"

\* A chat has one turn that is submitted, pending or running.
OneTurnPerChat ==
  /\ \A t, u \in Tasks :
       ThreadOf[t] = ThreadOf[u] /\ request[t] # "none" /\ request[u] # "none" => t = u
  /\ \A t \in Tasks : request[t] # "none" => ~HasThread(ThreadOf[t])
  /\ \A h \in Threads : pending[h] = None \/ runtime[h] = None
  /\ \A t \in Tasks : Prelaunch(t) => IsPending(t)

\* After the fork a held slot leads to the current runtime, or to a killed process.
SlotsLead ==
  \A t \in active : launch[t] \in {"ready", "settled"} =>
    IsCurrent(t) \/ (t \in closing /\ child[t] # "gone")

\* What most steps do to chats and slots: nothing, or a runtime is finished.
Quiet ==
  /\ UNCHANGED <<queue, active, starting, launch, pending>>
  /\ \A u \in Tasks : request'[u] # "none" => request[u] # "none"
  /\ \A h \in Threads :
       runtime'[h] = runtime[h] \/ (runtime'[h] = None /\ runtime[h] \in closing')
  /\ closing \subseteq closing'
  /\ \A u \in Tasks : child'[u] = "gone" => child[u] = "gone"

\* A quiet step leaves at most one turn of each chat.
LEMMA QuietKeepsChats ==
  ASSUME OneTurnPerChat, Quiet PROVE OneTurnPerChat'
<1>1. \A t \in Tasks : Prelaunch(t)' => Prelaunch(t)
  BY DEF Quiet, Prelaunch, LaunchDue
<1>2. \A t \in Tasks : IsPending(t) => IsPending(t)'
  BY DEF Quiet, IsPending
<1>3. \A h \in Threads : HasThread(h)' => HasThread(h)
  BY DEF Quiet, HasThread
<1>4. \A t \in Tasks : ThreadOf[t] \in Threads
  BY ThreadsAssumption
<1> QED
  BY <1>1, <1>2, <1>3, <1>4 DEF Quiet, OneTurnPerChat

\* A quiet step takes no turn with a slot out of the maps.
LEMMA QuietKeepsSlots ==
  ASSUME SupervisorInv, SlotsLead, Quiet PROVE SlotsLead'
<1> SUFFICES ASSUME NEW t \in active', launch'[t] \in {"ready", "settled"}
             PROVE  IsCurrent(t)' \/ (t \in closing' /\ child'[t] # "gone")
  BY DEF SlotsLead
<1>1. t \in active /\ t \in Tasks /\ launch[t] \in {"ready", "settled"}
  BY DEF Quiet, SupervisorInv, SchedulerOK, Lawful
<1>2. CASE IsCurrent(t)
  <2>1. ThreadOf[t] \in Threads
    BY <1>1, ThreadsAssumption
  <2>2. child[t] # "gone"
    BY <1>1, <1>2, <2>1 DEF SupervisorInv, MapsOK, MayRun, IsCurrent
  <2> QED
    BY <1>1, <1>2, <2>1, <2>2 DEF Quiet, IsCurrent
<1>3. CASE t \in closing /\ child[t] # "gone"
  BY <1>1, <1>3 DEF Quiet
<1> QED
  BY <1>1, <1>2, <1>3 DEF SlotsLead

\* What finish() takes out of the map is closing, and its exit gives the slot back.
LEMMA FinishIsQuiet ==
  ASSUME SupervisorInv, NEW t \in Tasks, NEW status, IsCurrent(t), Finish(t, status)
  PROVE  /\ \A h \in Threads :
              runtime'[h] = runtime[h] \/ (runtime'[h] = None /\ runtime[h] \in closing')
         /\ closing \subseteq closing'
BY ThreadsAssumption DEF SupervisorInv, Types, MemoryTypes, Finish, IsCurrent

\* Steps on rows are quiet.
LEMMA RowStepsQuiet ==
  ASSUME SupervisorInv,
         \/ \E t \in Tasks : CreateTurn(t) \/ Prepare(t)
         \/ \E h \in Threads : \/ CompactBegins(h) \/ CompactWrites(h) \/ DeleteThread(h)
                               \/ Continue(h) \/ StopActive(h) \/ ResolveApproval(h)
         \/ Recover \/ RecoveryEndsEarly \/ UNCHANGED vars
  PROVE  Quiet
<1>1. ASSUME NEW t \in Tasks, CreateTurn(t) \/ Prepare(t) PROVE Quiet
  <2>1. \A u \in Tasks : request'[u] # "none" => request[u] # "none"
    BY <1>1 DEF CreateTurn, Prepare, SupervisorInv, Types, MemoryTypes
  <2> QED
    BY <1>1, <2>1 DEF CreateTurn, Prepare, Quiet, scheduler, supervisor, process
<1>2. ASSUME NEW h \in Threads,
             CompactBegins(h) \/ CompactWrites(h) \/ DeleteThread(h) \/ Continue(h)
      PROVE  Quiet
  BY <1>2 DEF CompactBegins, CompactWrites, DeleteThread, Continue, Quiet, scheduler,
     supervisor, process
<1>3. ASSUME NEW h \in Threads, StopActive(h) \/ ResolveApproval(h) PROVE Quiet
  BY <1>3 DEF StopActive, ResolveApproval, Quiet, scheduler, supervisor
<1>4. CASE Recover \/ RecoveryEndsEarly
  BY <1>4 DEF Recover, RecoveryEndsEarly, Quiet, scheduler, supervisor, process
<1>5. CASE UNCHANGED vars
  BY <1>5 DEF vars, Quiet, scheduler, supervisor, process
<1> QED
  BY <1>1, <1>2, <1>3, <1>4, <1>5

\* Steps of the utility process are quiet.
LEMMA ProcessStepsQuiet ==
  ASSUME SupervisorInv, NEW t \in Tasks, ProcessStep(t) PROVE Quiet
<1>1. PICK from \in SUBSET Alive, to \in Alive \cup {"exited"} : ChildStep(t, from, to)
  <2>1. /\ {"booting", "session", "working", "resumed", "asking"} \subseteq Alive
        /\ "stuck" \in Alive /\ "done" \in Alive
    BY DEF Alive, Working
  <2>2. CASE ChildReceives(t)
    <3>1. \/ ChildStep(t, {"booting"}, "session") \/ ChildStep(t, {"booting"}, "booting")
          \/ ChildStep(t, Alive, IF child[t] = "asking" THEN "resumed" ELSE child[t])
      BY <2>2 DEF ChildReceives
    <3>2. ASSUME ChildStep(t, Alive, IF child[t] = "asking" THEN "resumed" ELSE child[t])
          PROVE  (IF child[t] = "asking" THEN "resumed" ELSE child[t]) \in Alive
      BY <2>1, <3>2 DEF ChildStep
    <3>3. {"booting"} \in SUBSET Alive
      BY <2>1
    <3> QED
      BY <2>1, <3>1, <3>2, <3>3
  <2>3. CASE ChildRuns(t) \/ ChildRunRejects(t)
    <3>1. ChildStep(t, {"session"}, "working") \/ ChildStep(t, {"session"}, "stuck")
      BY <2>3 DEF ChildRuns, ChildRunRejects
    <3>2. {"session"} \in SUBSET Alive
      BY <2>1
    <3> QED
      BY <2>1, <3>1, <3>2
  <2>4. CASE ChildAsks(t) \/ ChildEnds(t)
    <3>1. ChildStep(t, {"working"}, "asking") \/ ChildStep(t, {"working", "resumed"}, "done")
      BY <2>4 DEF ChildAsks, ChildEnds
    <3>2. {"working"} \in SUBSET Alive /\ {"working", "resumed"} \in SUBSET Alive
      BY <2>1
    <3> QED
      BY <2>1, <3>1, <3>2
  <2>5. CASE ChildDies(t)
    BY <2>1, <2>5 DEF ChildDies
  <2> QED
    BY <2>2, <2>3, <2>4, <2>5 DEF ProcessStep
<1>2. to # "gone" /\ child \in [Tasks -> {"none", "exited", "gone"} \cup Alive]
  BY DEF Alive, Working, SupervisorInv, Types, MemoryTypes
<1> QED
  BY <1>1, <1>2 DEF ChildStep, Quiet, scheduler, supervisor

\* Messages and the stop timer are quiet.
LEMMA EventStepsQuiet ==
  ASSUME SupervisorInv, NEW t \in Tasks, HandleMessage(t) \/ StopTimerFires(t) PROVE Quiet
<1>1. UNCHANGED <<queue, active, starting, launch, pending, request, child>>
  BY DEF HandleMessage, StopTimerFires, scheduler, process
<1>2. \/ UNCHANGED <<runtime, closing>>
      \/ \E status : IsCurrent(t) /\ Finish(t, status)
  BY DEF HandleMessage, StopTimerFires
<1> QED
  BY <1>1, <1>2, FinishIsQuiet DEF Quiet

\* A step about t and the scheduler, seen from the other turns.
OthersRest(t) ==
  \A u \in Tasks \ {t} : AtMostAdmitted(u) /\ launch'[u] = launch[u] /\ child'[u] = child[u]

\* Its turn is no longer, or still, before its launch; the chats lose entries.
LEMMA StepKeepsChats ==
  ASSUME OneTurnPerChat, NEW t \in Tasks, OthersRest(t), Prelaunch(t)' => Prelaunch(t),
         \A u \in Tasks : request'[u] # "none" => request[u] # "none",
         \A h \in Threads : /\ pending'[h] \in {pending[h], None}
                            /\ runtime'[h] \in {runtime[h], None}
                            /\ pending'[h] # pending[h] => pending[h] = t /\ ~Prelaunch(t)'
  PROVE  OneTurnPerChat'
<1>1. \A u \in Tasks : Prelaunch(u)' => Prelaunch(u)
  BY DEF OthersRest, AtMostAdmitted, Prelaunch, LaunchDue
<1>2. \A u \in Tasks : ThreadOf[u] \in Threads
  BY ThreadsAssumption
<1>3. \A u \in Tasks : Prelaunch(u)' => IsPending(u)'
  BY <1>1, <1>2 DEF OneTurnPerChat, IsPending
<1>4. \A h \in Threads : HasThread(h)' => HasThread(h)
  BY DEF HasThread
<1> QED
  BY <1>2, <1>3, <1>4 DEF OneTurnPerChat

\* Where one turn moves and the others stay current, the slots stay accounted for.
LEMMA StepKeepsSlots ==
  ASSUME SupervisorInv, SupervisorInv', SlotsLead, NEW t \in Tasks, OthersRest(t),
         \A u \in Tasks \ {t} : IsCurrent(u) => IsCurrent(u)',
         closing \subseteq closing',
         t \in active' /\ launch'[t] \in {"ready", "settled"} =>
           IsCurrent(t)' \/ (t \in closing' /\ child'[t] # "gone")
  PROVE  SlotsLead'
<1> SUFFICES ASSUME NEW u \in active', launch'[u] \in {"ready", "settled"}, u # t
             PROVE  IsCurrent(u)' \/ (u \in closing' /\ child'[u] # "gone")
  BY DEF SlotsLead
<1>1. u \in Tasks
  BY DEF SupervisorInv, SchedulerOK, Lawful
<1>2. launch[u] = launch'[u] /\ child[u] = child'[u] /\ AtMostAdmitted(u)
  BY <1>1 DEF OthersRest
<1>3. u \notin queue
  BY <1>1, <1>2 DEF SupervisorInv, TurnsOK, TurnOK, LaunchOK
<1>4. u \in active
  BY <1>2, <1>3 DEF AtMostAdmitted
<1> QED
  BY <1>1, <1>2, <1>4 DEF SlotsLead

\* Nothing is pending or current, so that the turn can become pending.
LEMMA EnqueueTurnKeepsChats ==
  ASSUME SupervisorInv, SupervisorInv', NEW t \in Tasks, EnqueueTurn(t)
  PROVE  /\ OneTurnPerChat => OneTurnPerChat'
         /\ SlotsLead => SlotsLead'
<1>1. /\ request[t] = "lease" /\ request' = [request EXCEPT ![t] = "none"]
      /\ UNCHANGED <<runtime, launch, closing, child>>
  BY DEF EnqueueTurn, process
<1>2. /\ launch[t] = "none" /\ t \notin queue \cup active \cup starting
      /\ ThreadOf[t] \in Threads
      /\ request \in [Tasks -> {"none", "configuration", "baseline", "lease"}]
      /\ pending \in [Threads -> Tasks \cup {None}]
  BY <1>1, ThreadsAssumption
     DEF SupervisorInv, TurnsOK, TurnOK, RequestOK, Types, MemoryTypes
<1>3. CASE Scheduler!Enqueue(t) /\ pending' = [pending EXCEPT ![ThreadOf[t]] = t]
  <2>1. OthersRest(t)
    BY <1>1, <1>3, EnqueueSummary DEF SupervisorInv, OthersRest, OthersAtMostAdmitted
  <2>2. ASSUME SlotsLead PROVE SlotsLead'
    BY <1>1, <1>2, <2>1, <2>2, StepKeepsSlots DEF IsCurrent
  <2>3. ASSUME OneTurnPerChat PROVE OneTurnPerChat'
    <3>1. \A u \in Tasks : ThreadOf[u] \in Threads
      BY ThreadsAssumption
    <3>2. ~HasThread(ThreadOf[t])
      BY <1>1, <2>3 DEF OneTurnPerChat
    <3>3. \A u \in Tasks \ {t} : Prelaunch(u)' => Prelaunch(u)
      BY <2>1 DEF OthersRest, AtMostAdmitted, Prelaunch, LaunchDue
    <3>4. \A u \in Tasks : Prelaunch(u)' => IsPending(u)'
      <4> SUFFICES ASSUME NEW u \in Tasks, Prelaunch(u)' PROVE IsPending(u)'
        OBVIOUS
      <4>1. CASE u = t
        BY <1>2, <1>3, <4>1 DEF IsPending
      <4>2. CASE u # t
        <5>1. IsPending(u)
          BY <2>3, <3>3, <4>2 DEF OneTurnPerChat
        <5>2. ThreadOf[u] # ThreadOf[t]
          BY <3>2, <5>1, ThreadsAssumption DEF IsPending, HasThread
        <5> QED
          BY <1>2, <1>3, <3>1, <5>1, <5>2 DEF IsPending
      <4> QED
        BY <4>1, <4>2
    <3>5. \A u \in Tasks : request'[u] # "none" => u # t /\ request[u] # "none"
      BY <1>1, <1>2
    <3>6. \A u \in Tasks : request'[u] # "none" => ~HasThread(ThreadOf[u])'
      <4> SUFFICES ASSUME NEW u \in Tasks, request'[u] # "none"
                   PROVE  ~HasThread(ThreadOf[u])'
        OBVIOUS
      <4>1. ThreadOf[u] # ThreadOf[t] /\ ~HasThread(ThreadOf[u])
        BY <1>1, <2>3, <3>5 DEF OneTurnPerChat
      <4> QED
        BY <1>1, <1>2, <1>3, <3>1, <4>1 DEF HasThread
    <3>7. \A h \in Threads : pending'[h] = None \/ runtime'[h] = None
      BY <1>1, <1>2, <1>3, <2>3, <3>2 DEF OneTurnPerChat, HasThread
    <3> QED
      BY <2>3, <3>4, <3>5, <3>6, <3>7 DEF OneTurnPerChat
  <2> QED
    BY <2>2, <2>3
<1>4. CASE UNCHANGED <<scheduler, pending>>
  <2>1. Quiet
    BY <1>1, <1>2, <1>4 DEF Quiet, scheduler
  <2> QED
    BY <2>1, QuietKeepsChats, QuietKeepsSlots
<1> QED
  BY <1>3, <1>4 DEF EnqueueTurn

\* A submission.
LEMMA SubmitKeepsChats ==
  ASSUME SupervisorInv, NEW t \in Tasks, Submit(t)
  PROVE  /\ OneTurnPerChat => OneTurnPerChat'
         /\ SlotsLead => SlotsLead'
<1>1. /\ ~Submitting(ThreadOf[t]) /\ ~HasThread(ThreadOf[t])
      /\ request' = [request EXCEPT ![t] = "configuration"]
      /\ UNCHANGED <<scheduler, supervisor, process>>
  BY DEF Submit
<1>2. \A u \in Tasks : request'[u] # "none" => u = t \/ request[u] # "none"
  BY <1>1 DEF SupervisorInv, Types, MemoryTypes
<1>3. \A u \in Tasks : /\ Prelaunch(u)' => Prelaunch(u)
                       /\ IsPending(u) => IsPending(u)'
                       /\ HasThread(ThreadOf[u])' => HasThread(ThreadOf[u])
  BY <1>1 DEF Prelaunch, LaunchDue, IsPending, HasThread, scheduler, supervisor
<1>4. OneTurnPerChat => OneTurnPerChat'
  BY <1>1, <1>2, <1>3 DEF OneTurnPerChat, Submitting, supervisor
<1>5. SlotsLead => SlotsLead'
  BY <1>1 DEF SlotsLead, IsCurrent, scheduler, supervisor, process
<1> QED
  BY <1>4, <1>5

\* A launch that rejects releases its slot at once.
LEMMA LaunchRejectedKeepsChats ==
  ASSUME SupervisorInv, SupervisorInv', NEW t \in Tasks, LaunchRejected(t)
  PROVE  /\ OneTurnPerChat => OneTurnPerChat'
         /\ SlotsLead => SlotsLead'
<1>1. /\ launch' = [launch EXCEPT ![t] = "settled"]
      /\ pending' = IF IsPending(t) THEN [pending EXCEPT ![ThreadOf[t]] = None] ELSE pending
      /\ UNCHANGED <<request, runtime, closing, child>>
      /\ Scheduler!StartFails(t)
  BY DEF LaunchRejected, process
<1>2. /\ OthersAtMostAdmitted(t) /\ t \notin starting' \cup active' \cup queue'
      /\ pending \in [Threads -> Tasks \cup {None}]
      /\ launch \in [Tasks -> {"none", "skills", "ready", "settled"}]
  BY <1>1, FailSummary DEF SupervisorInv, Types, MemoryTypes
<1>3. OthersRest(t) /\ ~Prelaunch(t)'
  BY <1>1, <1>2 DEF OthersRest, OthersAtMostAdmitted, Prelaunch, LaunchDue
<1>4. ASSUME NEW h \in Threads
      PROVE  /\ pending'[h] \in {pending[h], None}
             /\ pending'[h] # pending[h] => pending[h] = t
  BY <1>1, <1>2, ThreadsAssumption DEF IsPending
<1>5. OneTurnPerChat => OneTurnPerChat'
  BY <1>1, <1>3, <1>4, StepKeepsChats
<1>6. SlotsLead => SlotsLead'
  BY <1>1, <1>2, <1>3, StepKeepsSlots DEF IsCurrent
<1> QED
  BY <1>5, <1>6

\* The beginning of a launch.
LEMMA LaunchBeginsKeepsChats ==
  ASSUME SupervisorInv, SupervisorInv', NEW t \in Tasks, LaunchBegins(t)
  PROVE  /\ OneTurnPerChat => OneTurnPerChat'
         /\ SlotsLead => SlotsLead'
<1>1. CASE /\ launch' = [launch EXCEPT ![t] = "skills"]
           /\ UNCHANGED <<database, scheduler, up, request, compacting, pending,
                          runtime, closing, stopTimer, process>>
  <2>1. \A u \in Tasks : AtMostAdmitted(u)
    BY <1>1, RestSummary DEF SupervisorInv
  <2>2. /\ OthersRest(t) /\ launch'[t] = "skills"
        /\ UNCHANGED <<request, pending, runtime, closing, child>>
    BY <1>1, <2>1 DEF OthersRest, SupervisorInv, Types, MemoryTypes, process
  <2>3. Prelaunch(t)
    BY DEF LaunchBegins, Prelaunch
  <2>4. OneTurnPerChat => OneTurnPerChat'
    BY <2>2, <2>3, StepKeepsChats
  <2>5. SlotsLead => SlotsLead'
    BY <2>2, StepKeepsSlots DEF IsCurrent
  <2> QED
    BY <2>4, <2>5
<1>2. CASE LaunchRejected(t)
  BY <1>2, LaunchRejectedKeepsChats
<1> QED
  BY <1>1, <1>2 DEF LaunchBegins

\* The ready of a process.
LEMMA LaunchResolvesKeepsChats ==
  ASSUME SupervisorInv, SupervisorInv', NEW t \in Tasks, LaunchResolves(t)
  PROVE  /\ OneTurnPerChat => OneTurnPerChat'
         /\ SlotsLead => SlotsLead'
<1>1. /\ launch[t] = "ready" /\ Scheduler!StartSettles(t)
      /\ launch' = [launch EXCEPT ![t] = "settled"]
      /\ UNCHANGED <<request, pending, runtime, closing, child>>
  BY DEF LaunchResolves
<1>2. /\ OthersAtMostAdmitted(t) /\ UNCHANGED <<queue, active>>
      /\ launch \in [Tasks -> {"none", "skills", "ready", "settled"}]
      /\ t \notin queue
  BY <1>1, SettleSummary DEF SupervisorInv, Types, MemoryTypes, TurnsOK, TurnOK, LaunchOK
<1>3. OthersRest(t) /\ ~Prelaunch(t)'
  BY <1>1, <1>2 DEF OthersRest, OthersAtMostAdmitted, Prelaunch, LaunchDue
<1>4. OneTurnPerChat => OneTurnPerChat'
  BY <1>1, <1>3, StepKeepsChats
<1>5. SlotsLead => SlotsLead'
  BY <1>1, <1>2, <1>3, StepKeepsSlots DEF IsCurrent, SlotsLead
<1> QED
  BY <1>4, <1>5

\* The timeout of a launch.
LEMMA LaunchTimesOutKeepsChats ==
  ASSUME SupervisorInv, SupervisorInv', NEW t \in Tasks, LaunchTimesOut(t)
  PROVE  /\ OneTurnPerChat => OneTurnPerChat'
         /\ SlotsLead => SlotsLead'
<1>1. /\ launch[t] = "ready" /\ Scheduler!StartFails(t)
      /\ launch' = [launch EXCEPT ![t] = "settled"]
      /\ UNCHANGED <<request, pending, child>>
  BY DEF LaunchTimesOut, process
<1>2. /\ OthersAtMostAdmitted(t) /\ t \notin starting' \cup active' \cup queue'
      /\ launch \in [Tasks -> {"none", "skills", "ready", "settled"}]
      /\ runtime \in [Threads -> Tasks \cup {None}]
  BY <1>1, FailSummary DEF SupervisorInv, Types, MemoryTypes
<1>3. OthersRest(t) /\ ~Prelaunch(t)'
  BY <1>1, <1>2 DEF OthersRest, OthersAtMostAdmitted, Prelaunch, LaunchDue
<1>4. /\ \A h \in Threads : /\ runtime'[h] \in {runtime[h], None}
                            /\ runtime'[h] # runtime[h] => runtime[h] = t
      /\ closing \subseteq closing'
  <2>1. CASE IsCurrent(t) /\ Finish(t, "interrupted")
    BY <1>2, <2>1 DEF Finish, IsCurrent
  <2>2. CASE UNCHANGED <<runtime, closing>>
    BY <2>2
  <2> QED
    BY <2>1, <2>2 DEF LaunchTimesOut
<1>5. OneTurnPerChat => OneTurnPerChat'
  BY <1>1, <1>3, <1>4, StepKeepsChats
<1>6. SlotsLead => SlotsLead'
  BY <1>1, <1>2, <1>3, <1>4, StepKeepsSlots, ThreadsAssumption DEF IsCurrent
<1> QED
  BY <1>5, <1>6

\* The exit of a displaced runtime would give nothing back: there is none.
LEMMA HandleExitKeepsChats ==
  ASSUME SupervisorInv, SupervisorInv', NEW t \in Tasks, HandleExit(t)
  PROVE  /\ OneTurnPerChat => OneTurnPerChat'
         /\ SlotsLead => SlotsLead'
<1>1. /\ child[t] = "exited" /\ child' = [child EXCEPT ![t] = "gone"]
      /\ UNCHANGED <<request, pending, launch>>
  BY DEF HandleExit
<1>2. /\ launch[t] \in {"ready", "settled"} /\ t \notin queue
      /\ child \in [Tasks -> {"none", "exited", "gone"} \cup Alive]
      /\ runtime \in [Threads -> Tasks \cup {None}]
  BY <1>1 DEF SupervisorInv, TurnsOK, TurnOK, LaunchOK, Types, MemoryTypes
<1>3. /\ OthersAtMostAdmitted(t) /\ t \notin queue'
  <2>1. CASE Scheduler!Release(t)
    BY <2>1, ReleaseSummary DEF SupervisorInv
  <2>2. CASE UNCHANGED scheduler
    <3>1. OthersAtMostAdmitted(t)
      BY <2>2, RestSummary DEF SupervisorInv, OthersAtMostAdmitted
    <3> QED
      BY <1>2, <2>2, <3>1 DEF scheduler
  <2> QED
    BY <2>1, <2>2 DEF HandleExit
<1>4. OthersRest(t) /\ ~Prelaunch(t)'
  BY <1>1, <1>2, <1>3 DEF OthersRest, OthersAtMostAdmitted, Prelaunch, LaunchDue
<1>5. /\ \A h \in Threads : /\ runtime'[h] \in {runtime[h], None}
                            /\ runtime'[h] # runtime[h] => runtime[h] = t
      /\ closing \subseteq closing'
  <2>1. CASE IsCurrent(t) /\ Finish(t, "interrupted")
    BY <1>2, <2>1 DEF Finish, IsCurrent
  <2>2. CASE UNCHANGED <<runtime, closing>>
    BY <2>2
  <2> QED
    BY <2>1, <2>2 DEF HandleExit
<1>6. OneTurnPerChat => OneTurnPerChat'
  BY <1>1, <1>4, <1>5, StepKeepsChats
<1>7. ASSUME SlotsLead PROVE SlotsLead'
  <2>1. t \notin active'
    <3>1. CASE Scheduler!Release(t)
      BY <3>1, ReleaseSummary DEF SupervisorInv
    <3>2. CASE t \notin active /\ UNCHANGED scheduler
      BY <3>2 DEF scheduler
    <3>3. CASE t \notin closing /\ ~IsCurrent(t) /\ UNCHANGED scheduler
      BY <1>2, <1>7, <3>3 DEF SlotsLead, scheduler
    <3> QED
      BY <3>1, <3>2, <3>3 DEF HandleExit
  <2> QED
    BY <1>1, <1>4, <1>5, <1>7, <2>1, StepKeepsSlots, ThreadsAssumption DEF IsCurrent
<1> QED
  BY <1>6, <1>7

\* The scheduler finds the turn, unless it is stopped while its launch begins.
LEMMA StopPendingKeepsChats ==
  ASSUME SupervisorInv, SupervisorInv', NEW h \in Threads, StopPending(h)
  PROVE  /\ "stop-launching" \notin Windows /\ OneTurnPerChat => OneTurnPerChat'
         /\ SlotsLead => SlotsLead'
<1>1. PICK t \in Tasks : t = pending[h]
  BY DEF StopPending, SupervisorInv, Types, MemoryTypes
<1>2. /\ pending' = [pending EXCEPT ![h] = None]
      /\ UNCHANGED <<request, runtime, launch, closing, child>>
      /\ Scheduler!Cancel(t) \/ (UNCHANGED scheduler /\ "stop-launching" \in Windows)
  BY <1>1 DEF StopPending, process
<1>3. launch[t] \in {"none", "skills"}
  BY <1>1 DEF SupervisorInv, MapsOK, MayPend
<1>4. OthersAtMostAdmitted(t)
  BY <1>2, CancelSummary, RestSummary DEF SupervisorInv, OthersAtMostAdmitted
<1>5. OthersRest(t)
  BY <1>2, <1>4 DEF OthersRest, OthersAtMostAdmitted
<1>6. ASSUME "stop-launching" \notin Windows PROVE ~Prelaunch(t)'
  <2>1. t \in queue /\ t \notin queue' \cup active' \cup starting'
    BY <1>2, <1>6, CancelSummary DEF SupervisorInv
  <2>2. launch[t] # "skills"
    BY <2>1 DEF SupervisorInv, TurnsOK, TurnOK, LaunchOK
  <2> QED
    BY <1>2, <2>1, <2>2 DEF Prelaunch, LaunchDue
<1>7. ASSUME NEW g \in Threads
      PROVE  /\ pending'[g] \in {pending[g], None}
             /\ pending'[g] # pending[g] => pending[g] = t
  BY <1>1, <1>2 DEF SupervisorInv, Types, MemoryTypes
<1>8. "stop-launching" \notin Windows /\ OneTurnPerChat => OneTurnPerChat'
  BY <1>2, <1>5, <1>6, <1>7, StepKeepsChats
<1>9. SlotsLead => SlotsLead'
  BY <1>2, <1>3, <1>5, StepKeepsSlots DEF IsCurrent
<1> QED
  BY <1>8, <1>9

\* What allows to fork without displacing a runtime that still holds its slot.
TurnsOfAChatConflict ==
  \A t, u \in Tasks : t # u /\ ThreadOf[t] = ThreadOf[u] => LeasesConflict(t, u)

\* The fork: a displaced runtime of the chat would keep its slot for good.
LEMMA LaunchForksKeepsChats ==
  ASSUME SupervisorInv, SupervisorInv', NEW t \in Tasks, LaunchForks(t)
  PROVE  /\ OneTurnPerChat => OneTurnPerChat'
         /\ SlotsLead /\ (OneTurnPerChat \/ TurnsOfAChatConflict) => SlotsLead'
<1>1. /\ launch[t] = "skills"
      /\ pending' = [pending EXCEPT ![ThreadOf[t]] = None]
      /\ runtime' = [runtime EXCEPT ![ThreadOf[t]] = t]
      /\ child' = [child EXCEPT ![t] = "booting"]
      /\ launch' = [launch EXCEPT ![t] = "ready"]
      /\ UNCHANGED <<queue, active, starting, request, closing>>
  BY DEF LaunchForks, scheduler
<1>2. /\ \A u \in Tasks : ThreadOf[u] \in Threads
      /\ pending \in [Threads -> Tasks \cup {None}]
      /\ runtime \in [Threads -> Tasks \cup {None}]
      /\ launch \in [Tasks -> {"none", "skills", "ready", "settled"}]
      /\ child \in [Tasks -> {"none", "exited", "gone"} \cup Alive]
      /\ t \in active /\ t \notin queue
  <2>1. LaunchOK(t)
    BY DEF SupervisorInv, TurnsOK, TurnOK
  <2>2. t \in active /\ t \notin queue
    BY <1>1, <2>1 DEF LaunchOK
  <2>3. MemoryTypes
    BY DEF SupervisorInv, Types
  <2> QED
    BY <2>2, <2>3, ThreadsAssumption DEF MemoryTypes
<1>3. OthersRest(t)
  BY <1>1, <1>2 DEF OthersRest, AtMostAdmitted
<1>4. ASSUME OneTurnPerChat PROVE OneTurnPerChat'
  <2>1. pending[ThreadOf[t]] = t
    BY <1>1, <1>4 DEF OneTurnPerChat, Prelaunch, IsPending
  <2>2. \A u \in Tasks : request[u] # "none" => ThreadOf[u] # ThreadOf[t]
    BY <1>4, <2>1, ThreadsAssumption DEF OneTurnPerChat, HasThread
  <2>3. \A u \in Tasks : request'[u] # "none" => ~HasThread(ThreadOf[u])'
    BY <1>1, <1>2, <1>4, <2>2 DEF OneTurnPerChat, HasThread
  <2>4. \A h \in Threads : pending'[h] = None \/ runtime'[h] = None
    BY <1>1, <1>2, <1>4 DEF OneTurnPerChat
  <2>5. \A u \in Tasks : Prelaunch(u)' => IsPending(u)'
    <3> SUFFICES ASSUME NEW u \in Tasks, Prelaunch(u)' PROVE IsPending(u)'
      OBVIOUS
    <3>1. u # t
      BY <1>1, <1>2 DEF Prelaunch, LaunchDue
    <3>2. Prelaunch(u)
      BY <1>1, <1>2, <3>1 DEF Prelaunch, LaunchDue
    <3>3. pending[ThreadOf[u]] = u
      BY <1>4, <3>2 DEF OneTurnPerChat, IsPending
    <3> QED
      BY <1>1, <1>2, <2>1, <3>1, <3>3 DEF IsPending
  <2> QED
    BY <1>1, <1>4, <2>3, <2>4, <2>5 DEF OneTurnPerChat
<1>5. ASSUME SlotsLead, OneTurnPerChat \/ TurnsOfAChatConflict PROVE SlotsLead'
  <2>1. ASSUME NEW u \in Tasks \ {t}, IsCurrent(u) PROVE ThreadOf[u] # ThreadOf[t]
    <3>1. CASE OneTurnPerChat
      <4>1. pending[ThreadOf[t]] = t
        BY <1>1, <3>1 DEF OneTurnPerChat, Prelaunch, IsPending
      <4> QED
        BY <1>2, <2>1, <3>1, <4>1, ThreadsAssumption DEF OneTurnPerChat, IsCurrent
    <3>2. CASE TurnsOfAChatConflict
      <4>1. u \in active
        BY <1>2, <2>1 DEF SupervisorInv, MapsOK, MayRun, IsCurrent
      <4>2. ~LeasesConflict(t, u)
        BY <1>2, <2>1, <4>1 DEF SupervisorInv, SchedulerOK, Lawful, LeaseFree
      <4> QED
        BY <2>1, <3>2, <4>2 DEF TurnsOfAChatConflict
    <3> QED
      BY <1>5, <3>1, <3>2
  <2>2. \A u \in Tasks \ {t} : IsCurrent(u) => IsCurrent(u)'
    BY <1>1, <1>2, <2>1 DEF IsCurrent
  <2>3. IsCurrent(t)'
    BY <1>1, <1>2 DEF IsCurrent
  <2> QED
    BY <1>1, <1>3, <1>5, <2>2, <2>3, StepKeepsSlots
<1> QED
  BY <1>4, <1>5

\* The end of the application.
LEMMA EndsKeepChats ==
  ASSUME VolatileLost PROVE OneTurnPerChat' /\ SlotsLead'
<1>1. /\ queue' = {} /\ active' = {} /\ starting' = {}
      /\ request' = [t \in Tasks |-> "none"]
      /\ pending' = [h \in Threads |-> None]
      /\ runtime' = [h \in Threads |-> None]
      /\ launch' = [t \in Tasks |-> "none"]
  BY DEF VolatileLost, Scheduler!Reconstruct
<1>2. \A t \in Tasks : ~Prelaunch(t)'
  BY <1>1 DEF Prelaunch, LaunchDue
<1> QED
  BY <1>1, <1>2 DEF OneTurnPerChat, SlotsLead

\* Every step keeps both, if no chat can be stopped while its launch begins, and the
\* slots if it can be, but two turns of a chat are never admitted together.
LEMMA StepKeepsBoth ==
  ASSUME SupervisorInv, SupervisorInv', [Next]_vars
  PROVE  /\ "stop-launching" \notin Windows /\ OneTurnPerChat => OneTurnPerChat'
         /\ SlotsLead /\ (OneTurnPerChat \/ TurnsOfAChatConflict) => SlotsLead'
<1> DEFINE Goal == /\ "stop-launching" \notin Windows /\ OneTurnPerChat => OneTurnPerChat'
                   /\ SlotsLead /\ (OneTurnPerChat \/ TurnsOfAChatConflict) => SlotsLead'
<1>1. ASSUME Quiet PROVE Goal
  BY <1>1, QuietKeepsChats, QuietKeepsSlots
<1>2. ASSUME NEW t \in Tasks, TurnStep(t) PROVE Goal
  <2>1. CASE CreateTurn(t) \/ Prepare(t)
    BY <1>1, <2>1, RowStepsQuiet
  <2>2. CASE HandleMessage(t) \/ StopTimerFires(t)
    BY <1>1, <2>2, EventStepsQuiet
  <2>3. CASE Submit(t)
    BY <2>3, SubmitKeepsChats
  <2>4. CASE EnqueueTurn(t)
    BY <2>4, EnqueueTurnKeepsChats
  <2>5. CASE LaunchBegins(t)
    BY <2>5, LaunchBeginsKeepsChats
  <2>6. CASE LaunchForks(t)
    BY <2>6, LaunchForksKeepsChats
  <2>7. CASE SkillIndexFails(t)
    BY <2>7, LaunchRejectedKeepsChats DEF SkillIndexFails
  <2>8. CASE LaunchResolves(t)
    BY <2>8, LaunchResolvesKeepsChats
  <2>9. CASE LaunchTimesOut(t)
    BY <2>9, LaunchTimesOutKeepsChats
  <2>10. CASE HandleExit(t)
    BY <2>10, HandleExitKeepsChats
  <2> QED
    BY <1>2, <2>1, <2>2, <2>3, <2>4, <2>5, <2>6, <2>7, <2>8, <2>9, <2>10 DEF TurnStep
<1>3. ASSUME NEW t \in Tasks, ProcessStep(t) PROVE Goal
  BY <1>1, <1>3, ProcessStepsQuiet
<1>4. ASSUME NEW h \in Threads, UserStep(h) PROVE Goal
  <2>1. CASE StopPending(h)
    BY <2>1, StopPendingKeepsChats
  <2>2. CASE \/ CompactBegins(h) \/ CompactWrites(h) \/ DeleteThread(h)
             \/ Continue(h) \/ StopActive(h) \/ ResolveApproval(h)
    BY <1>1, <2>2, RowStepsQuiet
  <2> QED
    BY <1>4, <2>1, <2>2 DEF UserStep
<1>5. CASE ApplicationEnds \/ \E t \in Tasks : EndsBetweenWrites(t)
  <2>1. VolatileLost
    BY <1>5 DEF ApplicationEnds, EndsBetweenWrites
  <2> QED
    BY <2>1, EndsKeepChats
<1>6. CASE Recover \/ RecoveryEndsEarly \/ UNCHANGED vars
  BY <1>1, <1>6, RowStepsQuiet
<1> QED
  BY <1>2, <1>3, <1>4, <1>5, <1>6 DEF Next

\* No chat has a turn at the start.
LEMMA InitBoth == Init => OneTurnPerChat /\ SlotsLead
<1> SUFFICES ASSUME Init PROVE OneTurnPerChat /\ SlotsLead
  OBVIOUS
<1>1. /\ queue = {} /\ active = {} /\ starting = {}
      /\ request = [t \in Tasks |-> "none"]
      /\ pending = [h \in Threads |-> None]
      /\ runtime = [h \in Threads |-> None]
      /\ launch = [t \in Tasks |-> "none"]
  BY DEF Init, Scheduler!Init
<1>2. \A t \in Tasks : ~Prelaunch(t)
  BY <1>1 DEF Prelaunch, LaunchDue
<1> QED
  BY <1>1, <1>2 DEF OneTurnPerChat, SlotsLead

-----------------------------------------------------------------------------
\* The inductive invariant has the types of the module.
LEMMA InvImpliesTypes == SupervisorInv => TypeOK
<1> SUFFICES ASSUME SupervisorInv PROVE TypeOK
  OBVIOUS
<1>1. Scheduler!TypeOK
  BY DEF SupervisorInv, SchedulerOK, Lawful, Orders, Scheduler!TypeOK, Scheduler!QueueIsOrdered
<1>2. \A t \in Tasks : Len(post[t]) <= MaxPost + 1 /\ Len(mail[t]) <= 4
  BY DEF SupervisorInv, TurnsOK, TurnOK, ProcessOK
<1> QED
  BY <1>1, <1>2 DEF SupervisorInv, Types, RowTypes, MemoryTypes, Statuses, ThreadStatuses, TypeOK

\* What the maps of the supervisor name, the scheduler knows, and a process that
\* works holds its slot, whichever of the narrow interleavings happen.
THEOREM MapsFollowScheduler ==
  Spec => [](TypeOK /\ MapsMatchScheduler /\ WorkersHoldSlots)
<1>1. SupervisorInv => TypeOK /\ MapsMatchScheduler /\ WorkersHoldSlots
  <2> SUFFICES ASSUME SupervisorInv PROVE TypeOK /\ MapsMatchScheduler /\ WorkersHoldSlots
    OBVIOUS
  <2>1. MapsMatchScheduler
    BY DEF SupervisorInv, MapsOK, MayPend, MayRun, Types, MemoryTypes, MapsMatchScheduler
  <2>2. WorkersHoldSlots
    BY DEF SupervisorInv, TurnsOK, TurnOK, ProcessOK, Alive, Working, WorkersHoldSlots
  <2> QED
    BY <2>1, <2>2, InvImpliesTypes
<1> QED
  BY <1>1, Invariance, PTL

\* A slot whose turn the maps have lost is one whose exit is still to come.
LEMMA SlotsComeBack ==
  SupervisorInv /\ SlotsLead => MapsAndSlotsAgree
<1> SUFFICES ASSUME SupervisorInv, SlotsLead PROVE MapsAndSlotsAgree
  OBVIOUS
<1>1. MapsMatchScheduler
  BY DEF SupervisorInv, MapsOK, MayPend, MayRun, Types, MemoryTypes, MapsMatchScheduler
<1>2. WorkersHoldSlots
  BY DEF SupervisorInv, TurnsOK, TurnOK, ProcessOK, Alive, Working, WorkersHoldSlots
<1>3. SlotsAreRecoverable
  <2> SUFFICES ASSUME NEW t \in active
               PROVE  \/ IsPending(t) \/ IsCurrent(t)
                      \/ LaunchDue(t) \/ launch[t] = "skills"
                      \/ t \in closing /\ child[t] # "gone"
    BY DEF SlotsAreRecoverable
  <2>1. t \in Tasks /\ launch[t] \in {"none", "skills", "ready", "settled"}
    BY DEF SupervisorInv, SchedulerOK, Lawful, Types, MemoryTypes
  <2>2. launch[t] = "none" => LaunchDue(t)
    BY <2>1 DEF SupervisorInv, TurnsOK, TurnOK, LaunchOK, LaunchDue
  <2> QED
    BY <2>1, <2>2 DEF SlotsLead
<1> QED
  BY <1>1, <1>2, <1>3, InvImpliesTypes DEF MapsAndSlotsAgree

\* Maps, slots and processes belong to the same turns and no slot leaks, if two
\* turns of a chat exclude each other, as those that may write do.
THEOREM NoSlotLeaksOfWriters ==
  ASSUME TurnsOfAChatConflict
  PROVE  Spec => []MapsAndSlotsAgree
<1>1. SupervisorInv /\ SlotsLead /\ [Next]_vars => (SupervisorInv /\ SlotsLead)'
  BY StepKeepsInv, StepKeepsBoth
<1>2. Init => SupervisorInv /\ SlotsLead
  BY InitInv, InitBoth
<1>3. SupervisorInv /\ SlotsLead => MapsAndSlotsAgree
  BY SlotsComeBack
<1> QED
  BY <1>1, <1>2, <1>3, PTL DEF Spec

\* The same for any leases, if no Stop arrives while launch() reads the skill index:
\* then a chat has one turn at a time that is submitted, pending or running.
THEOREM NoSlotLeaksWithoutStop ==
  ASSUME "stop-launching" \notin Windows
  PROVE  Spec => [](MapsAndSlotsAgree /\ OneTurnPerChat)
<1> DEFINE Inv == SupervisorInv /\ SlotsLead /\ OneTurnPerChat
<1>1. Inv /\ [Next]_vars => Inv'
  BY StepKeepsInv, StepKeepsBoth
<1>2. Init => Inv
  BY InitInv, InitBoth
<1>3. Inv => MapsAndSlotsAgree /\ OneTurnPerChat
  BY SlotsComeBack
<1> QED
  BY <1>1, <1>2, <1>3, PTL DEF Spec
=============================================================================
