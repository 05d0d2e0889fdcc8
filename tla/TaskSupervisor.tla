---------------------------- MODULE TaskSupervisor ----------------------------
(***************************************************************************)
(* The life of a turn: TaskService.start, RuntimeSupervisor, the statuses  *)
(* AppDatabase keeps, and the utility process that runs the agent.         *)
(* src/main/task-service.ts, runtime-supervisor.ts, database.ts, ipc.ts,   *)
(* src/runtime/index.ts, agent-session.ts                                  *)
(*                                                                         *)
(* A step is what the main process, or a child, does between two awaits    *)
(* or events.  Admission is RuntimeScheduler's, through Scheduler!; a turn *)
(* is submitted once.  Chats belong to a Git project, so that every        *)
(* submission awaits a baseline.                                           *)
(***************************************************************************)
EXTENDS RuntimeLeases, Sequences

CONSTANTS Threads,    \* chats
          ThreadOf,   \* the chat of each turn
          None,
          MaxPost,    \* bound: messages waiting for one child
          Windows     \* which of the narrow interleavings below may happen

\* "stop-launching": a Stop arrives while launch() reads the skill index
\* "crash-writes"  : the application ends between two writes of one operation
\* "compaction"    : a turn is submitted while compact() reads the configuration
\* "delete-early"  : a chat is deleted while a submission is on its way
\* "run-rejects"   : run() of a session rejects before the agent is prompted
AllWindows ==
  {"stop-launching", "crash-writes", "compaction", "delete-early", "run-rejects"}

ASSUME ThreadsAssumption == ThreadOf \in [Tasks -> Threads] /\ None \notin Tasks
ASSUME WindowsAssumption == Windows \subseteq AllWindows /\ MaxPost \in Nat

VARIABLES
  turnStatus,    \* turns.status; "none" before createTurn, "deleted" after
  threadStatus,  \* threads.status; "deleted" when the row is gone
  approval,      \* decision of the turn's approval row; "none" without a row
  queue, ahead, active, starting,   \* the scheduler
  up,            \* the application runs
  request,       \* what TaskService.start awaits for the turn
  compacting,    \* chats whose compact() awaits the configuration
  pending,       \* this.pending, by chat
  runtime,       \* this.active, by chat
  launch,        \* what launch() of the turn awaits
  closing,       \* turns whose ActiveRuntime.closing is set
  stopTimer,     \* turns with the 5 s timer of stop() set
  child,         \* the turn's utility process
  stopped,       \* turns whose session was told to stop
  post,          \* messages on their way to the child
  mail           \* messages on their way to the main process

database == <<turnStatus, threadStatus, approval>>
scheduler == <<queue, ahead, active, starting>>
supervisor == <<pending, runtime, launch, closing, stopTimer>>
process == <<child, stopped, post, mail>>
vars == <<database, scheduler, up, request, compacting, supervisor, process>>

Scheduler == INSTANCE RuntimeScheduler

Terminal == {"completed", "failed", "cancelled", "interrupted"}
NonTerminal == {"queued", "preparing", "running", "awaiting_approval"}

\* The states of a process in which it may touch the workspace or the router.
Working == {"working", "asking", "resumed"}
Alive == {"booting", "session", "stuck", "done"} \cup Working

Init ==
  /\ turnStatus = [t \in Tasks |-> "none"]
  /\ threadStatus = [h \in Threads |-> "idle"]
  /\ approval = [t \in Tasks |-> "none"]
  /\ Scheduler!Init
  /\ up = TRUE
  /\ request = [t \in Tasks |-> "none"]
  /\ compacting = {}
  /\ pending = [h \in Threads |-> None]
  /\ runtime = [h \in Threads |-> None]
  /\ launch = [t \in Tasks |-> "none"]
  /\ closing = {} /\ stopTimer = {}
  /\ child = [t \in Tasks |-> "none"]
  /\ stopped = {}
  /\ post = [t \in Tasks |-> <<>>]
  /\ mail = [t \in Tasks |-> <<>>]

-----------------------------------------------------------------------------
\* Mutant: a message is taken by its turn id alone.
IsCurrentByTurn(t) == turnStatus[t] # "none"

IsPending(t) == pending[ThreadOf[t]] = t
IsCurrent(t) == runtime[ThreadOf[t]] = t
HasThread(h) == pending[h] # None \/ runtime[h] # None
Submitting(h) == \E t \in Tasks : ThreadOf[t] = h /\ request[t] # "none"

\* start() of an admitted task runs in a microtask, before any other event.
LaunchDue(t) == t \in starting /\ launch[t] = "none"
MainIdle == up /\ \A t \in Tasks : ~LaunchDue(t)

SetStatus(t, ofTurn, ofThread) ==
  /\ turnStatus' = [turnStatus EXCEPT ![t] = ofTurn]
  /\ threadStatus' = [threadStatus EXCEPT ![ThreadOf[t]] = ofThread]

\* Mutant: a turn without process is forgotten.
FinishPendingSilently(t, status) == UNCHANGED <<turnStatus, threadStatus>>

ThreadAfter(status) == IF status = "failed" THEN "failed" ELSE "idle"

\* finishPending: a turn that never got a process.
FinishPending(t, status) ==
  IF turnStatus[t] \in NonTerminal
  THEN SetStatus(t, status, ThreadAfter(status))
  ELSE UNCHANGED <<turnStatus, threadStatus>>

\* child.postMessage: what is posted to a process that is gone is lost.
Post(t, message) ==
  post' = IF child[t] \in Alive THEN [post EXCEPT ![t] = Append(@, message)] ELSE post

RejectPendingApprovals(t) ==
  approval' = [approval EXCEPT ![t] = IF @ = "pending" THEN "denied" ELSE @]

\* finish of the current runtime: it is killed here, and its slot is released
\* when it has exited.
Finish(t, status) ==
  /\ SetStatus(t, status, ThreadAfter(status))
  /\ RejectPendingApprovals(t)
  /\ runtime' = [runtime EXCEPT ![ThreadOf[t]] = None]
  /\ closing' = closing \cup {t}
  /\ stopTimer' = stopTimer \ {t}

-----------------------------------------------------------------------------
(* TaskService.start                                                        *)

Submit(t) ==
  /\ MainIdle
  /\ turnStatus[t] = "none"
  /\ threadStatus[ThreadOf[t]] \notin {"interrupted", "deleted"}
  /\ ~Submitting(ThreadOf[t]) /\ ~HasThread(ThreadOf[t])
  /\ request' = [request EXCEPT ![t] = "configuration"]
  /\ UNCHANGED <<database, scheduler, up, compacting, supervisor, process>>

\* The configuration has been read, or it was not, or the chat is gone.
CreateTurn(t) ==
  /\ MainIdle /\ request[t] = "configuration"
  /\ \/ /\ threadStatus[ThreadOf[t]] # "deleted"
        /\ turnStatus' = [turnStatus EXCEPT ![t] = "queued"]
        /\ request' = [request EXCEPT ![t] = "baseline"]
     \/ /\ request' = [request EXCEPT ![t] = "none"]
        /\ UNCHANGED turnStatus
  /\ UNCHANGED <<threadStatus, approval, scheduler, up, compacting, supervisor, process>>

\* The Git baseline is captured; supervisor.start refuses a busy chat, or goes
\* on to resolve the lease.
Prepare(t) ==
  /\ MainIdle /\ request[t] = "baseline"
  /\ \/ /\ turnStatus[t] = "deleted"
        /\ request' = [request EXCEPT ![t] = "none"]
        /\ UNCHANGED <<turnStatus, threadStatus>>
     \/ /\ turnStatus[t] # "deleted" /\ HasThread(ThreadOf[t])
        /\ request' = [request EXCEPT ![t] = "none"]
        /\ SetStatus(t, "failed", "failed")
     \/ /\ turnStatus[t] # "deleted" /\ ~HasThread(ThreadOf[t])
        /\ request' = [request EXCEPT ![t] = "lease"]
        /\ SetStatus(t, "preparing", "running")
  /\ UNCHANGED <<approval, scheduler, up, compacting, supervisor, process>>

\* The lease is resolved, or the workspace is gone or the queue is full.
EnqueueTurn(t) ==
  /\ MainIdle /\ request[t] = "lease"
  /\ request' = [request EXCEPT ![t] = "none"]
  /\ \/ /\ Scheduler!Enqueue(t)
        /\ pending' = [pending EXCEPT ![ThreadOf[t]] = t]
        /\ UNCHANGED <<turnStatus, threadStatus>>
     \/ /\ UNCHANGED <<scheduler, pending>>
        /\ IF turnStatus[t] = "deleted"
           THEN UNCHANGED <<turnStatus, threadStatus>>
           ELSE SetStatus(t, "failed", "failed")
  /\ UNCHANGED <<approval, up, compacting, runtime, launch, closing, stopTimer, process>>

-----------------------------------------------------------------------------
(* launch() of an admitted turn                                             *)

\* start() rejects before there is a process: handleLaunchFailure.
LaunchRejected(t) ==
  /\ Scheduler!StartFails(t)
  /\ launch' = [launch EXCEPT ![t] = "settled"]
  /\ pending' = IF IsPending(t) THEN [pending EXCEPT ![ThreadOf[t]] = None] ELSE pending
  /\ FinishPending(t, "failed")
  /\ UNCHANGED <<approval, up, request, compacting, runtime, closing, stopTimer, process>>

\* The synchronous beginning of launch(): the turn must still be the chat's
\* pending one.
LaunchBegins(t) ==
  /\ up /\ LaunchDue(t)
  /\ \/ /\ IsPending(t) /\ threadStatus[ThreadOf[t]] # "deleted"
        /\ launch' = [launch EXCEPT ![t] = "skills"]
        /\ UNCHANGED <<database, scheduler, up, request, compacting, pending,
                       runtime, closing, stopTimer, process>>
     \/ /\ ~IsPending(t) \/ threadStatus[ThreadOf[t]] = "deleted"
        /\ LaunchRejected(t)

\* The skill index is read: whatever turn the chat has pending is taken off,
\* and the process of this one is forked.
LaunchForks(t) ==
  /\ MainIdle /\ launch[t] = "skills"
  /\ pending' = [pending EXCEPT ![ThreadOf[t]] = None]
  /\ runtime' = [runtime EXCEPT ![ThreadOf[t]] = t]
  /\ child' = [child EXCEPT ![t] = "booting"]
  /\ launch' = [launch EXCEPT ![t] = "ready"]
  /\ UNCHANGED <<database, scheduler, up, request, compacting,
                 closing, stopTimer, stopped, post, mail>>

SkillIndexFails(t) ==
  /\ MainIdle /\ launch[t] = "skills"
  /\ LaunchRejected(t)

\* The child has posted `ready`: the start request is posted, to a process that
\* may have been killed in the meantime.
LaunchResolves(t) ==
  /\ MainIdle /\ launch[t] = "ready" /\ child[t] # "none"
  /\ Scheduler!StartSettles(t)
  /\ launch' = [launch EXCEPT ![t] = "settled"]
  /\ Post(t, "start")
  /\ UNCHANGED <<database, up, request, compacting, pending, runtime,
                 closing, stopTimer, child, stopped, mail>>

\* No `ready` within 10 s: the slot is given back at once, then the runtime is
\* finished and killed.
LaunchTimesOut(t) ==
  /\ MainIdle /\ launch[t] = "ready"
  /\ Scheduler!StartFails(t)
  /\ launch' = [launch EXCEPT ![t] = "settled"]
  /\ \/ /\ t \in active /\ IsCurrent(t)
        /\ Finish(t, "interrupted")
     \/ /\ t \in active /\ ~IsCurrent(t)
        /\ FinishPending(t, "failed")
        /\ UNCHANGED <<approval, runtime, closing, stopTimer>>
     \/ /\ t \notin active
        /\ UNCHANGED <<database, runtime, closing, stopTimer>>
  /\ UNCHANGED <<up, request, compacting, pending, process>>

-----------------------------------------------------------------------------
(* The utility process                                                      *)

Mail(t, messages) == mail' = [mail EXCEPT ![t] = @ \o messages]

ChildStep(t, from, to) ==
  /\ up /\ child[t] \in from
  /\ child' = [child EXCEPT ![t] = to]
  /\ UNCHANGED <<database, scheduler, up, request, compacting, supervisor>>

\* handleRequest of the next message.
ChildReceives(t) ==
  /\ post[t] # <<>>
  /\ post' = [post EXCEPT ![t] = Tail(@)]
  /\ UNCHANGED mail
  /\ LET message == Head(post[t]) IN
     \/ /\ message = "start"
        /\ ChildStep(t, {"booting"}, "session")
        /\ UNCHANGED stopped
     \* without a session a stop is lost
     \/ /\ message = "stop" /\ child[t] = "booting"
        /\ ChildStep(t, {"booting"}, "booting")
        /\ UNCHANGED stopped
     \* pending approvals are denied and the agent is aborted
     \/ /\ message = "stop" /\ child[t] # "booting"
        /\ ChildStep(t, Alive, IF child[t] = "asking" THEN "resumed" ELSE child[t])
        /\ stopped' = stopped \cup {t}
     \* a decision nobody waits for is an error, which is only reported
     \/ /\ message = "decision"
        /\ ChildStep(t, Alive, IF child[t] = "asking" THEN "resumed" ELSE child[t])
        /\ UNCHANGED stopped

\* run(): the agent is about to be prompted, or the preparation rejects.
ChildRuns(t) ==
  /\ ChildStep(t, {"session"}, "working")
  /\ Mail(t, <<"running">>)
  /\ UNCHANGED <<stopped, post>>

ChildRunRejects(t) ==
  /\ "run-rejects" \in Windows
  /\ ChildStep(t, {"session"}, "stuck")
  /\ UNCHANGED <<stopped, post, mail>>

\* requestApproval; at most once a turn here.
ChildAsks(t) ==
  /\ t \notin stopped
  /\ ChildStep(t, {"working"}, "asking")
  /\ Mail(t, <<"request", "awaiting_approval">>)
  /\ UNCHANGED <<stopped, post>>

ChildEnds(t) ==
  /\ ChildStep(t, {"working", "resumed"}, "done")
  /\ \E status \in IF t \in stopped THEN {"cancelled"} ELSE {"completed", "failed"} :
       Mail(t, <<status>>)
  /\ UNCHANGED <<stopped, post>>

\* The process ends, killed or by itself, and reads no more.
ChildDies(t) ==
  /\ ChildStep(t, Alive, "exited")
  /\ post' = [post EXCEPT ![t] = <<>>]
  /\ stopped' = stopped \ {t}
  /\ UNCHANGED mail

-----------------------------------------------------------------------------
(* The supervisor's event handlers                                          *)

\* handlePortMessage of the next message.  Only the current runtime is heard.
HandleMessage(t) ==
  /\ MainIdle /\ mail[t] # <<>>
  /\ mail' = [mail EXCEPT ![t] = Tail(@)]
  /\ LET message == Head(mail[t]) IN
     \/ /\ ~IsCurrent(t)
        /\ UNCHANGED <<database, runtime, closing, stopTimer>>
     \/ /\ IsCurrent(t) /\ message = "request"
        /\ approval' = [approval EXCEPT ![t] = "pending"]
        /\ UNCHANGED <<turnStatus, threadStatus, runtime, closing, stopTimer>>
     \/ /\ IsCurrent(t) /\ message \in {"running", "awaiting_approval"}
        /\ SetStatus(t, message, message)
        /\ UNCHANGED <<approval, runtime, closing, stopTimer>>
     \/ /\ IsCurrent(t) /\ message \in Terminal
        /\ Finish(t, message)
     \* the handler throws: handleCrash
     \/ /\ IsCurrent(t) /\ Finish(t, "interrupted")
  /\ UNCHANGED <<scheduler, up, request, compacting, pending, launch, child, stopped, post>>

\* Mutant: only the exit of the current runtime gives a slot back.
HandleExitOfCurrent(t) ==
  /\ MainIdle /\ child[t] = "exited"
  /\ child' = [child EXCEPT ![t] = "gone"]
  /\ mail' = [mail EXCEPT ![t] = <<>>]
  /\ \/ /\ IsCurrent(t)
        /\ Finish(t, "interrupted")
        /\ Scheduler!Release(t)
     \/ /\ ~IsCurrent(t)
        /\ UNCHANGED <<database, scheduler, runtime, closing, stopTimer>>
  /\ UNCHANGED <<up, request, compacting, pending, launch, stopped, post>>

\* The exit event: a finished runtime gives its slot back; the current one is
\* finished as crashed first; of another, displaced one nothing is released.
\* What the process had still mailed is heard no more.
HandleExit(t) ==
  /\ MainIdle /\ child[t] = "exited"
  /\ child' = [child EXCEPT ![t] = "gone"]
  /\ mail' = [mail EXCEPT ![t] = <<>>]
  /\ \/ /\ t \in closing
        /\ \/ Scheduler!Release(t)
           \/ t \notin active /\ UNCHANGED scheduler
        /\ UNCHANGED <<database, runtime, closing, stopTimer>>
     \/ /\ t \notin closing /\ IsCurrent(t)
        /\ Finish(t, "interrupted")
        /\ Scheduler!Release(t)
     \/ /\ t \notin closing /\ ~IsCurrent(t)
        /\ UNCHANGED <<database, scheduler, runtime, closing, stopTimer>>
  /\ UNCHANGED <<up, request, compacting, pending, launch, stopped, post>>

\* Mutants: the timer gives the slot back before the process has exited; the
\* timer leaves it to the process to end.
StopTimerReleases(t) ==
  /\ MainIdle /\ t \in stopTimer /\ IsCurrent(t)
  /\ Finish(t, "cancelled")
  /\ Scheduler!Release(t)
  /\ UNCHANGED <<up, request, compacting, pending, launch, process>>

StopTimerWaits(t) ==
  /\ MainIdle /\ t \in stopTimer /\ ~IsCurrent(t)
  /\ stopTimer' = stopTimer \ {t}
  /\ UNCHANGED <<database, scheduler, up, request, compacting, pending, launch,
                 runtime, closing, process>>

\* The 5 s timer of stop().
StopTimerFires(t) ==
  /\ MainIdle /\ t \in stopTimer
  /\ \/ IsCurrent(t) /\ Finish(t, "cancelled")
     \/ /\ ~IsCurrent(t)
        /\ stopTimer' = stopTimer \ {t}
        /\ UNCHANGED <<database, runtime, closing>>
  /\ UNCHANGED <<scheduler, up, request, compacting, pending, launch, process>>

-----------------------------------------------------------------------------
(* The user's and the automation client's requests                          *)

\* stop: a pending turn is cancelled at once.  (Once admitted it is no longer
\* in the queue: the scheduler finds nothing to cancel.)
StopPending(h) ==
  LET t == pending[h] IN
  /\ MainIdle /\ t # None
  /\ \/ Scheduler!Cancel(t)
     \/ /\ t \notin queue /\ "stop-launching" \in Windows
        /\ UNCHANGED scheduler
  /\ pending' = [pending EXCEPT ![h] = None]
  /\ FinishPending(t, "cancelled")
  /\ UNCHANGED <<approval, up, request, compacting, runtime, launch, closing,
                 stopTimer, process>>

\* stop: a running turn is asked to, and given 5 s.
StopActive(h) ==
  LET t == runtime[h] IN
  /\ MainIdle /\ pending[h] = None /\ t # None
  /\ Len(post[t]) < MaxPost
  /\ RejectPendingApprovals(t)
  /\ Post(t, "stop")
  /\ stopTimer' = stopTimer \cup {t}
  /\ UNCHANGED <<turnStatus, threadStatus, scheduler, up, request, compacting, pending,
                 runtime, launch, closing, child, stopped, mail>>

\* TaskService.resolveApproval of an approval of the active turn.
ResolveApproval(h) ==
  LET t == runtime[h] IN
  /\ MainIdle /\ t # None
  /\ approval[t] = "pending" /\ Len(post[t]) < MaxPost
  /\ \E decision \in {"allowed", "denied"} : approval' = [approval EXCEPT ![t] = decision]
  /\ SetStatus(t, "running", "running")
  /\ Post(t, "decision")
  /\ UNCHANGED <<scheduler, up, request, compacting, supervisor, child, stopped, mail>>

\* compact: the chat is idle before the await; its statuses go to running and
\* back after it, in one go, the maintenance turn's being "completed".
CompactBegins(h) ==
  /\ MainIdle /\ "compaction" \in Windows
  /\ threadStatus[h] = "idle"
  /\ compacting' = compacting \cup {h}
  /\ UNCHANGED <<database, scheduler, up, request, supervisor, process>>

CompactWrites(h) ==
  /\ MainIdle /\ h \in compacting
  /\ compacting' = compacting \ {h}
  /\ threadStatus' = [threadStatus EXCEPT ![h] = IF @ = "deleted" THEN @ ELSE "idle"]
  /\ UNCHANGED <<turnStatus, approval, scheduler, up, request, supervisor, process>>

\* threads.delete, with its cascade.  (A chat one of whose cancelled turns is
\* still about to be forked is not deleted here.)
DeleteThread(h) ==
  /\ MainIdle /\ ~HasThread(h)
  /\ threadStatus[h] \in {"idle", "failed", "interrupted"}
  /\ Submitting(h) => "delete-early" \in Windows
  /\ \A t \in Tasks : ThreadOf[t] = h => launch[t] # "skills"
  /\ threadStatus' = [threadStatus EXCEPT ![h] = "deleted"]
  /\ turnStatus' = [t \in Tasks |-> IF ThreadOf[t] = h /\ turnStatus[t] # "none"
                                    THEN "deleted" ELSE turnStatus[t]]
  /\ approval' = [t \in Tasks |-> IF ThreadOf[t] = h THEN "none" ELSE approval[t]]
  /\ UNCHANGED <<scheduler, up, request, compacting, supervisor, process>>

\* threads.continue
Continue(h) ==
  /\ MainIdle /\ ~HasThread(h) /\ threadStatus[h] = "interrupted"
  /\ threadStatus' = [threadStatus EXCEPT ![h] = "idle"]
  /\ UNCHANGED <<turnStatus, approval, scheduler, up, request, compacting,
                 supervisor, process>>

-----------------------------------------------------------------------------
(* The end of the application and the next start                            *)

\* What is not in the database is lost, and the children die with it.
VolatileLost ==
  /\ up' = FALSE
  /\ Scheduler!Reconstruct
  /\ request' = [t \in Tasks |-> "none"]
  /\ compacting' = {}
  /\ pending' = [h \in Threads |-> None]
  /\ runtime' = [h \in Threads |-> None]
  /\ launch' = [t \in Tasks |-> "none"]
  /\ closing' = {} /\ stopTimer' = {}
  /\ child' = [t \in Tasks |-> "none"]
  /\ stopped' = {}
  /\ post' = [t \in Tasks |-> <<>>]
  /\ mail' = [t \in Tasks |-> <<>>]

ApplicationEnds == up /\ VolatileLost /\ UNCHANGED database

\* The application ends between the writes of finish or finishPending: the
\* turn's status is written, the chat's is not; the approvals may be.
EndsBetweenWrites(t) ==
  /\ up /\ "crash-writes" \in Windows
  /\ IsPending(t) \/ IsCurrent(t)
  /\ turnStatus[t] \in NonTerminal
  /\ \E status \in Terminal : turnStatus' = [turnStatus EXCEPT ![t] = status]
  /\ RejectPendingApprovals(t) \/ UNCHANGED approval
  /\ UNCHANGED threadStatus
  /\ VolatileLost

\* Mutant: recovery leaves the chats alone.
RecoverTurnsOnly ==
  /\ ~up
  /\ up' = TRUE
  /\ turnStatus' = [t \in Tasks |-> IF turnStatus[t] \in NonTerminal
                                    THEN "interrupted" ELSE turnStatus[t]]
  /\ approval' = [t \in Tasks |-> IF approval[t] = "pending" THEN "denied" ELSE approval[t]]
  /\ UNCHANGED <<threadStatus, scheduler, request, compacting, supervisor, process>>

\* recoverInterruptedRuns, before anything else of the next start.
Recover ==
  LET lost == {t \in Tasks : turnStatus[t] \in NonTerminal} IN
  /\ ~up
  /\ up' = TRUE
  /\ turnStatus' = [t \in Tasks |-> IF t \in lost THEN "interrupted" ELSE turnStatus[t]]
  /\ approval' = [t \in Tasks |-> IF t \in lost /\ approval[t] = "pending"
                                  THEN "denied" ELSE approval[t]]
  /\ threadStatus' =
       [h \in Threads |-> IF /\ \E t \in lost : ThreadOf[t] = h
                             /\ threadStatus[h] \in {"running", "awaiting_approval"}
                          THEN "interrupted" ELSE threadStatus[h]]
  /\ UNCHANGED <<scheduler, request, compacting, supervisor, process>>

\* The application ends again during recovery, after the turns were updated.
RecoveryEndsEarly ==
  /\ ~up /\ "crash-writes" \in Windows
  /\ turnStatus' = [t \in Tasks |-> IF turnStatus[t] \in NonTerminal
                                    THEN "interrupted" ELSE turnStatus[t]]
  /\ UNCHANGED <<threadStatus, approval, scheduler, up, request, compacting,
                 supervisor, process>>

-----------------------------------------------------------------------------
TurnStep(t) ==
  \/ Submit(t) \/ CreateTurn(t) \/ Prepare(t) \/ EnqueueTurn(t)
  \/ LaunchBegins(t) \/ LaunchForks(t) \/ SkillIndexFails(t)
  \/ LaunchResolves(t) \/ LaunchTimesOut(t)
  \/ HandleMessage(t) \/ HandleExit(t) \/ StopTimerFires(t)

ProcessStep(t) ==
  \/ ChildReceives(t) \/ ChildRuns(t) \/ ChildRunRejects(t)
  \/ ChildAsks(t) \/ ChildEnds(t) \/ ChildDies(t)

UserStep(h) ==
  \/ StopPending(h) \/ StopActive(h) \/ ResolveApproval(h)
  \/ CompactBegins(h) \/ CompactWrites(h) \/ DeleteThread(h) \/ Continue(h)

Next ==
  \/ \E t \in Tasks : TurnStep(t) \/ ProcessStep(t) \/ EndsBetweenWrites(t)
  \/ \E h \in Threads : UserStep(h)
  \/ ApplicationEnds \/ Recover \/ RecoveryEndsEarly

Spec == Init /\ [][Next]_vars

-----------------------------------------------------------------------------
\* Types: the statuses the database may hold, the maps, the child's states; a
\* chat never takes the statuses only a turn has.
TypeOK ==
  /\ turnStatus \in [Tasks -> {"none", "deleted"} \cup NonTerminal \cup Terminal]
  /\ threadStatus \in [Threads -> {"idle", "running", "awaiting_approval", "failed",
                                   "interrupted", "deleted"}]
  /\ approval \in [Tasks -> {"none", "pending", "allowed", "denied"}]
  /\ Scheduler!TypeOK
  /\ up \in BOOLEAN
  /\ request \in [Tasks -> {"none", "configuration", "baseline", "lease"}]
  /\ compacting \subseteq Threads
  /\ pending \in [Threads -> Tasks \cup {None}]
  /\ runtime \in [Threads -> Tasks \cup {None}]
  /\ launch \in [Tasks -> {"none", "skills", "ready", "settled"}]
  /\ closing \subseteq Tasks /\ stopTimer \subseteq Tasks /\ stopped \subseteq Tasks
  /\ child \in [Tasks -> {"none", "exited", "gone"} \cup Alive]
  /\ \A t \in Tasks : Len(post[t]) <= MaxPost + 1 /\ Len(mail[t]) <= 4

\* A process that may touch a workspace holds its slot and its lease, from the
\* start request to its exit, whatever the supervisor has done with the turn.
WorkersHoldSlots == \A t \in Tasks : child[t] \in Working => t \in active

\* The agents at work at the same time are never more than the capacity, and no
\* two of them have conflicting leases: killed ones still count until they exit.
ExclusiveWorkspace ==
  LET workers == {t \in Tasks : child[t] \in Working} IN
  /\ Cardinality(workers) <= Capacity
  /\ \A t, u \in workers : t # u => ~LeasesConflict(t, u)

\* What the supervisor's maps name, the scheduler knows.
MapsMatchScheduler ==
  \A h \in Threads :
    /\ pending[h] # None => pending[h] \in queue \cup active
    /\ runtime[h] # None => runtime[h] \in active \ closing

\* A live turn can be stopped: the chat's maps lead to it.
LiveTurnIsStoppable ==
  up => \A t \in Tasks :
    turnStatus[t] \in NonTerminal /\ request[t] = "none" => IsPending(t) \/ IsCurrent(t)

\* No slot leaks: a held slot leads back to a turn in the maps, to a launch still
\* to settle, or to a killed process whose exit is still to be seen.
SlotsAreRecoverable ==
  \A t \in active : \/ IsPending(t) \/ IsCurrent(t)
                    \/ LaunchDue(t) \/ launch[t] = "skills"
                    \/ t \in closing /\ child[t] # "gone"

\* Types hold, and the maps of the supervisor, the slots of the scheduler and the
\* processes that work belong to the same turns.
MapsAndSlotsAgree ==
  TypeOK /\ MapsMatchScheduler /\ SlotsAreRecoverable /\ WorkersHoldSlots

\* A turn that is over leaves no approval to be answered: whoever ends it, a
\* Stop, its own end, a crash or the recovery, denies what is pending.
NoStaleApproval ==
  \A t \in Tasks : turnStatus[t] \in Terminal => approval[t] # "pending"

\* A busy chat has a live turn, also after a crash and the recovery.
BusyChatHasLiveTurn ==
  up => \A h \in Threads : threadStatus[h] \in {"running", "awaiting_approval"} =>
    \E t \in Tasks : ThreadOf[t] = h /\ turnStatus[t] \in NonTerminal

\* The chat of a live turn that was prepared is busy, so that it is neither
\* compacted nor deleted.
LiveTurnMakesChatBusy ==
  \A t \in Tasks : turnStatus[t] \in NonTerminal \ {"queued"} =>
    threadStatus[ThreadOf[t]] \in {"running", "awaiting_approval"}

\* The rows of chats, turns and approvals, three tables written one after the other,
\* tell the same at all times, and after every restart.
RowsAgree == BusyChatHasLiveTurn /\ LiveTurnMakesChatBusy /\ NoStaleApproval

\* A turn that was stopped stays cancelled.
StopIsFinal ==
  [][\A t \in Tasks : turnStatus[t] = "cancelled" =>
        turnStatus'[t] \in {"cancelled", "deleted"}]_vars

\* A compaction is written only into an idle chat.
CompactsOnlyIdle ==
  [][\A h \in compacting \ compacting' : up' => threadStatus[h] \in {"idle", "deleted"}]_vars

-----------------------------------------------------------------------------
\* The promise of LeasedTurns is kept when none of the windows is open.
Phase(t) ==
  CASE turnStatus[t] = "none" -> "new"
    [] turnStatus[t] = "deleted" -> "gone"
    [] turnStatus[t] \in Terminal -> "over"
    [] turnStatus[t] \in NonTerminal /\ (request[t] # "none" \/ t \in queue) -> "waiting"
    [] turnStatus[t] \in NonTerminal /\ request[t] = "none" /\ t \in active -> "admitted"
    [] OTHER -> "lost"

Promise == INSTANCE LeasedTurns WITH
  phase <- [t \in Tasks |-> Phase(t)],
  holders <- active,
  workers <- {t \in Tasks : child[t] \in Working}

\* Turns, slots and processes together behave as LeasedTurns says: a turn is
\* admitted only to a lease nobody holds, works only while it holds it, keeps it
\* until its process is gone, and is over for good.
KeepsPromise == Promise!Spec

-----------------------------------------------------------------------------
\* Stop works whatever the child does: the turn ends and its workspace is free.
StopSettles ==
  \A t \in Tasks :
    t \in stopTimer ~> (turnStatus[t] \in Terminal \cup {"deleted"} /\ t \notin active)

\* Every turn ends, the queued ones included.
TurnsSettle ==
  \A t \in Tasks :
    turnStatus[t] \in NonTerminal ~> turnStatus[t] \in Terminal \cup {"deleted"}
=============================================================================
