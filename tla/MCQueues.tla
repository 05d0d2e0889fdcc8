------------------------------ MODULE MCQueues ------------------------------
(* Whoever waits and whatever is waited for, each in behaviours of its own: the      *)
(* operations of two turns, one after the other on the one workspace; tasks for their *)
(* leases; the loop that admits them; a request to the router; and the commands of a  *)
(* process.                                                                           *)
EXTENDS StructuredOperations, TLC

CONSTANTS t1, t2, o1, o2, o3, w1, w2, w3, r1, r2, r3, NoGit,
          LoopTasks, LoopLease, LoopCapacity, LoopQueued,  \* of the loop: as in RuntimeLeases
          Commands, KeyOf                                  \* as in CommandRun

ASSUME LoopAssumption ==
  IsFiniteSet(LoopTasks) /\ LoopCapacity \in 1..4 /\ LoopQueued \in Nat
ASSUME CommandsAssumption == None \notin Commands

VARIABLES
  which,  \* the module whose behaviour this is; it never changes
  sched_queue, sched_ahead, sched_active, sched_starting,
  loop_q0, loop_a0, loop_q, loop_a, loop_started, loop_index, loop_pc,
  router_stage, router_attempt, router_proofs, router_reply, router_runs, router_arrived,
  router_calls, router_consumed, router_message, router_result, router_aborted,
  cmd_stage, cmd_current, cmd_aborted, cmd_heard, cmd_timer, cmd_group, cmd_deaf, cmd_holds,
  cmd_signal, cmd_flags, cmd_initialized, cmd_configured, cmd_within

sched_vars == <<
  sched_queue, sched_ahead, sched_active, sched_starting>>
loop_vars == <<
  loop_q0, loop_a0, loop_q, loop_a, loop_started, loop_index, loop_pc>>
router_vars == <<
  router_stage, router_attempt, router_proofs, router_reply, router_runs, router_arrived,
  router_calls, router_consumed, router_message, router_result, router_aborted>>
cmd_vars == <<
  cmd_stage, cmd_current, cmd_aborted, cmd_heard, cmd_timer, cmd_group, cmd_deaf, cmd_holds,
  cmd_signal, cmd_flags, cmd_initialized, cmd_configured, cmd_within>>

\* The first turn has two operations and the second one.
MCTurnOf == o1 :> t1 @@ o2 :> t1 @@ o3 :> t2

LeaseOf(workspace, git, mode) ==
  [workspace |-> workspace, gitCommonDirectory |-> git, mode |-> mode]

\* w1 writes and r1 reads one worktree of a repository, w2 writes and r3 reads
\* another; w3 writes, and r2 reads, a directory outside Git.  Two readers can
\* starve a writer between them.
MCTasks == {w1, w2, w3, r1, r2, r3}
MCLease ==
  [t \in MCTasks |->
     CASE t = w1 -> LeaseOf("a", "repo", "write")
       [] t = r1 -> LeaseOf("a", "repo", "read")
       [] t = w2 -> LeaseOf("b", "repo", "write")
       [] t = r3 -> LeaseOf("b", "repo", "read")
       [] t = w3 -> LeaseOf("c", NoGit, "write")
       [] t = r2 -> LeaseOf("c", NoGit, "read")]

\* For the loop w3 is alone, and the others contend for one directory.
MCLoopTasks == {w1, w2, w3, r1, r2}
MCLoopLease ==
  [t \in MCLoopTasks |->
     LeaseOf(IF t = w3 THEN "b" ELSE "a", NoGit, IF t \in {r1, r2} THEN "read" ELSE "write")]

\* The command between the others runs in the Git mirror.
MCCommands == {"c1", "c2", "c3"}
MCKeyOf == [c \in MCCommands |-> IF c = "c2" THEN "mirror" ELSE "workspace"]

Scheduling == INSTANCE RuntimeScheduler WITH
  Tasks <- MCTasks, Lease <- MCLease, Capacity <- 2, MaxQueued <- 3, queue <- sched_queue,
  ahead <- sched_ahead, active <- sched_active, starting <- sched_starting

Loop == INSTANCE DrainLoop WITH
  Tasks <- LoopTasks, Lease <- LoopLease, Capacity <- LoopCapacity,
  MaxQueued <- LoopQueued, q0 <- loop_q0, a0 <- loop_a0, q <- loop_q, a <- loop_a, started <- loop_started, index <- loop_index,
  pc <- loop_pc

Router == INSTANCE RouterStream WITH
  MaxLines <- 3, CallLimit <- 1, stage <- router_stage, attempt <- router_attempt,
  proofs <- router_proofs, reply <- router_reply, runs <- router_runs,
  arrived <- router_arrived, calls <- router_calls, consumed <- router_consumed,
  message <- router_message, result <- router_result, aborted <- router_aborted

Running == INSTANCE CommandRun WITH
  stage <- cmd_stage, current <- cmd_current,
  aborted <- cmd_aborted, heard <- cmd_heard, timer <- cmd_timer, group <- cmd_group,
  deaf <- cmd_deaf, holds <- cmd_holds, signal <- cmd_signal, flags <- cmd_flags,
  initialized <- cmd_initialized, configured <- cmd_configured, within <- cmd_within

\* The variables of the module are its own, and those of another rest.
LoopBegins ==
  IF which = "loop" THEN Loop!Init
  ELSE /\ loop_q0 = 0
       /\ loop_a0 = 0
       /\ loop_q = 0
       /\ loop_a = 0
       /\ loop_started = 0
       /\ loop_index = 0
       /\ loop_pc = 0

MCInit ==
  /\ which \in {"operations", "scheduler", "loop", "router", "commands"}
  /\ Init
  /\ Scheduling!Init
  /\ LoopBegins
  /\ Router!Init
  /\ Running!Init

MCNext ==
  /\ UNCHANGED which
  /\ \/ /\ which = "operations" /\ Next
        /\ UNCHANGED <<sched_vars, loop_vars, router_vars, cmd_vars>>
     \/ /\ which = "scheduler" /\ Scheduling!Next
        /\ UNCHANGED <<vars, loop_vars, router_vars, cmd_vars>>
     \/ /\ which = "loop" /\ Loop!Next
        /\ UNCHANGED <<vars, sched_vars, router_vars, cmd_vars>>
     \/ /\ which = "router" /\ (Router!Next \/ Router!Done)
        /\ UNCHANGED <<vars, sched_vars, loop_vars, cmd_vars>>
     \/ /\ which = "commands" /\ Running!Next
        /\ UNCHANGED <<vars, sched_vars, loop_vars, router_vars>>

MCVars == <<which, vars, sched_vars, loop_vars, router_vars, cmd_vars>>
MCSpec == MCInit /\ [][MCNext]_MCVars

\* Each has its own fairness in its own behaviours.
MCFairSpec ==
  /\ MCSpec
  /\ \A o \in Operations : WF_vars(which = "operations" /\ (Starts(o) \/ Settles(o)))
  /\ \A t \in MCTasks : WF_sched_vars(which = "scheduler" /\ Scheduling!Release(t))
  /\ WF_router_vars(which = "router" /\ Router!Fits)
  /\ WF_router_vars(which = "router" /\ Router!Pass)
  /\ WF_router_vars(which = "router" /\ Router!Barred)
  /\ WF_router_vars(which = "router" /\ Router!Send)
  /\ WF_router_vars(which = "router" /\ Router!AuthorizeFails)
  /\ WF_router_vars(which = "router" /\ Router!HeadersLate)
  /\ WF_router_vars(which = "router" /\ Router!Compacted)
  /\ WF_router_vars(which = "router" /\ Router!CompactionThrows)
  /\ WF_router_vars(which = "router" /\ Router!BodyLate)
  /\ \A c \in Commands :
       /\ WF_cmd_vars(which = "commands" /\ Running!Step(c))
       /\ WF_cmd_vars(which = "commands" /\ Running!Timeout(c))
  /\ \A p \in {"leader", "child"} : WF_cmd_vars(which = "commands" /\ Running!Dies(p))
  /\ WF_cmd_vars(which = "commands" /\ Running!KillTimer)

-----------------------------------------------------------------------------
\* Every queued task leaves the queue, however many come after it.
EveryQueuedTaskLeaves == Scheduling!EveryQueuedTaskLeaves

\* The loop of drain() admits what Drains says, by which the scheduler is modelled,
\* and its array keeps its type on the way.
LoopComputesDrain ==
  which = "loop" => Loop!TypeOK /\ Loop!LoopComputesDrain /\ Loop!LoopKeepsLeases

\* However a request fails, is challenged or is tried again, the router runs the model
\* for it at most once; and a message the agent loop takes for complete is the whole
\* answer.
AnswerIsWhole == Router!NeverReplayed /\ Router!AnswerIsWhole

\* Every request ends, whatever the router does.
RequestEnds == which = "router" ~> Router!RequestOver

\* A command runs under the rules made for its own workspace and its access to it.
RunsInItsSandbox == Running!RunsInItsSandbox

\* Whoever waits for a command gets an answer.
CommandsEnd == Running!CommandsEnd
=============================================================================
