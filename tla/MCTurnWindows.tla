---------------------------- MODULE MCTurnWindows ----------------------------
(* The scheduler by itself, with more tasks and leases than chats give it; and, in *)
(* behaviours of its own, two turns of one chat with one worker and every window   *)
(* open.                                                                           *)
EXTENDS RuntimeScheduler

CONSTANTS w1, w2, w3, r1, r2, r3, t1, t2, chat1, None

VARIABLES
  which,  \* the module whose behaviour this is; it never changes
  turns_turnStatus, turns_threadStatus, turns_approval, turns_queue, turns_ahead,
  turns_active, turns_starting, turns_up, turns_request, turns_compacting,
  turns_pending, turns_runtime, turns_launch, turns_closing, turns_stopTimer,
  turns_child, turns_stopped, turns_post, turns_mail

turns_vars == <<
  turns_turnStatus, turns_threadStatus, turns_approval, turns_queue, turns_ahead,
  turns_active, turns_starting, turns_up, turns_request, turns_compacting,
  turns_pending, turns_runtime, turns_launch, turns_closing, turns_stopTimer,
  turns_child, turns_stopped, turns_post, turns_mail>>

LeaseOf(workspace, git, mode) ==
  [workspace |-> workspace, gitCommonDirectory |-> git, mode |-> mode]

\* w1 writes and r1 reads one worktree of a repository, w2 writes and r3 reads
\* another; w3 writes, and r2 reads, a directory outside Git.  Two readers can
\* starve a writer between them.
MCTasks == {w1, w2, w3, r1, r2, r3}
MCLease ==
  [t \in MCTasks |->
     CASE t = w1 -> LeaseOf("a", "repo", "write")
       [] t = r1 -> LeaseOf("a", "repo", "read")
       [] t = w2 -> LeaseOf("b", "repo", "write")
       [] t = r3 -> LeaseOf("b", "repo", "read")
       [] t = w3 -> LeaseOf("c", NoGit, "write")
       [] t = r2 -> LeaseOf("c", NoGit, "read")]

MCTurns == {t1, t2}
MCWindows == {"stop-launching", "crash-writes", "compaction", "delete-early", "run-rejects"}

Turns == INSTANCE TaskSupervisor WITH
  Tasks <- MCTurns, Threads <- {chat1}, ThreadOf <- [t \in MCTurns |-> chat1],
  Lease <- [t \in MCTurns |-> LeaseOf("a", "repo", "write")], Capacity <- 1,
  MaxQueued <- 2, MaxPost <- 2, Windows <- MCWindows, turnStatus <- turns_turnStatus,
  threadStatus <- turns_threadStatus, approval <- turns_approval, queue <- turns_queue,
  ahead <- turns_ahead, active <- turns_active, starting <- turns_starting, up <- turns_up,
  request <- turns_request, compacting <- turns_compacting, pending <- turns_pending,
  runtime <- turns_runtime, launch <- turns_launch, closing <- turns_closing,
  stopTimer <- turns_stopTimer, child <- turns_child, stopped <- turns_stopped,
  post <- turns_post, mail <- turns_mail

\* The variables of the module are its own, and those of another rest.
MCInit ==
  /\ which \in {"scheduler", "turns"}
  /\ Init
  /\ Turns!Init

MCNext ==
  /\ UNCHANGED which
  /\ \/ /\ which = "scheduler" /\ Next
        /\ UNCHANGED turns_vars
     \/ /\ which = "turns" /\ Turns!Next
        /\ UNCHANGED schedVars

MCVars == <<which, schedVars, turns_vars>>
MCSpec == MCInit /\ [][MCNext]_MCVars

\* What a stop needs of the fairness of the turns: the timer, the exit of what was
\* killed, and the next start of the application.  Where the turns rest, nothing of
\* them is enabled that is fair.
MCFairSpec ==
  /\ MCSpec
  /\ WF_turns_vars(Turns!Recover)
  /\ \A t \in MCTurns :
       /\ WF_turns_vars(Turns!HandleExit(t))
       /\ WF_turns_vars(Turns!StopTimerFires(t))
       /\ WF_turns_vars(t \in turns_closing /\ Turns!ChildDies(t))

-----------------------------------------------------------------------------
\* Maps, slots and processes belong to the same turns, whatever comes in between.
MapsAndSlotsAgree == Turns!MapsAndSlotsAgree

\* Stop works whatever the child does: the turn ends and its workspace is free.
StopSettles == Turns!StopSettles
=============================================================================
