----------------------------- MODULE MCTwoChats -----------------------------
(* One chat with two turns, which keeps the promise of LeasedTurns; and, in          *)
(* behaviours of its own, two chats on one workspace with a turn each.               *)
EXTENDS MCTaskSupervisor

VARIABLES
  which,  \* the module whose behaviour this is; it never changes
  pair_turnStatus, pair_threadStatus, pair_approval, pair_queue, pair_ahead,
  pair_active, pair_starting, pair_up, pair_request, pair_compacting, pair_pending,
  pair_runtime, pair_launch, pair_closing, pair_stopTimer, pair_child, pair_stopped,
  pair_post, pair_mail

pair_vars == <<
  pair_turnStatus, pair_threadStatus, pair_approval, pair_queue, pair_ahead,
  pair_active, pair_starting, pair_up, pair_request, pair_compacting, pair_pending,
  pair_runtime, pair_launch, pair_closing, pair_stopTimer, pair_child, pair_stopped,
  pair_post, pair_mail>>

Pair == INSTANCE TaskSupervisor WITH
  Tasks <- MCPair, Threads <- MCThreads, ThreadOf <- MCPairThreadOf,
  Lease <- MCWriters, Capacity <- 2, Windows <- {"stop-launching"},
  turnStatus <- pair_turnStatus, threadStatus <- pair_threadStatus,
  approval <- pair_approval, queue <- pair_queue, ahead <- pair_ahead,
  active <- pair_active, starting <- pair_starting, up <- pair_up,
  request <- pair_request, compacting <- pair_compacting, pending <- pair_pending,
  runtime <- pair_runtime, launch <- pair_launch, closing <- pair_closing,
  stopTimer <- pair_stopTimer, child <- pair_child, stopped <- pair_stopped,
  post <- pair_post, mail <- pair_mail

\* The variables of the module are its own, and those of another rest.
MCInit ==
  /\ which \in {"chat", "pair"}
  /\ Init
  /\ Pair!Init

MCNext ==
  /\ UNCHANGED which
  /\ \/ /\ which = "chat" /\ Next
        /\ UNCHANGED <<pair_vars>>
     \/ /\ which = "pair" /\ Pair!Next
        /\ UNCHANGED <<vars>>

MCVars == <<which, vars, pair_vars>>
MCSpec == MCInit /\ [][MCNext]_MCVars

\* Timers fire, awaits end, messages and exits are delivered, a killed process dies,
\* and the application is started again.
SupervisorFairness ==
  /\ WF_pair_vars(Pair!Recover)
  /\ \A t \in MCPair :
       /\ WF_pair_vars(Pair!LaunchBegins(t))
       /\ WF_pair_vars(Pair!LaunchForks(t) \/ Pair!SkillIndexFails(t))
       /\ WF_pair_vars(Pair!LaunchResolves(t) \/ Pair!LaunchTimesOut(t))
       /\ WF_pair_vars(Pair!HandleMessage(t))
       /\ WF_pair_vars(Pair!HandleExit(t))
       /\ WF_pair_vars(Pair!StopTimerFires(t))
       /\ WF_pair_vars(t \in pair_closing /\ Pair!ChildDies(t))

\* Moreover awaits of a submission end, agents come to an end and users answer.
AgentsEnd ==
  /\ \A t \in MCPair :
       /\ WF_pair_vars(Pair!CreateTurn(t)) /\ WF_pair_vars(Pair!Prepare(t))
       /\ WF_pair_vars(Pair!EnqueueTurn(t)) /\ WF_pair_vars(Pair!ChildReceives(t))
       /\ WF_pair_vars(Pair!ChildRuns(t)) /\ WF_pair_vars(Pair!ChildEnds(t))
  /\ \A h \in MCThreads : WF_pair_vars(Pair!ResolveApproval(h))

\* Where the two chats rest, nothing of them is ever enabled that is fair.
MCFairSpec == MCSpec /\ SupervisorFairness /\ AgentsEnd

-----------------------------------------------------------------------------
\* Every turn of the two chats ends, also the one that waits for the other's lease.
PairSettles == Pair!TurnsSettle
=============================================================================
