------------------------------ MODULE Delegation ------------------------------
(***************************************************************************)
(* Delegated chats: TaskService.executeDelegation and startDelegated in    *)
(* src/main/task-service.ts, for the tools of src/runtime/tools.ts, among  *)
(* what the user does meanwhile to the same chats: start, archive, delete, *)
(* fork and continue them.  A chat is started in steps, with the           *)
(* configuration and the Git baseline awaited in between; the run itself   *)
(* is modelled by TaskSupervisor.                                          *)
(***************************************************************************)
EXTENDS Naturals, FiniteSets

CONSTANTS None,
          MaxChildren,  \* 3
          MaxChats,     \* bound: chats ever made
          MaxTurns      \* bound: turns ever started

VARIABLES
  threads,   \* the rows of threads, by the order they were made in
  starting,  \* TaskService.startingThreadIds: where the start of each of them is
  live,      \* chats whose turn the supervisor has, active or pending
  turns,     \* turns ever started
  line       \* history: who made each chat, and from which, whether or not the row still says so

vars == <<threads, starting, live, turns, line>>

Made == DOMAIN threads
There == {t \in Made : threads[t].there}

Thread(parent, fork, may) ==
  [there |-> TRUE, parent |-> parent, fork |-> fork, mayDelegate |-> may,
   archived |-> FALSE, status |-> "idle", done |-> FALSE]

Init ==
  /\ threads = <<Thread(None, FALSE, TRUE)>>
  /\ starting = <<None>> /\ live = {} /\ turns = 0
  /\ line = <<[by |-> "user", from |-> None]>>

Starting(t) == starting[t] # None
Stage(t, at) == starting' = [starting EXCEPT ![t] = at]
Status(t, s) == threads' = [threads EXCEPT ![t].status = s]

\* createThread.
New(thread, by, from, at) ==
  /\ Cardinality(Made) < MaxChats
  /\ LET t == Cardinality(Made) + 1
     IN  /\ threads' = [i \in 1..t |-> IF i = t THEN thread ELSE threads[i]]
         /\ starting' = [i \in 1..t |-> IF i = t THEN at ELSE starting[i]]
         /\ line' = [i \in 1..t |-> IF i = t THEN [by |-> by, from |-> from] ELSE line[i]]

-----------------------------------------------------------------------------
(* A start, in its steps. *)
Begin(by, asker) == [at |-> "configuring", by |-> by, asker |-> asker]

\* start: not twice, and startParsed: the chat is there, and needs no continuation.
MayStart(t) ==
  /\ ~Starting(t) /\ t \notin live
  /\ t \in There /\ threads[t].status # "interrupted"
  /\ turns < MaxTurns

\* What a failed start does to the chat; that of a new child takes the chat with it.
Fails(t) ==
  /\ Stage(t, None)
  /\ threads' = IF starting[t].by = "delegate" /\ t \in There
                THEN [threads EXCEPT ![t].there = FALSE,
                                     ![t].parent = None]
                ELSE threads

\* The configuration has come: createTurn, of a chat that is still there.
Configured(t) ==
  /\ Starting(t) /\ starting[t].at = "configuring"
  /\ \/ t \in There /\ Stage(t, [starting[t] EXCEPT !.at = "baseline"]) /\ UNCHANGED threads
     \/ Fails(t)
  /\ UNCHANGED <<live, turns, line>>

\* Mutant: the row is not looked up.
NotLookedUp(t) == TRUE

\* updateTurnStatus throws when the turn went with its chat.
StillThere(t) == t \in There

\* The baseline is captured, the chat is running, and the supervisor takes the turn.
Taken(t) ==
  /\ Starting(t) /\ starting[t].at = "baseline"
  /\ \/ /\ StillThere(t)
        /\ Stage(t, None) /\ Status(t, "running") /\ live' = live \cup {t}
     \/ Fails(t) /\ UNCHANGED live
  /\ UNCHANGED <<turns, line>>

\* The turn ends, by itself or stopped: finish.
TurnEnds(t) ==
  /\ t \in live
  /\ live' = live \ {t}
  /\ \/ threads' = [threads EXCEPT ![t].status = "idle", ![t].done = TRUE]
     \/ Status(t, "interrupted")
  /\ starting' = [c \in Made |-> IF Starting(c) /\ starting[c].asker = t
                                 THEN [starting[c] EXCEPT !.asker = None] ELSE starting[c]]
  /\ UNCHANGED <<turns, line>>

-----------------------------------------------------------------------------
(* What a turn of t asks for, each approved by the user. *)
\* A turn asks for one thing at a time, and waits for it.
Asks(t) == t \in live /\ \A c \in Made : Starting(c) => starting[c].asker # t

\* delegationContext.
Context(t) == t \in There /\ threads[t].mayDelegate

\* ownedDelegatedChildren, of the chats that listThreads gives.
OwnedChildren(t) ==
  {c \in There : threads[c].parent = t /\ ~threads[c].fork /\ ~threads[c].archived}

\* Mutant: inheritedPolicySnapshot without disableDelegation.
InheritedAsIs(t) == threads[t].mayDelegate

InheritedMayDelegate(t) == FALSE

\* startDelegated: a child of its own cannot delegate, and there are not too many; the
\* child is made and its start begins before anything else can happen.
StartDelegated(t) ==
  /\ Asks(t) /\ Context(t)
  /\ threads[t].parent = None \/ threads[t].fork
  /\ Cardinality(OwnedChildren(t)) < MaxChildren
  /\ turns < MaxTurns /\ turns' = turns + 1
  /\ New(Thread(t, FALSE, InheritedMayDelegate(t)), "delegate", t, Begin("delegate", t))
  /\ UNCHANGED <<live>>

\* ownedDelegatedChild.
Owned(t, c) == c \in There /\ threads[c].parent = t /\ ~threads[c].fork

\* delegation.message to a child at rest: it is continued and started; one that runs is
\* given a follow-up.
Message(t, c) ==
  /\ Asks(t) /\ Context(t) /\ Owned(t, c)
  /\ c \notin live /\ turns < MaxTurns
  /\ Status(c, "idle")
  /\ IF Starting(c) THEN UNCHANGED <<starting, turns>>
     ELSE Stage(c, Begin("message", t)) /\ turns' = turns + 1
  /\ UNCHANGED <<live, line>>

\* delegation.cancel of a child that runs.
Cancel(t, c) ==
  /\ Asks(t) /\ Context(t) /\ Owned(t, c) /\ c \in live
  /\ live' = live \ {c} /\ Status(c, "idle")
  /\ UNCHANGED <<starting, turns, line>>

-----------------------------------------------------------------------------
(* The user, for whom the supervisor has no turn that is only being started. *)
UserStarts(t) ==
  /\ MayStart(t) /\ ~threads[t].archived
  /\ Stage(t, Begin("user", None)) /\ turns' = turns + 1
  /\ UNCHANGED <<threads, live, line>>

Continue(t) ==
  /\ t \in There \ live /\ threads[t].status = "interrupted"
  /\ Status(t, "idle")
  /\ UNCHANGED <<starting, live, turns, line>>

\* archiveThread asks for nothing.
Archive(t) ==
  /\ t \in There /\ ~threads[t].archived
  /\ threads' = [threads EXCEPT ![t].archived = TRUE]
  /\ UNCHANGED <<starting, live, turns, line>>

\* threads.delete, deleteThread: its children and forks have no parent then.
Delete(t) ==
  /\ t \in There \ live /\ threads[t].status # "running"
  /\ threads' = [i \in Made |->
       IF i = t THEN [threads[i] EXCEPT !.there = FALSE, !.parent = None]
       ELSE IF threads[i].parent = t THEN [threads[i] EXCEPT !.parent = None, !.fork = FALSE]
       ELSE threads[i]]
  /\ UNCHANGED <<starting, live, turns, line>>

\* sessions.fork, at a checkpoint of a turn that was completed.
Fork(t) ==
  /\ t \in There /\ threads[t].done
  /\ New(Thread(t, TRUE, threads[t].mayDelegate), "fork", t, None)
  /\ UNCHANGED <<live, turns>>

-----------------------------------------------------------------------------
\* The application ends, and recovers: what ran is interrupted.
Restart ==
  /\ live # {} \/ \E t \in Made : Starting(t)
  /\ threads' = [t \in Made |->
       IF t \in live THEN [threads[t] EXCEPT !.status = "interrupted"] ELSE threads[t]]
  /\ starting' = [t \in Made |-> None] /\ live' = {}
  /\ UNCHANGED <<turns, line>>

Next ==
  \/ \E t \in Made :
       \/ Configured(t) \/ Taken(t) \/ TurnEnds(t)
       \/ StartDelegated(t)
       \/ (\E c \in Made : Message(t, c) \/ Cancel(t, c))
       \/ UserStarts(t) \/ Continue(t) \/ Archive(t) \/ Delete(t) \/ Fork(t)
  \/ Restart

Spec == Init /\ [][Next]_vars

-----------------------------------------------------------------------------
(* Properties. *)
\* Delegation is one level deep: no chat that was delegated, and no fork of one, ever has a
\* child of its own, also when the deletion of its parent, or the fork, has taken the mark
\* from its row by which startDelegated knows it.  (task-service.ts 390-404.)
ChildrenNeverDelegate ==
  LET delegated[t \in Made] ==
        line[t].by = "delegate" \/ (line[t].by = "fork" /\ delegated[line[t].from])
  IN  \A c \in Made : line[c].by = "delegate" => ~delegated[line[c].from]

\* The supervisor never has a turn of a chat that is gone: threads.delete asks only the
\* supervisor and the status of the row, neither of which knows of a start that waits for
\* the configuration or the baseline.  (ipc.ts 313-316, task-service.ts 60-101.)
LiveTurnHasItsChat == live \subseteq There
===============================================================================
