------------------------- MODULE StructuredOperations -------------------------
(***************************************************************************)
(* One structured operation from its approval to its effect: the approval  *)
(* row of AppDatabase, TaskService.resolveApproval, RuntimeSupervisor's    *)
(* handleOperationRequest and the OperationBroker.                         *)
(* src/main/database.ts, task-service.ts, runtime-supervisor.ts,           *)
(* operation-broker.ts, src/runtime/operation-manifest.ts                  *)
(*                                                                         *)
(* Of a turn only what the broker depends on is kept (TaskSupervisor has   *)
(* the rest): it is current, or finished with its process still to exit    *)
(* and its lease held, or gone.  One worker: a turn becomes current when   *)
(* no other holds the workspace.                                           *)
(***************************************************************************)
EXTENDS Integers, FiniteSets

CONSTANTS Turns,
          Operations,
          TurnOf,       \* the turn whose manifest it is
          Serialized,   \* operations that go through serializeProcess
          None

ASSUME OperationsAssumption ==
  TurnOf \in [Operations -> Turns] /\ Serialized \subseteq Operations /\ None \notin Operations

VARIABLES
  turn,         \* "new", "current", "closing" or "gone"
  decision,     \* of the approval row; "none" without a row, "null" undecided
  expired,      \* operations whose expiresAt has passed
  consumed,     \* operations with consumed_at set
  stage,        \* where execute() of the operation is
  aborted,      \* operations whose controller's signal is aborted
  heeds,        \* executing operations that an abort can still end
  processTail,  \* the operation whose promise is this.processTail
  previous,     \* the one each serialized operation awaits
  place,        \* history: place in the chain of promises, 0 without one
  runs          \* history: how often the operation was started

row == <<decision, expired, consumed>>
chain == <<processTail, previous, place>>
broker == <<stage, aborted, heeds, chain, runs>>
vars == <<turn, row, broker>>

\* operationControllers: an entry goes when the operation settles or is aborted.
InFlight(o) == stage[o] \in {"waiting", "executing"}
Controllers(t) == {o \in Operations \ aborted : TurnOf[o] = t /\ InFlight(o)}

\* The turn's process is alive: it has the slot and the workspace lease.
Holds(t) == turn[t] \in {"current", "closing"}

Init ==
  /\ turn = [t \in Turns |-> "new"]
  /\ decision = [o \in Operations |-> "none"]
  /\ expired = {} /\ consumed = {}
  /\ stage = [o \in Operations |-> "none"]
  /\ aborted = {} /\ heeds = {}
  /\ processTail = None
  /\ previous = [o \in Operations |-> None]
  /\ place = [o \in Operations |-> 0]
  /\ runs = [o \in Operations |-> 0]

-----------------------------------------------------------------------------
(* The turn                                                                 *)

TurnBegins(t) ==
  /\ turn[t] = "new" /\ \A u \in Turns : ~Holds(u)
  /\ turn' = [turn EXCEPT ![t] = "current"]
  /\ UNCHANGED <<row, broker>>

\* Mutant: finish aborts the controllers and leaves the approvals.
TurnFinishesOnlyAborting(t) ==
  /\ turn[t] = "current"
  /\ turn' = [turn EXCEPT ![t] = "closing"]
  /\ aborted' = aborted \cup Controllers(t)
  /\ stage' = [o \in Operations |->
                 IF o \in Controllers(t) \cap heeds THEN "settled" ELSE stage[o]]
  /\ heeds' = heeds \ Controllers(t)
  /\ UNCHANGED <<row, chain, runs>>

\* finish: pending approvals are denied, the controllers aborted.  A process
\* that is listening to its signal is terminated.
TurnFinishes(t) ==
  /\ turn[t] = "current"
  /\ turn' = [turn EXCEPT ![t] = "closing"]
  /\ decision' = [o \in Operations |-> IF TurnOf[o] = t /\ decision[o] = "null"
                                       THEN "deny" ELSE decision[o]]
  /\ aborted' = aborted \cup Controllers(t)
  /\ stage' = [o \in Operations |->
                 IF o \in Controllers(t) \cap heeds THEN "settled" ELSE stage[o]]
  /\ heeds' = heeds \ Controllers(t)
  /\ UNCHANGED <<expired, consumed, chain, runs>>

\* Its process has exited: the scheduler gets the slot and the lease back.
TurnIsGone(t) ==
  /\ turn[t] = "closing"
  /\ turn' = [turn EXCEPT ![t] = "gone"]
  /\ UNCHANGED <<row, broker>>

-----------------------------------------------------------------------------
(* The approval                                                             *)

\* approval.request of the current runtime: createApproval.
Ask(o) ==
  /\ turn[TurnOf[o]] = "current" /\ decision[o] = "none"
  /\ decision' = [decision EXCEPT ![o] = "null"]
  /\ UNCHANGED <<turn, expired, consumed, broker>>

ExpiryPasses(o) ==
  /\ decision[o] # "none" /\ o \notin expired
  /\ expired' = expired \cup {o}
  /\ UNCHANGED <<turn, decision, consumed, broker>>

\* resolveApproval, of an undecided approval of the current turn: an operation
\* is never allowed for the whole chat, and after its expiry only denied.
Resolve(o) ==
  /\ turn[TurnOf[o]] = "current" /\ decision[o] = "null"
  /\ \E d \in IF o \in expired THEN {"deny"} ELSE {"deny", "allow-once"} :
       decision' = [decision EXCEPT ![o] = d]
  /\ UNCHANGED <<turn, expired, consumed, broker>>

-----------------------------------------------------------------------------
(* The broker                                                               *)

\* Mutant: consumed_at is not looked at.
ConsumableAgain(o) == decision[o] = "allow-once" /\ o \notin expired

\* consumeOperationApproval succeeds.
Consumable(o) ==
  /\ decision[o] = "allow-once"
  /\ o \notin expired
  /\ o \notin consumed

ChainLength == IF processTail = None THEN 0 ELSE place[processTail]

\* Mutant: the tail is not replaced by the operation's own promise.
ChainedKeepingTail(o) ==
  /\ previous' = [previous EXCEPT ![o] = processTail]
  /\ place' = [place EXCEPT ![o] = ChainLength + 1]
  /\ UNCHANGED processTail

\* serializeProcess: the operation awaits the tail and becomes the tail.
Chained(o) ==
  /\ previous' = [previous EXCEPT ![o] = processTail]
  /\ place' = [place EXCEPT ![o] = ChainLength + 1]
  /\ processTail' = o

\* handleOperationRequest, whenever and however often the runtime sends it:
\* the approval is consumed and the operation handed to the broker, where a
\* serialized one joins the chain.  Any other request is answered with a
\* failure and changes nothing.
Accept(o) ==
  /\ turn[TurnOf[o]] = "current"
  /\ Cardinality(Controllers(TurnOf[o])) < 2
  /\ Consumable(o)
  /\ consumed' = consumed \cup {o}
  /\ stage' = [stage EXCEPT ![o] = "waiting"]
  /\ IF o \in Serialized THEN Chained(o) ELSE UNCHANGED chain
  /\ UNCHANGED <<turn, decision, expired, aborted, heeds, runs>>

\* Mutant: the tail is released only by an operation that ran.
TurnedIfRun(o) ==
  previous[o] \in {None} \cup {p \in Operations : stage[p] = "settled" /\ runs[p] > 0}

\* await previous
Turned(o) == previous[o] \in {None} \cup {p \in Operations : stage[p] = "settled"}

\* The manifest is checked again, its expiry included, and a few awaits later
\* the process is spawned or the file touched: a signal that is already aborted
\* stops nothing, and some operations, like dependency.apply, are given none.
Starts(o) ==
  /\ stage[o] = "waiting" /\ Turned(o)
  /\ o \notin expired
  /\ stage' = [stage EXCEPT ![o] = "executing"]
  /\ runs' = [runs EXCEPT ![o] = @ + 1]
  /\ \/ heeds' = heeds
     \/ o \notin aborted /\ heeds' = heeds \cup {o}
  /\ UNCHANGED <<turn, row, aborted, chain>>

\* The check fails, or the operation ends; either way the next one's turn comes.
Settles(o) ==
  /\ \/ stage[o] = "executing"
     \/ stage[o] = "waiting" /\ Turned(o)
  /\ stage' = [stage EXCEPT ![o] = "settled"]
  /\ heeds' = heeds \ {o}
  /\ UNCHANGED <<turn, row, aborted, chain, runs>>

\* The agent gives the request up after 15 minutes, or its tool call is aborted.
CancelledByRuntime(o) ==
  /\ turn[TurnOf[o]] = "current" /\ InFlight(o) /\ o \notin aborted
  /\ aborted' = aborted \cup {o}
  /\ stage' = IF o \in heeds THEN [stage EXCEPT ![o] = "settled"] ELSE stage
  /\ heeds' = heeds \ {o}
  /\ UNCHANGED <<turn, row, chain, runs>>

Next ==
  \/ \E t \in Turns : TurnBegins(t) \/ TurnFinishes(t) \/ TurnIsGone(t)
  \/ \E o \in Operations :
       \/ Ask(o) \/ ExpiryPasses(o) \/ Resolve(o)
       \/ Accept(o) \/ Starts(o) \/ Settles(o) \/ CancelledByRuntime(o)

Spec == Init /\ [][Next]_vars

-----------------------------------------------------------------------------
\* Types: every variable of the row and of the broker in its range.
TypeOK ==
  /\ turn \in [Turns -> {"new", "current", "closing", "gone"}]
  /\ decision \in [Operations -> {"none", "null", "deny", "allow-once"}]
  /\ expired \subseteq Operations /\ consumed \subseteq Operations
  /\ stage \in [Operations -> {"none", "waiting", "executing", "settled"}]
  /\ aborted \subseteq Operations /\ heeds \subseteq Operations
  /\ processTail \in Operations \cup {None}
  /\ previous \in [Operations -> Operations \cup {None}]
  /\ place \in [Operations -> Nat]
  /\ runs \in [Operations -> Nat]

\* What the user allows once happens at most once, and nothing else happens:
\* however often the runtime sends the request, whenever the turn is stopped or
\* the approval expires, an operation that was started was allowed, is recorded
\* as consumed, and was started only this once.
AllowedOnce ==
  \A o \in Operations :
    /\ runs[o] <= 1
    /\ runs[o] > 0 => decision[o] = "allow-once" /\ o \in consumed

\* serializeProcess: commands, scripts, installs and Git operations never run
\* side by side, whichever turns they belong to and whichever of them fail.
ProcessesSerialized ==
  \A o, p \in Serialized : stage[o] = "executing" /\ stage[p] = "executing" => o = p

\* Nor do they overtake each other: what joined the chain earlier has settled
\* before a later one is started.
ProcessesInOrder ==
  \A o, p \in Serialized :
    0 < place[o] /\ place[o] < place[p] /\ stage[p] \in {"executing", "settled"} =>
      stage[o] = "settled"

\* Once its turn is over no approval can still be answered, so that nothing can
\* be allowed for a turn that no longer waits for it.
NoneToAnswerAfterTurn ==
  \A o \in Operations : turn[TurnOf[o]] \in {"closing", "gone"} => decision[o] # "null"

\* The workspace lease covers the operations made for its holder: none is
\* executing when another turn has the workspace.
LeaseCoversOperation ==
  \A o \in Operations, t \in Turns :
    stage[o] = "executing" /\ turn[t] = "current" => t = TurnOf[o]

\* Awaits end: every process and request has a time limit, and file operations
\* are finite.
FairSpec == Spec /\ \A o \in Operations : WF_vars(Starts(o) \/ Settles(o))

\* No request waits for ever behind the others, even if they fail, expire or
\* are cancelled while they wait.
OperationsSettle ==
  \A o \in Operations : InFlight(o) ~> stage[o] = "settled"
=============================================================================
